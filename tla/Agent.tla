-------------------------------- MODULE Agent --------------------------------
(***************************************************************************)
(* What Hermes does with the plugin in one agent process: it recalls for a *)
(* turn, synchronises a turn, and runs the commands of people.  The three  *)
(* share no state but the store, which other modules look into, so a       *)
(* behaviour of the agent is one of any of them, with the others at rest.  *)
(***************************************************************************)
EXTENDS Recall

CONSTANTS
  Handlers, Requests,  \* of HumanDecisions
  Candidates, Junk, PerTurn, MaxExtractors, MaxTurns,  \* of TurnSync
  Null

VARIABLES
  activity,  \* which part this behaviour is about
  request, lapsed, stale, handler, said,  \* of HumanDecisions
  extractors, turns, turn, due, yielded, tried, stored  \* of TurnSync

H == INSTANCE HumanDecisions
T == INSTANCE TurnSync

ASSUME TurnConstants == T!SyncConstants

commands == <<request, lapsed, stale, handler, said>>
turnaround == <<extractors, turns, turn, due, yielded, tried, stored>>
agent == <<vars, commands, turnaround, activity>>

AgentInit ==
  /\ activity \in {"recall", "turn", "command"}
  /\ Init /\ (activity # "recall" => active = {})
  /\ H!Init /\ T!Init

AgentNext ==
  /\ \/ activity = "recall" /\ Next /\ UNCHANGED <<commands, turnaround>>
     \/ activity = "turn" /\ T!Next /\ UNCHANGED <<vars, commands>>
     \/ activity = "command" /\ H!Next /\ UNCHANGED <<vars, turnaround>>
  /\ UNCHANGED activity

AgentSpec == AgentInit /\ [][AgentNext]_agent

\* The gateway honours the timeout it is given, and coroutines are resumed.
Resumed ==
  \A h \in Handlers :
    WF_agent(/\ activity = "command" /\ H!Step(h)
             /\ UNCHANGED <<vars, turnaround, activity>>)

LiveSpec == AgentSpec /\ Resumed

----------------------------------------------------------------------------
(* Properties: those of Recall, and *)

\* Failures are isolated: a turn that ends has asked every extractor and tried
\* each candidate exactly as often as those that did not raise yielded it among
\* their first items, whatever raised before or between.
FailuresIsolated == T!TypeOK /\ T!FailuresIsolated

\* Nothing is decided but by a person: a request is approved only if someone
\* approved it, and rejected only if someone rejected it, whatever timed out,
\* was pressed late or was pressed beside a command; and a final status told in
\* a reply is and stays the status of the request.
PeopleDecide == H!TypeOK /\ H!PeopleDecide /\ H!ReplyHolds

\* Every command that asks for a decision gets its reply, pressed or not; only
\* the question about a purge raises instead.
CommandsReply ==
  \A h \in Handlers :
    H!At(h, "ask") ~> \/ H!At(h, "replied")
                      \/ H!At(h, "raised") /\ handler[h].request = Null

=============================================================================
