--------------------------- MODULE HumanDecisions ---------------------------
(***************************************************************************)
(* The slash command and the inline decision it asks a person for: a       *)
(* handler that runs a command, awaits the buttons of the gateway while    *)
(* other commands decide, time passes and records change, and then decides *)
(* the request itself.  What a decision does to records is the subject of  *)
(* ApprovalWorkflow; here it is the status it leads to.                    *)
(***************************************************************************)
EXTENDS Naturals, FiniteSets

CONSTANTS
  Handlers,   \* the commands that run, each once
  Requests,   \* bound: the change requests there can be
  Null

VARIABLES
  request,   \* the status of each change request
  lapsed,    \* the requests past their expires_at
  stale,     \* the requests whose record changed since
  handler,   \* the local variables of each command
  said       \* what people decided of each request: a button, a command, a policy

vars == <<request, lapsed, stale, handler, said>>

Decisions == {"approve", "reject"}
Final == {"approved", "rejected", "expired", "superseded"}
Statuses == {"none", "pending"} \cup Final

Idle == [pc |-> "idle"]

\* A result of the gateway is a decision, or Null where ok is missing.
Handler ==
  [pc : {"ask", "waiting", "returned", "replied", "raised"},
   request : Requests \cup {Null}, result : Decisions \cup {Null},
   reply : Statuses \cup {"error", "purge requested"}]

\* The types of the variables; a person is asked, and answers, only about a
\* change request, never about a purge (general_plugin.py:98-124).
TypeOK ==
  /\ request \in [Requests -> Statuses]
  /\ lapsed \subseteq Requests /\ stale \subseteq Requests
  /\ handler \in [Handlers -> Handler \cup {Idle}]
  /\ \A h \in Handlers :
       handler[h] # Idle /\ handler[h].pc \in {"waiting", "returned"} =>
         handler[h].request # Null
  /\ said \in [Requests -> SUBSET Decisions]

Init ==
  /\ request = [r \in Requests |-> "none"]
  /\ lapsed = {} /\ stale = {}
  /\ handler = [h \in Handlers |-> Idle]
  /\ said = [r \in Requests |-> {}]

At(h, pc) == handler[h] # Idle /\ handler[h].pc = pc

Running(pc, r, status) ==
  [pc |-> pc, request |-> r, result |-> Null, reply |-> status]

----------------------------------------------------------------------------
(* execute_payload *)

\* What decide makes of a request.
Outcome(r, decision) ==
  IF request[r] # "pending" THEN request[r]
  ELSE IF r \in lapsed THEN "expired"
  ELSE IF decision = "reject" THEN "rejected"
  ELSE IF r \in stale THEN "superseded" ELSE "approved"

Decide(r, decision) == request' = [request EXCEPT ![r] = Outcome(r, decision)]

\* A new proposal waits, or its author's policy, which a person has set,
\* approves it at once: then it is applied, or superseded by what the store has.
Proposed(r, status) ==
  /\ request[r] = "none"
  /\ request' = [request EXCEPT ![r] = status]
  /\ said' = [said EXCEPT ![r] = IF status = "pending" THEN {} ELSE {"approve"}]

NewStatus == {"pending", "approved", "superseded"}

\* A proposal made again finds its request, and the policy of now approves it
\* where it still waits.
Repeated(r, auto) ==
  /\ request[r] # "none"
  /\ IF auto THEN /\ Decide(r, "approve")
                  /\ said' = [said EXCEPT ![r] = @ \cup {"approve"}]
     ELSE UNCHANGED <<request, said>>

\* Only a pending result of a command with a session leads to a question.
Propose(h, r, status, session) ==
  /\ handler[h] = Idle
  /\ Proposed(r, status)
  /\ handler' = [handler EXCEPT ![h] =
       Running(IF status = "pending" /\ session THEN "ask" ELSE "replied",
               r, status)]
  /\ UNCHANGED <<lapsed, stale>>

\* It may be a second question about a request that waits already.
Repeat(h, r, auto, session) ==
  LET status == IF auto THEN Outcome(r, "approve") ELSE request[r] IN
  /\ handler[h] = Idle
  /\ Repeated(r, auto)
  /\ handler' = [handler EXCEPT ![h] =
       Running(IF status = "pending" /\ session THEN "ask" ELSE "replied",
               r, status)]
  /\ UNCHANGED <<lapsed, stale>>

\* The AI tool proposes; nobody is asked for a decision.
ToolProposes(r) ==
  /\ \/ \E status \in NewStatus : Proposed(r, status)
     \/ Repeated(r, TRUE)
  /\ UNCHANGED <<lapsed, stale, handler>>

\* The result of a purge request is pending too, but is no change request.
RequestPurge(h, session) ==
  /\ handler[h] = Idle
  /\ handler' = [handler EXCEPT ![h] =
       Running(IF session THEN "ask" ELSE "replied", Null, "purge requested")]
  /\ UNCHANGED <<request, lapsed, stale, said>>

\* approve and reject, by anyone who may.
CommandDecides(h, r, decision) ==
  /\ handler[h] = Idle
  /\ request[r] # "none"
  /\ Decide(r, decision)
  /\ said' = [said EXCEPT ![r] = @ \cup {decision}]
  /\ handler' = [handler EXCEPT ![h] = Running("replied", r, Outcome(r, decision))]
  /\ UNCHANGED <<lapsed, stale>>

----------------------------------------------------------------------------
(* _request_human_decision *)

\* The question is worded from the operation, type and identity of the result;
\* a purge request has none, and the KeyError is not one of those the handler
\* turns into an answer.
Ask(h) ==
  /\ At(h, "ask")
  /\ handler' = [handler EXCEPT ![h].pc =
       IF handler[h].request = Null THEN "raised" ELSE "waiting"]
  /\ UNCHANGED <<request, lapsed, stale, said>>

\* A person presses a button.
Press(h, decision) ==
  /\ At(h, "waiting")
  /\ handler' = [handler EXCEPT ![h].pc = "returned", ![h].result = decision]
  /\ said' = [said EXCEPT ![handler[h].request] = @ \cup {decision}]
  /\ UNCHANGED <<request, lapsed, stale>>

\* Mutant of TimeOut: only while the request has not lapsed.
TimeOutUnlapsed(h) ==
  /\ At(h, "waiting") /\ handler[h].request \notin lapsed
  /\ handler' = [handler EXCEPT ![h].pc = "returned"]
  /\ UNCHANGED <<request, lapsed, stale, said>>

\* timeout_s has passed, or the gateway has no buttons.
TimeOut(h) ==
  /\ At(h, "waiting")
  /\ handler' = [handler EXCEPT ![h].pc = "returned"]
  /\ UNCHANGED <<request, lapsed, stale, said>>

\* Mutant of Resume: no decision means no.
ResumeRejecting(h) ==
  LET me == handler[h]
      decision == IF me.result = Null THEN "reject" ELSE me.result
  IN /\ At(h, "returned")
     /\ Decide(me.request, decision)
     /\ handler' = [handler EXCEPT ![h].pc = "replied",
                                   ![h].reply = Outcome(me.request, decision)]
     /\ UNCHANGED <<lapsed, stale, said>>

\* A decision is carried out, as decide finds the request now, unless the
\* person may no longer decide; without one the request is left as it is.
Resume(h) ==
  LET me == handler[h] IN
  /\ At(h, "returned")
  /\ \/ /\ me.result # Null
        /\ Decide(me.request, me.result)
        /\ handler' = [handler EXCEPT ![h].pc = "replied",
                                      ![h].reply = Outcome(me.request, me.result)]
     \/ /\ me.result # Null
        /\ handler' = [handler EXCEPT ![h].pc = "replied", ![h].reply = "error"]
        /\ UNCHANGED request
     \/ /\ me.result = Null
        /\ handler' = [handler EXCEPT ![h].pc = "replied"]
        /\ UNCHANGED request
  /\ UNCHANGED <<lapsed, stale, said>>

----------------------------------------------------------------------------
(* Meanwhile *)

Lapse(r) ==
  /\ request[r] = "pending" /\ r \notin lapsed
  /\ lapsed' = lapsed \cup {r}
  /\ UNCHANGED <<request, stale, handler, said>>

\* Another request of the record is applied.
RecordChanges(r) ==
  /\ request[r] = "pending" /\ r \notin stale
  /\ stale' = stale \cup {r}
  /\ UNCHANGED <<request, lapsed, handler, said>>

Step(h) == Ask(h) \/ TimeOut(h) \/ Resume(h)

Next ==
  \/ \E h \in Handlers :
       \/ \E session \in BOOLEAN :
            \/ \E r \in Requests :
                 \/ \E status \in NewStatus : Propose(h, r, status, session)
                 \/ \E auto \in BOOLEAN : Repeat(h, r, auto, session)
            \/ RequestPurge(h, session)
       \/ \E decision \in Decisions :
            \/ \E r \in Requests : CommandDecides(h, r, decision)
            \/ Press(h, decision)
       \/ Step(h)
  \/ \E r \in Requests :
       \/ ToolProposes(r)
       \/ Lapse(r)
       \/ RecordChanges(r)

Spec == Init /\ [][Next]_vars

----------------------------------------------------------------------------
(* Properties *)

\* Nothing is decided but by a person: a request asked inline is approved only
\* if someone approved it, and rejected only if someone rejected it, whatever
\* timed out, was pressed late or was pressed beside a command.
PeopleDecide ==
  \A r \in Requests :
    /\ request[r] \in {"approved", "superseded"} => "approve" \in said[r]
    /\ request[r] = "rejected" => "reject" \in said[r]
    /\ request[r] = "expired" => said[r] # {}

\* A final status told in a reply is and stays the status of the request.
ReplyHolds ==
  \A h \in Handlers :
    At(h, "replied") /\ handler[h].reply \in Final =>
      request[handler[h].request] = handler[h].reply

=============================================================================
