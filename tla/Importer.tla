------------------------------ MODULE Importer ------------------------------
(***************************************************************************)
(* The candidate import: runs of import_candidates that read pages of a    *)
(* source, submit every fact of a page and then save a checkpoint, while   *)
(* the source grows and changes, other runs of the same import go on,      *)
(* submitted facts are approved, and runs end anywhere.                    *)
(*                                                                         *)
(* A fact is the number of its row, as in HolographicSQLiteSource; its     *)
(* identity key is that number.  The checkpoint 0 is None: both start at   *)
(* the first row.  Of the store only what a submission may answer is kept: *)
(* the contents asked for by create requests and the recorded content.     *)
(*                                                                         *)
(* A dry run moves its checkpoint past facts that nobody submitted.  Each   *)
(* checkpoint carries, as history, whether it is ahead: whether a dry run  *)
(* moved it, or the run it comes from had started at one that is.          *)
(***************************************************************************)
EXTENDS Integers, Sequences, FiniteSets

CONSTANTS
  Profiles,       \* whoever imports, each into the private namespace
  Runs,           \* bound: the processes that import
  Contents,       \* what a fact may say
  Written,        \* bound: what a fact says at first
  Rejected,       \* the facts whose submission raises ValueError
  MaxFacts,       \* bound: the rows the source gets
  MaxEdits,       \* bound: the changes of rows
  MaxStops,       \* bound: the runs that end early
  BatchSize,      \* batch_size
  Null

ASSUME ImporterConstants ==
  /\ Null \notin Contents /\ Written \subseteq Contents
  /\ Rejected \subseteq Nat
  /\ MaxFacts \in Nat /\ MaxEdits \in Nat /\ MaxStops \in Nat
  /\ BatchSize \in 1..500

VARIABLES
  fact,       \* the rows of the source, in the order of fact_id
  edits,      \* how many rows have changed
  asked,      \* contents of the create requests, by profile and fact
  recorded,   \* content of the active record, by profile and fact
  saved,      \* the stored checkpoints with their reports
  noted,      \* the checkpoint of the last report a profile was returned
  run,        \* the local variables of each import
  stops       \* the runs that ended early so far

store == <<asked, recorded>>
source == <<fact, edits>>
vars == <<source, store, saved, noted, run, stops>>

Facts == 1..MaxFacts
Counters == {"seen", "proposed", "duplicates", "conflicts", "rejected"}
Zero == [k \in Counters |-> 0]

Idle == [pc |-> "idle"]
Report == [Counters -> Nat]

NotNoted == [checkpoint |-> 0, ahead |-> FALSE]
NotSaved == [checkpoint |-> 0, ahead |-> FALSE, report |-> Zero]
Noted == [checkpoint : 0..MaxFacts, ahead : BOOLEAN]
Saved == [checkpoint : 0..MaxFacts, ahead : BOOLEAN, report : Report]

RunState ==
  [pc : {"page", "submit", "save"}, profile : Profiles, dry_run : BOOLEAN,
   current : 0..MaxFacts, ahead : BOOLEAN, next : 0..MaxFacts,
   candidates : Seq([id : Facts, content : Contents]), report : Report]

\* Every variable holds what the code keeps there, and a run submits exactly
\* as long as candidates of its page are left.
TypeOK ==
  /\ fact \in Seq(Contents) /\ Len(fact) <= MaxFacts
  /\ edits \in 0..MaxEdits /\ stops \in 0..MaxStops
  /\ asked \in [Profiles -> [Facts -> SUBSET Contents]]
  /\ recorded \in [Profiles -> [Facts -> Contents \cup {Null}]]
  /\ saved \in [Profiles -> Saved]
  /\ noted \in [Profiles -> Noted]
  /\ run \in [Runs -> RunState \cup {Idle}]
  /\ \A r \in Runs : run[r] # Idle =>
       (run[r].pc = "submit" <=> run[r].candidates # <<>>)

Init ==
  /\ fact = <<>> /\ edits = 0 /\ stops = 0
  /\ asked = [p \in Profiles |-> [f \in Facts |-> {}]]
  /\ recorded = [p \in Profiles |-> [f \in Facts |-> Null]]
  /\ saved = [p \in Profiles |-> NotSaved]
  /\ noted = [p \in Profiles |-> NotNoted]
  /\ run = [r \in Runs |-> Idle]

----------------------------------------------------------------------------
(* import_candidates *)

Started(p, dry, from) ==
  [pc |-> "page", profile |-> p, dry_run |-> dry, current |-> from.checkpoint,
   ahead |-> from.ahead, next |-> 0, candidates |-> <<>>, report |-> Zero]

StartFrom(r, p, dry, from) ==
  /\ run[r] = Idle
  /\ run' = [run EXCEPT ![r] = Started(p, dry, from)]
  /\ UNCHANGED <<source, store, saved, noted, stops>>

\* From the checkpoint the caller names, that of a report, or else from the
\* stored one, or without a store from the first row.
StartImport(r, p, dry) ==
  \E from \in {saved[p], NotNoted} \cup ({noted[p]} \ {NotNoted}) :
    StartFrom(r, p, dry, from)

Least(a, b) == IF a < b THEN a ELSE b

\* The rows after the checkpoint, as they are now.
Page(after) ==
  [i \in 1..(Least(after + BatchSize, Len(fact)) - after) |->
     [id |-> after + i, content |-> fact[after + i]]]

Count(report, counter, n) == [report EXCEPT ![counter] = @ + n]

\* The report that is returned says where the run has got to, in a dry run too.
Return(r) ==
  /\ run' = [run EXCEPT ![r] = Idle]
  /\ noted' = [noted EXCEPT ![run[r].profile] =
       [checkpoint |-> run[r].current, ahead |-> run[r].ahead]]

\* An empty page ends the import; a dry run passes over a page.
ReadPage(r) ==
  LET me == run[r]
      candidates == Page(me.current)
      counted == [me EXCEPT !.report = Count(@, "seen", Len(candidates))]
  IN /\ me.pc = "page"
     /\ \/ candidates = <<>> /\ Return(r)
        \/ /\ candidates # <<>>
           /\ run' = [run EXCEPT ![r] =
                IF me.dry_run
                THEN [counted EXCEPT !.current = @ + Len(candidates), !.ahead = TRUE]
                ELSE [counted EXCEPT !.pc = "submit", !.candidates = candidates,
                                     !.next = me.current + Len(candidates)]]
           /\ UNCHANGED noted
     /\ UNCHANGED <<source, store, saved, stops>>

\* submit_candidate: assessed against the active record; a new one becomes a
\* create request, unless one for the same content exists.  Where the policy
\* applies it, the approval is an ApproveCreate that comes at once.
Assessment(p, c) ==
  IF recorded[p][c.id] = Null THEN "proposed"
  ELSE IF recorded[p][c.id] = c.content THEN "duplicates" ELSE "conflicts"

Submitted(p, c) ==
  IF Assessment(p, c) # "proposed" THEN UNCHANGED store
  ELSE /\ asked' = [asked EXCEPT ![p][c.id] = @ \cup {c.content}]
       /\ UNCHANGED recorded

\* One candidate less; after the last one the checkpoint moves.
Taken(me, counter) ==
  LET rest == [me EXCEPT !.candidates = Tail(@), !.report = Count(@, counter, 1)]
  IN IF rest.candidates = <<>> THEN [rest EXCEPT !.pc = "save"] ELSE rest

\* A ValueError of the submission is counted and passed over.
SubmitNext(r) ==
  LET me == run[r] IN
  /\ me.pc = "submit"
  /\ IF Head(me.candidates).id \in Rejected
     THEN /\ run' = [run EXCEPT ![r] = Taken(me, "rejected")]
          /\ UNCHANGED store
     ELSE LET c == Head(me.candidates) IN
          /\ run' = [run EXCEPT ![r] = Taken(me, Assessment(me.profile, c))]
          /\ Submitted(me.profile, c)
  /\ UNCHANGED <<source, saved, noted, stops>>

\* With a checkpoint store, the report goes with the checkpoint; without one
\* the import goes on.
SaveCheckpoint(r) ==
  LET me == run[r] IN
  /\ me.pc = "save"
  /\ run' = [run EXCEPT ![r].pc = "page", ![r].current = me.next]
  /\ \/ saved' = [saved EXCEPT ![me.profile] =
                    [checkpoint |-> me.next, ahead |-> me.ahead, report |-> me.report]]
     \/ UNCHANGED saved
  /\ UNCHANGED <<source, store, noted, stops>>

\* Mutant of Stop: a CommandError is passed over like a rejection.
PassOver(r) ==
  /\ stops < MaxStops
  /\ stops' = stops + 1
  /\ IF run[r].pc = "submit"
     THEN run' = [run EXCEPT ![r] = Taken(run[r], "rejected")]
     ELSE run[r] # Idle /\ run' = [run EXCEPT ![r] = Idle]
  /\ UNCHANGED <<source, store, saved, noted>>

\* Mutant of Stop: the page is saved although its end was not reached.
StopSaving(r) ==
  /\ run[r] # Idle
  /\ stops < MaxStops
  /\ stops' = stops + 1
  /\ run' = [run EXCEPT ![r] = Idle]
  /\ saved' = [saved EXCEPT ![run[r].profile] =
       IF run[r].pc = "submit"
       THEN [checkpoint |-> run[r].next, ahead |-> run[r].ahead, report |-> Zero]
       ELSE @]
  /\ UNCHANGED <<source, store, noted>>

\* A CommandError is raised out of the import, or its process is killed:
\* nothing is returned and nothing is saved.
Stop(r) ==
  /\ run[r] # Idle
  /\ stops < MaxStops
  /\ stops' = stops + 1
  /\ run' = [run EXCEPT ![r] = Idle]
  /\ UNCHANGED <<source, store, saved, noted>>

----------------------------------------------------------------------------
(* Meanwhile *)

\* Hermes adds a fact, or changes one.
AddFact(content) ==
  /\ Len(fact) < MaxFacts
  /\ fact' = Append(fact, content)
  /\ UNCHANGED <<edits, store, saved, noted, run, stops>>

EditFact(f, content) ==
  /\ f <= Len(fact) /\ fact[f] # content
  /\ edits < MaxEdits
  /\ edits' = edits + 1
  /\ fact' = [fact EXCEPT ![f] = content]
  /\ UNCHANGED <<store, saved, noted, run, stops>>

\* Someone approves a create; an identity has one active record.
ApproveCreate(p, f, content) ==
  /\ content \in asked[p][f] /\ recorded[p][f] = Null
  /\ recorded' = [recorded EXCEPT ![p][f] = content]
  /\ UNCHANGED <<source, asked, saved, noted, run, stops>>

Step(r) == ReadPage(r) \/ SubmitNext(r) \/ SaveCheckpoint(r)

Next ==
  \/ \E r \in Runs :
       \/ \E p \in Profiles, dry \in BOOLEAN : StartImport(r, p, dry)
       \/ Step(r)
       \/ Stop(r)
  \/ \E content \in Written : AddFact(content)
  \/ \E content \in Contents, f \in Facts :
       EditFact(f, content) \/ \E p \in Profiles : ApproveCreate(p, f, content)

Spec == Init /\ [][Next]_vars

\* A run that is not stopped goes on, and whoever imports does so again and
\* again from the stored checkpoint, whatever other runs are made in between.
Restarted ==
  /\ \A r \in Runs : WF_vars(Step(r))
  /\ \A p \in Profiles :
       SF_vars(\E r \in Runs : StartFrom(r, p, FALSE, saved[p]))

LiveSpec == Spec /\ Restarted

----------------------------------------------------------------------------
(* Properties *)

\* The fact was submitted for the profile, or its submission was refused.
Handled(p, f) == f \in Rejected \/ asked[p][f] # {}

\* Wherever an import may resume, from a stored checkpoint, from a returned
\* one or on its next page, all facts before were handled, unless a dry run has
\* been there: whatever run stopped where, however many run at once, nothing is
\* skipped that no dry run has passed over (importer.py:95-140).
NothingSkipped ==
  /\ \A p \in Profiles, f \in Facts :
       \/ f <= saved[p].checkpoint /\ ~saved[p].ahead
       \/ f <= noted[p].checkpoint /\ ~noted[p].ahead
       => Handled(p, f)
  /\ \A r \in Runs, f \in Facts :
       run[r] # Idle /\ ~run[r].ahead /\ f <= run[r].current
         => Handled(run[r].profile, f)

\* A saved report accounts for every candidate its import has seen.
ReportsExplained ==
  \A p \in Profiles :
    LET report == saved[p].report
    IN report["seen"] = report["proposed"] + report["duplicates"]
                          + report["conflicts"] + report["rejected"]

\* However imports start, stop and overlap, what they save is where to resume
\* and what they did.
NothingLost == TypeOK /\ NothingSkipped /\ ReportsExplained

\* Every fact is handled in the end for whoever keeps importing, unless someone
\* resumes from where a dry run has got to and so stores a checkpoint that is
\* ahead.
EverythingImported ==
  \A p \in Profiles, f \in Facts :
    Len(fact) >= f ~> Handled(p, f) \/ saved[p].ahead

=============================================================================
