----------------------------- MODULE RecordLocks -----------------------------
(***************************************************************************)
(* The transactions of ApprovalWorkflow statement by statement, as         *)
(* PostgreSQL runs them under READ COMMITTED: an unlocked read sees what   *)
(* is committed, a lock is held until the transaction ends, and a row is   *)
(* looked at again once its lock is there.  A transaction writes with its  *)
(* last statement, after every lock it waits for; the one row it inserts   *)
(* earlier, a new change request, is locked and unseen until the commit.   *)
(***************************************************************************)
EXTENDS Naturals, FiniteSets

CONSTANTS
  Sessions,    \* the connections of runtime roles
  Creates,     \* bound: create requests, and the records of the same ids
  Mutations,   \* bound: update and delete requests
  Deletes,     \* those of Mutations that delete
  Undecided,   \* bound: the requests nobody decides
  AutoApplied, \* the requests whose policy applies them at once
  Due,         \* the records whose validity window has closed
  IdentityOf,  \* the identity of each create
  Target       \* the record each mutation names

ASSUME LockConstants ==
  /\ Creates \cup Mutations \subseteq Nat \ {0} /\ Creates \cap Mutations = {}
  /\ IsFiniteSet(Mutations)
  /\ Due \subseteq Creates /\ Deletes \subseteq Mutations
  /\ AutoApplied \cup Undecided \subseteq Creates \cup Mutations
  /\ Target \in [Mutations -> Creates]

VARIABLES
  request,   \* the status of each change request, committed
  expected,  \* expected_revision of each mutation
  record,    \* status and revision of each record, committed
  purge,     \* the hard purge request of each record
  session    \* the transaction of each connection

vars == <<request, expected, record, purge, session>>

Requests == Creates \cup Mutations
Statuses == {"none", "pending", "approved", "rejected", "superseded", "deleted"}
Decisions == {"approve", "reject"}
Locks == {"memory", "record", "purge"} \X Creates \cup {"request"} \X Requests

NoRecord == [status |-> "none", revision |-> 0]
Idle == [pc |-> "idle", locks |-> {}]

\* of: locked_record_id, the record as the transaction read it, unlocked.
\* todo: the records still to lock, or the requests still to delete, of those
\* chosen; next: the one a scan has come to, 0 at its end.
Transactions ==
  [pc : {"memory", "target", "insert", "lookup", "request", "row", "purge",
         "purged record", "delete", "asked record", "expire"},
   do : {"submit", "decide", "request purge", "approve purge", "expire"},
   on : Requests \cup {0}, of : Creates \cup {0}, decision : Decisions,
   revision : Nat, next : Requests \cup {0}, todo : SUBSET Requests, chosen : SUBSET Requests,
   locks : SUBSET Locks]

\* The types of the variables; two transactions never hold one lock.
TypeOK ==
  /\ request \in [Requests -> Statuses]
  /\ expected \in [Mutations -> Nat]
  /\ record \in [Creates -> [status : {"none", "active", "tombstoned", "expired"},
                             revision : Nat]]
  /\ purge \in [Creates -> {"none", "pending", "purged"}]
  /\ session \in [Sessions -> {Idle} \cup Transactions]
  /\ \A s, t \in Sessions : s # t => session[s].locks \cap session[t].locks = {}

Init ==
  /\ request = [q \in Requests |-> "none"]
  /\ expected = [q \in Mutations |-> 0]
  /\ record = [r \in Creates |-> NoRecord]
  /\ purge = [r \in Creates |-> "none"]
  /\ session = [s \in Sessions |-> Idle]

----------------------------------------------------------------------------
(* Locks *)

At(s, pc) == session[s].pc = pc

Free(s, lock) == \A t \in Sessions \ {s} : lock \notin session[t].locks

\* The record of a request, NULL (here 0) for a create that is not approved.
RecordOf(q) ==
  IF q \in Mutations THEN Target[q] ELSE IF request[q] = "approved" THEN q ELSE 0

\* The lock a transaction needs for its next statement.
Wanted(s) ==
  CASE At(s, "memory") -> <<"memory", session[s].of>>
    [] session[s].pc \in {"target", "row", "purged record", "asked record"} ->
         <<"record", session[s].of>>
    [] session[s].pc \in {"insert", "request"} -> <<"request", session[s].on>>
    [] At(s, "purge") -> <<"purge", session[s].on>>
    [] At(s, "delete") /\ session[s].next # 0 -> <<"request", session[s].next>>
    [] At(s, "expire") /\ session[s].next # 0 -> <<"record", session[s].next>>
    [] OTHER -> <<>>

MoveWith(s, lock, pc) ==
  /\ Free(s, lock)
  /\ session' = [session EXCEPT ![s] = [session[s] EXCEPT !.pc = pc, !.locks = @ \cup {lock}]]

\* COMMIT, and ROLLBACK after a RAISE, release every lock.
End(s) == session' = [session EXCEPT ![s] = Idle]

\* The rows a scan may come to, of those it has not come to yet: in any order.
Scanned(todo) == IF todo = {} THEN {0} ELSE todo

Begin(s, do, on, of, decision, pc) ==
  /\ session[s] = Idle
  /\ session' = [session EXCEPT ![s] =
       [pc |-> pc, do |-> do, on |-> on, of |-> of, decision |-> decision, revision |-> 0,
        next |-> 0, todo |-> {}, chosen |-> {}, locks |-> {}]]
  /\ UNCHANGED <<request, expected, record, purge>>

----------------------------------------------------------------------------
(* submit_change_request *)

\* A mutation locks its record first; a create starts with its INSERT.
\* A submission may be repeated, even while it runs.
Submit(s, q) ==
  /\ request[q] # "deleted"
  /\ Begin(s, "submit", q, RecordOf(q), "approve",
           IF q \in Mutations THEN "memory" ELSE "insert")

\* Mutant of LockTarget: the target is not looked at under its lock.
LockTargetBlindly(s) ==
  /\ At(s, "target")
  /\ Free(s, Wanted(s))
  /\ session' = [session EXCEPT ![s] = [session[s] EXCEPT
         !.pc = "insert",
         !.revision = record[session[s].of].revision,
         !.locks = @ \cup {Wanted(s)}]]
  /\ UNCHANGED <<request, expected, record, purge>>

\* The record is read under both locks; the revision seen is captured.
LockTarget(s) ==
  /\ At(s, "target")
  /\ \/ /\ record[session[s].of].status = "active"
        /\ Free(s, Wanted(s))
        /\ session' = [session EXCEPT ![s] = [session[s] EXCEPT
               !.pc = "insert",
               !.revision = record[session[s].of].revision,
               !.locks = @ \cup {Wanted(s)}]]
     \/ /\ record[session[s].of].status # "active"
        /\ Free(s, Wanted(s))
        /\ End(s)
  /\ UNCHANGED <<request, expected, record, purge>>

\* A request that is new and not applied at once is committed here.  A row
\* that a purge deleted meanwhile would return under a new id: a bound.
InsertRequest(s) ==
  LET q == session[s].on IN
  /\ At(s, "insert")
  /\ \/ /\ q \in AutoApplied /\ request[q] # "deleted"
        /\ MoveWith(s, Wanted(s), "lookup")
        /\ UNCHANGED request
     \/ /\ q \notin AutoApplied \/ request[q] = "deleted"
        /\ Free(s, Wanted(s)) /\ End(s)
        /\ request' = [request EXCEPT ![q] = IF @ = "none" THEN "pending" ELSE @]
  /\ expected' = [p \in Mutations |->
       IF p = q /\ request[q] = "none" THEN session[s].revision ELSE expected[p]]
  /\ UNCHANGED <<record, purge>>

----------------------------------------------------------------------------
(* apply_change_request *)

Decide(s, q, decision) ==
  /\ request[q] # "none" /\ q \notin Undecided
  /\ Begin(s, "decide", q, 0, decision, "lookup")

\* A transaction sees its own INSERT, the others do not.
Visible(s, q) ==
  \/ request[q] \notin {"none", "deleted"}
  \/ (session[s].do = "submit" /\ request[q] = "none")

\* Mutant of ReadRecordId: the request is locked without its record, as
\* before migration 0020.
RequestFirst(s) ==
  /\ At(s, "lookup")
  /\ IF ~Visible(s, session[s].on) THEN End(s)
     ELSE session' = [session EXCEPT ![s] = [session[s] EXCEPT
              !.of = RecordOf(session[s].on),
              !.pc = "request"]]
  /\ UNCHANGED <<request, expected, record, purge>>

\* record_id is read without a lock, and decides which lock comes first.
ReadRecordId(s) ==
  /\ At(s, "lookup")
  /\ LET of == RecordOf(session[s].on) IN
     IF ~Visible(s, session[s].on) THEN End(s)
     ELSE session' = [session EXCEPT ![s] = [session[s] EXCEPT
              !.of = of,
              !.pc = IF of = 0 THEN "request" ELSE "memory"]]
  /\ UNCHANGED <<request, expected, record, purge>>

Settle(q, status) == request' = [request EXCEPT ![q] = status]

\* The request is looked at again under its lock.
LockRequest(s) ==
  LET q == session[s].on IN
  /\ At(s, "request")
  /\ \/ /\ Visible(s, q)
        /\ request[q] \in {"none", "pending"} /\ session[s].decision = "approve"
        /\ MoveWith(s, Wanted(s), "row")
        /\ UNCHANGED request
     \/ /\ Visible(s, q) /\ request[q] = "pending" /\ session[s].decision = "reject"
        /\ Free(s, Wanted(s)) /\ End(s)
        /\ Settle(q, "rejected")
     \/ /\ ~Visible(s, q) \/ request[q] \notin {"none", "pending"}
        /\ Free(s, Wanted(s)) /\ End(s)
        /\ UNCHANGED request
  /\ UNCHANGED <<expected, record, purge>>

IdentityFree(q) ==
  \A r \in Creates :
    record[r].status = "active" => IdentityOf[r] # IdentityOf[q]

\* INSERT ... ON CONFLICT DO NOTHING.
CreateRecord(s) ==
  LET q == session[s].on IN
  /\ At(s, "row") /\ q \in Creates
  /\ End(s)
  /\ \/ /\ IdentityFree(q)
        /\ Settle(q, "approved")
        /\ record' = [record EXCEPT ![q] = [status |-> "active", revision |-> 1]]
     \/ /\ ~IdentityFree(q)
        /\ Settle(q, "superseded")
        /\ UNCHANGED record
  /\ UNCHANGED <<expected, purge>>

Applicable(q) ==
  /\ record[Target[q]].status = "active"
  /\ record[Target[q]].revision = expected[q]

\* The record is locked, looked at again and written.
MutateRecord(s) ==
  LET q == session[s].on IN
  /\ At(s, "row") /\ q \in Mutations
  /\ Free(s, Wanted(s)) /\ End(s)
  /\ \/ /\ Applicable(q)
        /\ Settle(q, "approved")
        /\ record' = [record EXCEPT ![Target[q]] =
             [status |-> IF q \in Deletes THEN "tombstoned" ELSE "active",
              revision |-> @.revision + 1]]
     \/ /\ ~Applicable(q)
        /\ Settle(q, "superseded")
        /\ UNCHANGED record
  /\ UNCHANGED <<expected, purge>>

----------------------------------------------------------------------------
(* Hard purge *)

RequestPurge(s, r) ==
  /\ purge[r] = "none"
  /\ Begin(s, "request purge", r, r, "approve", "memory")

StorePurgeRequest(s) ==
  LET r == session[s].on IN
  /\ At(s, "asked record")
  /\ Free(s, Wanted(s)) /\ End(s)
  /\ purge' = [purge EXCEPT ![r] = IF record[r] = NoRecord THEN @ ELSE "pending"]
  /\ UNCHANGED <<request, expected, record>>

ApprovePurge(s, r) ==
  /\ purge[r] # "none"
  /\ Begin(s, "approve purge", r, r, "approve", "memory")

\* Once the lock of the record is there.  A retry may hold its request already.
AfterMemory(s) ==
  CASE session[s].do = "request purge" -> "asked record"
    [] session[s].do = "approve purge" -> "purge"
    [] session[s].do = "submit" /\ <<"request", session[s].on>> \notin session[s].locks ->
         "target"
    [] OTHER -> "request"

\* lock_memory_record, for every function that calls it.
LockMemory(s) ==
  /\ At(s, "memory")
  /\ MoveWith(s, Wanted(s), AfterMemory(s))
  /\ UNCHANGED <<request, expected, record, purge>>

LockPurge(s) ==
  /\ At(s, "purge")
  /\ \/ /\ purge[session[s].on] = "pending"
        /\ MoveWith(s, Wanted(s), "purged record")
     \/ /\ purge[session[s].on] # "pending"
        /\ Free(s, Wanted(s)) /\ End(s)
  /\ UNCHANGED <<request, expected, record, purge>>

\* Pending creates that would bring the identity back.
Stale(r) ==
  {q \in Creates : request[q] = "pending" /\ IdentityOf[q] = IdentityOf[r]}

Naming(r) ==
  {q \in Requests : request[q] \notin {"none", "deleted"} /\ RecordOf(q) = r}

\* The record is locked and the requests to delete are read, without locks.
CollectRequests(s) ==
  LET r == session[s].on
      chosen == Stale(r) \cup Naming(r) IN
  /\ At(s, "purged record")
  /\ Free(s, Wanted(s))
  /\ \/ /\ record[r] = NoRecord
        /\ End(s)
     \/ /\ record[r] # NoRecord
        /\ \E q \in Scanned(chosen) :
             session' = [session EXCEPT ![s] = [session[s] EXCEPT
               !.pc = "delete", !.next = q, !.todo = chosen, !.chosen = chosen,
               !.locks = @ \cup {Wanted(s)}]]
  /\ UNCHANGED <<request, expected, record, purge>>

\* DELETE FROM change_request waits for one row after the other, in the order of
\* its scan (there is no ORDER BY) ...
DeleteRequest(s) ==
  LET left == session[s].todo \ {session[s].next} IN
  /\ At(s, "delete") /\ session[s].todo # {}
  /\ Free(s, Wanted(s))
  /\ \E q \in Scanned(left) :
       session' = [session EXCEPT ![s] = [session[s] EXCEPT
         !.next = q, !.todo = left, !.locks = @ \cup {Wanted(s)}]]
  /\ UNCHANGED <<request, expected, record, purge>>

\* ... and the rest of the purge needs no lock that is not held.
EraseRecord(s) ==
  LET r == session[s].on IN
  /\ At(s, "delete") /\ session[s].todo = {}
  /\ request' = [q \in Requests |->
       IF q \in session[s].chosen THEN "deleted" ELSE request[q]]
  /\ record' = [record EXCEPT ![r] = NoRecord]
  /\ purge' = [purge EXCEPT ![r] = "purged"]
  /\ End(s)
  /\ UNCHANGED expected

----------------------------------------------------------------------------
(* expire_records *)

\* One statement: its snapshot names the rows, in the order of valid_to.  An
\* update may change that between two snapshots, so any order may come of it.
\* No record lock of lock_memory_record is taken.
Expire(s) ==
  LET due == {r \in Due : record[r].status = "active"} IN
  /\ session[s] = Idle /\ due # {}
  /\ \E r \in due :
       session' = [session EXCEPT ![s] =
         [pc |-> "expire", do |-> "expire", on |-> 0, of |-> 0, decision |-> "approve",
          revision |-> 0, next |-> r, todo |-> due, chosen |-> {}, locks |-> {}]]
  /\ UNCHANGED <<request, expected, record, purge>>

\* The locks of the rows that are still there, and of those the ones to expire.
LockNext(s, there, chosen) ==
  LET left == session[s].todo \ {session[s].next} IN
  /\ At(s, "expire") /\ session[s].todo # {}
  /\ Free(s, Wanted(s))
  /\ \E r \in Scanned(left) :
       session' = [session EXCEPT ![s] = [session[s] EXCEPT
         !.next = r, !.todo = left, !.chosen = @ \cup chosen,
         !.locks = @ \cup {<<"record", d>> : d \in there}]]
  /\ UNCHANGED <<request, expected, record, purge>>

There(s) == {d \in Due \cap {session[s].next} : record[d] # NoRecord}

\* Mutant of LockDue: a row is expired although it changed meanwhile.
LockDueBlindly(s) == LockNext(s, There(s), There(s))

\* A row that is no longer active when its lock is there is left out.
LockDue(s) ==
  LockNext(s, There(s), {d \in There(s) : record[d].status = "active"})

ExpireDue(s) ==
  /\ At(s, "expire") /\ session[s].todo = {}
  /\ record' = [r \in Creates |->
       IF r \in session[s].chosen THEN [record[r] EXCEPT !.status = "expired"]
       ELSE record[r]]
  /\ End(s)
  /\ UNCHANGED <<request, expected, purge>>

----------------------------------------------------------------------------
(* PostgreSQL ends one transaction of a circle with error 40P01. *)

WaitsFor(s, t) ==
  /\ s # t /\ session[s].pc # "idle"
  /\ Wanted(s) \in session[t].locks

Circle(S) == S # {} /\ \A s \in S : \E t \in S : WaitsFor(s, t)

Deadlocked == UNION {S \in SUBSET Sessions : Circle(S)}

DetectDeadlock(s) ==
  /\ s \in Deadlocked
  /\ End(s)
  /\ UNCHANGED <<request, expected, record, purge>>

Next ==
  \E s \in Sessions :
    \/ \E q \in Requests :
         \/ Submit(s, q)
         \/ \E decision \in Decisions : Decide(s, q, decision)
    \/ \E r \in Creates : RequestPurge(s, r) \/ ApprovePurge(s, r)
    \/ Expire(s)
    \/ LockMemory(s) \/ LockTarget(s) \/ InsertRequest(s)
    \/ ReadRecordId(s) \/ LockRequest(s) \/ CreateRecord(s) \/ MutateRecord(s)
    \/ StorePurgeRequest(s) \/ LockPurge(s) \/ CollectRequests(s)
    \/ DeleteRequest(s) \/ EraseRecord(s)
    \/ LockDue(s) \/ ExpireDue(s)
    \/ DetectDeadlock(s)

Spec == Init /\ [][Next]_vars

----------------------------------------------------------------------------
(* Properties *)

\* A repeated create has locked its request, which is applied by now, before
\* its record.
Repeats(s) ==
  At(s, "memory") /\ <<"request", session[s].on>> \in session[s].locks

\* Purges of records that had one identity delete the same pending creates, and
\* expiries the same records, each in the order of its scan.
ScanTheSame(S) ==
  \/ \A s \in S : At(s, "expire")
  \/ /\ \A s \in S : At(s, "delete")
     /\ \A s, t \in S : IdentityOf[session[s].on] = IdentityOf[session[t].on]

\* Transactions wait for each other, directly or in a circle, only if one of them
\* repeats a create that was applied at once, or if some of them scan the same
\* rows: every function locks the record before its requests (0020:280-286,
\* 505-507), so no decision, no submission and no purge request is ever part of
\* a deadlock of its own.
OnlyScansDeadlock ==
  \A S \in SUBSET Sessions :
    Circle(S) =>
      \/ \E s \in S : Repeats(s)
      \/ \E T \in SUBSET S : Circle(T) /\ ScanTheSame(T)

\* A record has exactly one revision for its create and for each mutation of
\* it that is approved, so no update overwrites another one unseen, whatever
\* transactions run at once, wait and are ended (0020:386-423).
RevisionsApproved ==
  \A r \in Creates : record[r] # NoRecord =>
    record[r].revision =
      1 + Cardinality({q \in Mutations : Target[q] = r /\ request[q] = "approved"})

\* Between commits no change request names a record that is purged, whoever
\* proposed it while the purge waited for its locks (0020:742-750).
NoneNamesPurged ==
  \A q \in Requests :
    request[q] \notin {"none", "deleted"} /\ RecordOf(q) # 0 =>
      record[RecordOf(q)] # NoRecord

\* Requests, revisions and purges agree between commits.
TablesAgree == RevisionsApproved /\ NoneNamesPurged

\* A record that was tombstoned or expired is never written again, although
\* expire_records takes no record lock of the other functions and its rows
\* change while it waits for them (0011:26-32, 0020:386-398).
ClosedStaysClosed ==
  [][\A r \in Creates : record[r].status \in {"tombstoned", "expired"} =>
       record'[r] \in {record[r], NoRecord}]_vars

=============================================================================
