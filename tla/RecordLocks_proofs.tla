-------------------------- MODULE RecordLocks_proofs --------------------------
(***************************************************************************)
(* Theorems about RecordLocks for every number of connections, requests    *)
(* and records, repeated submissions included.                             *)
(***************************************************************************)
EXTENDS RecordLocks, FiniteSetTheorems, TLAPS

USE LockConstants

Holds(s, lock) == lock \in session[s].locks

\* Submissions and decisions: what they are about.
Deciding(s) ==
  session[s].pc \in {"target", "insert", "lookup", "request", "row"}
    \/ (session[s].pc = "memory" /\ session[s].do \in {"submit", "decide"}) =>
    /\ session[s].do \in {"submit", "decide"} /\ session[s].on \in Requests
    /\ session[s].pc \in {"target", "insert"} => session[s].do = "submit"
    /\ session[s].on \in Mutations /\ session[s].pc \in {"memory", "target", "request", "row"}
         => session[s].of = Target[session[s].on]

\* A submission has its request locked once that is inserted, and from then on
\* the record of a mutation too, so what it inserted stays true of it.
Pinning(s) ==
  session[s].pc # "idle" /\ session[s].do = "submit" =>
    /\ session[s].pc \in {"lookup", "request", "row"}
         => Holds(s, <<"request", session[s].on>>)
    /\ session[s].on \in Mutations
         /\ (session[s].pc = "insert" \/ Holds(s, <<"request", session[s].on>>))
         => Holds(s, <<"record", Target[session[s].on]>>)

\* What is to be applied is locked, and not settled.
Applying(s) ==
  session[s].pc = "row" =>
    /\ Holds(s, <<"request", session[s].on>>)
    /\ request[session[s].on] \in {"none", "pending"}
    /\ request[session[s].on] = "none" => session[s].do = "submit"

\* The lock of a record is waited for by a transaction that has one in mind.
Minded(s) ==
  /\ session[s].pc \in {"memory", "target"} =>
       session[s].of \in Creates /\ session[s].do # "expire"
  /\ session[s].pc # "idle" /\ session[s].do \in {"request purge", "approve purge"} =>
       session[s].on \in Creates /\ session[s].of = session[s].on
  /\ session[s].pc \in {"purge", "purged record", "delete", "asked record"} =>
       session[s].do \in {"request purge", "approve purge"}

\* A purge has its record locked and chosen whatever names the record, and the
\* creates it chose have the identity of that record.
Deleting(s) ==
  session[s].pc = "delete" =>
    /\ Holds(s, <<"record", session[s].on>>)
    /\ Naming(session[s].on) \subseteq session[s].chosen
    /\ \A q \in session[s].chosen \cap Mutations : Target[q] = session[s].on
    /\ \A q \in session[s].chosen \ Mutations : IdentityOf[q] = IdentityOf[session[s].on]
    /\ \A q \in session[s].chosen \ session[s].todo : Holds(s, <<"request", q>>)

\* The rows that an expiry chose are locked, and active still.
Expiring(s) ==
  session[s].pc = "expire" =>
    /\ session[s].todo \subseteq Creates /\ session[s].chosen \subseteq Creates
    /\ \A r \in session[s].chosen :
         Holds(s, <<"record", r>>) /\ record[r].status = "active"

\* The first lock of a record comes before every other lock of it, unless the
\* record is expired, and a record stays locked only for what will delete it or
\* is inserted for it.
RecordFirst(s) ==
  /\ \A q \in Mutations : Holds(s, <<"request", q>>) => Holds(s, <<"memory", Target[q]>>)
  /\ \A r \in Creates :
       /\ Holds(s, <<"purge", r>>) => Holds(s, <<"memory", r>>)
       /\ Holds(s, <<"record", r>>) /\ session[s].do # "expire" =>
            /\ Holds(s, <<"memory", r>>)
            /\ \/ session[s].pc = "delete"
               \/ /\ session[s].do = "submit" /\ session[s].on \in Mutations
                  /\ session[s].pc # "target"

\* What a statement may rely on being locked; a create has a record in mind
\* only once it is settled.
LockedBy(s) ==
  /\ session[s].pc = "lookup" /\ session[s].do = "decide" => session[s].locks = {}
  /\ session[s].pc = "memory" =>
       session[s].locks = {} \/ Holds(s, <<"request", session[s].on>>)
  /\ session[s].pc = "memory" /\ session[s].do = "submit" /\ session[s].on \in Creates =>
       Holds(s, <<"request", session[s].on>>)
  /\ session[s].pc \in {"target", "purge", "purged record", "asked record"} =>
       Holds(s, <<"memory", session[s].of>>)
  /\ session[s].pc = "target" => session[s].on \in Mutations
  /\ session[s].pc \in {"insert", "request", "row"} /\ session[s].on \in Mutations =>
       Holds(s, <<"memory", Target[session[s].on]>>)
  /\ session[s].pc \in {"memory", "request", "row"} /\ session[s].do \in {"submit", "decide"}
       /\ session[s].on \in Creates /\ session[s].of # 0 =>
       request[session[s].on] \in {"approved", "deleted"}

\* A request is locked by what is about it, or by a purge that deletes it.
OwnRequest(s) ==
  /\ session[s].pc # "idle" /\ session[s].do \in {"submit", "decide"} =>
       \A q \in Requests : Holds(s, <<"request", q>>) => q = session[s].on
  /\ session[s].pc # "idle" /\ session[s].do \in {"request purge", "approve purge"}
       /\ session[s].pc # "delete" =>
       \A q \in Requests : ~Holds(s, <<"request", q>>)

\* A scan has come to one of the rows that are left, and a purge has locked no
\* request but those it chose, an expiry nothing but records.
Scanning(s) ==
  /\ session[s].pc \in {"delete", "expire"} => session[s].next \in Scanned(session[s].todo)
  /\ session[s].pc = "delete" =>
       /\ session[s].todo \subseteq session[s].chosen
       /\ \A q \in Requests : Holds(s, <<"request", q>>) => q \in session[s].chosen
  /\ session[s].pc # "idle" => (session[s].pc = "expire" <=> session[s].do = "expire")
  /\ session[s].pc = "expire" => session[s].locks \subseteq {"record"} \X Creates

Ordered(s) == RecordFirst(s) /\ LockedBy(s) /\ OwnRequest(s) /\ Scanning(s)

Local(s) ==
  /\ Deciding(s) /\ Pinning(s) /\ Applying(s)
  /\ Minded(s) /\ Deleting(s) /\ Expiring(s)
  /\ Ordered(s)

\* Only records that exist are locked, and a purge unlocks what it erased.
LockedExist ==
  \A s \in Sessions, r \in Creates : Holds(s, <<"record", r>>) => record[r] # NoRecord

\* The request of a record is approved, or went with an earlier generation.
Born ==
  \A r \in Creates : record[r] # NoRecord => request[r] \in {"approved", "deleted"}

Global == LockedExist /\ Born /\ RevisionsApproved /\ NoneNamesPurged

\* None of the properties is inductive: each needs to know which locks a
\* transaction holds at which statement.
IInv == TypeOK /\ Global /\ \A s \in Sessions : Local(s)

----------------------------------------------------------------------------
(* Helpers *)

LEMMA Sorts == Requests \subseteq Nat \ {0} /\ Creates \subseteq Requests
                 /\ Mutations \subseteq Requests /\ 0 \notin Requests
BY DEF Requests

\* What a transaction waits for, statement by statement.
LEMMA WantedIs ==
  ASSUME NEW s \in Sessions
  PROVE  /\ At(s, "memory") => Wanted(s) = <<"memory", session[s].of>>
         /\ session[s].pc \in {"target", "row", "purged record", "asked record"} =>
              Wanted(s) = <<"record", session[s].of>>
         /\ session[s].pc \in {"insert", "request"} =>
              Wanted(s) = <<"request", session[s].on>>
         /\ At(s, "purge") => Wanted(s) = <<"purge", session[s].on>>
         /\ At(s, "delete") /\ session[s].next # 0 =>
              Wanted(s) = <<"request", session[s].next>>
         /\ At(s, "expire") /\ session[s].next # 0 =>
              Wanted(s) = <<"record", session[s].next>>
BY DEF Wanted, At

\* A transaction that has begun has all its local variables.
LEMMA Running ==
  ASSUME TypeOK, NEW s \in Sessions
  PROVE  /\ session[s].locks \subseteq Locks \/ session[s] = Idle
         /\ session[s] = Idle <=> session[s].pc = "idle"
         /\ session[s] # Idle <=> session[s] \in Transactions
         /\ session[s] = Idle => session[s].locks = {}
<1>1. session[s] \in {Idle} \cup Transactions
  BY DEF TypeOK
<1>2. session[s] \in Transactions =>
        session[s].pc # "idle" /\ session[s].locks \subseteq Locks
  BY DEF Transactions
<1>3. session[s] = Idle => session[s].pc = "idle" /\ session[s].locks = {}
  BY DEF Idle
<1> QED
  BY <1>1, <1>2, <1>3

----------------------------------------------------------------------------
(* One transaction acts *)

\* What a step of s may write: only rows that no other transaction has locked.
Considerate(s) ==
  /\ \A q \in Requests : request'[q] # request[q] => Free(s, <<"request", q>>)
  /\ \A r \in Creates : record'[r] # record[r] => Free(s, <<"record", r>>)
  /\ \A q \in Mutations :
       request[q] \in {"none", "deleted"} /\ request'[q] \notin {"none", "deleted"}
         => Free(s, <<"record", Target[q]>>)
  /\ \A q \in Creates :
       request'[q] = "approved" /\ request[q] # "approved" => Free(s, <<"record", q>>)
  /\ \A q \in Creates :
       request[q] \in {"approved", "deleted"} => request'[q] \in {"approved", "deleted"}

\* Then what holds of another transaction t holds of it still.
LEMMA OthersUntouched ==
  ASSUME IInv, NEW s \in Sessions, NEW t \in Sessions, t # s,
         session'[t] = session[t], Considerate(s), TypeOK'
  PROVE  Local(t)'
<1>1. \A lock : Holds(t, lock) => ~Free(s, lock)
  BY DEF Holds, Free
<1>2. \A lock : Holds(t, lock)' <=> Holds(t, lock)
  BY DEF Holds
<1>3. \A q \in Requests : Holds(t, <<"request", q>>) => request'[q] = request[q]
  BY <1>1 DEF Considerate
<1>4. \A r \in Creates : Holds(t, <<"record", r>>) => record'[r] = record[r]
  BY <1>1 DEF Considerate
<1>5. Local(t)
  BY DEF IInv
<1>6. Deciding(t)' /\ Minded(t)'
  BY <1>5 DEF Local, Deciding, Minded
<1>7. Pinning(t)'
  BY <1>2, <1>5 DEF Local, Pinning
<1>8. Applying(t)'
  BY <1>2, <1>3, <1>5 DEF Local, Deciding, Applying
<1>9. Expiring(t)'
  BY <1>2, <1>4, <1>5 DEF Local, Expiring
<1>10. ASSUME session[t].pc = "delete"
       PROVE  Naming(session[t].on)' \subseteq Naming(session[t].on)
  <2>1. session[t].on \in Creates /\ Holds(t, <<"record", session[t].on>>)
    BY <1>5, <1>10, Running DEF Local, Minded, Deleting, IInv
  <2> SUFFICES ASSUME NEW q \in Requests,
                      request'[q] \notin {"none", "deleted"},
                      RecordOf(q)' = session[t].on
               PROVE  /\ request[q] \notin {"none", "deleted"}
                      /\ RecordOf(q) = session[t].on
    BY DEF Naming
  <2>2. CASE q \in Mutations
    BY <1>1, <2>1, <2>2 DEF Considerate, RecordOf
  <2>3. CASE q \notin Mutations
    <3>1. q \in Creates /\ q = session[t].on /\ request'[q] = "approved"
      BY <2>1, <2>3, Sorts DEF RecordOf, Requests
    <3>2. request[q] = "approved"
      BY <1>1, <2>1, <3>1 DEF Considerate
    <3> QED
      BY <2>3, <3>1, <3>2 DEF RecordOf
  <2> QED
    BY <2>2, <2>3
<1>11. Deleting(t)'
  <2> SUFFICES ASSUME session[t].pc = "delete" PROVE Deleting(t)'
      BY DEF Deleting
  <2>1. Naming(session[t].on)' \subseteq session[t].chosen
    BY <1>5, <1>10 DEF Local, Deleting
  <2> QED
    BY <1>2, <1>5, <2>1 DEF Local, Deleting
<1>12. Ordered(t)'
  <2>1. \A q \in Creates :
          request[q] \in {"approved", "deleted"} => request'[q] \in {"approved", "deleted"}
    BY DEF Considerate
  <2>2. RecordFirst(t)'
    BY <1>2, <1>5 DEF Local, Ordered, RecordFirst
  <2>3. LockedBy(t)'
    BY <1>2, <1>5, <2>1 DEF Local, Ordered, LockedBy
  <2>4. OwnRequest(t)'
    BY <1>2, <1>5 DEF Local, Ordered, OwnRequest
  <2>5. Scanning(t)'
    BY <1>2, <1>5 DEF Local, Ordered, Scanning
  <2> QED
    BY <2>2, <2>3, <2>4, <2>5 DEF Ordered
<1> QED
  BY <1>6, <1>7, <1>8, <1>9, <1>11, <1>12 DEF Local

\* The tables without the sessions.
Rows ==
  /\ request \in [Requests -> Statuses]
  /\ expected \in [Mutations -> Nat]
  /\ record \in [Creates -> [status : {"none", "active", "tombstoned", "expired"},
                             revision : Nat]]
  /\ purge \in [Creates -> {"none", "pending", "purged"}]

\* Only s moves, and it takes only locks that are free, of rows that exist.
Alone(s) ==
  /\ session' \in [Sessions -> {Idle} \cup Transactions]
  /\ \A t \in Sessions : t # s => session'[t] = session[t]
  /\ \A lock : lock \in session'[s].locks => Holds(s, lock) \/ Free(s, lock)
  /\ \A r \in Creates : <<"record", r>> \in session'[s].locks => record'[r] # NoRecord

\* The rule by which every action below keeps the invariant.
LEMMA StepInv ==
  ASSUME IInv, NEW s \in Sessions, Alone(s), Considerate(s), Rows', Local(s)',
         Born', RevisionsApproved', NoneNamesPurged'
  PROVE  IInv'
<1>1. \A t, u \in Sessions : t # u => session'[t].locks \cap session'[u].locks = {}
  <2>1. \A t, u \in Sessions : t # u => session[t].locks \cap session[u].locks = {}
    BY DEF IInv, TypeOK
  <2>2. \A t \in Sessions \ {s} : session'[t].locks \cap session'[s].locks = {}
    BY <2>1 DEF Alone, Holds, Free
  <2> QED
    BY <2>1, <2>2 DEF Alone
<1>2. TypeOK'
  BY <1>1 DEF TypeOK, Rows, Alone
<1>3. \A t \in Sessions : Local(t)'
  BY <1>2, OthersUntouched DEF Alone
<1>4. LockedExist'
  <2> SUFFICES ASSUME NEW t \in Sessions, NEW r \in Creates,
                      <<"record", r>> \in session'[t].locks
               PROVE  record'[r] # NoRecord
      BY DEF LockedExist, Holds
  <2>1. CASE t = s
    BY <2>1 DEF Alone
  <2>2. CASE t # s
    <3>1. <<"record", r>> \in session[t].locks
      BY <2>2 DEF Alone
    <3>2. record[r] # NoRecord
      BY <3>1 DEF IInv, Global, LockedExist, Holds
    <3>3. record'[r] = record[r]
      BY <2>2, <3>1 DEF Considerate, Free
    <3> QED
      BY <3>2, <3>3
  <2> QED
    BY <2>1, <2>2
<1> QED
  BY <1>2, <1>3, <1>4 DEF IInv, Global

\* A step that writes no row.
LEMMA QuietInv ==
  ASSUME IInv, NEW s \in Sessions, Alone(s), Local(s)',
         UNCHANGED <<request, record>>, Rows'
  PROVE  IInv'
<1>1. Considerate(s)
  BY DEF Considerate
<1>2. Born' /\ RevisionsApproved' /\ NoneNamesPurged'
  <2>1. \A q \in Requests : RecordOf(q)' = RecordOf(q)
    BY DEF RecordOf
  <2> QED
    BY <2>1 DEF IInv, Global, Born, RevisionsApproved, NoneNamesPurged
<1> QED
  BY <1>1, <1>2, StepInv

\* A connection without a transaction has nothing to keep.
LEMMA Ended ==
  ASSUME TypeOK, NEW s \in Sessions, End(s)
  PROVE  Alone(s) /\ Local(s)'
<1>1. /\ session'[s] = Idle /\ \A t \in Sessions : t # s => session'[t] = session[t]
      /\ session' \in [Sessions -> {Idle} \cup Transactions]
  BY DEF End, TypeOK
<1>2. session'[s].locks = {} /\ session'[s].pc = "idle"
  BY <1>1 DEF Idle
<1>3. Alone(s)
  BY <1>1, <1>2 DEF Alone
<1>4. Ordered(s)'
  BY <1>2 DEF Ordered, RecordFirst, LockedBy, OwnRequest, Scanning, Holds
<1>5. Local(s)'
  BY <1>2, <1>4 DEF Local, Deciding, Pinning, Applying, Minded, Deleting, Expiring
<1> QED
  BY <1>3, <1>5

LEMMA EndInv ==
  ASSUME IInv, NEW s \in Sessions, End(s), UNCHANGED <<request, record>>, Rows'
  PROVE  IInv'
BY Ended, QuietInv DEF IInv

Points ==
  {"memory", "target", "insert", "lookup", "request", "row", "purge",
   "purged record", "delete", "asked record", "expire"}

\* The local variables after a statement that took a lock.
LEMMA Moved ==
  ASSUME TypeOK, NEW s \in Sessions, session[s] # Idle, NEW lock \in Locks,
         NEW pc \in Points, MoveWith(s, lock, pc)
  PROVE  /\ session' \in [Sessions -> {Idle} \cup Transactions]
         /\ \A t \in Sessions : t # s => session'[t] = session[t]
         /\ session'[s].pc = pc /\ session'[s].locks = session[s].locks \cup {lock}
         /\ session'[s].do = session[s].do /\ session'[s].on = session[s].on
         /\ session'[s].of = session[s].of /\ session'[s].todo = session[s].todo
         /\ session'[s].chosen = session[s].chosen
<1>1. session[s] \in Transactions
  BY Running
<1>2. session' = [session EXCEPT ![s] =
                    [session[s] EXCEPT !.pc = pc, !.locks = @ \cup {lock}]]
  BY DEF MoveWith
<1> DEFINE new == [session[s] EXCEPT !.pc = pc, !.locks = @ \cup {lock}]
<1>3. /\ new \in Transactions /\ new.pc = pc /\ new.locks = session[s].locks \cup {lock}
      /\ new.do = session[s].do /\ new.on = session[s].on /\ new.of = session[s].of
      /\ new.todo = session[s].todo /\ new.chosen = session[s].chosen
  BY <1>1 DEF Transactions, Points
<1>4. session' = [session EXCEPT ![s] = new]
  BY <1>2
<1> HIDE DEF new
<1> QED
  BY <1>3, <1>4 DEF TypeOK

----------------------------------------------------------------------------
(* Transactions begin *)

LEMMA RecordOfIs ==
  ASSUME NEW q \in Requests
  PROVE  /\ RecordOf(q) \in Creates \cup {0}
         /\ q \in Mutations => RecordOf(q) = Target[q] /\ Target[q] \in Creates
         /\ q \notin Mutations => q \in Creates
BY DEF RecordOf, Requests

LEMMA Begun ==
  ASSUME TypeOK, NEW s \in Sessions, NEW on \in Requests, NEW of \in Creates \cup {0},
         NEW decision \in Decisions, NEW pc \in Points,
         NEW do \in {"submit", "decide", "request purge", "approve purge"},
         Begin(s, do, on, of, decision, pc)
  PROVE  /\ Alone(s) /\ Rows' /\ UNCHANGED <<request, record>>
         /\ session'[s].pc = pc /\ session'[s].do = do /\ session'[s].on = on
         /\ session'[s].of = of /\ session'[s].locks = {}
<1> DEFINE new == [pc |-> pc, do |-> do, on |-> on, of |-> of, decision |-> decision,
                   revision |-> 0, next |-> 0, todo |-> {}, chosen |-> {}, locks |-> {}]
<1>1. session' = [session EXCEPT ![s] = new] /\ UNCHANGED <<request, expected, record, purge>>
  BY DEF Begin
<1>2. /\ new \in Transactions /\ new.pc = pc /\ new.do = do /\ new.on = on
      /\ new.of = of /\ new.locks = {}
  BY DEF Transactions, Points
<1> HIDE DEF new
<1>3. /\ session'[s] = new /\ \A t \in Sessions : t # s => session'[t] = session[t]
      /\ session' \in [Sessions -> {Idle} \cup Transactions]
  BY <1>1, <1>2 DEF TypeOK
<1>4. Alone(s)
  BY <1>2, <1>3 DEF Alone
<1>5. Rows'
  BY <1>1 DEF Rows, TypeOK
<1> QED
  BY <1>1, <1>2, <1>3, <1>4, <1>5

LEMMA SubmitInv ==
  ASSUME IInv, NEW s \in Sessions, NEW q \in Requests, Submit(s, q)
  PROVE  IInv'
<1> DEFINE pc == IF q \in Mutations THEN "memory" ELSE "insert"
<1>1. Begin(s, "submit", q, RecordOf(q), "approve", pc) /\ pc \in Points
  BY DEF Submit, Points
<1>2. TypeOK /\ RecordOf(q) \in Creates \cup {0} /\ "approve" \in Decisions
  BY RecordOfIs DEF IInv, Decisions
<1>3. /\ Alone(s) /\ Rows' /\ UNCHANGED <<request, record>>
      /\ session'[s].pc = pc /\ session'[s].do = "submit" /\ session'[s].on = q
      /\ session'[s].of = RecordOf(q) /\ session'[s].locks = {}
  <2> HIDE DEF pc
  <2> QED
    BY <1>1, <1>2, Begun
<1>4. Ordered(s)'
  BY <1>3, RecordOfIs
     DEF Ordered, RecordFirst, LockedBy, OwnRequest, Scanning, Local, Holds
<1>5. Local(s)'
  BY <1>3, <1>4, RecordOfIs
     DEF Local, Deciding, Pinning, Applying, Minded, Deleting, Expiring, Holds
<1> QED
  BY <1>3, <1>5, QuietInv

LEMMA DecideInv ==
  ASSUME IInv, NEW s \in Sessions, NEW q \in Requests, NEW decision \in Decisions,
         Decide(s, q, decision)
  PROVE  IInv'
<1>1. /\ Alone(s) /\ Rows' /\ UNCHANGED <<request, record>>
      /\ session'[s].pc = "lookup" /\ session'[s].do = "decide" /\ session'[s].on = q
      /\ session'[s].of = 0 /\ session'[s].locks = {}
  BY Begun DEF Decide, IInv, Points
<1>2. Ordered(s)'
  BY <1>1
     DEF Ordered, RecordFirst, LockedBy, OwnRequest, Scanning, Local, Holds
<1>3. Local(s)'
  BY <1>1, <1>2 DEF Local, Deciding, Pinning, Applying, Minded, Deleting, Expiring, Holds
<1> QED
  BY <1>1, <1>3, QuietInv

LEMMA PurgeInv ==
  ASSUME IInv, NEW s \in Sessions, NEW r \in Creates,
         RequestPurge(s, r) \/ ApprovePurge(s, r)
  PROVE  IInv'
<1>1. /\ TypeOK /\ r \in Requests /\ r \in Creates \cup {0}
      /\ "approve" \in Decisions /\ "memory" \in Points
  BY Sorts DEF IInv, Points, Decisions
<1> DEFINE Fact(do) ==
      /\ Alone(s) /\ Rows' /\ UNCHANGED <<request, record>>
      /\ session'[s].pc = "memory" /\ session'[s].do = do /\ session'[s].on = r
      /\ session'[s].of = r /\ session'[s].locks = {}
<1>2. Fact("request purge") \/ Fact("approve purge")
  <2>1. CASE RequestPurge(s, r)
    BY <1>1, <2>1, Begun DEF RequestPurge
  <2>2. CASE ApprovePurge(s, r)
    BY <1>1, <2>2, Begun DEF ApprovePurge
  <2> QED
    BY <2>1, <2>2
<1>3. Ordered(s)'
  BY <1>2
     DEF Ordered, RecordFirst, LockedBy, OwnRequest, Scanning, Local, Holds
<1>4. Local(s)'
  BY <1>2, <1>3 DEF Local, Deciding, Pinning, Applying, Minded, Deleting, Expiring, Holds
<1> QED
  BY <1>2, <1>4, QuietInv

LEMMA ExpireInv ==
  ASSUME IInv, NEW s \in Sessions, Expire(s)
  PROVE  IInv'
<1> DEFINE due == {r \in Due : record[r].status = "active"}
           begun(r) ==
             [pc |-> "expire", do |-> "expire", on |-> 0, of |-> 0, decision |-> "approve",
              revision |-> 0, next |-> r, todo |-> due, chosen |-> {}, locks |-> {}]
<1>1. due \subseteq Creates /\ due # {} /\ UNCHANGED <<request, expected, record, purge>>
  BY DEF Expire
<1>2. PICK r \in due : session' = [session EXCEPT ![s] = begun(r)]
  BY DEF Expire
<1> DEFINE new == begun(r)
<1> HIDE DEF due
<1>3. r \in Scanned(due) /\ r \in Requests
  BY <1>1, Sorts DEF Scanned
<1>4. /\ new \in Transactions /\ new.pc = "expire" /\ new.do = "expire" /\ new.next = r
      /\ new.todo = due /\ new.chosen = {} /\ new.locks = {}
  BY <1>1, <1>3, Sorts DEF Transactions, Decisions
<1> HIDE DEF new
<1>5. /\ session'[s] = new /\ \A t \in Sessions : t # s => session'[t] = session[t]
      /\ session' \in [Sessions -> {Idle} \cup Transactions]
  BY <1>2, <1>4 DEF TypeOK, IInv, new
<1>6. Alone(s) /\ Rows'
  BY <1>1, <1>4, <1>5 DEF Alone, Rows, IInv, TypeOK
<1>7. Ordered(s)'
  BY <1>1, <1>3, <1>4, <1>5
     DEF Ordered, RecordFirst, LockedBy, OwnRequest, Scanning, Local, Holds
<1>8. Local(s)'
  BY <1>1, <1>4, <1>5, <1>7
     DEF Local, Deciding, Pinning, Applying, Minded, Deleting, Expiring, Holds
<1> QED
  BY <1>1, <1>6, <1>8, QuietInv

----------------------------------------------------------------------------
(* Statements that take locks *)

\* A statement that takes one lock, of a row that exists, and writes nothing.
LEMMA MovedInv ==
  ASSUME IInv, NEW s \in Sessions, session[s] # Idle, NEW lock \in Locks,
         NEW pc \in Points, MoveWith(s, lock, pc), UNCHANGED <<request, record>>, Rows',
         \A r \in Creates : lock = <<"record", r>> => record[r] # NoRecord,
         Local(s)'
  PROVE  IInv'
<1>1. /\ session' \in [Sessions -> {Idle} \cup Transactions]
      /\ \A t \in Sessions : t # s => session'[t] = session[t]
      /\ session'[s].locks = session[s].locks \cup {lock}
  BY Moved DEF IInv
<1>2. Alone(s)
  BY <1>1 DEF Alone, MoveWith, IInv, Global, LockedExist, Holds
<1> QED
  BY <1>2, QuietInv

LEMMA LockMemoryInv ==
  ASSUME IInv, NEW s \in Sessions, LockMemory(s)
  PROVE  IInv'
<1> DEFINE lock == <<"memory", session[s].of>>
<1>1. /\ session[s] # Idle /\ session[s].pc = "memory" /\ Local(s) /\ TypeOK
      /\ Wanted(s) = lock
  BY Running, WantedIs DEF LockMemory, At, IInv
<1>2. session[s].of \in Creates /\ session[s].do # "expire" /\ session[s] \in Transactions
  BY <1>1, Running DEF Local, Minded
<1>3. lock \in Locks /\ AfterMemory(s) \in Points
  BY <1>2 DEF Locks, AfterMemory, Points
<1>4. MoveWith(s, lock, AfterMemory(s)) /\ UNCHANGED <<request, expected, record, purge>>
  BY <1>1 DEF LockMemory
<1>5. /\ session'[s].pc = AfterMemory(s) /\ session'[s].locks = session[s].locks \cup {lock}
      /\ session'[s].do = session[s].do /\ session'[s].on = session[s].on
      /\ session'[s].of = session[s].of
  BY <1>1, <1>3, <1>4, Moved
<1>6. session[s].do \in {"submit", "decide", "request purge", "approve purge"}
  BY <1>2 DEF Transactions
<1>7. Ordered(s)'
  <2>1. RecordFirst(s)'
    BY <1>1, <1>2, <1>5 DEF Local, Ordered, RecordFirst, Holds, LockedBy, AfterMemory
  <2>2. LockedBy(s)'
    BY <1>1, <1>2, <1>4, <1>5, <1>6, Sorts
       DEF Local, Ordered, LockedBy, Holds, AfterMemory, Deciding, Requests
  <2>3. OwnRequest(s)'
    BY <1>1, <1>2, <1>5 DEF Local, Ordered, OwnRequest, Holds, AfterMemory
  <2>4. Scanning(s)'
    BY <1>1, <1>2, <1>5, <1>6 DEF Local, Ordered, Scanning, Holds, AfterMemory
  <2> QED
    BY <2>1, <2>2, <2>3, <2>4 DEF Ordered
<1>8. Local(s)'
  BY <1>1, <1>2, <1>5, <1>6, <1>7
     DEF Local, Deciding, Pinning, Applying, Minded, Deleting, Expiring, Holds, AfterMemory
<1>9. Rows'
  BY <1>1, <1>4 DEF TypeOK, Rows
<1> QED
  BY <1>1, <1>3, <1>4, <1>8, <1>9, MovedInv

LEMMA LockTargetInv ==
  ASSUME IInv, NEW s \in Sessions, LockTarget(s)
  PROVE  IInv'
<1> DEFINE lock == <<"record", session[s].of>>
<1>1. /\ session[s] # Idle /\ session[s].pc = "target" /\ Local(s) /\ TypeOK
      /\ Wanted(s) = lock /\ session[s] \in Transactions /\ session[s].of \in Creates
      /\ UNCHANGED <<request, expected, record, purge>>
  BY Running, WantedIs DEF LockTarget, At, IInv, Local, Minded
<1>2. Rows'
  BY <1>1 DEF TypeOK, Rows
<1>3. CASE End(s)
  BY <1>1, <1>2, <1>3, EndInv
<1>4. CASE ~End(s)
  <2> DEFINE new == [session[s] EXCEPT !.pc = "insert",
                                       !.revision = record[session[s].of].revision,
                                       !.locks = @ \cup {lock}]
  <2>1. /\ record[session[s].of].status = "active" /\ Free(s, lock)
        /\ session' = [session EXCEPT ![s] = new]
    BY <1>1, <1>4 DEF LockTarget
  <2>2. lock \in Locks /\ record[session[s].of].revision \in Nat
    BY <1>1 DEF Locks, TypeOK
  <2>3. /\ new \in Transactions /\ new.pc = "insert"
        /\ new.locks = session[s].locks \cup {lock}
        /\ new.do = session[s].do /\ new.on = session[s].on
    BY <1>1, <2>2 DEF Transactions
  <2> HIDE DEF new
  <2>4. /\ session'[s] = new /\ \A t \in Sessions : t # s => session'[t] = session[t]
        /\ session' \in [Sessions -> {Idle} \cup Transactions]
    BY <1>1, <2>1, <2>3 DEF TypeOK
  <2>5. record[session[s].of] # NoRecord
    BY <2>1 DEF NoRecord
  <2>6. Alone(s)
    BY <1>1, <2>1, <2>3, <2>4, <2>5 DEF Alone, IInv, Global, LockedExist, Holds
  <2>7. Ordered(s)'
    <3>1. RecordFirst(s)'
      BY <1>1, <2>3, <2>4 DEF Local, Ordered, RecordFirst, Holds, LockedBy, Deciding
    <3>2. LockedBy(s)'
      BY <1>1, <2>3, <2>4 DEF Local, Ordered, LockedBy, Holds, Deciding
    <3>3. OwnRequest(s)'
      <4>1. session[s].do \in {"submit", "decide"}
        BY <1>1 DEF Local, Deciding
      <4>2. \A q : Holds(s, <<"request", q>>)' <=> Holds(s, <<"request", q>>)
        BY <2>3, <2>4 DEF Holds
      <4> QED
        BY <1>1, <2>3, <2>4, <4>1, <4>2 DEF Local, Ordered, OwnRequest
    <3>4. Scanning(s)'
      BY <1>1, <2>3, <2>4 DEF Local, Ordered, Scanning, Holds
    <3> QED
      BY <3>1, <3>2, <3>3, <3>4 DEF Ordered
  <2>8. Local(s)'
    BY <1>1, <2>3, <2>4, <2>7
       DEF Local, Deciding, Pinning, Applying, Minded, Deleting, Expiring, Holds
  <2> QED
    BY <1>1, <1>2, <2>6, <2>8, QuietInv
<1> QED
  BY <1>3, <1>4

\* No two transactions hold one lock.
LEMMA HeldIsFree ==
  ASSUME IInv, NEW s \in Sessions, NEW lock, Holds(s, lock)
  PROVE  Free(s, lock)
BY DEF IInv, TypeOK, Holds, Free

\* A request that is inserted, or settled without being applied.
LEMMA NotApplied ==
  ASSUME IInv, NEW q \in Requests, NEW status \in {"pending", "rejected", "superseded"},
         request' = [request EXCEPT ![q] = status], request[q] \in {"none", "pending"},
         record' = record, q \in Mutations => record[Target[q]] # NoRecord
  PROVE  Born' /\ RevisionsApproved' /\ NoneNamesPurged'
<1>1. /\ request'[q] = status
      /\ \A p \in Requests : p # q => request'[p] = request[p]
  BY DEF IInv, TypeOK
<1>2. \A p \in Requests : request'[p] = "approved" <=> request[p] = "approved"
  BY <1>1
<1>3. Born'
  BY <1>1, Sorts DEF IInv, Global, Born
<1>4. RevisionsApproved'
  <2>1. \A r \in Creates :
          {p \in Mutations : Target[p] = r /\ request'[p] = "approved"}
            = {p \in Mutations : Target[p] = r /\ request[p] = "approved"}
    BY <1>2, Sorts
  <2> QED
    BY <2>1 DEF IInv, Global, RevisionsApproved
<1>5. NoneNamesPurged'
  <2>1. \A p \in Requests : RecordOf(p)' = RecordOf(p)
    BY <1>2 DEF RecordOf
  <2>2. RecordOf(q) # 0 => record[RecordOf(q)] # NoRecord
    BY DEF RecordOf
  <2> QED
    BY <1>1, <2>1, <2>2 DEF IInv, Global, NoneNamesPurged
<1> QED
  BY <1>3, <1>4, <1>5

LEMMA InsertRequestInv ==
  ASSUME IInv, NEW s \in Sessions, InsertRequest(s)
  PROVE  IInv'
<1> DEFINE q == session[s].on
           lock == <<"request", q>>
<1>1. /\ session[s] # Idle /\ session[s].pc = "insert" /\ Local(s) /\ TypeOK
      /\ Wanted(s) = lock /\ session[s] \in Transactions
  BY Running, WantedIs DEF InsertRequest, At, IInv
<1>2. /\ q \in Requests /\ session[s].do \in {"submit", "decide"} /\ lock \in Locks
      /\ session[s].revision \in Nat
  BY <1>1 DEF Local, Deciding, Locks, Transactions
<1>3. Rows'
  BY <1>1, <1>2 DEF InsertRequest, TypeOK, Rows, Statuses
<1>4. CASE q \in AutoApplied /\ request[q] # "deleted"
  <2>1. /\ MoveWith(s, lock, "lookup") /\ UNCHANGED <<request, record>>
        /\ "lookup" \in Points
    <3>1. MoveWith(s, Wanted(s), "lookup") /\ UNCHANGED <<request, record>>
      BY <1>4 DEF InsertRequest
    <3> QED
      BY <1>1, <3>1 DEF Points
  <2>2. /\ session'[s].pc = "lookup" /\ session'[s].locks = session[s].locks \cup {lock}
        /\ session'[s].do = session[s].do /\ session'[s].on = session[s].on
    BY <1>1, <1>2, <2>1, Moved
  <2>3. Ordered(s)'
    BY <1>1, <1>2, <2>2
       DEF Ordered, RecordFirst, LockedBy, OwnRequest, Scanning, Local, Holds, Deciding
  <2>4. Local(s)'
    BY <1>1, <1>2, <2>2, <2>3
       DEF Local, Deciding, Pinning, Applying, Minded, Deleting, Expiring, Holds
  <2> QED
    BY <1>1, <1>2, <1>3, <2>1, <2>4, MovedInv
<1>5. CASE ~(q \in AutoApplied /\ request[q] # "deleted")
  <2>1. Free(s, lock) /\ End(s) /\ record' = record
    BY <1>1, <1>5 DEF InsertRequest
  <2>2. CASE request[q] # "none"
    <3>1. UNCHANGED <<request, record>>
      BY <1>1, <1>2, <1>5, <2>2 DEF InsertRequest, TypeOK
    <3> QED
      BY <1>3, <2>1, <3>1, EndInv
  <2>3. CASE request[q] = "none"
    <3>1. request' = [request EXCEPT ![q] = "pending"]
      BY <1>5, <2>3 DEF InsertRequest
    <3>2. CASE session[s].do = "submit"
      <4>1. q \in Mutations => Holds(s, <<"record", Target[q]>>)
        BY <1>1, <3>2 DEF Local, Pinning
      <4>2. q \in Mutations => record[Target[q]] # NoRecord
        BY <4>1 DEF IInv, Global, LockedExist
      <4>3. Born' /\ RevisionsApproved' /\ NoneNamesPurged'
        BY <1>2, <2>1, <2>3, <3>1, <4>2, NotApplied
      <4>4. q \in Mutations => Free(s, <<"record", Target[q]>>)
        BY <4>1, HeldIsFree
      <4>5. request'[q] = "pending" /\ \A p \in Requests : p # q => request'[p] = request[p]
        BY <1>1, <1>2, <3>1 DEF TypeOK
      <4>6. Considerate(s)
        BY <1>2, <2>1, <2>3, <4>4, <4>5, Sorts DEF Considerate
      <4> QED
        BY <1>1, <1>3, <2>1, <4>3, <4>6, Ended, StepInv
    <3>3. CASE session[s].do # "submit"
      BY <1>1, <3>3 DEF Local, Deciding
    <3> QED
      BY <3>2, <3>3
  <2> QED
    BY <2>2, <2>3
<1> QED
  BY <1>4, <1>5

LEMMA ReadRecordIdInv ==
  ASSUME IInv, NEW s \in Sessions, ReadRecordId(s)
  PROVE  IInv'
<1> DEFINE of == RecordOf(session[s].on)
<1>1. /\ session[s] # Idle /\ session[s].pc = "lookup" /\ Local(s) /\ TypeOK
      /\ session[s] \in Transactions /\ UNCHANGED <<request, expected, record, purge>>
  BY Running DEF ReadRecordId, At, IInv
<1>2. session[s].on \in Requests /\ session[s].do \in {"submit", "decide"}
  BY <1>1 DEF Local, Deciding
<1>3. Rows'
  BY <1>1 DEF TypeOK, Rows
<1>4. CASE End(s)
  BY <1>1, <1>3, <1>4, EndInv
<1>5. CASE ~End(s)
  <2> DEFINE new == [session[s] EXCEPT !.of = of,
                                       !.pc = IF of = 0 THEN "request" ELSE "memory"]
  <2>1. session' = [session EXCEPT ![s] = new]
    BY <1>5 DEF ReadRecordId
  <2>2. /\ of \in Creates \cup {0} /\ of \in Requests \cup {0}
        /\ session[s].on \in Mutations => of = Target[session[s].on] /\ of # 0
    BY <1>2, RecordOfIs, Sorts
  <2> HIDE DEF of
  <2>3. /\ new \in Transactions /\ new.locks = session[s].locks
        /\ new.pc = IF of = 0 THEN "request" ELSE "memory"
        /\ new.of = of /\ new.do = session[s].do /\ new.on = session[s].on
    BY <1>1, <2>2 DEF Transactions
  <2> HIDE DEF new
  <2>4. /\ session'[s] = new /\ \A t \in Sessions : t # s => session'[t] = session[t]
        /\ session' \in [Sessions -> {Idle} \cup Transactions]
    BY <1>1, <2>1, <2>3 DEF TypeOK
  <2>5. Alone(s)
    BY <1>1, <2>3, <2>4 DEF Alone, IInv, Global, LockedExist, Holds
  <2>6. session[s].on \in Creates /\ of # 0 => request'[session[s].on] = "approved"
    BY <1>1, <2>2 DEF of, RecordOf, LockConstants
  <2>7. Ordered(s)'
    <3>1. RecordFirst(s)'
      BY <1>1, <2>3, <2>4 DEF Local, Ordered, RecordFirst, Holds
    <3>2. LockedBy(s)'
      BY <1>1, <1>2, <2>2, <2>3, <2>4, <2>6, Sorts DEF Local, Ordered, LockedBy, Holds, Pinning
    <3>3. OwnRequest(s)'
      BY <1>1, <1>2, <2>3, <2>4 DEF Local, Ordered, OwnRequest, Holds
    <3>4. Scanning(s)'
      BY <1>1, <1>2, <2>3, <2>4 DEF Local, Ordered, Scanning, Holds
    <3> QED
      BY <3>1, <3>2, <3>3, <3>4 DEF Ordered
  <2>8. Local(s)'
    BY <1>1, <1>2, <2>2, <2>3, <2>4, <2>7
       DEF Local, Deciding, Pinning, Applying, Minded, Deleting, Expiring, Holds
  <2> QED
    BY <1>1, <1>3, <2>5, <2>8, QuietInv
<1> QED
  BY <1>4, <1>5

LEMMA LockRequestInv ==
  ASSUME IInv, NEW s \in Sessions, LockRequest(s)
  PROVE  IInv'
<1> DEFINE q == session[s].on
           lock == <<"request", q>>
<1>1. /\ session[s] # Idle /\ session[s].pc = "request" /\ Local(s) /\ TypeOK
      /\ Wanted(s) = lock /\ session[s] \in Transactions
      /\ UNCHANGED <<expected, record, purge>>
  BY Running, WantedIs DEF LockRequest, At, IInv
<1>2. q \in Requests /\ lock \in Locks /\ "row" \in Points
  BY <1>1 DEF Local, Deciding, Locks, Points
<1>3. CASE /\ Visible(s, q) /\ request[q] \in {"none", "pending"}
           /\ MoveWith(s, lock, "row") /\ UNCHANGED request
  <2>1. /\ session'[s].pc = "row" /\ session'[s].locks = session[s].locks \cup {lock}
        /\ session'[s].do = session[s].do /\ session'[s].on = session[s].on
        /\ session'[s].of = session[s].of
    BY <1>1, <1>2, <1>3, Moved
  <2>2. request[q] = "none" => session[s].do = "submit"
    BY <1>3 DEF Visible
  <2>3. Ordered(s)'
    BY <1>1, <1>2, <1>3, <2>1
       DEF Ordered, RecordFirst, LockedBy, OwnRequest, Scanning, Local, Holds, Deciding
  <2>4. Local(s)'
    BY <1>1, <1>3, <2>1, <2>2, <2>3
       DEF Local, Deciding, Pinning, Applying, Minded, Deleting, Expiring, Holds
  <2>5. Rows'
    BY <1>1, <1>3 DEF TypeOK, Rows
  <2> QED
    BY <1>1, <1>2, <1>3, <2>4, <2>5, MovedInv
<1>4. CASE /\ request[q] = "pending" /\ Free(s, lock) /\ End(s)
           /\ Settle(q, "rejected")
  <2>1. request' = [request EXCEPT ![q] = "rejected"]
    BY <1>4 DEF Settle
  <2>2. Rows'
    BY <1>1, <1>2, <2>1 DEF TypeOK, Rows, Statuses
  <2>3. q \in Mutations => record[Target[q]] # NoRecord
    BY <1>2, <1>4 DEF IInv, Global, NoneNamesPurged, RecordOf, Requests
  <2>4. Born' /\ RevisionsApproved' /\ NoneNamesPurged'
    BY <1>1, <1>2, <1>4, <2>1, <2>3, NotApplied
  <2>5. Considerate(s)
    BY <1>1, <1>2, <1>4, <2>1, Sorts DEF Considerate, TypeOK
  <2> QED
    BY <1>1, <1>4, <2>2, <2>4, <2>5, Ended, StepInv
<1>5. CASE End(s) /\ UNCHANGED request
  <2>1. Rows'
    BY <1>1, <1>5 DEF TypeOK, Rows
  <2> QED
    BY <1>1, <1>5, <2>1, EndInv
<1> QED
  BY <1>1, <1>3, <1>4, <1>5 DEF LockRequest

\* A request that is applied: the record it makes or changes exists by then,
\* and its revision counts this request in.
LEMMA CreateRecordInv ==
  ASSUME IInv, NEW s \in Sessions, CreateRecord(s)
  PROVE  IInv'
<1> DEFINE q == session[s].on
<1>1. /\ session[s].pc = "row" /\ Local(s) /\ TypeOK /\ q \in Creates /\ q \in Requests
      /\ q \notin Mutations /\ End(s) /\ UNCHANGED <<expected, purge>>
  BY Sorts DEF CreateRecord, At, IInv
<1>2. Holds(s, <<"request", q>>) /\ request[q] \in {"none", "pending"}
  BY <1>1 DEF Local, Applying
<1>3. Free(s, <<"request", q>>)
  BY <1>2, HeldIsFree
<1>4. record[q] = NoRecord
  BY <1>1, <1>2 DEF IInv, Global, Born
<1>5. Free(s, <<"record", q>>)
  BY <1>1, <1>4 DEF IInv, Global, LockedExist, Holds, Free
<1>6. CASE Settle(q, "superseded") /\ UNCHANGED record
  <2>1. request' = [request EXCEPT ![q] = "superseded"]
    BY <1>6 DEF Settle
  <2>2. Rows'
    BY <1>1, <1>6, <2>1 DEF TypeOK, Rows, Statuses
  <2>3. Born' /\ RevisionsApproved' /\ NoneNamesPurged'
    BY <1>1, <1>2, <1>6, <2>1, NotApplied
  <2>4. Considerate(s)
    <3>1. \A p \in Requests : p # q => request'[p] = request[p]
      BY <1>1, <2>1 DEF TypeOK
    <3>2. request'[q] = "superseded"
      BY <1>1, <2>1 DEF TypeOK
    <3> QED
      BY <1>1, <1>2, <1>3, <1>6, <3>1, <3>2, Sorts DEF Considerate
  <2> QED
    BY <1>1, <2>2, <2>3, <2>4, Ended, StepInv
<1>7. CASE /\ Settle(q, "approved")
           /\ record' = [record EXCEPT ![q] = [status |-> "active", revision |-> 1]]
  <2>1. request' = [request EXCEPT ![q] = "approved"]
    BY <1>7 DEF Settle
  <2>2. Rows'
    BY <1>1, <1>7, <2>1 DEF TypeOK, Rows, Statuses
  <2>3. /\ request'[q] = "approved" /\ record'[q] = [status |-> "active", revision |-> 1]
        /\ \A p \in Requests : p # q => request'[p] = request[p]
        /\ \A r \in Creates : r # q => record'[r] = record[r]
    BY <1>1, <1>7, <2>1 DEF TypeOK
  <2>4. record'[q] # NoRecord /\ record'[q].revision = 1
    BY <2>3 DEF NoRecord
  <2>5. Born'
    BY <2>3, Sorts DEF IInv, Global, Born
  <2>6. RevisionsApproved'
    <3> DEFINE before(r) == {p \in Mutations : Target[p] = r /\ request[p] = "approved"}
               after(r) == {p \in Mutations : Target[p] = r /\ request'[p] = "approved"}
    <3>1. \A p \in Mutations : request'[p] = request[p]
      BY <1>1, <2>3, Sorts
    <3>2. \A r : after(r) = before(r)
      BY <3>1
    <3>3. before(q) = {}
      <4> SUFFICES ASSUME NEW p \in Mutations, Target[p] = q, request[p] = "approved"
                   PROVE  FALSE
        OBVIOUS
      <4>1. p \in Requests /\ RecordOf(p) = q /\ RecordOf(p) # 0
        BY <1>1, Sorts DEF RecordOf
      <4> QED
        BY <1>4, <4>1 DEF IInv, Global, NoneNamesPurged
    <3>4. \A r \in Creates : record[r] # NoRecord =>
            record[r].revision = 1 + Cardinality(before(r))
      BY DEF IInv, Global, RevisionsApproved
    <3> HIDE DEF before, after
    <3>5. Cardinality(after(q)) = 0
      BY <3>2, <3>3, FS_EmptySet
    <3>6. \A r \in Creates : record'[r] # NoRecord =>
            record'[r].revision = 1 + Cardinality(after(r))
      BY <2>3, <2>4, <3>2, <3>4, <3>5
    <3> QED
      BY <3>6 DEF RevisionsApproved, after
  <2>7. NoneNamesPurged'
    <3> SUFFICES ASSUME NEW p \in Requests, request'[p] \notin {"none", "deleted"},
                        RecordOf(p)' # 0
                 PROVE  record'[RecordOf(p)'] # NoRecord
      BY DEF NoneNamesPurged
    <3>1. CASE p = q
      BY <1>1, <2>3, <2>4, <3>1 DEF RecordOf
    <3>2. CASE p # q
      <4>1. /\ RecordOf(p)' = RecordOf(p) /\ RecordOf(p) \in Creates
            /\ record[RecordOf(p)] # NoRecord
        BY <2>3, <3>2, RecordOfIs DEF IInv, Global, NoneNamesPurged, RecordOf
      <4> QED
        BY <2>3, <2>4, <4>1
    <3> QED
      BY <3>1, <3>2
  <2>8. Considerate(s)
    BY <1>1, <1>3, <1>5, <2>3, Sorts DEF Considerate
  <2> QED
    BY <1>1, <2>2, <2>5, <2>6, <2>7, <2>8, Ended, StepInv
<1> QED
  BY <1>6, <1>7 DEF CreateRecord

LEMMA MutateRecordInv ==
  ASSUME IInv, NEW s \in Sessions, MutateRecord(s)
  PROVE  IInv'
<1> DEFINE q == session[s].on
           r == Target[q]
<1>1. /\ session[s] # Idle /\ session[s].pc = "row" /\ Local(s) /\ TypeOK
      /\ q \in Mutations /\ q \in Requests /\ q \notin Creates /\ r \in Creates
      /\ End(s) /\ UNCHANGED <<expected, purge>>
  BY Sorts, Running DEF MutateRecord, At, IInv
<1>2. /\ Holds(s, <<"request", q>>) /\ request[q] \in {"none", "pending"}
      /\ request[q] = "none" => session[s].do = "submit"
      /\ session[s].of = r
  BY <1>1 DEF Local, Applying, Deciding
<1>3. Free(s, <<"request", q>>) /\ Free(s, <<"record", r>>)
  <2>1. Wanted(s) = <<"record", r>>
    BY <1>1, <1>2, WantedIs
  <2> QED
    BY <1>2, <2>1, HeldIsFree DEF MutateRecord
<1>4. record[r] # NoRecord
  <2>1. CASE request[q] = "none"
    BY <1>1, <1>2, <2>1 DEF Local, Pinning, IInv, Global, LockedExist
  <2>2. CASE request[q] # "none"
    <3>1. RecordOf(q) = r /\ r # 0 /\ request[q] \notin {"none", "deleted"}
      BY <1>1, <1>2, <2>2, Sorts DEF RecordOf
    <3> QED
      BY <1>1, <3>1 DEF IInv, Global, NoneNamesPurged
  <2> QED
    BY <2>1, <2>2
<1>5. CASE Settle(q, "superseded") /\ UNCHANGED record
  <2>1. request' = [request EXCEPT ![q] = "superseded"]
    BY <1>5 DEF Settle
  <2>2. Rows'
    BY <1>1, <1>5, <2>1 DEF TypeOK, Rows, Statuses
  <2>3. Born' /\ RevisionsApproved' /\ NoneNamesPurged'
    BY <1>1, <1>2, <1>4, <1>5, <2>1, NotApplied
  <2>4. Considerate(s)
    <3>1. \A p \in Requests : p # q => request'[p] = request[p]
      BY <1>1, <2>1 DEF TypeOK
    <3>2. request'[q] = "superseded"
      BY <1>1, <2>1 DEF TypeOK
    <3>3. \A p \in Creates : request'[p] = request[p]
      BY <1>1, <3>1, Sorts
    <3> QED
      BY <1>1, <1>3, <1>5, <3>1, <3>2, <3>3, Sorts DEF Considerate
  <2> QED
    BY <1>1, <2>2, <2>3, <2>4, Ended, StepInv
<1>6. CASE /\ Settle(q, "approved")
           /\ record' = [record EXCEPT ![r] =
                [status |-> IF q \in Deletes THEN "tombstoned" ELSE "active",
                 revision |-> record[r].revision + 1]]
  <2>1. request' = [request EXCEPT ![q] = "approved"]
    BY <1>6 DEF Settle
  <2>2. Rows'
    BY <1>1, <1>6, <2>1 DEF TypeOK, Rows, Statuses
  <2>3. /\ request'[q] = "approved" /\ \A p \in Requests : p # q => request'[p] = request[p]
        /\ \A d \in Creates : d # r => record'[d] = record[d]
        /\ record'[r].revision = record[r].revision + 1
        /\ record'[r].status \in {"tombstoned", "active"}
    BY <1>1, <1>6, <2>1 DEF TypeOK
  <2>4. record'[r] # NoRecord
    BY <2>3 DEF NoRecord
  <2>5. Born'
    BY <1>1, <1>4, <2>3, Sorts DEF IInv, Global, Born
  <2>6. RevisionsApproved'
    <3> DEFINE before(d) == {p \in Mutations : Target[p] = d /\ request[p] = "approved"}
               after(d) == {p \in Mutations : Target[p] = d /\ request'[p] = "approved"}
    <3>1. \A d \in Creates : d # r => after(d) = before(d)
      BY <1>1, <2>3, Sorts
    <3>2. after(r) = before(r) \cup {q} /\ q \notin before(r)
      <4>1. /\ q \in Mutations /\ request[q] # "approved" /\ request'[q] = "approved"
            /\ \A p \in Mutations : p # q => request'[p] = request[p]
        BY <1>1, <1>2, <2>3, Sorts
      <4> QED
        BY <4>1
    <3>3. IsFiniteSet(before(r)) /\ Cardinality(before(r)) \in Nat
      <4>1. before(r) \in SUBSET Mutations
        OBVIOUS
      <4> QED
        BY <4>1, FS_Subset, FS_CardinalityType
    <3>4. record[r].revision = 1 + Cardinality(before(r))
      BY <1>1, <1>4 DEF IInv, Global, RevisionsApproved
    <3> HIDE DEF before, after
    <3>5. Cardinality(after(r)) = Cardinality(before(r)) + 1
      BY <3>2, <3>3, FS_AddElement
    <3>6. record'[r].revision = 1 + Cardinality(after(r))
      BY <2>3, <3>3, <3>4, <3>5
    <3>7. ASSUME NEW d \in Creates, d # r, record'[d] # NoRecord
          PROVE  record'[d].revision = 1 + Cardinality(after(d))
      BY <2>3, <3>1, <3>7 DEF IInv, Global, RevisionsApproved, before
    <3> QED
      BY <3>6, <3>7 DEF RevisionsApproved, after
  <2>7. NoneNamesPurged'
    <3> SUFFICES ASSUME NEW p \in Requests, request'[p] \notin {"none", "deleted"},
                        RecordOf(p)' # 0
                 PROVE  record'[RecordOf(p)'] # NoRecord
      BY DEF NoneNamesPurged
    <3>1. CASE p = q
      BY <1>1, <2>4, <3>1 DEF RecordOf
    <3>2. CASE p # q
      <4>1. /\ RecordOf(p)' = RecordOf(p) /\ RecordOf(p) \in Creates
            /\ record[RecordOf(p)] # NoRecord
        BY <2>3, <3>2, RecordOfIs DEF IInv, Global, NoneNamesPurged, RecordOf
      <4> QED
        BY <2>3, <2>4, <4>1
    <3> QED
      BY <3>1, <3>2
  <2>8. Considerate(s)
    BY <1>1, <1>3, <2>3, Sorts DEF Considerate
  <2> QED
    BY <1>1, <2>2, <2>5, <2>6, <2>7, <2>8, Ended, StepInv
<1> QED
  BY <1>5, <1>6 DEF MutateRecord

LEMMA StorePurgeRequestInv ==
  ASSUME IInv, NEW s \in Sessions, StorePurgeRequest(s)
  PROVE  IInv'
<1>1. End(s) /\ UNCHANGED <<request, record>> /\ TypeOK
  BY DEF StorePurgeRequest, IInv
<1>2. Rows'
  BY DEF StorePurgeRequest, IInv, TypeOK, Rows
<1> QED
  BY <1>1, <1>2, EndInv

LEMMA LockPurgeInv ==
  ASSUME IInv, NEW s \in Sessions, LockPurge(s)
  PROVE  IInv'
<1> DEFINE lock == <<"purge", session[s].on>>
<1>1. /\ session[s] # Idle /\ session[s].pc = "purge" /\ Local(s) /\ TypeOK
      /\ Wanted(s) = lock /\ session[s] \in Transactions
      /\ UNCHANGED <<request, expected, record, purge>>
  BY Running, WantedIs DEF LockPurge, At, IInv
<1>2. /\ session[s].on \in Creates /\ session[s].of = session[s].on
      /\ session[s].do \in {"request purge", "approve purge"}
      /\ lock \in Locks /\ "purged record" \in Points
  BY <1>1 DEF Local, Minded, Locks, Points
<1>3. Rows'
  BY <1>1 DEF TypeOK, Rows
<1>4. CASE End(s)
  BY <1>1, <1>3, <1>4, EndInv
<1>5. CASE MoveWith(s, lock, "purged record")
  <2>1. /\ session'[s].pc = "purged record"
        /\ session'[s].locks = session[s].locks \cup {lock}
        /\ session'[s].do = session[s].do /\ session'[s].on = session[s].on
        /\ session'[s].of = session[s].of
    <3> DEFINE pc == "purged record"
    <3>1. /\ TypeOK /\ session[s] # Idle /\ lock \in Locks /\ pc \in Points
          /\ MoveWith(s, lock, pc)
      BY <1>1, <1>2, <1>5
    <3> HIDE DEF lock, pc
    <3>2. session'[s].pc = pc
      BY <3>1, Moved
    <3>3. /\ session'[s].locks = session[s].locks \cup {lock}
          /\ session'[s].do = session[s].do /\ session'[s].on = session[s].on
          /\ session'[s].of = session[s].of
      BY <3>1, Moved
    <3> QED
      BY <3>2, <3>3 DEF pc
  <2>2. Ordered(s)'
    BY <1>1, <1>2, <2>1
       DEF Ordered, RecordFirst, LockedBy, OwnRequest, Scanning, Local, Holds
  <2>3. Local(s)'
    BY <1>2, <2>1, <2>2
       DEF Local, Deciding, Pinning, Applying, Minded, Deleting, Expiring, Holds
  <2> QED
    BY <1>1, <1>2, <1>3, <1>5, <2>3, MovedInv
<1> QED
  BY <1>1, <1>4, <1>5 DEF LockPurge

----------------------------------------------------------------------------
(* The statements of a purge and of an expiry *)

LEMMA CollectRequestsInv ==
  ASSUME IInv, NEW s \in Sessions, CollectRequests(s)
  PROVE  IInv'
<1> DEFINE r == session[s].on
           lock == <<"record", r>>
           chosen == Stale(r) \cup Naming(r)
<1>1. /\ session[s] # Idle /\ session[s].pc = "purged record" /\ Local(s) /\ TypeOK
      /\ session[s] \in Transactions /\ UNCHANGED <<request, expected, record, purge>>
  BY Running DEF CollectRequests, At, IInv
<1>2. /\ r \in Creates /\ session[s].of = r /\ lock \in Locks
      /\ session[s].do \in {"request purge", "approve purge"} /\ Wanted(s) = lock
  BY <1>1, WantedIs DEF Local, Minded, Locks
<1>3. Rows'
  BY <1>1 DEF TypeOK, Rows
<1>4. CASE End(s)
  BY <1>1, <1>3, <1>4, EndInv
<1>5. CASE ~End(s)
  <2> DEFINE started(q) ==
        [session[s] EXCEPT !.pc = "delete", !.next = q, !.todo = chosen,
                           !.chosen = chosen, !.locks = @ \cup {lock}]
  <2>1. PICK q \in Scanned(chosen) : session' = [session EXCEPT ![s] = started(q)]
    BY <1>2, <1>5 DEF CollectRequests
  <2> DEFINE new == started(q)
  <2>2. /\ record[r] # NoRecord /\ Free(s, lock) /\ session' = [session EXCEPT ![s] = new]
    BY <1>2, <1>5, <2>1 DEF CollectRequests
  <2>3. chosen \subseteq Requests /\ Naming(r) \subseteq chosen
    BY Sorts DEF Stale, Naming
  <2>4. /\ \A p \in chosen \cap Mutations : Target[p] = r
        /\ \A p \in chosen \ Mutations : IdentityOf[p] = IdentityOf[r]
    BY <1>2, Sorts DEF Stale, Naming, RecordOf, LockConstants
  <2> HIDE DEF chosen
  <2>5. q \in Requests \cup {0}
    BY <2>3 DEF Scanned
  <2>6. /\ new \in Transactions /\ new.pc = "delete" /\ new.todo = chosen /\ new.next = q
        /\ new.chosen = chosen /\ new.locks = session[s].locks \cup {lock}
        /\ new.do = session[s].do /\ new.on = r /\ new.of = r
    BY <1>1, <1>2, <2>3, <2>5 DEF Transactions
  <2> HIDE DEF new
  <2>7. /\ session'[s] = new /\ \A t \in Sessions : t # s => session'[t] = session[t]
        /\ session' \in [Sessions -> {Idle} \cup Transactions]
    BY <1>1, <2>2, <2>6 DEF TypeOK
  <2>8. Alone(s)
    BY <1>1, <2>2, <2>6, <2>7 DEF Alone, IInv, Global, LockedExist, Holds
  <2>9. Naming(r)' = Naming(r)
    BY <1>1, <2>6, <2>7 DEF Naming, RecordOf
  <2>10. Deleting(s)'
    <3>1. Naming(session[s].on)' \subseteq session'[s].chosen
      BY <1>1, <2>3, <2>6, <2>7 DEF Naming, RecordOf
    <3> QED
      BY <2>4, <2>6, <2>7, <3>1 DEF Deleting, Holds
  <2>11. Ordered(s)'
    <3>1. \A l : Holds(s, l)' <=> Holds(s, l) \/ l = lock
      BY <2>6, <2>7 DEF Holds
    <3>2. /\ Holds(s, <<"memory", r>>)
          /\ \A p \in Requests : ~Holds(s, <<"request", p>>)
      BY <1>1, <1>2 DEF Local, Ordered, LockedBy, OwnRequest
    <3>3. RecordFirst(s)'
      BY <1>1, <2>6, <2>7, <3>1, <3>2 DEF Local, Ordered, RecordFirst
    <3>4. LockedBy(s)'
      BY <2>6, <2>7 DEF LockedBy
    <3>5. OwnRequest(s)'
      BY <1>2, <2>6, <2>7 DEF OwnRequest
    <3>6. Scanning(s)'
      BY <1>2, <2>1, <2>6, <2>7, <3>1, <3>2 DEF Scanning
    <3> QED
      BY <3>3, <3>4, <3>5, <3>6 DEF Ordered
  <2>12. Local(s)'
    BY <1>2, <2>6, <2>7, <2>10, <2>11
       DEF Local, Deciding, Pinning, Applying, Minded, Expiring, Holds
  <2> QED
    BY <1>1, <1>3, <2>8, <2>12, QuietInv
<1> QED
  BY <1>4, <1>5

LEMMA DeleteRequestInv ==
  ASSUME IInv, NEW s \in Sessions, DeleteRequest(s)
  PROVE  IInv'
<1> DEFINE q == session[s].next
           lock == <<"request", q>>
           left == session[s].todo \ {q}
           moved(p) == [session[s] EXCEPT !.next = p, !.todo = left, !.locks = @ \cup {lock}]
<1>1. /\ session[s] # Idle /\ session[s].pc = "delete" /\ Local(s) /\ TypeOK
      /\ session[s] \in Transactions /\ session[s].todo # {}
      /\ UNCHANGED <<request, expected, record, purge>>
  BY Running DEF DeleteRequest, At, IInv
<1>2. q \in session[s].todo /\ q \in Requests /\ lock \in Locks /\ Wanted(s) = lock
  <2>1. session[s].todo \subseteq Requests
    BY <1>1 DEF Transactions
  <2>2. q \in session[s].todo
    BY <1>1 DEF Local, Ordered, Scanning, Scanned
  <2> QED
    BY <1>1, <2>1, <2>2, Sorts, WantedIs DEF Locks, At
<1>3. Free(s, lock) /\ \E p \in Scanned(left) : session' = [session EXCEPT ![s] = moved(p)]
  BY <1>2 DEF DeleteRequest
<1>4. PICK p \in Scanned(left) : session' = [session EXCEPT ![s] = moved(p)]
  BY <1>3
<1> DEFINE new == moved(p)
<1>5. Rows'
  BY <1>1 DEF TypeOK, Rows
<1>6. left \subseteq Requests /\ p \in Requests \cup {0}
  BY <1>1 DEF Scanned, Transactions
<1>7. left = session[s].todo \ {q}
  OBVIOUS
<1> HIDE DEF q, left
<1>8. /\ new \in Transactions /\ new.pc = "delete" /\ new.todo = left /\ new.next = p
      /\ new.chosen = session[s].chosen /\ new.locks = session[s].locks \cup {lock}
      /\ new.do = session[s].do /\ new.on = session[s].on /\ new.of = session[s].of
  BY <1>1, <1>2, <1>6 DEF Transactions
<1> HIDE DEF new
<1>9. /\ session'[s] = new /\ \A t \in Sessions : t # s => session'[t] = session[t]
      /\ session' \in [Sessions -> {Idle} \cup Transactions]
  BY <1>1, <1>4, <1>8 DEF TypeOK, new
<1>10. Alone(s)
  BY <1>1, <1>3, <1>8, <1>9 DEF Alone, IInv, Global, LockedExist, Holds
<1>11. Deleting(s)'
  <2>1. Naming(session[s].on)' \subseteq session'[s].chosen
    BY <1>1, <1>8, <1>9 DEF Local, Deleting, Naming, RecordOf
  <2> QED
    BY <1>1, <1>8, <1>9, <1>7, <2>1 DEF Local, Deleting, Holds
<1>12. q \in Mutations => Holds(s, <<"memory", Target[q]>>)
  BY <1>1, <1>2, Sorts DEF Local, Ordered, Scanning, RecordFirst, Deleting, Minded
<1>13. session[s].do \in {"request purge", "approve purge"}
  BY <1>1 DEF Local, Minded
<1>14. Ordered(s)'
  <2>1. RecordFirst(s)'
    BY <1>1, <1>2, <1>8, <1>9, <1>12 DEF Local, Ordered, RecordFirst, Holds
  <2>2. LockedBy(s)'
    BY <1>1, <1>2, <1>8, <1>9 DEF Local, Ordered, LockedBy, Holds
  <2>3. OwnRequest(s)'
    BY <1>1, <1>2, <1>8, <1>9, <1>13 DEF Local, Ordered, OwnRequest, Holds
  <2>4. Scanning(s)'
    BY <1>1, <1>2, <1>4, <1>8, <1>9, <1>7 DEF Local, Ordered, Scanning, Holds
  <2> QED
    BY <2>1, <2>2, <2>3, <2>4 DEF Ordered
<1>15. Local(s)'
  BY <1>1, <1>8, <1>9, <1>11, <1>14
     DEF Local, Deciding, Pinning, Applying, Minded, Expiring, Holds
<1> QED
  BY <1>1, <1>5, <1>10, <1>15, QuietInv

LEMMA EraseRecordInv ==
  ASSUME IInv, NEW s \in Sessions, EraseRecord(s)
  PROVE  IInv'
<1> DEFINE r == session[s].on
           chosen == session[s].chosen
<1>1. /\ session[s] # Idle /\ session[s].pc = "delete" /\ Local(s) /\ TypeOK
      /\ session[s].todo = {} /\ session[s] \in Transactions /\ chosen \subseteq Requests
      /\ End(s) /\ UNCHANGED expected
  BY Running DEF EraseRecord, At, IInv, Transactions
<1>2. /\ r \in Creates /\ Holds(s, <<"record", r>>) /\ Naming(r) \subseteq chosen
      /\ \A q \in chosen \cap Mutations : Target[q] = r
      /\ \A q \in chosen : Holds(s, <<"request", q>>)
  BY <1>1 DEF Local, Minded, Deleting
<1>3. /\ request' = [q \in Requests |-> IF q \in chosen THEN "deleted" ELSE request[q]]
      /\ record' = [record EXCEPT ![r] = NoRecord]
      /\ purge' = [purge EXCEPT ![r] = "purged"]
  BY DEF EraseRecord
<1>4. /\ \A q \in Requests : request'[q] = IF q \in chosen THEN "deleted" ELSE request[q]
      /\ record'[r] = NoRecord /\ \A d \in Creates : d # r => record'[d] = record[d]
  BY <1>1, <1>2, <1>3 DEF TypeOK
<1>5. Rows'
  BY <1>1, <1>3 DEF TypeOK, Rows, Statuses, NoRecord
<1>6. Born'
  BY <1>4, Sorts DEF IInv, Global, Born
<1>7. RevisionsApproved'
  <2>1. ASSUME NEW d \in Creates, d # r
        PROVE  {p \in Mutations : Target[p] = d /\ request'[p] = "approved"}
                 = {p \in Mutations : Target[p] = d /\ request[p] = "approved"}
    BY <1>2, <1>4, <2>1, Sorts
  <2> QED
    BY <1>4, <2>1 DEF IInv, Global, RevisionsApproved
<1>8. NoneNamesPurged'
  <2> SUFFICES ASSUME NEW p \in Requests, request'[p] \notin {"none", "deleted"},
                      RecordOf(p)' # 0
               PROVE  record'[RecordOf(p)'] # NoRecord
    BY DEF NoneNamesPurged
  <2>1. p \notin chosen /\ request'[p] = request[p]
    BY <1>4
  <2>2. /\ RecordOf(p)' = RecordOf(p) /\ RecordOf(p) \in Creates
        /\ record[RecordOf(p)] # NoRecord
    BY <2>1, RecordOfIs DEF IInv, Global, NoneNamesPurged, RecordOf
  <2>3. RecordOf(p) # r
    BY <1>2, <2>1 DEF Naming
  <2> QED
    BY <1>4, <2>2, <2>3
<1>9. Considerate(s)
  <2>1. /\ \A q \in chosen : Free(s, <<"request", q>>)
        /\ Free(s, <<"record", r>>)
    BY <1>2, HeldIsFree
  <2> QED
    BY <1>4, <2>1, Sorts DEF Considerate
<1> QED
  BY <1>1, <1>5, <1>6, <1>7, <1>8, <1>9, Ended, StepInv

LEMMA LockDueInv ==
  ASSUME IInv, NEW s \in Sessions, LockDue(s)
  PROVE  IInv'
<1> DEFINE d == session[s].next
           there == There(s)
           active == {e \in there : record[e].status = "active"}
           taken == {<<"record", e>> : e \in there}
           left == session[s].todo \ {d}
           moved(r) == [session[s] EXCEPT !.next = r, !.todo = left, !.chosen = @ \cup active,
                                          !.locks = @ \cup taken]
<1>1. /\ session[s] # Idle /\ session[s].pc = "expire" /\ Local(s) /\ TypeOK
      /\ session[s] \in Transactions /\ session[s].todo # {}
      /\ UNCHANGED <<request, expected, record, purge>>
  BY Running DEF LockDue, LockNext, At, IInv
<1>2. d \in session[s].todo /\ d \in Creates /\ Wanted(s) = <<"record", d>>
  <2>1. d \in session[s].todo /\ session[s].todo \subseteq Creates
    BY <1>1 DEF Local, Ordered, Scanning, Scanned, Expiring
  <2> QED
    BY <1>1, <2>1, Sorts, WantedIs DEF At
<1>3. /\ Free(s, <<"record", d>>)
      /\ \E r \in Scanned(left) : session' = [session EXCEPT ![s] = moved(r)]
  BY <1>2 DEF LockDue, LockNext
<1>4. PICK r \in Scanned(left) : session' = [session EXCEPT ![s] = moved(r)]
  BY <1>3
<1> DEFINE new == moved(r)
<1>5. /\ there \subseteq Creates /\ there \subseteq {d} /\ active \subseteq there
      /\ taken \subseteq Locks
      /\ active \subseteq Requests
      /\ \A lock \in taken : Free(s, lock) /\ \A q : lock # <<"request", q>>
      /\ taken \subseteq {"record"} \X there
      /\ \A e \in Creates : <<"record", e>> \in taken => record[e] # NoRecord
      /\ \A e \in active : <<"record", e>> \in taken /\ record[e].status = "active"
  BY <1>3, Sorts DEF Locks, There
<1>6. Rows'
  BY <1>1 DEF TypeOK, Rows
<1>7. left \subseteq session[s].todo /\ left \subseteq Requests /\ r \in Requests \cup {0}
  BY <1>1 DEF Scanned, Transactions
<1> HIDE DEF there, active, taken, d, left
<1>8. /\ new \in Transactions /\ new.pc = "expire" /\ new.todo = left /\ new.next = r
      /\ new.chosen = session[s].chosen \cup active
      /\ new.locks = session[s].locks \cup taken
      /\ new.do = session[s].do /\ new.on = session[s].on /\ new.of = session[s].of
  BY <1>1, <1>5, <1>7 DEF Transactions
<1> HIDE DEF new
<1>9. /\ session'[s] = new /\ \A t \in Sessions : t # s => session'[t] = session[t]
      /\ session' \in [Sessions -> {Idle} \cup Transactions]
  BY <1>1, <1>4, <1>8 DEF TypeOK, new
<1>10. Alone(s)
  BY <1>1, <1>5, <1>8, <1>9 DEF Alone, IInv, Global, LockedExist, Holds
<1>11. Expiring(s)'
  BY <1>1, <1>5, <1>7, <1>8, <1>9 DEF Local, Expiring, Holds
<1>12. Ordered(s)'
  <2>1. RecordFirst(s)'
    BY <1>1, <1>5, <1>7, <1>8, <1>9 DEF Local, Ordered, RecordFirst, Holds, Scanning
  <2>2. LockedBy(s)'
    BY <1>1, <1>5, <1>7, <1>8, <1>9 DEF Local, Ordered, LockedBy, Holds
  <2>3. OwnRequest(s)'
    BY <1>1, <1>5, <1>7, <1>8, <1>9 DEF Local, Ordered, OwnRequest, Holds, Scanning
  <2>4. Scanning(s)'
    BY <1>1, <1>4, <1>5, <1>8, <1>9 DEF Local, Ordered, Scanning, Holds
  <2> QED
    BY <2>1, <2>2, <2>3, <2>4 DEF Ordered
<1>13. Local(s)'
  BY <1>1, <1>5, <1>7, <1>8, <1>9, <1>11, <1>12
     DEF Local, Deciding, Pinning, Applying, Minded, Deleting, Holds
<1> QED
  BY <1>1, <1>6, <1>10, <1>13, QuietInv

LEMMA ExpireDueInv ==
  ASSUME IInv, NEW s \in Sessions, ExpireDue(s)
  PROVE  IInv'
<1> DEFINE chosen == session[s].chosen
<1>1. /\ session[s] # Idle /\ session[s].pc = "expire" /\ Local(s) /\ TypeOK
      /\ End(s) /\ UNCHANGED <<request, expected, purge>>
  BY Running DEF ExpireDue, At, IInv
<1>2. /\ chosen \subseteq Creates
      /\ \A r \in chosen : Holds(s, <<"record", r>>) /\ record[r].status = "active"
  BY <1>1 DEF Local, Expiring
<1>3. record' = [r \in Creates |->
                   IF r \in chosen THEN [record[r] EXCEPT !.status = "expired"]
                   ELSE record[r]]
  BY DEF ExpireDue
<1>4. /\ \A r \in Creates : r \notin chosen => record'[r] = record[r]
      /\ \A r \in chosen : /\ record'[r] # NoRecord /\ record[r] # NoRecord
                           /\ record'[r].revision = record[r].revision
      /\ record' \in [Creates -> [status : {"none", "active", "tombstoned", "expired"},
                                  revision : Nat]]
  <2> DEFINE expired(r) == [record[r] EXCEPT !.status = "expired"]
  <2>1. \A r \in Creates :
          record[r] \in [status : {"none", "active", "tombstoned", "expired"},
                         revision : Nat]
    BY <1>1 DEF TypeOK
  <2>2. \A r \in Creates :
          /\ expired(r) \in [status : {"none", "active", "tombstoned", "expired"},
                             revision : Nat]
          /\ expired(r).status = "expired" /\ expired(r).revision = record[r].revision
    BY <2>1
  <2>3. \A r \in chosen : expired(r) # NoRecord /\ record[r] # NoRecord
    <3> HIDE DEF expired
    <3>1. \A r \in chosen : expired(r).status = "expired" /\ record[r].status = "active"
      BY <1>2, <2>2
    <3> QED
      BY <3>1 DEF NoRecord
  <2>4. \A r \in Creates :
          record'[r] = IF r \in chosen THEN expired(r) ELSE record[r]
    BY <1>3
  <2>5. record' \in [Creates -> [status : {"none", "active", "tombstoned", "expired"},
                                 revision : Nat]]
    BY <1>3, <2>1, <2>2
  <2> HIDE DEF expired
  <2> QED
    BY <1>2, <2>2, <2>3, <2>4, <2>5
<1>5. Rows'
  BY <1>1, <1>4 DEF TypeOK, Rows
<1>6. \A r \in Creates : record'[r] = NoRecord <=> record[r] = NoRecord
  BY <1>4
<1>7. Born'
  BY <1>1, <1>6 DEF IInv, Global, Born
<1>8. RevisionsApproved'
  <2>1. \A r \in Creates : record'[r] # NoRecord => record'[r].revision = record[r].revision
    BY <1>4
  <2> DEFINE approved(r) == Cardinality({q \in Mutations : Target[q] = r /\ request[q] = "approved"})
  <2>2. \A r \in Creates : record[r] # NoRecord => record[r].revision = 1 + approved(r)
    BY DEF IInv, Global, RevisionsApproved
  <2>3. \A r \in Creates : record'[r] # NoRecord => record'[r].revision = 1 + approved(r)
    <3> HIDE DEF approved
    <3> QED
      BY <1>6, <2>1, <2>2
  <2> QED
    BY <1>1, <2>3 DEF RevisionsApproved
<1>9. NoneNamesPurged'
  BY <1>1, <1>6, RecordOfIs DEF IInv, Global, NoneNamesPurged, RecordOf
<1>10. Considerate(s)
  BY <1>1, <1>2, <1>4, HeldIsFree DEF Considerate
<1> QED
  BY <1>1, <1>5, <1>7, <1>8, <1>9, <1>10, Ended, StepInv

----------------------------------------------------------------------------
(* The invariant *)

LEMMA InitInv == Init => IInv
<1> SUFFICES ASSUME Init PROVE IInv
  OBVIOUS
<1>1. /\ \A s \in Sessions : session[s] = Idle /\ session[s].locks = {}
                             /\ session[s].pc = "idle"
      /\ \A q \in Requests : request[q] = "none"
      /\ \A r \in Creates : record[r] = NoRecord
  BY DEF Init, Idle
<1>2. TypeOK
  BY <1>1 DEF Init, TypeOK, Statuses, NoRecord
<1>3. Global
  BY <1>1, Sorts
     DEF Global, LockedExist, Holds, Born, RevisionsApproved, NoneNamesPurged
<1>4. \A s \in Sessions : Local(s)
  BY <1>1 DEF Local, Deciding, Pinning, Applying, Minded, Deleting, Expiring, Ordered,
              RecordFirst, LockedBy, OwnRequest, Scanning, Holds
<1> QED
  BY <1>2, <1>3, <1>4 DEF IInv

LEMMA DetectDeadlockInv ==
  ASSUME IInv, NEW s \in Sessions, DetectDeadlock(s)
  PROVE  IInv'
<1>1. End(s) /\ UNCHANGED <<request, record>> /\ Rows'
  BY DEF DetectDeadlock, IInv, TypeOK, Rows
<1> QED
  BY <1>1, EndInv

LEMMA NextInv == IInv /\ [Next]_vars => IInv'
<1> SUFFICES ASSUME IInv, [Next]_vars PROVE IInv'
  OBVIOUS
<1>1. CASE UNCHANGED vars
  <2>1. ASSUME NEW s \in Sessions PROVE Local(s)'
    <3>1. Local(s) /\ request' = request /\ record' = record /\ session' = session
      BY <1>1 DEF vars, IInv
    <3>2. Naming(session[s].on)' = Naming(session[s].on)
      BY <3>1 DEF Naming, RecordOf
    <3>3. Ordered(s)'
      <4>1. \A lock : Holds(s, lock)' <=> Holds(s, lock)
        BY <3>1 DEF Holds
      <4>2. RecordFirst(s)'
        BY <3>1, <4>1 DEF Local, Ordered, RecordFirst
      <4>3. LockedBy(s)'
        BY <3>1, <4>1 DEF Local, Ordered, LockedBy
      <4>4. OwnRequest(s)'
        BY <3>1, <4>1 DEF Local, Ordered, OwnRequest
      <4>5. Scanning(s)'
        BY <3>1, <4>1 DEF Local, Ordered, Scanning
      <4> QED
        BY <4>2, <4>3, <4>4, <4>5 DEF Ordered
    <3> QED
      BY <3>1, <3>2, <3>3 DEF Local, Deciding, Pinning, Applying, Minded, Deleting,
                              Expiring, Holds
  <2> QED
    BY <1>1, <2>1 DEF vars, IInv, TypeOK, Global, LockedExist, Holds, Born,
                      RevisionsApproved, NoneNamesPurged, RecordOf
<1>2. ASSUME NEW s \in Sessions, NEW q \in Requests, Submit(s, q) PROVE IInv'
  BY <1>2, SubmitInv
<1>3. ASSUME NEW s \in Sessions, NEW q \in Requests, NEW decision \in Decisions,
             Decide(s, q, decision)
      PROVE  IInv'
  BY <1>3, DecideInv
<1>4. ASSUME NEW s \in Sessions, NEW r \in Creates,
             RequestPurge(s, r) \/ ApprovePurge(s, r)
      PROVE  IInv'
  BY <1>4, PurgeInv
<1>5. ASSUME NEW s \in Sessions,
             \/ Expire(s) \/ LockMemory(s) \/ LockTarget(s) \/ InsertRequest(s)
             \/ ReadRecordId(s) \/ LockRequest(s) \/ CreateRecord(s) \/ MutateRecord(s)
      PROVE  IInv'
  BY <1>5, ExpireInv, LockMemoryInv, LockTargetInv, InsertRequestInv, ReadRecordIdInv,
     LockRequestInv, CreateRecordInv, MutateRecordInv
<1>6. ASSUME NEW s \in Sessions,
             \/ StorePurgeRequest(s) \/ LockPurge(s) \/ CollectRequests(s)
             \/ DeleteRequest(s) \/ EraseRecord(s) \/ LockDue(s) \/ ExpireDue(s)
             \/ DetectDeadlock(s)
      PROVE  IInv'
  BY <1>6, StorePurgeRequestInv, LockPurgeInv, CollectRequestsInv, DeleteRequestInv,
     EraseRecordInv, LockDueInv, ExpireDueInv, DetectDeadlockInv
<1> QED
  BY <1>1, <1>2, <1>3, <1>4, <1>5, <1>6 DEF Next

\* The inductive invariant of all transactions.
THEOREM Invariance == Spec => []IInv
BY InitInv, NextInv, PTL DEF Spec

----------------------------------------------------------------------------
(* Theorems *)

\* The tables and the transactions keep their types, and a lock of RecordLocks
\* never has two holders, for any number of connections (0020:280-300).
THEOREM LocksTyped == Spec => []TypeOK
<1>1. IInv => TypeOK
  BY DEF IInv
<1> QED
  BY <1>1, Invariance, PTL

\* A revision counts the approved changes of its record, however many
\* submissions, repeated ones too, and decisions run at once (0020:386-423).
THEOREM EveryRevisionApproved == Spec => []RevisionsApproved
<1>1. IInv => RevisionsApproved
  BY DEF IInv, Global
<1> QED
  BY <1>1, Invariance, PTL

\* No request is left that names a purged record, although a purge reads the
\* requests it deletes without locking them (0020:742-750).
THEOREM PurgeIsComplete == Spec => []NoneNamesPurged
<1>1. IInv => NoneNamesPurged
  BY DEF IInv, Global
<1> QED
  BY <1>1, Invariance, PTL

\* Requests, revisions and purges agree between commits, for any number of
\* connections, requests and records (0020:386-423, 742-750).
THEOREM TablesStayInStep == Spec => []TablesAgree
BY EveryRevisionApproved, PurgeIsComplete, PTL DEF TablesAgree

\* One step of a transaction leaves a tombstoned or an expired record alone,
\* unless it purges it.
LEMMA ClosedStep ==
  IInv /\ [Next]_vars =>
    \A r \in Creates : record[r].status \in {"tombstoned", "expired"} =>
      record'[r] \in {record[r], NoRecord}
<1> SUFFICES ASSUME IInv, [Next]_vars, NEW r \in Creates,
                    record[r].status \in {"tombstoned", "expired"},
                    record'[r] # record[r]
             PROVE  record'[r] = NoRecord
  OBVIOUS
<1>1. TypeOK /\ Born /\ \A s \in Sessions : Local(s)
  BY DEF IInv, Global
<1>2. record[r] # NoRecord
  BY DEF NoRecord
<1>3. PICK s \in Sessions :
        CreateRecord(s) \/ MutateRecord(s) \/ EraseRecord(s) \/ ExpireDue(s)
  <2>1. ~UNCHANGED record
    OBVIOUS
  <2> QED
    BY <2>1 DEF Next, vars, Submit, Decide, Begin, RequestPurge, ApprovePurge, Expire,
       LockMemory, LockTarget, InsertRequest, ReadRecordId, LockRequest,
       StorePurgeRequest, LockPurge, CollectRequests, DeleteRequest, LockDue,
       LockNext, DetectDeadlock
<1>4. CASE CreateRecord(s)
  <2>1. session[s].pc = "row" /\ request[session[s].on] \in {"none", "pending"}
    BY <1>1, <1>4 DEF CreateRecord, At, Local, Applying
  <2>2. r # session[s].on
    BY <1>1, <1>2, <2>1 DEF Born
  <2> QED
    BY <1>1, <1>4, <2>2 DEF CreateRecord, TypeOK
<1>5. CASE MutateRecord(s)
  BY <1>1, <1>5 DEF MutateRecord, Applicable, TypeOK
<1>6. CASE EraseRecord(s)
  BY <1>1, <1>6 DEF EraseRecord, TypeOK
<1>7. CASE ExpireDue(s)
  BY <1>1, <1>7 DEF ExpireDue, At, Local, Expiring
<1> QED
  BY <1>3, <1>4, <1>5, <1>6, <1>7

\* A tombstoned or expired record is never written again, although expiry locks
\* nothing but its rows (0011:26-32, 0020:386-398).
THEOREM ClosedRecordsStay == Spec => ClosedStaysClosed
<1>1. IInv /\ [Next]_vars =>
        [\A r \in Creates : record[r].status \in {"tombstoned", "expired"} =>
           record'[r] \in {record[r], NoRecord}]_vars
  BY ClosedStep
<1> QED
  BY <1>1, Invariance, PTL DEF Spec, ClosedStaysClosed

----------------------------------------------------------------------------
(* No circle of waiting transactions *)

\* A transaction that waits for another one wants a lock it does not hold.
LEMMA Waiting ==
  ASSUME IInv, NEW s \in Sessions, NEW t \in Sessions, WaitsFor(s, t)
  PROVE  /\ session[s] \in Transactions /\ session[t] \in Transactions
         /\ Wanted(s) \in Locks /\ Holds(t, Wanted(s)) /\ ~Holds(s, Wanted(s))
         /\ session[s].pc \in Points \ {"lookup"}
         /\ session[s].pc \in {"delete", "expire"} => session[s].next \in session[s].todo
<1>1. /\ s # t /\ session[s].pc # "idle" /\ Wanted(s) \in session[t].locks
      /\ session[s].locks \cap session[t].locks = {} /\ TypeOK /\ Scanning(s)
  BY DEF WaitsFor, TypeOK, IInv, Local, Ordered
<1>2. session[s] \in Transactions /\ session[t] \in Transactions
  BY <1>1, Running
<1>3. Wanted(s) \in Locks
  BY <1>1, <1>2 DEF Transactions
<1>4. Wanted(s) # <<>>
  BY <1>3 DEF Locks
<1>5. session[s].pc \in Points
  BY <1>2 DEF Transactions, Points
<1>6. session[s].pc # "lookup"
  BY <1>4 DEF Wanted, At
<1>7. session[s].pc \in {"delete", "expire"} => session[s].next \in session[s].todo
  <2>1. session[s].pc \in {"delete", "expire"} => session[s].next # 0
    BY <1>4 DEF Wanted, At
  <2> QED
    BY <1>1, <2>1 DEF Scanning, Scanned
<1> QED
  BY <1>1, <1>2, <1>3, <1>5, <1>6, <1>7 DEF Holds

\* Transactions that wait for one another, none of which repeats a create, and
\* no circle among them of purges or of expiries that scan the same rows.
Stuck(S) ==
  /\ S \subseteq Sessions
  /\ \A s \in S : \E t \in S : WaitsFor(s, t)
  /\ \A s \in S : ~Repeats(s)
  /\ \A T \in SUBSET S : ~(Circle(T) /\ ScanTheSame(T))

\* One that waits for its record's first lock has no lock.
LEMMA FirstHoldsNothing ==
  ASSUME IInv, NEW S, Stuck(S), NEW s \in S, session[s].pc = "memory"
  PROVE  \A lock : ~Holds(s, lock)
<1>1. s \in Sessions /\ ~Repeats(s)
  BY DEF Stuck
<1>2. LockedBy(s)
  BY <1>1 DEF IInv, Local, Ordered
<1> QED
  BY <1>1, <1>2 DEF LockedBy, Repeats, At, Holds

\* Two transactions never hold the same lock.
LEMMA OneHolder ==
  ASSUME TypeOK, NEW s \in Sessions, NEW t \in Sessions, NEW lock,
         Holds(s, lock), Holds(t, lock)
  PROVE  s = t
BY DEF TypeOK, Holds

\* A request that is locked by one that waits is a mutation, and its record is
\* locked too, unless a purge deletes it.
LEMMA LockedRequest ==
  ASSUME IInv, NEW S, Stuck(S), NEW t \in S, NEW q \in Requests,
         Holds(t, <<"request", q>>), session[t].pc # "delete"
  PROVE  q \in Mutations /\ Holds(t, <<"memory", Target[q]>>)
<1>1. t \in Sessions /\ TypeOK /\ Local(t) /\ Ordered(t)
  BY DEF Stuck, IInv, Local
<1>2. PICK u \in S : WaitsFor(t, u)
  BY DEF Stuck
<1>3. /\ session[t] \in Transactions /\ session[t].pc # "idle"
      /\ Wanted(t) \in Locks /\ ~Holds(t, Wanted(t))
      /\ session[t].pc \in Points \ {"lookup"}
  BY <1>1, <1>2, Waiting, Running DEF Stuck
<1>4. q \in Mutations => Holds(t, <<"memory", Target[q]>>)
  BY <1>1 DEF Ordered, RecordFirst
<1>5. ASSUME q \in Creates PROVE FALSE
  <2>1. session[t].do \in {"submit", "decide", "request purge", "approve purge", "expire"}
    BY <1>3 DEF Transactions
  <2>2. session[t].do # "expire"
    BY <1>1, <1>3 DEF Ordered, Scanning, Holds
  <2>3. session[t].do \in {"submit", "decide"} /\ q = session[t].on
    BY <1>1, <1>3, <2>1, <2>2 DEF Ordered, OwnRequest
  <2>4. session[t].pc \in {"memory", "target", "insert", "request", "row"}
    BY <1>1, <1>3, <2>2, <2>3 DEF Points, Local, Minded, Ordered, Scanning
  <2>5. session[t].pc # "memory"
    BY FirstHoldsNothing
  <2>6. session[t].pc # "target"
    BY <1>1, <1>5, <2>3 DEF Ordered, LockedBy
  <2>7. session[t].pc \notin {"insert", "request"}
    BY <1>1, <1>3, <2>3, WantedIs
  <2>8. session[t].pc # "row"
    <3> SUFFICES ASSUME session[t].pc = "row" PROVE FALSE
      OBVIOUS
    <3>1. request[q] \in {"none", "pending"}
      BY <1>1, <2>3 DEF Local, Applying
    <3>2. session[t].of = 0
      BY <1>1, <1>5, <2>3, <3>1 DEF Ordered, LockedBy
    <3>3. Wanted(t) = <<"record", 0>>
      BY <1>1, <3>2, WantedIs
    <3> QED
      BY <1>3, <3>3 DEF Locks
  <2> QED
    BY <2>4, <2>5, <2>6, <2>7, <2>8
<1> QED
  BY <1>4, <1>5 DEF Requests

\* A purge waits only for a purge of a record that had the same identity.
LEMMA PurgesShare ==
  ASSUME IInv, NEW S, Stuck(S), NEW s \in S, session[s].pc = "delete"
  PROVE  \E t \in S :
           /\ WaitsFor(s, t) /\ session[t].pc = "delete"
           /\ IdentityOf[session[t].on] = IdentityOf[session[s].on]
<1>1. s \in Sessions /\ TypeOK /\ Local(s) /\ Ordered(s)
  BY DEF Stuck, IInv, Local
<1>2. PICK t \in S : WaitsFor(s, t)
  BY DEF Stuck
<1>3. t \in Sessions /\ Local(t) /\ Ordered(t)
  BY DEF Stuck, IInv, Local
<1> DEFINE e == session[s].next
<1>4. /\ e \in session[s].todo /\ session[s] \in Transactions /\ s # t
      /\ Holds(t, Wanted(s))
  BY <1>1, <1>2, <1>3, Waiting DEF WaitsFor
<1>5. /\ e \in Requests /\ e \in session[s].chosen /\ Holds(t, <<"request", e>>)
  <2>1. e \in Requests /\ e # 0 /\ e \in session[s].chosen
    BY <1>1, <1>4, Sorts DEF Transactions, Ordered, Scanning
  <2>2. Wanted(s) = <<"request", e>>
    BY <1>1, <2>1, WantedIs DEF At
  <2> QED
    BY <1>4, <2>1, <2>2
<1> HIDE DEF e
<1>6. /\ Holds(s, <<"record", session[s].on>>) /\ session[s].on \in Creates
      /\ Holds(s, <<"memory", session[s].on>>)
      /\ e \in Mutations => Target[e] = session[s].on
      /\ e \notin Mutations => IdentityOf[e] = IdentityOf[session[s].on]
  <2>1. /\ Holds(s, <<"record", session[s].on>>) /\ session[s].on \in Creates
        /\ session[s].do # "expire"
    BY <1>1 DEF Local, Deleting, Minded
  <2>2. Holds(s, <<"memory", session[s].on>>)
    BY <1>1, <2>1 DEF Ordered, RecordFirst
  <2> QED
    BY <1>1, <1>5, <2>1, <2>2 DEF Local, Deleting
<1>7. session[t].pc = "delete"
  <2> SUFFICES ASSUME session[t].pc # "delete" PROVE FALSE
    OBVIOUS
  <2>1. e \in Mutations /\ Holds(t, <<"memory", Target[e]>>)
    BY <1>5, LockedRequest
  <2> QED
    BY <1>1, <1>3, <1>4, <1>6, <2>1, OneHolder
<1>8. /\ e \in session[t].chosen
      /\ e \in Mutations => Holds(t, <<"record", Target[e]>>)
      /\ e \notin Mutations => IdentityOf[e] = IdentityOf[session[t].on]
  <2>1. e \in session[t].chosen
    BY <1>3, <1>5, <1>7 DEF Ordered, Scanning
  <2> QED
    BY <1>3, <1>7, <2>1 DEF Local, Deleting
<1>9. e \notin Mutations
  BY <1>1, <1>3, <1>4, <1>6, <1>8, OneHolder
<1> QED
  BY <1>2, <1>6, <1>7, <1>8, <1>9

\* So the purges of one identity would be a circle of their own.
LEMMA NoPurgeStuck ==
  ASSUME IInv, NEW S, Stuck(S), NEW s \in S
  PROVE  session[s].pc # "delete"
<1> SUFFICES ASSUME session[s].pc = "delete" PROVE FALSE
  OBVIOUS
<1> DEFINE T == {t \in S : /\ session[t].pc = "delete"
                           /\ IdentityOf[session[t].on] = IdentityOf[session[s].on]}
<1>1. s \in T /\ T \in SUBSET S
  OBVIOUS
<1>2. \A t \in T : \E u \in T : WaitsFor(t, u)
  BY PurgesShare
<1>3. ScanTheSame(T)
  BY DEF ScanTheSame, At
<1> HIDE DEF T
<1>4. Circle(T)
  BY <1>1, <1>2 DEF Circle
<1> QED
  BY <1>1, <1>3, <1>4 DEF Stuck

\* Whoever has a request locked by now can end.
LEMMA NoneAtRequest ==
  ASSUME IInv, NEW S, Stuck(S), NEW s \in S
  PROVE  session[s].pc \notin {"insert", "request"}
<1> SUFFICES ASSUME session[s].pc \in {"insert", "request"} PROVE FALSE
  OBVIOUS
<1>1. s \in Sessions /\ TypeOK /\ Local(s) /\ Ordered(s)
  BY DEF Stuck, IInv, Local
<1>2. PICK t \in S : WaitsFor(s, t)
  BY DEF Stuck
<1>3. t \in Sessions /\ session[s].on \in Requests /\ s # t
      /\ Holds(t, <<"request", session[s].on>>)
  <2>1. t \in Sessions /\ s # t /\ Holds(t, Wanted(s))
    BY <1>1, <1>2, Waiting DEF Stuck, WaitsFor
  <2>2. Wanted(s) = <<"request", session[s].on>>
    BY <1>1, WantedIs
  <2>3. session[s].on \in Requests
    BY <1>1 DEF Local, Deciding
  <2> QED
    BY <2>1, <2>2, <2>3
<1>4. /\ session[s].on \in Mutations /\ Holds(t, <<"memory", Target[session[s].on]>>)
  BY <1>3, NoPurgeStuck, LockedRequest
<1>5. Holds(s, <<"memory", Target[session[s].on]>>)
  BY <1>1, <1>4 DEF Ordered, LockedBy
<1> QED
  BY <1>1, <1>3, <1>4, <1>5, OneHolder

\* Expiry waits only for an expiry.
LEMMA ExpiriesShare ==
  ASSUME IInv, NEW S, Stuck(S), NEW s \in S, session[s].pc = "expire"
  PROVE  \E t \in S : WaitsFor(s, t) /\ session[t].pc = "expire"
<1>1. s \in Sessions /\ TypeOK /\ Local(s) /\ Ordered(s)
  BY DEF Stuck, IInv, Local
<1>2. PICK t \in S : WaitsFor(s, t)
  BY DEF Stuck
<1>3. t \in Sessions /\ Local(t) /\ Ordered(t)
  BY DEF Stuck, IInv, Local
<1>4. PICK u \in S : WaitsFor(t, u)
  BY DEF Stuck
<1>5. /\ session[t] \in Transactions /\ session[t].pc # "idle" /\ ~Holds(t, Wanted(t))
      /\ session[t].pc \in Points \ {"lookup"}
  BY <1>1, <1>3, <1>4, Waiting, Running DEF Stuck
<1> DEFINE d == session[s].next
<1>6. d \in Creates /\ Holds(t, <<"record", d>>)
  <2>1. d \in session[s].todo /\ Holds(t, Wanted(s))
    BY <1>1, <1>2, <1>3, Waiting
  <2>2. d \in Creates /\ d # 0
    BY <1>1, <2>1, Sorts DEF Local, Expiring
  <2>3. Wanted(s) = <<"record", d>>
    BY <1>1, <2>2, WantedIs DEF At
  <2> QED
    BY <2>1, <2>2, <2>3
<1> HIDE DEF d
<1>7. session[t].do = "expire"
  <2> SUFFICES ASSUME session[t].do # "expire" PROVE FALSE
    OBVIOUS
  <2>1. session[t].do = "submit" /\ session[t].on \in Mutations /\ session[t].pc # "target"
    BY <1>3, <1>6, NoPurgeStuck DEF Ordered, RecordFirst
  <2>2. session[t].pc \notin {"purge", "purged record", "delete", "asked record", "expire"}
    BY <1>3, <1>5, <2>1 DEF Local, Minded, Ordered, Scanning
  <2>3. session[t].pc \notin {"memory", "insert", "request"}
    BY <1>6, FirstHoldsNothing, NoneAtRequest
  <2>4. session[t].pc = "row"
    BY <1>5, <2>1, <2>2, <2>3 DEF Points
  <2>5. Holds(t, <<"record", Target[session[t].on]>>)
    BY <1>3, <2>1, <2>4 DEF Local, Pinning
  <2>6. Wanted(t) = <<"record", Target[session[t].on]>>
    BY <1>3, <2>1, <2>4, WantedIs DEF Local, Deciding
  <2> QED
    BY <1>5, <2>5, <2>6
<1>8. session[t].pc = "expire"
  BY <1>3, <1>5, <1>7 DEF Ordered, Scanning
<1> QED
  BY <1>2, <1>8

\* So the expiries would be a circle of their own.
LEMMA NoExpiryStuck ==
  ASSUME IInv, NEW S, Stuck(S), NEW s \in S
  PROVE  session[s].pc # "expire"
<1> SUFFICES ASSUME session[s].pc = "expire" PROVE FALSE
  OBVIOUS
<1> DEFINE T == {t \in S : session[t].pc = "expire"}
<1>1. s \in T /\ T \in SUBSET S
  OBVIOUS
<1>2. \A t \in T : \E u \in T : WaitsFor(t, u)
  BY ExpiriesShare
<1>3. ScanTheSame(T)
  BY DEF ScanTheSame, At
<1> HIDE DEF T
<1>4. Circle(T)
  BY <1>1, <1>2 DEF Circle
<1> QED
  BY <1>1, <1>3, <1>4 DEF Stuck

\* Whoever has its record's first lock gets every other lock of that record.
LEMMA NoneAtRecord ==
  ASSUME IInv, NEW S, Stuck(S), NEW s \in S
  PROVE  session[s].pc \notin {"target", "row", "purge", "purged record", "asked record"}
<1> SUFFICES ASSUME session[s].pc \in {"target", "row", "purge", "purged record",
                                       "asked record"}
             PROVE  FALSE
  OBVIOUS
<1>1. s \in Sessions /\ TypeOK /\ Local(s) /\ Ordered(s)
  BY DEF Stuck, IInv, Local
<1>2. PICK t \in S : WaitsFor(s, t)
  BY DEF Stuck
<1>3. t \in Sessions /\ Local(t) /\ Ordered(t)
  BY DEF Stuck, IInv, Local
<1>4. PICK u \in S : WaitsFor(t, u)
  BY DEF Stuck
<1>5. /\ session[t].pc # "idle" /\ session[t].do # "expire"
  BY <1>3, <1>4, NoExpiryStuck DEF WaitsFor, Ordered, Scanning
<1>6. /\ s # t /\ Wanted(s) \in Locks /\ Holds(t, Wanted(s))
  BY <1>1, <1>2, <1>3, Waiting DEF WaitsFor
<1>7. \A r \in Creates : Holds(t, <<"record", r>>) \/ Holds(t, <<"purge", r>>) =>
                           Holds(t, <<"memory", r>>)
  BY <1>3, <1>5 DEF Ordered, RecordFirst
<1>8. CASE session[s].pc = "purge"
  <2>1. /\ Wanted(s) = <<"purge", session[s].on>> /\ session[s].on \in Creates
        /\ Holds(s, <<"memory", session[s].on>>)
    BY <1>1, <1>8, WantedIs, Running DEF At, Local, Minded, Ordered, LockedBy
  <2> QED
    BY <1>1, <1>3, <1>6, <1>7, <2>1, OneHolder
<1>9. CASE session[s].pc # "purge"
  <2>1. Wanted(s) = <<"record", session[s].of>>
    BY <1>1, <1>9, WantedIs
  <2>2. session[s].of \in Creates
    <3>1. \A r : <<"record", r>> \in Locks => r \in Creates
      BY DEF Locks
    <3> QED
      BY <1>6, <2>1, <3>1
  <2>3. Holds(s, <<"memory", session[s].of>>)
    <3>1. CASE session[s].pc # "row"
      BY <1>1, <1>9, <3>1 DEF Ordered, LockedBy
    <3>2. CASE session[s].pc = "row" /\ session[s].on \in Mutations
      BY <1>1, <3>2 DEF Ordered, LockedBy, Local, Deciding
    <3>3. CASE session[s].pc = "row" /\ session[s].on \notin Mutations
      <4>1. /\ session[s].on \in Creates /\ session[s].do \in {"submit", "decide"}
            /\ request[session[s].on] \in {"none", "pending"}
        BY <1>1, <3>3 DEF Local, Deciding, Applying, Requests
      <4> QED
        BY <1>1, <2>2, <3>3, <4>1, Sorts DEF Ordered, LockedBy
    <3> QED
      BY <3>1, <3>2, <3>3
  <2> QED
    BY <1>1, <1>3, <1>6, <1>7, <2>1, <2>2, <2>3, OneHolder
<1> QED
  BY <1>8, <1>9

\* So no transaction of such a circle waits for anything but its first lock, and
\* it has none to wait for.
LEMMA OrderedNeverStuck ==
  ASSUME IInv
  PROVE  OnlyScansDeadlock
<1> SUFFICES ASSUME NEW S \in SUBSET Sessions, S # {},
                    \A s \in S : \E t \in S : WaitsFor(s, t),
                    \A s \in S : ~Repeats(s),
                    \A T \in SUBSET S : ~(Circle(T) /\ ScanTheSame(T))
             PROVE  FALSE
  BY DEF OnlyScansDeadlock, Circle
<1>1. Stuck(S)
  BY DEF Stuck
<1>2. ASSUME NEW s \in S PROVE session[s].pc = "memory"
  <2>1. PICK t \in S : WaitsFor(s, t)
    OBVIOUS
  <2>2. session[s].pc \in Points \ {"lookup"}
    BY <2>1, Waiting
  <2> QED
    BY <1>1, <2>2, NoPurgeStuck, NoneAtRequest, NoExpiryStuck, NoneAtRecord DEF Points
<1>3. PICK s \in S, t \in S : WaitsFor(s, t)
  OBVIOUS
<1>4. Holds(t, Wanted(s))
  BY <1>3, Waiting
<1> QED
  BY <1>1, <1>2, <1>4, FirstHoldsNothing

\* Transactions wait for each other in a circle, whatever number of them runs and
\* in whatever order the scans lock their rows, only if one of them repeats a
\* create that was applied at once, or if purges of one identity or expiries are
\* a circle of their own (0020:280-286, 505-507, 742; 0011:26-32).
THEOREM OnlyScansAndRepeatsDeadlock == Spec => []OnlyScansDeadlock
BY OrderedNeverStuck, Invariance, PTL

=============================================================================
