------------------------------- MODULE Recall -------------------------------
(***************************************************************************)
(* Recall by the memory provider of one agent process: the cache of texts  *)
(* that a background worker of Hermes fills, one prefetch at a time, and   *)
(* that sessions clear when they begin, switch and end, while records      *)
(* change.                                                                 *)
(***************************************************************************)
EXTENDS Naturals, Sequences

CONSTANTS
  Queries,      \* what Hermes asks to be recalled
  Records,      \* the memory records
  Answers,      \* the records each query can find
  MaxSessions,  \* bound: how many sessions begin
  MaxQueued     \* bound: how many prefetches wait

ASSUME RecallConstants ==
  /\ Answers \in [Queries -> SUBSET Records]
  /\ MaxSessions \in Nat /\ MaxQueued \in Nat

VARIABLES
  active,   \* the records a search finds now
  cache,    \* _prefetch_cache: the records each cached text tells of
  session,  \* the number of the session, 0 without one
  began,    \* how many sessions have begun
  queue,    \* the prefetches that wait for the worker
  worker,   \* the local variables of the prefetch that runs
  recent,   \* the records active since the last prefetch of a query began
  of        \* the session in which the last prefetch of a query began

vars == <<active, cache, session, began, queue, worker, recent, of>>

Idle == [pc |-> "idle"]

\* Of a prefetch that runs, and for the properties the session it began in and
\* the records active since.
Worker ==
  [pc : {"words", "near", "store"}, query : Queries, found : SUBSET Records,
   session : 0..MaxSessions, failed : BOOLEAN, seen : SUBSET Records]

\* The types of the variables; a query is cached with what it can find.
TypeOK ==
  /\ active \subseteq Records
  /\ cache \in [Queries -> SUBSET Records]
  /\ \A q \in Queries : cache[q] \subseteq Answers[q]
  /\ began \in 0..MaxSessions /\ session \in 0..began
  /\ queue \in Seq(Queries) /\ Len(queue) <= MaxQueued
  /\ worker = Idle \/ worker \in Worker
  /\ recent \in [Queries -> SUBSET Records]
  /\ of \in [Queries -> 0..began]

\* A cached empty text and no entry are the same to prefetch.
Empty == [q \in Queries |-> {}]

Init ==
  /\ active \in SUBSET Records
  /\ cache = Empty /\ session = 0 /\ began = 0
  /\ queue = <<>> /\ worker = Idle
  /\ recent = Empty /\ of = [q \in Queries |-> 0]

\* initialize and on_session_switch.
BeginSession ==
  /\ began < MaxSessions
  /\ began' = began + 1 /\ session' = began + 1
  /\ cache' = Empty
  /\ UNCHANGED <<active, queue, worker, recent, of>>

\* on_session_end and shutdown.
EndSession ==
  /\ session # 0
  /\ session' = 0
  /\ cache' = Empty
  /\ UNCHANGED <<active, began, queue, worker, recent, of>>

Enqueue(q) ==
  /\ session # 0 /\ Len(queue) < MaxQueued
  /\ queue' = Append(queue, q)
  /\ UNCHANGED <<active, cache, session, began, worker, recent, of>>

----------------------------------------------------------------------------
(* queue_prefetch, on the worker *)

Begin ==
  /\ worker = Idle /\ queue # <<>>
  /\ queue' = Tail(queue)
  /\ worker' = [pc |-> "words", query |-> Head(queue), found |-> {},
                session |-> session, failed |-> FALSE, seen |-> active]
  /\ UNCHANGED <<active, cache, session, began, recent, of>>

At(pc) == worker # Idle /\ worker.pc = pc

Goes(found, failed, pc) ==
  /\ worker' = [worker EXCEPT !.pc = pc, !.found = found, !.failed = failed]
  /\ UNCHANGED <<active, cache, session, began, queue, recent, of>>

\* A search by words, and then by vectors in a later state, after the text was
\* embedded if it could be; either may raise.
SearchWords == At("words") /\ Goes(active \cap Answers[worker.query], FALSE, "near")

SearchNear ==
  /\ At("near")
  /\ \E near \in SUBSET (active \cap Answers[worker.query]) :
       Goes(worker.found \cup near, FALSE, "store")

Raise == (At("words") \/ At("near")) /\ Goes({}, TRUE, "store")

Stored(texts) ==
  /\ At("store")
  /\ cache' = texts
  /\ recent' = [recent EXCEPT ![worker.query] = worker.seen]
  /\ of' = [of EXCEPT ![worker.query] = worker.session]
  /\ worker' = Idle
  /\ UNCHANGED <<active, session, began, queue>>

\* Mutant of Store: a failed prefetch leaves the entry.
StoreUnlessFailed ==
  Stored(IF worker.failed THEN cache
         ELSE [cache EXCEPT ![worker.query] = worker.found])

\* The text is stored in whatever session it is by now; after an exception the
\* entry is removed.
Store == Stored([cache EXCEPT ![worker.query] = worker.found])

\* A record is approved, or is deleted or expires.
RecordChanges(r) ==
  /\ active' = IF r \in active THEN active \ {r} ELSE active \cup {r}
  /\ recent' = [q \in Queries |-> recent[q] \cup active']
  /\ worker' = IF worker = Idle THEN Idle ELSE [worker EXCEPT !.seen = @ \cup active']
  /\ UNCHANGED <<cache, session, began, queue, of>>

Next ==
  \/ BeginSession
  \/ EndSession
  \/ \E q \in Queries : Enqueue(q)
  \/ Begin \/ SearchWords \/ SearchNear \/ Raise \/ Store
  \/ \E r \in Records : RecordChanges(r)

Spec == Init /\ [][Next]_vars

----------------------------------------------------------------------------
(* Properties *)

\* What is recalled for a query was active since the last prefetch of it began:
\* a prefetch that found less, or failed, never leaves what an earlier one had
\* found (provider.py:58-63).
RecallIsRecent == \A q \in Queries : cache[q] \subseteq recent[q]

=============================================================================
