---------------------------- MODULE Agent_proofs ----------------------------
(***************************************************************************)
(* Theorems about Agent: about recall for all queries, answers and records *)
(* and every number of sessions and waiting prefetches, and about inline   *)
(* decisions for all commands and requests.                                *)
(***************************************************************************)
EXTENDS Agent, FiniteSetTheorems, FunctionTheorems, SequenceTheorems, TLAPS

USE RecallConstants

----------------------------------------------------------------------------
(* Recall *)

\* A prefetch that runs has found only what was active since it began.
WorkerInv ==
  worker # Idle =>
    /\ worker \in Worker
    /\ worker.session <= began
    /\ worker.found \subseteq Answers[worker.query]
    /\ worker.found \subseteq worker.seen
    /\ active \subseteq worker.seen

\* RecallIsRecent alone is not inductive: Store needs what the worker found to
\* be part of what it has seen.
RecallInv == TypeOK /\ RecallIsRecent /\ WorkerInv

LEMMA RecallInitInv == Init => RecallInv
<1> SUFFICES ASSUME Init PROVE RecallInv
    OBVIOUS
<1>1. /\ cache = [q \in Queries |-> {}] /\ recent = [q \in Queries |-> {}]
      /\ queue = <<>> /\ Len(queue) = 0
  BY DEF Init, Empty
<1>2. TypeOK
  BY <1>1 DEF Init, TypeOK
<1> QED
  BY <1>1, <1>2 DEF Init, RecallInv, RecallIsRecent, WorkerInv

\* Sessions begin and end: the cache is emptied, the worker goes on.
LEMMA SessionInv == RecallInv /\ (BeginSession \/ EndSession) => RecallInv'
<1> SUFFICES ASSUME RecallInv, BeginSession \/ EndSession PROVE RecallInv'
    OBVIOUS
<1>1. /\ cache' = [q \in Queries |-> {}]
      /\ UNCHANGED <<active, queue, worker, recent, of>>
      /\ began' \in 0..MaxSessions /\ session' \in 0..began' /\ began <= began'
  BY DEF BeginSession, EndSession, Empty, RecallInv, TypeOK
<1>2. TypeOK'
  <2>1. of \in [Queries -> 0..began']
    BY <1>1 DEF RecallInv, TypeOK
  <2> QED
    BY <1>1, <2>1 DEF RecallInv, TypeOK
<1>3. RecallIsRecent'
  BY <1>1 DEF RecallIsRecent
<1>4. WorkerInv'
  BY <1>1 DEF RecallInv, TypeOK, WorkerInv, Worker
<1> QED
  BY <1>2, <1>3, <1>4 DEF RecallInv

LEMMA EnqueueInv == ASSUME NEW q \in Queries, RecallInv, Enqueue(q) PROVE RecallInv'
<1>1. queue' \in Seq(Queries) /\ Len(queue') <= MaxQueued
  BY DEF RecallInv, TypeOK, Enqueue
<1> QED
  BY <1>1 DEF RecallInv, TypeOK, RecallIsRecent, WorkerInv, Enqueue

LEMMA BeginInv == RecallInv /\ Begin => RecallInv'
<1> SUFFICES ASSUME RecallInv, Begin PROVE RecallInv'
    OBVIOUS
<1>1. /\ queue' \in Seq(Queries) /\ Len(queue') <= MaxQueued
      /\ Head(queue) \in Queries
  BY DEF RecallInv, TypeOK, Begin
<1>2. worker' \in Worker
  BY <1>1 DEF RecallInv, TypeOK, Begin, Worker
<1>3. WorkerInv'
  BY <1>1, <1>2 DEF RecallInv, TypeOK, Begin, WorkerInv
<1> QED
  BY <1>1, <1>2, <1>3 DEF RecallInv, TypeOK, RecallIsRecent, Begin

\* A search, or the exception that ends it.
LEMMA SearchInv == RecallInv /\ (SearchWords \/ SearchNear \/ Raise) => RecallInv'
<1> SUFFICES ASSUME RecallInv, SearchWords \/ SearchNear \/ Raise PROVE RecallInv'
    OBVIOUS
<1>1. worker \in Worker /\ worker # Idle
  BY DEF RecallInv, WorkerInv, SearchWords, SearchNear, Raise, At
<1>2. PICK found \in SUBSET (Answers[worker.query] \cap worker.seen),
           failed \in BOOLEAN, pc \in {"near", "store"} : Goes(found, failed, pc)
  <2>1. CASE SearchWords
    BY <2>1 DEF SearchWords, RecallInv, WorkerInv, At
  <2>2. CASE SearchNear
    BY <2>2, <1>1 DEF SearchNear, RecallInv, WorkerInv
  <2>3. CASE Raise
    BY <2>3 DEF Raise
  <2> QED
    BY <2>1, <2>2, <2>3
<1>3. /\ worker' \in Worker
      /\ worker'.query = worker.query /\ worker'.seen = worker.seen
      /\ worker'.session = worker.session /\ worker'.found = found
  BY <1>1, <1>2 DEF Goes, Worker, RecallInv, TypeOK
<1>4. WorkerInv'
  BY <1>1, <1>2, <1>3 DEF Goes, RecallInv, WorkerInv
<1> QED
  BY <1>2, <1>3, <1>4 DEF Goes, RecallInv, TypeOK, RecallIsRecent

LEMMA StoreInv == RecallInv /\ Store => RecallInv'
<1> SUFFICES ASSUME RecallInv, Store PROVE RecallInv'
    OBVIOUS
<1>1. /\ worker \in Worker /\ worker.query \in Queries
      /\ worker.found \subseteq Answers[worker.query]
      /\ worker.found \subseteq worker.seen
      /\ worker.session \in 0..began
  BY DEF RecallInv, TypeOK, WorkerInv, Worker, Store, Stored, At
<1>2. /\ cache' = [cache EXCEPT ![worker.query] = worker.found]
      /\ recent' = [recent EXCEPT ![worker.query] = worker.seen]
      /\ of' = [of EXCEPT ![worker.query] = worker.session]
      /\ worker' = Idle
      /\ UNCHANGED <<active, session, began, queue>>
  BY DEF Store, Stored
<1>3. TypeOK'
  BY <1>1, <1>2 DEF RecallInv, TypeOK, Worker
<1>4. RecallIsRecent'
  BY <1>1, <1>2 DEF RecallInv, TypeOK, RecallIsRecent
<1> QED
  BY <1>2, <1>3, <1>4 DEF RecallInv, WorkerInv

LEMMA ChangeInv == ASSUME NEW r \in Records, RecallInv, RecordChanges(r) PROVE RecallInv'
<1>1. /\ active' \subseteq Records
      /\ recent' = [q \in Queries |-> recent[q] \cup active']
      /\ UNCHANGED <<cache, session, began, queue, of>>
  BY DEF RecordChanges, RecallInv, TypeOK
<1>2. worker' = Idle \/ worker' \in Worker
  BY <1>1 DEF RecordChanges, RecallInv, TypeOK, Worker
<1>3. WorkerInv'
  <2> SUFFICES ASSUME worker # Idle, worker \in Worker PROVE WorkerInv'
      BY DEF RecordChanges, WorkerInv, RecallInv, TypeOK
  <2>1. /\ worker' = [worker EXCEPT !.seen = @ \cup active']
        /\ worker' \in Worker
        /\ worker'.query = worker.query /\ worker'.session = worker.session
        /\ worker'.found = worker.found
        /\ worker'.seen = worker.seen \cup active'
    BY <1>1 DEF RecordChanges, Worker
  <2> QED
    BY <1>1, <2>1 DEF RecallInv, WorkerInv
<1>4. TypeOK'
  BY <1>1, <1>2 DEF RecallInv, TypeOK
<1>5. RecallIsRecent'
  BY <1>1 DEF RecallInv, TypeOK, RecallIsRecent
<1> QED
  BY <1>3, <1>4, <1>5 DEF RecallInv

LEMMA RecallNextInv == RecallInv /\ [Next]_vars => RecallInv'
<1> SUFFICES ASSUME RecallInv, [Next]_vars PROVE RecallInv'
    OBVIOUS
<1>1. CASE UNCHANGED vars
  BY <1>1 DEF vars, RecallInv, TypeOK, RecallIsRecent, WorkerInv
<1> QED
  BY <1>1, SessionInv, EnqueueInv, BeginInv, SearchInv, StoreInv, ChangeInv DEF Next

----------------------------------------------------------------------------
(* Inline decisions *)

\* What a command remembers of its request while it is open: the request is
\* filed, nothing final was told before a decision, and a button that was
\* pressed was pressed by someone.
CommandInv(h) ==
  LET me == handler[h] IN
  me # H!Idle =>
    /\ IF me.reply = "purge requested" THEN me.request = Null
       ELSE me.request \in Requests /\ request[me.request] # "none"
    /\ me.pc \in {"waiting", "returned"} => me.reply = "pending"
    /\ me.pc = "ask" => me.reply \in {"pending", "purge requested"}
    /\ me.result # Null =>
         me.reply # "purge requested" /\ me.result \in said[me.request]

\* PeopleDecide is not inductive: a decision is carried out when the command
\* resumes, and must still be somebody's then.
DecisionsInv == PeopleDecide /\ \A h \in Handlers : CommandInv(h)

\* Requests are filed for good, what was said of one stays said, and a decision
\* is final.
Grows ==
  \A r \in Requests :
    /\ request[r] # "none" => request'[r] # "none" /\ said[r] \subseteq said'[r]
    /\ request[r] \in H!Final => request'[r] = request[r]

Holds(h) ==
  H!At(h, "replied") /\ handler[h].reply \in H!Final =>
    request[handler[h].request] = handler[h].reply

\* A command that makes no step keeps what it remembers.
LEMMA CommandStays ==
  ASSUME DecisionsInv, Grows, NEW h \in Handlers, handler'[h] = handler[h]
  PROVE  CommandInv(h)' /\ Holds(h)'
<1>1. CommandInv(h) /\ Holds(h)
  BY DEF DecisionsInv, PeopleDecide, H!ReplyHolds, Holds
<1>2. CommandInv(h)'
  BY <1>1 DEF CommandInv, Grows
<1>3. Holds(h)'
  BY <1>1 DEF CommandInv, Grows, Holds, H!At, H!Final
<1> QED
  BY <1>2, <1>3

\* A step of one command, h, is right if it is for the requests and for h.
LEMMA StepOfOne ==
  ASSUME DecisionsInv, Grows, H!TypeOK', H!PeopleDecide',
         NEW h, \A g \in Handlers \ {h} : handler'[g] = handler[g],
         h \in Handlers => CommandInv(h)' /\ Holds(h)'
  PROVE  DecisionsInv'
<1>1. \A g \in Handlers : CommandInv(g)' /\ Holds(g)'
  BY CommandStays
<1>2. H!ReplyHolds'
  BY <1>1 DEF H!ReplyHolds, Holds
<1> QED
  BY <1>1, <1>2 DEF DecisionsInv, PeopleDecide

\* What a filed request and a person's decision lead to.
LEMMA OutcomeIs ==
  ASSUME H!TypeOK, NEW r \in Requests, NEW d \in H!Decisions
  PROVE  /\ H!Outcome(r, d) \in H!Statuses
         /\ request[r] # "pending" => H!Outcome(r, d) = request[r]
         /\ request[r] = "pending" => H!Outcome(r, d) \in H!Final
         /\ request[r] = "pending" /\ d = "approve" => H!Outcome(r, d) # "rejected"
         /\ request[r] = "pending" /\ d = "reject" =>
              H!Outcome(r, d) \in {"rejected", "expired"}
BY DEF H!TypeOK, H!Outcome, H!Statuses, H!Final, H!Decisions

\* A decision somebody has said is carried out.
LEMMA DecideKeeps ==
  ASSUME DecisionsInv, NEW r \in Requests, NEW d \in H!Decisions,
         request[r] # "none", H!Decide(r, d),
         \/ said' = said /\ d \in said[r]
         \/ said' = [said EXCEPT ![r] = @ \cup {d}]
  PROVE  /\ Grows /\ H!PeopleDecide'
         /\ request' \in [Requests -> H!Statuses] /\ request'[r] = H!Outcome(r, d)
         /\ said' \in [Requests -> SUBSET H!Decisions] /\ d \in said'[r]
<1>1. /\ H!TypeOK /\ H!PeopleDecide
      /\ request \in [Requests -> H!Statuses]
      /\ said \in [Requests -> SUBSET H!Decisions]
  BY DEF DecisionsInv, PeopleDecide, H!TypeOK
<1>2. /\ request' \in [Requests -> H!Statuses] /\ request'[r] = H!Outcome(r, d)
      /\ \A q \in Requests \ {r} : request'[q] = request[q]
  BY <1>1, OutcomeIs DEF H!Decide
<1>3. /\ said' \in [Requests -> SUBSET H!Decisions] /\ d \in said'[r]
      /\ \A q \in Requests : said[q] \subseteq said'[q]
  BY <1>1
<1>4. Grows
  BY <1>1, <1>2, <1>3, OutcomeIs DEF Grows, H!Final
<1>5. H!PeopleDecide'
  <2> SUFFICES ASSUME NEW q \in Requests
               PROVE  /\ request'[q] \in {"approved", "superseded"} => "approve" \in said'[q]
                      /\ request'[q] = "rejected" => "reject" \in said'[q]
                      /\ request'[q] = "expired" => said'[q] # {}
      BY DEF H!PeopleDecide
  <2>1. CASE q # r \/ request[q] # "pending"
    BY <1>1, <1>2, <1>3, <2>1, OutcomeIs DEF H!PeopleDecide
  <2>2. CASE q = r /\ request[q] = "pending"
    <3>1. d = "approve" \/ d = "reject"
      BY DEF H!Decisions
    <3> QED
      BY <1>1, <1>2, <1>3, <2>2, <3>1, OutcomeIs
  <2> QED
    BY <2>1, <2>2
<1> QED
  BY <1>2, <1>3, <1>4, <1>5

\* A proposal files a request, which is decided only by its author's policy.
LEMMA ProposedKeeps ==
  ASSUME DecisionsInv, NEW r \in Requests, NEW status \in H!NewStatus,
         H!Proposed(r, status)
  PROVE  /\ Grows /\ H!PeopleDecide'
         /\ request' \in [Requests -> H!Statuses] /\ request'[r] = status
         /\ said' \in [Requests -> SUBSET H!Decisions]
<1>1. /\ H!TypeOK /\ H!PeopleDecide
      /\ request \in [Requests -> H!Statuses]
      /\ said \in [Requests -> SUBSET H!Decisions]
  BY DEF DecisionsInv, PeopleDecide, H!TypeOK
<1>2. /\ request[r] = "none"
      /\ request' \in [Requests -> H!Statuses] /\ request'[r] = status
      /\ \A q \in Requests \ {r} : request'[q] = request[q]
      /\ said' \in [Requests -> SUBSET H!Decisions]
      /\ \A q \in Requests \ {r} : said'[q] = said[q]
      /\ status = "pending" \/ said'[r] = {"approve"}
  <2>1. status \in H!Statuses
    BY DEF H!NewStatus, H!Statuses, H!Final
  <2>2. /\ {} \in SUBSET H!Decisions /\ {"approve"} \in SUBSET H!Decisions
    BY DEF H!Decisions
  <2>3. /\ request[r] = "none" /\ request' = [request EXCEPT ![r] = status]
        /\ said' = [said EXCEPT ![r] = IF status = "pending" THEN {} ELSE {"approve"}]
    BY DEF H!Proposed
  <2> QED
    BY <1>1, <2>1, <2>2, <2>3
<1>3. Grows
  BY <1>2 DEF Grows, H!Final
<1>4. H!PeopleDecide'
  BY <1>1, <1>2 DEF H!PeopleDecide, H!NewStatus
<1> QED
  BY <1>2, <1>3, <1>4


\* A step of the command h has types when what h remembers has.
LEMMA HandlersTyped ==
  ASSUME H!TypeOK, NEW h \in Handlers, NEW me \in H!Handler,
         me.pc \in {"waiting", "returned"} => me.request # Null,
         request' \in [Requests -> H!Statuses],
         said' \in [Requests -> SUBSET H!Decisions],
         lapsed' = lapsed, stale' = stale,
         handler' = [handler EXCEPT ![h] = me]
  PROVE  /\ H!TypeOK' /\ handler'[h] = me
         /\ \A g \in Handlers \ {h} : handler'[g] = handler[g]
BY DEF H!TypeOK

LEMMA HandlerIsNotIdle ==
  ASSUME NEW me \in H!Handler
  PROVE  me # H!Idle
<1>1. me.pc \in {"ask", "waiting", "returned", "replied", "raised"}
  BY DEF H!Handler
<1>2. H!Idle.pc = "idle"
  BY DEF H!Idle
<1> QED
  BY <1>1, <1>2

\* The commands execute_payload runs, up to a question or a reply.
LEMMA ProposeKeeps ==
  ASSUME DecisionsInv, NEW h \in Handlers, NEW r \in Requests,
         NEW status \in H!NewStatus, NEW withSession \in BOOLEAN,
         H!Propose(h, r, status, withSession)
  PROVE  DecisionsInv'
<1> DEFINE pc == IF status = "pending" /\ withSession THEN "ask" ELSE "replied"
           me == H!Running(pc, r, status)
<1>1. /\ status \in H!Statuses /\ status # "none" /\ status # "purge requested"
      /\ pc \in {"ask", "replied"} /\ (pc = "ask" => status = "pending")
  BY DEF H!NewStatus, H!Statuses, H!Final
<1>2. /\ me \in H!Handler /\ me # H!Idle
      /\ me.pc = pc /\ me.request = r /\ me.reply = status /\ me.result = Null
  BY <1>1 DEF H!Running, H!Handler, H!Idle
<1>3. /\ Grows /\ H!PeopleDecide'
      /\ request' \in [Requests -> H!Statuses] /\ request'[r] = status
      /\ said' \in [Requests -> SUBSET H!Decisions]
  BY ProposedKeeps DEF H!Propose
<1>4. /\ handler' = [handler EXCEPT ![h] = me] /\ UNCHANGED <<lapsed, stale>>
  BY DEF H!Propose
<1> HIDE DEF pc, me
<1>5. /\ H!TypeOK' /\ handler'[h] = me
      /\ \A g \in Handlers \ {h} : handler'[g] = handler[g]
  BY <1>1, <1>2, <1>3, <1>4, HandlersTyped DEF DecisionsInv, PeopleDecide
<1>6. CommandInv(h)'
  BY <1>1, <1>2, <1>3, <1>5 DEF CommandInv
<1>7. Holds(h)'
  BY <1>2, <1>3, <1>5 DEF Holds
<1> QED
  BY <1>3, <1>5, <1>6, <1>7, StepOfOne

\* A proposal made again decides as its author's policy does, or nothing.
LEMMA RepeatedKeeps ==
  ASSUME DecisionsInv, NEW r \in Requests, NEW auto \in BOOLEAN, H!Repeated(r, auto)
  PROVE  /\ Grows /\ H!PeopleDecide' /\ request[r] # "none"
         /\ request' \in [Requests -> H!Statuses]
         /\ request'[r] = IF auto THEN H!Outcome(r, "approve") ELSE request[r]
         /\ said' \in [Requests -> SUBSET H!Decisions]
<1>1. CASE auto
  <2>1. "approve" \in H!Decisions /\ request[r] # "none" /\ H!Decide(r, "approve")
        /\ said' = [said EXCEPT ![r] = @ \cup {"approve"}]
    BY <1>1 DEF H!Repeated, H!Decisions
  <2> QED
    BY <1>1, <2>1, DecideKeeps
<1>2. CASE ~auto
  BY <1>2 DEF H!Repeated, DecisionsInv, PeopleDecide, H!PeopleDecide, H!TypeOK, Grows
<1> QED
  BY <1>1, <1>2

LEMMA RepeatKeeps ==
  ASSUME DecisionsInv, NEW h \in Handlers, NEW r \in Requests,
         NEW auto \in BOOLEAN, NEW withSession \in BOOLEAN,
         H!Repeat(h, r, auto, withSession)
  PROVE  DecisionsInv'
<1> DEFINE status == IF auto THEN H!Outcome(r, "approve") ELSE request[r]
           pc == IF status = "pending" /\ withSession THEN "ask" ELSE "replied"
           me == H!Running(pc, r, status)
<1>1. /\ Grows /\ H!PeopleDecide' /\ request[r] # "none"
      /\ request' \in [Requests -> H!Statuses] /\ request'[r] = status
      /\ said' \in [Requests -> SUBSET H!Decisions]
  BY RepeatedKeeps DEF H!Repeat
<1>2. /\ status \in H!Statuses /\ status # "purge requested"
      /\ pc \in {"ask", "replied"} /\ (pc = "ask" => status = "pending")
  BY <1>1 DEF H!Statuses, H!Final
<1>3. /\ handler' = [handler EXCEPT ![h] = me] /\ UNCHANGED <<lapsed, stale>>
  BY DEF H!Repeat
<1> HIDE DEF status
<1>4. /\ me \in H!Handler /\ me # H!Idle
      /\ me.pc = pc /\ me.request = r /\ me.reply = status /\ me.result = Null
  BY <1>2 DEF H!Running, H!Handler, H!Idle
<1> HIDE DEF pc, me
<1>5. /\ H!TypeOK' /\ handler'[h] = me
      /\ \A g \in Handlers \ {h} : handler'[g] = handler[g]
  BY <1>1, <1>2, <1>3, <1>4, HandlersTyped DEF DecisionsInv, PeopleDecide
<1>6. CommandInv(h)'
  BY <1>1, <1>2, <1>4, <1>5 DEF CommandInv, Grows
<1>7. Holds(h)'
  BY <1>1, <1>4, <1>5 DEF Holds
<1> QED
  BY <1>1, <1>5, <1>6, <1>7, StepOfOne

LEMMA PurgeKeeps ==
  ASSUME DecisionsInv, NEW h \in Handlers, NEW withSession \in BOOLEAN,
         H!RequestPurge(h, withSession)
  PROVE  DecisionsInv'
<1> DEFINE pc == IF withSession THEN "ask" ELSE "replied"
           me == H!Running(pc, Null, "purge requested")
<1>1. pc \in {"ask", "replied"}
  OBVIOUS
<1>2. /\ me \in H!Handler /\ me # H!Idle /\ me.pc = pc
      /\ me.request = Null /\ me.reply = "purge requested" /\ me.result = Null
  BY <1>1 DEF H!Running, H!Handler, H!Idle
<1>3. /\ handler' = [handler EXCEPT ![h] = me]
      /\ UNCHANGED <<request, lapsed, stale, said>>
  BY DEF H!RequestPurge
<1> HIDE DEF pc, me
<1>4. /\ Grows /\ H!PeopleDecide'
      /\ request' \in [Requests -> H!Statuses]
      /\ said' \in [Requests -> SUBSET H!Decisions]
  BY <1>3 DEF DecisionsInv, PeopleDecide, H!PeopleDecide, H!TypeOK, Grows
<1>5. /\ H!TypeOK' /\ handler'[h] = me
      /\ \A g \in Handlers \ {h} : handler'[g] = handler[g]
  BY <1>1, <1>2, <1>3, <1>4, HandlersTyped DEF DecisionsInv, PeopleDecide
<1>6. CommandInv(h)'
  BY <1>1, <1>2, <1>5 DEF CommandInv
<1>7. Holds(h)'
  BY <1>2, <1>5 DEF Holds, H!Final
<1> QED
  BY <1>4, <1>5, <1>6, <1>7, StepOfOne

LEMMA CommandKeeps ==
  ASSUME DecisionsInv, NEW h \in Handlers, NEW r \in Requests,
         NEW d \in H!Decisions, H!CommandDecides(h, r, d)
  PROVE  DecisionsInv'
<1> DEFINE reply == H!Outcome(r, d)
           me == H!Running("replied", r, reply)
<1>1. reply \in H!Statuses
  BY OutcomeIs DEF DecisionsInv, PeopleDecide
<1>2. /\ me \in H!Handler /\ me # H!Idle /\ me.pc = "replied"
      /\ me.request = r /\ me.reply = reply /\ me.result = Null
  BY <1>1 DEF H!Running, H!Handler, H!Idle
<1>3. /\ Grows /\ H!PeopleDecide'
      /\ request' \in [Requests -> H!Statuses] /\ request'[r] = reply
      /\ said' \in [Requests -> SUBSET H!Decisions]
  BY DecideKeeps DEF H!CommandDecides
<1>4. /\ handler' = [handler EXCEPT ![h] = me] /\ UNCHANGED <<lapsed, stale>>
      /\ request[r] # "none"
  BY DEF H!CommandDecides
<1> HIDE DEF reply, me
<1>5. /\ H!TypeOK' /\ handler'[h] = me
      /\ \A g \in Handlers \ {h} : handler'[g] = handler[g]
  BY <1>2, <1>3, <1>4, HandlersTyped DEF DecisionsInv, PeopleDecide
<1>6. CommandInv(h)'
  BY <1>1, <1>2, <1>3, <1>4, <1>5 DEF CommandInv, Grows, H!Statuses, H!Final
<1>7. Holds(h)'
  BY <1>2, <1>3, <1>5 DEF Holds
<1> QED
  BY <1>3, <1>5, <1>6, <1>7, StepOfOne


\* A command that runs is a handler, and keeps to what CommandInv says of it.
LEMMA AtIs ==
  ASSUME DecisionsInv, NEW h \in Handlers, NEW pc, H!At(h, pc)
  PROVE  /\ handler[h] \in H!Handler /\ handler[h].pc = pc
         /\ handler \in [Handlers -> H!Handler \cup {H!Idle}]
         /\ IF handler[h].reply = "purge requested" THEN handler[h].request = Null
            ELSE handler[h].request \in Requests /\ request[handler[h].request] # "none"
         /\ pc \in {"waiting", "returned"} =>
              handler[h].reply = "pending" /\ handler[h].request # Null
         /\ pc = "ask" => handler[h].reply \in {"pending", "purge requested"}
         /\ handler[h].result # Null =>
              /\ handler[h].reply # "purge requested"
              /\ handler[h].result \in said[handler[h].request]
BY DEF DecisionsInv, PeopleDecide, H!TypeOK, CommandInv, H!At

\* A step of a command that decides nothing.
LEMMA HandlerStep ==
  ASSUME DecisionsInv, NEW h \in Handlers, NEW me \in H!Handler,
         handler' = [handler EXCEPT ![h] = me],
         UNCHANGED <<request, lapsed, stale>>,
         said' \in [Requests -> SUBSET H!Decisions],
         \A r \in Requests : said[r] \subseteq said'[r],
         me.pc \in {"waiting", "returned"} =>
           me.reply = "pending" /\ me.request # Null,
         me.pc = "ask" => me.reply \in {"pending", "purge requested"},
         me.reply \notin H!Final,
         IF me.reply = "purge requested" THEN me.request = Null
         ELSE me.request \in Requests /\ request[me.request] # "none",
         me.result # Null =>
           me.reply # "purge requested" /\ me.result \in said'[me.request]
  PROVE  DecisionsInv'
<1>1. Grows
  BY DEF Grows
<1>2. H!PeopleDecide'
  BY DEF DecisionsInv, PeopleDecide, H!PeopleDecide, H!TypeOK
<1>3. /\ H!TypeOK' /\ handler'[h] = me
      /\ \A g \in Handlers \ {h} : handler'[g] = handler[g]
  BY HandlersTyped DEF DecisionsInv, PeopleDecide, H!TypeOK
<1>4. CommandInv(h)'
  BY <1>3 DEF CommandInv
<1>5. Holds(h)'
  BY <1>3 DEF Holds
<1> QED
  BY <1>1, <1>2, <1>3, <1>4, <1>5, StepOfOne

LEMMA AskKeeps ==
  ASSUME DecisionsInv, NEW h \in Handlers, H!Ask(h)
  PROVE  DecisionsInv'
<1> DEFINE pc == IF handler[h].request = Null THEN "raised" ELSE "waiting"
           me == [handler[h] EXCEPT !.pc = pc]
<1>1. H!At(h, "ask") /\ UNCHANGED <<request, lapsed, stale, said>>
      /\ handler' = [handler EXCEPT ![h] = me]
  BY DEF H!Ask
<1>2. /\ me \in H!Handler /\ me.pc = pc /\ me.request = handler[h].request
      /\ me.reply = handler[h].reply /\ me.result = handler[h].result
  BY <1>1, AtIs DEF H!Handler
<1>3. pc \in {"waiting", "raised"} /\ (pc = "waiting" => handler[h].request # Null)
  OBVIOUS
<1> HIDE DEF me, pc
<1>4. me.reply \in {"pending", "purge requested"}
  BY <1>1, <1>2, AtIs
<1> QED
  BY <1>1, <1>2, <1>3, <1>4, AtIs, HandlerStep
     DEF DecisionsInv, PeopleDecide, H!TypeOK, H!Final

LEMMA PressKeeps ==
  ASSUME DecisionsInv, NEW h \in Handlers, NEW d \in H!Decisions, H!Press(h, d)
  PROVE  DecisionsInv'
<1> DEFINE me == [handler[h] EXCEPT !.pc = "returned", !.result = d]
           r == handler[h].request
<1>1. H!At(h, "waiting") /\ UNCHANGED <<request, lapsed, stale>>
      /\ handler' = [handler EXCEPT ![h] = me]
      /\ said' = [said EXCEPT ![r] = @ \cup {d}]
  BY DEF H!Press
<1>2. /\ me \in H!Handler /\ me.pc = "returned" /\ me.request = r
      /\ me.reply = handler[h].reply /\ me.result = d
  BY <1>1, AtIs DEF H!Handler
<1>3. /\ handler[h].reply = "pending" /\ r \in Requests /\ r # Null
      /\ request[r] # "none"
  BY <1>1, AtIs
<1>4. said \in [Requests -> SUBSET H!Decisions]
  BY DEF DecisionsInv, PeopleDecide, H!TypeOK
<1> HIDE DEF me, r
<1>5. /\ said' \in [Requests -> SUBSET H!Decisions] /\ d \in said'[r]
      /\ \A q \in Requests : said[q] \subseteq said'[q]
  BY <1>1, <1>3, <1>4
<1> QED
  BY <1>1, <1>2, <1>3, <1>5, HandlerStep DEF H!Final

LEMMA TimeOutKeeps ==
  ASSUME DecisionsInv, NEW h \in Handlers, H!TimeOut(h)
  PROVE  DecisionsInv'
<1> DEFINE me == [handler[h] EXCEPT !.pc = "returned"]
<1>1. H!At(h, "waiting") /\ UNCHANGED <<request, lapsed, stale, said>>
      /\ handler' = [handler EXCEPT ![h] = me]
  BY DEF H!TimeOut
<1>2. /\ me \in H!Handler /\ me.pc = "returned" /\ me.request = handler[h].request
      /\ me.reply = handler[h].reply /\ me.result = handler[h].result
  BY <1>1, AtIs DEF H!Handler
<1> HIDE DEF me
<1> QED
  BY <1>1, <1>2, AtIs, HandlerStep DEF DecisionsInv, PeopleDecide, H!TypeOK, H!Final

\* The command decides, gives up, or is left without a decision.
LEMMA ResumeKeeps ==
  ASSUME DecisionsInv, NEW h \in Handlers, H!Resume(h)
  PROVE  DecisionsInv'
<1> DEFINE was == handler[h]
<1>1. /\ was \in H!Handler /\ was.pc = "returned" /\ was.reply = "pending"
      /\ was.request \in Requests /\ request[was.request] # "none"
      /\ was.result # Null => was.result \in said[was.request]
      /\ was.result \in H!Decisions \cup {Null}
      /\ UNCHANGED <<lapsed, stale, said>>
      /\ said \in [Requests -> SUBSET H!Decisions]
  BY AtIs DEF H!Resume, H!Handler, DecisionsInv, PeopleDecide, H!TypeOK
<1>2. CASE /\ was.result # Null /\ H!Decide(was.request, was.result)
           /\ handler' = [handler EXCEPT ![h].pc = "replied",
                            ![h].reply = H!Outcome(was.request, was.result)]
  <2> DEFINE reply == H!Outcome(was.request, was.result)
             me == [was EXCEPT !.pc = "replied", !.reply = reply]
  <2>1. /\ reply \in H!Statuses
        /\ Grows /\ H!PeopleDecide'
        /\ request' \in [Requests -> H!Statuses] /\ request'[was.request] = reply
    BY <1>1, <1>2, OutcomeIs, DecideKeeps DEF DecisionsInv, PeopleDecide
  <2>2. /\ me \in H!Handler /\ me.pc = "replied" /\ me.request = was.request
        /\ me.reply = reply /\ me.result = was.result /\ me # H!Idle
    BY <1>1, <2>1, HandlerIsNotIdle DEF H!Handler
  <2>3. handler' = [handler EXCEPT ![h] = me]
    BY <1>2
  <2> HIDE DEF reply, me, was
  <2>4. /\ H!TypeOK' /\ handler'[h] = me
        /\ \A g \in Handlers \ {h} : handler'[g] = handler[g]
    BY <1>1, <2>1, <2>2, <2>3, HandlersTyped DEF DecisionsInv, PeopleDecide
  <2>5. reply # "purge requested"
    BY <2>1 DEF H!Statuses, H!Final
  <2>6. CommandInv(h)'
    BY <1>1, <2>1, <2>2, <2>4, <2>5 DEF CommandInv, Grows
  <2>7. Holds(h)'
    BY <2>1, <2>2, <2>4 DEF Holds
  <2> QED
    BY <2>1, <2>4, <2>6, <2>7, StepOfOne
<1>3. CASE /\ was.result # Null /\ UNCHANGED request
           /\ handler' = [handler EXCEPT ![h].pc = "replied", ![h].reply = "error"]
  <2> DEFINE me == [was EXCEPT !.pc = "replied", !.reply = "error"]
  <2>1. /\ me \in H!Handler /\ me.pc = "replied" /\ me.request = was.request
        /\ me.reply = "error" /\ me.result = was.result
    BY <1>1 DEF H!Handler
  <2>2. handler' = [handler EXCEPT ![h] = me]
    BY <1>3
  <2> HIDE DEF me, was
  <2> QED
    BY <1>1, <1>3, <2>1, <2>2, HandlerStep DEF H!Final
<1>4. CASE /\ was.result = Null /\ UNCHANGED request
           /\ handler' = [handler EXCEPT ![h].pc = "replied"]
  <2> DEFINE me == [was EXCEPT !.pc = "replied"]
  <2>1. /\ me \in H!Handler /\ me.pc = "replied" /\ me.request = was.request
        /\ me.reply = was.reply /\ me.result = was.result
    BY <1>1 DEF H!Handler
  <2>2. handler' = [handler EXCEPT ![h] = me]
    BY <1>4
  <2> HIDE DEF me, was
  <2> QED
    BY <1>1, <1>4, <2>1, <2>2, HandlerStep DEF H!Final
<1> QED
  BY <1>2, <1>3, <1>4 DEF H!Resume

\* What happens beside the commands.
LEMMA MeanwhileKeeps ==
  ASSUME DecisionsInv, NEW r \in Requests,
         H!ToolProposes(r) \/ H!Lapse(r) \/ H!RecordChanges(r)
  PROVE  DecisionsInv'
<1>1. /\ Grows /\ H!PeopleDecide' /\ handler' = handler
      /\ request' \in [Requests -> H!Statuses]
      /\ said' \in [Requests -> SUBSET H!Decisions]
      /\ lapsed' \subseteq Requests /\ stale' \subseteq Requests
  <2>1. CASE H!ToolProposes(r)
    BY <2>1, ProposedKeeps, RepeatedKeeps DEF H!ToolProposes, DecisionsInv, PeopleDecide, H!TypeOK
  <2>2. CASE H!Lapse(r) \/ H!RecordChanges(r)
    BY <2>2 DEF H!Lapse, H!RecordChanges, DecisionsInv, PeopleDecide, H!TypeOK,
                H!PeopleDecide, Grows
  <2> QED
    BY <2>1, <2>2
<1>2. H!TypeOK'
  BY <1>1 DEF DecisionsInv, PeopleDecide, H!TypeOK
<1>3. \A h \in Handlers : CommandInv(h)' /\ Holds(h)'
  BY <1>1, CommandStays
<1>4. H!ReplyHolds'
  BY <1>3 DEF H!ReplyHolds, Holds
<1> QED
  BY <1>1, <1>2, <1>3, <1>4 DEF DecisionsInv, PeopleDecide

LEMMA DecisionsInitInv == H!Init => DecisionsInv
<1> SUFFICES ASSUME H!Init PROVE DecisionsInv
    OBVIOUS
<1>1. H!TypeOK
  BY DEF H!Init, H!TypeOK, H!Statuses
<1>2. H!PeopleDecide /\ H!ReplyHolds /\ \A h \in Handlers : CommandInv(h)
  BY DEF H!Init, H!PeopleDecide, H!ReplyHolds, H!At, CommandInv
<1> QED
  BY <1>1, <1>2 DEF DecisionsInv, PeopleDecide

LEMMA DecisionsNextInv == DecisionsInv /\ (H!Next \/ UNCHANGED commands) => DecisionsInv'
<1> SUFFICES ASSUME DecisionsInv, H!Next \/ UNCHANGED commands PROVE DecisionsInv'
    OBVIOUS
<1>1. CASE UNCHANGED commands
  BY <1>1 DEF commands, DecisionsInv, PeopleDecide, H!TypeOK, H!PeopleDecide,
              H!ReplyHolds, H!At, CommandInv
<1> QED
  BY <1>1, ProposeKeeps, RepeatKeeps, PurgeKeeps, CommandKeeps, PressKeeps, AskKeeps,
     TimeOutKeeps, ResumeKeeps, MeanwhileKeeps DEF H!Next, H!Step

----------------------------------------------------------------------------
(* Turns *)

\* How many places there are up to one.
Rank(places, n) == Cardinality({m \in places : m <= n})

\* Where a sequence has the candidate.
Places(s, c) == {n \in DOMAIN s : s[n] = c}

LEMMA SameCount ==
  ASSUME NEW S, NEW U, IsFiniteSet(U), NEW f \in [S -> U],
         \A x, y \in S : f[x] = f[y] => x = y,
         \A z \in U : \E x \in S : f[x] = z
  PROVE  IsFiniteSet(S) /\ Cardinality(S) = Cardinality(U)
<1>1. f \in Injection(S, U)
  BY DEF Injection, IsInjective
<1>2. f \in Surjection(S, U)
  BY DEF Surjection
<1> QED
  BY <1>1, <1>2, FS_Injection

LEMMA CountApart ==
  ASSUME NEW S, NEW U, IsFiniteSet(S), IsFiniteSet(U), S \cap U = {}
  PROVE  Cardinality(S \cup U) = Cardinality(S) + Cardinality(U)
<1>1. Cardinality(S) \in Nat /\ Cardinality(U) \in Nat
  BY FS_CardinalityType
<1>2. Cardinality(S \cap U) = 0
  BY FS_EmptySet
<1>3. Cardinality(S \cup U) = Cardinality(S) + Cardinality(U) - Cardinality(S \cap U)
  BY FS_Union
<1> QED
  BY <1>1, <1>2, <1>3

\* Places are numbered by their ranks.
LEMMA RanksAre ==
  ASSUME NEW N \in Nat, NEW places \in SUBSET (1..N)
  PROVE  /\ IsFiniteSet(places) /\ Cardinality(places) \in Nat
         /\ \A n \in places : Rank(places, n) \in 1..Cardinality(places)
         /\ \A m, n \in places : Rank(places, m) = Rank(places, n) => m = n
         /\ \A k \in 1..Cardinality(places) : \E n \in places : Rank(places, n) = k
<1>1. IsFiniteSet(places) /\ Cardinality(places) \in Nat
  <2>1. 1 \in Int /\ N \in Int
    OBVIOUS
  <2>2. IsFiniteSet(1..N)
    BY <2>1, FS_Interval
  <2> QED
    BY <2>2, FS_Subset, FS_CardinalityType
<1> DEFINE Below(n) == {m \in places : m <= n}
<1>2. ASSUME NEW n \in places
      PROVE  IsFiniteSet(Below(n)) /\ Rank(places, n) \in 1..Cardinality(places)
  <2>1. /\ IsFiniteSet(Below(n)) /\ Cardinality(Below(n)) \in Nat
        /\ Cardinality(Below(n)) <= Cardinality(places)
    BY <1>1, FS_Subset, FS_CardinalityType
  <2>2. Below(n) # {}
    OBVIOUS
  <2>3. Cardinality(Below(n)) # 0
    BY <2>1, <2>2, FS_EmptySet
  <2> QED
    BY <1>1, <2>1, <2>3 DEF Rank
<1>3. ASSUME NEW m \in places, NEW n \in places, m < n
      PROVE  Rank(places, m) # Rank(places, n)
  <2>1. Below(m) \subseteq Below(n) /\ Below(m) # Below(n)
    <3>1. m \in Nat /\ n \in Nat /\ \A x \in places : x \in Nat
      OBVIOUS
    <3>2. n \in Below(n) /\ n \notin Below(m)
      BY <1>3, <3>1
    <3>3. \A x \in places : x <= m => x <= n
      BY <1>3, <3>1
    <3> QED
      BY <3>2, <3>3
  <2> QED
    BY <1>2, <2>1, FS_Subset DEF Rank
<1>4. \A m, n \in places : Rank(places, m) = Rank(places, n) => m = n
  <2>1. \A m, n \in places : m # n => m < n \/ n < m
    OBVIOUS
  <2> QED
    BY <1>3, <2>1
<1>5. \A k \in 1..Cardinality(places) : \E n \in places : Rank(places, n) = k
  <2> DEFINE f == [n \in places |-> Rank(places, n)]
             to == 1..Cardinality(places)
  <2>1. f \in Injection(places, to)
    BY <1>2, <1>4 DEF Injection, IsInjective
  <2>2. IsFiniteSet(to) /\ Cardinality(to) = Cardinality(places)
    BY <1>1, FS_Interval
  <2> HIDE DEF to
  <2>3. f \in Surjection(places, to)
    BY <2>1, <2>2, FS_Injection
  <2> QED
    BY <2>3 DEF Surjection, to
<1> QED
  BY <1>1, <1>2, <1>4, <1>5

LEMMA CountIs ==
  ASSUME NEW s, NEW c
  PROVE  T!Times(s, c) = Cardinality(Places(s, c))
BY DEF T!Times, T!Cardinality, Cardinality, Places

LEMMA PlacesAre ==
  ASSUME NEW s \in Seq(Candidates), NEW c
  PROVE  /\ Places(s, c) \subseteq 1..Len(s) /\ Len(s) \in Nat
         /\ IsFiniteSet(Places(s, c)) /\ Cardinality(Places(s, c)) \in Nat
<1>1. Places(s, c) \subseteq 1..Len(s) /\ Len(s) \in Nat
  BY DEF Places
<1> QED
  BY <1>1, RanksAre

LEMMA CountsAdd ==
  ASSUME NEW s \in Seq(Candidates), NEW more \in Seq(Candidates), NEW c
  PROVE  T!Times(s \o more, c) = T!Times(s, c) + T!Times(more, c)
<1> DEFINE moved == {n \in DOMAIN (s \o more) : n > Len(s) /\ (s \o more)[n] = c}
           f == [n \in moved |-> n - Len(s)]
<1>1. /\ s \o more \in Seq(Candidates) /\ Len(s \o more) = Len(s) + Len(more)
      /\ \A n \in 1..Len(s) : (s \o more)[n] = s[n]
      /\ \A n \in 1..Len(more) : (s \o more)[n + Len(s)] = more[n]
      /\ Len(s) \in Nat /\ Len(more) \in Nat
      /\ DOMAIN (s \o more) = 1..Len(s) + Len(more)
      /\ DOMAIN s = 1..Len(s) /\ DOMAIN more = 1..Len(more)
  OBVIOUS
<1>2. Places(s \o more, c) = Places(s, c) \cup moved /\ Places(s, c) \cap moved = {}
  BY <1>1 DEF Places
<1>3. f \in [moved -> Places(more, c)]
  <2>1. ASSUME NEW n \in moved PROVE n - Len(s) \in Places(more, c)
    <3>1. n - Len(s) \in 1..Len(more) /\ (n - Len(s)) + Len(s) = n
      BY <1>1
    <3>2. more[n - Len(s)] = (s \o more)[n]
      BY <1>1, <3>1
    <3> QED
      BY <1>1, <3>1, <3>2 DEF Places
  <2> QED
    BY <2>1
<1>4. \A m, n \in moved : f[m] = f[n] => m = n
  BY <1>1
<1>5. \A n \in Places(more, c) : \E m \in moved : f[m] = n
  <2> TAKE n \in Places(more, c)
  <2>1. n \in 1..Len(more) /\ more[n] = c
    BY <1>1 DEF Places
  <2>2. n + Len(s) \in moved
    BY <1>1, <2>1
  <2>3. f[n + Len(s)] = n
    BY <1>1, <2>1, <2>2
  <2> QED
    BY <2>2, <2>3
<1> HIDE DEF f
<1>6. IsFiniteSet(moved) /\ Cardinality(moved) = Cardinality(Places(more, c))
  BY <1>3, <1>4, <1>5, PlacesAre, SameCount
<1> HIDE DEF moved
<1>7. Cardinality(Places(s \o more, c)) = Cardinality(Places(s, c)) + Cardinality(moved)
  BY <1>2, <1>6, PlacesAre, CountApart
<1> QED
  BY <1>6, <1>7, CountIs

LEMMA Joined ==
  ASSUME NEW r \in Seq(Candidates), NEW s \in Seq(Candidates), NEW u \in Seq(Candidates)
  PROVE  r \o s \in Seq(Candidates) /\ r \o (s \o u) = (r \o s) \o u
BY ConcatAssociative, ConcatProperties

\* The first items of what an extractor yields.
LEMMA FirstIs ==
  ASSUME NEW value \in T!Yields
  PROVE  /\ Len(T!FirstOf(value)) \in Nat
         /\ DOMAIN T!FirstOf(value) = 1..Len(T!FirstOf(value))
         /\ DOMAIN T!FirstOf(value) = (DOMAIN value) \cap (1..PerTurn)
         /\ \A n \in DOMAIN T!FirstOf(value) :
              T!FirstOf(value)[n] = value[n] /\ value[n] \in Candidates \cup {Junk}
<1>1. PerTurn \in Nat \ {0}
  BY TurnConstants DEF T!SyncConstants
<1>2. PICK n \in 0..(PerTurn + 1) : value \in [1..n -> Candidates \cup {Junk}]
  BY DEF T!Yields
<1>3. value \in Seq(Candidates \cup {Junk}) /\ Len(value) = n /\ n \in Nat
  BY <1>1, <1>2
<1> DEFINE last == IF Len(value) < PerTurn THEN Len(value) ELSE PerTurn
<1>4. last \in Nat /\ last <= n /\ (1..n) \cap (1..PerTurn) = 1..last
  BY <1>1, <1>3
<1>5. T!FirstOf(value) = SubSeq(value, 1, last)
  BY DEF T!FirstOf
<1> HIDE DEF last
<1>6. /\ Len(SubSeq(value, 1, last)) = last /\ DOMAIN SubSeq(value, 1, last) = 1..last
      /\ \A k \in 1..last : SubSeq(value, 1, last)[k] = value[k]
  BY <1>3, <1>4
<1> QED
  BY <1>2, <1>3, <1>4, <1>5, <1>6

\* Of the first items every candidate is taken, as often as it is there.
LEMMA ItemsAre ==
  ASSUME NEW value \in T!Yields
  PROVE  /\ T!Items(value) \in Seq(Candidates)
         /\ \A c \in Candidates :
              T!Times(T!Items(value), c) = T!Times(T!FirstOf(value), c)
<1>1. PICK taken : taken = T!FirstOf(value)
  OBVIOUS
<1> DEFINE places == {n \in DOMAIN taken : taken[n] # Junk}
           place(k) == CHOOSE n \in places : Rank(places, n) = k
           items == [k \in 1..Cardinality(places) |-> taken[place(k)]]
<1>2. /\ Len(taken) \in Nat /\ DOMAIN taken = 1..Len(taken)
      /\ \A n \in DOMAIN taken : taken[n] \in Candidates \cup {Junk}
  BY <1>1, FirstIs
<1>3. T!Items(value) = items
  BY <1>1 DEF T!Items, T!IsCandidate, T!Cardinality, Cardinality, Rank
<1>4. /\ IsFiniteSet(places) /\ Cardinality(places) \in Nat
      /\ \A n \in places : Rank(places, n) \in 1..Cardinality(places)
      /\ \A m, n \in places : Rank(places, m) = Rank(places, n) => m = n
      /\ \A k \in 1..Cardinality(places) : \E n \in places : Rank(places, n) = k
  <2>1. places \in SUBSET (1..Len(taken))
    BY <1>2
  <2> HIDE DEF places
  <2> QED
    BY <1>2, <2>1, RanksAre
<1>5. \A n \in places : n \in DOMAIN taken /\ taken[n] \in Candidates
  BY <1>2
<1>6. \A n \in DOMAIN taken : taken[n] \in Candidates => n \in places
  BY TurnConstants DEF T!SyncConstants
<1> HIDE DEF places
<1>7. \A k \in 1..Cardinality(places) : place(k) \in places /\ Rank(places, place(k)) = k
  BY <1>4
<1>8. items \in Seq(Candidates) /\ DOMAIN items = 1..Cardinality(places)
  BY <1>4, <1>5, <1>7
<1>9. ASSUME NEW c \in Candidates
      PROVE  Cardinality(Places(items, c)) = Cardinality(Places(taken, c))
  <2> DEFINE f == [k \in Places(items, c) |-> place(k)]
  <2>1. f \in [Places(items, c) -> Places(taken, c)]
    BY <1>5, <1>7 DEF Places
  <2>2. \A j, k \in Places(items, c) : f[j] = f[k] => j = k
    BY <1>7 DEF Places
  <2>3. ASSUME NEW n \in Places(taken, c) PROVE \E k \in Places(items, c) : f[k] = n
    <3>1. n \in places /\ taken[n] = c
      BY <1>6 DEF Places
    <3>2. Rank(places, n) \in 1..Cardinality(places) /\ place(Rank(places, n)) = n
      BY <1>4, <1>7, <3>1
    <3>3. Rank(places, n) \in Places(items, c)
      BY <3>1, <3>2 DEF Places
    <3> QED
      BY <3>2, <3>3
  <2>4. IsFiniteSet(Places(taken, c))
    BY <1>2, RanksAre DEF Places
  <2> HIDE DEF f, items
  <2> QED
    BY <2>1, <2>2, <2>3, <2>4, SameCount
<1> HIDE DEF items
<1> QED
  BY <1>1, <1>3, <1>8, <1>9, CountIs

\* The places at which extractors yielded the candidate.
YieldedAt(done, c) ==
  {at \in (DOMAIN done) \X (1..PerTurn) :
     /\ done[at[1]] # Null
     /\ at[2] \in DOMAIN done[at[1]] /\ done[at[1]][at[2]] = c}

LEMMA YieldedIs ==
  ASSUME NEW c
  PROVE  T!Yielded(c) = Cardinality(YieldedAt(yielded, c))
BY DEF T!Yielded, T!Cardinality, Cardinality, YieldedAt

\* What one more extractor yields is added to what the others did, and an
\* exception adds nothing.
LEMMA YieldedMore ==
  ASSUME NEW done \in Seq(T!Yields \cup {Null}), NEW c \in Candidates,
         NEW value \in T!Yields \cup {Null}
  PROVE  /\ IsFiniteSet(YieldedAt(done, c)) /\ Cardinality(YieldedAt(done, c)) \in Nat
         /\ Cardinality(YieldedAt(Append(done, value), c))
              = Cardinality(YieldedAt(done, c))
                + IF value = Null THEN 0 ELSE T!Times(T!FirstOf(value), c)
<1>1. /\ PerTurn \in Nat \ {0} /\ Null \notin T!Yields
      /\ Len(done) \in Nat /\ DOMAIN done = 1..Len(done)
  BY TurnConstants DEF T!SyncConstants
<1>2. IsFiniteSet(YieldedAt(done, c)) /\ Cardinality(YieldedAt(done, c)) \in Nat
  <2>1. IsFiniteSet((1..Len(done)) \X (1..PerTurn))
    <3>1. 1 \in Int /\ Len(done) \in Int /\ PerTurn \in Int
      BY <1>1
    <3>2. IsFiniteSet(1..Len(done)) /\ IsFiniteSet(1..PerTurn)
      BY <3>1, FS_Interval
    <3> QED
      BY <3>2, FS_Product
  <2>2. YieldedAt(done, c) \subseteq (1..Len(done)) \X (1..PerTurn)
    BY <1>1 DEF YieldedAt
  <2> QED
    BY <2>1, <2>2, FS_Subset, FS_CardinalityType
<1> DEFINE last == Len(done) + 1
           all == Append(done, value)
           new == {at \in {last} \X (1..PerTurn) :
                     value # Null /\ at[2] \in DOMAIN value /\ value[at[2]] = c}
<1>3. /\ DOMAIN all = (DOMAIN done) \cup {last} /\ all[last] = value
      /\ \A n \in DOMAIN done : all[n] = done[n]
      /\ last \notin DOMAIN done
  BY <1>1
<1> HIDE DEF all, last
<1>4. YieldedAt(all, c) = YieldedAt(done, c) \cup new
  BY <1>3 DEF YieldedAt
<1>5. YieldedAt(done, c) \cap new = {}
  BY <1>3 DEF YieldedAt
<1>6. IsFiniteSet(new)
      /\ Cardinality(new) = IF value = Null THEN 0 ELSE T!Times(T!FirstOf(value), c)
  <2>1. CASE value = Null
    BY <2>1, FS_EmptySet
  <2>2. CASE value # Null
    <3>1. value \in T!Yields
      BY <2>2
    <3>2. PICK first : first = T!FirstOf(value)
      OBVIOUS
    <3>3. /\ Len(first) \in Nat /\ DOMAIN first = 1..Len(first)
          /\ DOMAIN first = (DOMAIN value) \cap (1..PerTurn)
          /\ \A n \in DOMAIN first : first[n] = value[n]
      BY <3>1, <3>2, FirstIs
    <3> DEFINE f == [at \in new |-> at[2]]
    <3>4. f \in [new -> Places(first, c)]
      BY <3>3 DEF Places
    <3>5. \A x, y \in new : f[x] = f[y] => x = y
      OBVIOUS
    <3>6. ASSUME NEW n \in Places(first, c) PROVE \E x \in new : f[x] = n
      <4>1. <<last, n>> \in new
        BY <2>2, <3>3 DEF Places
      <4>2. f[<<last, n>>] = n
        BY <4>1
      <4> QED
        BY <4>1, <4>2
    <3>7. IsFiniteSet(Places(first, c))
      BY <3>3, RanksAre DEF Places
    <3> HIDE DEF f, new
    <3>8. IsFiniteSet(new) /\ Cardinality(new) = Cardinality(Places(first, c))
      BY <3>4, <3>5, <3>6, <3>7, SameCount
    <3> QED
      BY <2>2, <3>2, <3>8, CountIs
  <2> QED
    BY <2>1, <2>2
<1> HIDE DEF new
<1>7. Cardinality(YieldedAt(all, c)) = Cardinality(YieldedAt(done, c)) + Cardinality(new)
  BY <1>2, <1>4, <1>5, <1>6, CountApart
<1> QED
  BY <1>2, <1>6, <1>7 DEF all

\* FailuresIsolated is not inductive: in the middle of a turn every extractor
\* is asked or left, and every candidate tried or kept.
TurnInv ==
  /\ T!TypeOK /\ yielded \in Seq(T!Yields \cup {Null})
  /\ turn = T!Idle =>
       Len(yielded) = due /\ \A c \in Candidates : T!Times(tried, c) = T!Yielded(c)
  /\ turn # T!Idle =>
       /\ turn \in T!Turn /\ turn.left + Len(yielded) = due
       /\ turn.pc = "extract" => turn.left > 0
       /\ turn.pc = "submit" => turn.left = 0
       /\ \A c \in Candidates : T!Times(tried \o turn.candidates, c) = T!Yielded(c)

LEMMA TurnIsNotIdle ==
  ASSUME NEW me \in T!Turn
  PROVE  me # T!Idle
<1>1. me.pc \in {"extract", "submit"}
  BY DEF T!Turn
<1>2. T!Idle.pc = "idle"
  BY DEF T!Idle
<1> QED
  BY <1>1, <1>2

\* Nothing was yielded before anyone was asked.
LEMMA NothingYielded ==
  ASSUME NEW c
  PROVE  /\ Cardinality(YieldedAt(<<>>, c)) = 0
         /\ T!Times(<<>>, c) = 0
<1>1. YieldedAt(<<>>, c) = {} /\ Places(<<>>, c) = {}
  BY DEF YieldedAt, Places
<1> QED
  BY <1>1, CountIs, FS_EmptySet

LEMMA TurnInitInv == T!Init => TurnInv
<1> SUFFICES ASSUME T!Init PROVE TurnInv
  OBVIOUS
<1>1. /\ extractors = 0 /\ turns = 0 /\ turn = T!Idle /\ due = 0
      /\ yielded = <<>> /\ tried = <<>> /\ stored = {}
  BY DEF T!Init
<1>2. MaxExtractors \in Nat /\ MaxTurns \in Nat
  BY TurnConstants DEF T!SyncConstants
<1>3. T!TypeOK
  BY <1>1, <1>2 DEF T!TypeOK
<1>4. \A c \in Candidates : T!Times(tried, c) = T!Yielded(c)
  BY <1>1, NothingYielded, YieldedIs
<1> QED
  BY <1>1, <1>3, <1>4 DEF TurnInv

LEMMA RegisterInv ==
  ASSUME TurnInv, T!Register
  PROVE  TurnInv'
<1>1. /\ extractors < MaxExtractors /\ extractors' = extractors + 1
      /\ UNCHANGED <<turns, turn, due, yielded, tried, stored>>
      /\ MaxExtractors \in Nat
  BY TurnConstants DEF T!Register, T!SyncConstants
<1>2. extractors \in 0..MaxExtractors /\ due \in 0..extractors
  BY DEF TurnInv, T!TypeOK
<1>3. extractors' \in 0..MaxExtractors /\ due \in 0..extractors'
  BY <1>1, <1>2
<1>4. T!TypeOK'
  BY <1>1, <1>3 DEF TurnInv, T!TypeOK
<1> QED
  BY <1>1, <1>4 DEF TurnInv, T!Yielded

LEMMA BeginTurnInv ==
  ASSUME TurnInv, T!Begin
  PROVE  TurnInv'
<1>1. /\ turns < MaxTurns /\ extractors > 0
      /\ turn' = [pc |-> "extract", left |-> extractors, candidates |-> <<>>]
      /\ turns' = turns + 1 /\ due' = extractors
      /\ yielded' = <<>> /\ tried' = <<>> /\ UNCHANGED <<extractors, stored>>
  BY DEF T!Begin
<1>2. /\ extractors \in 0..MaxExtractors /\ MaxExtractors \in Nat
      /\ turns \in 0..MaxTurns /\ MaxTurns \in Nat /\ stored \subseteq Candidates
  BY TurnConstants DEF TurnInv, T!TypeOK, T!SyncConstants
<1>3. turn' \in T!Turn /\ turn'.left = extractors /\ turn'.pc = "extract"
      /\ turn'.candidates = <<>>
  BY <1>1, <1>2 DEF T!Turn
<1>4. turns' \in 0..MaxTurns /\ due' \in 0..extractors'
      /\ turn'.left + Len(yielded') = due' /\ turn'.left > 0
  BY <1>1, <1>2, <1>3
<1>5. T!TypeOK'
  BY <1>1, <1>2, <1>3, <1>4 DEF T!TypeOK
<1>6. tried' \o turn'.candidates = <<>>
  BY <1>1, <1>3
<1>7. \A c \in Candidates : T!Yielded(c)' = 0
  <2>1. \A c \in Candidates : T!Yielded(c)' = Cardinality(YieldedAt(yielded', c))
    BY DEF T!Yielded, T!Cardinality, Cardinality, YieldedAt
  <2> QED
    BY <1>1, <2>1, NothingYielded
<1> QED
  BY <1>1, <1>3, <1>4, <1>5, <1>6, <1>7, NothingYielded, TurnIsNotIdle DEF TurnInv

\* An extractor that raised has added nothing to what is to be tried, and one
\* that did not has added its candidates.
LEMMA ExtractedInv ==
  ASSUME TurnInv, NEW value \in T!Yields \cup {Null}, NEW items \in Seq(Candidates),
         T!Extracted(turn.left - 1, items, value),
         \A c \in Candidates :
           T!Times(items, c) = IF value = Null THEN 0 ELSE T!Times(T!FirstOf(value), c)
  PROVE  TurnInv'
<1>1. /\ turn # T!Idle /\ turn.pc = "extract" /\ yielded' = Append(yielded, value)
      /\ UNCHANGED <<extractors, turns, due, tried, stored>>
  BY DEF T!Extracted
<1>2. PICK was \in T!Turn :
        /\ was = turn /\ was.left > 0 /\ was.left + Len(yielded) = due
        /\ was.left \in 0..MaxExtractors /\ was.candidates \in Seq(Candidates)
        /\ \A c \in Candidates : T!Times(tried \o was.candidates, c) = T!Yielded(c)
  BY <1>1 DEF TurnInv, T!Turn
<1>3. /\ MaxExtractors \in Nat /\ due \in 0..extractors /\ extractors \in 0..MaxExtractors
      /\ yielded \in Seq(T!Yields \cup {Null}) /\ tried \in Seq(Candidates)
  BY TurnConstants DEF TurnInv, T!TypeOK, T!SyncConstants
<1>4. PICK pc \in {"extract", "submit"} :
        pc = IF was.left - 1 = 0 THEN "submit" ELSE "extract"
  OBVIOUS
<1>5. turn' = [pc |-> pc, left |-> was.left - 1, candidates |-> was.candidates \o items]
  BY <1>2, <1>4 DEF T!Extracted
<1>6. /\ was.left - 1 \in 0..MaxExtractors /\ was.candidates \o items \in Seq(Candidates)
  BY <1>2, <1>3
<1>7. /\ turn' \in T!Turn /\ turn'.left = was.left - 1 /\ turn'.pc = pc
      /\ turn'.candidates = was.candidates \o items
  BY <1>5, <1>6 DEF T!Turn
<1>8. /\ yielded' \in Seq(T!Yields \cup {Null})
      /\ Len(yielded') = Len(yielded) + 1 /\ Len(yielded) \in Nat
  BY <1>1, <1>3
<1>9. /\ turn'.left + Len(yielded') = due' /\ (pc = "extract" => turn'.left > 0)
      /\ (pc = "submit" => turn'.left = 0)
  <2>1. was.left - 1 + (Len(yielded) + 1) = due
    BY <1>2, <1>3, <1>8
  <2>2. (pc = "extract" => was.left - 1 > 0) /\ (pc = "submit" => was.left - 1 = 0)
    BY <1>2, <1>3, <1>4
  <2> QED
    BY <1>1, <1>7, <1>8, <2>1, <2>2
<1>10. T!TypeOK'
  BY <1>1, <1>3, <1>7, <1>9 DEF TurnInv, T!TypeOK
<1>11. ASSUME NEW c \in Candidates
       PROVE  T!Times(tried' \o turn'.candidates, c) = T!Yielded(c)'
  <2>1. /\ tried \o was.candidates \in Seq(Candidates)
        /\ tried \o (was.candidates \o items) = (tried \o was.candidates) \o items
    <3>1. PICK kept \in Seq(Candidates) : kept = was.candidates
      BY <1>2
    <3>2. /\ tried \o kept \in Seq(Candidates)
          /\ tried \o (kept \o items) = (tried \o kept) \o items
      BY <1>3, Joined
    <3> QED
      BY <3>1, <3>2
  <2>2. T!Times(tried' \o turn'.candidates, c)
          = T!Times(tried \o was.candidates, c) + T!Times(items, c)
    <3>1. tried' \o turn'.candidates = (tried \o was.candidates) \o items
      BY <1>1, <1>7, <2>1
    <3> QED
      BY <2>1, <3>1, CountsAdd
  <2>3. T!Yielded(c)' = Cardinality(YieldedAt(Append(yielded, value), c))
    BY <1>1 DEF T!Yielded, T!Cardinality, Cardinality, YieldedAt
  <2>4. T!Yielded(c) = Cardinality(YieldedAt(yielded, c))
    BY YieldedIs
  <2> QED
    BY <1>2, <1>3, <2>2, <2>3, <2>4, YieldedMore
<1> QED
  BY <1>7, <1>8, <1>9, <1>10, <1>11, TurnIsNotIdle DEF TurnInv

LEMMA ExtractInv ==
  ASSUME TurnInv, T!Extract
  PROVE  TurnInv'
<1>1. CASE T!ExtractorRaises
  <2>1. <<>> \in Seq(Candidates) /\ \A c \in Candidates : T!Times(<<>>, c) = 0
    BY NothingYielded
  <2> QED
    BY <1>1, <2>1, ExtractedInv DEF T!ExtractorRaises
<1>2. ASSUME NEW value \in T!Yields, T!ExtractorYields(value)
      PROVE  TurnInv'
  <2>1. value # Null
    BY TurnConstants DEF T!SyncConstants
  <2> QED
    BY <1>2, <2>1, ItemsAre, ExtractedInv DEF T!ExtractorYields
<1> QED
  BY <1>1, <1>2 DEF T!Extract

\* A candidate that is submitted, or fails, has been tried, and the rest is kept.
LEMMA SubmitInv ==
  ASSUME TurnInv, T!Submit \/ T!SubmitRaises
  PROVE  TurnInv'
<1>1. PICK more \in SUBSET {Head(turn.candidates)} :
        T!Submitted(Tail(turn.candidates), more)
  BY DEF T!Submit, T!SubmitRaises
<1>2. PICK was \in T!Turn :
        /\ was = turn /\ turn # T!Idle /\ was.pc = "submit" /\ was.candidates # <<>>
        /\ was.left = 0 /\ was.left + Len(yielded) = due
        /\ was.candidates \in Seq(Candidates)
        /\ \A c \in Candidates : T!Times(tried \o was.candidates, c) = T!Yielded(c)
  BY <1>1 DEF TurnInv, T!Turn, T!Submitted, T!Submitting
<1>3. /\ Head(was.candidates) \in Candidates /\ Tail(was.candidates) \in Seq(Candidates)
      /\ tried \in Seq(Candidates)
  BY <1>2 DEF TurnInv, T!TypeOK
<1>4. /\ tried' = Append(tried, Head(was.candidates))
      /\ turn' = [was EXCEPT !.candidates = Tail(was.candidates)]
      /\ stored' = stored \cup more
      /\ UNCHANGED <<extractors, turns, due, yielded>>
  BY <1>1, <1>2 DEF T!Submitted
<1>5. /\ turn' \in T!Turn /\ turn'.pc = "submit" /\ turn'.left = was.left
      /\ turn'.candidates = Tail(was.candidates)
  BY <1>2, <1>3, <1>4 DEF T!Turn
<1>6. /\ tried' \in Seq(Candidates) /\ stored' \subseteq Candidates
  BY <1>1, <1>2, <1>3, <1>4 DEF TurnInv, T!TypeOK
<1>7. tried' \o turn'.candidates = tried \o was.candidates
  <2>1. was.candidates = <<Head(was.candidates)>> \o Tail(was.candidates)
    BY <1>2
  <2>2. Append(tried, Head(was.candidates)) = tried \o <<Head(was.candidates)>>
    BY <1>3
  <2>3. (tried \o <<Head(was.candidates)>>) \o Tail(was.candidates)
          = tried \o (<<Head(was.candidates)>> \o Tail(was.candidates))
    <3>1. <<Head(was.candidates)>> \in Seq(Candidates)
      BY <1>3
    <3> QED
      BY <1>3, <3>1, Joined
  <2> QED
    BY <1>4, <1>5, <2>1, <2>2, <2>3
<1>8. T!TypeOK'
  BY <1>2, <1>4, <1>5, <1>6 DEF TurnInv, T!TypeOK
<1>9. \A c \in Candidates : T!Times(tried' \o turn'.candidates, c) = T!Yielded(c)'
  BY <1>2, <1>4, <1>7 DEF T!Yielded
<1> QED
  BY <1>2, <1>4, <1>5, <1>8, <1>9, TurnIsNotIdle DEF TurnInv

LEMMA EndInv ==
  ASSUME TurnInv, T!End
  PROVE  TurnInv'
<1>1. /\ turn # T!Idle /\ turn.pc = "submit" /\ turn.candidates = <<>> /\ turn' = T!Idle
      /\ UNCHANGED <<extractors, turns, due, yielded, tried, stored>>
  BY DEF T!End
<1>2. tried \in Seq(Candidates) /\ due \in 0..extractors /\ extractors \in Nat
      /\ yielded \in Seq(T!Yields \cup {Null})
      /\ turn.left = 0 /\ turn.left + Len(yielded) = due
      /\ \A c \in Candidates : T!Times(tried \o turn.candidates, c) = T!Yielded(c)
  BY <1>1, TurnConstants DEF TurnInv, T!TypeOK, T!SyncConstants
<1>3. tried \o turn.candidates = tried /\ Len(yielded) = due
  BY <1>1, <1>2
<1>4. T!TypeOK'
  BY <1>1 DEF TurnInv, T!TypeOK
<1> QED
  BY <1>1, <1>2, <1>3, <1>4 DEF TurnInv, T!Yielded

LEMMA TurnNextInv == TurnInv /\ (T!Next \/ UNCHANGED turnaround) => TurnInv'
<1>1. TurnInv /\ UNCHANGED turnaround => TurnInv'
  BY DEF turnaround, TurnInv, T!TypeOK, T!Yielded
<1> QED
  BY <1>1, RegisterInv, BeginTurnInv, ExtractInv, SubmitInv, EndInv
     DEF T!Next, T!Sync

----------------------------------------------------------------------------
(* The agent *)

LEMMA AgentInitInv == AgentInit => RecallInv /\ DecisionsInv /\ TurnInv
BY RecallInitInv, DecisionsInitInv, TurnInitInv DEF AgentInit

LEMMA AgentNextInv ==
  RecallInv /\ DecisionsInv /\ TurnInv /\ [AgentNext]_agent
    => RecallInv' /\ DecisionsInv' /\ TurnInv'
BY RecallNextInv, DecisionsNextInv, TurnNextInv
   DEF AgentNext, agent, vars, commands

\* The inductive invariant of the agent holds however prefetches, sessions,
\* turns, commands, buttons and timeouts interleave.
THEOREM AgentConsistent == AgentSpec => [](RecallInv /\ DecisionsInv /\ TurnInv)
BY AgentInitInv, AgentNextInv, PTL DEF AgentSpec

\* What is recalled for a query was active since the last prefetch of it began
\* (provider.py:58-63).
THEOREM RecallRecent == AgentSpec => []RecallIsRecent
<1>1. RecallInv => RecallIsRecent
  BY DEF RecallInv
<1> QED
  BY <1>1, AgentConsistent, PTL

\* A request is decided only as a person did, whatever timed out or was pressed
\* late, and a final status that was told stays (general_plugin.py:91-130).
THEOREM OnlyPeopleDecide == AgentSpec => []PeopleDecide
<1>1. DecisionsInv => PeopleDecide
  BY DEF DecisionsInv
<1> QED
  BY <1>1, AgentConsistent, PTL

\* A turn that ends has asked every extractor and tried each candidate exactly
\* as often as those that did not raise yielded it among their first items,
\* whatever raised before or between (provider.py:94-117).
THEOREM TurnsIsolateFailures == AgentSpec => []FailuresIsolated
<1>1. TurnInv => FailuresIsolated
  BY DEF TurnInv, FailuresIsolated, T!FailuresIsolated
<1> QED
  BY <1>1, AgentConsistent, PTL

=============================================================================
