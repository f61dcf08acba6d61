-------------------------- MODULE RecordEmbeddings --------------------------
(***************************************************************************)
(* The embedding projection of records: a job per revision, enqueued by a  *)
(* trigger, claimed by projection workers under a lease and settled or     *)
(* recovered later.                                                        *)
(*                                                                         *)
(* PostgreSQL runs every transaction under READ COMMITTED.  A transaction  *)
(* is one step where each of its writes rechecks, after waiting for a row  *)
(* lock, the condition it was chosen by.  Two are not:                     *)
(*   - an answer (complete or fail) is guarded by an EXISTS that does not  *)
(*     depend on the row it updates.  It is evaluated once, before the     *)
(*     wait for the row, and not again: Answer reads it, Store writes;     *)
(*   - a requeue locks the jobs it selected, and only them, and rewrites   *)
(*     them and their projections later: SelectRetries, RequeueRetries.    *)
(* Some transactions lock job before projection and others the reverse;    *)
(* PostgreSQL aborts one of two that wait for each other, and the victim   *)
(* is the worker of a Crash or the requeue of AbortRequeue.                *)
(***************************************************************************)
EXTENDS Integers, FiniteSets

CONSTANTS
  Records,      \* bound: the ids of records
  Workers,      \* processes that run index_embeddings
  Tokens,       \* bound: the claim tokens of one job, reused once forgotten
  MaxAttempts,  \* max_attempts of every job
  Lease,        \* ticks until a lease expires
  Limits,       \* the limits callers pass
  MaxRevision,  \* bound: the last revision that is still active
  MaxRequeues,  \* bound: how often an operator requeues
  NoToken       \* SQL NULL

ASSUME ConstantsTyped ==
  /\ MaxAttempts \in Nat \ {0} /\ Lease \in Nat \ {0}
  /\ Limits \subseteq Nat \ {0}
  /\ MaxRevision \in Nat \ {0} /\ MaxRequeues \in Nat
  /\ NoToken \notin Tokens

Jobs == Records \X (1..MaxRevision)

VARIABLES
  record,      \* what record and now() say of each record
  projection,  \* record_embedding
  job,         \* embedding_job
  held,        \* the claims a worker's loop has not answered yet
  call,        \* the answer a worker is sending
  retries,     \* the jobs a running requeue has locked
  requeues,    \* requeues so far
  spent        \* claims of each job since it was last explicitly requeued

vars == <<record, projection, job, held, call, retries, requeues, spent>>
workers == <<held, call>>
operator == <<retries, requeues, spent>>

NoProjection == [status |-> "none"]
NoJob == [status |-> "none"]
NoCall == [answer |-> "none"]
NoVector == 0

\* A text and its vector are known by the revision they belong to.
RecordRow ==
  [status : {"absent", "active", "closed", "purged"},
   revision : 0..(MaxRevision + 1), window : {"future", "open", "past"}]
ProjectionRow ==
  [status : {"pending", "indexed", "failed", "deleted"},
   vector : 0..MaxRevision]
JobRow ==
  [status : {"pending", "processing", "completed", "failed", "cancelled"},
   attempts : 0..MaxAttempts, token : Tokens \cup {NoToken}, lease : 0..Lease]
Claims == [job : Jobs, token : Tokens, text : 1..MaxRevision]
Calls == [answer : {"complete", "fail"}, claim : Claims, seen : BOOLEAN]

\* Rows are well formed; a claim token is there exactly while a claim is.
TypeOK ==
  /\ record \in [Records -> RecordRow]
  /\ projection \in [Jobs -> ProjectionRow \cup {NoProjection}]
  /\ job \in [Jobs -> JobRow \cup {NoJob}]
  /\ \A j \in Jobs : job[j] # NoJob =>
       ((job[j].token # NoToken) <=> (job[j].status = "processing"))
  /\ held \in [Workers -> SUBSET Claims]
  /\ call \in [Workers -> Calls \cup {NoCall}]
  /\ retries \subseteq Jobs /\ requeues \in 0..MaxRequeues
  /\ spent \in [Jobs -> Nat]

Init ==
  /\ record = [r \in Records |->
                 [status |-> "absent", revision |-> 0, window |-> "future"]]
  /\ projection = [j \in Jobs |-> NoProjection]
  /\ job = [j \in Jobs |-> NoJob]
  /\ held = [w \in Workers |-> {}]
  /\ call = [w \in Workers |-> NoCall]
  /\ retries = {} /\ requeues = 0
  /\ spent = [j \in Jobs |-> 0]

----------------------------------------------------------------------------
(* Canonical records and the trigger enqueue_record_embedding *)

\* A job whose claim, if it had one, has ended.
Unclaimed(row, status) ==
  [status |-> status, attempts |-> row.attempts, token |-> NoToken, lease |-> 0]

Deleted(row) ==
  IF row = NoProjection THEN row
  ELSE [status |-> "deleted", vector |-> NoVector]
\* Mutant of Cancelled: migration 0006 cancelled only what was pending.
CancelledPending(row) ==
  IF row.status = "pending" THEN Unclaimed(row, "cancelled") ELSE row
Cancelled(row) ==
  IF row.status \in {"pending", "processing"}
  THEN Unclaimed(row, "cancelled") ELSE row

JobsOf(r) == {j \in Jobs : j[1] = r}

NewProjection == [status |-> "pending", vector |-> NoVector]
NewJob ==
  [status |-> "pending", attempts |-> 0, token |-> NoToken, lease |-> 0]

\* The trigger after a write that leaves record r as `row`.  Cancelling waits
\* for jobs a requeue has locked.
EnqueueRecordEmbedding(r, row) ==
  \/ /\ row.status # "active" \/ row.window = "past"
     /\ \A j \in retries \cap JobsOf(r) : Cancelled(job[j]) = job[j]
     /\ projection' = [j \in Jobs |-> IF j[1] = r THEN Deleted(projection[j])
                                      ELSE projection[j]]
     /\ job' = [j \in Jobs |-> IF j[1] = r THEN Cancelled(job[j])
                               ELSE job[j]]
  \/ /\ row.status = "active" /\ row.window # "past"
     /\ LET j == <<r, row.revision>>
        IN /\ projection' = [projection EXCEPT ![j] =
                               IF @ = NoProjection THEN NewProjection ELSE @]
           /\ job' = [job EXCEPT ![j] = IF @ = NoJob THEN NewJob ELSE @]

Write(r, row) ==
  /\ record' = [record EXCEPT ![r] = row]
  /\ EnqueueRecordEmbedding(r, row)
  /\ UNCHANGED <<workers, operator>>

CreateRecord(r) ==
  /\ record[r].status = "absent"
  /\ \E window \in {"future", "open"} :
       Write(r, [status |-> "active", revision |-> 1, window |-> window])

UpdateRecord(r) ==
  /\ record[r].status = "active" /\ record[r].revision < MaxRevision
  /\ Write(r, [record[r] EXCEPT !.revision = @ + 1])

DeleteRecord(r) ==
  /\ record[r].status = "active"
  /\ Write(r, [status |-> "closed", revision |-> record[r].revision + 1,
               window |-> record[r].window])

ExpireRecord(r) ==
  /\ record[r].status = "active" /\ record[r].window = "past"
  /\ Write(r, [record[r] EXCEPT !.status = "closed"])

\* The rows of a purged record go with it (ON DELETE CASCADE).
PurgeRecord(r) ==
  /\ record[r].status \in {"active", "closed"}
  /\ retries \cap JobsOf(r) = {}
  /\ record' = [record EXCEPT ![r].status = "purged"]
  /\ projection' = [j \in Jobs |-> IF j[1] = r THEN NoProjection
                                   ELSE projection[j]]
  /\ job' = [j \in Jobs |-> IF j[1] = r THEN NoJob ELSE job[j]]
  /\ UNCHANGED <<workers, operator>>

\* now() passes valid_from or valid_to: no row is written and no trigger runs.
PassWindow(r) ==
  /\ record[r].status = "active" /\ record[r].window # "past"
  /\ record' = [record EXCEPT ![r].window =
                  IF @ = "future" THEN "open" ELSE "past"]
  /\ UNCHANGED <<projection, job, workers, operator>>

\* Every lease comes closer to its end.
Tick ==
  /\ \E j \in Jobs : job[j].status = "processing" /\ job[j].lease > 0
  /\ job' = [j \in Jobs |->
               IF job[j].status = "processing" /\ job[j].lease > 0
               THEN [job[j] EXCEPT !.lease = @ - 1] ELSE job[j]]
  /\ UNCHANGED <<record, projection, workers, operator>>

----------------------------------------------------------------------------
(* Claims *)

\* Mutant of Current: any revision of a live record.
OfLiveRecord(j) ==
  record[j[1]].status = "active" /\ record[j[1]].window = "open"

\* What both a claim and a requeue ask of the record of a job.
Current(j) ==
  LET row == record[j[1]]
  IN row.status = "active" /\ row.window = "open" /\ row.revision = j[2]

Expired(j) == job[j].status = "processing" /\ job[j].lease = 0

Exhausted(row) == row.attempts >= MaxAttempts

\* Mutant of Recovered: the attempts are not looked at.
AlwaysPending(row) == Unclaimed(row, "pending")

\* An expired claim goes back to the queue unless it was the last attempt.
Recovered(row) ==
  Unclaimed(row, IF Exhausted(row) THEN "failed" ELSE "pending")

\* The claims of j somebody still remembers.
Remembered(j) ==
  {job[j].token} \cup
  UNION {{c.token : c \in {d \in held[w] : d.job = j}} : w \in Workers} \cup
  {call[w].claim.token :
     w \in {v \in Workers : call[v] # NoCall /\ call[v].claim.job = j}}
NewToken(j) == CHOOSE t \in Tokens : t \notin Remembered(j)

\* As many of S as the limit lets through; which ones come first is left open.
Batches(S) ==
  {B \in SUBSET S : \E limit \in Limits :
     /\ Cardinality(B) <= limit
     /\ B = S \/ Cardinality(B) = limit}

Claimed(j, row) ==
  [status |-> "processing", attempts |-> row.attempts + 1,
   token |-> NewToken(j), lease |-> Lease]

\* A call of pending_embedding_jobs first recovers every expired lease.
AfterRecovery(j) == IF Expired(j) THEN Recovered(job[j]) ELSE job[j]

\* Jobs that may be claimed then; those a requeue has locked are skipped.
Claimable ==
  {j \in Jobs \ retries :
     /\ AfterRecovery(j).status = "pending"
     /\ AfterRecovery(j).attempts < MaxAttempts
     /\ Current(j)
     /\ ~(Tokens \subseteq Remembered(j))}

\* One call of pending_embedding_jobs, at the start of a worker's loop.
\* Recovery waits for expired jobs that a requeue has locked.
PendingEmbeddingJobs(w) ==
  /\ held[w] = {} /\ call[w] = NoCall
  /\ \A j \in retries : ~Expired(j)
  /\ Claimable # {} \/ \E j \in Jobs : Expired(j)
  /\ \E batch \in Batches(Claimable) :
       /\ job' = [j \in Jobs |-> IF j \in batch
                                 THEN Claimed(j, AfterRecovery(j))
                                 ELSE AfterRecovery(j)]
       /\ held' = [held EXCEPT ![w] =
                     {[job |-> j, token |-> NewToken(j),
                       text |-> record[j[1]].revision] : j \in batch}]
       /\ spent' = [j \in Jobs |-> IF j \in batch THEN spent[j] + 1
                                   ELSE spent[j]]
  /\ projection' = [j \in Jobs |->
       IF Expired(j)
       THEN [projection[j] EXCEPT !.status = AfterRecovery(j).status]
       ELSE projection[j]]
  /\ UNCHANGED <<record, call, retries, requeues>>

----------------------------------------------------------------------------
(* Answers *)

\* Mutant of HoldsClaim: a job is known by its status alone.
InProcess(c) == job[c.job].status = "processing"

HoldsClaim(c) ==
  job[c.job].status = "processing" /\ job[c.job].token = c.token

\* The provider has answered: the worker calls complete or fail, whose first
\* statement looks for the claim.
Answer(w) ==
  \E c \in held[w], answer \in {"complete", "fail"} :
    /\ call[w] = NoCall
    /\ held' = [held EXCEPT ![w] = @ \ {c}]
    /\ call' = [call EXCEPT ![w] =
                  [answer |-> answer, claim |-> c, seen |-> HoldsClaim(c)]]
    /\ UNCHANGED <<record, projection, job, operator>>

Stored(c, answer) ==
  IF answer = "complete" THEN [status |-> "indexed", vector |-> c.text]
  ELSE [projection[c.job] EXCEPT !.status = "failed"]

Settled(c, answer) ==
  Unclaimed(job[c.job], IF answer = "complete" THEN "completed" ELSE "failed")

\* The projection is written if the claim was seen, the job if it is there
\* still.  complete leaves the job alone when it wrote no projection.
Store(w) ==
  /\ call[w] # NoCall
  /\ LET c == call[w].claim
         stored == call[w].seen /\ projection[c.job] # NoProjection
         settled == HoldsClaim(c) /\ (stored \/ call[w].answer = "fail")
     IN /\ settled => c.job \notin retries
        /\ projection' = IF stored
             THEN [projection EXCEPT ![c.job] = Stored(c, call[w].answer)]
             ELSE projection
        /\ job' = IF settled
             THEN [job EXCEPT ![c.job] = Settled(c, call[w].answer)]
             ELSE job
  /\ call' = [call EXCEPT ![w] = NoCall]
  /\ UNCHANGED <<record, held, operator>>

\* The process dies, or its transaction is a deadlock's victim: the loop of
\* index_embeddings stops at any error but a CommandError.
Crash(w) ==
  /\ held[w] # {} \/ call[w] # NoCall
  /\ held' = [held EXCEPT ![w] = {}]
  /\ call' = [call EXCEPT ![w] = NoCall]
  /\ UNCHANGED <<record, projection, job, operator>>

----------------------------------------------------------------------------
(* Requeue *)

\* Mutant of Requeued: every requeue starts anew.
Restarted(row) == NewJob

\* What a requeue makes of a job: an explicit retry of a failed one starts
\* anew, an expired claim is recovered.
Requeued(row) ==
  IF row.status = "failed" THEN NewJob ELSE Recovered(row)

\* SELECT ... FOR UPDATE OF job
SelectRetries ==
  /\ retries = {} /\ requeues < MaxRequeues
  /\ retries' \in Batches({j \in Jobs : /\ job[j].status = "failed" \/ Expired(j)
                                        /\ Current(j)}) \ {{}}
  /\ requeues' = requeues + 1
  /\ UNCHANGED <<record, projection, job, workers, spent>>

\* The updates of the selected jobs and their projections.
RequeueRetries ==
  /\ retries # {}
  /\ job' = [j \in Jobs |-> IF j \in retries THEN Requeued(job[j])
                            ELSE job[j]]
  /\ projection' = [j \in Jobs |->
       IF j \in retries
       THEN [projection[j] EXCEPT !.status = Requeued(job[j]).status]
       ELSE projection[j]]
  /\ spent' = [j \in Jobs |->
       IF j \in retries /\ job[j].status = "failed" THEN 0 ELSE spent[j]]
  /\ retries' = {}
  /\ UNCHANGED <<record, workers, requeues>>

AbortRequeue ==
  /\ retries # {} /\ retries' = {}
  /\ UNCHANGED <<record, projection, job, workers, requeues, spent>>

----------------------------------------------------------------------------
CanonicalStep ==
  \E r \in Records :
    \/ CreateRecord(r) \/ UpdateRecord(r) \/ DeleteRecord(r)
    \/ ExpireRecord(r) \/ PurgeRecord(r) \/ PassWindow(r)

Next ==
  \/ CanonicalStep
  \/ Tick
  \/ \E w \in Workers : \/ PendingEmbeddingJobs(w) \/ Answer(w)
                        \/ Store(w) \/ Crash(w)
  \/ SelectRetries \/ RequeueRetries \/ AbortRequeue

Spec == Init /\ [][Next]_vars

\* Time passes; somebody keeps running index_embeddings (the worker is a
\* service API its deployment calls again and again); a started answer or
\* requeue runs to its end or is aborted.  Crashes, requeues and changes of
\* records may happen but need not.
Fairness ==
  /\ WF_vars(Tick)
  /\ WF_vars(\E w \in Workers : PendingEmbeddingJobs(w))
  /\ \A w \in Workers : WF_vars(Answer(w) \/ Store(w) \/ Crash(w))
  /\ WF_vars(RequeueRetries \/ AbortRequeue)

FairSpec == Spec /\ Fairness

----------------------------------------------------------------------------
(* Properties *)

\* While a lease runs, the claim ends only by its own holder's answer or by a
\* change of the record: no late answer of an earlier holder, no recovery and
\* no requeue takes the job away from a worker that is still in time.
LeasesHonoured ==
  \A j \in Jobs :
    job[j].status = "processing" /\ job[j].lease > 0
    /\ job'[j].status # "processing"
      => \/ record'[j[1]] # record[j[1]]
         \/ \E w \in Workers : /\ call[w] # NoCall /\ call'[w] = NoCall
                               /\ call[w].claim.job = j
                               /\ call[w].claim.token = job[j].token

LiveLeaseHonoured == [][LeasesHonoured]_vars

\* A job is tried at most max_attempts times between two explicit requeues,
\* whatever mixture of failures, crashes, recoveries by workers and
\* recoveries by requeues it goes through.
BudgetRespected == \A j \in Jobs : spent[j] <= MaxAttempts

\* A vector that search may use was made from the text of the revision it is
\* stored under, even if the record moved on while a worker held the text.
VectorOfItsRevision ==
  \A j \in Jobs :
    projection[j].status = "indexed" => projection[j].vector = j[2]

\* No worker is busy with, or may ever claim, the text of a closed record:
\* the trigger and a claim never miss one another.
ClosedNotProcessing ==
  \A j \in Jobs : record[j[1]].status = "closed" => job[j].status # "processing"

\* A job that could be claimed does not stay open for ever, however often its
\* workers crash: it completes, fails, or its record moves on.
JobsSettle ==
  \A j \in Jobs :
    Current(j) /\ job[j].status \in {"pending", "processing"}
      ~> ~(Current(j) /\ job[j].status \in {"pending", "processing"})
=============================================================================
