----------------------- MODULE RecordEmbeddings_proofs -----------------------
(***************************************************************************)
(* Theorems about RecordEmbeddings for every number of records, workers,   *)
(* attempts and revisions, and every length of a lease.                    *)
(***************************************************************************)
EXTENDS RecordEmbeddings, TLAPS

USE ConstantsTyped

\* Tables hold a row, or the absence of one, for each key; the trigger has a
\* place for the job of every active record.
Tables ==
  /\ record \in [Records -> RecordRow]
  /\ \A r \in Records : record[r].status = "active" =>
                          record[r].revision \in 1..MaxRevision
  /\ projection = [j \in Jobs |-> projection[j]]
  /\ job = [j \in Jobs |-> job[j]]
  /\ spent = [j \in Jobs |-> spent[j]]
  /\ retries \subseteq Jobs /\ requeues \in 0..MaxRequeues

\* What a worker holds is the text of the revision it claimed.
WorkersInv ==
  /\ held \in [Workers -> SUBSET Claims]
  /\ call \in [Workers -> Calls \cup {NoCall}]
  /\ \A w \in Workers :
       /\ \A c \in held[w] : c.text = c.job[2]
       /\ call[w] # NoCall => call[w].claim.text = call[w].claim.job[2]

\* The row of a job, together with its projection: they come and go together
\* (the foreign key), the attempts column counts the claims since the last
\* explicit requeue, and a job a requeue has locked stays as it was selected.
RowOfJob(j) ==
  /\ job[j] \in JobRow /\ projection[j] \in ProjectionRow
  /\ job[j].token # NoToken <=> job[j].status = "processing"
  /\ spent[j] = job[j].attempts
  /\ projection[j].status = "indexed" => projection[j].vector = j[2]
  /\ job[j].status = "processing" => record[j[1]].status # "closed"
  /\ j \in retries => job[j].status = "failed" \/ Expired(j)

\* A job without a row was never claimed, or its record was purged.
NoRowOfJob(j) ==
  /\ job[j] = NoJob /\ projection[j] = NoProjection /\ j \notin retries
  /\ \/ spent[j] = 0
     \/ record[j[1]].status = "purged" /\ spent[j] \in 0..MaxAttempts

JobInv(j) == RowOfJob(j) \/ NoRowOfJob(j)

IInv == Tables /\ WorkersInv /\ \A j \in Jobs : JobInv(j)

----------------------------------------------------------------------------
(* Rows *)

\* A key names a record and a revision.
LEMMA Keys ==
  ASSUME NEW j \in Jobs
  PROVE  j[1] \in Records /\ j[2] \in 1..MaxRevision /\ j = <<j[1], j[2]>>
BY DEF Jobs

\* A row is told apart from the absence of one by its status.
LEMMA RowsExist ==
  ASSUME NEW j \in Jobs, JobInv(j)
  PROVE  /\ job[j] = NoJob <=> NoRowOfJob(j)
         /\ job[j].status = "none" <=> NoRowOfJob(j)
         /\ projection[j] = NoProjection <=> NoRowOfJob(j)
BY DEF JobInv, RowOfJob, NoRowOfJob, JobRow, ProjectionRow, NoJob, NoProjection

\* A job whose claim has ended is a row without a claim.
LEMMA UnclaimedRow ==
  ASSUME NEW row \in JobRow,
         NEW status \in {"pending", "completed", "failed", "cancelled"}
  PROVE  /\ Unclaimed(row, status) \in JobRow
         /\ Unclaimed(row, status).status = status
         /\ Unclaimed(row, status).attempts = row.attempts
         /\ Unclaimed(row, status).token = NoToken
BY DEF Unclaimed, JobRow

\* A new job is a row that waits for its first claim.
LEMMA NewRows == NewJob \in JobRow /\ NewProjection \in ProjectionRow
BY DEF NewJob, NewProjection, JobRow, ProjectionRow, NoVector

\* A projection keeps its vector when its status changes.
LEMMA StatusSet ==
  ASSUME NEW row \in ProjectionRow,
         NEW status \in {"pending", "failed", "deleted"}
  PROVE  /\ [row EXCEPT !.status = status] \in ProjectionRow
         /\ [row EXCEPT !.status = status].status = status
BY DEF ProjectionRow

\* A token nobody remembers can be drawn where a claim asks for one.
LEMMA TokenDrawn ==
  ASSUME NEW j \in Jobs, ~(Tokens \subseteq Remembered(j))
  PROVE  NewToken(j) \in Tokens
<1>1. \E t \in Tokens : t \notin Remembered(j)
  OBVIOUS
<1> QED
  BY <1>1 DEF NewToken

\* The invariant says what the properties ask for.
LEMMA Implied ==
  ASSUME IInv
  PROVE  /\ TypeOK /\ BudgetRespected
         /\ VectorOfItsRevision /\ ClosedNotProcessing
<1>1. ASSUME NEW j \in Jobs
      PROVE  /\ projection[j] \in ProjectionRow \cup {NoProjection}
             /\ job[j] \in JobRow \cup {NoJob}
             /\ job[j] # NoJob => ((job[j].token # NoToken)
                                     <=> (job[j].status = "processing"))
             /\ spent[j] \in 0..MaxAttempts
             /\ projection[j].status = "indexed" => projection[j].vector = j[2]
             /\ record[j[1]].status = "closed" => job[j].status # "processing"
  <2>1. CASE RowOfJob(j)
    BY <2>1 DEF RowOfJob, JobRow
  <2>2. CASE NoRowOfJob(j)
    BY <2>2 DEF NoRowOfJob, NoJob, NoProjection
  <2> QED
    BY <2>1, <2>2 DEF IInv, JobInv
<1>2. TypeOK
  BY <1>1 DEF IInv, Tables, WorkersInv, TypeOK
<1> QED
  BY <1>1, <1>2 DEF BudgetRespected, VectorOfItsRevision, ClosedNotProcessing

----------------------------------------------------------------------------
(* Initial states *)

\* There is nothing at first.
LEMMA InitInv == Init => IInv
<1> SUFFICES ASSUME Init PROVE IInv
  OBVIOUS
<1>1. Tables
  BY DEF Init, Tables, RecordRow
<1>2. WorkersInv
  BY DEF Init, WorkersInv
<1>3. \A j \in Jobs : NoRowOfJob(j)
  BY DEF Init, NoRowOfJob
<1> QED
  BY <1>1, <1>2, <1>3 DEF IInv, JobInv

----------------------------------------------------------------------------
(* Changes of records *)

\* A new record row leaves the rest of the job's condition alone.
LEMMA SameRows ==
  ASSUME NEW j \in Jobs, JobInv(j), UNCHANGED retries,
         job'[j] = job[j], projection'[j] = projection[j],
         spent'[j] = spent[j],
         record[j[1]].status = "purged" => record'[j[1]].status = "purged",
         record'[j[1]].status = "closed" =>
           record[j[1]].status = "closed" \/ job[j].status # "processing"
  PROVE  JobInv(j)'
BY DEF JobInv, RowOfJob, NoRowOfJob, Expired

\* What the trigger leaves of the job of a record that is closed or past.
LEMMA ClosedRows ==
  ASSUME NEW j \in Jobs, JobInv(j), UNCHANGED <<retries, spent>>,
         record[j[1]].status # "purged",
         job'[j] = Cancelled(job[j]), projection'[j] = Deleted(projection[j]),
         j \in retries => job'[j] = job[j]
  PROVE  JobInv(j)'
<1>1. CASE NoRowOfJob(j)
  <2>1. job'[j] = job[j] /\ projection'[j] = projection[j]
    BY <1>1 DEF NoRowOfJob, Cancelled, Deleted, NoJob
  <2> QED
    BY <1>1, <2>1 DEF NoRowOfJob, JobInv
<1>2. CASE RowOfJob(j)
  <2>1. job[j] \in JobRow /\ projection[j] # NoProjection
    BY <1>2 DEF RowOfJob, ProjectionRow, NoProjection
  <2>2. /\ job'[j] \in JobRow /\ job'[j].attempts = job[j].attempts
        /\ job'[j].status # "processing" /\ job'[j].token = NoToken
    BY <1>2, <2>1, UnclaimedRow DEF Cancelled, RowOfJob
  <2>3. projection'[j] \in ProjectionRow /\ projection'[j].status = "deleted"
    BY <2>1 DEF Deleted, ProjectionRow, NoVector
  <2>4. j \in retries => job'[j].status = "failed"
    <3>1. j \in retries => job[j].status = "failed" \/ Expired(j)
      BY <1>2 DEF RowOfJob
    <3> QED
      BY <2>2, <3>1 DEF Expired
  <2> QED
    BY <1>2, <2>2, <2>3, <2>4 DEF JobInv, RowOfJob
<1> QED
  BY <1>1, <1>2 DEF JobInv

\* A write of a record by the workflow keeps the invariant.
LEMMA WriteInv ==
  ASSUME IInv, NEW r \in Records, NEW row \in RecordRow,
         row.status \in {"active", "closed"},
         row.status = "active" => row.revision \in 1..MaxRevision,
         record[r].status \in {"absent", "active"}, Write(r, row)
  PROVE  IInv'
<1>1. /\ record' = [record EXCEPT ![r] = row]
      /\ UNCHANGED <<held, call, retries, requeues, spent>>
      /\ EnqueueRecordEmbedding(r, row)
  BY DEF Write, workers, operator
<1>2. /\ record' \in [Records -> RecordRow] /\ record'[r] = row
      /\ \A q \in Records \ {r} : record'[q] = record[q]
  BY <1>1 DEF IInv, Tables
<1>3. Tables'
  <2>1. /\ projection' = [j \in Jobs |-> projection'[j]]
        /\ job' = [j \in Jobs |-> job'[j]]
    BY <1>1 DEF EnqueueRecordEmbedding, IInv, Tables
  <2> QED
    BY <1>1, <1>2, <2>1 DEF IInv, Tables
<1>4. WorkersInv'
  BY <1>1 DEF IInv, WorkersInv
<1>5. ASSUME NEW j \in Jobs
      PROVE  JobInv(j)'
  <2>1. JobInv(j) /\ j[1] \in Records
    BY Keys DEF IInv
  <2>2. CASE j[1] # r
    <3>1. job'[j] = job[j] /\ projection'[j] = projection[j]
      BY <1>1, <2>2 DEF EnqueueRecordEmbedding, IInv, Tables
    <3> QED
      BY <1>1, <1>2, <2>1, <2>2, <3>1, SameRows
  <2>3. CASE j[1] = r /\ (row.status # "active" \/ row.window = "past")
    <3>1. /\ \A k \in retries \cap JobsOf(r) : Cancelled(job[k]) = job[k]
          /\ job'[j] = Cancelled(job[j])
          /\ projection'[j] = Deleted(projection[j])
      BY <1>1, <2>3 DEF EnqueueRecordEmbedding
    <3>2. j \in retries => job'[j] = job[j]
      BY <2>3, <3>1 DEF JobsOf
    <3> QED
      BY <1>1, <2>1, <2>3, <3>1, <3>2, ClosedRows
  <2>4. CASE j[1] = r /\ row.status = "active" /\ row.window # "past"
    <3> DEFINE new == <<r, row.revision>>
    <3>1. /\ projection' = [projection EXCEPT ![new] =
                            IF @ = NoProjection THEN NewProjection ELSE @]
          /\ job' = [job EXCEPT ![new] = IF @ = NoJob THEN NewJob ELSE @]
      BY <1>1, <2>4 DEF EnqueueRecordEmbedding
    <3> HIDE DEF new
    <3>2. \/ job'[j] = job[j] /\ projection'[j] = projection[j]
          \/ /\ NoRowOfJob(j) /\ job'[j] = NewJob
             /\ projection'[j] = NewProjection
      BY <2>1, <3>1, RowsExist DEF IInv, Tables
    <3>3. CASE job'[j] = job[j] /\ projection'[j] = projection[j]
      BY <1>1, <1>2, <2>1, <2>4, <3>3, SameRows
    <3>4. CASE /\ NoRowOfJob(j) /\ job'[j] = NewJob
               /\ projection'[j] = NewProjection
      <4>1. spent[j] = 0 /\ j \notin retries
        BY <2>4, <3>4 DEF NoRowOfJob
      <4> QED
        BY <1>1, <3>4, <4>1, NewRows
        DEF NewJob, NewProjection, RowOfJob, JobInv
    <3> QED
      BY <3>2, <3>3, <3>4
  <2> QED
    BY <2>2, <2>3, <2>4
<1> QED
  BY <1>3, <1>4, <1>5 DEF IInv

\* Every change of a record keeps the invariant.
LEMMA CanonicalInv ==
  ASSUME IInv, CanonicalStep
  PROVE  IInv'
<1> PICK r \in Records :
      \/ CreateRecord(r) \/ UpdateRecord(r) \/ DeleteRecord(r)
      \/ ExpireRecord(r) \/ PurgeRecord(r) \/ PassWindow(r)
  BY DEF CanonicalStep
<1>1. /\ record \in [Records -> RecordRow] /\ record[r] \in RecordRow
      /\ record[r].status = "active" => record[r].revision \in 1..MaxRevision
  BY DEF IInv, Tables
<1>2. CASE CreateRecord(r)
  <2> PICK window \in {"future", "open"} :
        Write(r, [status |-> "active", revision |-> 1, window |-> window])
    BY <1>2 DEF CreateRecord
  <2> DEFINE row == [status |-> "active", revision |-> 1, window |-> window]
  <2>1. row \in RecordRow
    BY DEF RecordRow
  <2> QED
    BY <1>2, <2>1, WriteInv DEF CreateRecord
<1>3. CASE UpdateRecord(r)
  <2> DEFINE row == [record[r] EXCEPT !.revision = @ + 1]
  <2>1. /\ row \in RecordRow /\ row.status = "active"
        /\ row.revision \in 1..MaxRevision
    BY <1>1, <1>3 DEF UpdateRecord, RecordRow
  <2> QED
    BY <1>3, <2>1, WriteInv DEF UpdateRecord
<1>4. CASE DeleteRecord(r)
  <2> DEFINE row == [status |-> "closed", revision |-> record[r].revision + 1,
                     window |-> record[r].window]
  <2>1. row \in RecordRow /\ row.status = "closed"
    BY <1>1, <1>4 DEF DeleteRecord, RecordRow
  <2> QED
    BY <1>4, <2>1, WriteInv DEF DeleteRecord
<1>5. CASE ExpireRecord(r)
  <2> DEFINE row == [record[r] EXCEPT !.status = "closed"]
  <2>1. row \in RecordRow /\ row.status = "closed"
    BY <1>1, <1>5 DEF ExpireRecord, RecordRow
  <2> QED
    BY <1>5, <2>1, WriteInv DEF ExpireRecord
<1>6. CASE PurgeRecord(r)
  <2>1. /\ record' = [record EXCEPT ![r].status = "purged"]
        /\ projection' = [j \in Jobs |-> IF j[1] = r THEN NoProjection
                                         ELSE projection[j]]
        /\ job' = [j \in Jobs |-> IF j[1] = r THEN NoJob ELSE job[j]]
        /\ retries \cap JobsOf(r) = {}
        /\ UNCHANGED <<held, call, retries, requeues, spent>>
    BY <1>6 DEF PurgeRecord, workers, operator
  <2>2. /\ record' \in [Records -> RecordRow] /\ record'[r].status = "purged"
        /\ \A q \in Records \ {r} : record'[q] = record[q]
    BY <1>1, <2>1 DEF RecordRow
  <2>3. Tables'
    BY <2>1, <2>2 DEF IInv, Tables
  <2>4. WorkersInv'
    BY <2>1 DEF IInv, WorkersInv
  <2>5. ASSUME NEW j \in Jobs
        PROVE  JobInv(j)'
    <3>1. JobInv(j) /\ j[1] \in Records
      BY Keys DEF IInv
    <3>2. CASE j[1] # r
      BY <2>1, <2>2, <3>1, <3>2, SameRows
    <3>3. CASE j[1] = r
      <4>1. job'[j] = NoJob /\ projection'[j] = NoProjection /\ j \notin retries'
        BY <2>1, <3>3 DEF JobsOf
      <4>2. spent'[j] \in 0..MaxAttempts
        BY <2>1, <3>1 DEF JobInv, RowOfJob, NoRowOfJob, JobRow
      <4> QED
        BY <2>2, <3>3, <4>1, <4>2 DEF JobInv, NoRowOfJob
    <3> QED
      BY <3>2, <3>3
  <2> QED
    BY <2>3, <2>4, <2>5 DEF IInv
<1>7. CASE PassWindow(r)
  <2>1. /\ record' = [record EXCEPT ![r].window =
                        IF @ = "future" THEN "open" ELSE "past"]
        /\ UNCHANGED <<projection, job, held, call, retries, requeues, spent>>
    BY <1>7 DEF PassWindow, workers, operator
  <2>2. /\ record' \in [Records -> RecordRow]
        /\ \A q \in Records : /\ record'[q].status = record[q].status
                              /\ record'[q].revision = record[q].revision
    BY <1>1, <2>1 DEF RecordRow
  <2>3. Tables'
    BY <2>1, <2>2 DEF IInv, Tables
  <2>4. WorkersInv'
    BY <2>1 DEF IInv, WorkersInv
  <2>5. ASSUME NEW j \in Jobs
        PROVE  JobInv(j)'
    BY <2>1, <2>2, SameRows, Keys DEF IInv
  <2> QED
    BY <2>3, <2>4, <2>5 DEF IInv
<1> QED
  BY <1>2, <1>3, <1>4, <1>5, <1>6, <1>7

----------------------------------------------------------------------------
(* Time and workers *)

\* Time brings leases closer to their end and changes nothing else.
LEMMA TickInv ==
  ASSUME IInv, Tick
  PROVE  IInv'
<1>1. /\ job' = [j \in Jobs |->
                   IF job[j].status = "processing" /\ job[j].lease > 0
                   THEN [job[j] EXCEPT !.lease = @ - 1] ELSE job[j]]
      /\ UNCHANGED <<record, projection, held, call, retries, requeues, spent>>
  BY DEF Tick, workers, operator
<1>2. Tables' /\ WorkersInv'
  BY <1>1 DEF IInv, Tables, WorkersInv
<1>3. ASSUME NEW j \in Jobs
      PROVE  JobInv(j)'
  <2>1. CASE job[j].status = "processing" /\ job[j].lease > 0
    <3>1. RowOfJob(j)
      BY <2>1 DEF IInv, JobInv, NoRowOfJob, NoJob
    <3>2. /\ job'[j] \in JobRow /\ job'[j].status = "processing"
          /\ job'[j].attempts = job[j].attempts
          /\ job'[j].token = job[j].token
      BY <1>1, <2>1, <3>1 DEF RowOfJob, JobRow
    <3>3. j \notin retries
      BY <2>1, <3>1 DEF RowOfJob, Expired
    <3> QED
      BY <1>1, <2>1, <3>1, <3>2, <3>3 DEF JobInv, RowOfJob
  <2>2. CASE ~(job[j].status = "processing" /\ job[j].lease > 0)
    <3>1. job'[j] = job[j]
      BY <1>1, <2>2
    <3> QED
      BY <1>1, <3>1, SameRows DEF IInv
  <2> QED
    BY <2>1, <2>2
<1> QED
  BY <1>2, <1>3 DEF IInv

\* Recovery ends an expired claim and keeps its attempts.
LEMMA RecoveredRow ==
  ASSUME NEW row \in JobRow
  PROVE  /\ Recovered(row) \in JobRow
         /\ Recovered(row).status \in {"pending", "failed"}
         /\ Recovered(row).attempts = row.attempts
         /\ Recovered(row).token = NoToken
BY UnclaimedRow DEF Recovered

\* The row of a job after a call of pending_embedding_jobs has recovered it.
LEMMA AfterRecoveryRow ==
  ASSUME NEW j \in Jobs, RowOfJob(j)
  PROVE  /\ AfterRecovery(j) \in JobRow
         /\ AfterRecovery(j).attempts = job[j].attempts
         /\ Expired(j) => /\ AfterRecovery(j).status \in {"pending", "failed"}
                          /\ AfterRecovery(j).token = NoToken
         /\ ~Expired(j) => AfterRecovery(j) = job[j]
BY RecoveredRow DEF AfterRecovery, RowOfJob

\* Recovering and claiming keep the invariant.
LEMMA ClaimInv ==
  ASSUME IInv, NEW w \in Workers, PendingEmbeddingJobs(w)
  PROVE  IInv'
<1> PICK batch \in Batches(Claimable) :
      /\ job' = [j \in Jobs |-> IF j \in batch
                                THEN Claimed(j, AfterRecovery(j))
                                ELSE AfterRecovery(j)]
      /\ held' = [held EXCEPT ![w] =
                    {[job |-> j, token |-> NewToken(j),
                      text |-> record[j[1]].revision] : j \in batch}]
      /\ spent' = [j \in Jobs |-> IF j \in batch THEN spent[j] + 1
                                  ELSE spent[j]]
  BY DEF PendingEmbeddingJobs
<1>1. /\ projection' = [j \in Jobs |->
           IF Expired(j)
           THEN [projection[j] EXCEPT !.status = AfterRecovery(j).status]
           ELSE projection[j]]
      /\ UNCHANGED <<record, call, retries, requeues>>
      /\ \A j \in retries : ~Expired(j)
  BY DEF PendingEmbeddingJobs
<1>2. ASSUME NEW j \in batch
      PROVE  /\ j \in Jobs /\ j \notin retries /\ Current(j)
             /\ AfterRecovery(j).status = "pending"
             /\ AfterRecovery(j).attempts < MaxAttempts
             /\ NewToken(j) \in Tokens
  <2>1. /\ j \in Jobs \ retries /\ Current(j)
        /\ AfterRecovery(j).status = "pending"
        /\ AfterRecovery(j).attempts < MaxAttempts
        /\ ~(Tokens \subseteq Remembered(j))
    BY DEF Batches, Claimable
  <2> QED
    BY <2>1, TokenDrawn
<1>3. Tables'
  BY <1>1 DEF IInv, Tables
<1>4. WorkersInv'
  <2>1. ASSUME NEW j \in batch
        PROVE  /\ [job |-> j, token |-> NewToken(j),
                   text |-> record[j[1]].revision] \in Claims
               /\ record[j[1]].revision = j[2]
    BY <1>2, Keys DEF Claims, Current
  <2>2. held'[w] \subseteq Claims /\ \A c \in held'[w] : c.text = c.job[2]
    BY <2>1 DEF IInv, WorkersInv
  <2>3. held' \in [Workers -> SUBSET Claims]
    BY <2>2 DEF IInv, WorkersInv
  <2>4. \A v \in Workers : v # w => held'[v] = held[v]
    BY DEF IInv, WorkersInv
  <2> QED
    BY <1>1, <2>2, <2>3, <2>4 DEF IInv, WorkersInv
<1>5. ASSUME NEW j \in Jobs
      PROVE  JobInv(j)'
  <2>1. CASE NoRowOfJob(j)
    <3>1. ~Expired(j) /\ AfterRecovery(j) = job[j]
      BY <2>1 DEF NoRowOfJob, NoJob, Expired, AfterRecovery
    <3>2. j \notin batch
      BY <1>2, <2>1, <3>1 DEF NoRowOfJob, NoJob
    <3> QED
      BY <1>1, <2>1, <3>1, <3>2 DEF JobInv, NoRowOfJob
  <2>2. CASE RowOfJob(j)
    <3>1. /\ job[j] \in JobRow /\ projection[j] \in ProjectionRow
          /\ spent[j] = job[j].attempts
      BY <2>2 DEF RowOfJob
    <3>2. /\ projection'[j] \in ProjectionRow
          /\ projection'[j].status = "indexed" => projection'[j].vector = j[2]
      <4>1. CASE Expired(j)
        BY <1>1, <2>2, <3>1, <4>1, AfterRecoveryRow, StatusSet
      <4>2. CASE ~Expired(j)
        BY <1>1, <2>2, <4>2 DEF RowOfJob
      <4> QED
        BY <4>1, <4>2
    <3>3. CASE j \in batch
      <4>1. /\ record'[j[1]].status = "active" /\ j \notin retries'
            /\ AfterRecovery(j) \in JobRow
            /\ AfterRecovery(j).attempts = job[j].attempts
            /\ AfterRecovery(j).attempts < MaxAttempts
            /\ NewToken(j) \in Tokens
        BY <1>1, <1>2, <2>2, <3>3, AfterRecoveryRow DEF Current
      <4>2. job'[j] = Claimed(j, AfterRecovery(j)) /\ spent'[j] = spent[j] + 1
        BY <3>3
      <4>3. /\ job'[j] \in JobRow /\ job'[j].status = "processing"
            /\ job'[j].attempts = job[j].attempts + 1
            /\ job'[j].token \in Tokens
        BY <4>1, <4>2 DEF Claimed, JobRow
      <4> QED
        BY <3>1, <3>2, <4>1, <4>2, <4>3 DEF JobInv, RowOfJob
    <3>4. CASE j \notin batch /\ Expired(j)
      <4>1. job'[j] = AfterRecovery(j) /\ spent'[j] = spent[j]
        BY <3>4
      <4>2. j \notin retries'
        BY <1>1, <3>4
      <4> QED
        BY <2>2, <3>1, <3>2, <3>4, <4>1, <4>2, AfterRecoveryRow
        DEF JobInv, RowOfJob
    <3>5. CASE j \notin batch /\ ~Expired(j)
      <4>1. /\ job'[j] = job[j] /\ spent'[j] = spent[j]
            /\ projection'[j] = projection[j]
        BY <1>1, <2>2, <3>5, AfterRecoveryRow
      <4> QED
        BY <1>1, <2>2, <4>1, SameRows DEF JobInv
    <3> QED
      BY <3>3, <3>4, <3>5
  <2> QED
    BY <2>1, <2>2 DEF IInv, JobInv
<1> QED
  BY <1>3, <1>4, <1>5 DEF IInv

\* Only workers change: they drop claims, or send one they hold.
LEMMA WorkersOnly ==
  ASSUME IInv, WorkersInv', UNCHANGED <<record, projection, job, operator>>
  PROVE  IInv'
<1>1. Tables'
  BY DEF IInv, Tables, operator
<1>2. \A j \in Jobs : JobInv(j)'
  BY SameRows DEF IInv, operator
<1> QED
  BY <1>1, <1>2 DEF IInv

\* Sending an answer keeps the invariant.
LEMMA AnswerInv ==
  ASSUME IInv, NEW w \in Workers, Answer(w)
  PROVE  IInv'
<1> PICK c \in held[w], answer \in {"complete", "fail"} :
      /\ held' = [held EXCEPT ![w] = @ \ {c}]
      /\ call' = [call EXCEPT ![w] =
                    [answer |-> answer, claim |-> c, seen |-> HoldsClaim(c)]]
      /\ UNCHANGED <<record, projection, job, operator>>
  BY DEF Answer
<1> DEFINE new == [answer |-> answer, claim |-> c, seen |-> HoldsClaim(c)]
<1>1. c \in Claims /\ c.text = c.job[2]
  BY DEF IInv, WorkersInv
<1>2. HoldsClaim(c) \in BOOLEAN
  BY DEF HoldsClaim
<1>3. new \in Calls /\ new.claim = c
  BY <1>1, <1>2 DEF Calls
<1> HIDE DEF new
<1>4. /\ call' = [call EXCEPT ![w] = new]
      /\ held' = [held EXCEPT ![w] = @ \ {c}]
  BY DEF new
<1>5. /\ held' \in [Workers -> SUBSET Claims]
      /\ call' \in [Workers -> Calls \cup {NoCall}]
  BY <1>3, <1>4 DEF IInv, WorkersInv
<1>6. ASSUME NEW v \in Workers
      PROVE  /\ \A d \in held'[v] : d.text = d.job[2]
             /\ call'[v] # NoCall => call'[v].claim.text = call'[v].claim.job[2]
  BY <1>1, <1>3, <1>4 DEF IInv, WorkersInv
<1> QED
  BY <1>5, <1>6, WorkersOnly DEF WorkersInv

\* A crash keeps the invariant.
LEMMA CrashInv ==
  ASSUME IInv, NEW w \in Workers, Crash(w)
  PROVE  IInv'
<1>1. WorkersInv'
  BY DEF Crash, IInv, WorkersInv
<1> QED
  BY <1>1, WorkersOnly DEF Crash

\* Storing an answer keeps the invariant.
LEMMA StoreInv ==
  ASSUME IInv, NEW w \in Workers, Store(w)
  PROVE  IInv'
<1> DEFINE c == call[w].claim
           answer == call[w].answer
           stored == call[w].seen /\ projection[c.job] # NoProjection
           settled == HoldsClaim(c) /\ (stored \/ answer = "fail")
<1>1. call[w] \in Calls /\ c \in Claims /\ c.job \in Jobs /\ c.text = c.job[2]
  BY DEF Store, IInv, WorkersInv, Calls, Claims
<1>2. /\ settled => c.job \notin retries
      /\ projection' = IF stored THEN [projection EXCEPT ![c.job] = Stored(c, answer)]
                       ELSE projection
      /\ job' = IF settled THEN [job EXCEPT ![c.job] = Settled(c, answer)]
                ELSE job
      /\ call' = [call EXCEPT ![w] = NoCall]
      /\ UNCHANGED <<record, held, retries, requeues, spent>>
  BY DEF Store, operator
<1> HIDE DEF c, answer, stored, settled
<1>3. Tables'
  BY <1>2 DEF IInv, Tables
<1>4. WorkersInv'
  BY <1>2 DEF IInv, WorkersInv
<1>5. ASSUME NEW j \in Jobs
      PROVE  JobInv(j)'
  <2>1. CASE j # c.job \/ NoRowOfJob(j)
    <3>1. job'[j] = job[j] /\ projection'[j] = projection[j]
      <4>1. CASE j # c.job
        BY <1>1, <1>2, <4>1 DEF IInv, Tables
      <4>2. CASE j = c.job /\ NoRowOfJob(j)
        <5>1. ~stored /\ ~settled
          BY <4>2 DEF NoRowOfJob, stored, settled, HoldsClaim, NoJob
        <5> QED
          BY <1>2, <5>1
      <4> QED
        BY <2>1, <4>1, <4>2
    <3> QED
      BY <1>2, <3>1, SameRows DEF IInv
  <2>2. CASE j = c.job /\ RowOfJob(j)
    <3>1. /\ projection'[j] \in ProjectionRow
          /\ projection'[j].status = "indexed" => projection'[j].vector = j[2]
      <4>1. CASE stored /\ answer = "complete"
        <5>1. projection'[j] = [status |-> "indexed", vector |-> c.text]
          BY <1>1, <1>2, <2>2, <4>1 DEF Stored, IInv, Tables
        <5> QED
          BY <1>1, <2>2, <5>1, Keys DEF ProjectionRow
      <4>2. CASE stored /\ answer # "complete"
        <5>1. projection'[j] = [projection[j] EXCEPT !.status = "failed"]
          BY <1>1, <1>2, <2>2, <4>2 DEF Stored, IInv, Tables
        <5> QED
          BY <2>2, <5>1, StatusSet DEF RowOfJob
      <4>3. CASE ~stored
        BY <1>2, <2>2, <4>3 DEF RowOfJob
      <4> QED
        BY <4>1, <4>2, <4>3
    <3>2. CASE settled
      <4>1. job'[j] = Settled(c, answer) /\ j \notin retries'
        BY <1>1, <1>2, <2>2, <3>2 DEF IInv, Tables
      <4>2. /\ job'[j] \in JobRow /\ job'[j].attempts = job[j].attempts
            /\ job'[j].status # "processing" /\ job'[j].token = NoToken
        BY <2>2, <4>1, UnclaimedRow DEF Settled, RowOfJob
      <4> QED
        BY <1>2, <2>2, <3>1, <4>1, <4>2 DEF JobInv, RowOfJob
    <3>3. CASE ~settled
      <4>1. job'[j] = job[j]
        BY <1>2, <3>3
      <4> QED
        BY <1>2, <2>2, <3>1, <4>1 DEF JobInv, RowOfJob, Expired
    <3> QED
      BY <3>2, <3>3
  <2> QED
    BY <2>1, <2>2 DEF IInv, JobInv
<1> QED
  BY <1>3, <1>4, <1>5 DEF IInv

----------------------------------------------------------------------------
(* Requeues *)

\* Selecting jobs to requeue keeps the invariant.
LEMMA SelectInv ==
  ASSUME IInv, SelectRetries
  PROVE  IInv'
<1>1. /\ \A j \in retries' :
           j \in Jobs /\ (job[j].status = "failed" \/ Expired(j))
      /\ requeues < MaxRequeues /\ requeues' = requeues + 1
      /\ UNCHANGED <<record, projection, job, held, call, spent>>
  BY DEF SelectRetries, Batches, workers
<1>2. Tables'
  <2>1. requeues' \in 0..MaxRequeues
    BY <1>1 DEF IInv, Tables
  <2>2. retries' \subseteq Jobs
    BY <1>1
  <2> QED
    BY <1>1, <2>1, <2>2 DEF IInv, Tables
<1>3. WorkersInv'
  BY <1>1 DEF IInv, WorkersInv
<1>4. ASSUME NEW j \in Jobs
      PROVE  JobInv(j)'
  BY <1>1 DEF IInv, JobInv, RowOfJob, NoRowOfJob, Expired, NoJob
<1> QED
  BY <1>2, <1>3, <1>4 DEF IInv

\* Requeueing the selected jobs keeps the invariant.
LEMMA RequeueInv ==
  ASSUME IInv, RequeueRetries
  PROVE  IInv'
<1>1. /\ job' = [j \in Jobs |-> IF j \in retries THEN Requeued(job[j])
                                ELSE job[j]]
      /\ projection' = [j \in Jobs |->
           IF j \in retries
           THEN [projection[j] EXCEPT !.status = Requeued(job[j]).status]
           ELSE projection[j]]
      /\ spent' = [j \in Jobs |->
           IF j \in retries /\ job[j].status = "failed" THEN 0 ELSE spent[j]]
      /\ retries' = {}
      /\ UNCHANGED <<record, held, call, requeues>>
  BY DEF RequeueRetries, workers
<1>2. Tables' /\ WorkersInv'
  BY <1>1 DEF IInv, Tables, WorkersInv
<1>3. ASSUME NEW j \in Jobs
      PROVE  JobInv(j)'
  <2>1. JobInv(j)
    BY DEF IInv
  <2>2. CASE j \notin retries
    <3>1. /\ job'[j] = job[j] /\ projection'[j] = projection[j]
          /\ spent'[j] = spent[j]
      BY <1>1, <2>2
    <3> QED
      BY <1>1, <2>1, <3>1 DEF JobInv, RowOfJob, NoRowOfJob
  <2>3. CASE j \in retries
    <3>1. RowOfJob(j)
      BY <2>1, <2>3 DEF JobInv, NoRowOfJob
    <3>2. /\ Requeued(job[j]) \in JobRow
          /\ Requeued(job[j]).status \in {"pending", "failed"}
          /\ Requeued(job[j]).token = NoToken
          /\ Requeued(job[j]).attempts =
               IF job[j].status = "failed" THEN 0 ELSE job[j].attempts
      BY <3>1, NewRows, RecoveredRow DEF Requeued, NewJob, RowOfJob
    <3>3. /\ projection'[j] \in ProjectionRow
          /\ projection'[j].status # "indexed"
      BY <1>1, <2>3, <3>1, <3>2, StatusSet DEF RowOfJob
    <3> QED
      BY <1>1, <2>3, <3>1, <3>2, <3>3 DEF JobInv, RowOfJob
  <2> QED
    BY <2>2, <2>3
<1> QED
  BY <1>2, <1>3 DEF IInv

\* Giving up a requeue keeps the invariant.
LEMMA AbortInv ==
  ASSUME IInv, AbortRequeue
  PROVE  IInv'
<1>1. /\ retries' = {}
      /\ UNCHANGED <<record, projection, job, held, call, requeues, spent>>
  BY DEF AbortRequeue, workers
<1>2. Tables' /\ WorkersInv'
  BY <1>1 DEF IInv, Tables, WorkersInv
<1>3. \A j \in Jobs : JobInv(j)'
  BY <1>1 DEF IInv, JobInv, RowOfJob, NoRowOfJob
<1> QED
  BY <1>2, <1>3 DEF IInv

----------------------------------------------------------------------------
(* Theorems *)

\* The invariant is inductive.
LEMMA NextInv == IInv /\ [Next]_vars => IInv'
<1> SUFFICES ASSUME IInv, [Next]_vars PROVE IInv'
  OBVIOUS
<1>1. CASE CanonicalStep
  BY <1>1, CanonicalInv
<1>2. CASE Tick
  BY <1>2, TickInv
<1>3. ASSUME NEW w \in Workers, PendingEmbeddingJobs(w)
      PROVE  IInv'
  BY <1>3, ClaimInv
<1>4. ASSUME NEW w \in Workers, Answer(w)
      PROVE  IInv'
  BY <1>4, AnswerInv
<1>5. ASSUME NEW w \in Workers, Store(w)
      PROVE  IInv'
  BY <1>5, StoreInv
<1>6. ASSUME NEW w \in Workers, Crash(w)
      PROVE  IInv'
  BY <1>6, CrashInv
<1>7. CASE SelectRetries
  BY <1>7, SelectInv
<1>8. CASE RequeueRetries
  BY <1>8, RequeueInv
<1>9. CASE AbortRequeue
  BY <1>9, AbortInv
<1>10. CASE UNCHANGED vars
  <2>1. /\ Tables' /\ WorkersInv'
    BY <1>10 DEF IInv, Tables, WorkersInv, vars
  <2>2. \A j \in Jobs : JobInv(j)'
    BY <1>10, SameRows DEF IInv, vars
  <2> QED
    BY <2>1, <2>2 DEF IInv
<1> QED
  BY <1>1, <1>2, <1>3, <1>4, <1>5, <1>6, <1>7, <1>8, <1>9, <1>10 DEF Next

\* The invariant holds throughout.
LEMMA Invariance == Spec => []IInv
BY InitInv, NextInv, PTL DEF Spec

\* Jobs, projections, claims and answers are always well formed, and a claim
\* token is on a row exactly while its claim is.
THEOREM LeasesTyped == Spec => []TypeOK
BY Invariance, Implied, PTL

\* No mixture of failures, crashes, recoveries and requeues makes a job be
\* tried more often than max_attempts between two explicit requeues.
THEOREM BudgetKept == Spec => []BudgetRespected
BY Invariance, Implied, PTL

\* A vector is stored only under the revision whose text it was made from.
THEOREM VectorsMatch == Spec => []VectorOfItsRevision
BY Invariance, Implied, PTL

\* No claim on a job survives the end of its record.
THEOREM ClosedForWorkers == Spec => []ClosedNotProcessing
BY Invariance, Implied, PTL

----------------------------------------------------------------------------
(* Leases *)

\* Whoever changes a job by way of its record changes the record.
LEMMA CanonicalChange ==
  ASSUME IInv, CanonicalStep, NEW j \in Jobs
  PROVE  job'[j] = job[j] \/ record'[j[1]] # record[j[1]]
<1> PICK r \in Records :
      \/ CreateRecord(r) \/ UpdateRecord(r) \/ DeleteRecord(r)
      \/ ExpireRecord(r) \/ PurgeRecord(r) \/ PassWindow(r)
  BY DEF CanonicalStep
<1>1. record \in [Records -> RecordRow] /\ record[r] \in RecordRow
  BY DEF IInv, Tables
<1>2. j[1] # r => job'[j] = job[j]
  BY DEF CreateRecord, UpdateRecord, DeleteRecord, ExpireRecord, PurgeRecord,
         PassWindow, Write, EnqueueRecordEmbedding, IInv, Tables
<1>3. record'[r] # record[r] \/ job' = job
  BY <1>1 DEF CreateRecord, UpdateRecord, DeleteRecord, ExpireRecord,
              PurgeRecord, PassWindow, Write, RecordRow
<1> QED
  BY <1>2, <1>3

\* A step ends a claim whose lease runs only by an answer of its holder or a
\* change of the record.
LEMMA StepHonoursLeases == IInv /\ [Next]_vars => [LeasesHonoured]_vars
<1> SUFFICES ASSUME IInv, Next,
                    NEW j \in Jobs, job[j].status = "processing",
                    job[j].lease > 0, job'[j].status # "processing"
             PROVE  \/ record'[j[1]] # record[j[1]]
                    \/ \E w \in Workers : /\ call[w] # NoCall
                                          /\ call'[w] = NoCall
                                          /\ call[w].claim.job = j
                                          /\ call[w].claim.token = job[j].token
  BY DEF LeasesHonoured
<1>1. RowOfJob(j) /\ ~Expired(j)
  BY DEF IInv, JobInv, NoRowOfJob, NoJob, Expired
<1>2. CASE CanonicalStep
  BY <1>2, CanonicalChange
<1>3. CASE Tick
  BY <1>1, <1>3 DEF Tick, RowOfJob, JobRow
<1>4. ASSUME NEW w \in Workers, PendingEmbeddingJobs(w)
      PROVE  FALSE
  <2> PICK batch \in Batches(Claimable) :
        job' = [k \in Jobs |-> IF k \in batch
                               THEN Claimed(k, AfterRecovery(k))
                               ELSE AfterRecovery(k)]
    BY <1>4 DEF PendingEmbeddingJobs
  <2>1. AfterRecovery(j) = job[j]
    BY <1>1 DEF AfterRecovery
  <2>2. j \notin batch
    BY <2>1 DEF Batches, Claimable
  <2> QED
    BY <2>1, <2>2
<1>5. ASSUME NEW w \in Workers, Store(w)
      PROVE  /\ call[w] # NoCall /\ call'[w] = NoCall
             /\ call[w].claim.job = j /\ call[w].claim.token = job[j].token
  <2>1. /\ job' = job \/ /\ HoldsClaim(call[w].claim)
                         /\ job' = [job EXCEPT ![call[w].claim.job] =
                                      Settled(call[w].claim, call[w].answer)]
        /\ call[w] # NoCall /\ call' = [call EXCEPT ![w] = NoCall]
    BY <1>5 DEF Store
  <2>2. call[w].claim.job = j /\ HoldsClaim(call[w].claim)
    BY <2>1 DEF IInv, Tables
  <2> QED
    BY <2>1, <2>2 DEF HoldsClaim, IInv, WorkersInv
<1>6. ASSUME NEW w \in Workers, Answer(w) \/ Crash(w)
      PROVE  FALSE
  BY <1>6 DEF Answer, Crash
<1>7. CASE SelectRetries \/ AbortRequeue
  BY <1>7 DEF SelectRetries, AbortRequeue
<1>8. CASE RequeueRetries
  BY <1>1, <1>8 DEF RequeueRetries, RowOfJob
<1> QED
  BY <1>2, <1>3, <1>4, <1>5, <1>6, <1>7, <1>8 DEF Next

\* While a lease runs, nobody but its holder settles the job, unless its record
\* changes.
THEOREM LeasesKept == Spec => LiveLeaseHonoured
BY Invariance, StepHonoursLeases, PTL DEF Spec, LiveLeaseHonoured
=============================================================================
