----------------------------- MODULE Candidates -----------------------------
(***************************************************************************)
(* Memory candidates of the PostgreSQL store, on top of the approval       *)
(* workflow: a candidate is assessed against the active records, becomes a *)
(* create request when it is new, waits for the embedding worker when the  *)
(* definition of its type asks for a semantic assessment, and is           *)
(* consolidated into the record it duplicates or contradicts.              *)
(*                                                                         *)
(* The worker runs as the owner of the tables: the runtime role has no     *)
(* privilege on the jobs.  Its statements run under READ COMMITTED, so the *)
(* EXISTS by which an answer checks its claim may be older than the rows   *)
(* the answer writes: an answer is two steps.                              *)
(***************************************************************************)
EXTENDS ApprovalWorkflow

CONSTANTS
  Inventoried,      \* the definitions activated before: <<namespace, type>>
  SemanticTypes,    \* their types with semantic_assessment_required
  MaxAttempts,      \* max_attempts of every job
  Batch,            \* the limit of a worker's run
  MaxClaims,        \* bound: the claims of one candidate's job
  MaxRequeues       \* bound: the explicit requeues

ASSUME CandidateConstants ==
  /\ Null \notin CandidateIds
  /\ Inventoried \subseteq Namespaces \X Types /\ SemanticTypes \subseteq Types
  /\ MaxAttempts \in Nat \ {0} /\ Batch \in Nat \ {0}
  /\ MaxClaims \in Nat /\ MaxRequeues \in Nat

VARIABLES
  candidate,  \* memory_candidate with its candidate_record_relation
  job,        \* candidate_embedding_job with its candidate_embedding
  call,       \* the claims handed to workers and not answered yet
  requeues    \* how often a requeue found something

intake == <<candidate, job, call, requeues>>
allVars == <<vars, intake>>

NoCandidate == [assessment |-> "none"]
Erased == [assessment |-> "erased"]   \* a purged row; its uuid does not return
NoJob == [status |-> "none"]

CandidateRow ==
  [submitter : Profiles, namespace_id : Namespaces, record_type : Types,
   identity_key : Identities, payload : Payloads,
   valid_from : Deadline, valid_to : Deadline,
   assessment : {"new", "duplicate", "conflict"},
   relation : Ids \cup {Null}, change_request_id : Ids \cup {Null}]

JobRow ==
  [projection : {"pending", "indexed", "failed"},
   status : {"pending", "processing", "completed", "failed"},
   attempts : 0..MaxAttempts, claims : 0..MaxClaims,
   lease : {"none", "live", "over"}]

\* A claim token is the number of the claim; a checked call has seen its EXISTS.
Call ==
  [candidate : CandidateIds, token : 1..MaxClaims, worker : Profiles,
   checked : {"no", "complete", "fail"}]

Exists(c) == candidate[c] \notin {NoCandidate, Erased}

\* Candidates, jobs and calls hold rows of their tables; a job belongs to a
\* candidate, and only a candidate that was assessed has a relation.
CandidatesTypeOK ==
  /\ TypeOK
  /\ candidate \in [CandidateIds -> CandidateRow \cup {NoCandidate, Erased}]
  /\ job \in [CandidateIds -> JobRow \cup {NoJob}]
  /\ call \subseteq Call
  /\ requeues \in 0..MaxRequeues
  /\ \A c \in CandidateIds :
       /\ job[c] # NoJob => Exists(c)
       /\ Exists(c) =>
            (candidate[c].assessment = "new" <=> candidate[c].relation = Null)
       /\ job[c] # NoJob =>
            (job[c].status = "processing" <=> job[c].lease # "none")

CandidatesInit ==
  /\ clock = 0
  /\ grants = InitialGrants
  /\ policy = InitialPolicy
  /\ definitions = Inventoried
  /\ retention = [n \in Namespaces |-> Null]
  /\ issued = {}
  /\ request = [i \in Ids |-> NoRequest]
  /\ record = [i \in Ids |-> NoRecord]
  /\ revisions = {}
  /\ purge = [i \in PurgeIds |-> NoPurge]
  /\ audit = {}
  /\ candidate = [c \in CandidateIds |-> NoCandidate]
  /\ job = [c \in CandidateIds |-> NoJob]
  /\ call = {}
  /\ requeues = 0

----------------------------------------------------------------------------
(* Submission *)

\* The id that submit_change_request returns: of the new row, or of the row
\* the key leads to, which an auto policy applies if it is still pending and
\* is refused on if the row waits for somebody else.
Submitted(s, i) ==
  \/ SubmitChangeRequest(s) /\ i = NewId
  \/ Holds(i, s) /\ ResubmitChangeRequest(s)
  \/ /\ Admissible(s) /\ Holds(i, s)
     /\ PolicyAction(s) = "auto" =>
          /\ request[i].status # "pending"
          /\ \/ request[i].policy_action = "auto"
             \/ HasCapability(s.requester_id, s.namespace_id, "approve")
     /\ UNCHANGED vars

\* The create a candidate asks for; key is the candidate its key names.
CreateFor(row, w, key) ==
  [requester_id |-> row.submitter, namespace_id |-> row.namespace_id,
   operation |-> "create", record_id |-> Null,
   record_type |-> row.record_type, identity_key |-> row.identity_key,
   payload |-> row.payload, expected_revision |-> Null,
   valid_from |-> w.valid_from, valid_to |-> w.valid_to,
   update_mode |-> "patch", candidate |-> key]

\* The active record of a candidate's identity; at most one is.
OfIdentity(row) ==
  {r \in Ids : ActiveRecord(r, row.namespace_id, row.record_type, row.identity_key)}

\* Equal payload and text, or not.
Compared(row, r) ==
  IF record[r].payload = row.payload THEN "duplicate" ELSE "conflict"

\* candidate_identity_assessment: active is enough, whatever the window.
IdentityAssessment(row) ==
  IF OfIdentity(row) = {} THEN [assessment |-> "new", relation |-> Null]
  ELSE LET r == CHOOSE r \in OfIdentity(row) : TRUE
       IN [assessment |-> Compared(row, r), relation |-> r]

SemanticRequired(row) ==
  /\ <<row.namespace_id, row.record_type>> \in definitions
  /\ row.record_type \in SemanticTypes

\* The submitter reads the definition under row level security.
MustWait(row) ==
  /\ SemanticRequired(row)
  /\ HasCapability(row.submitter, row.namespace_id, "read")

NewCandidate == CHOOSE c \in CandidateIds : candidate[c] = NoCandidate

\* The INSERT with its relation; the trigger enqueues a projection and a job
\* for a new one.
Insert(row) ==
  /\ candidate' = [candidate EXCEPT ![NewCandidate] = row]
  /\ job' = [job EXCEPT ![NewCandidate] =
       IF row.assessment # "new" THEN NoJob
       ELSE [projection |-> "pending", status |-> "pending", attempts |-> 0,
             claims |-> 0, lease |-> "none"]]
  /\ UNCHANGED <<call, requeues>>

SubmitCandidate(p, ns, type, identity, payload, w) ==
  LET row(a, i) ==
        [submitter |-> p, namespace_id |-> ns, record_type |-> type,
         identity_key |-> identity, payload |-> MergePatch(Blank, payload),
         valid_from |-> w.valid_from, valid_to |-> w.valid_to,
         assessment |-> a.assessment, relation |-> a.relation,
         change_request_id |-> i]
      draft == row([assessment |-> "new", relation |-> Null], Null)
      assessed == IdentityAssessment(draft)
  IN /\ \E c \in CandidateIds : candidate[c] = NoCandidate
     /\ HasCapability(p, ns, "propose")
     /\ policy[p]["create"] # "deny"
     /\ Conforms(ns, type, draft.payload)
     /\ IF assessed.assessment = "new" /\ ~MustWait(draft)
        THEN \E i \in Ids : /\ Submitted(CreateFor(draft, w, Null), i)
                            /\ Insert(row(assessed, i))
        ELSE Insert(row(assessed, Null)) /\ UNCHANGED vars

----------------------------------------------------------------------------
(* The assessment worker *)

Expired(c) == job[c].status = "processing" /\ job[c].lease = "over"
Exhausted(c) == job[c].attempts >= MaxAttempts

Released(j, status) ==
  [j EXCEPT !.status = status, !.projection = status, !.lease = "none"]

\* Every expired lease is recovered, whoever's it was.
Recovered ==
  [c \in CandidateIds |->
     IF Expired(c) THEN Released(job[c], IF Exhausted(c) THEN "failed" ELSE "pending")
     ELSE job[c]]

Claimable(p, jobs) ==
  {c \in CandidateIds :
     /\ jobs[c].status = "pending"
     /\ jobs[c].attempts < MaxAttempts
     /\ jobs[c].projection = "pending"
     /\ candidate[c].assessment = "new" /\ candidate[c].submitter = p}

\* The oldest jobs up to the limit; a locked row is skipped.
ClaimJobs(p) ==
  /\ \E c \in CandidateIds : Expired(c) \/ c \in Claimable(p, Recovered)
  /\ \E C \in SUBSET Claimable(p, Recovered) :
       /\ Cardinality(C) <= Batch
       /\ Cardinality(C) < Batch => C = Claimable(p, Recovered)
       /\ \A c \in C : job[c].claims < MaxClaims
       /\ job' = [c \in CandidateIds |->
            IF c \in C
            THEN [Recovered[c] EXCEPT !.status = "processing", !.lease = "live",
                                      !.attempts = @ + 1, !.claims = @ + 1]
            ELSE Recovered[c]]
       /\ call' = call \cup
            {[candidate |-> c, token |-> job[c].claims + 1, worker |-> p,
              checked |-> "no"] : c \in C}
  /\ UNCHANGED <<vars, candidate, requeues>>

\* The claim is the job's: processing, and under the call's token.
HoldsClaim(k) ==
  /\ job[k.candidate].status = "processing"
  /\ job[k.candidate].claims = k.token

\* The first statement of an answer takes its snapshot.  An answer whose claim
\* is gone by then writes nothing.
CheckClaim(k, outcome) ==
  /\ k.checked = "no"
  /\ call' = (call \ {k}) \cup
       (IF HoldsClaim(k) THEN {[k EXCEPT !.checked = outcome]} ELSE {})
  /\ UNCHANGED <<vars, candidate, job, requeues>>

\* What the statement then finds to update: the projection's row, if it has
\* not gone with its candidate.
Updates(k) == job[k.candidate] # NoJob

\* The second statement looks at the token again.
Settle(k, status, projection) ==
  job' = [job EXCEPT ![k.candidate] =
    IF HoldsClaim(k)
    THEN [@ EXCEPT !.status = status, !.lease = "none", !.projection = projection]
    ELSE [@ EXCEPT !.projection = projection]]

FailJob(k) ==
  /\ k.checked = "fail"
  /\ call' = call \ {k}
  /\ IF Updates(k) THEN Settle(k, "failed", "failed") ELSE UNCHANGED job
  /\ UNCHANGED <<vars, candidate, requeues>>

\* In the window, not only active.
Current(r) ==
  /\ record[r].status = "active"
  /\ record[r].valid_from <= clock
  /\ record[r].valid_to = Null \/ record[r].valid_to > clock

\* What the embeddings may say: the nearest current record of the namespace
\* and the type is a duplicate, a conflict, or too far away.
Matches(row) ==
  {[assessment |-> "new", relation |-> Null]} \cup
  {[assessment |-> a, relation |-> r] :
     a \in {"duplicate", "conflict"},
     r \in {r \in Ids : /\ Current(r)
                        /\ record[r].namespace_id = row.namespace_id
                        /\ record[r].record_type = row.record_type}}

\* candidate_semantic_assessment: a current record of the identity first.
SemanticAssessments(row) ==
  LET exact == {r \in OfIdentity(row) : Current(r)}
  IN IF exact = {} THEN Matches(row)
     ELSE {[assessment |-> Compared(row, r), relation |-> r] : r \in exact}

\* Mutant of ReadyToPublish: a candidate found to repeat a record goes on.
UnassessedToo(row) == row.change_request_id = Null /\ SemanticRequired(row)

\* Still new, and it has waited for this.
ReadyToPublish(row) ==
  /\ row.assessment = "new"
  /\ row.change_request_id = Null
  /\ SemanticRequired(row)

\* Without its window: the create is submitted with NULL, NULL.
Unbounded == [valid_from |-> Null, valid_to |-> Null]

\* Assessment and publication in the answer's transaction; what raises rolls
\* the answer back and ends the worker's run (WorkerLost).
CompleteJob(k) ==
  LET c == k.candidate IN
  /\ k.checked = "complete"
  /\ call' = call \ {k}
  /\ UNCHANGED requeues
  /\ IF ~Updates(k) THEN UNCHANGED <<vars, candidate, job>>
     ELSE /\ HasCapability(candidate[c].submitter, candidate[c].namespace_id, "propose")
          /\ Settle(k, "completed", "indexed")
          /\ \E found \in SemanticAssessments(candidate[c]) :
               LET row == [candidate[c] EXCEPT !.assessment = found.assessment,
                                               !.relation = found.relation]
               IN IF ReadyToPublish(row)
                  THEN \E i \in Ids :
                         /\ Submitted(CreateFor(row, Unbounded, c), i)
                         /\ candidate' = [candidate EXCEPT ![c] =
                              [row EXCEPT !.change_request_id = i]]
                  ELSE /\ candidate' = [candidate EXCEPT ![c] = row]
                       /\ UNCHANGED vars

\* The worker's process ends, or its loop on an exception: what it holds stays
\* claimed until the leases end.
WorkerLost(p) ==
  /\ \E k \in call : k.worker = p
  /\ call' = {k \in call : k.worker # p}
  /\ UNCHANGED <<vars, candidate, job, requeues>>

\* Fifteen minutes have passed.
LeaseEnds(c) ==
  /\ job[c].status = "processing" /\ job[c].lease = "live"
  /\ job' = [job EXCEPT ![c].lease = "over"]
  /\ UNCHANGED <<vars, candidate, call, requeues>>

\* Mutant of Requeued: an explicit retry keeps the spent budget.
RequeuedSpent(c) ==
  Released(job[c], IF Expired(c) /\ Exhausted(c) THEN "failed" ELSE "pending")

\* A failed job starts anew, an expired lease is recovered as by a claim.
Requeued(c) ==
  IF job[c].status = "failed"
  THEN [Released(job[c], "pending") EXCEPT !.attempts = 0]
  ELSE Released(job[c], IF Exhausted(c) THEN "failed" ELSE "pending")

Requeueable ==
  {c \in CandidateIds : /\ job[c].status = "failed" \/ Expired(c)
                        /\ candidate[c].assessment = "new"}

\* requeue_failed_candidate_embedding_jobs, whoever submitted them.
RequeueFailed ==
  /\ requeues < MaxRequeues
  /\ \E C \in SUBSET Requeueable :
       /\ C # {}
       /\ Cardinality(C) <= Batch
       /\ Cardinality(C) < Batch => C = Requeueable
       /\ job' = [c \in CandidateIds |-> IF c \in C THEN Requeued(c) ELSE job[c]]
  /\ requeues' = requeues + 1
  /\ UNCHANGED <<vars, candidate, call>>

----------------------------------------------------------------------------
(* Consolidation *)

\* Mutant of Consolidates: any update made for the candidate's record.
ConsolidatesNow(i, c) ==
  /\ request[i].status = "pending"
  /\ request[i].submitted.operation = "update"
  /\ request[i].submitted.candidate = c

\* consolidated_candidate_id of the request.
Consolidates(i, c) ==
  /\ request[i].status # "none"
  /\ request[i].submitted.operation = "update"
  /\ request[i].submitted.candidate = c

\* The related record is active and of the candidate's own identity: a
\* candidate that repeats another record cannot be consolidated.
Mergeable(row) ==
  /\ row.relation # Null
  /\ ActiveRecord(row.relation, row.namespace_id, row.record_type, row.identity_key)

\* The candidate's payload as a patch of the record as it is now.
PatchFor(p, c, row) ==
  [requester_id |-> p, namespace_id |-> row.namespace_id,
   operation |-> "update", record_id |-> row.relation,
   record_type |-> record[row.relation].record_type,
   identity_key |-> record[row.relation].identity_key,
   payload |-> [f \in Fields |-> IF row.payload[f] = Absent THEN Keep
                                 ELSE row.payload[f]],
   expected_revision |-> record[row.relation].revision,
   valid_from |-> Null, valid_to |-> Null, update_mode |-> "patch",
   candidate |-> c]

\* A candidate consolidated before leads to its first request: a stutter.
ConsolidateCandidate(p, c) ==
  LET row == candidate[c] IN
  /\ Exists(c) /\ row.assessment # "new"
  /\ HasCapability(p, row.namespace_id, "approve")
  /\ policy[p]["update"] # "deny"
  /\ Mergeable(row)
  /\ ~\E i \in Ids : Consolidates(i, c)
  /\ \E i \in Ids : Submitted(PatchFor(p, c, row), i)
  /\ UNCHANGED intake

----------------------------------------------------------------------------
(* Purge with the candidates' traces *)

\* Mutant of TracesOf: only what is related to the record.
RelatedTo(r) == {c \in CandidateIds : Exists(c) /\ candidate[c].relation = r}

\* The candidates a purge of r takes along: related to it, published as it,
\* about to be, or consolidated into it.
TracesOf(r) ==
  {c \in CandidateIds :
     /\ Exists(c)
     /\ \/ candidate[c].relation = r
        \/ /\ candidate[c].change_request_id # Null
           /\ \/ ConcernsRecord(candidate[c].change_request_id, r)
              \/ StaleCreate(candidate[c].change_request_id, r)
        \/ \E i \in Ids : ConcernsRecord(i, r) /\ Consolidates(i, c)}

ApprovePurge(p, i) ==
  LET gone == TracesOf(purge[i].record_id) IN
  /\ ApproveHardPurge(p, i)
  /\ candidate' = [c \in CandidateIds |-> IF c \in gone THEN Erased ELSE candidate[c]]
  /\ job' = [c \in CandidateIds |-> IF c \in gone THEN NoJob ELSE job[c]]
  /\ UNCHANGED <<call, requeues>>

----------------------------------------------------------------------------
\* The worker's steps.
Work(p) ==
  \/ ClaimJobs(p)
  \/ \E k \in call :
       /\ k.worker = p
       /\ \/ \E outcome \in {"complete", "fail"} : CheckClaim(k, outcome)
          \/ FailJob(k) \/ CompleteJob(k)

\* What others do meanwhile to the requests and the records.
Elsewhere(p) ==
  \/ /\ \/ ProposeCreate(p)
        \/ \E i \in Ids, decision \in {"approve", "reject"} :
             DecideChangeRequest(p, i, decision)
        \/ \E limit \in ExpiryLimits : ExpireRecords(p, limit)
        \/ \E ns \in Namespaces, r \in Ids, i \in PurgeIds :
             RequestHardPurge(p, ns, r, i)
     /\ UNCHANGED intake
  \/ \E i \in PurgeIds : ApprovePurge(p, i)

CandidatesNext ==
  \/ \E p \in Profiles :
       \/ \E ns \in Namespaces, type \in Types, identity \in Identities,
             payload \in CreatePayloads, w \in Windows :
            SubmitCandidate(p, ns, type, identity, payload, w)
       \/ \E c \in CandidateIds : ConsolidateCandidate(p, c)
       \/ Work(p)
       \/ WorkerLost(p)
       \/ Elsewhere(p)
  \/ \E c \in CandidateIds : LeaseEnds(c)
  \/ RequeueFailed
  \/ Tick /\ UNCHANGED intake

CandidatesSpec == CandidatesInit /\ [][CandidatesNext]_allVars

\* The gateway keeps running the worker, a claim in hand is answered or its
\* worker lost, and time passes.
WorkIsDone ==
  /\ \A p \in Profiles : WF_allVars(Work(p))
  /\ \A c \in CandidateIds : WF_allVars(LeaseEnds(c))

LiveSpec == CandidatesSpec /\ WorkIsDone

----------------------------------------------------------------------------
(* Properties *)

\* A candidate becomes a request only while it is new: when its type asks for
\* a semantic assessment and its submitter can see that, the assessment is
\* made in the same step, against records as they are then, and no record
\* that is active and in its window has the candidate's identity.
PublishedAsNew ==
  [][\A c \in CandidateIds :
       LET row == candidate'[c]
           linked == Exists(c)' /\ row.change_request_id # Null
           before == Exists(c) /\ candidate[c].change_request_id # Null
       IN linked /\ ~before =>
            /\ row.assessment = "new"
            /\ ~\E r \in OfIdentity(row) : Current(r)
            /\ (/\ SemanticRequired(row)
                /\ HasCapability(row.submitter, row.namespace_id, "read"))
                 => job'[c].projection = "indexed"]_allVars

\* However often and by whomever a candidate is consolidated, before or after
\* the decision on the result and changes of the record, it becomes one update
\* of a record of its own identity.
ConsolidatedOnce ==
  \A c \in CandidateIds, i, j \in Ids :
    LET made(k) == /\ request[k].status # "none"
                   /\ request[k].submitted.candidate = c
                   /\ request[k].submitted.operation = "update"
    IN made(i) =>
         /\ made(j) => i = j
         /\ candidate[c] # NoCandidate
         /\ Exists(c) =>
              request[i].submitted.identity_key = candidate[c].identity_key

\* A purge takes the candidates of the record along, in whatever way they
\* came to it: none is left that points to a record or a request that is
\* gone, and none of a request of another submitter; of job and projection
\* none is left without its candidate.
CandidatesIntact ==
  /\ CandidatesTypeOK
  /\ \A c \in CandidateIds : Exists(c) =>
    LET row == candidate[c]
        i == row.change_request_id
    IN /\ row.relation # Null => record[row.relation].status # "none"
       /\ i # Null =>
            /\ request[i].status # "none"
            /\ request[i].submitted.requester_id = row.submitter

\* Every assessment that waits is made, fails for good or is erased with its
\* candidate, although workers die and answers are lost.  A late answer may
\* mark the projection alone; no claim looks at such a job again.
JobsSettle ==
  \A c \in CandidateIds :
    job[c].status \in {"pending", "processing"}
      ~> \/ job[c].status \in {"completed", "failed", "none"}
         \/ job[c].projection # "pending"

============================================================================
