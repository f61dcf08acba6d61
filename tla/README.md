# Verification of durable-memory

TLA+ modules, TLC configurations and TLAPS proofs for the Hermes plugin
`hermes_durable_memory`: a store of approved memory records kept in PostgreSQL,
changed only through reviewed change requests. Paths below are relative to
`src/hermes_durable_memory/`; `0020` stands for
`sql/0020_durability_guarantees.sql`, and so on.

## The system

| Component | Code | State | Operations |
| --- | --- | --- | --- |
| Approval workflow | `0020`, `0004`, `store.py` | `change_request`, `change_request_private`, `record`, `record_revision` | submit (create, update, delete, inventory), resubmit, approve, reject, auto-apply |
| Lifecycle and privacy | `0011`, `0018`, `0020` | `valid_from`/`valid_to` of records, `namespace_retention_policy`, `hard_purge_request`, `hard_purge_audit` | expire, set retention, request and approve a hard purge, export |
| Access control | `0001`, `0002`, `migrations.py` | `profile`, `namespace`, `namespace_grant`, `operation_policy` | grant, bootstrap a profile, capability checks, row-level security |
| Inventory registry | `0010`, `0013`, `0014`, `0016`, `service.py` | `memory_type`, `memory_schema_version` | define a type, validate payloads |
| Candidates | `0005`, `0007`-`0009`, `0015`, `store.py` | `memory_candidate`, `memory_evidence`, `candidate_record_relation` | submit with evidence, assess, consolidate |
| Embedding jobs | `0006`, `0012`, `0017`, `store.py` | `record_embedding`, `embedding_job` and the candidate pair | enqueue (trigger), claim with a lease, complete, fail, recover, requeue |
| In-memory store | `store.py` (`InMemoryStore`) | Python dictionaries | the store's operations without PostgreSQL |
| Import | `importer.py`, `importers/holographic.py` | `import_checkpoint` | page, submit, checkpoint, resume |
| Provider | `provider.py` | prefetch cache, session | prefetch, queue a prefetch, sync a turn, switch session |
| Human decisions | `general_plugin.py` | waiting decisions | ask, answer, time out |
| Migrations | `migrations.py` | `schema_migration` | migrate, validate |
| Setup | `setup_*.py` | `.env`, `config.yaml` | plan, commit |

How they interact: the provider, the command line and the importer call
`service.py` (`DurableMemory`), which calls a store. The PostgreSQL store runs
one transaction per call and leaves every change of canonical state to the
SECURITY DEFINER functions of `sql/`; several plugin processes share one
database. A trigger on `record` enqueues embedding work, which workers claim
later; a completed candidate embedding may submit a create on its own.

What is hard here: decisions that arrive long after what they decide was read
(a merged patch, a validity window, a policy); several processes on one
identity; retries of what was already done; purges beside pending requests;
workers whose lease ran out; TTLs racing decisions; an import, a setup or a migration
that ends in the middle and is started again; a question to a person that is
answered late. `PROJECT.json` lists these hazards at their lines.

### What makes each component correct

- Approval: one active record per identity; a complete, gap-free history; every
  revision produced by exactly one approved request, with the payload that was
  reviewed; no lost update; decisions are final; nobody applies a change they
  may not. Its transactions wait for each other in one order.
- Lifecycle: validity windows are honoured however late the approval; a purged
  record leaves nothing and never returns.
- Candidates: published only while new, and after the assessment its type asks
  for; consolidated once; gone with the record a purge erases.
- Embedding jobs: a running lease belongs to its holder; a vector belongs to its
  revision; no job exceeds its attempts; every job of a live record settles.
- In-memory store: the promise of the PostgreSQL store, record by record.
- Import: nothing is skipped by a resume, and in the end everything is handled.
- Provider: what is recalled was true since it was looked up; one failing
  extractor or submission does not keep the others from being tried.
- Human decisions: only people decide, and every command is answered.
- Migrations: the history is a release, or the beginning of one; policies are
  those of one bootstrap.
- Setup: saved settings work, a save that fails takes its first file back, reruns get there.
- Reads: pages neither repeat nor skip, the two stores page alike, a ranking
  follows its evidence.

## Modules

| Module | What it is |
| --- | --- |
| `VersionedRecords` | The promise of a canonical store: cells born once at version 1, written one version at a time while live, closed for good, one live cell per slot, an erased cell never returns. |
| `ApprovalWorkflow`, `MCApprovalWorkflow` | The PostgreSQL store's canonical tables and every function that writes them. Its theorems are in `Candidates_proofs`. |
| `RecordLocks`, `MCRecordLocks`, `RecordLocks_proofs` | The same functions statement by statement, with their locks and what they read without one. |
| `Candidates`, `MCCandidates`, `Candidates_proofs` | Extends `ApprovalWorkflow`: candidates, their assessment by leased workers, publication, consolidation, and what a purge does to them. The proofs are about both modules. |
| `RecordEmbeddings`, `MCRecordEmbeddings`, `RecordEmbeddings_proofs` | The vector projection of records: trigger, leases, late answers, recovery, requeue. |
| `InMemoryStore`, `MCInMemoryStore`, `InMemoryStore_proofs` | The Python store of tests and local development, driven by the service. |
| `Importer`, `MCImporter`, `Importer_proofs` | Candidate imports with checkpoints, stops and overlapping runs. |
| `Migrations`, `Setup`, `Deployment`, `MCDeployment`, `Deployment_proofs` | The migrator, the setup wizard, and the two as what operators do to a deployment. |
| `Recall`, `TurnSync`, `HumanDecisions`, `Agent`, `MCAgent`, `Agent_proofs` | The prefetch cache, the synchronisation of a turn, the commands with their inline questions, and the three as one agent process. |
| `Search`, `Ranking`, `Orders`, `Reads`, `MCReads`, `Reads_proofs` | Pages of a structured search, the hybrid ranking of a text search, the ordered results both are cut from, and the two as the reads of a profile. |

`Deployment`, `Agent` and `Reads` join modules that share no variable: the
variable `activity` says which part a behaviour is about, the others stay at
rest, and one run covers them all. Interleaving parts that cannot see each other
would add states and no behaviour of any part.

### ApprovalWorkflow and the code

One variable is one table: `request` is `change_request` joined with
`change_request_private`, `record`, `revisions`, `purge` and `audit` are the
tables of those names, `definitions` the active rows of `memory_type`,
`grants`, `policy` and `retention` the administration tables. `clock` is
`now()`. `issued` remembers the uuids already drawn: a purge deletes rows, and
a new uuid is never one of theirs.

One action is one function call. Each of those functions first takes the
advisory lock of the record (`0020:105`) and then row locks, so a call is one
step. Conditions that raise are guards; calls that write nothing stutter.

| Action | Code |
| --- | --- |
| `SubmitChangeRequest`, `ResubmitChangeRequest` | `submit_change_request`, `0020:451-586`; the second is the ON CONFLICT branch |
| `ApplyChangeRequest` | `apply_change_request`, `0020:272-422`, called by both and by `DecideChangeRequest` |
| `ProposeCreate`, `ProposeMutation`, `ProposeInventory` | what `service.py` and `store.py` submit |
| `ExpireRecords` | `expire_records`, `0011:21-36` |
| `SetNamespaceRetention`, `RequestHardPurge`, `ApproveHardPurge` | `0018:55-65`, `0020:640-754` |
| `Grant`, `BootstrapProfile` | `store.py:1172`, `migrations.py:133` |

Abstractions. A payload is a function from fields to values, with `Absent` for
a missing key; a patch may also `Keep` a field, so merge and replace differ as
they do in the code. Nested objects are not told apart from leaves. The
idempotency digest is the record of the inputs it hashes. Search text is left
out: it is stored next to the payload under the same guards. The type and
identity a caller repeats on a mutation are those of the target, because any
other raise. `ProposeInventory` has no guard of its own: the service looks for
an existing definition (`service.py:634`) in an earlier transaction, so the
definition may have appeared since. An update that changes validity does not
occur: direct proposals and consolidation carry none.

### RecordEmbeddings and the code

`job` and `projection` are the tables `embedding_job` and `record_embedding`,
keyed by record and revision. `record` keeps what the jobs look at: status,
revision, and on which side of its validity window `now()` is. `held` is the
list a worker's loop still has to go through, `call` the answer it is sending,
`retries` the rows a running requeue has locked. A lease is a countdown (`Tick`
is time), so that nothing grows without bound; a token is reused once nobody
remembers it, which no comparison in the code can notice. `spent` is a history
variable: the claims of a job since its last explicit requeue.

| Action | Code |
| --- | --- |
| `CreateRecord`, `UpdateRecord`, `DeleteRecord`, `ExpireRecord`, `PurgeRecord` | the writes of `ApprovalWorkflow` to `record`, each with the trigger `enqueue_record_embedding`, `0012:85-98`, or the cascade of a purge |
| `PassWindow` | `now()` passes `valid_from` or `valid_to`; no trigger runs |
| `PendingEmbeddingJobs` | `store.py:1826-1880`: recover every expired lease, then claim a batch |
| `Answer`, `Store` | `complete_embedding_job` and `fail_embedding_job`, `store.py:1882-1946`, as `service.py:391-418` calls them |
| `SelectRetries`, `RequeueRetries`, `AbortRequeue` | `requeue_failed_embedding_jobs`, `store.py:1948-2006` |
| `Crash` | the process dies, or an error other than `CommandError` ends the loop |

Where a transaction is split. All of them run under READ COMMITTED. An UPDATE
that waits for a row rechecks its own condition on the new row, so most
transactions are one step. An answer is not: its `EXISTS (SELECT ... FROM
embedding_job ...)` names no column of the row it updates, is evaluated once
before the wait, and is not evaluated again. Hence `Answer` reads and `Store`
writes, and the second statement looks at the job afresh. A requeue is not
either: it locks jobs, not records, so a record can be closed between its
SELECT and its updates. Locks are taken in both orders (job then projection,
projection then job); PostgreSQL aborts one of two transactions that wait for
each other, which is a `Crash` or an `AbortRequeue`.

Two consequences of those races are reached by the model and are no violation
of anything the code or the documents promise: a late answer may leave a
projection that disagrees with its job (for example `indexed` for a job that is
`failed`, or for a deleted record), and a requeue may leave a `pending` job of
a closed record, which nobody will claim. The properties below hold all the
same.

Left out: model identifiers, content hashes and diagnostics, which nothing
decides on; the order of the queue (any batch of the right size may be
claimed, which includes the code's order); definition records, which have no
jobs; row-level security: the workers are taken to be allowed to update.

### RecordLocks and the code

It justifies taking each function of `ApprovalWorkflow` as one step, and shows
where that is not so. `session` is the transaction of each connection: the
statement it has reached, the record it has read (`of`), and the locks it holds:
the advisory lock of a record (`lock_memory_record`, `0020:105`) and row locks
of `record`, `change_request` and `hard_purge_request`. A row read without a
lock is read as committed; once a lock is there the row is looked at again.

| Action | Code |
| --- | --- |
| `Submit`, `LockTarget`, `InsertRequest` | `submit_change_request`, `0020:451-586`; a repetition finds its request by ON CONFLICT |
| `Decide`, `ReadRecordId`, `LockRequest` | `decide_change_request`, `0020:272-316`: `record_id` is read unlocked to know which lock comes first |
| `LockMemory` | the advisory lock all of them ask for |
| `CreateRecord`, `MutateRecord` | `apply_change_request`, `0020:354-429` |
| `RequestPurge`, `StorePurgeRequest`, `ApprovePurge`, `LockPurge`, `CollectRequests`, `DeleteRequest`, `EraseRecord` | the hard purge, `0020:640-754` |
| `Expire`, `LockDue`, `ExpireDue` | `expire_records`, `0011:21-36`: rows chosen by a snapshot, then locked |
| `DetectDeadlock` | PostgreSQL ends a transaction of a circle |

Two statements lock many rows one by one, and in no order that others can rely on:
the DELETE of a purge has no ORDER BY (`0020:742`), and `expire_records` goes by
`valid_to`, which an update may change between the snapshots of two expiries
(`0011:30`). `next` is the row such a scan has come to, any of those that are left
(`Scanned`).

Left out: candidates and relations, which the same record lock protects; lapsed
and inventory requests (in `ApprovalWorkflow`); the insert under a new id of a
request deleted meanwhile; the writes of a statement are made with the commit.
`Undecided` bounds the run: two of its creates are submitted and purged, never
decided.
That lock waits end is PostgreSQL's business, so no liveness is stated here.

### Candidates and the code

`candidate` is `memory_candidate` with its relation, `job` the job together with
the projection it belongs to (one row each per candidate), `call` the claims a
worker has been handed. The trigger, submission, assessment by identity,
consolidation and purge are single statements or functions and single steps; an
answer of a worker is two, as in `RecordEmbeddings`: `CheckClaim` evaluates its
EXISTS, `CompleteJob` or `FailJob` writes on it, however stale.

| Action | Code |
| --- | --- |
| `SubmitCandidate` | `store.py:2307-2412` with the triggers of `0007`, `0009`: assess by identity, wait or publish |
| `ClaimJobs`, `CheckClaim`, `CompleteJob`, `FailJob`, `WorkerLost`, `LeaseEnds` | `store.py:2008-2150`, `service.py:425-464`; a completion publishes what it found new |
| `RequeueFailed` | `store.py:2159-2207` |
| `ConsolidateCandidate` | `0020:587-638` |
| `ApprovePurge` | `0020:687-754` with the candidates, `0020:712-732` |

The worker runs as the owner of the tables: the runtime role has no privilege on
the jobs. A purge sets `consolidated_candidate_id` of requests to NULL; the model
keeps the pointer to a candidate that is `Erased`, and looks only at candidates
that exist. Evidence rows, similarity values and the digest are abstracted: a
candidate may be found similar to any record its assessment may look at.

### InMemoryStore and the code

Python runs one command at a time, so a command of `service.py` with every call
it makes of the store is one step. A command that raises after it changed
something (an expiry that meets a foreign namespace, `store.py:453`) does so in
the model. The variables are the dictionaries of `_State`; `purge` the purge
requests. Update mode `replace` is modelled; the run uses patches. The policy is
fixed in a configuration. It implements `VersionedRecords` with a slot per
record: identities are a weaker promise there, see the observations below.

### Importer and the code

`run` holds the local variables of `import_candidates`; a run reads a page,
submits its candidates one by one and saves the checkpoint, and any other run,
approval or change of the source may come between. `Stop` is a `CommandError`, an
exception or the end of the process at any of these points. Checkpoints are those
of PostgreSQL: one per profile, source and scope. A run resumes from the stored
checkpoint, from the one the last report named (`noted`), or from the first row.
A dry run moves its checkpoint like any other and returns it (`importer.py:100-104`,
`141-149`) although it submits nothing; `ahead` is history and says of a checkpoint
that a dry run moved it, or that it comes from a run that started at such a one.
Both runs of the configuration are of one profile.

### Migrations, Setup and the code

`Migrations`: one transaction per `migrate` or `bootstrap_profile`, its
uncommitted writes in `tx`, the advisory lock in `lock`. A migration is its
checksum, of which releases may disagree; of what migrations do only
`operation_policy` is kept. A statement that meets an uncommitted row waits,
which is a guard. `Setup`: one wizard per profile, provisioning statement by
statement in autocommit, each statement followed perhaps by `Fail` (an error, a
kill or an interrupt), then migrate, bootstrap, grants and preflight, then the
comparison and replacement of the two files. `edits` is what others write to the
files; they do not edit between the comparison and the end of saving, as
`README.md:169` of the repository asks. What interrupts `commit` comes before or
after `os.replace` of `config.yaml`; `except BaseException` (`setup_files.py:119-126`)
takes the old `.env` back either way. `torn` is history: the profiles for which it
came after.

### Recall, TurnSync, HumanDecisions and the code

`Recall` relies on Hermes running one prefetch at a time on a worker thread, and
splits it at its queries, so that sessions and records change in between.
`TurnSync` is `sync_turn` extractor by extractor and candidate by candidate, each
of which may raise. `HumanDecisions` splits the command handler at its `await`:
`Ask`, then `Press` or `TimeOut` by the gateway, then `Resume`, while other
commands, the AI tool, lapses and changes of the record go on. A proposal may be
made again: then the request that waits is put to the person once more (`Repeat`),
or settled by a policy that applies at once. Applying at once may also fail on a
record that has changed, and the request is superseded. A policy that applies a
proposal counts as its author's approval: a person set it.

### Search, Ranking and the code

The two stores page in different ways, and a behaviour of `Search` is about one
of them (`store`): PostgreSQL reads the key of the cursor's record in one
statement and the page after it in another (`store.py:1404`); the in-memory store
sorts its matches anew and continues after the cursor's place. A value has two
orders, `key` of its kind and `json` of the string it is stored as, because a sort
uses the first and a filter the second. A filter is one operator and one bound.
ORDER BY and `sort` are `Sorted` of `Orders`: a set in a strict total order, given by
its pairs, each element at the place that the number of those ahead of it says.
`Ranking` is `_hybrid_rank` in whole numbers: eight times the score, over a common
denominator of the reciprocal ranks.

## Runs

| Run | Question | Bounds |
| --- | --- | --- |
| `approval` | Do concurrent requests for one identity keep the store unique, versioned, authorised and free of lost updates, and does it implement `VersionedRecords`? | two profiles, one namespace, type and identity, two create and two update payloads, three ids, two fields, TTL 1, clock up to 1 |
| `lifecycle` | The same promise with retention, windows, expiry and two purge requests | one update payload, three ids, two purges, clock up to 1 |
| `lost_update` (violation) | Does a patch preserve the fields it omits, as `README.md:288` says, when the caller names a revision ahead of the record? | as `approval`, with revision 2 named explicitly |
| `leases` | Do leases, budgets and vectors survive late answers, crashes, requeues and changes of the record, and does every job settle? | two workers, one record of two revisions, 2 attempts, a lease of one tick, one requeue |
| `batches` | Do the claims settle that a worker drops when it dies within a batch? | one worker, batches of one or two, two records, as above otherwise |
| `locks` | Which transactions can wait for one another, and do the tables agree however they overlap? | two connections, four creates of one identity of which two are never decided, an update and a delete of the first, one create and the update applied at once, the first record due |
| `candidates` | Is a candidate published, consolidated and erased as it should whatever happens to its records and workers, and is it assessed in the end? | one candidate, three requests, one purge, two claims of one attempt each, one requeue, clock up to 1 |
| `memory` | Does the in-memory store keep the promise? | two profiles, one shared namespace and identity, three requests, two records, one candidate, one purge, clock up to 1 |
| `import` | Is anything skipped, miscounted or never handled? | one profile, two runs, two facts of which one is refused, one change, one stop, pages of two |
| `deployment` | Do concurrent migrations and bootstraps, and wizards that fail and are run again, leave a usable deployment? | two profiles with one wizard each, four roles, two passwords, one failure, one edit; two processes, three releases of up to three migrations |
| `agent` | Is recall recent, are failures isolated, and do only people decide, with an answer? | two sessions, queries and records; two extractors, turns and candidates; two commands and two requests |
| `reads` | Do pages repeat or skip, do the stores agree, does a ranking follow its evidence? | three records, three values with equal keys, a filter, both limits of one and two, one change during a walk; three records and distances, two results |

Why these bounds are enough: three ids allow a create, an update and a rival
(or two generations of one identity and a rival), which is every pair of
requests that can disturb one another plus one more. Two fields are the
smallest payload in which a patch keeps something. One tick suffices for TTLs,
windows and retention to lapse between any two calls. Two profiles give a
proposer and an approver, two administrators, and a profile whose grant and
policy change on the way. A late answer needs a second claim, a stale text a
second revision, the end of the budget one attempt or two (the code's default is
3), a fresh budget one requeue, and a batch two records. Two transactions are a
circle. Two creates nobody decides are what two purges of closed records of their
identity may lock in opposite orders; two expiries need two due records of
different identities and are left to the theorem, as are circles of three and more.
An
import resumes after one stop, and a fact that is refused stands in the page of
one that is not. With pages of one and two of three records, walks end on a full,
a partial and an empty page. Two commands are one that asks and one that decides
meanwhile; three releases are a newer one and one with an edited migration.
The rest of the constants name inputs; `Max...`, `Ids`, `PurgeIds`,
`CandidateIds`, `Runs` and `Requests` are the bounds.

Deadlock is checked nowhere by TLC: once ids and time are used up, only calls
that write nothing remain. What may wait for what is stated as a property
instead: `OnlyScansDeadlock` for locks, `PolicyOfOneBootstrap` for migrations
and bootstraps.

Symmetry is used in `locks` alone, between the connections, which differ in
nothing but their names. Elsewhere ids are drawn with `CHOOSE`, so it is not.

### Fairness

- `leases`, `batches`, `candidates`: time passes, an answer or requeue that was
  started ends (or its process dies), and somebody keeps calling the worker's
  command. The last is an assumption about the deployment, which `README.md` of
  the repository makes too: nothing in the plugin schedules workers. No worker in
  particular is fair, crashes may happen at any time.
- `import`: a run that is not stopped goes on, and whoever imports starts again
  and again (strong fairness, because dry runs in between may take the process).
- `deployment`: a wizard goes on, and a careful operator, one who gives the
  answers that fit together, starts it again until the settings are saved.
- `agent`: the gateway honours the timeout it is given, and coroutines are
  resumed. Nobody need ever press a button.
- No fairness for the rest: every action is a person's call.

### Properties

- `OneActivePerIdentity`: approved rivals never both become active.
- `HistoryApproved`: revisions 1..n, each once, the last one equal to the row
  (`HistoryIsComplete`); revisions and approved requests correspond one to one,
  with reviewed payload and actor, also after purges of other generations
  (`EveryRevisionApproved`).
- `OmittedFieldsPreserved`: an approved patch changes only what it names.
- `ApprovalsAuthorised`: approver, or auto policy stored with the request.
- `DecisionsAreFinal`: decided requests and closed records never reopen.
- `ValidityHonoured`: published windows are open, as asked for, and expiry is
  never early.
- `PurgeErases`: nothing of a purged record is left or returns.
- `ImplementsVersionedRecords`: the refinement to the abstract store.
- `LiveLeaseHonoured`, `BudgetRespected`, `VectorOfItsRevision`,
  `ClosedNotProcessing`: leases end by their holder's answer or a change of the
  record; at most `max_attempts` claims between requeues; a vector is stored under
  the revision it was made from; no claim survives the end of its record.
- `JobsSettle`: a job that can be claimed completes, fails, or its record moves
  on, however often workers crash.
- `OnlyScansDeadlock`: no circle of lock waits without a repeated submission, or
  purges of one identity, or expiries, that scan the same rows.
- `TablesAgree`: a revision per approved mutation, and no request that names a
  purged record; `ClosedStaysClosed`: closed records are never written again.
- `PublishedAsNew`, `ConsolidatedOnce`, `CandidatesIntact`: what a candidate
  becomes, once, and that it goes with its record.
- `ChangesReviewed`: rows of the in-memory store are what authorised approvals
  made of them, purges took two people; `OneRequestEach`: repeated proposals and
  consolidations are one request; `WindowHonoured`: expiry is never early.
- `NothingLost`: wherever an import may resume that no dry run has moved on, all
  before was handled, and saved reports add up; `EverythingImported`: every fact is
  handled in the end, unless a checkpoint that a dry run moved was stored.
- `SettingsHold`: saved settings work and keep working, edits of others stay, and
  the provider is switched only with its settings, except after an interrupt that
  came too late and until the next saved setup; `RerunsSucceed`.
- `HistoryInOrder`: a migrate that succeeds has exactly its own migrations, and
  only ever completes a beginning of them; `PolicyOfOneBootstrap`: policies are
  those of one bootstrap, and those that wait get on.
- `RecallIsRecent`, `FailuresIsolated`, `PeopleDecide`, `CommandsReply`.
- `NoneMissed`: a walk shows every record that did not change exactly once;
  `PagesAgree`: the two stores cut the same pages; `RankingSound`.

Several of them are conjunctions of named parts, each stated where it belongs:
one run evaluates them together. `PROJECT.json` names for each a defect of the
code that breaks it.

`OmittedFieldsPreserved` holds when callers name no revision ahead of the
record (`LookAhead = FALSE`). `lost_update` shows what happens otherwise: the
expected revision is stored unchecked (`0020:508`) while the patch is merged at
once, so the approval's check compares with a revision the merge never saw.

## Observations

Where the code departs from what a document, a comment or a test says, the
models follow the code, and the properties above are stated so as to hold. Each
of these behaviours is one the modules contain, or leave out as said:

- In-memory store: an update approved after its record expired makes it active
  again (`store.py:934`; "Only active records can be changed", `i18n.py:79`).
- In-memory store: a record whose window has not opened, or has closed, does not
  occupy its identity, so two records of one can become current
  (`store.py:966`; `README.md:225`).
- In-memory store: an update removes the end of its record's window
  (`store.py:947`; PostgreSQL keeps it with COALESCE).
- In-memory store: checkpoints are shared by the profiles of one state
  (`store.py:548`; "Checkpoints are per profile, source, and scope",
  `README.md:559`). `Importer` models PostgreSQL's.
- In-memory store: a filter on a field that a record lacks ends the search in a
  `TypeError` (`store.py:141`), where PostgreSQL passes the record over
  (`Search.Fails`).
- Candidates: a failure reported while its lease is being recovered marks the
  projection `failed` although the job is `pending` again; neither a claim nor a
  requeue selects it any more (`store.py:2137`; "a crashed worker must not strand
  one", `sql/0017_embedding_job_leases.sql:1`).
- Candidates: one that waited for its assessment is published without its
  validity window (`store.py:2105`; `README.md:529-531`).
- Import: a dry run returns a checkpoint past what nobody submitted
  (`importer.py:101-104`; docstring at `importer.py:74-78`). An operator who names
  it in a real run skips those facts and stores the checkpoint. The model's does,
  and the properties except checkpoints that are `ahead`.
- Setup: Ctrl-C just after `config.yaml` was replaced restores or removes `.env`
  although the configuration was saved (`setup_files.py:119-126`; `README.md:167`
  speaks of a failed save only), so the provider may be active without settings.
  `SwitchedWithSettings` excepts such profiles (`torn`).
- Human decisions: a purge requested in a session ends in a `KeyError`
  (`general_plugin.py:102`): the request is stored, its id never reaches the
  person. `CommandsReply` excepts it.
- Search: when the record a sorted cursor names is updated between two pages,
  others are shown twice or not at all (`store.py:1406`); `NoneMissed` excepts
  walks whose cursor moved.
- Recall: a slow prefetch that ends after its session fills the cache that was
  cleared (`provider.py:61`; `provider.py:213`); `Recall.of` names the session.
- Locks: a create that was applied at once and is submitted again locks its
  request before its record, and may deadlock with a decision or a purge
  (`0020:577`); `OnlyScansDeadlock` excepts it.
- Locks: two purges of records that had one identity delete the same pending
  creates without an ORDER BY (`0020:742`) and may deadlock, and so may two expiries
  of the same rows (`0011:30`), although both are one function meeting itself.
- Purges: the stale creates are collected without locks (`0020:742`), so a create
  of the identity submitted or approved meanwhile may stay or be deleted.

## Proofs

`tlapm Candidates_proofs.tla` proves of `ApprovalWorkflow`, for every value of the
constants:

| Theorem | Statement | Inductive invariant |
| --- | --- | --- |
| `TypeCorrect` | `[]TypeOK` | `TypeInv`: `TypeOK` and every update or delete names a record id (otherwise an approval could write outside the table) |
| `OneActiveRecord` | `[]OneActivePerIdentity` | with `TypeInv` |
| `SettledForGood` | `DecisionsAreFinal` | `LifeInv`: rows only under issued ids, and no record under the id of a pending request (otherwise a create could overwrite a closed record) |
| `OnlyAuthorised` | `[]ApprovalsAuthorised` | with `TypeInv`; capabilities only grow |
| `PurgedForGood` | `[]PurgeErases` | `EraseInv`: every record was born under the id of the request that created it, and an erased id keeps neither record, revision nor request |

The argument is the same each time. `StepKinds` shows that every step settles a
request, stores one, expires records, approves a purge, or leaves all of that
alone; `SettledRecords` and `SettledRequests` say what settling does to the two
tables. Each invariant then has one lemma per kind of step. Assumptions are
`ConstantsDistinct`, `ConstantsTyped` and `WindowsAreRanges` of
`ApprovalWorkflow`; TLC evaluates them in every run.

The module continues from these:

| Theorem | Statement | Inductive invariant |
| --- | --- | --- |
| `StoreImplementsPromise` | `ImplementsVersionedRecords` | `PromiseInv`: `EraseInv` and one active record per identity (otherwise a create would bear a cell in a taken slot, or one that was erased) |
| `HistoryStaysApproved` | `[]HistoryApproved` | with `LifeInv` (otherwise two creates could write the first revision of one id) |
| `WindowsHonoured` | `[]ValidityHonoured` | with `EraseInv`: a record's window is that of the request of its own id |
| `PatchesPreserve` | `[]OmittedFieldsPreserved`, if `LookAhead = FALSE` | `PatchInv`: what is pending names a record that is there and a revision it has had, and a patch that names the current one holds its omitted fields as they are |

The refinement maps a record's row and its erasure to one cell (`CellOf`). The
initial tables map to unborn cells; `StepKeepsPromise` shows that a settled
request bears, writes or deletes one cell or none, an expiry lapses the cells of
the rows it reaches, a purge erases one, and everything else is a stutter. The
other three say what a settled request writes once (`SettledWrites`) and reason
from that. `PatchesPreserve` has an assumption on the callers, and it is the one
that counts: the code compares the revision a caller names with the record's only
when the request is approved, and the run `lost_update`, in which a caller names a
revision the record has not reached, finds a patch that undoes a field.

`tlapm RecordEmbeddings_proofs.tla` proves:

| Theorem | Statement |
| --- | --- |
| `LeasesTyped` | `[]TypeOK` |
| `BudgetKept` | `[]BudgetRespected` |
| `VectorsMatch` | `[]VectorOfItsRevision` |
| `ClosedForWorkers` | `[]ClosedNotProcessing` |
| `LeasesKept` | `LiveLeaseHonoured` |

They share one inductive invariant, `IInv`, stated row by row: a job and its
projection come and go together, `attempts` counts the claims since the last
explicit requeue (otherwise nothing bounds `spent`), what a worker holds is the
text of the revision it claimed (otherwise a stored vector could be of another
one), a closed record has no claimed job, and a job a requeue has locked is
still failed or expired when it is rewritten (otherwise a requeue could end a
running lease). One lemma per action; `SameRows`, `ClosedRows` and
`UnclaimedRow` are what they have in common. The assumption is
`ConstantsTyped`. That a token can always be drawn is not needed: a job whose
tokens are all remembered is not claimed, a bound that three tokens never reach
in the runs.

`tlapm RecordLocks_proofs.tla` proves, for any number of connections, requests and
records, and any targets and identities:

| Theorem | Statement |
| --- | --- |
| `LocksTyped` | `[]TypeOK`, no lock has two holders included |
| `EveryRevisionApproved`, `PurgeIsComplete` | the two halves of the next |
| `TablesStayInStep` | `[]TablesAgree` |
| `ClosedRecordsStay` | `ClosedStaysClosed` |
| `OnlyScansAndRepeatsDeadlock` | `[]OnlyScansDeadlock` |

The inductive invariant `IInv` says which locks a transaction holds at each of its
statements, and what it may rely on because of them: who is about to write a
record holds its advisory lock, the row it read unlocked is still what it read, a
purge that has collected its requests still has all of them in hand, since nobody
can file another one under the lock it holds. Without that a purge could leave a
request behind, or two approvals count one revision. `Global` holds of the tables,
`Local` of one transaction; a step changes one transaction, and lemmas say when the
others do not notice.

`Ordered`, the part of it that deadlock freedom rests on, says which locks come
first: whoever has any lock of a record has its advisory lock, unless it expires
records (`RecordFirst`), a request is locked by what is about it or by a purge that
deletes it (`LockedBy`, `OwnRequest`), and what a scan has locked it has come past
(`Scanning`). Take a set of transactions that wait for one another, none of which
repeats a create. A purge that deletes requests waits only for another one
of the same identity (`PurgesShare`): an approved request is reached only under the
advisory lock the purge has, so what they meet at is a pending create. An expiry
waits only for an expiry (`ExpiriesShare`). So if one of them waits, these are a
circle of their own, the one the property excepts (`NoPurgeStuck`,
`NoExpiryStuck`). Otherwise none waits for a request (`NoneAtRequest`) nor for a row
whose advisory lock it has (`NoneAtRecord`), all wait for an advisory lock and hold
nothing, and nobody waits for them (`OrderedNeverStuck`).

`tlapm InMemoryStore_proofs.tla` proves, for any number of profiles, records,
requests and candidates:

| Theorem | Statement |
| --- | --- |
| `InductiveInvariant` | `[]IInv` |
| `EveryChangeReviewed` | `[]ChangesReviewed` |
| `NothingFiledTwice` | `[]OneRequestEach` |
| `NoEarlyExpiry` | `[]WindowHonoured` |
| `StoreKeepsPromise` | `ImplementsVersionedRecords` |

The promises themselves are not inductive. `Filings` says what a request knows of
its record and its candidate, and that the revision it names was reached and is not
that of a tombstone (otherwise a closed record could be written again); `Chains`
that an existing record has one create, exactly one change at each earlier
revision, and the content of the latest write (otherwise a count of requests says
nothing about which of them); `WindowsKept` that a record which may still expire
ends when its create says. Every service command either settles a request, in one
of four ways (`SettleOutcome`), or leaves the records alone; `StepKinds` sorts the
steps of `Next` in that way, each conjunct of `IInv` has one lemma over these
kinds, and so has the refinement. The assumption is `StoreConstants`.

`Candidates_proofs` then extends the proofs about the workflow to the intake:

| Theorem | Statement |
| --- | --- |
| `IntakeConsistent` | `[]CInv` |
| `PurgesTakeTheirTraces` | `[]CandidatesIntact` |
| `OneUpdateEach` | `[]ConsolidatedOnce` |
| `OnlyNewPublished` | `PublishedAsNew` |

`CInv` is `LifeInv` of the workflow, the types of the intake, `ConsolidatedOnce`,
and per candidate `Related` (a new candidate is the one that relates to no record),
`Assigned` (a job belongs to a candidate and is leased exactly while it is
processed) and `Anchored` (what a candidate points to is there, and its request is
its submitter's). A purge erases the candidates of a record with it, so a link never
dangles; the other way round, the id of a request that is stored now was never used
before (`LifeInv`), so no candidate points to a stranger's. Every step of the
workflow is sorted by what it does to requests and records, and the candidates are
shown not to notice. Assumptions are those of `ApprovalWorkflow` and
`CandidateConstants`.

`tlapm Importer_proofs.tla` proves `ImportsConsistent` (`[]IInv`) and
`NothingIsLost` (`[]NothingLost`) for any profiles, runs and facts and any page
size. The invariant relates what a run has in hand to what it has reported: the page
is the facts after the last checkpoint without a gap, the report balances against
the candidates that are still open, and everything behind any checkpoint, also one
saved by another run or returned to a caller, was recorded or refused. The first is
what is needed: a checkpoint names the last fact of a page, and stands for all of
them. Checkpoints that are `ahead` are excepted, and the invariant follows how they
spread: from a dry run to its report, from there to a run and to what it stores. The assumption is `ImporterConstants`.

`tlapm Agent_proofs.tla` proves, for any queries, records, commands, requests,
extractors, turns and candidates:

| Theorem | Statement | Inductive invariant |
| --- | --- | --- |
| `AgentConsistent` | `[](RecallInv /\ DecisionsInv /\ TurnInv)` | |
| `RecallRecent` | `[]RecallIsRecent` | `RecallInv`: what the running prefetch has found was active since it began, and everything active since then is in `recent` |
| `OnlyPeopleDecide` | `[]PeopleDecide` | `DecisionsInv`: a command that is open remembers a request that was filed and was told nothing final before it was decided, and a button that was pressed is on record as said |
| `TurnsIsolateFailures` | `[]FailuresIsolated` | `TurnInv`: the extractors asked and those left are the ones that were due, and every candidate was tried or is kept as often as it was yielded |

`FailuresIsolated` speaks of the end of a turn; `TurnInv` is what holds in its
middle, where some candidates are tried and some still wait in a list (otherwise a
list dropped halfway would go unnoticed). How often a candidate was yielded is the
number of pairs of an extractor and a place, so asking one more extractor adds the
places of its items (`YieldedMore`), and `ItemsAre` says that these are the items
in their order, each once. The assumptions are the shapes of the constants,
`TurnConstants` those of a turn.

`tlapm Deployment_proofs.tla` proves, for any profiles, roles, answers, databases,
processes and releases, and any history a schema may have had:

| Theorem | Statement |
| --- | --- |
| `DeploymentConsistent` | `[](SetupInv /\ MigrationsInv /\ WaitsInv)` |
| `SettingsKept` | `[]SettingsHold` |
| `HistoryStaysInOrder` | `HistoryInOrder` |
| `PolicyComplete` | `[]PolicyOfOneBootstrap`, `NoDeadlock` included |

`SetupInv` says for each wizard what it relies on at its stage (`Backed`): what its
earlier stages did to the server is there, whatever other wizards did since, and so
is what the settings it read need. `ServerGrows` is why: passwords of known roles,
grants and bindings are never taken back, except the connect privilege of everybody,
and no settings count as `Ready` that need it. `Filed` says what an interrupted save
left in the files (otherwise a restore could bring back settings that no longer
work), also that a `config.yaml` replaced before a restore is that of a `torn`
profile, `Kept` what is there between wizards. `Backed` and `Filed` are stated for
the stages a wizard has reached, so each stage has one lemma that shows what it adds.

`MigrationsInv` says what the advisory lock is for: the holder's history stays the
beginning of its release, its uncommitted rows continue it up to `next`, and, if it
has created the table of policies itself, it fills those of every profile; without a
table there is no policy, and no bootstrap can commit, so there is nobody whose
policies it could miss. All others that migrate still wait for the lock, and rely on
nothing. `SeenIsRelease` draws the conclusion at the commit.

`NoDeadlock` is about who waits for whom: each statement's guard is that
`WaitsFor` of its transaction is empty, so a circle of transactions each of which
waits for another one is what a deadlock is. The argument follows the order in which
they lock. A migration waits for nobody but the holder of the advisory lock
(`MigrationWaits`), and the holder waits for nobody, so no migration is in a
circle. A bootstrap waits for one that has inserted the profile it wants to insert,
or for one that has written more policies of its profile (`BootstrapWaits`). One
that has inserted its profile waits for nobody: the row is new, and only one
transaction can have inserted a slug (`InsertedGoesOn`, by `WaitsInv`; without it
two of them could each hold what the other needs). So everyone in a circle would
wait for someone with more policies written, and there are only three policies
(`NobodyWaitsInACircle`); no assumption that processes are finitely many is needed.
Assumptions are `SetupConstants`, `MigrationsConstants` and `CarefulConstants`, the
shapes of the constants.

`tlapm Reads_proofs.tla` proves, for any records, values, filters, limits and
changes, and any words, distances and results of a text search:

| Theorem | Statement | Inductive invariant |
| --- | --- | --- |
| `ReadsConsistent` | `[](WalkInv /\ RankInv)` | |
| `WalksMissNothing` | `[]NoneMissed` | `WalkInv`: of the records that did not change, those behind the place of the walk have not been shown and those before it have been shown once; in the order of ids, what was shown ascends or descends |
| `StoresPageAlike` | `[]PagesAgree` | with the types of `WalkInv` |
| `RanksAreSound` | `[]RankingSound` | `RankInv`: no record is found by its words twice, distances are those there are, and the results are the front of the records by score |

All of them rest on what a sorted set is. `RanksAre` counts: in a total order of a
finite set the elements have as many others ahead of them as there are places, each
number once (an injection between finite sets of one size is onto, which is where
induction over data hides in the library's theorems); so `SortedIs` and `SortedOrder`
say that `Sorted` holds every element once and in order, and `SortedOnly` that
nothing else does.

For the walk, `SqlOrderTotal` shows that ORDER BY with NULLS LAST and ids is a total
order, `AfterIs` that the keyset condition says what comes after the cursor in it,
and `AfterUp` that what comes after something that comes after the cursor does so as
well. A page is then the front of what is left (`PageIs`), and its last record
divides what is left into what was shown and what is to come (`PageShown`). The
invariant has to know the key that the first statement has read: once it has, even
the cursor's record may change (`PlaceOf`). `DisturbedStep` needs the exception that
`NoneMissed` makes, in a sorted walk and there only. `PagesAreEqual` shows that the
list of the in-memory store, present and missing fields sorted apart, is in the same
order, and that what stands behind the cursor's place in it is what the keyset
condition selects.

For the ranking, a reciprocal rank strictly decreases with the place (`ReciprocalIs`,
which is why `Scale` has to be divisible), so being not behind in either list gives
no smaller sum (`ByWordsIs`, `ByVectorIs`). A vector at the greatest distance counts
for nothing and its place for nothing: there the two scores are equal, and
`EvidenceDecides` needs that the vectors and the results break their ties by the same
ids. Assumptions are `SearchConstants` and `RankConstants`.

Proved are thus all invariants and all action properties the runs check, and both
refinements. Only model-checked is liveness (`JobsSettle`, `EverythingImported`,
`RerunsSucceed`, `CommandsReply`), which needs `ENABLED`. What the proofs assume of the
code is what the modules say: the map from one to the other is read, not proved.

## Not modelled

- Matching of words, the `contains` filter, several filters at once, collation of
  strings, ties of floating point scores, and export: plain reads without a
  decision that steps could disturb.
- Row-level security of reads; the guarded reads that change something are there.
- Configuration, texts, command line, the rewriting of schema names, the OpenCode
  wrapper: no state. The Ollama client is one request that answers or does not.
- `resources/runtime_grants.sql`: statements that setup runs in one step.
- `record_relation`, which nothing writes.
