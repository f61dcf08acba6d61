-------------------------- MODULE ApprovalWorkflow --------------------------
(***************************************************************************)
(* The canonical memory of the PostgreSQL store: records with their        *)
(* append-only revision history, the change requests that are the only     *)
(* way to alter them, and the lifecycle operations (retention, expiry,     *)
(* two-admin hard purge) that act on them beside the approval workflow.    *)
(*                                                                         *)
(* One action is one SECURITY DEFINER function call.  Each of them runs in *)
(* a transaction that first takes the advisory lock of the record and then *)
(* row locks, so its reads and writes are one step here.  A call that      *)
(* raises an exception writes nothing: the exception's negation is a       *)
(* conjunct of the action.  A call that returns without a write is a       *)
(* stuttering step and has no action.                                      *)
(***************************************************************************)
EXTENDS Integers, FiniteSets

CONSTANTS
  Profiles,         \* rows of profile
  Namespaces,       \* rows of namespace
  Owner,            \* owner_profile_id of each namespace
  Types,            \* record types other than the definition type
  Identities,       \* identity keys of records
  DefinitionType,   \* '__inventory_definition__'
  Fields, Values,   \* what a JSON payload is made of
  Required,         \* the fields every inventory definition requires
  CreatePayloads,   \* the payloads callers submit with a create
  UpdatePayloads,   \* the payloads callers submit with an update
  UpdateModes,      \* the update modes callers submit
  Inventories,      \* the types callers propose a definition for
  Windows,          \* the validity windows callers submit with a create
  RevisionHints,    \* the expected revisions callers name explicitly
  LookAhead,        \* whether a caller may name a revision not reached yet
  Policies,         \* the operation policies each profile may be given
  InitialPolicy,    \* the seeded one
  Grantable,        \* bound: the grants an administrator may add
  InitialGrants,    \* the grants there are at first
  Retentions,       \* the retention periods an administrator may choose
  Ttl,              \* ttl_seconds of every policy
  ExpiryLimits,     \* the limits callers pass to expire_records
  Ids,              \* bound: the uuids of change requests and records
  PurgeIds,         \* bound: the uuids of hard purge requests
  CandidateIds,     \* bound: the uuids of memory candidates
  MaxTime,          \* bound: the last instant
  Absent, Keep,     \* no such field; field not mentioned by a patch
  Null              \* SQL NULL

Operations == {"create", "update", "delete"}
Capabilities == {"read", "propose", "approve", "admin"}
Actions == {"require", "auto", "deny"}

\* A definition's identity key is the type it defines.
Keys == Identities \cup Types

Payloads == [Fields -> Values \cup {Absent}]
Patches == [Fields -> Values \cup {Absent, Keep}]
Time == Nat
Deadline == Time \cup {Null}

ASSUME ConstantsDistinct ==
  /\ DefinitionType \notin Types
  /\ Absent \notin Values /\ Keep \notin Values /\ Absent # Keep
  /\ Null \notin Ids /\ Null \notin Nat /\ Null \notin Profiles

ASSUME ConstantsTyped ==
  /\ Owner \in [Namespaces -> Profiles]
  /\ Required \subseteq Fields
  /\ CreatePayloads \subseteq Patches /\ UpdatePayloads \subseteq Patches
  /\ UpdateModes \subseteq {"patch", "replace"} /\ Inventories \subseteq Types
  /\ Windows \subseteq [valid_from : Deadline, valid_to : Deadline]
  /\ RevisionHints \subseteq Nat /\ LookAhead \in BOOLEAN
  /\ InitialPolicy \in [Profiles -> [Operations -> Actions]]
  /\ Policies \in [Profiles -> SUBSET [Operations -> Actions]]
  /\ Grantable \subseteq Namespaces \X Profiles \X Capabilities
  /\ InitialGrants \subseteq Namespaces \X Profiles \X Capabilities
  /\ Retentions \subseteq (Nat \ {0}) \cup {Null}
  /\ Ttl \in Nat \ {0} /\ MaxTime \in Nat
  /\ ExpiryLimits \subseteq Nat \ {0}

\* The CHECK constraints change_request_validity_range: a window is not empty.
ASSUME WindowsAreRanges ==
  \A w \in Windows : w.valid_from # Null /\ w.valid_to # Null
                       => w.valid_to > w.valid_from

VARIABLES
  clock,        \* now(), the same throughout a transaction
  grants,       \* namespace_grant
  policy,       \* operation_policy
  definitions,  \* memory_type with its first memory_schema_version
  retention,    \* namespace_retention_policy
  issued,       \* the uuids drawn for change requests so far
  request,      \* change_request joined with change_request_private
  record,       \* record
  revisions,    \* record_revision
  purge,        \* hard_purge_request
  audit         \* hard_purge_audit

vars == <<clock, grants, policy, definitions, retention, issued, request,
          record, revisions, purge, audit>>

\* What apply_change_request may write besides the request it settles.
canon == <<record, revisions, definitions>>
admin == <<grants, policy, retention>>
erasure == <<purge, audit>>

NoRequest == [status |-> "none"]
NoRecord == [status |-> "none"]
NoPurge == [status |-> "none"]

----------------------------------------------------------------------------
(* Types of the rows *)

\* What the idempotency digest of a submission is computed from; the key of a
\* submission made for a memory candidate names the candidate.
Submission ==
  [requester_id : Profiles, namespace_id : Namespaces, operation : Operations,
   record_id : Ids \cup {Null}, record_type : Types \cup {DefinitionType},
   identity_key : Keys, payload : Patches,
   expected_revision : Nat \cup {Null}, valid_from : Deadline,
   valid_to : Deadline, update_mode : {"patch", "replace"},
   candidate : CandidateIds \cup {Null}]

Decided == {"approved", "rejected", "expired", "superseded"}

RequestRow ==
  [submitted : Submission, record_id : Ids \cup {Null},
   expected_revision : Nat \cup {Null}, payload : Payloads,
   policy_action : Actions, status : {"pending"} \cup Decided,
   decided_by : Profiles \cup {Null}, expires_at : Time]

RecordRow ==
  [status : {"active", "expired", "tombstoned"}, namespace_id : Namespaces,
   record_type : Types, identity_key : Keys, revision : Nat \ {0},
   payload : Payloads, valid_from : Time, valid_to : Deadline]

RevisionRow ==
  [record_id : Ids, revision : Nat \ {0}, operation : Operations,
   payload : Payloads, actor : Profiles]

PurgeRow ==
  [status : {"pending", "purged"}, namespace_id : Namespaces, record_id : Ids,
   record_type : Types, identity_key : Keys, requested_by : Profiles,
   approved_by : Profiles \cup {Null}]

AuditRow ==
  [request_id : PurgeIds, record_id : Ids, final_revision : Nat \ {0},
   requested_by : Profiles, approved_by : Profiles]

\* Every variable holds rows of its table.
TypeOK ==
  /\ clock \in Time
  /\ grants \subseteq Namespaces \X Profiles \X Capabilities
  /\ policy \in [Profiles -> [Operations -> Actions]]
  /\ definitions \subseteq Namespaces \X Keys
  /\ retention \in [Namespaces -> (Nat \ {0}) \cup {Null}]
  /\ issued \subseteq Ids
  /\ request \in [Ids -> RequestRow \cup {NoRequest}]
  /\ record \in [Ids -> RecordRow \cup {NoRecord}]
  /\ revisions \subseteq RevisionRow
  /\ purge \in [PurgeIds -> PurgeRow \cup {NoPurge}]
  /\ audit \subseteq AuditRow

Init ==
  /\ clock = 0
  /\ grants = InitialGrants
  /\ policy = InitialPolicy
  /\ definitions = {}
  /\ retention = [n \in Namespaces |-> Null]
  /\ issued = {}
  /\ request = [i \in Ids |-> NoRequest]
  /\ record = [i \in Ids |-> NoRecord]
  /\ revisions = {}
  /\ purge = [i \in PurgeIds |-> NoPurge]
  /\ audit = {}

----------------------------------------------------------------------------
(* Payloads and capabilities *)

Blank == [f \in Fields |-> Absent]
Untouched == [f \in Fields |-> Keep]

\* jsonb_merge_patch over the payload's leaves: a null removes, what the
\* patch does not mention stays.
MergePatch(target, patch) ==
  [f \in Fields |-> IF patch[f] = Keep THEN target[f] ELSE patch[f]]

\* has_capability: the owner has every capability, others what was granted.
HasCapability(p, ns, capability) ==
  Owner[ns] = p \/ <<ns, p, capability>> \in grants

\* validate_submission_payload, once a definition of the type is active.
Conforms(ns, type, payload) ==
  <<ns, type>> \in definitions => \A f \in Required : payload[f] # Absent

\* Mutant of ActiveRecord: the status is not looked at.
RecordInAnyStatus(i, ns, type, identity) ==
  /\ record[i].status # "none"
  /\ record[i].namespace_id = ns
  /\ record[i].record_type = type
  /\ record[i].identity_key = identity

ActiveRecord(i, ns, type, identity) ==
  /\ record[i].status = "active"
  /\ record[i].namespace_id = ns
  /\ record[i].record_type = type
  /\ record[i].identity_key = identity

----------------------------------------------------------------------------
(* apply_change_request: settle a pending request *)

IsDefinition(q) == q.submitted.record_type = DefinitionType
IsCreate(q) == q.submitted.operation = "create" /\ ~IsDefinition(q)
IsMutation(q) == q.submitted.operation # "create" /\ ~IsDefinition(q)

\* now() for COALESCE(valid_from, now())
ValidFrom(s) == IF s.valid_from = Null THEN clock ELSE s.valid_from

\* Mutant of StillValid: the window is not looked at again on approval.
ValidWhenSubmitted(s) == TRUE

\* The window has not closed before the record would be inserted.
StillValid(s) == s.valid_to = Null \/ s.valid_to > ValidFrom(s)

\* Mutant of AtExpectedRevision: the last approval wins.
AtAnyRevision(q) ==
  ActiveRecord(q.record_id, q.submitted.namespace_id,
               q.submitted.record_type, q.submitted.identity_key)

\* The target is the active record the request was submitted for, still at
\* the revision captured at submission.
AtExpectedRevision(q) ==
  /\ ActiveRecord(q.record_id, q.submitted.namespace_id,
                  q.submitted.record_type, q.submitted.identity_key)
  /\ record[q.record_id].revision = q.expected_revision

\* Mutant of IdentityFree: no unique index.
IdentityUnchecked(s) == TRUE

\* The partial unique index record_active_identity admits the record.
IdentityFree(s) ==
  \A i \in Ids :
    ~ActiveRecord(i, s.namespace_id, s.record_type, s.identity_key)

Applicable(q) ==
  \/ /\ IsDefinition(q)
     /\ <<q.submitted.namespace_id, q.submitted.identity_key>> \notin definitions
  \/ IsCreate(q) /\ StillValid(q.submitted) /\ IdentityFree(q.submitted)
  \/ IsMutation(q) /\ AtExpectedRevision(q)

Verdict(q, decision) ==
  IF q.expires_at <= clock THEN "expired"
  ELSE IF decision = "reject" THEN "rejected"
  ELSE IF Applicable(q) THEN "approved" ELSE "superseded"

\* The BEFORE INSERT trigger record_namespace_retention.
RetainedUntil(s) ==
  IF s.valid_to = Null /\ retention[s.namespace_id] # Null
  THEN ValidFrom(s) + retention[s.namespace_id] ELSE s.valid_to

NewRecord(q) ==
  [status |-> "active", namespace_id |-> q.submitted.namespace_id,
   record_type |-> q.submitted.record_type,
   identity_key |-> q.submitted.identity_key, revision |-> 1,
   payload |-> q.payload, valid_from |-> ValidFrom(q.submitted),
   valid_to |-> RetainedUntil(q.submitted)]

\* Direct submissions of an update carry no validity, so COALESCE keeps the
\* record's.
MutatedRecord(q) ==
  IF q.submitted.operation = "update"
  THEN [record[q.record_id] EXCEPT !.revision = @ + 1, !.payload = q.payload]
  ELSE [record[q.record_id] EXCEPT !.revision = @ + 1, !.status = "tombstoned"]

Revision(i, row, operation, actor) ==
  [record_id |-> i, revision |-> row.revision, operation |-> operation,
   payload |-> row.payload, actor |-> actor]

\* What an approval writes to the canonical tables.
Publish(i, q, actor) ==
  \/ /\ IsDefinition(q)
     /\ definitions' = definitions \cup
          {<<q.submitted.namespace_id, q.submitted.identity_key>>}
     /\ UNCHANGED <<record, revisions>>
  \/ /\ IsCreate(q)
     /\ record' = [record EXCEPT ![i] = NewRecord(q)]
     /\ revisions' = revisions \cup {Revision(i, NewRecord(q), "create", actor)}
     /\ UNCHANGED definitions
  \/ /\ IsMutation(q)
     /\ record' = [record EXCEPT ![q.record_id] = MutatedRecord(q)]
     /\ revisions' = revisions \cup
          {Revision(q.record_id, MutatedRecord(q), q.submitted.operation, actor)}
     /\ UNCHANGED definitions

Settled(i, q, verdict, actor) ==
  [q EXCEPT !.status = verdict,
            !.decided_by = IF verdict = "expired" THEN Null ELSE actor,
            !.record_id = IF verdict = "approved" /\ IsCreate(q) THEN i ELSE @]

\* The rows are written under the verdict; an approval of a payload that a
\* definition activated meanwhile forbids raises, and nothing is written.
ApplyChangeRequest(i, q, decision, actor) ==
  LET verdict == Verdict(q, decision) IN
  /\ verdict \in {"approved", "superseded"} /\ ~IsDefinition(q) =>
       Conforms(q.submitted.namespace_id, q.submitted.record_type, q.payload)
  /\ request' = [request EXCEPT ![i] = Settled(i, q, verdict, actor)]
  /\ IF verdict = "approved" THEN Publish(i, q, actor) ELSE UNCHANGED canon

----------------------------------------------------------------------------
(* submit_change_request *)

PolicyAction(s) == policy[s.requester_id][s.operation]

\* A mutation reads its target under the record's lock.
TargetActive(s) ==
  ActiveRecord(s.record_id, s.namespace_id, s.record_type, s.identity_key)

\* Mutant of FinalPayload: every update replaces.
ReplacedPayload(s) ==
  IF s.operation = "delete" THEN record[s.record_id].payload
  ELSE MergePatch(Blank, s.payload)

\* What will be stored: a patch is merged into the payload of the target as
\* it is now.
FinalPayload(s) ==
  IF s.operation = "delete" THEN record[s.record_id].payload
  ELSE IF s.operation = "update" /\ s.update_mode = "patch"
       THEN MergePatch(record[s.record_id].payload, s.payload)
       ELSE MergePatch(Blank, s.payload)

CapturedRevision(s) ==
  IF s.operation = "create" THEN Null
  ELSE IF s.expected_revision = Null THEN record[s.record_id].revision
  ELSE s.expected_revision

NewRequest(s) ==
  [submitted |-> s, record_id |-> s.record_id,
   expected_revision |-> CapturedRevision(s), payload |-> FinalPayload(s),
   policy_action |-> PolicyAction(s), status |-> "pending",
   decided_by |-> Null, expires_at |-> clock + Ttl]

Admissible(s) ==
  /\ HasCapability(s.requester_id, s.namespace_id, "propose")
  /\ PolicyAction(s) # "deny"
  /\ s.operation # "create" => TargetActive(s)
  /\ s.record_type # DefinitionType =>
       Conforms(s.namespace_id, s.record_type, FinalPayload(s))

\* The row the unique idempotency_key leads to.
Holds(i, s) == request[i].status # "none" /\ request[i].submitted = s

\* gen_random_uuid: ids are only ever compared, so any unused one will do.
NewId == CHOOSE i \in Ids : i \notin issued

\* Whether the caller has reached the revision it names.
HintReached(s) ==
  s.expected_revision # Null /\ ~LookAhead =>
    s.expected_revision <= record[s.record_id].revision

SubmitChangeRequest(s) ==
  /\ Admissible(s)
  /\ ~\E i \in Ids : Holds(i, s)
  /\ issued # Ids
  /\ issued' = issued \cup {NewId}
  /\ \/ /\ PolicyAction(s) = "require"
        /\ request' = [request EXCEPT ![NewId] = NewRequest(s)]
        /\ UNCHANGED canon
     \/ /\ PolicyAction(s) = "auto"
        /\ ApplyChangeRequest(NewId, NewRequest(s), "approve", s.requester_id)
  /\ UNCHANGED <<clock, admin, erasure>>

\* Mutant of ResubmitChangeRequest: today's policy decides alone.
ResubmitUnderAnyPolicy(s) ==
  /\ Admissible(s)
  /\ PolicyAction(s) = "auto"
  /\ \E i \in Ids :
       /\ Holds(i, s)
       /\ request[i].status = "pending"
       /\ ApplyChangeRequest(i, request[i], "approve", s.requester_id)
  /\ UNCHANGED <<clock, admin, erasure, issued>>

\* ON CONFLICT keeps the first row; under an auto policy that row is applied,
\* if it was itself submitted under one or the requester may approve.
ResubmitChangeRequest(s) ==
  /\ Admissible(s)
  /\ PolicyAction(s) = "auto"
  /\ \E i \in Ids :
       /\ Holds(i, s)
       /\ request[i].status = "pending"
       /\ \/ request[i].policy_action = "auto"
          \/ HasCapability(s.requester_id, s.namespace_id, "approve")
       /\ ApplyChangeRequest(i, request[i], "approve", s.requester_id)
  /\ UNCHANGED <<clock, admin, erasure, issued>>

Submit(s) == SubmitChangeRequest(s) \/ ResubmitChangeRequest(s)

ProposeCreate(p) ==
  \E ns \in Namespaces, type \in Types, identity \in Identities,
     payload \in CreatePayloads, w \in Windows :
    Submit([valid_from |-> w.valid_from, valid_to |-> w.valid_to,
            requester_id |-> p, namespace_id |-> ns, operation |-> "create",
            record_id |-> Null, record_type |-> type,
            identity_key |-> identity, payload |-> payload,
            expected_revision |-> Null, update_mode |-> "patch",
            candidate |-> Null])

ProposeInventory(p) ==
  \E ns \in Namespaces, type \in Inventories :
    Submit([valid_from |-> Null, valid_to |-> Null, requester_id |-> p,
            namespace_id |-> ns, operation |-> "create",
            record_id |-> Null, record_type |-> DefinitionType,
            identity_key |-> type, payload |-> Untouched,
            expected_revision |-> Null, update_mode |-> "patch",
            candidate |-> Null])

\* An update or a delete of record r, in the namespace the caller names; the
\* type and the identity are the target's.
Mutation(p, ns, r, operation, payload, hint, mode) ==
  [requester_id |-> p, namespace_id |-> ns, operation |-> operation,
   record_id |-> r, record_type |-> record[r].record_type,
   identity_key |-> record[r].identity_key, payload |-> payload,
   expected_revision |-> hint, valid_from |-> Null, valid_to |-> Null,
   update_mode |-> mode, candidate |-> Null]

ProposeMutation(p) ==
  \E ns \in Namespaces, r \in Ids, hint \in RevisionHints \cup {Null} :
    /\ record[r].status = "active"
    /\ \/ \E payload \in UpdatePayloads, mode \in UpdateModes :
            LET s == Mutation(p, ns, r, "update", payload, hint, mode)
            IN HintReached(s) /\ Submit(s)
       \/ LET s == Mutation(p, ns, r, "delete", Untouched, hint, "patch")
          IN HintReached(s) /\ Submit(s)

\* Mutant of DecideChangeRequest: a decided request is decided again.
DecideAgain(p, i, decision) ==
  /\ request[i].status # "none"
  /\ HasCapability(p, request[i].submitted.namespace_id, "approve")
  /\ ApplyChangeRequest(i, request[i], decision, p)
  /\ UNCHANGED <<clock, admin, erasure, issued>>

\* decide_change_request: a human's decision on a pending request.
DecideChangeRequest(p, i, decision) ==
  /\ request[i].status = "pending"
  /\ HasCapability(p, request[i].submitted.namespace_id, "approve")
  /\ ApplyChangeRequest(i, request[i], decision, p)
  /\ UNCHANGED <<clock, admin, erasure, issued>>

----------------------------------------------------------------------------
(* Lifecycle and administration *)

\* What expire_records selects for profile p.
Due(p) ==
  {r \in Ids : /\ record[r].status = "active"
               /\ record[r].valid_to # Null
               /\ record[r].valid_to <= clock
               /\ HasCapability(p, record[r].namespace_id, "approve")}

\* The earliest due records up to the limit; the revision is not touched.
ExpireRecords(p, limit) ==
  \E S \in SUBSET Due(p) :
    /\ S # {}
    /\ Cardinality(S) <= limit
    /\ Cardinality(S) < limit => S = Due(p)
    /\ \A r \in S, o \in Due(p) \ S : record[r].valid_to <= record[o].valid_to
    /\ record' = [r \in Ids |-> IF r \in S
                                THEN [record[r] EXCEPT !.status = "expired"]
                                ELSE record[r]]
    /\ UNCHANGED <<clock, admin, erasure, issued, request, revisions,
                   definitions>>

SetNamespaceRetention(p, ns, period) ==
  /\ HasCapability(p, ns, "admin")
  /\ retention' = [retention EXCEPT ![ns] = period]
  /\ UNCHANGED <<clock, grants, policy, canon, erasure, issued, request>>

\* store.grant; nothing in the program takes a grant back.
Grant(p, ns, grantee, capability) ==
  /\ HasCapability(p, ns, "admin")
  /\ grants' = grants \cup {<<ns, grantee, capability>>}
  /\ UNCHANGED <<clock, policy, retention, canon, erasure, issued, request>>

\* DatabaseMigrator.bootstrap_profile reconciles the stored policy.
BootstrapProfile(p, newPolicy) ==
  /\ policy' = [policy EXCEPT ![p] = newPolicy]
  /\ UNCHANGED <<clock, grants, retention, canon, erasure, issued, request>>

RequestHardPurge(p, ns, r, i) ==
  /\ HasCapability(p, ns, "admin")
  /\ record[r].status # "none" /\ record[r].namespace_id = ns
  /\ purge[i] = NoPurge
  /\ purge' = [purge EXCEPT ![i] =
       [status |-> "pending", namespace_id |-> ns, record_id |-> r,
        record_type |-> record[r].record_type,
        identity_key |-> record[r].identity_key,
        requested_by |-> p, approved_by |-> Null]]
  /\ UNCHANGED <<clock, admin, canon, audit, issued, request>>

\* Mutant of StaleCreate: decided creates of the identity go too.
AnyCreate(i, r) ==
  /\ request[i].status # "none"
  /\ request[i].submitted.operation = "create"
  /\ request[i].submitted.namespace_id = record[r].namespace_id
  /\ request[i].submitted.record_type = record[r].record_type
  /\ request[i].submitted.identity_key = record[r].identity_key

\* Pending creates that would bring the purged identity back.
StaleCreate(i, r) ==
  /\ request[i].status = "pending"
  /\ request[i].submitted.operation = "create"
  /\ request[i].submitted.namespace_id = record[r].namespace_id
  /\ request[i].submitted.record_type = record[r].record_type
  /\ request[i].submitted.identity_key = record[r].identity_key

\* Mutant of ConcernsRecord: the create that became the record is missed.
SubmittedForRecord(i, r) ==
  request[i].status # "none" /\ request[i].submitted.record_id = r

ConcernsRecord(i, r) ==
  request[i].status # "none" /\ request[i].record_id = r

ApproveHardPurge(p, i) ==
  LET q == purge[i]
      r == q.record_id
  IN /\ q.status = "pending"
     /\ HasCapability(p, q.namespace_id, "admin")
     /\ q.requested_by # p
     /\ record[r].status # "none" /\ record[r].namespace_id = q.namespace_id
     /\ audit' = audit \cup
          {[request_id |-> i, record_id |-> r,
            final_revision |-> record[r].revision,
            requested_by |-> q.requested_by, approved_by |-> p]}
     /\ request' = [j \in Ids |-> IF ConcernsRecord(j, r) \/ StaleCreate(j, r)
                                  THEN NoRequest ELSE request[j]]
     /\ revisions' = {v \in revisions : v.record_id # r}
     /\ record' = [record EXCEPT ![r] = NoRecord]
     /\ purge' = [purge EXCEPT ![i].status = "purged", ![i].approved_by = p]
     /\ UNCHANGED <<clock, admin, definitions, issued>>

Tick ==
  /\ clock < MaxTime
  /\ clock' = clock + 1
  /\ UNCHANGED <<admin, canon, erasure, issued, request>>

----------------------------------------------------------------------------
Next ==
  \/ \E p \in Profiles :
       \/ ProposeCreate(p) \/ ProposeInventory(p) \/ ProposeMutation(p)
       \/ \E i \in Ids, decision \in {"approve", "reject"} :
            DecideChangeRequest(p, i, decision)
       \/ \E limit \in ExpiryLimits : ExpireRecords(p, limit)
       \/ \E ns \in Namespaces, period \in Retentions :
            SetNamespaceRetention(p, ns, period)
       \/ \E g \in Grantable : Grant(p, g[1], g[2], g[3])
       \/ \E newPolicy \in Policies[p] : BootstrapProfile(p, newPolicy)
       \/ \E ns \in Namespaces, r \in Ids, i \in PurgeIds :
            RequestHardPurge(p, ns, r, i)
       \/ \E i \in PurgeIds : ApproveHardPurge(p, i)
  \/ Tick

Spec == Init /\ [][Next]_vars

----------------------------------------------------------------------------
(* Properties *)

\* At most one active record per namespace, type and identity, however many
\* pending creates of it are approved.
OneActivePerIdentity ==
  \A r, o \in Ids :
    /\ record[r].status = "active" /\ record[o].status = "active"
    /\ record[r].namespace_id = record[o].namespace_id
    /\ record[r].record_type = record[o].record_type
    /\ record[r].identity_key = record[o].identity_key
    => r = o

\* The history of a record is its revisions 1, 2, ... up to the current one,
\* each written once, and the last one holds the current payload and is a
\* delete exactly when the record is tombstoned.
HistoryIsComplete ==
  /\ \A v \in revisions :
       /\ record[v.record_id].status # "none"
       /\ v.revision <= record[v.record_id].revision
       /\ \A w \in revisions :
            w.record_id = v.record_id /\ w.revision = v.revision => w = v
  /\ \A r \in Ids : record[r].status # "none" =>
       /\ \A n \in 1..record[r].revision :
            \E v \in revisions : v.record_id = r /\ v.revision = n
       /\ \A v \in revisions :
            v.record_id = r /\ v.revision = record[r].revision =>
              /\ v.payload = record[r].payload
              /\ v.operation = "delete" <=> record[r].status = "tombstoned"

\* The revision an approved request produced.
Produced(i, v) ==
  /\ v.record_id = request[i].record_id
  /\ v.operation = request[i].submitted.operation
  /\ v.revision = IF v.operation = "create" THEN 1
                  ELSE request[i].expected_revision + 1

Published(i) == request[i].status = "approved" /\ ~IsDefinition(request[i])

\* Every revision was approved, by the request that names it and with the
\* payload that was reviewed, and no approval is applied twice or lost: each
\* approved request has its revision and no two share one.
EveryRevisionApproved ==
  /\ \A v \in revisions : \E i \in Ids :
       /\ Published(i) /\ Produced(i, v)
       /\ v.operation # "delete" => v.payload = request[i].payload
       /\ v.actor = request[i].decided_by
  /\ \A i \in Ids : Published(i) => \E v \in revisions : Produced(i, v)
  /\ \A i, j \in Ids :
       /\ Published(i) /\ Published(j)
       /\ \E v \in revisions : Produced(i, v) /\ Produced(j, v)
       => i = j

\* Row, history and approvals never drift apart, whatever order submissions,
\* decisions, expiry and purges of other generations come in.
HistoryApproved == HistoryIsComplete /\ EveryRevisionApproved

\* An approved patch changed the fields it names in the revision it replaces
\* and no other.
OmittedFieldsPreserved ==
  \A i \in Ids, v, w \in revisions :
    /\ Published(i) /\ Produced(i, v)
    /\ request[i].submitted.operation = "update"
    /\ request[i].submitted.update_mode = "patch"
    /\ w.record_id = v.record_id /\ w.revision + 1 = v.revision
    => \A f \in Fields : request[i].submitted.payload[f] = Keep
                           => v.payload[f] = w.payload[f]

\* A record changes only by someone the namespace's owner trusts to approve,
\* or by a requester whose submission was stored under the auto policy.
ApprovalsAuthorised ==
  \A i \in Ids :
    request[i].status = "approved" =>
      \/ HasCapability(request[i].decided_by,
                       request[i].submitted.namespace_id, "approve")
      \/ /\ request[i].policy_action = "auto"
         /\ request[i].decided_by = request[i].submitted.requester_id

\* After a purge nothing of the record is left, and it never comes back: no
\* row, no revision and no request that names it.  Two people erased it.
PurgeErases ==
  \A a \in audit :
    /\ record[a.record_id] = NoRecord
    /\ \A v \in revisions : v.record_id # a.record_id
    /\ \A i \in Ids : request[i].status # "none" =>
         request[i].record_id # a.record_id
    /\ a.requested_by # a.approved_by
    /\ purge[a.request_id].status = "purged"

\* A decided request keeps its outcome until a purge erases it, and a record
\* that was tombstoned or expired never becomes active again: no second
\* decision, resubmission, late approval or expiry pass reopens what is settled.
DecisionsAreFinal ==
  [][/\ \A i \in Ids : request[i].status \in Decided =>
          request'[i] \in {request[i], NoRequest}
     /\ \A r \in Ids : record[r].status \in {"expired", "tombstoned"} =>
          record'[r] \in {record[r], NoRecord}]_vars

\* However long a create waits for its approval, the record it publishes has
\* a window that was still open then and closes when the requester asked for;
\* retention only closes windows that were left open, and a record is marked
\* expired only once its window has closed.
ValidityHonoured ==
  \A r \in Ids :
    record[r].status # "none" =>
      /\ record[r].valid_to # Null => record[r].valid_to > record[r].valid_from
      /\ request[r].submitted.valid_to # Null =>
           record[r].valid_to = request[r].submitted.valid_to
      /\ record[r].status = "expired" =>
           record[r].valid_to # Null /\ record[r].valid_to <= clock

\* Refinement: what the store promises whoever uses it.
Slots == Namespaces \X Types \X Keys

CellOf(r) ==
  IF \E a \in audit : a.record_id = r THEN [state |-> "erased"]
  ELSE IF record[r].status = "none" THEN [state |-> "unborn"]
  ELSE [state |-> IF record[r].status = "active" THEN "live" ELSE "closed",
        slot |-> <<record[r].namespace_id, record[r].record_type,
                   record[r].identity_key>>,
        version |-> record[r].revision, content |-> record[r].payload]

Promise == INSTANCE VersionedRecords WITH
  Contents <- Payloads, cell <- [r \in Ids |-> CellOf(r)]

\* The approval workflow implements the promise.
ImplementsVersionedRecords == Promise!Spec

=============================================================================
