-------------------------- MODULE Candidates_proofs --------------------------
(***************************************************************************)
(* Theorems about ApprovalWorkflow and about Candidates, which extends it, *)
(* for every value of their constants.  First the workflow: its            *)
(* invariants, that it keeps the promise of VersionedRecords, and that the *)
(* history and the windows it publishes are those that were approved.      *)
(* Then the intake, on top of it.                                          *)
(***************************************************************************)
EXTENDS Candidates, TLAPS

USE DEF Operations, Actions, Time, Deadline

\* An update or a delete names the record it is about.
MutationsHaveTargets ==
  \A i \in Ids : request[i].status # "none" /\ IsMutation(request[i])
                   => request[i].record_id \in Ids

TypeInv == TypeOK /\ MutationsHaveTargets

----------------------------------------------------------------------------
(* Helpers *)

\* A patch merged into a payload is a payload: nothing of the patch leaks.
LEMMA MergedIsPayload ==
  ASSUME NEW target \in Payloads, NEW patch \in Patches
  PROVE  MergePatch(target, patch) \in Payloads
BY DEF MergePatch, Payloads, Patches

\* The payload with no field at all is a payload.
LEMMA BlankIsPayload == Blank \in Payloads
BY DEF Blank, Payloads

\* The patch that mentions no field is a patch.
LEMMA UntouchedIsPatch == Untouched \in Patches
BY DEF Untouched, Patches

\* While there is an id left, the new one was never drawn before.
LEMMA NewIdIsFresh ==
  ASSUME issued \subseteq Ids, issued # Ids
  PROVE  NewId \in Ids /\ NewId \notin issued
<1>1. \E i \in Ids : i \notin issued
  OBVIOUS
<1> QED
  BY <1>1 DEF NewId

\* A row is told apart from the absence of one by its status.
LEMMA RowsExist ==
  ASSUME TypeOK
  PROVE  /\ \A i \in Ids : request[i].status # "none" => request[i] \in RequestRow
         /\ \A i \in Ids : record[i].status # "none" => record[i] \in RecordRow
         /\ \A i \in PurgeIds : purge[i].status # "none" => purge[i] \in PurgeRow
BY DEF TypeOK, NoRequest, NoRecord, NoPurge, RequestRow, RecordRow, PurgeRow

----------------------------------------------------------------------------
(* Submissions *)

\* What the actions submit: a row of the right type that names a target
\* exactly when it needs one.
Proper(s) ==
  /\ s \in Submission
  /\ IF s.operation = "create" THEN s.record_id = Null ELSE s.record_id \in Ids

\* The record a new request names is there, and active.
Targeted(q) == q.record_id \in Ids => record[q.record_id].status = "active"

\* The request a submission leads to is a pending row about its target.
LEMMA NewRequestIsRow ==
  ASSUME TypeOK, NEW s, Proper(s), Admissible(s)
  PROVE  /\ NewRequest(s) \in RequestRow
         /\ NewRequest(s).status = "pending"
         /\ NewRequest(s).submitted = s
         /\ IsMutation(NewRequest(s)) => NewRequest(s).record_id \in Ids
         /\ Targeted(NewRequest(s))
<1>1. s.operation # "create" => record[s.record_id] \in RecordRow
  BY RowsExist DEF Proper, Admissible, TargetActive, ActiveRecord
<1>2. FinalPayload(s) \in Payloads
  <2>1. s.payload \in Patches /\ s.operation \in {"create", "update", "delete"}
    BY DEF Proper, Submission
  <2>2. CASE s.operation = "create"
    BY <2>1, <2>2, MergedIsPayload, BlankIsPayload DEF FinalPayload
  <2>3. CASE s.operation # "create"
    <3>1. record[s.record_id].payload \in Payloads
      BY <1>1, <2>3 DEF RecordRow
    <3> QED
      BY <2>1, <2>3, <3>1, MergedIsPayload, BlankIsPayload DEF FinalPayload
  <2> QED
    BY <2>2, <2>3
<1>3. CapturedRevision(s) \in Nat \cup {Null}
  <2>1. CASE s.operation = "create"
    BY <2>1 DEF CapturedRevision
  <2>2. CASE s.operation # "create"
    <3>1. record[s.record_id].revision \in Nat
      BY <1>1, <2>2 DEF RecordRow
    <3>2. s.expected_revision \in Nat \cup {Null}
      BY DEF Proper, Submission
    <3> QED
      BY <2>2, <3>1, <3>2 DEF CapturedRevision
  <2> QED
    BY <2>1, <2>2
<1>4. PolicyAction(s) \in {"require", "auto", "deny"}
  BY DEF PolicyAction, TypeOK, Proper, Submission
<1>5. s.record_id \in Ids \cup {Null}
  BY DEF Proper, Submission
<1>6. clock + Ttl \in Nat
  BY ConstantsTyped DEF TypeOK
<1> QED
  <2>1. Targeted(NewRequest(s))
    BY ConstantsDistinct
       DEF Targeted, NewRequest, Proper, Admissible, TargetActive, ActiveRecord
  <2> QED
    BY <1>2, <1>3, <1>4, <1>5, <1>6, <2>1
       DEF NewRequest, RequestRow, Proper, IsMutation

----------------------------------------------------------------------------
(* apply_change_request *)

\* A pending request becomes a decided one that keeps all it was submitted
\* with; a create learns the id of its record.
LEMMA SettledIsRow ==
  ASSUME NEW i \in Ids, NEW q \in RequestRow, NEW actor \in Profiles,
         NEW decision, IsMutation(q) => q.record_id \in Ids
  PROVE  LET v == Verdict(q, decision)
             r == Settled(i, q, v, actor)
         IN /\ r \in RequestRow /\ r.status = v /\ v \in Decided
            /\ r.submitted = q.submitted
            /\ IsMutation(r) => r.record_id \in Ids
<1> DEFINE v == Verdict(q, decision)
           r == Settled(i, q, v, actor)
<1>1. v \in Decided
  BY DEF Verdict, Decided
<1> HIDE DEF v
<1>2. /\ r \in RequestRow /\ r.status = v /\ r.submitted = q.submitted
      /\ r.record_id \in {q.record_id, i}
  BY <1>1 DEF Settled, RequestRow
<1>3. IsMutation(r) => r.record_id \in Ids
  BY <1>2 DEF IsMutation, IsDefinition
<1> QED
  BY <1>1, <1>2, <1>3 DEF v

\* A published create is a row at revision 1 with a typed window.
LEMMA CreatedIsRow ==
  ASSUME TypeOK, NEW q \in RequestRow, IsCreate(q)
  PROVE  NewRecord(q) \in RecordRow
<1> DEFINE s == q.submitted
<1>1. /\ s \in Submission /\ q.payload \in Payloads
      /\ s.namespace_id \in Namespaces /\ s.identity_key \in Keys
      /\ s.record_type \in Types
      /\ s.valid_from \in Deadline /\ s.valid_to \in Deadline
  BY DEF RequestRow, Submission, IsCreate, IsDefinition
<1> HIDE DEF s
<1>2. ValidFrom(s) \in Nat
  BY <1>1 DEF ValidFrom, TypeOK
<1>3. RetainedUntil(s) \in Nat \cup {Null}
  <2>1. retention[s.namespace_id] \in (Nat \ {0}) \cup {Null}
    BY <1>1 DEF TypeOK
  <2> QED
    BY <1>1, <1>2, <2>1 DEF RetainedUntil
<1> QED
  BY <1>1, <1>2, <1>3 DEF NewRecord, RecordRow, s

\* A mutation of its target leaves a row, one revision further on.
LEMMA MutatedIsRow ==
  ASSUME TypeOK, NEW q \in RequestRow, q.record_id \in Ids,
         AtExpectedRevision(q)
  PROVE  /\ record[q.record_id] \in RecordRow
         /\ MutatedRecord(q) \in RecordRow
         /\ MutatedRecord(q).revision = record[q.record_id].revision + 1
<1>1. record[q.record_id] \in RecordRow
  BY RowsExist DEF AtExpectedRevision, ActiveRecord
<1>2. q.payload \in Payloads
  BY DEF RequestRow
<1> DEFINE row == record[q.record_id]
<1>3. MutatedRecord(q) =
        IF q.submitted.operation = "update"
        THEN [row EXCEPT !.revision = row.revision + 1, !.payload = q.payload]
        ELSE [row EXCEPT !.revision = row.revision + 1, !.status = "tombstoned"]
  BY DEF MutatedRecord
<1> HIDE DEF row
<1>4. /\ row \in RecordRow
      /\ row.revision + 1 \in Nat \ {0}
  BY <1>1 DEF RecordRow, row
<1>5. /\ MutatedRecord(q) \in RecordRow
      /\ MutatedRecord(q).revision = row.revision + 1
  BY <1>2, <1>3, <1>4 DEF RecordRow
<1> QED
  BY <1>1, <1>5 DEF row

\* Whatever it decides, the application of a request leaves the tables typed.
LEMMA ApplyIsTyped ==
  ASSUME TypeInv, NEW i \in Ids, NEW q \in RequestRow, NEW actor \in Profiles,
         NEW decision, IsMutation(q) => q.record_id \in Ids,
         ApplyChangeRequest(i, q, decision, actor)
  PROVE  /\ request' \in [Ids -> RequestRow \cup {NoRequest}]
         /\ record' \in [Ids -> RecordRow \cup {NoRecord}]
         /\ revisions' \subseteq RevisionRow
         /\ definitions' \subseteq Namespaces \X Keys
         /\ MutationsHaveTargets'
<1> DEFINE v == Verdict(q, decision)
           r == Settled(i, q, v, actor)
<1>1. /\ r \in RequestRow
      /\ IsMutation(r) => r.record_id \in Ids
  BY SettledIsRow, Zenon
<1>2. /\ request' = [request EXCEPT ![i] = r]
      /\ IF v = "approved" THEN Publish(i, q, actor) ELSE UNCHANGED canon
  BY DEF ApplyChangeRequest
<1>3. v = "approved" => Applicable(q)
  BY DEF Verdict
<1> HIDE DEF v, r
<1>4. request' \in [Ids -> RequestRow \cup {NoRequest}]
  BY <1>1, <1>2 DEF TypeInv, TypeOK
<1>5. MutationsHaveTargets'
  <2> SUFFICES ASSUME NEW j \in Ids, request'[j].status # "none",
                      IsMutation(request'[j])
               PROVE  request'[j].record_id \in Ids
    BY DEF MutationsHaveTargets, IsMutation
  <2>1. CASE j = i
    BY <1>1, <1>2, <2>1 DEF TypeInv, TypeOK
  <2>2. CASE j # i
    BY <1>2, <2>2 DEF TypeInv, TypeOK, MutationsHaveTargets
  <2> QED
    BY <2>1, <2>2
<1>6. CASE v # "approved"
  BY <1>2, <1>4, <1>5, <1>6 DEF canon, TypeInv, TypeOK
<1>7. CASE v = "approved"
  <2>1. Publish(i, q, actor)
    BY <1>2, <1>7
  <2>2. /\ q.submitted.namespace_id \in Namespaces
        /\ q.submitted.identity_key \in Keys
        /\ q.submitted.operation \in {"create", "update", "delete"}
        /\ q.payload \in Payloads
    BY DEF RequestRow, Submission
  <2>3. CASE IsDefinition(q)
    BY <1>4, <1>5, <2>1, <2>2, <2>3
       DEF Publish, IsCreate, IsMutation, TypeInv, TypeOK
  <2>4. CASE IsCreate(q)
    <3>1. NewRecord(q) \in RecordRow
      BY <2>4, CreatedIsRow DEF TypeInv
    <3>2. Revision(i, NewRecord(q), "create", actor) \in RevisionRow
      BY <3>1 DEF Revision, RevisionRow, RecordRow
    <3> QED
      BY <1>4, <1>5, <2>1, <2>4, <3>1, <3>2
         DEF Publish, IsCreate, IsMutation, TypeInv, TypeOK
  <2>5. CASE IsMutation(q)
    <3>1. MutatedRecord(q) \in RecordRow
      BY <1>3, <1>7, <2>5, MutatedIsRow DEF TypeInv, Applicable, IsCreate, IsMutation
    <3>2. Revision(q.record_id, MutatedRecord(q), q.submitted.operation, actor)
            \in RevisionRow
      BY <2>2, <2>5, <3>1 DEF Revision, RevisionRow, RecordRow
    <3> QED
      BY <1>4, <1>5, <2>1, <2>5, <3>1, <3>2
         DEF Publish, IsCreate, IsMutation, TypeInv, TypeOK
  <2> QED
    BY <2>3, <2>4, <2>5 DEF IsCreate, IsMutation
<1> QED
  BY <1>6, <1>7

----------------------------------------------------------------------------
(* Type correctness *)

LEMMA InitIsTyped == Init => TypeInv
BY ConstantsTyped DEF Init, TypeInv, TypeOK, MutationsHaveTargets, NoRequest,
                      NoRecord, NoPurge

\* A submission, stored or applied at once, or found stored and applied.
LEMMA SubmitIsTyped ==
  ASSUME TypeInv, NEW s, Proper(s), Submit(s)
  PROVE  TypeInv'
<1>1. Admissible(s) /\ s.requester_id \in Profiles
  BY DEF Submit, SubmitChangeRequest, ResubmitChangeRequest, Proper, Submission
<1>2. CASE SubmitChangeRequest(s)
  <2>1. /\ NewId \in Ids /\ NewId \notin issued
        /\ issued' = issued \cup {NewId}
        /\ UNCHANGED <<clock, admin, erasure>>
    BY <1>2, NewIdIsFresh DEF SubmitChangeRequest, TypeInv, TypeOK
  <2>2. /\ NewRequest(s) \in RequestRow
        /\ IsMutation(NewRequest(s)) => NewRequest(s).record_id \in Ids
    BY <1>1, NewRequestIsRow DEF TypeInv
  <2> HIDE DEF NewId
  <2>3. CASE /\ request' = [request EXCEPT ![NewId] = NewRequest(s)]
             /\ UNCHANGED canon
    <3>1. TypeOK'
      BY <2>1, <2>2, <2>3 DEF TypeInv, TypeOK, canon, admin, erasure
    <3>2. MutationsHaveTargets'
      <4> SUFFICES ASSUME NEW j \in Ids, request'[j].status # "none",
                          IsMutation(request'[j])
                   PROVE  request'[j].record_id \in Ids
        BY DEF MutationsHaveTargets, IsMutation, IsDefinition
      <4> QED
        BY <2>1, <2>2, <2>3 DEF TypeInv, TypeOK, MutationsHaveTargets
    <3> QED
      BY <3>1, <3>2 DEF TypeInv
  <2>4. CASE ApplyChangeRequest(NewId, NewRequest(s), "approve", s.requester_id)
    BY <1>1, <2>1, <2>2, <2>4, ApplyIsTyped
       DEF TypeInv, TypeOK, admin, erasure
  <2> QED
    BY <1>2, <2>3, <2>4 DEF SubmitChangeRequest
<1>3. CASE ResubmitChangeRequest(s)
  <2>1. PICK i \in Ids :
          /\ request[i].status = "pending"
          /\ ApplyChangeRequest(i, request[i], "approve", s.requester_id)
    BY <1>3 DEF ResubmitChangeRequest
  <2>2. /\ request[i] \in RequestRow
        /\ IsMutation(request[i]) => request[i].record_id \in Ids
    BY <2>1, RowsExist DEF TypeInv, MutationsHaveTargets
  <2>3. UNCHANGED <<clock, admin, erasure, issued>>
    BY <1>3 DEF ResubmitChangeRequest
  <2> QED
    BY <1>1, <2>1, <2>2, <2>3, ApplyIsTyped DEF TypeInv, TypeOK, admin, erasure
<1> QED
  BY <1>2, <1>3 DEF Submit

\* A mutation names a revision that its record has reached.
Reached(s) == s.operation # "create" => HintReached(s)

\* Every action of a proposer submits something proper.
LEMMA ProposalsAreProper ==
  ASSUME TypeOK, NEW p \in Profiles,
         ProposeCreate(p) \/ ProposeInventory(p) \/ ProposeMutation(p)
  PROVE  \E s : Proper(s) /\ Reached(s) /\ s.requester_id = p /\ Submit(s)
<1>1. CASE ProposeCreate(p)
  <2>1. PICK ns \in Namespaces, type \in Types, identity \in Identities,
             payload \in CreatePayloads, w \in Windows :
          Submit([requester_id |-> p, namespace_id |-> ns,
                  operation |-> "create", record_id |-> Null,
                  record_type |-> type, identity_key |-> identity,
                  payload |-> payload, expected_revision |-> Null,
                  valid_from |-> w.valid_from, valid_to |-> w.valid_to,
                  update_mode |-> "patch", candidate |-> Null])
    BY <1>1 DEF ProposeCreate
  <2>2. payload \in Patches /\ w \in [valid_from : Deadline, valid_to : Deadline]
    BY ConstantsTyped
  <2> QED
    BY <2>1, <2>2 DEF Proper, Reached, Submission, Keys
<1>2. CASE ProposeInventory(p)
  BY <1>2, UntouchedIsPatch, ConstantsTyped
     DEF ProposeInventory, Proper, Reached, Submission, Keys
<1>3. CASE ProposeMutation(p)
  <2>1. PICK ns \in Namespaces, r \in Ids, hint \in RevisionHints \cup {Null} :
          /\ record[r].status = "active"
          /\ \/ \E payload \in UpdatePayloads, mode \in UpdateModes :
                  LET s == Mutation(p, ns, r, "update", payload, hint, mode)
                  IN HintReached(s) /\ Submit(s)
             \/ LET s == Mutation(p, ns, r, "delete", Untouched, hint, "patch")
                IN HintReached(s) /\ Submit(s)
    BY <1>3 DEF ProposeMutation
  <2>2. PICK operation \in {"update", "delete"}, payload \in Patches,
             mode \in {"patch", "replace"} :
          /\ HintReached(Mutation(p, ns, r, operation, payload, hint, mode))
          /\ Submit(Mutation(p, ns, r, operation, payload, hint, mode))
    BY <2>1, UntouchedIsPatch, ConstantsTyped
  <2>3. record[r] \in RecordRow
    BY <2>1, RowsExist
  <2>4. /\ Proper(Mutation(p, ns, r, operation, payload, hint, mode))
        /\ Mutation(p, ns, r, operation, payload, hint, mode).requester_id = p
    BY <2>3, ConstantsTyped DEF Proper, Submission, Mutation, RecordRow
  <2> QED
    BY <2>2, <2>4 DEF Reached
<1> QED
  BY <1>1, <1>2, <1>3

\* A decision keeps every table typed.
LEMMA DecideIsTyped ==
  ASSUME TypeInv, NEW p \in Profiles, NEW i \in Ids, NEW decision,
         DecideChangeRequest(p, i, decision)
  PROVE  TypeInv'
<1>1. /\ request[i] \in RequestRow
      /\ IsMutation(request[i]) => request[i].record_id \in Ids
  BY RowsExist DEF DecideChangeRequest, TypeInv, MutationsHaveTargets
<1> QED
  BY <1>1, ApplyIsTyped
     DEF DecideChangeRequest, TypeInv, TypeOK, admin, erasure

\* An expiry pass only rewrites the status of rows.
LEMMA ExpireIsTyped ==
  ASSUME TypeInv, NEW p \in Profiles, NEW limit, ExpireRecords(p, limit)
  PROVE  TypeInv'
<1>1. PICK S \in SUBSET Due(p) :
        record' = [r \in Ids |-> IF r \in S
                                 THEN [record[r] EXCEPT !.status = "expired"]
                                 ELSE record[r]]
  BY DEF ExpireRecords
<1>2. UNCHANGED <<clock, admin, erasure, issued, request, revisions, definitions>>
  BY DEF ExpireRecords
<1>3. ASSUME NEW r \in S
      PROVE  [record[r] EXCEPT !.status = "expired"] \in RecordRow
  <2>1. record[r] \in RecordRow
    BY <1>3, RowsExist DEF Due, TypeInv
  <2> QED
    BY <2>1 DEF RecordRow
<1>4. record' \in [Ids -> RecordRow \cup {NoRecord}]
  BY <1>1, <1>3 DEF TypeInv, TypeOK
<1> QED
  BY <1>2, <1>4
     DEF TypeInv, TypeOK, MutationsHaveTargets, IsMutation, IsDefinition,
         admin, erasure

\* Retention, grants and policies stay typed.
LEMMA AdministrationIsTyped ==
  ASSUME TypeInv, NEW p \in Profiles,
         \/ \E ns \in Namespaces, period \in Retentions :
              SetNamespaceRetention(p, ns, period)
         \/ \E g \in Grantable : Grant(p, g[1], g[2], g[3])
         \/ \E newPolicy \in Policies[p] : BootstrapProfile(p, newPolicy)
  PROVE  TypeInv'
<1>1. CASE \E ns \in Namespaces, period \in Retentions :
             SetNamespaceRetention(p, ns, period)
  BY <1>1, ConstantsTyped
     DEF SetNamespaceRetention, TypeInv, TypeOK, MutationsHaveTargets,
         IsMutation, IsDefinition, canon, erasure
<1>2. CASE \E g \in Grantable : Grant(p, g[1], g[2], g[3])
  <2>1. PICK g \in Grantable : Grant(p, g[1], g[2], g[3])
    BY <1>2
  <2>2. <<g[1], g[2], g[3]>> \in Namespaces \X Profiles \X Capabilities
    BY ConstantsTyped
  <2> QED
    BY <2>1, <2>2
       DEF Grant, TypeInv, TypeOK, MutationsHaveTargets, IsMutation,
           IsDefinition, canon, erasure
<1>3. CASE \E newPolicy \in Policies[p] : BootstrapProfile(p, newPolicy)
  <2>1. PICK newPolicy \in Policies[p] : BootstrapProfile(p, newPolicy)
    BY <1>3
  <2>2. newPolicy \in [Operations -> Actions]
    BY ConstantsTyped
  <2> HIDE DEF Operations, Actions
  <2>3. policy' \in [Profiles -> [Operations -> Actions]]
    BY <2>1, <2>2 DEF BootstrapProfile, TypeInv, TypeOK
  <2> QED
    BY <2>1, <2>3
       DEF BootstrapProfile, TypeInv, TypeOK, MutationsHaveTargets, IsMutation,
           IsDefinition, canon, erasure
<1> QED
  BY <1>1, <1>2, <1>3

\* Time passes within its type.
LEMMA TickIsTyped == TypeInv /\ Tick => TypeInv'
BY DEF Tick, TypeInv, TypeOK, MutationsHaveTargets, IsMutation, IsDefinition,
       admin, canon, erasure

\* A purge request is stored as a row about an existing record.
LEMMA RequestPurgeIsTyped ==
  ASSUME TypeInv, NEW p \in Profiles, NEW ns \in Namespaces, NEW r \in Ids,
         NEW i \in PurgeIds, RequestHardPurge(p, ns, r, i)
  PROVE  TypeInv'
<1>1. /\ record[r].record_type \in Types /\ record[r].identity_key \in Keys
  BY RowsExist DEF RequestHardPurge, RecordRow, TypeInv
<1>2. purge' \in [PurgeIds -> PurgeRow \cup {NoPurge}]
  BY <1>1 DEF RequestHardPurge, PurgeRow, TypeInv, TypeOK
<1> QED
  BY <1>2
     DEF RequestHardPurge, TypeInv, TypeOK, MutationsHaveTargets, IsMutation,
         IsDefinition, admin, canon

\* A purge leaves every remaining row as it was.
LEMMA ApprovePurgeIsTyped ==
  ASSUME TypeInv, NEW p \in Profiles, NEW i \in PurgeIds, ApproveHardPurge(p, i)
  PROVE  TypeInv'
<1> DEFINE q == purge[i]
           r == q.record_id
<1>1. q \in PurgeRow
  BY RowsExist DEF ApproveHardPurge, TypeInv
<1>2. r \in Ids /\ q.requested_by \in Profiles
  BY <1>1 DEF PurgeRow
<1>3. record[r].revision \in Nat \ {0}
  BY <1>2, RowsExist DEF ApproveHardPurge, RecordRow, TypeInv
<1>4. audit' \subseteq AuditRow
  BY <1>2, <1>3 DEF ApproveHardPurge, AuditRow, TypeInv, TypeOK
<1>5. purge' \in [PurgeIds -> PurgeRow \cup {NoPurge}]
  BY <1>1 DEF ApproveHardPurge, PurgeRow, TypeInv, TypeOK
<1>6. /\ request' \in [Ids -> RequestRow \cup {NoRequest}]
      /\ \A j \in Ids : request'[j].status # "none" => request'[j] = request[j]
  BY DEF ApproveHardPurge, TypeInv, TypeOK, NoRequest
<1>7. MutationsHaveTargets'
  BY <1>6 DEF TypeInv, MutationsHaveTargets, IsMutation, IsDefinition
<1>8. record' \in [Ids -> RecordRow \cup {NoRecord}] /\ revisions' \subseteq RevisionRow
  BY <1>2 DEF ApproveHardPurge, TypeInv, TypeOK
<1>9. UNCHANGED <<clock, admin, definitions, issued>>
  BY DEF ApproveHardPurge
<1> QED
  BY <1>4, <1>5, <1>6, <1>7, <1>8, <1>9 DEF TypeInv, TypeOK, admin

\* Every action keeps the type invariant.
LEMMA NextIsTyped == TypeInv /\ [Next]_vars => TypeInv'
<1> SUFFICES ASSUME TypeInv, [Next]_vars
             PROVE  TypeInv'
  OBVIOUS
<1>1. CASE UNCHANGED vars
  BY <1>1 DEF vars, TypeInv, TypeOK, MutationsHaveTargets, IsMutation, IsDefinition
<1>2. ASSUME NEW p \in Profiles,
             ProposeCreate(p) \/ ProposeInventory(p) \/ ProposeMutation(p)
      PROVE  TypeInv'
  BY <1>2, ProposalsAreProper, SubmitIsTyped DEF TypeInv
<1>3. ASSUME NEW p \in Profiles,
             \/ \E ns \in Namespaces, period \in Retentions :
                  SetNamespaceRetention(p, ns, period)
             \/ \E g \in Grantable : Grant(p, g[1], g[2], g[3])
             \/ \E newPolicy \in Policies[p] : BootstrapProfile(p, newPolicy)
      PROVE  TypeInv'
  BY <1>3, AdministrationIsTyped
<1>4. CASE Next
  BY <1>2, <1>3, <1>4, DecideIsTyped, ExpireIsTyped, TickIsTyped,
     RequestPurgeIsTyped, ApprovePurgeIsTyped DEF Next
<1> QED
  BY <1>1, <1>4

\* Every table always holds rows of its type, and every mutation its target.
THEOREM TypeCorrect == Spec => []TypeOK
<1>1. TypeInv => TypeOK
  BY DEF TypeInv
<1> QED
  BY InitIsTyped, NextIsTyped, <1>1, PTL DEF Spec

----------------------------------------------------------------------------
(* The kinds of steps, as the invariants see them *)

\* What a proposer's call makes of its submission.
Drawn(q) ==
  \E s : Proper(s) /\ Reached(s) /\ Admissible(s) /\ q = NewRequest(s)

\* A call settles the pending request q under id i: one that was stored
\* before, or one that it has just drawn the id for.
Settles(i, q, decision, actor) ==
  /\ i \in Ids /\ q \in RequestRow /\ actor \in Profiles
  /\ q.status = "pending"
  /\ IsMutation(q) => q.record_id \in Ids
  /\ ApplyChangeRequest(i, q, decision, actor)
  /\ \/ request[i] = q /\ issued' = issued
     \/ i \notin issued /\ issued' = issued \cup {i} /\ Targeted(q) /\ Drawn(q)
  /\ \/ HasCapability(actor, q.submitted.namespace_id, "approve")
     \/ q.policy_action = "auto" /\ actor = q.submitted.requester_id
  /\ UNCHANGED <<clock, admin, erasure>>

\* A call stores the pending request q under the new id i.
Stores(i, q) ==
  /\ i \in Ids /\ i \notin issued /\ issued' = issued \cup {i}
  /\ q \in RequestRow /\ q.status = "pending" /\ Targeted(q) /\ Drawn(q)
  /\ request' = [request EXCEPT ![i] = q]
  /\ UNCHANGED <<clock, admin, canon, erasure>>

\* A call that leaves requests, records and audit alone.
Aside ==
  /\ UNCHANGED <<issued, request, canon, audit>>
  /\ \A i \in PurgeIds : purge[i].status = "purged" => purge'[i] = purge[i]
  /\ grants \subseteq grants' /\ clock' >= clock

\* A submission stores a request, settles one, or does both at once.
LEMMA SubmitKinds ==
  ASSUME TypeInv, NEW s, Proper(s), Reached(s), Submit(s)
  PROVE  \/ \E i, q, decision, actor : Settles(i, q, decision, actor)
         \/ \E i, q : Stores(i, q)
<1>1. Admissible(s) /\ s.requester_id \in Profiles
  BY DEF Submit, SubmitChangeRequest, ResubmitChangeRequest, Proper, Submission
<1>2. CASE SubmitChangeRequest(s)
  <2>1. /\ NewId \in Ids /\ NewId \notin issued
        /\ issued' = issued \cup {NewId}
        /\ UNCHANGED <<clock, admin, erasure>>
    BY <1>2, NewIdIsFresh DEF SubmitChangeRequest, TypeInv, TypeOK
  <2>2. /\ NewRequest(s) \in RequestRow
        /\ NewRequest(s).status = "pending"
        /\ NewRequest(s).submitted = s
        /\ NewRequest(s).policy_action = PolicyAction(s)
        /\ IsMutation(NewRequest(s)) => NewRequest(s).record_id \in Ids
        /\ Targeted(NewRequest(s)) /\ Drawn(NewRequest(s))
    BY <1>1, NewRequestIsRow DEF TypeInv, NewRequest, Drawn
  <2>3. CASE /\ request' = [request EXCEPT ![NewId] = NewRequest(s)]
             /\ UNCHANGED canon
    <3>1. Stores(NewId, NewRequest(s))
      BY <2>1, <2>2, <2>3 DEF Stores
    <3> QED
      BY <3>1
  <2>4. CASE /\ PolicyAction(s) = "auto"
             /\ ApplyChangeRequest(NewId, NewRequest(s), "approve", s.requester_id)
    <3>1. Settles(NewId, NewRequest(s), "approve", s.requester_id)
      BY <1>1, <2>1, <2>2, <2>4 DEF Settles
    <3> QED
      BY <3>1
  <2> QED
    BY <1>2, <2>3, <2>4 DEF SubmitChangeRequest
<1>3. CASE ResubmitChangeRequest(s)
  <2>1. PICK i \in Ids :
          /\ request[i].submitted = s
          /\ request[i].status = "pending"
          /\ \/ request[i].policy_action = "auto"
             \/ HasCapability(s.requester_id, s.namespace_id, "approve")
          /\ ApplyChangeRequest(i, request[i], "approve", s.requester_id)
    BY <1>3 DEF ResubmitChangeRequest, Holds
  <2>2. /\ request[i] \in RequestRow
        /\ IsMutation(request[i]) => request[i].record_id \in Ids
    BY <2>1, RowsExist DEF TypeInv, MutationsHaveTargets
  <2>3. UNCHANGED <<clock, admin, erasure, issued>>
    BY <1>3 DEF ResubmitChangeRequest
  <2>4. Settles(i, request[i], "approve", s.requester_id)
    BY <1>1, <2>1, <2>2, <2>3 DEF Settles
  <2> QED
    BY <2>4
<1> QED
  BY <1>2, <1>3 DEF Submit

\* Every step is of one of five kinds.
LEMMA StepKinds ==
  ASSUME TypeInv, [Next]_vars
  PROVE  \/ \E i, q, decision, actor : Settles(i, q, decision, actor)
         \/ \E i, q : Stores(i, q)
         \/ \E limit : \E p \in Profiles : ExpireRecords(p, limit)
         \/ \E p \in Profiles, i \in PurgeIds : ApproveHardPurge(p, i)
         \/ Aside
<1> USE DEF TypeInv
<1>1. CASE UNCHANGED vars
  BY <1>1 DEF vars, Aside, canon, TypeOK
<1>2. ASSUME NEW p \in Profiles,
             ProposeCreate(p) \/ ProposeInventory(p) \/ ProposeMutation(p)
      PROVE  \/ \E i, q, decision, actor : Settles(i, q, decision, actor)
             \/ \E i, q : Stores(i, q)
  BY <1>2, ProposalsAreProper, SubmitKinds
<1>3. ASSUME NEW p \in Profiles, NEW i \in Ids, NEW decision,
             DecideChangeRequest(p, i, decision)
      PROVE  Settles(i, request[i], decision, p)
  <2>1. /\ request[i] \in RequestRow
        /\ IsMutation(request[i]) => request[i].record_id \in Ids
    BY <1>3, RowsExist DEF DecideChangeRequest, MutationsHaveTargets
  <2> QED
    BY <1>3, <2>1 DEF DecideChangeRequest, Settles
<1>4. ASSUME NEW p \in Profiles,
             \/ \E ns \in Namespaces, period \in Retentions :
                  SetNamespaceRetention(p, ns, period)
             \/ \E g \in Grantable : Grant(p, g[1], g[2], g[3])
             \/ \E newPolicy \in Policies[p] : BootstrapProfile(p, newPolicy)
             \/ \E ns \in Namespaces, r \in Ids, i \in PurgeIds :
                  RequestHardPurge(p, ns, r, i)
      PROVE  Aside
  BY <1>4 DEF SetNamespaceRetention, Grant, BootstrapProfile, RequestHardPurge,
              Aside, canon, admin, erasure, TypeOK, NoPurge
<1>5. CASE Tick
  BY <1>5 DEF Tick, Aside, admin, canon, erasure, TypeOK
<1> HIDE DEF TypeInv
<1>6. CASE Next
  BY <1>2, <1>3, <1>4, <1>5, <1>6 DEF Next
<1> QED
  BY <1>1, <1>6

----------------------------------------------------------------------------
(* One active record per identity *)

\* What a settled request does to the records: nothing, one birth where no
\* active record stands in the way, or one mutation of the expected revision.
LEMMA SettledRecords ==
  ASSUME TypeInv, NEW i, NEW q, NEW decision, NEW actor,
         Settles(i, q, decision, actor)
  PROVE  \/ record' = record
         \/ /\ IsCreate(q) /\ IdentityFree(q.submitted)
            /\ record' = [record EXCEPT ![i] = NewRecord(q)]
            /\ NewRecord(q) \in RecordRow
         \/ /\ IsMutation(q) /\ AtExpectedRevision(q) /\ q.record_id \in Ids
            /\ record' = [record EXCEPT ![q.record_id] = MutatedRecord(q)]
            /\ MutatedRecord(q) \in RecordRow
            /\ record[q.record_id] \in RecordRow
<1> DEFINE v == Verdict(q, decision)
<1>1. IF v = "approved" THEN Publish(i, q, actor) ELSE UNCHANGED canon
  BY DEF Settles, ApplyChangeRequest
<1>2. v = "approved" => Applicable(q)
  BY DEF Verdict
<1> HIDE DEF v
<1>3. CASE v # "approved"
  BY <1>1, <1>3 DEF canon
<1>4. CASE v = "approved"
  <2>1. Publish(i, q, actor) /\ Applicable(q)
    BY <1>1, <1>2, <1>4
  <2>2. q \in RequestRow /\ (IsMutation(q) => q.record_id \in Ids)
    BY DEF Settles
  <2>3. CASE IsDefinition(q)
    BY <2>1, <2>3 DEF Publish, IsCreate, IsMutation
  <2>4. CASE IsCreate(q)
    BY <2>1, <2>2, <2>4, CreatedIsRow
       DEF Publish, Applicable, IsCreate, IsMutation, TypeInv
  <2>5. CASE IsMutation(q)
    BY <2>1, <2>2, <2>5, MutatedIsRow
       DEF Publish, Applicable, IsCreate, IsMutation, TypeInv
  <2> QED
    BY <2>3, <2>4, <2>5 DEF IsCreate, IsMutation
<1> QED
  BY <1>3, <1>4

\* Two records that share a slot while both are active.
Clash(r, o) ==
  /\ record[r].status = "active" /\ record[o].status = "active"
  /\ record[r].namespace_id = record[o].namespace_id
  /\ record[r].record_type = record[o].record_type
  /\ record[r].identity_key = record[o].identity_key

\* A step that activates no record and moves none keeps the slots apart.
LEMMA NoNewClash ==
  ASSUME OneActivePerIdentity,
         \A r \in Ids : record'[r].status = "active" =>
           /\ record[r].status = "active"
           /\ record'[r].namespace_id = record[r].namespace_id
           /\ record'[r].record_type = record[r].record_type
           /\ record'[r].identity_key = record[r].identity_key
  PROVE  OneActivePerIdentity'
BY DEF OneActivePerIdentity

\* An update keeps the namespace, type and identity of its record.
LEMMA MutationKeepsSlot ==
  ASSUME NEW q, record[q.record_id] \in RecordRow, MutatedRecord(q) \in RecordRow
  PROVE  /\ MutatedRecord(q).namespace_id = record[q.record_id].namespace_id
         /\ MutatedRecord(q).record_type = record[q.record_id].record_type
         /\ MutatedRecord(q).identity_key = record[q.record_id].identity_key
         /\ MutatedRecord(q).status \in {record[q.record_id].status, "tombstoned"}
<1> DEFINE row == record[q.record_id]
<1>1. MutatedRecord(q) =
        IF q.submitted.operation = "update"
        THEN [row EXCEPT !.revision = row.revision + 1, !.payload = q.payload]
        ELSE [row EXCEPT !.revision = row.revision + 1, !.status = "tombstoned"]
  BY DEF MutatedRecord
<1> HIDE DEF row
<1>2. row \in RecordRow
  BY DEF row
<1>3. /\ MutatedRecord(q).namespace_id = row.namespace_id
      /\ MutatedRecord(q).record_type = row.record_type
      /\ MutatedRecord(q).identity_key = row.identity_key
      /\ MutatedRecord(q).status \in {row.status, "tombstoned"}
  BY <1>1, <1>2 DEF RecordRow
<1> QED
  BY <1>3 DEF row

\* Settling a request never puts two active records into one slot.
LEMMA SettlingKeepsSlotsApart ==
  ASSUME TypeInv, OneActivePerIdentity, NEW i, NEW q, NEW decision, NEW actor,
         Settles(i, q, decision, actor)
  PROVE  OneActivePerIdentity'
<1>1. CASE record' = record
  BY <1>1 DEF OneActivePerIdentity
<1>2. CASE /\ IdentityFree(q.submitted)
           /\ record' = [record EXCEPT ![i] = NewRecord(q)]
  <2>1. i \in Ids /\ record \in [Ids -> RecordRow \cup {NoRecord}]
    BY DEF Settles, TypeInv, TypeOK
  <2>2. /\ NewRecord(q).namespace_id = q.submitted.namespace_id
        /\ NewRecord(q).record_type = q.submitted.record_type
        /\ NewRecord(q).identity_key = q.submitted.identity_key
    BY DEF NewRecord
  <2> SUFFICES ASSUME NEW r \in Ids, NEW o \in Ids, Clash(r, o)'
               PROVE  r = o
    BY DEF OneActivePerIdentity, Clash
  <2>3. CASE r # i /\ o # i
    BY <1>2, <2>1, <2>3 DEF Clash, OneActivePerIdentity
  <2>4. CASE r = i /\ o # i
    BY <1>2, <2>1, <2>2, <2>4 DEF Clash, IdentityFree, ActiveRecord
  <2>5. CASE r # i /\ o = i
    BY <1>2, <2>1, <2>2, <2>5 DEF Clash, IdentityFree, ActiveRecord
  <2> QED
    BY <2>3, <2>4, <2>5
<1>3. CASE /\ AtExpectedRevision(q) /\ q.record_id \in Ids
           /\ record' = [record EXCEPT ![q.record_id] = MutatedRecord(q)]
           /\ MutatedRecord(q) \in RecordRow /\ record[q.record_id] \in RecordRow
  <2>1. record \in [Ids -> RecordRow \cup {NoRecord}]
    BY DEF TypeInv, TypeOK
  <2>2. record[q.record_id].status = "active"
    BY <1>3 DEF AtExpectedRevision, ActiveRecord
  <2> QED
    BY <1>3, <2>1, <2>2, NoNewClash, MutationKeepsSlot
<1> QED
  BY <1>1, <1>2, <1>3, SettledRecords

\* No step puts two active records into one slot.
LEMMA StepKeepsSlotsApart ==
  ASSUME TypeInv, OneActivePerIdentity, [Next]_vars
  PROVE  OneActivePerIdentity'
<1>1. record \in [Ids -> RecordRow \cup {NoRecord}]
  BY DEF TypeInv, TypeOK
<1>2. ASSUME NEW p \in Profiles, NEW limit, ExpireRecords(p, limit)
      PROVE  OneActivePerIdentity'
  <2>1. PICK S \in SUBSET Due(p) :
          record' = [r \in Ids |-> IF r \in S
                                   THEN [record[r] EXCEPT !.status = "expired"]
                                   ELSE record[r]]
    BY <1>2 DEF ExpireRecords
  <2>2. \A r \in S : record[r] \in RecordRow
    BY RowsExist DEF Due, TypeInv
  <2>3. \A r \in Ids : record'[r].status = "active" => record'[r] = record[r]
    BY <2>1, <2>2 DEF RecordRow
  <2> QED
    BY <2>3, NoNewClash
<1>3. ASSUME NEW p \in Profiles, NEW i \in PurgeIds, ApproveHardPurge(p, i)
      PROVE  OneActivePerIdentity'
  <2>1. record' = [record EXCEPT ![purge[i].record_id] = NoRecord]
    BY <1>3 DEF ApproveHardPurge
  <2>2. \A r \in Ids : record'[r].status = "active" => record'[r] = record[r]
    BY <1>1, <2>1 DEF NoRecord
  <2> QED
    BY <2>2, NoNewClash
<1>4. ASSUME NEW i, NEW q, Stores(i, q) PROVE OneActivePerIdentity'
  BY <1>4 DEF Stores, canon, OneActivePerIdentity
<1>5. CASE Aside
  BY <1>5 DEF Aside, canon, OneActivePerIdentity
<1> QED
  BY <1>2, <1>3, <1>4, <1>5, SettlingKeepsSlotsApart, StepKinds

\* However many pending creates of an identity are approved, and in whatever
\* order they race, one active record comes of them.
THEOREM OneActiveRecord == Spec => []OneActivePerIdentity
<1>1. Init => OneActivePerIdentity
  BY DEF Init, OneActivePerIdentity, NoRecord
<1> QED
  BY <1>1, InitIsTyped, NextIsTyped, StepKeepsSlotsApart, PTL DEF Spec

----------------------------------------------------------------------------
(* Decisions are final *)

\* An id that was never drawn names nothing.
IdsAreIssued ==
  \A i \in Ids \ issued : request[i] = NoRequest /\ record[i] = NoRecord

\* The record a pending request may become is not there yet.
PendingUnborn ==
  \A i \in Ids : request[i].status = "pending" => record[i] = NoRecord

LifeInv == TypeInv /\ IdsAreIssued /\ PendingUnborn

\* The effect of a settled request on the requests.
LEMMA SettledRequests ==
  ASSUME TypeInv, NEW i, NEW q, NEW decision, NEW actor,
         Settles(i, q, decision, actor)
  PROVE  /\ request \in [Ids -> RequestRow \cup {NoRequest}]
         /\ record \in [Ids -> RecordRow \cup {NoRecord}]
         /\ request' \in [Ids -> RequestRow \cup {NoRequest}]
         /\ \A j \in Ids : j # i => request'[j] = request[j]
         /\ request'[i].status \in Decided
         /\ request'[i].submitted = q.submitted
         /\ request'[i].policy_action = q.policy_action
         /\ request'[i].status = "approved" => request'[i].decided_by = actor
<1> DEFINE v == Verdict(q, decision)
           r == Settled(i, q, v, actor)
<1>1. /\ i \in Ids /\ q \in RequestRow /\ actor \in Profiles
      /\ IsMutation(q) => q.record_id \in Ids
      /\ request' = [request EXCEPT ![i] = r]
  BY DEF Settles, ApplyChangeRequest
<1>2. r \in RequestRow /\ r.status = v /\ v \in Decided /\ r.submitted = q.submitted
  BY <1>1, SettledIsRow, Zenon
<1>3. /\ r.policy_action = q.policy_action
      /\ v = "approved" => r.decided_by = actor
  BY <1>1 DEF Settled, RequestRow
<1> HIDE DEF v, r
<1>4. /\ request \in [Ids -> RequestRow \cup {NoRequest}]
      /\ record \in [Ids -> RecordRow \cup {NoRecord}]
  BY DEF TypeInv, TypeOK
<1> QED
  BY <1>1, <1>2, <1>3, <1>4

\* The id a settled request holds is that of no record.
LEMMA SettledUnborn ==
  ASSUME LifeInv, NEW i, NEW q, NEW decision, NEW actor,
         Settles(i, q, decision, actor)
  PROVE  /\ record[i] = NoRecord
         /\ request[i] = q \/ request[i] = NoRequest
         /\ i \in issued' /\ issued \subseteq issued'
BY DEF LifeInv, Settles, IdsAreIssued, PendingUnborn, NoRequest

\* Settling a request uses up only ids that were issued.
LEMMA SettlingKeepsLife ==
  ASSUME LifeInv, NEW i, NEW q, NEW decision, NEW actor,
         Settles(i, q, decision, actor)
  PROVE  IdsAreIssued' /\ PendingUnborn'
<1> USE DEF LifeInv
<1>1. i \in Ids /\ i \in issued' /\ issued \subseteq issued' /\ record[i] = NoRecord
  BY SettledUnborn DEF Settles
<1>2. /\ \A j \in Ids : j # i => request'[j] = request[j]
      /\ request'[i].status # "pending"
  BY SettledRequests DEF Decided
<1>3. \A r \in Ids : record[r] = NoRecord /\ r # i => record'[r] = NoRecord
  <2>1. record \in [Ids -> RecordRow \cup {NoRecord}]
    BY SettledRequests
  <2>2. AtExpectedRevision(q) => record[q.record_id] # NoRecord
    BY DEF AtExpectedRevision, ActiveRecord, NoRecord
  <2> QED
    BY <1>1, <2>1, <2>2, SettledRecords
<1>4. IdsAreIssued'
  BY <1>1, <1>2, <1>3 DEF IdsAreIssued
<1>5. PendingUnborn'
  BY <1>2, <1>3 DEF PendingUnborn
<1> QED
  BY <1>4, <1>5

\* Every step keeps the life invariant.
LEMMA StepKeepsLife ==
  ASSUME LifeInv, [Next]_vars
  PROVE  LifeInv'
<1> USE DEF LifeInv
<1>1. /\ request \in [Ids -> RequestRow \cup {NoRequest}]
      /\ record \in [Ids -> RecordRow \cup {NoRecord}]
  BY DEF TypeInv, TypeOK
<1>2. ASSUME NEW i, NEW q, Stores(i, q) PROVE IdsAreIssued' /\ PendingUnborn'
  BY <1>1, <1>2 DEF Stores, canon, IdsAreIssued, PendingUnborn
<1>3. ASSUME NEW p \in Profiles, NEW limit, ExpireRecords(p, limit)
      PROVE  IdsAreIssued' /\ PendingUnborn'
  <2>1. \A r \in Ids : record[r] = NoRecord => record'[r] = NoRecord
    BY <1>3 DEF ExpireRecords, Due, NoRecord
  <2>2. UNCHANGED <<issued, request>>
    BY <1>3 DEF ExpireRecords
  <2> QED
    BY <2>1, <2>2 DEF IdsAreIssued, PendingUnborn
<1>4. ASSUME NEW p \in Profiles, NEW i \in PurgeIds, ApproveHardPurge(p, i)
      PROVE  IdsAreIssued' /\ PendingUnborn'
  <2>1. /\ \A r \in Ids : record[r] = NoRecord => record'[r] = NoRecord
        /\ \A j \in Ids : request'[j] \in {request[j], NoRequest}
        /\ issued' = issued
    BY <1>1, <1>4 DEF ApproveHardPurge
  <2> QED
    BY <2>1 DEF IdsAreIssued, PendingUnborn, NoRequest
<1>5. ASSUME Aside PROVE IdsAreIssued' /\ PendingUnborn'
  BY <1>5 DEF Aside, canon, IdsAreIssued, PendingUnborn
<1> QED
  BY <1>2, <1>3, <1>4, <1>5, StepKinds, NextIsTyped, SettlingKeepsLife

\* The action of DecisionsAreFinal.
Final ==
  /\ \A i \in Ids : request[i].status \in Decided =>
       request'[i] \in {request[i], NoRequest}
  /\ \A r \in Ids : record[r].status \in {"expired", "tombstoned"} =>
       record'[r] \in {record[r], NoRecord}

\* No step changes a decided request or reopens a closed record, except
\* the purge that erases it.
LEMMA StepIsFinal ==
  ASSUME LifeInv, [Next]_vars
  PROVE  Final
<1> USE DEF LifeInv
<1>1. /\ request \in [Ids -> RequestRow \cup {NoRequest}]
      /\ record \in [Ids -> RecordRow \cup {NoRecord}]
  BY DEF TypeInv, TypeOK
<1>2. ASSUME NEW i, NEW q, NEW decision, NEW actor, Settles(i, q, decision, actor)
      PROVE  Final
  <2>1. /\ record[i] = NoRecord /\ i \in Ids
        /\ request[i].status \notin Decided
    BY <1>2, SettledUnborn DEF Settles, NoRequest, Decided
  <2>2. \A j \in Ids : j # i => request'[j] = request[j]
    BY <1>2, SettledRequests
  <2>3. AtExpectedRevision(q) => record[q.record_id].status = "active"
    BY DEF AtExpectedRevision, ActiveRecord
  <2>4. \A r \in Ids : record[r].status \in {"expired", "tombstoned"} =>
          record'[r] = record[r]
    BY <1>1, <1>2, <2>1, <2>3, SettledRecords DEF NoRecord
  <2> QED
    BY <2>1, <2>2, <2>4 DEF Final
<1>3. ASSUME NEW i, NEW q, Stores(i, q) PROVE Final
  BY <1>1, <1>3 DEF Stores, canon, Final, IdsAreIssued, NoRequest, Decided
<1>4. ASSUME NEW p \in Profiles, NEW limit, ExpireRecords(p, limit)
      PROVE  Final
  BY <1>4 DEF ExpireRecords, Due, Final
<1>5. ASSUME NEW p \in Profiles, NEW i \in PurgeIds, ApproveHardPurge(p, i)
      PROVE  Final
  BY <1>1, <1>5 DEF ApproveHardPurge, Final
<1>6. CASE Aside
  BY <1>6 DEF Aside, canon, Final
<1> QED
  BY <1>2, <1>3, <1>4, <1>5, <1>6, StepKinds

\* Once decided, expired or tombstoned, for good: only a purge touches it.
THEOREM SettledForGood == Spec => DecisionsAreFinal
<1>1. Init => LifeInv
  BY InitIsTyped DEF Init, LifeInv, IdsAreIssued, PendingUnborn, NoRequest
<1>2. LifeInv /\ [Next]_vars => LifeInv'
  BY StepKeepsLife
<1>3. LifeInv /\ [Next]_vars => [Final]_vars
  BY StepIsFinal
<1> QED
  BY <1>1, <1>2, <1>3, PTL DEF Spec, DecisionsAreFinal, Final

----------------------------------------------------------------------------
(* Approvals are authorised *)

\* No grant is ever taken back, so an approval stays authorised.
LEMMA AuthorityStays ==
  ASSUME ApprovalsAuthorised, grants \subseteq grants',
         \A i \in Ids : request'[i] \in {request[i], NoRequest}
  PROVE  ApprovalsAuthorised'
<1>1. \A i \in Ids : request'[i].status = "approved" => request'[i] = request[i]
  BY DEF NoRequest
<1> QED
  BY <1>1 DEF ApprovalsAuthorised, HasCapability

\* No step leaves an approval nobody was entitled to: capabilities only grow.
LEMMA StepKeepsAuthority ==
  ASSUME TypeInv, ApprovalsAuthorised, [Next]_vars
  PROVE  ApprovalsAuthorised'
<1>1. /\ request \in [Ids -> RequestRow \cup {NoRequest}]
      /\ record \in [Ids -> RecordRow \cup {NoRecord}]
  BY DEF TypeInv, TypeOK
<1>2. ASSUME NEW i, NEW q, NEW decision, NEW actor, Settles(i, q, decision, actor)
      PROVE  ApprovalsAuthorised'
  <2>1. /\ grants' = grants /\ i \in Ids
        /\ \/ HasCapability(actor, q.submitted.namespace_id, "approve")
           \/ q.policy_action = "auto" /\ actor = q.submitted.requester_id
    BY <1>2 DEF Settles, admin
  <2>2. /\ \A j \in Ids : j # i => request'[j] = request[j]
        /\ request'[i].submitted = q.submitted
        /\ request'[i].policy_action = q.policy_action
        /\ request'[i].status = "approved" => request'[i].decided_by = actor
    BY <1>2, SettledRequests
  <2> QED
    BY <2>1, <2>2 DEF ApprovalsAuthorised, HasCapability
<1>3. ASSUME NEW i, NEW q, Stores(i, q) PROVE ApprovalsAuthorised'
  <2>1. /\ grants' = grants /\ i \in Ids
        /\ \A j \in Ids : j # i => request'[j] = request[j]
        /\ request'[i].status = "pending"
    BY <1>1, <1>3 DEF Stores, admin
  <2> QED
    BY <2>1 DEF ApprovalsAuthorised, HasCapability
<1>4. ASSUME NEW p \in Profiles, NEW limit, ExpireRecords(p, limit)
      PROVE  ApprovalsAuthorised'
  BY <1>4, AuthorityStays DEF ExpireRecords, admin
<1>5. ASSUME NEW p \in Profiles, NEW i \in PurgeIds, ApproveHardPurge(p, i)
      PROVE  ApprovalsAuthorised'
  BY <1>5, AuthorityStays DEF ApproveHardPurge, admin
<1>6. CASE Aside
  BY <1>6, AuthorityStays DEF Aside
<1> QED
  BY <1>2, <1>3, <1>4, <1>5, <1>6, StepKinds

\* No record changes but by someone who could approve it, or by a requester
\* whose submission was stored under the auto policy.
THEOREM OnlyAuthorised == Spec => []ApprovalsAuthorised
<1>1. Init => ApprovalsAuthorised
  BY DEF Init, ApprovalsAuthorised, NoRequest
<1> QED
  BY <1>1, InitIsTyped, NextIsTyped, StepKeepsAuthority, PTL DEF Spec

----------------------------------------------------------------------------
(* A purge erases *)

\* Every record is there by its own approved create, which knows its id.
BornByRequest ==
  \A r \in Ids :
    record[r].status # "none" =>
      request[r].status \in Decided /\ request[r].record_id = r

\* What is gone is gone under its own id too.
ErasedIdsAreEmpty ==
  \A a \in audit : request[a.record_id] = NoRequest /\ a.record_id \in issued

EraseInv == LifeInv /\ BornByRequest /\ ErasedIdsAreEmpty /\ PurgeErases

\* The record a settled request names.
LEMMA SettledTarget ==
  ASSUME TypeInv, NEW i, NEW q, NEW decision, NEW actor,
         Settles(i, q, decision, actor)
  PROVE  /\ request'[i].record_id \in {q.record_id, i}
         /\ Verdict(q, decision) = "approved" /\ IsCreate(q) =>
              request'[i].record_id = i
<1>1. /\ i \in Ids /\ q \in RequestRow
      /\ request' = [request EXCEPT ![i] =
                       Settled(i, q, Verdict(q, decision), actor)]
      /\ request \in [Ids -> RequestRow \cup {NoRequest}]
  BY DEF Settles, ApplyChangeRequest, TypeInv, TypeOK
<1> QED
  BY <1>1 DEF Settled, RequestRow

\* Besides the id it settles, a settled request gives a record to no id.
LEMMA SettledBirths ==
  ASSUME LifeInv, BornByRequest, NEW i, NEW q, NEW decision, NEW actor,
         Settles(i, q, decision, actor)
  PROVE  /\ \A r \in Ids : record[r] = NoRecord /\ r # i => record'[r] = NoRecord
         /\ BornByRequest'
<1> USE DEF LifeInv
<1> DEFINE v == Verdict(q, decision)
<1>1. /\ record[i] = NoRecord /\ i \in Ids
      /\ \A j \in Ids : j # i => request'[j] = request[j]
      /\ request'[i].status \in Decided
      /\ record \in [Ids -> RecordRow \cup {NoRecord}]
  BY SettledUnborn, SettledRequests DEF Settles
<1>2. AtExpectedRevision(q) => record[q.record_id].status # "none"
  BY DEF AtExpectedRevision, ActiveRecord
<1>3. \A r \in Ids : r # i /\ record[r].status = "none" => record'[r] = record[r]
  BY <1>1, <1>2, SettledRecords DEF NoRecord
<1>4. record'[i].status # "none" => v = "approved" /\ IsCreate(q)
  <2>1. v # "approved" => record' = record
    BY DEF Settles, ApplyChangeRequest, canon
  <2>2. IsCreate(q) \/ record'[i] = record[i]
    BY <1>1, <1>2, SettledRecords DEF NoRecord
  <2> QED
    BY <1>1, <2>1, <2>2 DEF NoRecord
<1>5. BornByRequest'
  <2> SUFFICES ASSUME NEW r \in Ids, record'[r].status # "none"
               PROVE  request'[r].status \in Decided /\ request'[r].record_id = r
    BY DEF BornByRequest
  <2>1. CASE r = i
    BY <1>1, <1>4, <2>1, SettledTarget
  <2>2. CASE r # i
    BY <1>1, <1>3, <2>2 DEF BornByRequest
  <2> QED
    BY <2>1, <2>2
<1> QED
  BY <1>3, <1>5 DEF NoRecord

\* The revisions a settled request adds belong to its own record, or to an
\* active one.
LEMMA SettledRevisions ==
  ASSUME TypeInv, NEW i, NEW q, NEW decision, NEW actor,
         Settles(i, q, decision, actor)
  PROVE  \A w \in revisions' :
           \/ w \in revisions
           \/ w.record_id = i
           \/ w.record_id \in Ids /\ record[w.record_id].status = "active"
<1> DEFINE v == Verdict(q, decision)
<1>1. IF v = "approved" THEN Publish(i, q, actor) ELSE UNCHANGED canon
  BY DEF Settles, ApplyChangeRequest
<1>2. v = "approved" => Applicable(q)
  BY DEF Verdict
<1>3. IsMutation(q) => q.record_id \in Ids
  BY DEF Settles
<1> HIDE DEF v
<1>4. CASE v # "approved"
  BY <1>1, <1>4 DEF canon
<1>5. CASE v = "approved" /\ ~IsMutation(q)
  BY <1>1, <1>5 DEF Publish, Revision
<1>6. CASE v = "approved" /\ IsMutation(q)
  <2>1. record[q.record_id].status = "active" /\ q.record_id \in Ids
    BY <1>2, <1>3, <1>6
       DEF Applicable, IsCreate, IsMutation, AtExpectedRevision, ActiveRecord
  <2>2. revisions' = revisions \cup
          {Revision(q.record_id, MutatedRecord(q), q.submitted.operation, actor)}
    BY <1>1, <1>6 DEF Publish, IsCreate, IsMutation
  <2> QED
    BY <2>1, <2>2 DEF Revision
<1> QED
  BY <1>4, <1>5, <1>6

\* Settling a request never brings a purged record or its traces back.
LEMMA SettlingKeepsErased ==
  ASSUME EraseInv, NEW i, NEW q, NEW decision, NEW actor,
         Settles(i, q, decision, actor)
  PROVE  BornByRequest' /\ ErasedIdsAreEmpty' /\ PurgeErases'
<1> USE DEF EraseInv, LifeInv
<1>1. /\ audit' = audit /\ purge' = purge /\ i \in Ids
      /\ issued \subseteq issued'
      /\ \A j \in Ids : j # i => request'[j] = request[j]
      /\ request'[i].record_id \in {q.record_id, i}
  BY SettledRequests, SettledTarget DEF Settles, erasure
<1>2. \A a \in audit : a.record_id \in Ids
  BY DEF TypeInv, TypeOK, AuditRow
<1>3. ASSUME NEW a \in audit
      PROVE  /\ a.record_id # i
             /\ record[a.record_id] = NoRecord
             /\ q.record_id # a.record_id
  <2>1. /\ request[a.record_id] = NoRequest /\ a.record_id \in issued
        /\ record[a.record_id] = NoRecord
        /\ ~ConcernsRecord(i, a.record_id)
    BY <1>1 DEF ErasedIdsAreEmpty, PurgeErases, ConcernsRecord
  <2>2. q.status = "pending"
    BY DEF Settles
  <2>3. CASE request[i] = q
    BY <2>1, <2>2, <2>3 DEF ConcernsRecord, NoRequest
  <2>4. CASE i \notin issued /\ Targeted(q)
    BY <1>2, <2>1, <2>4 DEF Targeted, NoRecord
  <2> QED
    BY <2>1, <2>3, <2>4 DEF Settles
<1>4. BornByRequest' /\ \A r \in Ids : record[r] = NoRecord /\ r # i
                                         => record'[r] = NoRecord
  BY SettledBirths
<1>5. ErasedIdsAreEmpty'
  BY <1>1, <1>2, <1>3 DEF ErasedIdsAreEmpty
<1>6. PurgeErases'
  <2> SUFFICES ASSUME NEW a \in audit
               PROVE  /\ record'[a.record_id] = NoRecord
                      /\ \A w \in revisions' : w.record_id # a.record_id
                      /\ \A j \in Ids : ~ConcernsRecord(j, a.record_id)'
                      /\ a.requested_by # a.approved_by
                      /\ purge'[a.request_id].status = "purged"
    BY <1>1 DEF PurgeErases, ConcernsRecord
  <2>1. record'[a.record_id] = NoRecord
    BY <1>2, <1>3, <1>4
  <2>2. \A w \in revisions' : w.record_id # a.record_id
    BY <1>3, SettledRevisions DEF PurgeErases, NoRecord
  <2>3. \A j \in Ids : ~ConcernsRecord(j, a.record_id)'
    BY <1>1, <1>3 DEF PurgeErases, ConcernsRecord
  <2> QED
    BY <1>1, <2>1, <2>2, <2>3 DEF PurgeErases, ConcernsRecord
<1> QED
  BY <1>4, <1>5, <1>6

\* The purge itself leaves nothing under the id it erases.
LEMMA PurgingErases ==
  ASSUME EraseInv, NEW p \in Profiles, NEW i \in PurgeIds, ApproveHardPurge(p, i)
  PROVE  BornByRequest' /\ ErasedIdsAreEmpty' /\ PurgeErases'
<1> USE DEF EraseInv, LifeInv
<1>1. /\ request \in [Ids -> RequestRow \cup {NoRequest}]
      /\ record \in [Ids -> RecordRow \cup {NoRecord}]
      /\ purge \in [PurgeIds -> PurgeRow \cup {NoPurge}]
      /\ \A a \in audit : a.record_id \in Ids /\ a.request_id \in PurgeIds
  BY DEF TypeInv, TypeOK, AuditRow
<1>2. purge[i] \in PurgeRow
  BY RowsExist DEF ApproveHardPurge, TypeInv
<1> PICK r \in Ids : purge[i].record_id = r
  BY <1>2 DEF PurgeRow
<1>3. /\ purge[i].status = "pending" /\ purge[i].requested_by # p
      /\ record[r].status # "none"
      /\ audit' = audit \cup
           {[request_id |-> i, record_id |-> r,
             final_revision |-> record[r].revision,
             requested_by |-> purge[i].requested_by, approved_by |-> p]}
      /\ request' = [j \in Ids |-> IF ConcernsRecord(j, r) \/ StaleCreate(j, r)
                                   THEN NoRequest ELSE request[j]]
      /\ revisions' = {v \in revisions : v.record_id # r}
      /\ record' = [record EXCEPT ![r] = NoRecord]
      /\ purge' = [purge EXCEPT ![i].status = "purged", ![i].approved_by = p]
      /\ issued' = issued
  BY DEF ApproveHardPurge
<1>4. BornByRequest'
  <2> SUFFICES ASSUME NEW o \in Ids, record'[o].status # "none"
               PROVE  request'[o].status \in Decided /\ request'[o].record_id = o
    BY DEF BornByRequest
  <2>1. o # r /\ record'[o] = record[o]
    BY <1>1, <1>3 DEF NoRecord
  <2>2. request[o].status \in Decided /\ request[o].record_id = o
    BY <2>1 DEF BornByRequest
  <2>3. ~ConcernsRecord(o, r) /\ ~StaleCreate(o, r)
    BY <2>1, <2>2 DEF ConcernsRecord, StaleCreate, Decided
  <2> QED
    BY <1>3, <2>2, <2>3
<1>5. ErasedIdsAreEmpty'
  <2>1. request'[r] = NoRequest
    BY <1>2, <1>3 DEF BornByRequest, ConcernsRecord, Decided
  <2>2. r \in issued
    BY <1>2, <1>3 DEF IdsAreIssued, NoRecord
  <2>3. \A j \in Ids : request[j] = NoRequest => request'[j] = NoRequest
    BY <1>3
  <2> QED
    BY <1>1, <1>3, <2>1, <2>2, <2>3 DEF ErasedIdsAreEmpty
<1>6. PurgeErases'
  <2>1. \A o \in Ids : record[o] = NoRecord => record'[o] = NoRecord
    BY <1>1, <1>3
  <2>2. record'[r] = NoRecord
    BY <1>1, <1>2, <1>3
  <2>3. \A j \in Ids : ~ConcernsRecord(j, r)'
    BY <1>3 DEF ConcernsRecord, NoRequest
  <2>4. \A j, o \in Ids : ~ConcernsRecord(j, o) => ~ConcernsRecord(j, o)'
    BY <1>3 DEF ConcernsRecord, NoRequest
  <2>5. purge'[i].status = "purged"
    BY <1>1, <1>2, <1>3 DEF PurgeRow
  <2>6. \A j \in PurgeIds : j # i => purge'[j] = purge[j]
    BY <1>1, <1>3
  <2>7. \A a \in audit : a.request_id # i
    BY <1>3 DEF PurgeErases
  <2> QED
    BY <1>1, <1>2, <1>3, <2>1, <2>2, <2>3, <2>4, <2>5, <2>6, <2>7
       DEF PurgeErases, ConcernsRecord
<1> QED
  BY <1>4, <1>5, <1>6

\* Every step keeps the erasure invariant.
LEMMA StepKeepsErased ==
  ASSUME EraseInv, [Next]_vars
  PROVE  EraseInv'
<1> USE DEF EraseInv, LifeInv
<1>1. /\ request \in [Ids -> RequestRow \cup {NoRequest}]
      /\ record \in [Ids -> RecordRow \cup {NoRecord}]
      /\ \A a \in audit : a.record_id \in Ids /\ a.request_id \in PurgeIds
  BY DEF TypeInv, TypeOK, AuditRow
<1>2. ASSUME NEW i, NEW q, Stores(i, q)
      PROVE  BornByRequest' /\ ErasedIdsAreEmpty' /\ PurgeErases'
  <2>1. /\ i \in Ids /\ i \notin issued /\ issued' = issued \cup {i}
        /\ Targeted(q) /\ request' = [request EXCEPT ![i] = q]
        /\ UNCHANGED <<record, revisions, purge, audit>>
    BY <1>2 DEF Stores, canon, erasure
  <2>2. request[i] = NoRequest /\ record[i] = NoRecord
    BY <2>1 DEF IdsAreIssued
  <2>3. \A a \in audit : a.record_id # i /\ q.record_id # a.record_id
    BY <1>1, <2>1 DEF ErasedIdsAreEmpty, PurgeErases, Targeted, NoRecord
  <2>4. BornByRequest'
    BY <1>1, <2>1, <2>2 DEF BornByRequest, NoRecord
  <2>5. ErasedIdsAreEmpty'
    BY <1>1, <2>1, <2>3 DEF ErasedIdsAreEmpty
  <2>6. PurgeErases'
    BY <1>1, <2>1, <2>3 DEF PurgeErases, ConcernsRecord
  <2> QED
    BY <2>4, <2>5, <2>6
<1>3. ASSUME NEW p \in Profiles, NEW limit, ExpireRecords(p, limit)
      PROVE  BornByRequest' /\ ErasedIdsAreEmpty' /\ PurgeErases'
  <2>1. /\ UNCHANGED <<issued, request, revisions, purge, audit>>
        /\ \A r \in Ids : record[r].status = "none" => record'[r] = record[r]
    BY <1>3 DEF ExpireRecords, Due, erasure
  <2> QED
    BY <1>1, <2>1
       DEF BornByRequest, ErasedIdsAreEmpty, PurgeErases, ConcernsRecord, NoRecord
<1>4. ASSUME Aside
      PROVE  BornByRequest' /\ ErasedIdsAreEmpty' /\ PurgeErases'
  BY <1>1, <1>4
     DEF Aside, canon, BornByRequest, ErasedIdsAreEmpty, PurgeErases, ConcernsRecord
<1> QED
  BY <1>2, <1>3, <1>4, StepKinds, StepKeepsLife, SettlingKeepsErased, PurgingErases

\* Whatever is pending or proposed at that time, a purged record leaves no row,
\* revision or request behind, and its id never comes to life again.
THEOREM PurgedForGood == Spec => []PurgeErases
<1>1. Init => EraseInv
  BY InitIsTyped
     DEF Init, EraseInv, LifeInv, IdsAreIssued, PendingUnborn, BornByRequest,
         ErasedIdsAreEmpty, PurgeErases, NoRequest, NoRecord
<1>2. EraseInv /\ [Next]_vars => EraseInv'
  BY StepKeepsErased
<1>3. EraseInv => PurgeErases
  BY DEF EraseInv
<1> QED
  BY <1>1, <1>2, <1>3, PTL DEF Spec

----------------------------------------------------------------------------
(* Implementation of VersionedRecords *)

\* What the mapping rests on.
PromiseInv == EraseInv /\ OneActivePerIdentity

\* What Promise calls its variable.
Cells == [r \in Ids |-> CellOf(r)]

\* Who was erased.
Gone(r) == \E a \in audit : a.record_id = r

\* Nothing is born at the start.
LEMMA InitKeepsPromise == Init => Promise!Init
BY DEF Init, Promise!Init, Promise!Unborn, CellOf, NoRecord

\* It is an invariant.
LEMMA PromiseInvariant == Spec => []PromiseInv
<1>1. Init => PromiseInv
  BY InitIsTyped
     DEF Init, PromiseInv, EraseInv, LifeInv, IdsAreIssued, PendingUnborn,
         BornByRequest, ErasedIdsAreEmpty, PurgeErases, OneActivePerIdentity,
         NoRequest, NoRecord
<1>2. PromiseInv /\ [Next]_vars => PromiseInv'
  BY StepKeepsErased, StepKeepsSlotsApart DEF PromiseInv, EraseInv, LifeInv
<1> QED
  BY <1>1, <1>2, PTL DEF Spec

\* What is in the record table was not erased.
LEMMA RecordsAreNotGone ==
  ASSUME PromiseInv, NEW r \in Ids, record[r].status # "none"
  PROVE  ~Gone(r)
BY DEF PromiseInv, EraseInv, PurgeErases, NoRecord, Gone

\* The id a call settles was not erased either, and no call but a purge erases.
LEMMA SettledIsNotGone ==
  ASSUME PromiseInv, NEW i, NEW q, NEW decision, NEW actor,
         Settles(i, q, decision, actor)
  PROVE  ~Gone(i) /\ audit' = audit
BY DEF PromiseInv, EraseInv, ErasedIdsAreEmpty, Settles, erasure, Gone, NoRequest

\* A cell follows its record while it is not erased.
LEMMA CellFollows ==
  ASSUME audit' = audit, NEW r \in Ids, record'[r] = record[r]
  PROVE  CellOf(r)' = CellOf(r)
BY DEF CellOf

\* What the mapped variable holds before and after a step.
LEMMA CellsHold ==
  /\ DOMAIN Cells = Ids /\ \A r \in Ids : Cells[r] = CellOf(r)
  /\ DOMAIN Cells' = Ids /\ \A r \in Ids : Cells'[r] = CellOf(r)'
  /\ Cells = [r \in Ids |-> Cells[r]] /\ Cells' = [r \in Ids |-> Cells'[r]]
BY DEF Cells

\* A published create bears a cell in a free slot.
LEMMA CreateBears ==
  ASSUME PromiseInv, NEW i \in Ids, NEW q, record[i] = NoRecord, ~Gone(i),
         audit' = audit, IdentityFree(q.submitted),
         record' = [record EXCEPT ![i] = NewRecord(q)],
         NewRecord(q) \in RecordRow
  PROVE  Promise!Bear(i)
<1> DEFINE row == NewRecord(q)
           slot == <<row.namespace_id, row.record_type, row.identity_key>>
<1>1. record \in [Ids -> RecordRow \cup {NoRecord}]
  BY DEF PromiseInv, EraseInv, LifeInv, TypeInv, TypeOK
<1>2. CellOf(i) = Promise!Unborn
  BY DEF CellOf, Gone, NoRecord, Promise!Unborn
<1>3. /\ row.status = "active" /\ row.revision = 1
      /\ row.namespace_id = q.submitted.namespace_id
      /\ row.record_type = q.submitted.record_type
      /\ row.identity_key = q.submitted.identity_key
  BY DEF NewRecord
<1>4. slot \in Slots /\ row.payload \in Payloads
  BY DEF RecordRow, Slots
<1>5. record'[i] = row /\ \A r \in Ids : r # i => record'[r] = record[r]
  BY <1>1
<1> HIDE DEF row
<1>6. CellOf(i)' = [state |-> "live", slot |-> slot, version |-> 1,
                    content |-> row.payload]
  BY <1>3, <1>5 DEF CellOf, Gone
<1>7. \A r \in Ids : r # i => CellOf(r)' = CellOf(r)
  BY <1>5, CellFollows
<1>8. \A r \in Ids : ~(CellOf(r).state = "live" /\ CellOf(r).slot = slot)
  <2> SUFFICES ASSUME NEW r \in Ids, CellOf(r).state = "live"
               PROVE  CellOf(r).slot # slot
    OBVIOUS
  <2>1. /\ record[r].status = "active"
        /\ CellOf(r).slot = <<record[r].namespace_id, record[r].record_type,
                              record[r].identity_key>>
    BY DEF CellOf
  <2> QED
    BY <1>3, <2>1 DEF IdentityFree, ActiveRecord
<1> HIDE DEF slot
<1>9. /\ Cells[i] = Promise!Unborn
      /\ Cells'[i] = [state |-> "live", slot |-> slot, version |-> 1,
                      content |-> row.payload]
      /\ Cells' = [Cells EXCEPT ![i] = Cells'[i]]
      /\ \A r \in Ids : ~(Cells[r].state = "live" /\ Cells[r].slot = slot)
  BY <1>2, <1>6, <1>7, <1>8, CellsHold
<1>10. /\ Cells[i] = Promise!Unborn /\ Cells'[i].state = "live"
       /\ Cells'[i].slot \in Slots /\ Cells'[i].content \in Payloads
       /\ \A r \in Ids :
            ~(Cells[r].state = "live" /\ Cells[r].slot = Cells'[i].slot)
       /\ Cells' = [Cells EXCEPT ![i] =
            [state |-> "live", slot |-> Cells'[i].slot, version |-> 1,
             content |-> Cells'[i].content]]
  BY <1>4, <1>9
<1> QED
  BY <1>10 DEF Promise!Bear, Promise!Free, Cells

\* A published update writes its cell, a published delete closes it.
LEMMA MutationWrites ==
  ASSUME PromiseInv, NEW q, q.record_id \in Ids, AtExpectedRevision(q),
         audit' = audit,
         record' = [record EXCEPT ![q.record_id] = MutatedRecord(q)],
         MutatedRecord(q) \in RecordRow, record[q.record_id] \in RecordRow
  PROVE  Promise!Write(q.record_id) \/ Promise!Delete(q.record_id)
<1> DEFINE r == q.record_id
           row == record[r]
           new == MutatedRecord(q)
           Slot(x) == <<x.namespace_id, x.record_type, x.identity_key>>
           Cell(x, state) ==
             [state |-> state, slot |-> Slot(x), version |-> x.revision,
              content |-> x.payload]
<1>1. record \in [Ids -> RecordRow \cup {NoRecord}]
  BY DEF PromiseInv, EraseInv, LifeInv, TypeInv, TypeOK
<1>2. row.status = "active"
  BY DEF AtExpectedRevision, ActiveRecord
<1>3. ~Gone(r) /\ ~Gone(r)'
  BY <1>2, RecordsAreNotGone DEF Gone
<1>4. record'[r] = new /\ \A o \in Ids : o # r => record'[o] = record[o]
  BY <1>1
<1>5. \A o \in Ids : o # r => Cells'[o] = Cells[o]
  BY <1>4, CellFollows, CellsHold
<1>6. Cells[r] = Cell(row, "live")
  BY <1>2, <1>3, CellsHold DEF CellOf, Gone
<1>7. new = IF q.submitted.operation = "update"
            THEN [row EXCEPT !.revision = row.revision + 1, !.payload = q.payload]
            ELSE [row EXCEPT !.revision = row.revision + 1,
                             !.status = "tombstoned"]
  BY DEF MutatedRecord
<1>8. row \in RecordRow /\ new \in RecordRow
  OBVIOUS
<1>9. r \in Ids
  OBVIOUS
<1> HIDE DEF row, new
<1>10. Cells'[r] = Cell(new, IF new.status = "active" THEN "live" ELSE "closed")
  <2>1. new.status # "none"
    BY <1>8 DEF RecordRow
  <2>2. CellOf(r)' = Cell(new, IF new.status = "active" THEN "live" ELSE "closed")
    BY <1>3, <1>4, <2>1 DEF CellOf, Gone
  <2> QED
    BY <2>2, CellsHold
<1>11. CASE q.submitted.operation = "update"
  <2>1. /\ new.status = "active" /\ new.revision = row.revision + 1
        /\ new.payload \in Payloads /\ Slot(new) = Slot(row)
    BY <1>2, <1>7, <1>8, <1>11 DEF RecordRow
  <2> HIDE DEF Slot
  <2>2. Cells'[r] = [state |-> "live", slot |-> Slot(row),
                     version |-> row.revision + 1, content |-> new.payload]
    BY <1>10, <2>1
  <2>3. /\ Cells[r].state = "live" /\ Cells'[r].state = "live"
        /\ Cells'[r].content \in Payloads
        /\ Cells'[r] = [Cells[r] EXCEPT !.version = Cells[r].version + 1,
                                        !.content = Cells'[r].content]
    <3>1. /\ Cells[r].state = "live" /\ Cells[r].version = row.revision
          /\ Cells'[r].state = "live" /\ Cells'[r].content = new.payload
      BY <1>6, <2>2
    <3> DEFINE next == [Cells[r] EXCEPT !.version = row.revision + 1]
    <3>2. next = [state |-> "live", slot |-> Slot(row),
                  version |-> row.revision + 1, content |-> row.payload]
      BY <1>6
    <3> HIDE DEF next
    <3>3. [next EXCEPT !.content = new.payload] = Cells'[r]
      BY <2>2, <3>2
    <3>4. Cells'[r] = [Cells[r] EXCEPT !.version = row.revision + 1,
                                       !.content = new.payload]
      BY <3>3 DEF next
    <3> QED
      BY <2>1, <3>1, <3>4
  <2>4. Cells' = [Cells EXCEPT ![r].version = @ + 1,
                               ![r].content = Cells'[r].content]
    BY <1>5, <1>9, <2>3, CellsHold
  <2>5. Promise!Write(r)
    BY <2>3, <2>4 DEF Promise!Write, Cells
  <2> QED
    BY <2>5
<1>12. CASE q.submitted.operation # "update"
  <2>1. /\ new.status = "tombstoned" /\ new.revision = row.revision + 1
        /\ new.payload = row.payload /\ Slot(new) = Slot(row)
    BY <1>7, <1>8, <1>12 DEF RecordRow
  <2> HIDE DEF Slot
  <2>2. Cells'[r] = [state |-> "closed", slot |-> Slot(row),
                     version |-> row.revision + 1, content |-> row.payload]
    BY <1>10, <2>1
  <2>3. /\ Cells[r].state = "live"
        /\ Cells'[r] = [Cells[r] EXCEPT !.version = Cells[r].version + 1,
                                        !.state = "closed"]
    <3>1. Cells[r].state = "live" /\ Cells[r].version = row.revision
      BY <1>6
    <3> DEFINE next == [Cells[r] EXCEPT !.version = row.revision + 1]
    <3>2. next = [state |-> "live", slot |-> Slot(row),
                  version |-> row.revision + 1, content |-> row.payload]
      BY <1>6
    <3> HIDE DEF next
    <3>3. [next EXCEPT !.state = "closed"] = Cells'[r]
      BY <2>2, <3>2
    <3>4. Cells'[r] = [Cells[r] EXCEPT !.version = row.revision + 1,
                                       !.state = "closed"]
      BY <3>3 DEF next
    <3> QED
      BY <3>1, <3>4
  <2>4. Cells' = [Cells EXCEPT ![r].version = @ + 1, ![r].state = "closed"]
    BY <1>5, <1>9, <2>3, CellsHold
  <2>5. Promise!Delete(r)
    BY <2>3, <2>4 DEF Promise!Delete, Cells
  <2> QED
    BY <2>5
<1> QED
  BY <1>11, <1>12

\* Settling a request bears, writes or deletes one cell, or none.
LEMMA SettlingKeepsPromise ==
  ASSUME PromiseInv, NEW i, NEW q, NEW decision, NEW actor,
         Settles(i, q, decision, actor)
  PROVE  Promise!Next \/ UNCHANGED Cells
<1> USE DEF PromiseInv, EraseInv, LifeInv
<1>1. /\ i \in Ids /\ record[i] = NoRecord /\ ~Gone(i) /\ audit' = audit
  BY SettledUnborn, SettledIsNotGone DEF Settles
<1>2. CASE record' = record
  BY <1>1, <1>2 DEF Cells, CellOf
<1>3. CASE /\ IdentityFree(q.submitted)
           /\ record' = [record EXCEPT ![i] = NewRecord(q)]
           /\ NewRecord(q) \in RecordRow
  <2>1. Promise!Bear(i)
    BY <1>1, <1>3, CreateBears
  <2> QED
    BY <1>1, <2>1 DEF Promise!Next
<1>4. CASE /\ AtExpectedRevision(q) /\ q.record_id \in Ids
           /\ record' = [record EXCEPT ![q.record_id] = MutatedRecord(q)]
           /\ MutatedRecord(q) \in RecordRow
           /\ record[q.record_id] \in RecordRow
  <2>1. Promise!Write(q.record_id) \/ Promise!Delete(q.record_id)
    BY <1>1, <1>4, MutationWrites
  <2> QED
    BY <1>4, <2>1 DEF Promise!Next
<1> QED
  BY <1>2, <1>3, <1>4, SettledRecords

\* Expiry closes the cells of all the records it reaches.
LEMMA ExpiryLapses ==
  ASSUME PromiseInv, NEW p \in Profiles, NEW limit, ExpireRecords(p, limit)
  PROVE  Promise!Next
<1>1. PICK S \in SUBSET Due(p) :
        record' = [r \in Ids |-> IF r \in S
                                 THEN [record[r] EXCEPT !.status = "expired"]
                                 ELSE record[r]]
  BY DEF ExpireRecords
<1>2. audit' = audit
  BY DEF ExpireRecords, erasure
<1>3. S \in SUBSET Ids
  BY DEF Due
<1>4. \A r \in Ids \ S : Cells'[r] = Cells[r]
  BY <1>1, <1>2, CellFollows, CellsHold
<1>5. ASSUME NEW r \in S
      PROVE  /\ Cells[r].state = "live"
             /\ Cells'[r] = [Cells[r] EXCEPT !.state = "closed"]
  <2> DEFINE row == record[r]
             slot == <<row.namespace_id, row.record_type, row.identity_key>>
  <2>1. row.status = "active" /\ row \in RecordRow /\ ~Gone(r) /\ ~Gone(r)'
    <3>1. row.status = "active"
      BY DEF Due
    <3> QED
      BY <1>2, <1>3, <3>1, RecordsAreNotGone, RowsExist
         DEF PromiseInv, EraseInv, LifeInv, TypeInv, Gone
  <2>2. record'[r] = [row EXCEPT !.status = "expired"]
    BY <1>1, <1>3
  <2>3. Cells[r] = [state |-> "live", slot |-> slot, version |-> row.revision,
                    content |-> row.payload]
    BY <1>3, <2>1, CellsHold DEF CellOf, Gone
  <2> HIDE DEF row
  <2>4. /\ record'[r].status = "expired"
        /\ <<record'[r].namespace_id, record'[r].record_type,
             record'[r].identity_key>> = slot
        /\ record'[r].revision = row.revision
        /\ record'[r].payload = row.payload
    BY <2>1, <2>2 DEF RecordRow
  <2> HIDE DEF slot
  <2>5. CellOf(r)' = [state |-> "closed", slot |-> slot,
                      version |-> row.revision, content |-> row.payload]
    BY <2>1, <2>4 DEF CellOf, Gone
  <2> QED
    BY <1>3, <2>3, <2>5, CellsHold
<1>6. Cells' = [r \in Ids |-> IF r \in S THEN [Cells[r] EXCEPT !.state = "closed"]
                                         ELSE Cells[r]]
  BY <1>3, <1>4, <1>5, CellsHold
<1>7. Promise!Lapse(S)
  BY <1>3, <1>5, <1>6 DEF Promise!Lapse, Cells
<1> QED
  BY <1>3, <1>7 DEF Promise!Next

\* A purge erases the cell of its record.
LEMMA PurgeErasesCell ==
  ASSUME PromiseInv, NEW p \in Profiles, NEW i \in PurgeIds,
         ApproveHardPurge(p, i)
  PROVE  Promise!Next
<1> USE DEF PromiseInv, EraseInv, LifeInv
<1>1. purge[i] \in PurgeRow /\ record \in [Ids -> RecordRow \cup {NoRecord}]
  BY RowsExist DEF ApproveHardPurge, TypeInv, TypeOK
<1> PICK r \in Ids : purge[i].record_id = r
  BY <1>1 DEF PurgeRow
<1>2. /\ record[r].status # "none"
      /\ record' = [record EXCEPT ![r] = NoRecord]
      /\ \A a \in audit' : a \in audit \/ a.record_id = r
      /\ audit \subseteq audit'
      /\ \E a \in audit' : a.record_id = r
  <2> DEFINE trace == [request_id |-> i, record_id |-> r,
                       final_revision |-> record[r].revision,
                       requested_by |-> purge[i].requested_by,
                       approved_by |-> p]
  <2>1. /\ record[r].status # "none"
        /\ record' = [record EXCEPT ![r] = NoRecord]
        /\ audit' = audit \cup {trace}
    BY DEF ApproveHardPurge
  <2>2. trace.record_id = r
    OBVIOUS
  <2> HIDE DEF trace
  <2> QED
    BY <2>1, <2>2
<1>3. Cells[r].state \in {"live", "closed"}
  BY <1>2, RecordsAreNotGone, CellsHold DEF CellOf, Gone
<1>4. Cells'[r] = Promise!Erased
  BY <1>2, CellsHold DEF CellOf, Promise!Erased
<1>5. \A o \in Ids : o # r => Cells'[o] = Cells[o]
  <2> SUFFICES ASSUME NEW o \in Ids, o # r
               PROVE  CellOf(o)' = CellOf(o)
    BY CellsHold
  <2>1. record'[o] = record[o]
    BY <1>1, <1>2
  <2>2. Gone(o)' <=> Gone(o)
    BY <1>2 DEF Gone
  <2> QED
    BY <2>1, <2>2 DEF CellOf, Gone
<1>6. Cells' = [Cells EXCEPT ![r] = Promise!Erased]
  BY <1>4, <1>5, CellsHold
<1>7. Promise!Erase(r)
  BY <1>3, <1>6 DEF Promise!Erase, Cells
<1> QED
  BY <1>7 DEF Promise!Next

\* Every step is a step of the promise or leaves its cells alone.
LEMMA StepKeepsPromise ==
  PromiseInv /\ [Next]_vars => [Promise!Next]_Cells
<1> SUFFICES ASSUME PromiseInv, [Next]_vars
             PROVE  Promise!Next \/ UNCHANGED Cells
  OBVIOUS
<1>1. ASSUME NEW i, NEW q, Stores(i, q) PROVE UNCHANGED Cells
  BY <1>1 DEF Stores, canon, erasure, Cells, CellOf
<1>2. ASSUME Aside PROVE UNCHANGED Cells
  BY <1>2 DEF Aside, canon, Cells, CellOf
<1> QED
  BY <1>1, <1>2, StepKinds, SettlingKeepsPromise, ExpiryLapses, PurgeErasesCell
     DEF PromiseInv, EraseInv, LifeInv

\* The PostgreSQL store, record by record, keeps the promise the in-memory store
\* keeps: a record is born in a free slot, written one revision at a time, closed
\* once, and nothing but a purge erases them, for good.
THEOREM StoreImplementsPromise == Spec => ImplementsVersionedRecords
<1>1. PromiseInv /\ [Next]_vars => [Promise!Next]_Cells
  BY StepKeepsPromise
<1> QED
  BY InitKeepsPromise, <1>1, PromiseInvariant, PTL
     DEF Spec, ImplementsVersionedRecords, Promise!Spec, Cells

----------------------------------------------------------------------------
(* The history is what was approved *)

\* History and approvals, with the ids that LifeInv keeps apart.
HistoryInv == LifeInv /\ HistoryApproved

\* Request i, settled as approved, writes row under id r by an operation.
Writes(i, r, row, op, actor) ==
  /\ row \in RecordRow
  /\ record' = [record EXCEPT ![r] = row]
  /\ revisions' = revisions \cup {Revision(r, row, op, actor)}
  /\ Published(i)'
  /\ request'[i].record_id = r
  /\ request'[i].submitted.operation = op
  /\ request'[i].decided_by = actor
  /\ op # "delete" => row.payload = request'[i].payload
  /\ op = "delete" <=> row.status = "tombstoned"
  /\ \/ op = "create" /\ r = i /\ row.revision = 1
     \/ /\ op # "create" /\ record[r] \in RecordRow
        /\ row.revision = record[r].revision + 1
        /\ row.revision = request'[i].expected_revision + 1

\* A settled request writes one row and its revision, or neither.
LEMMA SettledWrites ==
  ASSUME TypeInv, NEW i, NEW q, NEW decision, NEW actor,
         Settles(i, q, decision, actor)
  PROVE  \/ UNCHANGED <<record, revisions>> /\ ~Published(i)'
         \/ \E r \in Ids : \E row, op : Writes(i, r, row, op, actor)
<1> DEFINE v == Verdict(q, decision)
<1>1. IF v = "approved" THEN Publish(i, q, actor) ELSE UNCHANGED canon
  BY DEF Settles, ApplyChangeRequest
<1>2. v = "approved" => Applicable(q)
  BY DEF Verdict
<1>3. /\ i \in Ids /\ q \in RequestRow /\ actor \in Profiles
      /\ IsMutation(q) => q.record_id \in Ids
      /\ request' = [request EXCEPT ![i] = Settled(i, q, v, actor)]
      /\ request \in [Ids -> RequestRow \cup {NoRequest}]
  BY DEF Settles, ApplyChangeRequest, TypeInv, TypeOK
<1>4. /\ request'[i].status = v
      /\ request'[i].submitted = q.submitted
      /\ request'[i].payload = q.payload
      /\ request'[i].expected_revision = q.expected_revision
      /\ v = "approved" => request'[i].decided_by = actor
      /\ request'[i].record_id = IF v = "approved" /\ IsCreate(q) THEN i
                                 ELSE q.record_id
  <2> HIDE DEF v
  <2> QED
    BY <1>3 DEF Settled, RequestRow
<1> HIDE DEF v
<1>5. Published(i)' <=> v = "approved" /\ ~IsDefinition(q)
  BY <1>4 DEF Published, IsDefinition
<1>6. CASE v # "approved"
  BY <1>1, <1>5, <1>6 DEF canon
<1>7. CASE v = "approved" /\ IsDefinition(q)
  BY <1>1, <1>5, <1>7 DEF Publish, IsCreate, IsMutation
<1>8. CASE v = "approved" /\ IsCreate(q)
  <2>1. /\ NewRecord(q) \in RecordRow
        /\ record' = [record EXCEPT ![i] = NewRecord(q)]
        /\ revisions' = revisions \cup {Revision(i, NewRecord(q), "create", actor)}
    BY <1>1, <1>3, <1>8, CreatedIsRow
       DEF Publish, IsCreate, IsMutation, IsDefinition, TypeInv
  <2>2. /\ NewRecord(q).payload = q.payload /\ NewRecord(q).revision = 1
        /\ NewRecord(q).status = "active"
    BY DEF NewRecord
  <2>3. Writes(i, i, NewRecord(q), "create", actor)
    BY <1>4, <1>5, <1>8, <2>1, <2>2 DEF Writes, IsCreate
  <2> QED
    BY <1>3, <2>3
<1>9. CASE v = "approved" /\ IsMutation(q)
  <2> DEFINE r == q.record_id
             row == MutatedRecord(q)
             op == q.submitted.operation
  <2>1. AtExpectedRevision(q) /\ r \in Ids
    BY <1>2, <1>3, <1>9 DEF Applicable, IsCreate, IsMutation
  <2>2. /\ record[r] \in RecordRow /\ row \in RecordRow
        /\ row.revision = record[r].revision + 1
    BY <1>3, <2>1, MutatedIsRow DEF TypeInv
  <2>3. /\ record[r].status = "active"
        /\ record[r].revision = q.expected_revision
    BY <2>1 DEF AtExpectedRevision, ActiveRecord
  <2>4. /\ record' = [record EXCEPT ![r] = row]
        /\ revisions' = revisions \cup {Revision(r, row, op, actor)}
    BY <1>1, <1>9 DEF Publish, IsCreate, IsMutation
  <2>5. op \in {"update", "delete"}
    BY <1>3, <1>9 DEF IsMutation, RequestRow, Submission, Operations
  <2>6. /\ op # "delete" => row.payload = q.payload
        /\ op = "delete" <=> row.status = "tombstoned"
    <3> DEFINE old == record[r]
    <3>1. row = IF op = "update"
                THEN [old EXCEPT !.revision = old.revision + 1,
                                 !.payload = q.payload]
                ELSE [old EXCEPT !.revision = old.revision + 1,
                                 !.status = "tombstoned"]
      BY DEF MutatedRecord
    <3>2. old \in RecordRow /\ old.status = "active"
      BY <2>2, <2>3
    <3> HIDE DEF old, row, op
    <3> QED
      BY <2>5, <3>1, <3>2 DEF RecordRow
  <2>7. Writes(i, r, row, op, actor)
    <3> HIDE DEF row
    <3> QED
      BY <1>4, <1>5, <1>9, <2>2, <2>3, <2>4, <2>5, <2>6
         DEF Writes, IsCreate, IsMutation
  <2> QED
    BY <2>1, <2>7
<1> QED
  BY <1>6, <1>7, <1>8, <1>9 DEF IsCreate, IsMutation

\* The revision written is the first of its number, and the next one.
LEMMA WrittenRevision ==
  ASSUME HistoryInv, NEW i \in Ids, record[i] = NoRecord, NEW r \in Ids, NEW row,
         NEW op, NEW actor, Writes(i, r, row, op, actor)
  PROVE  /\ \A v \in revisions : v.record_id = r => v.revision < row.revision
         /\ \A n \in 1..row.revision : n = row.revision \/
              \E v \in revisions : v.record_id = r /\ v.revision = n
<1> USE DEF HistoryInv, HistoryApproved
<1>1. /\ row.revision \in Nat \ {0}
      /\ \A v \in revisions : v.revision \in Nat
      /\ \A o \in Ids : record[o] \in RecordRow => record[o].revision \in Nat
  BY DEF Writes, RecordRow, LifeInv, TypeInv, TypeOK, RevisionRow
<1>2. CASE r = i /\ row.revision = 1
  <2>1. \A v \in revisions : v.record_id # r
    BY <1>2 DEF HistoryIsComplete, NoRecord
  <2> QED
    BY <1>1, <1>2, <2>1
<1>3. CASE record[r] \in RecordRow /\ row.revision = record[r].revision + 1
  <2>1. \A v \in revisions : v.record_id = r => v.revision <= record[r].revision
    BY DEF HistoryIsComplete
  <2>2. \A n \in 1..record[r].revision :
          \E v \in revisions : v.record_id = r /\ v.revision = n
    BY <1>3 DEF HistoryIsComplete, RecordRow
  <2> QED
    BY <1>1, <1>3, <2>1, <2>2
<1> QED
  BY <1>2, <1>3 DEF Writes

\* Writing a row and its revision together keeps the history complete.
LEMMA WritingKeepsHistory ==
  ASSUME HistoryInv, NEW i \in Ids, record[i] = NoRecord, NEW r \in Ids, NEW row,
         NEW op, NEW actor, Writes(i, r, row, op, actor)
  PROVE  HistoryIsComplete'
<1> USE DEF HistoryInv, HistoryApproved
<1> DEFINE new == Revision(r, row, op, actor)
<1>1. /\ revisions' = revisions \cup {new} /\ row \in RecordRow
      /\ record'[r] = row /\ \A o \in Ids : o # r => record'[o] = record[o]
      /\ \A v \in revisions : v \in RevisionRow
  BY DEF Writes, LifeInv, TypeInv, TypeOK
<1>2. /\ new.record_id = r /\ new.revision = row.revision
      /\ new.payload = row.payload /\ new.operation = op
  BY DEF Revision
<1>3. /\ row.status # "none" /\ row.revision \in Nat
      /\ op = "delete" <=> row.status = "tombstoned"
      /\ \A v \in revisions : v.record_id \in Ids /\ v.revision \in Nat
  BY <1>1 DEF Writes, RecordRow, RevisionRow
<1>4. /\ \A v \in revisions : v.record_id = r => v.revision < row.revision
      /\ \A n \in 1..row.revision : n = row.revision \/
           \E v \in revisions : v.record_id = r /\ v.revision = n
  BY WrittenRevision
<1> HIDE DEF new
<1>5. ASSUME NEW v \in revisions'
      PROVE  /\ record'[v.record_id].status # "none"
             /\ v.revision <= record'[v.record_id].revision
             /\ \A w \in revisions' :
                  w.record_id = v.record_id /\ w.revision = v.revision => w = v
  <2>1. CASE v = new
    BY <1>1, <1>2, <1>3, <1>4, <2>1
  <2>2. CASE v \in revisions /\ v.record_id = r
    BY <1>1, <1>2, <1>3, <1>4, <2>2 DEF HistoryIsComplete
  <2>3. CASE v \in revisions /\ v.record_id # r
    BY <1>1, <1>2, <1>3, <2>3 DEF HistoryIsComplete
  <2> QED
    BY <1>1, <2>1, <2>2, <2>3
<1>6. ASSUME NEW o \in Ids, record'[o].status # "none"
      PROVE  /\ \A n \in 1..record'[o].revision :
                  \E v \in revisions' : v.record_id = o /\ v.revision = n
             /\ \A v \in revisions' :
                  v.record_id = o /\ v.revision = record'[o].revision =>
                    /\ v.payload = record'[o].payload
                    /\ v.operation = "delete" <=>
                         record'[o].status = "tombstoned"
  <2>1. CASE o = r
    BY <1>1, <1>2, <1>3, <1>4, <2>1
  <2>2. CASE o # r
    BY <1>1, <1>2, <1>6, <2>2 DEF HistoryIsComplete
  <2> QED
    BY <2>1, <2>2
<1> QED
  BY <1>5, <1>6 DEF HistoryIsComplete

\* The revision written is the request's, and no other request's.
LEMMA WritingKeepsApprovals ==
  ASSUME HistoryInv, NEW i \in Ids, record[i] = NoRecord, NEW r \in Ids, NEW row,
         NEW op, NEW actor, Writes(i, r, row, op, actor), ~Published(i),
         \A j \in Ids : j # i => request'[j] = request[j]
  PROVE  EveryRevisionApproved'
<1> USE DEF HistoryInv, HistoryApproved
<1> DEFINE new == Revision(r, row, op, actor)
<1>1. /\ revisions' = revisions \cup {new} /\ Published(i)'
      /\ request'[i].record_id = r
      /\ request'[i].submitted.operation = op
      /\ request'[i].decided_by = actor
      /\ op # "delete" => row.payload = request'[i].payload
      /\ row.revision = IF op = "create" THEN 1
                        ELSE request'[i].expected_revision + 1
      /\ row.revision \in Nat
  BY DEF Writes, RecordRow
<1>2. /\ new.record_id = r /\ new.revision = row.revision
      /\ new.payload = row.payload /\ new.operation = op /\ new.actor = actor
  BY DEF Revision
<1>3. \A v \in revisions : v.record_id = r => v.revision # row.revision
  <2>1. \A v \in revisions : v.revision \in Nat
    BY DEF LifeInv, TypeInv, TypeOK, RevisionRow
  <2> QED
    BY <1>1, <2>1, WrittenRevision
<1> HIDE DEF new
<1>4. \A j \in Ids : j # i => /\ Published(j)' <=> Published(j)
                              /\ \A v : Produced(j, v)' <=> Produced(j, v)
  BY DEF Published, Produced, IsDefinition
<1>5. Produced(i, new)'
  BY <1>1, <1>2 DEF Produced
<1>6. \A v \in revisions : ~Produced(i, v)'
  BY <1>1, <1>3 DEF Produced
<1>7. ASSUME NEW j \in Ids, j # i, Published(j) PROVE ~Produced(j, new)
  <2>1. PICK v \in revisions : Produced(j, v)
    BY <1>7 DEF EveryRevisionApproved
  <2> QED
    BY <1>2, <1>3, <2>1 DEF Produced
<1>8. \A v \in revisions' : \E j \in Ids :
        /\ Published(j)' /\ Produced(j, v)'
        /\ v.operation # "delete" => v.payload = request'[j].payload
        /\ v.actor = request'[j].decided_by
  <2> SUFFICES ASSUME NEW v \in revisions'
               PROVE  \E j \in Ids :
                        /\ Published(j)' /\ Produced(j, v)'
                        /\ v.operation # "delete" => v.payload = request'[j].payload
                        /\ v.actor = request'[j].decided_by
    OBVIOUS
  <2>1. CASE v = new
    BY <1>1, <1>2, <1>5, <2>1
  <2>2. CASE v \in revisions
    <3>1. PICK j \in Ids :
            /\ Published(j) /\ Produced(j, v)
            /\ v.operation # "delete" => v.payload = request[j].payload
            /\ v.actor = request[j].decided_by
      BY <2>2 DEF EveryRevisionApproved
    <3> QED
      BY <1>4, <3>1
  <2> QED
    BY <1>1, <2>1, <2>2
<1>9. \A j \in Ids : Published(j)' => \E v \in revisions' : Produced(j, v)'
  BY <1>1, <1>4, <1>5 DEF EveryRevisionApproved
<1>10. \A j, k \in Ids :
         /\ Published(j)' /\ Published(k)'
         /\ \E v \in revisions' : Produced(j, v)' /\ Produced(k, v)'
         => j = k
  BY <1>1, <1>4, <1>6, <1>7 DEF EveryRevisionApproved
<1> QED
  BY <1>8, <1>9, <1>10 DEF EveryRevisionApproved

\* Approvals and revisions are still those that belong together.
LEMMA ApprovalsStay ==
  ASSUME EveryRevisionApproved, revisions' = revisions,
         \A j \in Ids : request'[j] = request[j] \/ (~Published(j) /\ ~Published(j)')
  PROVE  EveryRevisionApproved'
<1>1. \A j \in Ids : Published(j)' <=> Published(j)
  BY DEF Published, IsDefinition
<1>2. \A j \in Ids : Published(j) =>
        request'[j] = request[j] /\ \A v : Produced(j, v)' <=> Produced(j, v)
  BY DEF Produced
<1> QED
  BY <1>1, <1>2 DEF EveryRevisionApproved

\* Nothing is written: the history is the same.
LEMMA HistoryStays ==
  ASSUME HistoryIsComplete, UNCHANGED <<record, revisions>>
  PROVE  HistoryIsComplete'
BY DEF HistoryIsComplete

\* A purge takes a record's history and all its approvals away together.
LEMMA PurgingKeepsHistory ==
  ASSUME HistoryInv, NEW p \in Profiles, NEW i \in PurgeIds,
         ApproveHardPurge(p, i)
  PROVE  HistoryApproved'
<1> USE DEF HistoryInv, HistoryApproved, LifeInv
<1>1. /\ purge[i] \in PurgeRow /\ record \in [Ids -> RecordRow \cup {NoRecord}]
      /\ \A v \in revisions : v.record_id \in Ids
  BY RowsExist DEF ApproveHardPurge, TypeInv, TypeOK, RevisionRow
<1> PICK r \in Ids : purge[i].record_id = r
  BY <1>1 DEF PurgeRow
<1>2. /\ request' = [j \in Ids |-> IF ConcernsRecord(j, r) \/ StaleCreate(j, r)
                                   THEN NoRequest ELSE request[j]]
      /\ revisions' = {v \in revisions : v.record_id # r}
      /\ record' = [record EXCEPT ![r] = NoRecord]
  BY DEF ApproveHardPurge
<1>3. record'[r].status = "none" /\ \A o \in Ids : o # r => record'[o] = record[o]
  BY <1>1, <1>2 DEF NoRecord
<1>4. HistoryIsComplete'
  BY <1>1, <1>2, <1>3 DEF HistoryIsComplete
<1>5. \A j \in Ids : Published(j)' =>
        Published(j) /\ request'[j] = request[j] /\ request[j].record_id # r
  BY <1>2 DEF Published, IsDefinition, ConcernsRecord, NoRequest
<1>6. \A j \in Ids : Published(j) /\ request[j].record_id # r =>
        Published(j)' /\ request'[j] = request[j]
  BY <1>2 DEF Published, IsDefinition, ConcernsRecord, StaleCreate
<1>7. \A j \in Ids : \A v : Produced(j, v) => v.record_id = request[j].record_id
  BY DEF Produced
<1>8. \A j \in Ids : \A v : request'[j] = request[j] =>
        (Produced(j, v)' <=> Produced(j, v))
  BY DEF Produced
<1>9. EveryRevisionApproved'
  <2>1. ASSUME NEW v \in revisions'
        PROVE  \E j \in Ids :
                 /\ Published(j)' /\ Produced(j, v)'
                 /\ v.operation # "delete" => v.payload = request'[j].payload
                 /\ v.actor = request'[j].decided_by
    <3>1. v \in revisions /\ v.record_id # r
      BY <1>2
    <3>2. PICK j \in Ids :
            /\ Published(j) /\ Produced(j, v)
            /\ v.operation # "delete" => v.payload = request[j].payload
            /\ v.actor = request[j].decided_by
      BY <3>1 DEF EveryRevisionApproved
    <3> QED
      BY <1>6, <1>7, <1>8, <3>1, <3>2
  <2>2. ASSUME NEW j \in Ids, Published(j)'
        PROVE  \E v \in revisions' : Produced(j, v)'
    <3>1. /\ Published(j) /\ request'[j] = request[j]
          /\ request[j].record_id # r
      BY <1>5, <2>2
    <3>2. PICK v \in revisions : Produced(j, v)
      BY <3>1 DEF EveryRevisionApproved
    <3> QED
      BY <1>2, <1>7, <1>8, <3>1, <3>2
  <2>3. ASSUME NEW j \in Ids, NEW k \in Ids, Published(j)', Published(k)',
               NEW v \in revisions', Produced(j, v)', Produced(k, v)'
        PROVE  j = k
    BY <1>2, <1>5, <1>8, <2>3 DEF EveryRevisionApproved
  <2> QED
    BY <2>1, <2>2, <2>3 DEF EveryRevisionApproved
<1> QED
  BY <1>4, <1>9

\* No step lets rows, revisions and approvals drift apart.
LEMMA StepKeepsHistory ==
  ASSUME HistoryInv, [Next]_vars
  PROVE  HistoryApproved'
<1> USE DEF HistoryInv, HistoryApproved, LifeInv
<1>1. /\ request \in [Ids -> RequestRow \cup {NoRequest}]
      /\ record \in [Ids -> RecordRow \cup {NoRecord}]
      /\ \A v \in revisions : v.record_id \in Ids
  BY DEF TypeInv, TypeOK, RevisionRow
<1>2. ASSUME NEW i, NEW q, NEW decision, NEW actor, Settles(i, q, decision, actor)
      PROVE  HistoryApproved'
  <2>1. /\ i \in Ids /\ record[i] = NoRecord /\ ~Published(i)
        /\ \A j \in Ids : j # i => request'[j] = request[j]
    BY <1>2, SettledUnborn, SettledRequests DEF Settles, Published, NoRequest
  <2>2. CASE UNCHANGED <<record, revisions>> /\ ~Published(i)'
    <3>1. \A j \in Ids : request'[j] = request[j]
                           \/ (~Published(j) /\ ~Published(j)')
      BY <2>1, <2>2
    <3> QED
      BY <2>2, <3>1, ApprovalsStay, HistoryStays
  <2>3. CASE \E r \in Ids : \E row, op : Writes(i, r, row, op, actor)
    BY <2>1, <2>3, WritingKeepsHistory, WritingKeepsApprovals
  <2> QED
    BY <1>2, <2>2, <2>3, SettledWrites
<1>3. ASSUME NEW i, NEW q, Stores(i, q) PROVE HistoryApproved'
  <2>1. /\ UNCHANGED <<record, revisions>> /\ i \in Ids
        /\ \A j \in Ids : j # i => request'[j] = request[j]
        /\ request'[i].status = "pending" /\ request[i] = NoRequest
    BY <1>1, <1>3 DEF Stores, canon, IdsAreIssued
  <2>2. ~Published(i) /\ ~Published(i)'
    BY <2>1 DEF Published, NoRequest
  <2>3. \A j \in Ids : request'[j] = request[j]
                         \/ (~Published(j) /\ ~Published(j)')
    BY <2>1, <2>2
  <2> QED
    BY <2>1, <2>3, ApprovalsStay, HistoryStays
<1>4. ASSUME NEW p \in Profiles, NEW limit, ExpireRecords(p, limit)
      PROVE  HistoryApproved'
  <2>1. UNCHANGED <<request, revisions>>
    BY <1>4 DEF ExpireRecords
  <2>2. PICK S \in SUBSET Due(p) :
          record' = [r \in Ids |-> IF r \in S
                                   THEN [record[r] EXCEPT !.status = "expired"]
                                   ELSE record[r]]
    BY <1>4 DEF ExpireRecords
  <2>3. \A r \in S : record[r].status = "active" /\ record[r] \in RecordRow
    BY RowsExist DEF Due, TypeInv
  <2>4. \A r \in Ids :
          /\ record'[r].status = "none" <=> record[r].status = "none"
          /\ record[r].status # "none" =>
               /\ record'[r].revision = record[r].revision
               /\ record'[r].payload = record[r].payload
               /\ record'[r].status = "tombstoned" <=>
                    record[r].status = "tombstoned"
    BY <2>2, <2>3 DEF RecordRow
  <2>5. HistoryIsComplete'
    BY <1>1, <2>1, <2>4 DEF HistoryIsComplete
  <2>6. \A j \in Ids : request'[j] = request[j]
    BY <2>1
  <2> QED
    BY <2>1, <2>5, <2>6, ApprovalsStay
<1>5. ASSUME Aside PROVE HistoryApproved'
  <2>1. UNCHANGED <<request, record, revisions>>
    BY <1>5 DEF Aside, canon
  <2>2. \A j \in Ids : request'[j] = request[j]
    BY <2>1
  <2> QED
    BY <2>1, <2>2, ApprovalsStay, HistoryStays
<1> QED
  BY <1>2, <1>3, <1>4, <1>5, StepKinds, PurgingKeepsHistory

\* Rows, revisions and approvals never drift apart: the history of a record is
\* gapless, ends in its row, and each of its revisions is the work of exactly
\* one approval.
THEOREM HistoryStaysApproved == Spec => []HistoryApproved
<1>1. Init => HistoryInv
  BY InitIsTyped
     DEF Init, HistoryInv, LifeInv, IdsAreIssued, PendingUnborn, HistoryApproved,
         HistoryIsComplete, EveryRevisionApproved, Published, NoRequest, NoRecord
<1>2. HistoryInv /\ [Next]_vars => HistoryInv'
  BY StepKeepsLife, StepKeepsHistory DEF HistoryInv
<1>3. HistoryInv => HistoryApproved
  BY DEF HistoryInv
<1> QED
  BY <1>1, <1>2, <1>3, PTL DEF Spec

----------------------------------------------------------------------------
(* Windows are honoured *)

\* A record's window is that of the request that created it: EraseInv.
ValidInv == EraseInv /\ ValidityHonoured

\* The part of ValidityHonoured that concerns one record.
Honoured(r) ==
  record[r].status # "none" =>
    /\ record[r].valid_to # Null => record[r].valid_to > record[r].valid_from
    /\ request[r].submitted.valid_to # Null =>
         record[r].valid_to = request[r].submitted.valid_to
    /\ record[r].status = "expired" =>
         record[r].valid_to # Null /\ record[r].valid_to <= clock

\* ValidityHonoured, record by record, before and after a step.
LEMMA EachHonoured ==
  /\ ValidityHonoured <=> \A r \in Ids : Honoured(r)
  /\ ValidityHonoured' <=> \A r \in Ids : Honoured(r)'
BY DEF ValidityHonoured, Honoured

\* A record that keeps its window and its request, and that does not expire,
\* stays honoured as time passes.
LEMMA WindowStays ==
  ASSUME TypeInv, clock' \in Nat, clock' >= clock, NEW r \in Ids, Honoured(r),
         record[r].status # "none",
         request'[r].submitted = request[r].submitted,
         record'[r].valid_from = record[r].valid_from,
         record'[r].valid_to = record[r].valid_to,
         record'[r].status = "expired" => record[r].status = "expired"
  PROVE  Honoured(r)'
<1>1. clock \in Nat /\ record[r].valid_to \in Nat \cup {Null}
  BY RowsExist DEF TypeInv, TypeOK, RecordRow, Deadline, Time
<1> QED
  BY <1>1 DEF Honoured

\* A mutation keeps the window of its record, and expires nothing.
LEMMA MutationKeepsWindow ==
  ASSUME NEW q, record[q.record_id] \in RecordRow
  PROVE  /\ MutatedRecord(q).valid_from = record[q.record_id].valid_from
         /\ MutatedRecord(q).valid_to = record[q.record_id].valid_to
         /\ MutatedRecord(q).status \in {record[q.record_id].status, "tombstoned"}
<1> DEFINE row == record[q.record_id]
<1>1. MutatedRecord(q) =
        IF q.submitted.operation = "update"
        THEN [row EXCEPT !.revision = row.revision + 1, !.payload = q.payload]
        ELSE [row EXCEPT !.revision = row.revision + 1, !.status = "tombstoned"]
  BY DEF MutatedRecord
<1>2. row \in RecordRow
  OBVIOUS
<1> HIDE DEF row
<1>3. /\ MutatedRecord(q).valid_from = row.valid_from
      /\ MutatedRecord(q).valid_to = row.valid_to
      /\ MutatedRecord(q).status \in {row.status, "tombstoned"}
  BY <1>1, <1>2 DEF RecordRow
<1> QED
  BY <1>3 DEF row

\* What is published is open, closes when it was asked to, and otherwise when
\* the namespace's retention says.
LEMMA CreatedWindow ==
  ASSUME TypeInv, NEW q \in RequestRow, IsCreate(q), StillValid(q.submitted)
  PROVE  LET row == NewRecord(q)
         IN /\ row.valid_to # Null => row.valid_to > row.valid_from
            /\ q.submitted.valid_to # Null => row.valid_to = q.submitted.valid_to
            /\ row.status = "active"
<1> DEFINE s == q.submitted
<1>1. /\ s.namespace_id \in Namespaces
      /\ s.valid_from \in Nat \cup {Null} /\ s.valid_to \in Nat \cup {Null}
  BY DEF RequestRow, Submission, Deadline, Time
<1>2. /\ NewRecord(q).valid_from = ValidFrom(s)
      /\ NewRecord(q).valid_to = RetainedUntil(s)
      /\ NewRecord(q).status = "active"
  BY DEF NewRecord
<1>3. s.valid_to = Null \/ s.valid_to > ValidFrom(s)
  BY DEF StillValid
<1> HIDE DEF s
<1>4. ValidFrom(s) \in Nat
  BY <1>1 DEF ValidFrom, TypeInv, TypeOK, Time
<1>5. retention[s.namespace_id] \in (Nat \ {0}) \cup {Null}
  BY <1>1 DEF TypeInv, TypeOK
<1>6. /\ RetainedUntil(s) # Null => RetainedUntil(s) > ValidFrom(s)
      /\ s.valid_to # Null => RetainedUntil(s) = s.valid_to
  BY <1>1, <1>3, <1>4, <1>5 DEF RetainedUntil
<1> QED
  BY <1>2, <1>6 DEF s

\* Settling a request honours the window of what it publishes and keeps the others'.
LEMMA SettlingHonours ==
  ASSUME ValidInv, NEW i, NEW q, NEW decision, NEW actor,
         Settles(i, q, decision, actor)
  PROVE  ValidityHonoured'
<1> USE DEF ValidInv, EraseInv, LifeInv
<1>1. /\ i \in Ids /\ q \in RequestRow /\ record[i] = NoRecord /\ clock' = clock
      /\ \A j \in Ids : j # i => request'[j] = request[j]
      /\ request'[i].submitted = q.submitted
      /\ record \in [Ids -> RecordRow \cup {NoRecord}] /\ clock \in Nat
  BY SettledUnborn, SettledRequests DEF Settles, TypeInv, TypeOK, Time
<1>2. ASSUME NEW r \in Ids, r # i, record'[r] = record[r] PROVE Honoured(r)'
  <2>1. CASE record[r].status = "none"
    BY <1>2, <2>1 DEF Honoured
  <2>2. CASE record[r].status # "none"
    BY <1>1, <1>2, <2>2, EachHonoured, WindowStays
  <2> QED
    BY <2>1, <2>2
<1>3. CASE record' = record
  <2>1. Honoured(i)'
    BY <1>1, <1>3 DEF Honoured, NoRecord
  <2> QED
    BY <1>2, <1>3, <2>1, EachHonoured
<1>4. CASE /\ IsCreate(q) /\ record' = [record EXCEPT ![i] = NewRecord(q)]
           /\ NewRecord(q) \in RecordRow
  <2>1. record'[i] = NewRecord(q) /\ record'[i].status # "none"
    BY <1>1, <1>4 DEF RecordRow
  <2>2. Verdict(q, decision) = "approved"
    BY <1>1, <2>1 DEF Settles, ApplyChangeRequest, canon, NoRecord
  <2>3. Applicable(q)
    BY <2>2 DEF Verdict
  <2>4. StillValid(q.submitted)
    BY <1>4, <2>3 DEF Applicable, IsCreate, IsMutation
  <2>5. Honoured(i)'
    BY <1>1, <1>4, <2>1, <2>4, CreatedWindow DEF Honoured
  <2>6. \A r \in Ids : r # i => record'[r] = record[r]
    BY <1>1, <1>4
  <2> QED
    BY <1>2, <2>5, <2>6, EachHonoured
<1>5. CASE /\ AtExpectedRevision(q) /\ q.record_id \in Ids
           /\ record' = [record EXCEPT ![q.record_id] = MutatedRecord(q)]
           /\ record[q.record_id] \in RecordRow
  <2> DEFINE o == q.record_id
  <2>1. record[o].status = "active" /\ o # i /\ record'[o] = MutatedRecord(q)
    BY <1>1, <1>5 DEF AtExpectedRevision, ActiveRecord, NoRecord
  <2>2. /\ record'[o].valid_from = record[o].valid_from
        /\ record'[o].valid_to = record[o].valid_to
        /\ record'[o].status \in {record[o].status, "tombstoned"}
    BY <1>5, <2>1, MutationKeepsWindow
  <2>3. Honoured(o)'
    BY <1>1, <1>5, <2>1, <2>2, EachHonoured, WindowStays
  <2>4. \A r \in Ids : r # o => record'[r] = record[r]
    BY <1>1, <1>5
  <2>5. Honoured(i)'
    BY <1>1, <2>1, <2>4 DEF Honoured, NoRecord
  <2> QED
    BY <1>2, <2>3, <2>4, <2>5, EachHonoured
<1> QED
  BY <1>3, <1>4, <1>5, SettledRecords

\* No step opens, moves or overlooks a window.
LEMMA StepHonours ==
  ASSUME ValidInv, [Next]_vars
  PROVE  ValidityHonoured'
<1> USE DEF ValidInv, EraseInv, LifeInv
<1>1. /\ record \in [Ids -> RecordRow \cup {NoRecord}] /\ clock \in Nat
      /\ \A r \in Ids : Honoured(r)
  BY EachHonoured DEF TypeInv, TypeOK, Time
<1>2. ASSUME NEW i, NEW q, Stores(i, q) PROVE ValidityHonoured'
  <2>1. /\ record' = record /\ clock' = clock /\ record[i] = NoRecord
        /\ \A r \in Ids : r # i => request'[r] = request[r]
    BY <1>2 DEF Stores, canon, IdsAreIssued, TypeInv, TypeOK
  <2>2. \A r \in Ids : Honoured(r)'
    BY <1>1, <2>1 DEF Honoured, NoRecord
  <2> QED
    BY <2>2, EachHonoured
<1>3. ASSUME NEW p \in Profiles, NEW limit, ExpireRecords(p, limit)
      PROVE  ValidityHonoured'
  <2>1. PICK S \in SUBSET Due(p) :
          record' = [r \in Ids |-> IF r \in S
                                   THEN [record[r] EXCEPT !.status = "expired"]
                                   ELSE record[r]]
    BY <1>3 DEF ExpireRecords
  <2>2. clock' = clock /\ request' = request
    BY <1>3 DEF ExpireRecords
  <2>3. ASSUME NEW r \in S PROVE Honoured(r)'
    <3>1. /\ r \in Ids /\ record[r].status # "none"
          /\ record[r].valid_to # Null /\ record[r].valid_to <= clock
      BY DEF Due
    <3>2. record[r] \in RecordRow
      BY <1>1, <3>1 DEF NoRecord
    <3>3. /\ record'[r].valid_from = record[r].valid_from
          /\ record'[r].valid_to = record[r].valid_to
      BY <2>1, <3>1, <3>2 DEF RecordRow
    <3> QED
      BY <1>1, <2>2, <3>1, <3>3 DEF Honoured
  <2>4. \A r \in Ids \ S : Honoured(r)'
    BY <1>1, <2>1, <2>2 DEF Honoured
  <2> QED
    BY <2>3, <2>4, EachHonoured
<1>4. ASSUME NEW p \in Profiles, NEW i \in PurgeIds, ApproveHardPurge(p, i)
      PROVE  ValidityHonoured'
  <2> DEFINE o == purge[i].record_id
  <2>1. /\ record' = [record EXCEPT ![o] = NoRecord]
        /\ \A r \in Ids : ConcernsRecord(r, o) \/ StaleCreate(r, o)
                            \/ request'[r] = request[r]
        /\ clock' = clock
    BY <1>4 DEF ApproveHardPurge
  <2>2. ASSUME NEW r \in Ids, record'[r].status # "none" PROVE Honoured(r)'
    <3>1. r # o /\ record'[r] = record[r]
      BY <1>1, <2>1, <2>2 DEF NoRecord
    <3>2. request[r].status \in Decided /\ request[r].record_id = r
      BY <2>2, <3>1 DEF BornByRequest
    <3>3. request'[r] = request[r]
      BY <2>1, <3>1, <3>2 DEF ConcernsRecord, StaleCreate, Decided
    <3> QED
      BY <1>1, <2>1, <3>1, <3>3 DEF Honoured
  <2>3. \A r \in Ids : Honoured(r)'
    BY <2>2 DEF Honoured
  <2> QED
    BY <2>3, EachHonoured
<1>5. ASSUME Aside PROVE ValidityHonoured'
  <2>1. record' = record /\ request' = request /\ clock' >= clock
    BY <1>5 DEF Aside, canon
  <2>2. clock' \in Nat
    BY NextIsTyped DEF TypeInv, TypeOK, Time
  <2>3. ASSUME NEW r \in Ids PROVE Honoured(r)'
    <3>1. CASE record[r].status = "none"
      BY <2>1, <3>1 DEF Honoured
    <3>2. CASE record[r].status # "none"
      BY <1>1, <2>1, <2>2, <3>2, WindowStays
    <3> QED
      BY <3>1, <3>2
  <2> QED
    BY <2>3, EachHonoured
<1> QED
  BY <1>2, <1>3, <1>4, <1>5, StepKinds, SettlingHonours

\* However long an approval takes, what it publishes is open then and closes
\* when it was asked to, and nothing is marked expired before its time.
THEOREM WindowsHonoured == Spec => []ValidityHonoured
<1>1. Init => ValidInv
  BY InitIsTyped
     DEF Init, ValidInv, EraseInv, LifeInv, IdsAreIssued, PendingUnborn,
         BornByRequest, ErasedIdsAreEmpty, PurgeErases, ValidityHonoured,
         NoRequest, NoRecord
<1>2. ValidInv /\ [Next]_vars => ValidInv'
  BY StepKeepsErased, StepHonours DEF ValidInv
<1>3. ValidInv => ValidityHonoured
  BY DEF ValidInv
<1> QED
  BY <1>1, <1>2, <1>3, PTL DEF Spec

----------------------------------------------------------------------------
(* Patches keep what they omit *)

\* A request about a record that is there, expecting a revision it has had; a
\* patch that expects the current one was merged into the current payload.
Backed(q) ==
  IsMutation(q) =>
    /\ record[q.record_id].status # "none"
    /\ q.expected_revision \in Nat
    /\ q.expected_revision <= record[q.record_id].revision
    /\ (/\ q.expected_revision = record[q.record_id].revision
        /\ q.submitted.operation = "update"
        /\ q.submitted.update_mode = "patch")
       => \A f \in Fields : q.submitted.payload[f] = Keep
                              => q.payload[f] = record[q.record_id].payload[f]

\* What a reviewer would publish is backed.
PendingBacked ==
  \A i \in Ids : request[i].status = "pending" => Backed(request[i])

\* The inductive strengthening of OmittedFieldsPreserved.
PatchInv == HistoryInv /\ PendingBacked /\ OmittedFieldsPreserved

\* A caller that names no revision ahead submits a request that is backed.
LEMMA NewRequestIsBacked ==
  ASSUME TypeOK, LookAhead = FALSE, NEW s, Proper(s), Reached(s),
         Admissible(s)
  PROVE  Backed(NewRequest(s))
<1> DEFINE q == NewRequest(s)
<1>1. /\ q.submitted = s /\ q.record_id = s.record_id
      /\ q.expected_revision = CapturedRevision(s)
      /\ q.payload = FinalPayload(s)
  BY DEF NewRequest
<1> HIDE DEF q
<1> SUFFICES ASSUME s.operation # "create"
             PROVE  /\ record[s.record_id].status # "none"
                    /\ CapturedRevision(s) \in Nat
                    /\ CapturedRevision(s) <= record[s.record_id].revision
                    /\ s.operation = "update" /\ s.update_mode = "patch" =>
                         \A f \in Fields : s.payload[f] = Keep =>
                           FinalPayload(s)[f] = record[s.record_id].payload[f]
  BY <1>1 DEF Backed, IsMutation, q
<1>2. record[s.record_id].status = "active" /\ s.record_id \in Ids
  BY DEF Admissible, TargetActive, ActiveRecord, Proper
<1>3. record[s.record_id].revision \in Nat
  BY <1>2, RowsExist DEF RecordRow
<1>4. s.expected_revision \in Nat \cup {Null}
  BY DEF Proper, Submission
<1>5. /\ CapturedRevision(s) \in Nat
      /\ CapturedRevision(s) <= record[s.record_id].revision
  BY <1>3, <1>4 DEF CapturedRevision, Reached, HintReached
<1>6. s.operation = "update" /\ s.update_mode = "patch" =>
        \A f \in Fields : s.payload[f] = Keep =>
          FinalPayload(s)[f] = record[s.record_id].payload[f]
  BY DEF FinalPayload, MergePatch
<1> QED
  BY <1>2, <1>5, <1>6

\* A request that is settled is backed.
LEMMA SettledIsBacked ==
  ASSUME TypeInv, LookAhead = FALSE, PendingBacked, NEW i, NEW q, NEW decision,
         NEW actor, Settles(i, q, decision, actor)
  PROVE  Backed(q)
BY NewRequestIsBacked DEF Settles, Drawn, PendingBacked, TypeInv

\* A request that is stored for review is backed.
LEMMA StoredIsBacked ==
  ASSUME TypeInv, LookAhead = FALSE, NEW i, NEW q, Stores(i, q)
  PROVE  Backed(q)
BY NewRequestIsBacked DEF Stores, Drawn, TypeInv

\* A request stays backed while its record only moves on.
LEMMA BackedStays ==
  ASSUME NEW q, Backed(q),
         IsMutation(q) =>
           LET r == q.record_id
           IN /\ record'[r].status # "none"
              /\ record[r].revision \in Nat /\ record'[r].revision \in Nat
              /\ \/ record'[r].revision > record[r].revision
                 \/ /\ record'[r].revision = record[r].revision
                    /\ record'[r].payload = record[r].payload
  PROVE  Backed(q)'
BY DEF Backed

\* Nothing new is approved: the patches are the same.
LEMMA PatchesStay ==
  ASSUME OmittedFieldsPreserved, revisions' \subseteq revisions,
         \A j \in Ids : Published(j)' => Published(j) /\ request'[j] = request[j]
  PROVE  OmittedFieldsPreserved'
<1>1. \A j \in Ids : \A v : Published(j)' => (Produced(j, v)' <=> Produced(j, v))
  BY DEF Produced
<1> QED
  BY <1>1 DEF OmittedFieldsPreserved

\* A patch is written over the revision it was merged into.
LEMMA WritingKeepsPatches ==
  ASSUME HistoryInv, OmittedFieldsPreserved, NEW i \in Ids, record[i] = NoRecord,
         NEW r \in Ids, NEW row, NEW op, NEW actor, Writes(i, r, row, op, actor),
         \A j \in Ids : j # i => request'[j] = request[j],
         op = "update" /\ request'[i].submitted.update_mode = "patch" =>
           \A f \in Fields : request'[i].submitted.payload[f] = Keep
                               => row.payload[f] = record[r].payload[f]
  PROVE  OmittedFieldsPreserved'
<1> USE DEF HistoryInv, HistoryApproved
<1> DEFINE new == Revision(r, row, op, actor)
<1>1. /\ revisions' = revisions \cup {new}
      /\ request'[i].record_id = r /\ request'[i].submitted.operation = op
      /\ row.revision \in Nat
      /\ row.revision = IF op = "create" THEN 1
                        ELSE request'[i].expected_revision + 1
      /\ op # "create" => /\ record[r] \in RecordRow
                          /\ row.revision = record[r].revision + 1
  BY DEF Writes, RecordRow
<1>2. /\ new.record_id = r /\ new.revision = row.revision
      /\ new.payload = row.payload
  BY DEF Revision
<1>3. /\ \A v \in revisions : v.revision \in Nat
      /\ \A v \in revisions : v.record_id = r => v.revision < row.revision
  BY WrittenRevision DEF LifeInv, TypeInv, TypeOK, RevisionRow
<1> HIDE DEF new
<1> SUFFICES ASSUME NEW j \in Ids, NEW v \in revisions', NEW w \in revisions',
                    Published(j)', Produced(j, v)',
                    request'[j].submitted.operation = "update",
                    request'[j].submitted.update_mode = "patch",
                    w.record_id = v.record_id, w.revision + 1 = v.revision,
                    NEW f \in Fields, request'[j].submitted.payload[f] = Keep
             PROVE  v.payload[f] = w.payload[f]
  BY DEF OmittedFieldsPreserved
<1>4. CASE j = i
  <2>1. v.record_id = r /\ v.revision = row.revision /\ op = "update"
    BY <1>1, <1>4 DEF Produced
  <2>2. v = new
    BY <1>1, <1>3, <2>1
  <2>3. w \in revisions /\ w.record_id = r /\ w.revision = record[r].revision
    <3>1. w # new
      BY <1>1, <1>2, <2>1
    <3>2. w \in revisions /\ w.record_id = r
      BY <1>1, <2>1, <3>1
    <3>3. record[r].revision \in Nat
      BY <1>1, <2>1 DEF RecordRow
    <3> QED
      BY <1>1, <1>3, <2>1, <3>2, <3>3
  <2>4. w.payload = record[r].payload
    BY <1>1, <2>1, <2>3 DEF HistoryIsComplete, RecordRow
  <2> QED
    BY <1>2, <1>4, <2>1, <2>2, <2>4
<1>5. CASE j # i
  <2>1. Published(j) /\ request'[j] = request[j] /\ Produced(j, v)
    BY <1>5 DEF Published, IsDefinition, Produced
  <2>2. PICK u \in revisions : Produced(j, u)
    BY <2>1 DEF EveryRevisionApproved
  <2>3. u.record_id = v.record_id /\ u.revision = v.revision
    BY <2>1, <2>2 DEF Produced
  <2>4. v \in revisions
    BY <1>1, <1>2, <1>3, <2>2, <2>3
  <2>5. w \in revisions
    <3>1. w # new
      BY <1>1, <1>2, <1>3, <2>4
    <3> QED
      BY <1>1, <3>1
  <2> QED
    BY <2>1, <2>4, <2>5 DEF OmittedFieldsPreserved
<1> QED
  BY <1>4, <1>5

\* Settling a request keeps every patch, approved or pending, on its revision.
LEMMA SettlingKeepsPatches ==
  ASSUME PatchInv, LookAhead = FALSE, NEW i, NEW q, NEW decision, NEW actor,
         Settles(i, q, decision, actor)
  PROVE  PendingBacked' /\ OmittedFieldsPreserved'
<1> USE DEF PatchInv, HistoryInv, LifeInv
<1>1. /\ i \in Ids /\ q \in RequestRow /\ record[i] = NoRecord /\ ~Published(i)
      /\ \A j \in Ids : j # i => request'[j] = request[j]
      /\ request'[i].status # "pending"
      /\ request'[i].submitted = q.submitted
      /\ record \in [Ids -> RecordRow \cup {NoRecord}]
      /\ request'[i].record_id \in {q.record_id, i}
  BY SettledUnborn, SettledRequests, SettledTarget
     DEF Settles, Published, NoRequest, Decided
<1>2. /\ request'[i].payload = q.payload
      /\ request'[i].expected_revision = q.expected_revision
  <2>1. /\ request' = [request EXCEPT ![i] =
                         Settled(i, q, Verdict(q, decision), actor)]
        /\ request \in [Ids -> RequestRow \cup {NoRequest}]
    BY DEF Settles, ApplyChangeRequest, TypeInv, TypeOK
  <2> QED
    BY <1>1, <2>1 DEF Settled, RequestRow
<1>3. CASE UNCHANGED <<record, revisions>> /\ ~Published(i)'
  <2>1. PendingBacked'
    BY <1>1, <1>3 DEF PendingBacked, Backed, IsMutation, IsDefinition
  <2>2. \A j \in Ids : Published(j)' => Published(j) /\ request'[j] = request[j]
    BY <1>1, <1>3 DEF Published, IsDefinition
  <2> QED
    BY <1>3, <2>1, <2>2, PatchesStay
<1>4. ASSUME NEW r \in Ids, NEW row, NEW op, Writes(i, r, row, op, actor)
      PROVE  PendingBacked' /\ OmittedFieldsPreserved'
  <2>1. /\ record'[r] = row /\ row \in RecordRow
        /\ \A o \in Ids : o # r => record'[o] = record[o]
    BY <1>1, <1>4 DEF Writes
  <2>2. ASSUME NEW j \in Ids, j # i, request[j].status = "pending"
        PROVE  Backed(request[j])'
    <3> DEFINE o == request[j].record_id
    <3>1. /\ request'[j] = request[j] /\ Backed(request[j])
          /\ request[j] \in RequestRow
          /\ IsMutation(request[j]) => o \in Ids
      BY <1>1, <2>2, RowsExist DEF PendingBacked, TypeInv, MutationsHaveTargets
    <3>2. CASE ~IsMutation(request[j])
      BY <3>1, <3>2 DEF Backed, IsMutation, IsDefinition
    <3>3. CASE IsMutation(request[j]) /\ o # r
      BY <2>1, <3>1, <3>3 DEF Backed, IsMutation, IsDefinition
    <3>4. CASE IsMutation(request[j]) /\ o = r
      <4>1. record[r].status # "none"
        BY <3>1, <3>4 DEF Backed
      <4>2. /\ record[r].revision \in Nat
            /\ row.revision = record[r].revision + 1
        BY <1>1, <1>4, <4>1 DEF Writes, NoRecord, RecordRow
      <4>3. row.status # "none" /\ row.revision \in Nat
        BY <2>1 DEF RecordRow
      <4> QED
        BY <2>1, <3>1, <3>4, <4>2, <4>3 DEF Backed, IsMutation, IsDefinition
    <3> QED
      BY <3>2, <3>3, <3>4
  <2>3. PendingBacked'
    BY <1>1, <2>2 DEF PendingBacked, Backed, IsMutation, IsDefinition
  <2>4. ASSUME op = "update", q.submitted.update_mode = "patch",
               NEW f \in Fields, q.submitted.payload[f] = Keep
        PROVE  row.payload[f] = record[r].payload[f]
    <3>1. /\ r # i /\ record[r] \in RecordRow /\ Published(i)'
          /\ row.revision = record[r].revision + 1
          /\ row.revision = q.expected_revision + 1
          /\ row.payload = q.payload
          /\ request'[i].record_id = r /\ q.submitted.operation = op
      BY <1>1, <1>2, <1>4, <2>4 DEF Writes, NoRecord, RecordRow
    <3>2. r = q.record_id /\ IsMutation(q)
      BY <1>1, <2>4, <3>1 DEF Published, IsMutation, IsDefinition
    <3>3. Backed(q)
      BY SettledIsBacked
    <3> QED
      BY <2>4, <3>1, <3>2, <3>3 DEF Backed, RecordRow
  <2>5. OmittedFieldsPreserved'
    BY <1>1, <1>4, <2>4, WritingKeepsPatches
  <2> QED
    BY <2>3, <2>5
<1> QED
  BY <1>3, <1>4, SettledWrites

\* No step approves a patch over another revision than it was merged into.
LEMMA StepKeepsPatches ==
  ASSUME PatchInv, LookAhead = FALSE, [Next]_vars
  PROVE  PendingBacked' /\ OmittedFieldsPreserved'
<1> USE DEF PatchInv, HistoryInv, LifeInv
<1>1. /\ request \in [Ids -> RequestRow \cup {NoRequest}]
      /\ record \in [Ids -> RecordRow \cup {NoRecord}]
  BY DEF TypeInv, TypeOK
<1>2. ASSUME NEW i, NEW q, Stores(i, q)
      PROVE  PendingBacked' /\ OmittedFieldsPreserved'
  <2>1. /\ UNCHANGED <<record, revisions>> /\ i \in Ids /\ request'[i] = q
        /\ \A j \in Ids : j # i => request'[j] = request[j]
        /\ q.status = "pending"
    BY <1>1, <1>2 DEF Stores, canon
  <2>2. Backed(q)
    BY <1>2, StoredIsBacked
  <2>3. PendingBacked'
    BY <2>1, <2>2 DEF PendingBacked, Backed, IsMutation, IsDefinition
  <2>4. \A j \in Ids : Published(j)' => Published(j) /\ request'[j] = request[j]
    BY <2>1 DEF Published, IsDefinition
  <2> QED
    BY <2>1, <2>3, <2>4, PatchesStay
<1>3. ASSUME NEW p \in Profiles, NEW limit, ExpireRecords(p, limit)
      PROVE  PendingBacked' /\ OmittedFieldsPreserved'
  <2>1. UNCHANGED <<request, revisions>>
    BY <1>3 DEF ExpireRecords
  <2>2. PICK S \in SUBSET Due(p) :
          record' = [r \in Ids |-> IF r \in S
                                   THEN [record[r] EXCEPT !.status = "expired"]
                                   ELSE record[r]]
    BY <1>3 DEF ExpireRecords
  <2>3. \A r \in S : record[r] \in RecordRow
    BY RowsExist DEF Due, TypeInv
  <2>4. \A r \in Ids : record[r].status # "none" =>
          /\ record'[r].status # "none"
          /\ record'[r].revision = record[r].revision
          /\ record'[r].payload = record[r].payload
    BY <2>2, <2>3 DEF RecordRow
  <2>5. \A j \in Ids : request[j].status = "pending" /\ IsMutation(request[j])
                         => request[j].record_id \in Ids
    BY DEF TypeInv, MutationsHaveTargets
  <2>6. PendingBacked'
    BY <2>1, <2>4, <2>5 DEF PendingBacked, Backed, IsMutation, IsDefinition
  <2>7. \A j \in Ids : Published(j)' => Published(j) /\ request'[j] = request[j]
    BY <2>1 DEF Published, IsDefinition
  <2> QED
    BY <2>1, <2>6, <2>7, PatchesStay
<1>4. ASSUME NEW p \in Profiles, NEW i \in PurgeIds, ApproveHardPurge(p, i)
      PROVE  PendingBacked' /\ OmittedFieldsPreserved'
  <2> DEFINE o == purge[i].record_id
  <2>1. /\ record' = [record EXCEPT ![o] = NoRecord]
        /\ revisions' \subseteq revisions
        /\ request' = [j \in Ids |-> IF ConcernsRecord(j, o) \/ StaleCreate(j, o)
                                     THEN NoRequest ELSE request[j]]
    BY <1>4 DEF ApproveHardPurge
  <2>2. \A j \in Ids : request'[j].status # "none" =>
          request'[j] = request[j] /\ request[j].record_id # o
    BY <2>1 DEF ConcernsRecord, NoRequest
  <2>3. \A r \in Ids : r # o => record'[r] = record[r]
    BY <1>1, <2>1
  <2>4. \A j \in Ids : request[j].status = "pending" /\ IsMutation(request[j])
                         => request[j].record_id \in Ids
    BY DEF TypeInv, MutationsHaveTargets
  <2>5. PendingBacked'
    BY <2>2, <2>3, <2>4 DEF PendingBacked, Backed, IsMutation, IsDefinition
  <2>6. \A j \in Ids : Published(j)' => Published(j) /\ request'[j] = request[j]
    BY <2>2 DEF Published, IsDefinition
  <2> QED
    BY <2>1, <2>5, <2>6, PatchesStay
<1>5. ASSUME Aside PROVE PendingBacked' /\ OmittedFieldsPreserved'
  <2>1. UNCHANGED <<request, record, revisions>>
    BY <1>5 DEF Aside, canon
  <2>2. PendingBacked'
    BY <2>1 DEF PendingBacked, Backed, IsMutation, IsDefinition
  <2>3. \A j \in Ids : Published(j)' => Published(j) /\ request'[j] = request[j]
    BY <2>1 DEF Published, IsDefinition
  <2> QED
    BY <2>1, <2>2, <2>3, PatchesStay
<1> QED
  BY <1>2, <1>3, <1>4, <1>5, StepKinds, SettlingKeepsPatches

\* While callers name no revision ahead of the record, an approved patch leaves
\* the fields it omits as they were.  The assumption is the exact limit: with
\* LookAhead the run lost_update finds a patch that does not.
THEOREM PatchesPreserve ==
  ASSUME LookAhead = FALSE
  PROVE  Spec => []OmittedFieldsPreserved
<1>1. Init => PatchInv
  BY InitIsTyped
     DEF Init, PatchInv, HistoryInv, LifeInv, IdsAreIssued, PendingUnborn,
         HistoryApproved, HistoryIsComplete, EveryRevisionApproved, Published,
         PendingBacked, OmittedFieldsPreserved, NoRequest, NoRecord
<1>2. PatchInv /\ [Next]_vars => PatchInv'
  BY StepKeepsLife, StepKeepsHistory, StepKeepsPatches DEF PatchInv, HistoryInv
<1>3. PatchInv => OmittedFieldsPreserved
  BY DEF PatchInv
<1> QED
  BY <1>1, <1>2, <1>3, PTL DEF Spec

----------------------------------------------------------------------------
(* The intake *)

\* The types of the tables of the intake.
IntakeTyped ==
  /\ candidate \in [CandidateIds -> CandidateRow \cup {NoCandidate, Erased}]
  /\ job \in [CandidateIds -> JobRow \cup {NoJob}]
  /\ call \subseteq Call
  /\ requeues \in 0..MaxRequeues

\* A candidate has a relation exactly once it was found to repeat a record.
Related(c) == Exists(c) => (candidate[c].assessment = "new" <=> candidate[c].relation = Null)

\* A job belongs to a candidate, and is leased exactly while it is processed.
Assigned(c) ==
  job[c] # NoJob => Exists(c) /\ (job[c].status = "processing" <=> job[c].lease # "none")

\* What a candidate points to is there, and its request is its submitter's.
Anchored(c) ==
  Exists(c) =>
    LET row == candidate[c]
        i == row.change_request_id
    IN /\ row.relation # Null => record[row.relation].status # "none"
       /\ i # Null => /\ request[i].status # "none"
                      /\ request[i].submitted.requester_id = row.submitter

\* CandidatesIntact is not inductive: a request that is new must not have been
\* pointed to before, which the life of ids of the workflow excludes.
CInv ==
  /\ LifeInv /\ IntakeTyped /\ ConsolidatedOnce
  /\ \A c \in CandidateIds : Related(c) /\ Assigned(c) /\ Anchored(c)

----------------------------------------------------------------------------
(* What the workflow does beneath *)

Was(i) == request[i].status # "none"

\* Requests and records that are there stay, and are about the same.
Keeps ==
  /\ \A i \in Ids : Was(i) =>
       request'[i].status # "none" /\ request'[i].submitted = request[i].submitted
  /\ \A r \in Ids : record[r].status # "none" => record'[r].status # "none"

\* A new request is i, and about s.
Adds(i, s) ==
  \A j \in Ids : request'[j].status # "none" /\ ~Was(j) =>
    j = i /\ request'[j].submitted = s

AddsNothing == \A j \in Ids : request'[j].status # "none" => Was(j)

\* The effect of a settled request on what candidates point to.
LEMMA SettledKeeps ==
  ASSUME LifeInv, NEW i, NEW q, NEW decision, NEW actor,
         Settles(i, q, decision, actor)
  PROVE  /\ Keeps /\ i \in Ids /\ request'[i].status # "none"
         /\ request'[i].submitted = q.submitted
         /\ \A j \in Ids : j # i => request'[j] = request[j]
         /\ Was(i) => request[i] = q
<1>1. /\ i \in Ids /\ record[i] = NoRecord /\ (request[i] = q \/ request[i] = NoRequest)
      /\ record \in [Ids -> RecordRow \cup {NoRecord}]
  BY SettledUnborn, SettledRequests DEF Settles, LifeInv
<1>2. /\ \A j \in Ids : j # i => request'[j] = request[j]
      /\ request'[i].status \in Decided /\ request'[i].submitted = q.submitted
  BY SettledRequests DEF LifeInv
<1>3. "none" \notin Decided /\ NoRequest.status = "none" /\ NoRecord.status = "none"
  BY DEF Decided, NoRequest, NoRecord
<1>4. \A r \in Ids : record[r].status # "none" => record'[r].status # "none"
  <2>1. \A row \in RecordRow : row.status # "none"
    BY DEF RecordRow
  <2> QED
    BY <1>1, <2>1, SettledRecords DEF LifeInv
<1> QED
  BY <1>1, <1>2, <1>3, <1>4 DEF Keeps, Was

\* A submission keeps the tables, and the request it leads to is about it.
LEMMA SubmitKeeps ==
  ASSUME LifeInv, NEW s, Proper(s), Reached(s), Submit(s)
  PROVE  /\ LifeInv' /\ Keeps /\ Adds(NewId, s)
         /\ SubmitChangeRequest(s) =>
              /\ NewId \in Ids /\ ~Was(NewId)
              /\ request'[NewId].status # "none" /\ request'[NewId].submitted = s
         /\ ResubmitChangeRequest(s) => AddsNothing
<1>1. Admissible(s) /\ s.requester_id \in Profiles
  BY DEF Submit, SubmitChangeRequest, ResubmitChangeRequest, Proper, Submission
<1>2. TypeInv /\ TypeInv' /\ request \in [Ids -> RequestRow \cup {NoRequest}]
      /\ record \in [Ids -> RecordRow \cup {NoRecord}]
  BY SubmitIsTyped DEF LifeInv, TypeInv, TypeOK
<1>3. CASE SubmitChangeRequest(s)
  <2>1. /\ NewId \in Ids /\ NewId \notin issued /\ issued' = issued \cup {NewId}
        /\ UNCHANGED <<clock, admin, erasure>>
    BY <1>2, <1>3, NewIdIsFresh DEF SubmitChangeRequest, TypeInv, TypeOK
  <2>2. ~Was(NewId)
    BY <2>1 DEF LifeInv, IdsAreIssued, NoRequest, Was
  <2> DEFINE q == NewRequest(s)
  <2>3. /\ q \in RequestRow /\ q.status = "pending" /\ q.submitted = s
        /\ q.policy_action = PolicyAction(s)
        /\ IsMutation(q) => q.record_id \in Ids
        /\ Targeted(q) /\ Drawn(q)
    BY <1>1, <1>2, NewRequestIsRow DEF TypeInv, NewRequest, Drawn
  <2>4. ~ResubmitChangeRequest(s)
    <3>1. ASSUME ResubmitChangeRequest(s) PROVE FALSE
      BY <1>3, <3>1 DEF ResubmitChangeRequest, SubmitChangeRequest
    <3> QED
      BY <3>1
  <2> HIDE DEF q, NewId
  <2>5. CASE request' = [request EXCEPT ![NewId] = q] /\ UNCHANGED canon
    <3>1. /\ \A j \in Ids : j # NewId => request'[j] = request[j]
          /\ request'[NewId] = q
      BY <1>2, <2>1, <2>5
    <3>2. IdsAreIssued' /\ PendingUnborn'
      BY <2>1, <2>5, <3>1 DEF LifeInv, IdsAreIssued, PendingUnborn, canon
    <3>3. Keeps
      BY <2>2, <2>5, <3>1 DEF Keeps, Was, canon
    <3> QED
      BY <1>2, <2>1, <2>2, <2>3, <2>4, <3>1, <3>2, <3>3 DEF LifeInv, Adds, Was
  <2>6. CASE PolicyAction(s) = "auto"
             /\ ApplyChangeRequest(NewId, q, "approve", s.requester_id)
    <3>1. Settles(NewId, q, "approve", s.requester_id)
      BY <1>1, <2>1, <2>3, <2>6 DEF Settles
    <3>2. IdsAreIssued' /\ PendingUnborn'
      BY <3>1, SettlingKeepsLife
    <3>3. /\ Keeps /\ request'[NewId].status # "none" /\ request'[NewId].submitted = s
          /\ \A j \in Ids : j # NewId => request'[j] = request[j]
      BY <2>3, <3>1, SettledKeeps
    <3> QED
      BY <1>2, <2>1, <2>2, <2>4, <3>2, <3>3 DEF LifeInv, Adds, Was
  <2> QED
    BY <1>3, <2>5, <2>6 DEF SubmitChangeRequest, q
<1>4. CASE ResubmitChangeRequest(s)
  <2>1. PICK i \in Ids :
          /\ request[i].submitted = s /\ request[i].status = "pending"
          /\ \/ request[i].policy_action = "auto"
             \/ HasCapability(s.requester_id, s.namespace_id, "approve")
          /\ ApplyChangeRequest(i, request[i], "approve", s.requester_id)
    BY <1>4 DEF ResubmitChangeRequest, Holds
  <2>2. /\ request[i] \in RequestRow
        /\ IsMutation(request[i]) => request[i].record_id \in Ids
    BY <1>2, <2>1, RowsExist DEF TypeInv, MutationsHaveTargets
  <2>3. Settles(i, request[i], "approve", s.requester_id)
    BY <1>1, <1>4, <2>1, <2>2 DEF ResubmitChangeRequest, Settles
  <2>4. IdsAreIssued' /\ PendingUnborn'
    BY <2>3, SettlingKeepsLife
  <2>5. Keeps /\ \A j \in Ids : j # i => request'[j] = request[j]
    BY <2>3, SettledKeeps
  <2>6. AddsNothing
    BY <2>1, <2>5 DEF AddsNothing, Was
  <2>7. ~SubmitChangeRequest(s)
    BY <2>1 DEF SubmitChangeRequest, Holds
  <2> QED
    BY <1>2, <2>4, <2>5, <2>6, <2>7 DEF LifeInv, Adds, AddsNothing
<1> QED
  BY <1>3, <1>4 DEF Submit

\* Whatever a candidate submits: the id it is told is that of a request about
\* what it submitted, and the only one that may be new.
LEMMA SubmittedKeeps ==
  ASSUME LifeInv, NEW s, Proper(s), Reached(s), NEW i \in Ids, Submitted(s, i)
  PROVE  /\ LifeInv' /\ Keeps /\ Adds(i, s)
         /\ request'[i].status # "none" /\ request'[i].submitted = s
<1>1. CASE SubmitChangeRequest(s) /\ i = NewId
  BY <1>1, SubmitKeeps DEF Submit
<1>2. CASE Holds(i, s) /\ ResubmitChangeRequest(s)
  BY <1>2, SubmitKeeps DEF Submit, Holds, Keeps, Was, AddsNothing, Adds
<1>3. CASE Holds(i, s) /\ UNCHANGED vars
  <2>1. LifeInv'
    BY <1>3, StepKeepsLife
  <2>2. UNCHANGED <<request, record>>
    BY <1>3 DEF vars
  <2> QED
    BY <1>3, <2>1, <2>2 DEF Holds, Keeps, Was, Adds
<1> QED
  BY <1>1, <1>2, <1>3 DEF Submitted

----------------------------------------------------------------------------
(* Steps of the intake *)

\* New requests are creates.
AddsCreates ==
  \A j \in Ids : request'[j].status # "none" /\ ~Was(j) =>
    request'[j].submitted.operation = "create"

\* What tells the rows of the intake from their absence.
LEMMA CandidatesExist ==
  ASSUME CInv, NEW c \in CandidateIds
  PROVE  /\ Exists(c) <=> candidate[c] \in CandidateRow
         /\ Exists(c) \/ candidate[c] = NoCandidate \/ candidate[c] = Erased
         /\ job[c] \in JobRow \/ job[c] = NoJob
         /\ job[c].status # "none" => job[c] \in JobRow
         /\ job[c] \in JobRow => job[c] # NoJob
<1>1. /\ candidate[c] \in CandidateRow \cup {NoCandidate, Erased}
      /\ job[c] \in JobRow \cup {NoJob}
  BY DEF CInv, IntakeTyped
<1>2. \A row \in CandidateRow : row.assessment \in {"new", "duplicate", "conflict"}
  BY DEF CandidateRow
<1>3. NoCandidate.assessment = "none" /\ Erased.assessment = "erased"
  BY DEF NoCandidate, Erased
<1>4. NoCandidate \notin CandidateRow /\ Erased \notin CandidateRow
  BY <1>2, <1>3
<1>5. NoJob.status = "none" /\ \A j \in JobRow : j.status # "none"
  BY DEF NoJob, JobRow
<1> QED
  BY <1>1, <1>4, <1>5 DEF Exists

\* The rule for steps that only move jobs and claims.
LEMMA JobsMove ==
  ASSUME CInv, UNCHANGED <<vars, candidate>>,
         job' \in [CandidateIds -> JobRow \cup {NoJob}], call' \subseteq Call,
         requeues' \in 0..MaxRequeues, \A c \in CandidateIds : Assigned(c)'
  PROVE  CInv'
<1>1. LifeInv'
  BY StepKeepsLife DEF CInv
<1>2. UNCHANGED <<request, record>>
  BY DEF vars
<1>3. IntakeTyped' /\ ConsolidatedOnce'
  BY <1>2 DEF CInv, IntakeTyped, ConsolidatedOnce, Exists
<1>4. \A c \in CandidateIds : Related(c)' /\ Anchored(c)'
  BY <1>2 DEF CInv, Related, Anchored, Exists
<1> QED
  BY <1>1, <1>3, <1>4 DEF CInv

\* What a candidate points to stays in any step without a purge.
LEMMA AnchorHolds ==
  ASSUME CInv, Keeps, NEW c \in CandidateIds, candidate'[c] = candidate[c]
  PROVE  Related(c)' /\ Anchored(c)'
<1>1. Related(c)'
  BY DEF CInv, Related, Exists
<1>2. Anchored(c)'
  <2> SUFFICES ASSUME Exists(c)
               PROVE  LET row == candidate[c]
                          i == row.change_request_id
                      IN /\ row.relation # Null => record'[row.relation].status # "none"
                         /\ i # Null => /\ request'[i].status # "none"
                                        /\ request'[i].submitted.requester_id = row.submitter
    BY DEF Anchored, Exists
  <2>1. candidate[c] \in CandidateRow /\ Anchored(c)
    BY CandidatesExist DEF CInv
  <2>2. /\ candidate[c].relation \in Ids \cup {Null}
        /\ candidate[c].change_request_id \in Ids \cup {Null}
    BY <2>1 DEF CandidateRow
  <2> QED
    BY <2>1, <2>2 DEF Anchored, Keeps, Was
<1> QED
  BY <1>1, <1>2

\* The rule for steps that leave the intake alone.
LEMMA IntakeStays ==
  ASSUME CInv, LifeInv', Keeps, AddsCreates, UNCHANGED intake
  PROVE  CInv'
<1>1. UNCHANGED <<candidate, job, call, requeues>>
  BY DEF intake
<1>2. IntakeTyped' /\ \A c \in CandidateIds : Assigned(c)'
  BY <1>1 DEF CInv, IntakeTyped, Assigned, Exists
<1>3. \A c \in CandidateIds : Related(c)' /\ Anchored(c)'
  BY <1>1, AnchorHolds
<1>4. ConsolidatedOnce'
  <2>1. \A j \in Ids : request'[j].status # "none" /\ request'[j].submitted.operation = "update"
          => Was(j) /\ request'[j].submitted = request[j].submitted
    BY DEF AddsCreates, Keeps
  <2> QED
    BY <1>1, <2>1 DEF CInv, ConsolidatedOnce, Was, Exists
<1> QED
  BY <1>2, <1>3, <1>4 DEF CInv

\* The rule for steps that write one candidate's row.
LEMMA RowMoves ==
  ASSUME CInv, LifeInv', Keeps, AddsCreates, NEW c \in CandidateIds,
         NEW row \in CandidateRow, candidate' = [candidate EXCEPT ![c] = row],
         row.assessment = "new" <=> row.relation = Null,
         row.relation # Null => record'[row.relation].status # "none",
         row.change_request_id # Null =>
           /\ request'[row.change_request_id].status # "none"
           /\ request'[row.change_request_id].submitted.requester_id = row.submitter,
         \/ candidate[c] = NoCandidate
         \/ Exists(c) /\ row.identity_key = candidate[c].identity_key,
         job' \in [CandidateIds -> JobRow \cup {NoJob}], call' \subseteq Call,
         UNCHANGED requeues,
         \A d \in CandidateIds : job'[d] # NoJob =>
           /\ d = c \/ job[d] # NoJob
           /\ job'[d].status = "processing" <=> job'[d].lease # "none"
  PROVE  CInv'
<1>1. /\ candidate'[c] = row /\ \A d \in CandidateIds : d # c => candidate'[d] = candidate[d]
      /\ candidate' \in [CandidateIds -> CandidateRow \cup {NoCandidate, Erased}]
      /\ requeues' \in 0..MaxRequeues
  BY DEF CInv, IntakeTyped
<1>2. row.assessment \notin {"none", "erased"}
  BY DEF CandidateRow
<1>3. Exists(c)'
  BY <1>1, <1>2 DEF Exists, NoCandidate, Erased
<1>4. \A d \in CandidateIds : Related(d)' /\ Anchored(d)'
  <2> SUFFICES ASSUME NEW d \in CandidateIds PROVE Related(d)' /\ Anchored(d)'
    OBVIOUS
  <2>1. CASE d = c
    BY <1>1, <2>1 DEF Related, Anchored
  <2>2. CASE d # c
    BY <1>1, <2>2, AnchorHolds
  <2> QED
    BY <2>1, <2>2
<1>5. \A d \in CandidateIds : Assigned(d)'
  <2> SUFFICES ASSUME NEW d \in CandidateIds, job'[d] # NoJob
               PROVE  Exists(d)' /\ (job'[d].status = "processing" <=> job'[d].lease # "none")
    BY DEF Assigned
  <2>1. CASE d = c
    BY <1>3, <2>1
  <2>2. CASE d # c
    BY <1>1, <2>2 DEF CInv, Assigned, Exists
  <2> QED
    BY <2>1, <2>2
<1>6. ConsolidatedOnce'
  <2>1. \A j \in Ids : request'[j].status # "none" /\ request'[j].submitted.operation = "update"
          => Was(j) /\ request'[j].submitted = request[j].submitted
    BY DEF AddsCreates, Keeps
  <2> SUFFICES ASSUME NEW d \in CandidateIds, NEW i \in Ids, NEW j \in Ids,
                      request'[i].status # "none", request'[i].submitted.candidate = d,
                      request'[i].submitted.operation = "update"
               PROVE  /\ request'[j].status # "none" /\ request'[j].submitted.candidate = d
                           /\ request'[j].submitted.operation = "update" => i = j
                      /\ candidate'[d] # NoCandidate
                      /\ Exists(d)' =>
                           request'[i].submitted.identity_key = candidate'[d].identity_key
    BY DEF ConsolidatedOnce
  <2>2. /\ request[i].status # "none" /\ request[i].submitted.candidate = d
        /\ request[i].submitted.operation = "update"
        /\ request'[i].submitted = request[i].submitted
    BY <2>1 DEF Was
  <2>3. /\ candidate[d] # NoCandidate
        /\ Exists(d) => request[i].submitted.identity_key = candidate[d].identity_key
        /\ request[j].status # "none" /\ request[j].submitted.candidate = d
             /\ request[j].submitted.operation = "update" => i = j
    BY <2>2 DEF CInv, ConsolidatedOnce
  <2>4. CASE d = c
    BY <1>1, <1>3, <2>1, <2>2, <2>3, <2>4 DEF Was, Exists
  <2>5. CASE d # c
    BY <1>1, <2>1, <2>2, <2>3, <2>5 DEF Was, Exists
  <2> QED
    BY <2>4, <2>5
<1> QED
  BY <1>1, <1>4, <1>5, <1>6 DEF CInv, IntakeTyped


----------------------------------------------------------------------------
(* Submission *)

\* What an assessment finds: a record to relate the candidate to, or none.
Found(a) ==
  /\ a.assessment \in {"new", "duplicate", "conflict"} /\ a.relation \in Ids \cup {Null}
  /\ a.assessment = "new" <=> a.relation = Null
  /\ a.relation # Null => record[a.relation].status = "active"

LEMMA IdentityAssessed ==
  ASSUME NEW row
  PROVE  /\ Found(IdentityAssessment(row))
         /\ IdentityAssessment(row).assessment = "new" => OfIdentity(row) = {}
<1>1. CASE OfIdentity(row) = {}
  BY <1>1 DEF IdentityAssessment, Found
<1>2. CASE OfIdentity(row) # {}
  <2> DEFINE r == CHOOSE r \in OfIdentity(row) : TRUE
  <2>1. r \in OfIdentity(row)
    BY <1>2
  <2>2. IdentityAssessment(row) = [assessment |-> Compared(row, r), relation |-> r]
    BY <1>2 DEF IdentityAssessment
  <2> HIDE DEF r
  <2>3. r \in Ids /\ record[r].status = "active" /\ r # Null
    BY <2>1, ConstantsDistinct DEF OfIdentity, ActiveRecord
  <2>4. Compared(row, r) \in {"duplicate", "conflict"}
    BY DEF Compared
  <2> QED
    BY <2>2, <2>3, <2>4 DEF Found
<1> QED
  BY <1>1, <1>2

\* The create of a candidate is a proper submission of its submitter.
LEMMA CreateIsProper ==
  ASSUME NEW row \in CandidateRow, NEW w \in [valid_from : Deadline, valid_to : Deadline],
         NEW key \in CandidateIds \cup {Null}
  PROVE  /\ Proper(CreateFor(row, w, key)) /\ Reached(CreateFor(row, w, key))
         /\ CreateFor(row, w, key).operation = "create"
         /\ CreateFor(row, w, key).requester_id = row.submitter
<1>1. /\ row.submitter \in Profiles /\ row.namespace_id \in Namespaces
      /\ row.record_type \in Types /\ row.identity_key \in Keys /\ row.payload \in Patches
  BY DEF CandidateRow, Keys, Payloads, Patches
<1> QED
  BY <1>1 DEF CreateFor, Proper, Reached, Submission, Operations

\* A new candidate's row and the job the trigger gives it.
LEMMA InsertMoves ==
  ASSUME CInv, LifeInv', Keeps, AddsCreates, NEW row \in CandidateRow,
         \E c \in CandidateIds : candidate[c] = NoCandidate, Insert(row),
         row.assessment = "new" <=> row.relation = Null,
         row.relation # Null => record'[row.relation].status # "none",
         row.change_request_id # Null =>
           /\ request'[row.change_request_id].status # "none"
           /\ request'[row.change_request_id].submitted.requester_id = row.submitter
  PROVE  CInv'
<1> DEFINE c == NewCandidate
           new == [projection |-> "pending", status |-> "pending", attempts |-> 0,
                   claims |-> 0, lease |-> "none"]
<1>1. c \in CandidateIds /\ candidate[c] = NoCandidate
  BY DEF NewCandidate
<1>2. /\ candidate' = [candidate EXCEPT ![c] = row] /\ UNCHANGED <<call, requeues>>
      /\ job' = [job EXCEPT ![c] = IF row.assessment # "new" THEN NoJob ELSE new]
  BY DEF Insert
<1>3. new \in JobRow /\ new.status # "processing" /\ new.lease = "none"
  BY CandidateConstants DEF JobRow
<1> HIDE DEF c, new
<1>4. job \in [CandidateIds -> JobRow \cup {NoJob}] /\ call \subseteq Call
  BY DEF CInv, IntakeTyped
<1>5. job' \in [CandidateIds -> JobRow \cup {NoJob}]
  BY <1>1, <1>2, <1>3, <1>4
<1>6. \A d \in CandidateIds : job'[d] # NoJob =>
        /\ d = c \/ job[d] # NoJob
        /\ job'[d].status = "processing" <=> job'[d].lease # "none"
  <2> SUFFICES ASSUME NEW d \in CandidateIds, job'[d] # NoJob
               PROVE  /\ d = c \/ job[d] # NoJob
                      /\ job'[d].status = "processing" <=> job'[d].lease # "none"
    OBVIOUS
  <2>1. CASE d = c
    BY <1>1, <1>2, <1>3, <1>4, <2>1
  <2>2. CASE d # c
    BY <1>1, <1>2, <1>4, <2>2 DEF CInv, Assigned
  <2> QED
    BY <2>1, <2>2
<1> QED
  BY <1>1, <1>2, <1>4, <1>5, <1>6, RowMoves

LEMMA SubmitCandidateInv ==
  ASSUME CInv, NEW p \in Profiles, NEW ns \in Namespaces, NEW type \in Types,
         NEW identity \in Identities, NEW payload \in CreatePayloads, NEW w \in Windows,
         SubmitCandidate(p, ns, type, identity, payload, w)
  PROVE  CInv'
<1> DEFINE row(a, i) ==
             [submitter |-> p, namespace_id |-> ns, record_type |-> type,
              identity_key |-> identity, payload |-> MergePatch(Blank, payload),
              valid_from |-> w.valid_from, valid_to |-> w.valid_to,
              assessment |-> a.assessment, relation |-> a.relation,
              change_request_id |-> i]
           draft == row([assessment |-> "new", relation |-> Null], Null)
           assessed == IdentityAssessment(draft)
<1>1. /\ payload \in Patches /\ MergePatch(Blank, payload) \in Payloads
      /\ w \in [valid_from : Deadline, valid_to : Deadline]
  BY ConstantsTyped, MergedIsPayload, BlankIsPayload
<1>2. ASSUME NEW a, Found(a), NEW i \in Ids \cup {Null} PROVE row(a, i) \in CandidateRow
  BY <1>1, <1>2 DEF Found, CandidateRow
<1>3. draft \in CandidateRow /\ draft.submitter = p
  BY <1>2 DEF Found
<1>4. Found(assessed)
  BY IdentityAssessed
<1>5. /\ \E c \in CandidateIds : candidate[c] = NoCandidate
      /\ IF assessed.assessment = "new" /\ ~MustWait(draft)
         THEN \E i \in Ids : Submitted(CreateFor(draft, w, Null), i) /\ Insert(row(assessed, i))
         ELSE Insert(row(assessed, Null)) /\ UNCHANGED vars
  BY DEF SubmitCandidate
<1>6. ASSUME NEW i \in Ids \cup {Null}
      PROVE  /\ row(assessed, i).submitter = p /\ row(assessed, i).change_request_id = i
             /\ row(assessed, i).assessment = assessed.assessment
             /\ row(assessed, i).relation = assessed.relation
  OBVIOUS
<1>7. \A i \in Ids \cup {Null} : row(assessed, i) \in CandidateRow
  BY <1>2, <1>4
<1> HIDE DEF assessed, draft, row
<1>8. assessed.relation # Null => assessed.relation \in Ids /\ record[assessed.relation].status # "none"
  BY <1>4 DEF Found
<1>9. ASSUME NEW i \in Ids, Submitted(CreateFor(draft, w, Null), i), Insert(row(assessed, i))
      PROVE  CInv'
  <2> DEFINE s == CreateFor(draft, w, Null)
  <2>1. Proper(s) /\ Reached(s) /\ s.operation = "create" /\ s.requester_id = p
    BY <1>1, <1>3, CreateIsProper
  <2>2. /\ LifeInv' /\ Keeps /\ Adds(i, s)
        /\ request'[i].status # "none" /\ request'[i].submitted = s
    BY <1>9, <2>1, SubmittedKeeps DEF CInv
  <2> HIDE DEF s
  <2>3. AddsCreates
    BY <2>1, <2>2 DEF Adds, AddsCreates
  <2>4. assessed.relation # Null => record'[assessed.relation].status # "none"
    BY <1>8, <2>2 DEF Keeps
  <2> QED
    BY <1>4, <1>5, <1>6, <1>7, <1>9, <2>1, <2>2, <2>3, <2>4, InsertMoves DEF Found
<1>10. ASSUME Insert(row(assessed, Null)), UNCHANGED vars
       PROVE  CInv'
  <2>1. LifeInv'
    BY <1>10, StepKeepsLife DEF CInv
  <2>2. UNCHANGED <<request, record>>
    BY <1>10 DEF vars
  <2>3. Keeps /\ AddsCreates
    BY <2>2 DEF Keeps, AddsCreates, Was
  <2> QED
    BY <1>4, <1>5, <1>6, <1>7, <1>8, <1>10, <2>1, <2>2, <2>3, InsertMoves DEF Found
<1> QED
  BY <1>5, <1>9, <1>10


----------------------------------------------------------------------------
(* The assessment worker *)

\* A released job is one nobody holds.
LEMMA ReleasedIsRow ==
  ASSUME NEW j \in JobRow, NEW status \in {"pending", "failed"}
  PROVE  /\ Released(j, status) \in JobRow /\ Released(j, status).status = status
         /\ Released(j, status).lease = "none"
         /\ Released(j, status).attempts = j.attempts
         /\ Released(j, status).claims = j.claims
BY DEF Released, JobRow

\* A job as the tables may hold it.
JobOk(j) == j = NoJob \/ (j \in JobRow /\ (j.status = "processing" <=> j.lease # "none"))

LEMMA JobsAreOk ==
  ASSUME CInv
  PROVE  \A c \in CandidateIds : JobOk(job[c])
BY CandidatesExist DEF CInv, Assigned, JobOk

\* The rule for steps that move jobs of candidates that had one.
LEMMA JobsMoveOk ==
  ASSUME CInv, UNCHANGED <<vars, candidate>>, call' \subseteq Call,
         requeues' \in 0..MaxRequeues,
         DOMAIN job' = CandidateIds, job' = [c \in CandidateIds |-> job'[c]],
         \A c \in CandidateIds : JobOk(job'[c]) /\ (job[c] = NoJob => job'[c] = NoJob)
  PROVE  CInv'
<1>1. job' \in [CandidateIds -> JobRow \cup {NoJob}]
  BY DEF JobOk
<1>2. \A c \in CandidateIds : Assigned(c)'
  BY DEF Assigned, JobOk, CInv, Exists
<1> QED
  BY <1>1, <1>2, JobsMove

\* The recovery of expired leases keeps jobs as they may be.
LEMMA RecoveredIsOk ==
  ASSUME CInv, NEW c \in CandidateIds
  PROVE  /\ JobOk(Recovered[c]) /\ Recovered[c].claims = job[c].claims
         /\ job[c] = NoJob => Recovered[c] = NoJob
         /\ job[c] # NoJob => Recovered[c] \in JobRow
<1>1. Recovered[c] =
        IF Expired(c) THEN Released(job[c], IF Exhausted(c) THEN "failed" ELSE "pending")
        ELSE job[c]
  BY DEF Recovered
<1>2. CASE ~Expired(c)
  BY <1>1, <1>2, JobsAreOk, CandidatesExist
<1>3. CASE Expired(c)
  <2>1. job[c] \in JobRow /\ job[c] # NoJob
    BY <1>3, CandidatesExist DEF Expired
  <2>2. (IF Exhausted(c) THEN "failed" ELSE "pending") \in {"pending", "failed"}
    OBVIOUS
  <2> QED
    BY <1>1, <1>3, <2>1, <2>2, ReleasedIsRow, CandidatesExist DEF JobOk
<1> QED
  BY <1>2, <1>3

LEMMA ClaimJobsInv ==
  ASSUME CInv, NEW p \in Profiles, ClaimJobs(p)
  PROVE  CInv'
<1> DEFINE taken(c) == [Recovered[c] EXCEPT !.status = "processing", !.lease = "live",
                                            !.attempts = @ + 1, !.claims = @ + 1]
           new(c) == [candidate |-> c, token |-> job[c].claims + 1, worker |-> p,
                      checked |-> "no"]
<1>1. PICK C \in SUBSET Claimable(p, Recovered) :
        /\ \A c \in C : job[c].claims < MaxClaims
        /\ job' = [c \in CandidateIds |-> IF c \in C THEN taken(c) ELSE Recovered[c]]
        /\ call' = call \cup {new(c) : c \in C}
  BY DEF ClaimJobs
<1>2. UNCHANGED <<vars, candidate, requeues>>
  BY DEF ClaimJobs
<1>3. ASSUME NEW c \in C
      PROVE  /\ c \in CandidateIds /\ job[c] # NoJob
             /\ taken(c) \in JobRow /\ taken(c).status = "processing"
             /\ taken(c).lease # "none" /\ new(c) \in Call
  <2>1. /\ c \in CandidateIds /\ Recovered[c].status = "pending"
        /\ Recovered[c].attempts < MaxAttempts /\ job[c].claims < MaxClaims
    BY <1>1, <1>3 DEF Claimable
  <2>2. Recovered[c] # NoJob
    BY <2>1 DEF NoJob
  <2>3. job[c] # NoJob /\ Recovered[c] \in JobRow /\ Recovered[c].claims = job[c].claims
    BY <2>1, <2>2, RecoveredIsOk
  <2>4. job[c] \in JobRow
    BY <2>1, <2>3, CandidatesExist
  <2>5. /\ Recovered[c].attempts + 1 \in 0..MaxAttempts
        /\ job[c].claims + 1 \in 0..MaxClaims /\ job[c].claims + 1 \in 1..MaxClaims
    BY <2>1, <2>3, <2>4, CandidateConstants DEF JobRow
  <2>6. new(c) \in Call
    BY <2>1, <2>5 DEF Call
  <2>7. taken(c) \in JobRow /\ taken(c).status = "processing" /\ taken(c).lease # "none"
    BY <2>3, <2>5 DEF JobRow
  <2> QED
    BY <2>1, <2>3, <2>6, <2>7
<1> HIDE DEF taken, new
<1>4. call' \subseteq Call
  BY <1>1, <1>3 DEF CInv, IntakeTyped
<1>5. ASSUME NEW c \in CandidateIds
      PROVE  JobOk(job'[c]) /\ (job[c] = NoJob => job'[c] = NoJob)
  <2>1. CASE c \in C
    BY <1>1, <1>3, <2>1 DEF JobOk
  <2>2. CASE c \notin C
    BY <1>1, <2>2, RecoveredIsOk
  <2> QED
    BY <2>1, <2>2
<1>6. requeues' \in 0..MaxRequeues
  BY <1>2 DEF CInv, IntakeTyped
<1> QED
  BY <1>1, <1>2, <1>4, <1>5, <1>6, JobsMoveOk

LEMMA CheckClaimInv ==
  ASSUME CInv, NEW k \in call, NEW outcome \in {"complete", "fail"}, CheckClaim(k, outcome)
  PROVE  CInv'
<1>1. k \in Call /\ job \in [CandidateIds -> JobRow \cup {NoJob}] /\ call \subseteq Call
  BY DEF CInv, IntakeTyped
<1>2. [k EXCEPT !.checked = outcome] \in Call
  BY <1>1 DEF Call
<1>3. UNCHANGED <<vars, candidate, job, requeues>> /\ call' \subseteq Call
  BY <1>1, <1>2 DEF CheckClaim
<1>4. requeues' \in 0..MaxRequeues /\ \A c \in CandidateIds : Assigned(c)'
  BY <1>3 DEF CInv, IntakeTyped, Assigned, Exists
<1> QED
  BY <1>1, <1>3, <1>4, JobsMove

\* What an answer makes of the job of its claim.
LEMMA SettledJob ==
  ASSUME CInv, NEW k \in call, Updates(k),
         NEW status \in {"completed", "failed"}, NEW projection \in {"indexed", "failed"},
         Settle(k, status, projection)
  PROVE  /\ k.candidate \in CandidateIds /\ Exists(k.candidate)
         /\ job' \in [CandidateIds -> JobRow \cup {NoJob}]
         /\ job'[k.candidate].projection = projection
         /\ \A d \in CandidateIds : JobOk(job'[d]) /\ (job[d] = NoJob => job'[d] = NoJob)
<1> DEFINE c == k.candidate
           done == [job[c] EXCEPT !.status = status, !.lease = "none",
                                  !.projection = projection]
           late == [job[c] EXCEPT !.projection = projection]
<1>1. c \in CandidateIds /\ job \in [CandidateIds -> JobRow \cup {NoJob}]
  BY DEF CInv, IntakeTyped, Call
<1>2. job[c] \in JobRow /\ Exists(c) /\ (job[c].status = "processing" <=> job[c].lease # "none")
  BY <1>1, CandidatesExist DEF Updates, CInv, Assigned
<1>3. /\ done \in JobRow /\ done.status # "processing" /\ done.lease = "none"
      /\ done.projection = projection
  BY <1>2 DEF JobRow
<1>4. /\ late \in JobRow /\ (late.status = "processing" <=> late.lease # "none")
      /\ late.projection = projection
  BY <1>2 DEF JobRow
<1>5. job' = [job EXCEPT ![c] = IF HoldsClaim(k) THEN done ELSE late]
  BY DEF Settle
<1> HIDE DEF done, late, c
<1>6. /\ \A d \in CandidateIds : d # c => job'[d] = job[d]
      /\ job'[c] = IF HoldsClaim(k) THEN done ELSE late
      /\ job' \in [CandidateIds -> JobRow \cup {NoJob}]
  BY <1>1, <1>3, <1>4, <1>5
<1>7. \A d \in CandidateIds : JobOk(job'[d]) /\ (job[d] = NoJob => job'[d] = NoJob)
  <2> SUFFICES ASSUME NEW d \in CandidateIds
               PROVE  JobOk(job'[d]) /\ (job[d] = NoJob => job'[d] = NoJob)
    OBVIOUS
  <2>1. CASE d = c
    BY <1>2, <1>3, <1>4, <1>6, <2>1, CandidatesExist DEF JobOk
  <2>2. CASE d # c
    BY <1>6, <2>2, JobsAreOk
  <2> QED
    BY <2>1, <2>2
<1> QED
  BY <1>1, <1>2, <1>3, <1>4, <1>6, <1>7 DEF c

LEMMA FailJobInv ==
  ASSUME CInv, NEW k \in call, FailJob(k)
  PROVE  CInv'
<1>1. UNCHANGED <<vars, candidate, requeues>> /\ call' \subseteq Call
      /\ requeues' \in 0..MaxRequeues /\ job \in [CandidateIds -> JobRow \cup {NoJob}]
  BY DEF FailJob, CInv, IntakeTyped
<1>2. CASE Updates(k) /\ Settle(k, "failed", "failed")
  BY <1>1, <1>2, SettledJob, JobsMoveOk
<1>3. CASE UNCHANGED job
  BY <1>1, <1>3, JobsAreOk, JobsMoveOk
<1> QED
  BY <1>2, <1>3 DEF FailJob

LEMMA WorkerLostInv ==
  ASSUME CInv, NEW p \in Profiles, WorkerLost(p)
  PROVE  CInv'
<1>1. UNCHANGED <<vars, candidate, job, requeues>> /\ call' \subseteq Call
      /\ requeues' \in 0..MaxRequeues /\ job \in [CandidateIds -> JobRow \cup {NoJob}]
  BY DEF WorkerLost, CInv, IntakeTyped
<1> QED
  BY <1>1, JobsAreOk, JobsMoveOk

LEMMA LeaseEndsInv ==
  ASSUME CInv, NEW c \in CandidateIds, LeaseEnds(c)
  PROVE  CInv'
<1>1. UNCHANGED <<vars, candidate, call, requeues>> /\ call' \subseteq Call
      /\ requeues' \in 0..MaxRequeues /\ job \in [CandidateIds -> JobRow \cup {NoJob}]
  BY DEF LeaseEnds, CInv, IntakeTyped
<1>2. job[c] \in JobRow /\ job[c].status = "processing"
  BY CandidatesExist DEF LeaseEnds
<1> DEFINE over == [job[c] EXCEPT !.lease = "over"]
<1>3. over \in JobRow /\ over.status = "processing" /\ over.lease # "none"
  BY <1>2 DEF JobRow
<1>4. job' = [job EXCEPT ![c] = over]
  BY DEF LeaseEnds
<1> HIDE DEF over
<1>5. \A d \in CandidateIds : JobOk(job'[d]) /\ (job[d] = NoJob => job'[d] = NoJob)
  BY <1>1, <1>2, <1>3, <1>4, JobsAreOk, CandidatesExist DEF JobOk
<1> QED
  BY <1>1, <1>4, <1>5, JobsMoveOk

LEMMA RequeueFailedInv ==
  ASSUME CInv, RequeueFailed
  PROVE  CInv'
<1>1. /\ UNCHANGED <<vars, candidate, call>> /\ call' \subseteq Call
      /\ requeues' \in 0..MaxRequeues /\ job \in [CandidateIds -> JobRow \cup {NoJob}]
  BY CandidateConstants DEF RequeueFailed, CInv, IntakeTyped
<1>2. PICK C \in SUBSET Requeueable :
        job' = [c \in CandidateIds |-> IF c \in C THEN Requeued(c) ELSE job[c]]
  BY DEF RequeueFailed
<1>3. ASSUME NEW c \in CandidateIds
      PROVE  JobOk(job'[c]) /\ (job[c] = NoJob => job'[c] = NoJob)
  <2>1. CASE c \in C
    <3>1. job[c] \in JobRow /\ job[c] # NoJob
      BY <2>1, CandidatesExist DEF Requeueable, Expired
    <3>2. Released(job[c], "pending") \in JobRow /\ Released(job[c], "failed") \in JobRow
          /\ Released(job[c], "pending").status = "pending"
          /\ Released(job[c], "pending").lease = "none"
          /\ Released(job[c], "failed").status = "failed"
          /\ Released(job[c], "failed").lease = "none"
      BY <3>1, ReleasedIsRow
    <3> DEFINE anew == [Released(job[c], "pending") EXCEPT !.attempts = 0]
    <3>3. anew \in JobRow /\ anew.status = "pending" /\ anew.lease = "none"
      BY <3>2, CandidateConstants DEF JobRow
    <3>4. Requeued(c) \in {anew, Released(job[c], "pending"), Released(job[c], "failed")}
      BY DEF Requeued
    <3> QED
      BY <1>2, <2>1, <3>1, <3>2, <3>3, <3>4 DEF JobOk
  <2>2. CASE c \notin C
    BY <1>2, <2>2, JobsAreOk
  <2> QED
    BY <2>1, <2>2
<1> QED
  BY <1>1, <1>2, <1>3, JobsMoveOk


\* What the embeddings may find is a current record, and none of the identity
\* is left out.
LEMMA SemanticFound ==
  ASSUME NEW row, NEW found \in SemanticAssessments(row)
  PROVE  /\ Found(found)
         /\ found.assessment = "new" => ~\E r \in OfIdentity(row) : Current(r)
<1> DEFINE exact == {r \in OfIdentity(row) : Current(r)}
<1>1. CASE exact = {}
  <2>1. found \in Matches(row)
    BY <1>1 DEF SemanticAssessments
  <2>2. CASE found = [assessment |-> "new", relation |-> Null]
    BY <1>1, <2>2 DEF Found
  <2>3. CASE \E a \in {"duplicate", "conflict"}, r \in Ids :
               Current(r) /\ found = [assessment |-> a, relation |-> r]
    BY <2>3, ConstantsDistinct DEF Found, Current
  <2> QED
    BY <2>1, <2>2, <2>3 DEF Matches
<1>2. CASE exact # {}
  <2>1. PICK r \in exact : found = [assessment |-> Compared(row, r), relation |-> r]
    BY <1>2 DEF SemanticAssessments
  <2>2. r \in Ids /\ r # Null /\ record[r].status = "active"
    BY ConstantsDistinct DEF OfIdentity, Current
  <2>3. Compared(row, r) \in {"duplicate", "conflict"}
    BY DEF Compared
  <2> QED
    BY <2>1, <2>2, <2>3 DEF Found
<1> QED
  BY <1>1, <1>2

LEMMA CompleteJobInv ==
  ASSUME CInv, NEW k \in call, CompleteJob(k)
  PROVE  CInv'
<1> DEFINE c == k.candidate
<1>1. /\ call' \subseteq Call /\ UNCHANGED requeues /\ requeues' \in 0..MaxRequeues
      /\ job \in [CandidateIds -> JobRow \cup {NoJob}]
  BY DEF CompleteJob, CInv, IntakeTyped
<1>2. CASE ~Updates(k)
  <2>1. UNCHANGED <<vars, candidate, job>>
    BY <1>2 DEF CompleteJob
  <2> QED
    BY <1>1, <2>1, JobsAreOk, JobsMoveOk
<1>3. CASE Updates(k)
  <2>1. Settle(k, "completed", "indexed")
    BY <1>3 DEF CompleteJob
  <2>2. /\ c \in CandidateIds /\ Exists(c)
        /\ job' \in [CandidateIds -> JobRow \cup {NoJob}]
        /\ \A d \in CandidateIds : JobOk(job'[d]) /\ (job[d] = NoJob => job'[d] = NoJob)
    BY <1>3, <2>1, SettledJob
  <2>3. \A d \in CandidateIds : job'[d] # NoJob =>
          /\ d = c \/ job[d] # NoJob
          /\ job'[d].status = "processing" <=> job'[d].lease # "none"
    BY <2>2 DEF JobOk
  <2>4. PICK found \in SemanticAssessments(candidate[c]) :
          LET row == [candidate[c] EXCEPT !.assessment = found.assessment,
                                          !.relation = found.relation]
          IN IF ReadyToPublish(row)
             THEN \E i \in Ids : /\ Submitted(CreateFor(row, Unbounded, c), i)
                                 /\ candidate' = [candidate EXCEPT ![c] =
                                      [row EXCEPT !.change_request_id = i]]
             ELSE candidate' = [candidate EXCEPT ![c] = row] /\ UNCHANGED vars
    BY <1>3 DEF CompleteJob
  <2>5. Found(found) /\ candidate[c] \in CandidateRow
    BY <2>2, SemanticFound, CandidatesExist
  <2> DEFINE row == [candidate[c] EXCEPT !.assessment = found.assessment,
                                         !.relation = found.relation]
  <2>6. /\ row \in CandidateRow /\ row.assessment = found.assessment
        /\ row.relation = found.relation /\ row.submitter = candidate[c].submitter
        /\ row.identity_key = candidate[c].identity_key
        /\ row.change_request_id = candidate[c].change_request_id
    BY <2>5 DEF Found, CandidateRow
  <2> HIDE DEF row, c
  <2>7. /\ row.assessment = "new" <=> row.relation = Null
        /\ row.relation # Null => row.relation \in Ids /\ record[row.relation].status # "none"
    BY <2>5, <2>6 DEF Found
  <2>8. ASSUME NEW i \in Ids, Submitted(CreateFor(row, Unbounded, c), i),
               candidate' = [candidate EXCEPT ![c] = [row EXCEPT !.change_request_id = i]]
        PROVE  CInv'
    <3> DEFINE s == CreateFor(row, Unbounded, c)
               linked == [row EXCEPT !.change_request_id = i]
    <3>1. Unbounded \in [valid_from : Deadline, valid_to : Deadline]
      BY DEF Unbounded, Deadline
    <3>2. Proper(s) /\ Reached(s) /\ s.operation = "create" /\ s.requester_id = row.submitter
      BY <2>2, <2>6, <3>1, CreateIsProper
    <3>3. /\ LifeInv' /\ Keeps /\ Adds(i, s)
          /\ request'[i].status # "none" /\ request'[i].submitted = s
      BY <2>8, <3>2, SubmittedKeeps DEF CInv
    <3>4. /\ linked \in CandidateRow /\ linked.assessment = row.assessment
          /\ linked.relation = row.relation /\ linked.submitter = row.submitter
          /\ linked.identity_key = row.identity_key /\ linked.change_request_id = i
      BY <2>6 DEF CandidateRow
    <3>5. candidate' = [candidate EXCEPT ![c] = linked]
      BY <2>8
    <3> HIDE DEF s, linked
    <3>6. AddsCreates
      BY <3>2, <3>3 DEF Adds, AddsCreates
    <3>7. row.relation # Null => record'[row.relation].status # "none"
      BY <2>7, <3>3 DEF Keeps
    <3> QED
      BY <1>1, <2>2, <2>3, <2>6, <2>7, <3>2, <3>3, <3>4, <3>5, <3>6, <3>7, RowMoves
  <2>9. ASSUME candidate' = [candidate EXCEPT ![c] = row], UNCHANGED vars
        PROVE  CInv'
    <3>1. LifeInv'
      BY <2>9, StepKeepsLife DEF CInv
    <3>2. UNCHANGED <<request, record>>
      BY <2>9 DEF vars
    <3>3. Keeps /\ AddsCreates
      BY <3>2 DEF Keeps, AddsCreates, Was
    <3>4. row.change_request_id # Null =>
            /\ request'[row.change_request_id].status # "none"
            /\ request'[row.change_request_id].submitted.requester_id = row.submitter
      BY <2>2, <2>6, <3>2 DEF CInv, Anchored
    <3> QED
      BY <1>1, <2>2, <2>3, <2>6, <2>7, <2>9, <3>1, <3>2, <3>3, <3>4, RowMoves
  <2> QED
    BY <2>4, <2>8, <2>9 DEF row
<1> QED
  BY <1>2, <1>3

----------------------------------------------------------------------------
(* Consolidation *)

\* A candidate becomes one update of a record of its own identity.
LEMMA ConsolidateCandidateInv ==
  ASSUME CInv, NEW p \in Profiles, NEW c \in CandidateIds, ConsolidateCandidate(p, c)
  PROVE  CInv'
<1> DEFINE row == candidate[c]
           s == PatchFor(p, c, row)
<1>1. /\ Exists(c) /\ Mergeable(row) /\ ~\E i \in Ids : Consolidates(i, c)
      /\ UNCHANGED intake
  BY DEF ConsolidateCandidate
<1>2. PICK i \in Ids : Submitted(s, i)
  BY DEF ConsolidateCandidate
<1>3. row \in CandidateRow /\ row.relation \in Ids
  BY <1>1, CandidatesExist DEF Mergeable, CandidateRow
<1>4. /\ record[row.relation] \in RecordRow
      /\ record[row.relation].identity_key = row.identity_key
  BY <1>1, <1>3, RowsExist DEF Mergeable, ActiveRecord, CInv, LifeInv, TypeInv
<1>5. [f \in Fields |-> IF row.payload[f] = Absent THEN Keep ELSE row.payload[f]] \in Patches
  BY <1>3 DEF CandidateRow, Payloads, Patches
<1>6. /\ row.namespace_id \in Namespaces
      /\ record[row.relation].record_type \in Types /\ record[row.relation].identity_key \in Keys
      /\ record[row.relation].revision \in Nat
  BY <1>3, <1>4 DEF CandidateRow, RecordRow
<1>7. /\ s \in Submission /\ s.operation = "update" /\ s.candidate = c
      /\ s.record_id = row.relation /\ s.identity_key = row.identity_key
      /\ s.expected_revision = record[row.relation].revision
  BY <1>3, <1>4, <1>5, <1>6 DEF PatchFor, Submission, Operations, Deadline
<1> HIDE DEF s
<1>8. Proper(s) /\ Reached(s)
  BY <1>3, <1>6, <1>7 DEF Proper, Reached, HintReached
<1>9. /\ LifeInv' /\ Keeps /\ Adds(i, s)
      /\ request'[i].status # "none" /\ request'[i].submitted = s
  BY <1>2, <1>8, SubmittedKeeps DEF CInv
<1> HIDE DEF row
<1>10. UNCHANGED <<candidate, job, call, requeues>>
  BY <1>1 DEF intake
<1>11. IntakeTyped' /\ \A d \in CandidateIds : Assigned(d)'
  BY <1>10 DEF CInv, IntakeTyped, Assigned, Exists
<1>12. \A d \in CandidateIds : Related(d)' /\ Anchored(d)'
  BY <1>9, <1>10, AnchorHolds
<1> DEFINE made(j, d) == /\ request[j].status # "none" /\ request[j].submitted.candidate = d
                         /\ request[j].submitted.operation = "update"
           madeNow(j, d) == /\ request'[j].status # "none"
                            /\ request'[j].submitted.candidate = d
                            /\ request'[j].submitted.operation = "update"
<1>13. ASSUME NEW j \in Ids, NEW d \in CandidateIds, madeNow(j, d)
       PROVE  \/ made(j, d) /\ request'[j].submitted = request[j].submitted
              \/ j = i /\ d = c
  BY <1>7, <1>9, <1>13 DEF Keeps, Adds, Was
<1>14. ASSUME NEW j \in Ids PROVE ~made(j, c)
  BY <1>1 DEF Consolidates
<1>15. ConsolidatedOnce'
  <2> SUFFICES ASSUME NEW d \in CandidateIds, NEW j \in Ids, NEW l \in Ids, madeNow(j, d)
               PROVE  /\ madeNow(l, d) => j = l
                      /\ candidate'[d] # NoCandidate
                      /\ Exists(d)' => request'[j].submitted.identity_key
                                         = candidate'[d].identity_key
    BY DEF ConsolidatedOnce
  <2>1. CASE d = c
    BY <1>1, <1>7, <1>9, <1>10, <1>13, <1>14, <2>1 DEF Exists, row
  <2>2. CASE d # c
    BY <1>10, <1>13, <2>2 DEF CInv, ConsolidatedOnce, Exists
  <2> QED
    BY <2>1, <2>2
<1> QED
  BY <1>9, <1>11, <1>12, <1>15 DEF CInv

----------------------------------------------------------------------------
(* What others do, and purges *)

LEMMA ElsewhereInv ==
  ASSUME CInv, NEW p \in Profiles, UNCHANGED intake,
         \/ ProposeCreate(p)
         \/ \E i \in Ids, decision \in {"approve", "reject"} :
              DecideChangeRequest(p, i, decision)
         \/ \E limit \in ExpiryLimits : ExpireRecords(p, limit)
         \/ \E ns \in Namespaces, r \in Ids, i \in PurgeIds :
              RequestHardPurge(p, ns, r, i)
         \/ Tick
  PROVE  CInv'
<1>1. LifeInv /\ LifeInv'
  <2>1. Next
    BY DEF Next
  <2> QED
    BY <2>1, StepKeepsLife DEF CInv
<1>2. CASE ProposeCreate(p)
  <2>1. PICK ns \in Namespaces, type \in Types, identity \in Identities,
             payload \in CreatePayloads, w \in Windows :
          Submit([requester_id |-> p, namespace_id |-> ns,
                  operation |-> "create", record_id |-> Null,
                  record_type |-> type, identity_key |-> identity,
                  payload |-> payload, expected_revision |-> Null,
                  valid_from |-> w.valid_from, valid_to |-> w.valid_to,
                  update_mode |-> "patch", candidate |-> Null])
    BY <1>2 DEF ProposeCreate
  <2> DEFINE s == [requester_id |-> p, namespace_id |-> ns,
                   operation |-> "create", record_id |-> Null,
                   record_type |-> type, identity_key |-> identity,
                   payload |-> payload, expected_revision |-> Null,
                   valid_from |-> w.valid_from, valid_to |-> w.valid_to,
                   update_mode |-> "patch", candidate |-> Null]
  <2>2. payload \in Patches /\ w \in [valid_from : Deadline, valid_to : Deadline]
    BY ConstantsTyped
  <2>3. Proper(s) /\ Reached(s) /\ s.operation = "create" /\ Submit(s)
    BY <2>1, <2>2 DEF Proper, Reached, Submission, Keys, Operations
  <2> HIDE DEF s
  <2>4. Keeps /\ Adds(NewId, s)
    BY <1>1, <2>3, SubmitKeeps
  <2>5. AddsCreates
    BY <2>3, <2>4 DEF Adds, AddsCreates
  <2> QED
    BY <1>1, <2>4, <2>5, IntakeStays
<1>3. ASSUME NEW i \in Ids, NEW decision, DecideChangeRequest(p, i, decision)
      PROVE  CInv'
  <2>1. /\ request[i] \in RequestRow
        /\ IsMutation(request[i]) => request[i].record_id \in Ids
    BY <1>1, <1>3, RowsExist DEF DecideChangeRequest, MutationsHaveTargets, LifeInv, TypeInv
  <2>2. Settles(i, request[i], decision, p)
    BY <1>3, <2>1 DEF DecideChangeRequest, Settles
  <2>3. Keeps /\ \A j \in Ids : j # i => request'[j] = request[j]
    BY <1>1, <2>2, SettledKeeps
  <2>4. Was(i)
    BY <1>3 DEF DecideChangeRequest, Was
  <2>5. AddsCreates
    BY <2>3, <2>4 DEF AddsCreates, Was
  <2> QED
    BY <1>1, <2>3, <2>5, IntakeStays
<1>4. ASSUME NEW limit, ExpireRecords(p, limit) PROVE CInv'
  <2>1. request' = request /\ \A r \in Ids : record[r].status # "none" => record'[r].status # "none"
    <3>1. PICK S \in SUBSET Due(p) :
            record' = [r \in Ids |-> IF r \in S THEN [record[r] EXCEPT !.status = "expired"]
                                     ELSE record[r]]
      BY <1>4 DEF ExpireRecords
    <3>2. \A r \in Ids : record[r].status # "none" => record[r] \in RecordRow
      BY <1>1, RowsExist DEF LifeInv, TypeInv
    <3>3. \A row \in RecordRow : [row EXCEPT !.status = "expired"].status = "expired"
      BY DEF RecordRow
    <3> QED
      BY <1>4, <3>1, <3>2, <3>3 DEF ExpireRecords
  <2>2. Keeps /\ AddsCreates
    BY <2>1 DEF Keeps, AddsCreates, Was
  <2> QED
    BY <1>1, <2>2, IntakeStays
<1>5. CASE \/ \E ns \in Namespaces, r \in Ids, i \in PurgeIds : RequestHardPurge(p, ns, r, i)
           \/ Tick
  <2>1. UNCHANGED <<request, record>>
    BY <1>5 DEF RequestHardPurge, Tick, canon
  <2>2. Keeps /\ AddsCreates
    BY <2>1 DEF Keeps, AddsCreates, Was
  <2> QED
    BY <1>1, <2>2, IntakeStays
<1> QED
  BY <1>2, <1>3, <1>4, <1>5

\* What a purge leaves has nothing to do with the record.
LEMMA ApprovePurgeInv ==
  ASSUME CInv, NEW p \in Profiles, NEW i \in PurgeIds, ApprovePurge(p, i)
  PROVE  CInv'
<1> DEFINE r == purge[i].record_id
           gone == TracesOf(r)
<1>1. /\ candidate' = [c \in CandidateIds |-> IF c \in gone THEN Erased ELSE candidate[c]]
      /\ job' = [c \in CandidateIds |-> IF c \in gone THEN NoJob ELSE job[c]]
      /\ UNCHANGED <<call, requeues>> /\ ApproveHardPurge(p, i)
  BY DEF ApprovePurge
<1>2. LifeInv'
  <2>1. Next
    BY <1>1 DEF Next
  <2> QED
    BY <2>1, StepKeepsLife DEF CInv
<1>3. /\ request' = [j \in Ids |-> IF ConcernsRecord(j, r) \/ StaleCreate(j, r)
                                   THEN NoRequest ELSE request[j]]
      /\ record' = [record EXCEPT ![r] = NoRecord]
      /\ record \in [Ids -> RecordRow \cup {NoRecord}]
  BY <1>1 DEF ApproveHardPurge, CInv, LifeInv, TypeInv, TypeOK
<1> HIDE DEF gone, r
<1>4. \A c \in CandidateIds : Exists(c)' =>
        c \notin gone /\ Exists(c) /\ candidate'[c] = candidate[c] /\ job'[c] = job[c]
  BY <1>1 DEF Exists
<1>5. IntakeTyped'
  BY <1>1 DEF CInv, IntakeTyped
<1>6. \A c \in CandidateIds : Assigned(c)' /\ Related(c)'
  <2> SUFFICES ASSUME NEW c \in CandidateIds PROVE Assigned(c)' /\ Related(c)'
    OBVIOUS
  <2>1. CASE c \in gone
    BY <1>1, <2>1 DEF Assigned, Related, Exists
  <2>2. CASE c \notin gone
    BY <1>1, <2>2 DEF CInv, Assigned, Related, Exists
  <2> QED
    BY <2>1, <2>2
<1>7. ASSUME NEW c \in CandidateIds PROVE Anchored(c)'
  <2> DEFINE row == candidate[c]
             j == row.change_request_id
  <2> SUFFICES ASSUME Exists(c)'
               PROVE  /\ row.relation # Null => record'[row.relation].status # "none"
                      /\ j # Null => /\ request'[j].status # "none"
                                     /\ request'[j].submitted.requester_id = row.submitter
    BY <1>4 DEF Anchored
  <2>1. c \notin gone /\ Exists(c)
    BY <1>4
  <2>2. /\ row \in CandidateRow /\ row.relation \in Ids \cup {Null}
        /\ j \in Ids \cup {Null}
    BY <2>1, CandidatesExist DEF CandidateRow
  <2>3. /\ row.relation # r
        /\ j # Null => ~ConcernsRecord(j, r) /\ ~StaleCreate(j, r)
    BY <2>1 DEF gone, TracesOf
  <2>4. /\ row.relation # Null => record[row.relation].status # "none"
        /\ j # Null => /\ request[j].status # "none"
                       /\ request[j].submitted.requester_id = row.submitter
    BY <2>1 DEF CInv, Anchored
  <2> HIDE DEF row, j
  <2> QED
    BY <1>3, <2>2, <2>3, <2>4
<1>8. ConsolidatedOnce'
  <2>1. \A j \in Ids : request'[j].status # "none" => request'[j] = request[j]
    BY <1>3 DEF NoRequest
  <2>2. \A c \in CandidateIds : candidate[c] # NoCandidate => candidate'[c] # NoCandidate
    BY <1>1 DEF NoCandidate, Erased
  <2> QED
    BY <1>4, <2>1, <2>2 DEF CInv, ConsolidatedOnce
<1> QED
  BY <1>2, <1>5, <1>6, <1>7, <1>8 DEF CInv


----------------------------------------------------------------------------
(* Publication *)

\* What PublishedAsNew says of a step and a candidate.
PublishedRightly(c) ==
  LET row == candidate'[c]
      linked == Exists(c)' /\ row.change_request_id # Null
      before == Exists(c) /\ candidate[c].change_request_id # Null
  IN linked /\ ~before =>
       /\ row.assessment = "new"
       /\ ~\E r \in OfIdentity(row) : Current(r)
       /\ (/\ SemanticRequired(row)
           /\ HasCapability(row.submitter, row.namespace_id, "read"))
            => job'[c].projection = "indexed"

\* Most steps write no candidate, or erase it.
LEMMA NothingPublished ==
  ASSUME NEW c \in CandidateIds, candidate'[c] \in {candidate[c], Erased}
  PROVE  PublishedRightly(c)
BY DEF PublishedRightly, Exists, Erased

\* The rule for a candidate that is published.
LEMMA PublishesRightly ==
  ASSUME NEW c \in CandidateIds, candidate'[c].assessment = "new",
         ~\E r \in OfIdentity(candidate'[c]) : Current(r),
         \/ ~SemanticRequired(candidate'[c])
         \/ ~HasCapability(candidate'[c].submitter, candidate'[c].namespace_id, "read")
         \/ job'[c].projection = "indexed"
  PROVE  PublishedRightly(c)
BY Zenon DEF PublishedRightly

\* A submission publishes only what no definition it can see makes wait.
LEMMA SubmissionPublishes ==
  ASSUME CInv, NEW p \in Profiles, NEW ns \in Namespaces, NEW type \in Types,
         NEW identity \in Identities, NEW payload \in CreatePayloads, NEW w \in Windows,
         SubmitCandidate(p, ns, type, identity, payload, w), NEW c \in CandidateIds
  PROVE  PublishedRightly(c)
<1> DEFINE row(a, i) ==
             [submitter |-> p, namespace_id |-> ns, record_type |-> type,
              identity_key |-> identity, payload |-> MergePatch(Blank, payload),
              valid_from |-> w.valid_from, valid_to |-> w.valid_to,
              assessment |-> a.assessment, relation |-> a.relation,
              change_request_id |-> i]
           draft == row([assessment |-> "new", relation |-> Null], Null)
           assessed == IdentityAssessment(draft)
<1>1. PICK i \in Ids \cup {Null} :
        /\ Insert(row(assessed, i))
        /\ i # Null => assessed.assessment = "new" /\ ~MustWait(draft)
  BY DEF SubmitCandidate
<1>2. assessed.assessment = "new" => OfIdentity(draft) = {}
  BY IdentityAssessed
<1>3. /\ row(assessed, i).change_request_id = i
      /\ row(assessed, i).assessment = assessed.assessment
      /\ OfIdentity(row(assessed, i)) = OfIdentity(draft)
      /\ SemanticRequired(row(assessed, i)) <=> SemanticRequired(draft)
      /\ row(assessed, i).submitter = draft.submitter
      /\ row(assessed, i).namespace_id = draft.namespace_id
  BY DEF OfIdentity, SemanticRequired
<1> HIDE DEF row, draft, assessed
<1>4. candidate' = [candidate EXCEPT ![NewCandidate] = row(assessed, i)]
  BY <1>1 DEF Insert
<1>5. candidate'[c] \in {candidate[c], row(assessed, i)}
  BY <1>4 DEF CInv, IntakeTyped
<1>6. CASE candidate'[c] = candidate[c]
  BY <1>6, NothingPublished
<1>7. CASE candidate'[c] = row(assessed, i)
  <2> DEFINE new == candidate'[c]
  <2>1. CASE i = Null
    BY <1>3, <1>7, <2>1 DEF PublishedRightly
  <2>2. CASE i # Null
    <3>1. /\ new.assessment = "new" /\ OfIdentity(new) = {}
      BY <1>1, <1>2, <1>3, <1>7, <2>2
    <3>2. ~(SemanticRequired(new) /\ HasCapability(new.submitter, new.namespace_id, "read"))
      BY <1>1, <1>3, <1>7, <2>2 DEF MustWait
    <3> QED
      BY <3>1, <3>2, PublishesRightly
  <2> QED
    BY <2>1, <2>2
<1> QED
  BY <1>5, <1>6, <1>7

\* An answer publishes what it has just assessed as new.
LEMMA AnswerPublishes ==
  ASSUME CInv, NEW k \in call, CompleteJob(k), NEW d \in CandidateIds
  PROVE  PublishedRightly(d)
<1> DEFINE c == k.candidate
<1>1. CASE ~Updates(k)
  BY <1>1, NothingPublished DEF CompleteJob
<1>2. CASE Updates(k)
  <2>1. Settle(k, "completed", "indexed")
    BY <1>2 DEF CompleteJob
  <2>2. c \in CandidateIds /\ Exists(c) /\ job'[c].projection = "indexed"
    BY <1>2, <2>1, SettledJob
  <2>3. PICK found \in SemanticAssessments(candidate[c]) :
          LET row == [candidate[c] EXCEPT !.assessment = found.assessment,
                                          !.relation = found.relation]
          IN \/ /\ ReadyToPublish(row)
                /\ \E i \in Ids : candidate' = [candidate EXCEPT ![c] =
                                     [row EXCEPT !.change_request_id = i]]
             \/ candidate' = [candidate EXCEPT ![c] = row]
    BY <1>2 DEF CompleteJob
  <2>4. Found(found) /\ candidate[c] \in CandidateRow
        /\ (found.assessment = "new" => ~\E r \in OfIdentity(candidate[c]) : Current(r))
    BY <2>2, SemanticFound, CandidatesExist
  <2> DEFINE row == [candidate[c] EXCEPT !.assessment = found.assessment,
                                         !.relation = found.relation]
  <2>5. /\ row \in CandidateRow /\ row.assessment = found.assessment
        /\ row.change_request_id = candidate[c].change_request_id
        /\ row.namespace_id = candidate[c].namespace_id
        /\ row.record_type = candidate[c].record_type
        /\ row.identity_key = candidate[c].identity_key
    BY <2>4 DEF Found, CandidateRow
  <2> HIDE DEF row, c
  <2>6. candidate \in [CandidateIds -> CandidateRow \cup {NoCandidate, Erased}]
    BY DEF CInv, IntakeTyped
  <2>7. CASE d # c
    <3>1. candidate'[d] = candidate[d]
      BY <2>2, <2>3, <2>6, <2>7 DEF row
    <3> QED
      BY <3>1, NothingPublished
  <2>8. CASE d = c /\ candidate' = [candidate EXCEPT ![c] = row]
    <3>1. candidate'[d].change_request_id = candidate[d].change_request_id
      BY <2>2, <2>5, <2>6, <2>8
    <3> QED
      BY <2>2, <2>8, <3>1 DEF PublishedRightly
  <2>9. ASSUME d = c, ReadyToPublish(row), NEW i \in Ids,
               candidate' = [candidate EXCEPT ![c] = [row EXCEPT !.change_request_id = i]]
        PROVE  PublishedRightly(d)
    <3> DEFINE linked == [row EXCEPT !.change_request_id = i]
    <3>1. /\ linked.assessment = row.assessment /\ linked.namespace_id = row.namespace_id
          /\ linked.record_type = row.record_type /\ linked.identity_key = row.identity_key
      BY <2>5 DEF CandidateRow
    <3>2. candidate'[c] = linked
      BY <2>2, <2>6, <2>9
    <3> HIDE DEF linked
    <3>3. OfIdentity(linked) = OfIdentity(candidate[c])
      BY <2>5, <3>1 DEF OfIdentity
    <3>4. linked.assessment = "new" /\ found.assessment = "new"
      BY <2>5, <2>9, <3>1 DEF ReadyToPublish
    <3>5. ~\E r \in OfIdentity(linked) : Current(r)
      BY <2>4, <3>3, <3>4
    <3>6. job'[d].projection = "indexed"
      BY <2>2, <2>9
    <3>7. candidate'[d] = linked
      BY <2>9, <3>2
    <3> QED
      BY <3>4, <3>5, <3>6, <3>7, PublishesRightly
  <2> QED
    BY <2>3, <2>7, <2>8, <2>9 DEF row
<1> QED
  BY <1>1, <1>2

----------------------------------------------------------------------------
(* Theorems *)

LEMMA CandidatesInitInv == CandidatesInit => CInv
<1> SUFFICES ASSUME CandidatesInit PROVE CInv
  OBVIOUS
<1>1. definitions \subseteq Namespaces \X Keys
  BY CandidateConstants DEF CandidatesInit, Keys
<1>2. TypeInv
  BY <1>1, ConstantsTyped
     DEF CandidatesInit, TypeInv, TypeOK, MutationsHaveTargets, NoRequest, NoRecord,
         NoPurge, Time
<1>3. LifeInv
  BY <1>2 DEF CandidatesInit, LifeInv, IdsAreIssued, PendingUnborn, NoRequest
<1>4. IntakeTyped
  BY CandidateConstants DEF CandidatesInit, IntakeTyped
<1>5. ConsolidatedOnce
  BY DEF CandidatesInit, ConsolidatedOnce, NoRequest
<1>6. \A c \in CandidateIds : Related(c) /\ Assigned(c) /\ Anchored(c)
  BY DEF CandidatesInit, Related, Assigned, Anchored, Exists
<1> QED
  BY <1>3, <1>4, <1>5, <1>6 DEF CInv

\* Every step keeps the invariant and publishes only what is new.
LEMMA CandidatesStep ==
  ASSUME CInv, CandidatesNext
  PROVE  CInv' /\ \A c \in CandidateIds : PublishedRightly(c)
<1> DEFINE Rightly == \A c \in CandidateIds : PublishedRightly(c)
<1>1. (\A c \in CandidateIds : candidate'[c] \in {candidate[c], Erased}) => Rightly
  BY NothingPublished
<1> HIDE DEF Rightly
<1>2. ASSUME NEW p \in Profiles, NEW ns \in Namespaces, NEW type \in Types,
             NEW identity \in Identities, NEW payload \in CreatePayloads, NEW w \in Windows,
             SubmitCandidate(p, ns, type, identity, payload, w)
      PROVE  CInv' /\ Rightly
  BY <1>2, SubmitCandidateInv, SubmissionPublishes DEF Rightly
<1>3. ASSUME NEW p \in Profiles, NEW c \in CandidateIds, ConsolidateCandidate(p, c)
      PROVE  CInv' /\ Rightly
  <2>1. candidate' = candidate
    BY <1>3 DEF ConsolidateCandidate, intake
  <2> QED
    BY <1>1, <1>3, <2>1, ConsolidateCandidateInv
<1>4. ASSUME NEW p \in Profiles, Work(p) PROVE CInv' /\ Rightly
  <2>1. CASE ClaimJobs(p)
    <3>1. candidate' = candidate
      BY <2>1 DEF ClaimJobs
    <3> QED
      BY <1>1, <2>1, <3>1, ClaimJobsInv
  <2>2. ASSUME NEW k \in call, NEW outcome \in {"complete", "fail"}, CheckClaim(k, outcome)
        PROVE  CInv' /\ Rightly
    <3>1. candidate' = candidate
      BY <2>2 DEF CheckClaim
    <3> QED
      BY <1>1, <2>2, <3>1, CheckClaimInv
  <2>3. ASSUME NEW k \in call, FailJob(k) PROVE CInv' /\ Rightly
    <3>1. candidate' = candidate
      BY <2>3 DEF FailJob
    <3> QED
      BY <1>1, <2>3, <3>1, FailJobInv
  <2>4. ASSUME NEW k \in call, CompleteJob(k) PROVE CInv' /\ Rightly
    BY <2>4, CompleteJobInv, AnswerPublishes DEF Rightly
  <2> QED
    BY <1>4, <2>1, <2>2, <2>3, <2>4 DEF Work
<1>5. ASSUME NEW p \in Profiles, WorkerLost(p) PROVE CInv' /\ Rightly
  <2>1. candidate' = candidate
    BY <1>5 DEF WorkerLost
  <2> QED
    BY <1>1, <1>5, <2>1, WorkerLostInv
<1>6. ASSUME NEW p \in Profiles, Elsewhere(p) PROVE CInv' /\ Rightly
  <2>1. ASSUME NEW i \in PurgeIds, ApprovePurge(p, i) PROVE CInv' /\ Rightly
    <3>1. \A c \in CandidateIds : candidate'[c] \in {candidate[c], Erased}
      BY <2>1 DEF ApprovePurge
    <3> QED
      BY <1>1, <2>1, <3>1, ApprovePurgeInv
  <2>2. CASE UNCHANGED intake /\ ~\E i \in PurgeIds : ApprovePurge(p, i)
    <3>1. candidate' = candidate
      BY <2>2 DEF intake
    <3>2. CInv'
      BY <1>6, <2>2, ElsewhereInv DEF Elsewhere
    <3> QED
      BY <1>1, <3>1, <3>2
  <2> QED
    BY <1>6, <2>1, <2>2 DEF Elsewhere
<1>7. ASSUME NEW c \in CandidateIds, LeaseEnds(c) PROVE CInv' /\ Rightly
  <2>1. candidate' = candidate
    BY <1>7 DEF LeaseEnds
  <2> QED
    BY <1>1, <1>7, <2>1, LeaseEndsInv
<1>8. ASSUME RequeueFailed PROVE CInv' /\ Rightly
  <2>1. candidate' = candidate
    BY <1>8 DEF RequeueFailed
  <2> QED
    BY <1>1, <1>8, <2>1, RequeueFailedInv
<1>9. ASSUME Tick, UNCHANGED intake PROVE CInv' /\ Rightly
  <2>1. candidate' = candidate
    BY <1>9 DEF intake
  <2>2. LifeInv'
    BY <1>9, StepKeepsLife DEF CInv, Next
  <2>3. UNCHANGED <<request, record>>
    BY <1>9 DEF Tick, canon
  <2>4. Keeps /\ AddsCreates
    BY <2>3 DEF Keeps, AddsCreates, Was
  <2> QED
    BY <1>1, <1>9, <2>1, <2>2, <2>4, IntakeStays
<1> QED
  BY <1>2, <1>3, <1>4, <1>5, <1>6, <1>7, <1>8, <1>9 DEF CandidatesNext, Rightly

LEMMA CandidatesNextInv == CInv /\ [CandidatesNext]_allVars => CInv'
<1> SUFFICES ASSUME CInv, UNCHANGED allVars PROVE CInv'
  BY CandidatesStep
<1>1. UNCHANGED vars /\ UNCHANGED intake
  BY DEF allVars
<1>2. LifeInv'
  BY <1>1, StepKeepsLife DEF CInv
<1>3. UNCHANGED <<request, record>>
  BY <1>1 DEF vars
<1>4. Keeps /\ AddsCreates
  BY <1>3 DEF Keeps, AddsCreates, Was
<1> QED
  BY <1>1, <1>2, <1>4, IntakeStays

\* The inductive invariant of the intake holds however submissions, workers,
\* consolidations and purges interleave.
THEOREM IntakeConsistent == CandidatesSpec => []CInv
BY CandidatesInitInv, CandidatesNextInv, PTL DEF CandidatesSpec

\* approve_hard_purge takes the candidates of a record along: none is left that
\* points to a record or a request that is gone, or to somebody else's.
THEOREM PurgesTakeTheirTraces == CandidatesSpec => []CandidatesIntact
<1>1. CInv => CandidatesIntact
  BY DEF CInv, IntakeTyped, LifeInv, TypeInv, CandidatesIntact, CandidatesTypeOK,
         Related, Assigned, Anchored
<1> QED
  BY <1>1, IntakeConsistent, PTL

\* consolidate_candidate makes one update of a candidate, of a record of the
\* candidate's own identity.
THEOREM OneUpdateEach == CandidatesSpec => []ConsolidatedOnce
<1>1. CInv => ConsolidatedOnce
  BY DEF CInv
<1> QED
  BY <1>1, IntakeConsistent, PTL

\* A candidate becomes a request only while it is new, and after the semantic
\* assessment its type asks for and its submitter can see.
THEOREM OnlyNewPublished == CandidatesSpec => PublishedAsNew
<1> DEFINE Rightly == \A c \in CandidateIds : PublishedRightly(c)
<1>1. CInv /\ [CandidatesNext]_allVars => [Rightly]_allVars
  BY CandidatesStep
<1>2. CandidatesSpec => [][Rightly]_allVars
  <2> HIDE DEF Rightly
  <2> QED
    BY <1>1, IntakeConsistent, PTL DEF CandidatesSpec
<1> QED
  BY <1>2 DEF PublishedAsNew, PublishedRightly


=============================================================================
