------------------------ MODULE InMemoryStore_proofs ------------------------
(***************************************************************************)
(* Theorems about InMemoryStore for all profiles, identities, words and    *)
(* windows, every policy and any number of requests, records, candidates   *)
(* and purges.                                                             *)
(***************************************************************************)
EXTENDS InMemoryStore, FiniteSetTheorems, FunctionTheorems, WellFoundedInduction,
        TLAPS

USE DEF Slugs, Operations, Capabilities, Requests, Records, Candidates, Purges,
        access

----------------------------------------------------------------------------
(* The inductive invariant *)

\* A revision that was once current is at most the present one, and less than
\* that of a tombstone.
Reached(row, n) ==
  /\ row # NoRow
  /\ row # Erased =>
       n <= row.revision /\ (row.status = "tombstoned" => n < row.revision)

\* What a request says about itself, its record and its candidate: otherwise a
\* tombstone could be written again, or a candidate be consolidated twice.
Filing(q, row, recs, cands) ==
  /\ row.key.type = "item" => row.key.identity \in Identities
  /\ row.key.type = "definition" => row.key.operation = "create"
  /\ row.key.operation = "create" => row.key.record = None /\ row.key.candidate = None
  /\ row.key.operation = "create" /\ row.status # "approved" => row.record = None
  /\ row.key.operation # "create" =>
       /\ row.record \in Records /\ row.record = row.key.record
       /\ row.key.window = Always /\ row.key.expected \in Nat \ {0}
       /\ Reached(recs[row.record], row.key.expected)
  /\ row.record # None => recs[row.record] # NoRow
  /\ row.key.candidate # None =>
       /\ cands[row.key.candidate] # NoRow
       /\ cands[row.key.candidate].consolidation = q

Filings ==
  \A q \in Requests : request[q] # NoRow => Filing(q, request[q], record, candidate)

\* The approved requests of record r, by what they did to it.
Creates(r) == {q \in Approved(r) : request[q].key.operation = "create"}
Changes(r) == Approved(r) \ Creates(r)
Writes(r) == {q \in Changes(r) : request[q].key.operation = "update"}

\* Whose content the record has.
Latest(r) ==
  IF Writes(r) = {} THEN Creates(r)
  ELSE {q \in Writes(r) : \A w \in Writes(r) :
          request[w].key.expected <= request[q].key.expected}

\* One create, one change at each earlier revision, and the content of the
\* latest write.
Chained(r) ==
  /\ \E q \in Creates(r) : \A o \in Creates(r) : o = q
  /\ \A q \in Changes(r) : request[q].key.expected \in 1..(record[r].revision - 1)
  /\ \A n \in 1..(record[r].revision - 1) :
       \E q \in Changes(r) : request[q].key.expected = n
  /\ \A q, o \in Changes(r) : request[q].key.expected = request[o].key.expected => q = o
  /\ \A q \in Latest(r) : /\ record[r].payload = request[q].key.payload
                          /\ record[r].search = request[q].key.search

There(r) == record[r] \notin {NoRow, Erased}

Chains == \A r \in Records : There(r) => Chained(r)

\* Who decided is known.
Decisions ==
  \A q \in Requests : request[q].status = "approved" => request[q].decided_by \in Profiles

\* A record that may still expire ends with the window its create asked for.
WindowsKept ==
  \A r \in Records : There(r) => \A q \in Creates(r) :
    request[q].key.window.to # None =>
      /\ record[r].status = "active" /\ record[r].to # None =>
           record[r].to = request[q].key.window.to
      /\ record[r].status = "expired" => request[q].key.window.to <= clock

\* What is to be purged was there once.
PurgesNameRecords ==
  \A u \in Purges : purge[u] # NoRow => record[purge[u].record] # NoRow

IInv ==
  /\ TypeOK /\ Filings /\ RetriesAreIdempotent /\ Chains
  /\ ApprovalsAuthorised /\ Decisions /\ WindowsKept /\ PurgedByTwo /\ PurgesNameRecords

----------------------------------------------------------------------------
(* Rows *)

\* The constants that the proofs rest on.
LEMMA Constants ==
  /\ None \notin Nat /\ None \notin Profiles /\ Shared \notin Profiles
  /\ Policy \in [Operations -> {"require", "auto", "deny"}]
  /\ TTL \in Nat \ {0} /\ MaxTime \in Nat
  /\ MaxRequests \in Nat /\ MaxRecords \in Nat /\ MaxCandidates \in Nat
  /\ MaxPurges \in Nat
  /\ Inventories \subseteq Slugs /\ Named \subseteq Slugs
  /\ Grantable \subseteq Slugs \X Profiles \X Capabilities
  /\ Windows \subseteq Window /\ Retentions \subseteq (Nat \ {0}) \cup {None}
  /\ CreatePatches \subseteq Patches /\ UpdatePatches \subseteq Patches
  /\ UpdateModes \subseteq {"patch", "replace"}
BY StoreConstants DEF Window

\* A row is told apart from the absence of one by its status.
LEMMA RowsExist ==
  ASSUME TypeOK
  PROVE  /\ \A q \in Requests :
              /\ request[q] # NoRow => request[q] \in RequestRow
              /\ request[q].status # "none" => request[q] \in RequestRow
         /\ \A r \in Records :
              /\ There(r) => record[r] \in RecordRow
              /\ record[r].status \in {"active", "expired", "tombstoned"} => There(r)
         /\ \A c \in Candidates : candidate[c] # NoRow => candidate[c] \in CandidateRow
         /\ \A u \in Purges :
              /\ purge[u] # NoRow => purge[u] \in PurgeRow
              /\ purge[u].status # "none" => purge[u] \in PurgeRow
BY DEF TypeOK, NoRow, Erased, There, RequestRow, RecordRow, CandidateRow, PurgeRow

\* A row of a table is no row that marks its absence.
LEMMA RowsAreRows ==
  /\ \A row \in RequestRow : row # NoRow /\ row.status # "none"
  /\ \A row \in RecordRow : row # NoRow /\ row # Erased
  /\ \A row \in CandidateRow : row # NoRow
  /\ \A row \in PurgeRow : row # NoRow
  /\ NoRow # Erased /\ NoRow.status = "none" /\ Erased.status = "purged"
<1>1. \A row \in CandidateRow : row # NoRow
  <2> SUFFICES ASSUME NEW row \in CandidateRow, row = NoRow PROVE FALSE
    OBVIOUS
  <2>1. DOMAIN row = {"status"}
    BY DEF NoRow
  <2>2. "by" \in DOMAIN row
    BY DEF CandidateRow
  <2> QED
    BY <2>1, <2>2
<1> QED
  BY <1>1 DEF RequestRow, RecordRow, PurgeRow, Decided, NoRow, Erased

\* What callers name is turned into payloads and texts of the right kind.
LEMMA PayloadsAreTyped ==
  ASSUME NEW patch \in Patches, NEW current \in Payloads, NEW defined \in BOOLEAN
  PROVE  /\ Given(patch) \in Payloads
         /\ MergePatch(current, patch) \in Payloads
         /\ Stored(current, patch, defined) \in Payloads
         /\ Valid(current, defined) =>
              SearchText(current, patch, defined) \in SearchTexts
         /\ AsPatch(current) \in Patches
BY DEF Patches, Payloads, SearchTexts, Given, MergePatch, Stored, Valid, SearchText,
       AsPatch

----------------------------------------------------------------------------
(* Filing and deciding *)

\* The pending request that a command decides: one of the table, or a new one
\* under a key of its own.
Opens(q, old) ==
  /\ q \in Requests /\ old \in RequestRow /\ old.status = "pending"
  /\ Filing(q, old, record, candidate')
  /\ \/ request[q] = old
     \/ /\ request[q] = NoRow
        /\ \A o \in Requests : request[o] # NoRow => request[o].key # old.key

\* What became of it, and of its record.
Unapplied(old, new) ==
  new.status # "approved" /\ new.record = old.record /\ record' = record
DefinitionApplied(old, new) ==
  /\ new.status = "approved" /\ old.key.type = "definition"
  /\ new.record = old.record /\ record' = record
CreateApplied(old, new) ==
  /\ new.status = "approved" /\ old.key.type = "item" /\ old.key.operation = "create"
  /\ new.record \in Records /\ record[new.record] = NoRow
  /\ record' = [record EXCEPT ![new.record] = Published(old.key)]
Mutation(row, key) ==
  IF key.operation = "update" THEN Updated(row, key) ELSE Tombstone(row)
MutationApplied(old, new) ==
  /\ new.status = "approved" /\ old.key.operation # "create"
  /\ new.record = old.record /\ There(new.record)
  /\ record[new.record].revision = old.key.expected
  /\ record' = [record EXCEPT ![new.record] = Mutation(record[new.record], old.key)]

Outcome(q, old, new, p) ==
  /\ request' = [request EXCEPT ![q] = new]
  /\ new \in RequestRow /\ new.key = old.key
  /\ new.status = "approved" => new.decided_by = p
  /\ \/ Unapplied(old, new) \/ DefinitionApplied(old, new)
     \/ CreateApplied(old, new) \/ MutationApplied(old, new)

\* Settling a pending request has one of these outcomes.
LEMMA SettleOutcome ==
  ASSUME TypeOK, NEW p \in Profiles, NEW q, NEW old, Opens(q, old), NEW rows,
         rows = [request EXCEPT ![q] = old], NEW decision, Settle(rows, q, p, decision)
  PROVE  /\ \E new : Outcome(q, old, new, p)
         /\ definition' \subseteq Slugs
<1>1. /\ rows[q] = old /\ q \in Requests /\ old \in RequestRow
      /\ DOMAIN request = Requests /\ DOMAIN rows = Requests
      /\ old.key \in Keys /\ old.status = "pending"
      /\ definition \subseteq Slugs
  BY DEF Opens, TypeOK, RequestRow
<1> DEFINE key == old.key
           Put(new) == request' = [request EXCEPT ![q] = new]
           row(status) == [old EXCEPT !.status = status, !.decided_by = p]
<1>2. \A status \in Decided :
        /\ row(status) \in RequestRow /\ row(status).key = key
        /\ row(status).record = old.record /\ row(status).decided_by = p
        /\ row(status).status = status
        /\ \A r \in Records : [row(status) EXCEPT !.record = r] \in RequestRow
  BY <1>1 DEF RequestRow
<1>3. \A status : Close(rows, q, status, p) => Put(row(status))
  BY <1>1 DEF Close
<1>4. CASE Overdue(rows[q])
  <2> DEFINE new == [old EXCEPT !.status = "expired"]
  <2>1. Put(new) /\ record' = record /\ definition' = definition
    BY <1>1, <1>4 DEF Settle
  <2>2. new \in RequestRow /\ new.key = key /\ new.record = old.record
        /\ new.status = "expired"
    BY <1>1 DEF RequestRow, Decided
  <2> QED
    BY <1>1, <2>1, <2>2 DEF Outcome, Unapplied
<1>5. CASE ~Overdue(rows[q]) /\ decision = "reject"
  <2>1. Put(row("rejected")) /\ record' = record /\ definition' = definition
    BY <1>3, <1>5 DEF Settle
  <2> QED
    BY <1>1, <1>2, <2>1 DEF Outcome, Unapplied, Decided
<1>6. CASE ~Overdue(rows[q]) /\ decision # "reject"
  <2>1. Apply(rows, q, p)
    BY <1>6 DEF Settle
  <2>2. CASE key.type = "definition" /\ ApplyDefinition(rows, q, p, key)
    <3>1. /\ definition' \subseteq Slugs /\ record' = record
          /\ Put(row("superseded")) \/ Put(row("approved"))
      BY <1>1, <1>3, <2>2 DEF ApplyDefinition, Keys
    <3> QED
      BY <1>2, <2>2, <3>1 DEF Outcome, Unapplied, DefinitionApplied, Decided
  <2>3. CASE /\ key.type = "item" /\ key.operation = "create"
             /\ ApplyCreate(rows, q, p, key)
    <3>1. CASE IdentityAvailable(key.namespace, key.identity)
      <4>1. PICK i \in Records :
              /\ Fresh(record, i)
              /\ record' = [record EXCEPT ![i] = Published(key)]
              /\ Put([row("approved") EXCEPT !.record = i])
        BY <1>1, <2>3, <3>1 DEF ApplyCreate
      <4> DEFINE new == [row("approved") EXCEPT !.record = i]
      <4>2. /\ new \in RequestRow /\ new.key = key /\ new.record = i
            /\ new.status = "approved" /\ new.decided_by = p
        BY <1>1, <1>2 DEF Decided, RequestRow
      <4>3. CreateApplied(old, new)
        BY <2>3, <4>1, <4>2 DEF CreateApplied, Fresh
      <4> QED
        BY <1>1, <2>3, <4>1, <4>2, <4>3 DEF Outcome, ApplyCreate
    <3>2. CASE ~IdentityAvailable(key.namespace, key.identity)
      BY <1>1, <1>2, <1>3, <2>3, <3>2 DEF ApplyCreate, Outcome, Unapplied, Decided
    <3> QED
      BY <3>1, <3>2
  <2>4. CASE key.operation # "create" /\ ApplyMutation(rows, q, p, key)
    <3>1. /\ key.record \in Records /\ old.record = key.record
          /\ key.expected \in Nat \ {0}
      BY <2>4 DEF Opens, Filing
    <3>2. There(key.record) /\ definition' = definition
      BY <2>4 DEF ApplyMutation, There
    <3>3. CASE Stale(record[key.record], key)
      BY <1>1, <1>2, <1>3, <2>4, <3>2, <3>3
         DEF ApplyMutation, Outcome, Unapplied, Decided
    <3>4. CASE ~Stale(record[key.record], key)
      <4>1. record[key.record].revision = key.expected
        BY <3>1, <3>4, Constants DEF Stale
      <4>2. /\ Put(row("approved"))
            /\ record' = [record EXCEPT ![key.record] = Mutation(record[key.record], key)]
        BY <1>3, <2>4, <3>4 DEF ApplyMutation, Mutation
      <4>3. MutationApplied(old, row("approved"))
        BY <1>2, <2>4, <3>1, <3>2, <4>1, <4>2 DEF MutationApplied, Decided
      <4> QED
        BY <1>1, <1>2, <3>2, <4>2, <4>3 DEF Outcome, Decided
    <3> QED
      BY <3>3, <3>4
  <2> QED
    BY <1>1, <2>1, <2>2, <2>3, <2>4 DEF Apply
<1> QED
  BY <1>4, <1>5, <1>6

\* Owners stay, grants stay, and candidates stay consolidated as they are.
AccessGrows ==
  /\ owner' \in [Slugs -> Profiles \cup {None}]
  /\ \A s \in Slugs : owner[s] # None => owner'[s] = owner[s]
  /\ grants \subseteq grants' /\ grants' \subseteq Slugs \X Profiles \X Capabilities
CandidatesKept ==
  /\ candidate' \in [Candidates -> CandidateRow \cup {NoRow}]
  /\ \A c \in Candidates : candidate[c] # NoRow =>
       /\ candidate'[c] # NoRow
       /\ candidate[c].consolidation # None =>
            candidate'[c].consolidation = candidate[c].consolidation

\* Who may see a request approved.
MayApprove(p, row) ==
  \/ HasCapability(p, row.key.namespace, "approve")
  \/ Policy[row.key.operation] = "auto" /\ row.key.by = p

\* A command that files or decides one request, or leaves requests alone.
Handles(p, q, old, new) ==
  /\ Opens(q, old) /\ Outcome(q, old, new, p)
  /\ new.status = "approved" => MayApprove(p, old)
Answered(p) ==
  /\ \/ \E q, old, new : Handles(p, q, old, new)
     \/ UNCHANGED <<request, record>>
  /\ definition' \subseteq Slugs

\* The profile's private namespace is created, nobody's is taken.
LEMMA ContextGrows ==
  ASSUME TypeOK, NEW p \in Profiles, Context(p), UNCHANGED grants
  PROVE  AccessGrows
BY DEF TypeOK, Context, AccessGrows

\* A candidate that is untouched or new leaves the others consolidated.
LEMMA CandidatesStay ==
  ASSUME TypeOK,
         \/ UNCHANGED candidate
         \/ \E c \in Candidates, row \in CandidateRow :
              /\ candidate[c] = NoRow \/ candidate[c].consolidation = None
              /\ candidate' = [candidate EXCEPT ![c] = row]
  PROVE  CandidatesKept
BY RowsAreRows DEF TypeOK, CandidatesKept

\* A request that was well filed still is when candidates change.
LEMMA FilingStays ==
  ASSUME CandidatesKept, NEW q, NEW row \in RequestRow,
         Filing(q, row, record, candidate), q # None
  PROVE  Filing(q, row, record, candidate')
<1>1. row.key.candidate \in Candidates \cup {None}
  BY DEF RequestRow, Keys
<1> QED
  BY <1>1 DEF Filing, CandidatesKept

\* Under an auto policy a pending request is decided by its author.
LEMMA AutoAnswers ==
  ASSUME TypeOK, NEW p \in Profiles, NEW q, NEW old, Opens(q, old), NEW rows,
         rows = [request EXCEPT ![q] = old], ApproveIfAuto(rows, q, p),
         old.key.by = p
  PROVE  Answered(p)
<1>1. rows[q] = old /\ old.status = "pending" /\ definition \subseteq Slugs
  BY DEF Opens, TypeOK
<1>2. CASE Policy[old.key.operation] = "auto"
  <2>1. Settle(rows, q, p, "approve")
    BY <1>1, <1>2 DEF ApproveIfAuto
  <2>2. /\ \E new : Outcome(q, old, new, p)
        /\ definition' \subseteq Slugs
    BY <2>1, SettleOutcome
  <2> QED
    BY <1>2, <2>2 DEF Answered, Handles, MayApprove
<1>3. CASE Policy[old.key.operation] # "auto"
  <2>1. request' = [request EXCEPT ![q] = old] /\ UNCHANGED <<record, definition>>
    BY <1>1, <1>3 DEF ApproveIfAuto
  <2>2. Outcome(q, old, old, p)
    BY <1>1, <2>1 DEF Outcome, Unapplied, Opens
  <2> QED
    BY <1>1, <2>1, <2>2 DEF Answered, Handles
<1> QED
  BY <1>2, <1>3

\* A new request is a row, pending, and well filed if its key is.
LEMMA FiledIsRow ==
  ASSUME TypeOK, NEW key \in Keys, NEW patch \in Patches, NEW q \in Requests
  PROVE  /\ Filed(q, key, patch) = [request EXCEPT ![q] = Filed(q, key, patch)[q]]
         /\ Filed(q, key, patch)[q] \in RequestRow
         /\ Filed(q, key, patch)[q].status = "pending"
         /\ Filed(q, key, patch)[q].key = key
         /\ Filed(q, key, patch)[q].record = key.record
<1>1. clock + TTL \in Nat
  BY Constants DEF TypeOK, Time
<1>2. key.record \in Records \cup {None}
  BY DEF Keys
<1> QED
  BY <1>1, <1>2 DEF Filed, TypeOK, RequestRow

\* What a key says is well filed, whatever its number.
Fileable(key) ==
  /\ key \in Keys
  /\ \A q, row : row.key = key /\ row.record = key.record /\ row.status = "pending" =>
       Filing(q, row, record, candidate')

\* A submission files a request or finds the one it led to before.
LEMMA SubmitAnswers ==
  ASSUME IInv, NEW p \in Profiles, NEW key, Fileable(key), key.by = p,
         NEW patch \in Patches, Submit(p, key, patch), CandidatesKept
  PROVE  Answered(p)
<1> USE DEF IInv
<1>1. CASE \E q \in Known(key) : ApproveIfAuto(request, q, p)
  <2>1. PICK q \in Known(key) : ApproveIfAuto(request, q, p)
    BY <1>1
  <2>2. /\ q \in Requests /\ request[q] # NoRow /\ request[q] \in RequestRow
        /\ request[q].key = key
    BY <2>1, RowsExist DEF Known
  <2>3. CASE request[q].status = "pending"
    <3>1. Filing(q, request[q], record, candidate')
      BY <2>2, FilingStays, Constants DEF Filings
    <3>2. Opens(q, request[q])
      BY <2>2, <2>3, <3>1 DEF Opens
    <3>3. request = [request EXCEPT ![q] = request[q]]
      BY <2>2 DEF TypeOK
    <3> QED
      BY <2>1, <2>2, <3>2, <3>3, AutoAnswers
  <2>4. CASE request[q].status # "pending"
    BY <2>1, <2>4 DEF ApproveIfAuto, Answered, TypeOK
  <2> QED
    BY <2>3, <2>4
<1>2. CASE /\ Known(key) = {}
           /\ \E q \in Requests : /\ Fresh(request, q)
                                 /\ ApproveIfAuto(Filed(q, key, patch), q, p)
  <2>1. PICK q \in Requests : /\ Fresh(request, q)
                             /\ ApproveIfAuto(Filed(q, key, patch), q, p)
    BY <1>2
  <2> DEFINE old == Filed(q, key, patch)[q]
  <2>2. /\ Filed(q, key, patch) = [request EXCEPT ![q] = old]
        /\ old \in RequestRow /\ old.status = "pending" /\ old.key = key
        /\ old.record = key.record
    BY FiledIsRow DEF Fileable
  <2> HIDE DEF old
  <2>3. Opens(q, old)
    BY <1>2, <2>1, <2>2 DEF Opens, Fresh, Known, Fileable
  <2> QED
    BY <2>1, <2>2, <2>3, AutoAnswers
<1> QED
  BY <1>1, <1>2 DEF Submit

\* What a command that files or decides leaves behind.
Command(p) ==
  Answered(p) /\ AccessGrows /\ CandidatesKept /\ UNCHANGED <<purge, retention, clock>>

\* The key of a create, of a record or of a definition, is well filed.
LEMMA CreatesAreFileable ==
  ASSUME NEW key \in Keys, key.operation = "create", key.record = None,
         key.candidate = None, key.type = "item" => key.identity \in Identities
  PROVE  Fileable(key)
BY DEF Fileable, Filing

\* Proposing a record is a command.
LEMMA ProposeCreateCommands ==
  ASSUME IInv, NEW p \in Profiles, NEW s \in Named, NEW i \in Identities,
         NEW patch \in CreatePatches, ProposeCreate(p, s, i, patch)
  PROVE  Command(p)
<1> DEFINE defined == s \in definition
           payload == Stored(Given(patch), patch, defined)
           key == [by |-> p, operation |-> "create", type |-> "item",
                   namespace |-> s, identity |-> i, record |-> None,
                   payload |-> payload, search |-> SearchText(payload, patch, defined),
                   expected |-> None, mode |-> "patch", window |-> Always,
                   candidate |-> None]
<1>1. /\ Context(p) /\ Valid(payload, defined) /\ Submit(p, key, patch)
      /\ UNCHANGED <<grants, candidate, purge, retention, clock>>
  BY DEF ProposeCreate
<1>2. patch \in Patches /\ s \in Slugs
  BY Constants
<1>3. defined \in BOOLEAN
  OBVIOUS
<1> HIDE DEF defined
<1>4. payload \in Payloads /\ SearchText(payload, patch, defined) \in SearchTexts
  <2>1. Given(patch) \in Payloads
    BY <1>2 DEF Given, Patches, Payloads
  <2>2. payload \in Payloads
    BY <1>2, <1>3, <2>1, PayloadsAreTyped
  <2> QED
    BY <1>1, <1>2, <1>3, <2>2, PayloadsAreTyped
<1> HIDE DEF payload
<1>5. key \in Keys
  BY <1>2, <1>4 DEF Keys, Always, Window
<1>6. key.operation = "create" /\ key.record = None /\ key.candidate = None
      /\ key.identity = i /\ key.by = p
  OBVIOUS
<1> HIDE DEF key
<1>7. Fileable(key)
  BY <1>5, <1>6, CreatesAreFileable
<1>8. AccessGrows /\ CandidatesKept
  BY <1>1, ContextGrows, CandidatesStay DEF IInv
<1> QED
  BY <1>1, <1>2, <1>6, <1>7, <1>8, SubmitAnswers DEF Command

\* Proposing an inventory definition is a command.
LEMMA ProposeInventoryCommands ==
  ASSUME IInv, NEW p \in Profiles, NEW s \in Inventories, ProposeInventory(p, s)
  PROVE  Command(p)
<1> DEFINE nothing == [field |-> Absent, text |-> Absent]
           key == [by |-> p, operation |-> "create", type |-> "definition",
                   namespace |-> s, identity |-> None, record |-> None,
                   payload |-> nothing, search |-> ByIdentity, expected |-> None,
                   mode |-> "patch", window |-> Always, candidate |-> None]
           patch == [field |-> Keep, text |-> Keep]
<1>1. /\ Context(p) /\ Submit(p, key, patch)
      /\ UNCHANGED <<grants, candidate, purge, retention, clock>>
  BY DEF ProposeInventory
<1>2. patch \in Patches /\ s \in Slugs /\ nothing \in Payloads /\ ByIdentity \in SearchTexts
  BY Constants DEF Patches, Payloads, SearchTexts
<1>3. key \in Keys
  BY <1>2 DEF Keys, Always, Window
<1>4. key.operation = "create" /\ key.record = None /\ key.candidate = None
      /\ key.type = "definition" /\ key.by = p
  OBVIOUS
<1> HIDE DEF key, patch
<1>5. Fileable(key)
  BY <1>3, <1>4, CreatesAreFileable
<1>6. AccessGrows /\ CandidatesKept
  BY <1>1, ContextGrows, CandidatesStay DEF IInv
<1> QED
  BY <1>1, <1>2, <1>4, <1>5, <1>6, SubmitAnswers DEF Command

\* Proposing an update or a delete is a command: the revision it names was reached.
LEMMA ProposeMutationCommands ==
  ASSUME IInv, NEW p \in Profiles, NEW operation \in {"update", "delete"},
         NEW r \in Records, NEW patch \in Patches, NEW mode \in {"patch", "replace"},
         NEW expected \in Nat, ProposeMutation(p, operation, r, patch, mode, expected)
  PROVE  Command(p)
<1> DEFINE row == record[r]
           defined == row.namespace \in definition
           merged == IF mode = "replace" THEN Given(patch)
                     ELSE MergePatch(row.payload, patch)
           payload == Stored(merged, patch, defined)
           key == [by |-> p, operation |-> operation, type |-> "item",
                   namespace |-> row.namespace, identity |-> row.identity,
                   record |-> r, payload |-> payload,
                   search |-> SearchText(merged, patch, defined),
                   expected |-> expected, mode |-> mode,
                   window |-> Always, candidate |-> None]
<1>1. /\ row.status = "active" /\ expected \in 1..row.revision
      /\ Context(p) /\ Valid(merged, defined) /\ Submit(p, key, patch)
      /\ UNCHANGED <<grants, candidate, purge, retention, clock>>
  BY DEF ProposeMutation
<1>2. There(r) /\ row \in RecordRow
  BY <1>1, RowsExist DEF IInv
<1>3. /\ merged \in Payloads /\ payload \in Payloads
      /\ SearchText(merged, patch, defined) \in SearchTexts
  <2>1. merged \in Payloads
    BY <1>2, PayloadsAreTyped DEF RecordRow
  <2> HIDE DEF merged, defined
  <2>2. defined \in BOOLEAN
    BY DEF defined
  <2> QED
    BY <1>1, <2>1, <2>2, PayloadsAreTyped
<1> HIDE DEF merged, payload, defined
<1>4. key \in Keys
  BY <1>2, <1>3 DEF Keys, Always, Window, RecordRow
<1>5. /\ key.operation # "create" /\ key.record = r /\ key.candidate = None
      /\ key.type = "item" /\ key.by = p /\ key.window = Always
      /\ key.expected = expected /\ key.identity = row.identity
  OBVIOUS
<1>6. Reached(row, expected) /\ expected \in Nat \ {0} /\ row # NoRow
      /\ row.identity \in Identities
  BY <1>1, <1>2, RowsAreRows DEF Reached, RecordRow
<1> HIDE DEF key, row
<1>7. Fileable(key)
  BY <1>4, <1>5, <1>6, Constants DEF Fileable, Filing, row
<1>8. AccessGrows /\ CandidatesKept
  BY <1>1, ContextGrows, CandidatesStay DEF IInv
<1> QED
  BY <1>1, <1>5, <1>7, <1>8, SubmitAnswers DEF Command

\* Deciding a pending request is a command.
LEMMA DecideCommands ==
  ASSUME IInv, NEW p \in Profiles, NEW q \in Requests, NEW decision,
         Decide(p, q, decision)
  PROVE  Command(p)
<1> DEFINE old == request[q]
<1>1. /\ old.status = "pending" /\ Context(p) /\ MayApprove(p, old)
      /\ Settle(request, q, p, decision)
      /\ UNCHANGED <<grants, candidate, purge, retention, clock>>
  BY DEF Decide, Decidable, MayDecide, MayApprove
<1>2. old \in RequestRow /\ old # NoRow
  BY <1>1, RowsExist, RowsAreRows DEF IInv
<1>3. AccessGrows /\ CandidatesKept
  BY <1>1, ContextGrows, CandidatesStay DEF IInv
<1>4. Opens(q, old)
  BY <1>1, <1>2 DEF Opens, IInv, Filings
<1>5. request = [request EXCEPT ![q] = old]
  BY DEF IInv, TypeOK
<1>6. /\ \E new : Outcome(q, old, new, p)
      /\ definition' \subseteq Slugs
  BY <1>1, <1>4, <1>5, SettleOutcome DEF IInv
<1>7. Answered(p)
  BY <1>1, <1>4, <1>6 DEF Answered, Handles
<1> QED
  BY <1>1, <1>3, <1>7 DEF Command

\* Some record has the least id: a candidate is assessed against that one.
LEMMA SmallestExists ==
  ASSUME NEW S \in SUBSET Nat, S # {}
  PROVE  \E n \in S : \A m \in S : n <= m
<1> DEFINE R == OpToRel(<, Nat)
<1>1. \E n \in S : \A m \in S : <<m, n>> \notin R
  <2>1. IsWellFoundedOn(R, Nat)
    BY NatLessThanWellFounded
  <2> HIDE DEF R
  <2> QED
    BY <2>1, WFMin
<1>2. \A m, n \in Nat : m < n => <<m, n>> \in R
  BY DEF OpToRel
<1> HIDE DEF R
<1>3. PICK n \in S : \A m \in S : <<m, n>> \notin R
  BY <1>1
<1>4. \A m \in S : m \in Nat /\ n \in Nat /\ ~(m < n)
  BY <1>2, <1>3
<1>5. \A m \in S : n <= m
  BY <1>4
<1> QED
  BY <1>3, <1>5

\* Submitting a candidate is a command: it files a create, or leaves requests alone.
LEMMA SubmitCandidateCommands ==
  ASSUME IInv, NEW p \in Profiles, NEW s \in Named, NEW i \in Identities,
         NEW patch \in CreatePatches, NEW window \in Windows,
         SubmitCandidate(p, s, i, patch, window)
  PROVE  Command(p)
<1> DEFINE defined == s \in definition
           payload == Stored(Given(patch), patch, defined)
           key == [by |-> p, operation |-> "create", type |-> "item",
                   namespace |-> s, identity |-> i, record |-> None,
                   payload |-> payload, search |-> SearchText(payload, patch, defined),
                   expected |-> None, mode |-> "patch", window |-> window,
                   candidate |-> None]
<1>1. /\ Context(p) /\ Valid(payload, defined) /\ Assess(p, key, patch)
      /\ UNCHANGED <<grants, purge, retention, clock>>
  BY DEF SubmitCandidate
<1>2. patch \in Patches /\ s \in Slugs /\ window \in Window
  BY Constants
<1>3. defined \in BOOLEAN
  OBVIOUS
<1> HIDE DEF defined
<1>4. payload \in Payloads /\ SearchText(payload, patch, defined) \in SearchTexts
  <2>1. Given(patch) \in Payloads
    BY <1>2 DEF Given, Patches, Payloads
  <2>2. payload \in Payloads
    BY <1>2, <1>3, <2>1, PayloadsAreTyped
  <2> QED
    BY <1>1, <1>2, <1>3, <2>2, PayloadsAreTyped
<1> HIDE DEF payload
<1>5. key \in Keys
  BY <1>2, <1>4 DEF Keys
<1>6. /\ key.operation = "create" /\ key.record = None /\ key.candidate = None
      /\ key.identity = i /\ key.by = p
  OBVIOUS
<1> HIDE DEF key
<1>7. Fileable(key)
  BY <1>5, <1>6, CreatesAreFileable
<1> DEFINE matched == Matching(key.namespace, key.identity)
           r == CHOOSE r \in matched : \A other \in matched : r <= other
           same == /\ record[r].payload = key.payload
                   /\ record[r].search = key.search
           Row(assessment, relation) ==
             [by |-> p, namespace |-> key.namespace, identity |-> key.identity,
              payload |-> key.payload, search |-> key.search,
              assessment |-> assessment, relation |-> relation,
              consolidation |-> None]
<1>8. PICK c \in Candidates :
        /\ Fresh(candidate, c)
        /\ IF matched = {}
           THEN /\ candidate' = [candidate EXCEPT ![c] = Row("new", None)]
                /\ Submit(p, key, patch)
           ELSE /\ candidate' = [candidate EXCEPT ![c] =
                     Row(IF same THEN "duplicate" ELSE "conflict", r)]
                /\ UNCHANGED <<request, record, definition>>
  BY <1>1 DEF Assess
<1>9. \A a \in {"new", "duplicate", "conflict"}, relation \in Records \cup {None} :
        Row(a, relation) \in CandidateRow
  BY <1>5, <1>6 DEF Keys, CandidateRow
<1>10. candidate[c] = NoRow /\ matched \subseteq Records
  BY <1>8 DEF Fresh, Matching
<1>11. matched # {} => r \in Records
  <2> HAVE matched # {}
  <2>1. matched \in SUBSET Nat
    BY <1>10, Constants
  <2>2. \E n \in matched : \A m \in matched : n <= m
    BY <2>1, SmallestExists
  <2> QED
    BY <1>10, <2>2
<1> HIDE DEF matched, r, same, Row
<1>12. AccessGrows /\ CandidatesKept
  <2>1. \E row \in CandidateRow : candidate' = [candidate EXCEPT ![c] = row]
    BY <1>8, <1>9, <1>11
  <2> QED
    BY <1>1, <1>10, <2>1, ContextGrows, CandidatesStay DEF IInv
<1>13. Answered(p)
  <2>1. CASE matched = {}
    BY <1>2, <1>6, <1>7, <1>8, <1>12, <2>1, SubmitAnswers
  <2>2. CASE matched # {}
    BY <1>8, <2>2 DEF Answered, IInv, TypeOK
  <2> QED
    BY <2>1, <2>2
<1> QED
  BY <1>1, <1>12, <1>13 DEF Command

\* Consolidating a candidate is a command: its key is new, for no request names the
\* candidate while it is not consolidated.
LEMMA ConsolidateCommands ==
  ASSUME IInv, NEW p \in Profiles, NEW c \in Candidates, ConsolidateCandidate(p, c)
  PROVE  Command(p)
<1> DEFINE row == candidate[c]
           r == row.relation
           patch == AsPatch(row.payload)
           key == [by |-> p, operation |-> "update", type |-> "item",
                   namespace |-> row.namespace, identity |-> row.identity,
                   record |-> r, payload |-> MergePatch(record[r].payload, patch),
                   search |-> row.search, expected |-> record[r].revision,
                   mode |-> "patch", window |-> Always, candidate |-> c]
<1>1. /\ row # NoRow /\ r # None /\ row.consolidation = None
      /\ record[r].status = "active"
      /\ UNCHANGED <<owner, grants, purge, retention, clock>>
  BY DEF ConsolidateCandidate, Consolidated
<1>2. PICK q \in Requests :
        /\ Fresh(request, q)
        /\ candidate' = [candidate EXCEPT ![c].consolidation = q]
        /\ ApproveIfAuto(Filed(q, key, patch), q, p)
  BY DEF ConsolidateCandidate
<1>3. row \in CandidateRow /\ r \in Records
  BY <1>1, RowsExist DEF IInv, CandidateRow
<1>4. record[r] \in RecordRow /\ There(r)
  BY <1>1, <1>3, RowsExist DEF IInv
<1>5. patch \in Patches
  BY <1>3 DEF AsPatch, CandidateRow, Payloads, Patches
<1>6. key \in Keys
  <2>1. MergePatch(record[r].payload, patch) \in Payloads
    BY <1>4, <1>5, PayloadsAreTyped DEF RecordRow
  <2> HIDE DEF patch
  <2> QED
    BY <1>3, <1>4, <2>1 DEF Keys, Always, Window, CandidateRow, RecordRow
<1>7. /\ key.operation = "update" /\ key.record = r /\ key.candidate = c
      /\ key.type = "item" /\ key.by = p /\ key.window = Always
      /\ key.expected = record[r].revision /\ key.identity = row.identity
  OBVIOUS
<1>8. row.identity \in Identities
  BY <1>3 DEF CandidateRow
<1> HIDE DEF key, patch
<1> DEFINE old == Filed(q, key, patch)[q]
<1>9. /\ Filed(q, key, patch) = [request EXCEPT ![q] = old]
      /\ old \in RequestRow /\ old.status = "pending" /\ old.key = key
      /\ old.record = r
  BY <1>5, <1>6, <1>7, FiledIsRow DEF IInv
<1> HIDE DEF old
<1>10. candidate'[c] # NoRow /\ candidate'[c].consolidation = q
       /\ [row EXCEPT !.consolidation = q] \in CandidateRow
       /\ candidate' = [candidate EXCEPT ![c] = [row EXCEPT !.consolidation = q]]
  BY <1>2, <1>3, RowsAreRows DEF IInv, TypeOK, CandidateRow
<1>11. Filing(q, old, record, candidate')
  <2>1. Reached(record[r], record[r].revision) /\ record[r] # NoRow
        /\ record[r].revision \in Nat \ {0}
    BY <1>1, <1>4, RowsAreRows DEF Reached, RecordRow
  <2> QED
    BY <1>3, <1>7, <1>8, <1>9, <1>10, <2>1 DEF Filing
<1>12. \A o \in Requests : request[o] # NoRow => request[o].key # key
  <2> SUFFICES ASSUME NEW o \in Requests, request[o] # NoRow, request[o].key = key
               PROVE  FALSE
    OBVIOUS
  <2>1. candidate[c].consolidation = o
    BY <1>7, Constants DEF IInv, Filings, Filing
  <2> QED
    BY <1>1, <2>1, Constants
<1>13. Opens(q, old)
  BY <1>2, <1>9, <1>11, <1>12 DEF Opens, Fresh
<1>14. Answered(p)
  BY <1>2, <1>7, <1>9, <1>13, AutoAnswers DEF IInv
<1>15. AccessGrows /\ CandidatesKept
  BY <1>1, <1>10, CandidatesStay DEF IInv, TypeOK, AccessGrows
<1> QED
  BY <1>1, <1>14, <1>15 DEF Command

----------------------------------------------------------------------------
(* Kinds of steps *)

\* What every step leaves behind.
World ==
  /\ definition' \subseteq Slugs /\ retention' \in [Slugs -> Nat \cup {None}]
  /\ clock' \in Time /\ clock <= clock'
  /\ AccessGrows /\ CandidatesKept

\* What a step does to requests, records and purges.
Handled ==
  /\ UNCHANGED <<purge, clock>>
  /\ \E p \in Profiles : \E q, old, new : Handles(p, q, old, new)
Elsewhere == UNCHANGED <<request, record, purge>>
RequestsExpire ==
  /\ UNCHANGED <<record, purge>>
  /\ request' \in [Requests -> RequestRow \cup {NoRow}]
  /\ \A q \in Requests :
       \/ request'[q] = request[q]
       \/ /\ request[q].status = "pending"
          /\ request'[q] = [request[q] EXCEPT !.status = "expired"]
RecordsExpire ==
  /\ UNCHANGED <<request, purge, clock>>
  /\ record' \in [Records -> RecordRow \cup {NoRow, Erased}]
  /\ \A r \in Records :
       \/ record'[r] = record[r]
       \/ Due(r) /\ record'[r] = [record[r] EXCEPT !.status = "expired"]
PurgeFiled ==
  /\ UNCHANGED <<request, record>>
  /\ \E u \in Purges, r \in Records, p \in Profiles :
       /\ purge[u] = NoRow /\ record[r] # NoRow
       /\ purge' = [purge EXCEPT ![u] = [status |-> "pending", record |-> r,
                                         by |-> p, approved_by |-> None]]
PurgeApproved ==
  /\ UNCHANGED request
  /\ \E u \in Purges, p \in Profiles :
       /\ purge[u].status = "pending" /\ purge[u].by # p
       /\ record' = [record EXCEPT ![purge[u].record] = Erased]
       /\ purge' = [purge EXCEPT ![u].status = "purged", ![u].approved_by = p]

\* Listing the queue expires pending requests only.
LEMMA PendingExpires ==
  ASSUME TypeOK, NEW p \in Profiles, Pending(p)
  PROVE  RequestsExpire
<1>1. \A q \in Requests :
        \/ request'[q] = request[q]
        \/ /\ request[q].status = "pending"
           /\ request'[q] = [request[q] EXCEPT !.status = "expired"]
  BY DEF Pending
<1>2. \A q \in Requests : request'[q] \in RequestRow \cup {NoRow}
  <2> SUFFICES ASSUME NEW q \in Requests PROVE request'[q] \in RequestRow \cup {NoRow}
    OBVIOUS
  <2>1. CASE request'[q] = request[q]
    BY <2>1 DEF TypeOK
  <2>2. CASE /\ request[q].status = "pending"
             /\ request'[q] = [request[q] EXCEPT !.status = "expired"]
    <3>1. request[q] \in RequestRow
      BY <2>2, RowsExist
    <3> QED
      BY <2>2, <3>1 DEF RequestRow, Decided
  <2> QED
    BY <1>1, <2>1, <2>2
<1>3. DOMAIN request' = Requests /\ request' = [q \in Requests |-> request'[q]]
  BY DEF Pending
<1> QED
  BY <1>1, <1>2, <1>3 DEF RequestsExpire, Pending

\* Running expiry touches due records only.
LEMMA ExpiryExpires ==
  ASSUME TypeOK, NEW p \in Profiles, NEW limit, ExpireRecords(p, limit)
  PROVE  RecordsExpire
<1>1. \A r \in Records :
        \/ record'[r] = record[r]
        \/ Due(r) /\ record'[r] = [record[r] EXCEPT !.status = "expired"]
  BY DEF ExpireRecords
<1>2. \A r \in Records : record'[r] \in RecordRow \cup {NoRow, Erased}
  <2> SUFFICES ASSUME NEW r \in Records PROVE record'[r] \in RecordRow \cup {NoRow, Erased}
    OBVIOUS
  <2>1. CASE record'[r] = record[r]
    BY <2>1 DEF TypeOK
  <2>2. CASE Due(r) /\ record'[r] = [record[r] EXCEPT !.status = "expired"]
    <3>1. record[r] \in RecordRow
      BY <2>2, RowsExist DEF Due
    <3> QED
      BY <2>2, <3>1 DEF RecordRow
  <2> QED
    BY <1>1, <2>1, <2>2
<1>3. DOMAIN record' = Records /\ record' = [r \in Records |-> record'[r]]
  BY DEF ExpireRecords
<1> QED
  BY <1>1, <1>2, <1>3 DEF RecordsExpire, ExpireRecords

\* Every step is of one of the kinds.
LEMMA StepKinds ==
  ASSUME IInv, Next
  PROVE  /\ World
         /\ \/ Handled \/ Elsewhere \/ RequestsExpire \/ RecordsExpire
            \/ PurgeFiled \/ PurgeApproved
<1>0. TypeOK
  BY DEF IInv
<1>1. ASSUME NEW p \in Profiles, Command(p) PROVE World /\ (Handled \/ Elsewhere)
  <2>1. World
    BY <1>0, <1>1, Constants DEF Command, World, Answered, TypeOK, Time
  <2>2. Handled \/ Elsewhere
    BY <1>1 DEF Command, Handled, Elsewhere, Answered
  <2> QED
    BY <2>1, <2>2
<1>2. ASSUME UNCHANGED <<definition, candidate, retention, clock>> PROVE AccessGrows => World
  BY <1>0, <1>2, CandidatesStay DEF World, TypeOK, Time
<1>3. CASE Tick
  <2>1. clock' \in Time /\ clock <= clock'
    BY <1>0, <1>3, Constants DEF Tick, TypeOK, Time
  <2>2. AccessGrows /\ CandidatesKept
    BY <1>0, <1>3, CandidatesStay DEF Tick, AccessGrows, TypeOK
  <2> QED
    BY <1>0, <1>3, <2>1, <2>2 DEF Tick, World, Elsewhere, TypeOK
<1> SUFFICES ASSUME NEW p \in Profiles,
      \/ CreateNamespace(p)
      \/ Pending(p)
      \/ \E limit \in 1..MaxRecords : ExpireRecords(p, limit)
      \/ \E g \in Grantable : GrantCapability(p, g[1], g[2], g[3])
      \/ \E s \in Named, seconds \in Retentions : SetRetention(p, s, seconds)
      \/ \E s \in Inventories : ProposeInventory(p, s)
      \/ \E s \in Named, i \in Identities, patch \in CreatePatches :
           \/ ProposeCreate(p, s, i, patch)
           \/ \E window \in Windows : SubmitCandidate(p, s, i, patch, window)
      \/ \E q \in Requests, decision \in {"approve", "reject"} :
           Decide(p, q, decision)
      \/ \E r \in Records, expected \in 1..MaxRequests :
           \/ ProposeMutation(p, "delete", r, [field |-> Keep, text |-> Keep],
                              "patch", expected)
           \/ \E patch \in UpdatePatches, mode \in UpdateModes :
                ProposeMutation(p, "update", r, patch, mode, expected)
      \/ \E c \in Candidates : ConsolidateCandidate(p, c)
      \/ \E r \in Records : RequestHardPurge(p, r)
      \/ \E u \in Purges : ApproveHardPurge(p, u)
    PROVE World /\ (Handled \/ Elsewhere \/ RequestsExpire \/ RecordsExpire
                    \/ PurgeFiled \/ PurgeApproved)
  BY <1>3 DEF Next
<1>4. CASE CreateNamespace(p)
  <2>1. AccessGrows
    BY <1>0, <1>4 DEF CreateNamespace, AccessGrows, TypeOK
  <2> QED
    BY <1>2, <1>4, <2>1 DEF CreateNamespace, Elsewhere
<1>5. CASE Pending(p)
  BY <1>0, <1>2, <1>5, ContextGrows, PendingExpires DEF Pending
<1>6. CASE \E limit \in 1..MaxRecords : ExpireRecords(p, limit)
  BY <1>0, <1>2, <1>6, ContextGrows, ExpiryExpires DEF ExpireRecords
<1>7. CASE \E g \in Grantable : GrantCapability(p, g[1], g[2], g[3])
  <2>1. PICK g \in Grantable : GrantCapability(p, g[1], g[2], g[3])
    BY <1>7
  <2>2. <<g[1], g[2], g[3]>> \in Slugs \X Profiles \X Capabilities
    BY Constants
  <2>3. AccessGrows
    BY <1>0, <2>1, <2>2 DEF GrantCapability, Context, AccessGrows, TypeOK
  <2> QED
    BY <1>2, <2>1, <2>3 DEF GrantCapability, Elsewhere
<1>8. CASE \E s \in Named, seconds \in Retentions : SetRetention(p, s, seconds)
  <2>1. PICK s \in Named, seconds \in Retentions : SetRetention(p, s, seconds)
    BY <1>8
  <2>2. retention' \in [Slugs -> Nat \cup {None}]
    BY <1>0, <2>1, Constants DEF SetRetention, TypeOK
  <2>3. AccessGrows /\ CandidatesKept
    BY <1>0, <2>1, ContextGrows, CandidatesStay DEF SetRetention
  <2> QED
    BY <1>0, <2>1, <2>2, <2>3 DEF SetRetention, World, Elsewhere, TypeOK, Time
<1>9. CASE \E s \in Inventories : ProposeInventory(p, s)
  BY <1>1, <1>9, ProposeInventoryCommands
<1>10. CASE \E s \in Named, i \in Identities, patch \in CreatePatches :
              \/ ProposeCreate(p, s, i, patch)
              \/ \E window \in Windows : SubmitCandidate(p, s, i, patch, window)
  BY <1>1, <1>10, ProposeCreateCommands, SubmitCandidateCommands
<1>11. CASE \E q \in Requests, decision \in {"approve", "reject"} : Decide(p, q, decision)
  BY <1>1, <1>11, DecideCommands
<1>12. CASE \E r \in Records, expected \in 1..MaxRequests :
              \/ ProposeMutation(p, "delete", r, [field |-> Keep, text |-> Keep],
                                 "patch", expected)
              \/ \E patch \in UpdatePatches, mode \in UpdateModes :
                   ProposeMutation(p, "update", r, patch, mode, expected)
  <2>1. [field |-> Keep, text |-> Keep] \in Patches
    BY DEF Patches
  <2>2. PICK r \in Records, expected \in 1..MaxRequests :
          \E operation \in {"update", "delete"}, patch \in Patches, mode \in {"patch", "replace"} :
            ProposeMutation(p, operation, r, patch, mode, expected)
    BY <1>12, <2>1, Constants
  <2>3. expected \in Nat
    BY Constants
  <2> QED
    BY <1>1, <2>2, <2>3, ProposeMutationCommands
<1>13. CASE \E c \in Candidates : ConsolidateCandidate(p, c)
  BY <1>1, <1>13, ConsolidateCommands
<1>14. CASE \E r \in Records : RequestHardPurge(p, r)
  <2>1. PICK r \in Records : RequestHardPurge(p, r)
    BY <1>14
  <2>2. PurgeFiled
    BY <2>1 DEF RequestHardPurge, PurgeFiled, Fresh
  <2> QED
    BY <1>0, <1>2, <2>1, <2>2, ContextGrows DEF RequestHardPurge
<1>15. CASE \E u \in Purges : ApproveHardPurge(p, u)
  BY <1>0, <1>2, <1>15, ContextGrows DEF ApproveHardPurge, Independent, PurgeApproved
<1> QED
  BY <1>4, <1>5, <1>6, <1>7, <1>8, <1>9, <1>10, <1>11, <1>12, <1>13, <1>14, <1>15


----------------------------------------------------------------------------
(* What a handled request did *)

\* The rows a handled request is compared with, and where it goes.
LEMMA HandledRows ==
  ASSUME IInv, NEW p \in Profiles, NEW q, NEW old, NEW new, Handles(p, q, old, new)
  PROVE  /\ q \in Requests /\ old \in RequestRow /\ new \in RequestRow
         /\ new.key = old.key /\ new.key \in Keys
         /\ old.status = "pending" /\ request[q].status # "approved"
         /\ request'[q] = new /\ \A o \in Requests \ {q} : request'[o] = request[o]
         /\ request' \in [Requests -> RequestRow \cup {NoRow}]
         /\ Filing(q, old, record, candidate')
<1>1. /\ q \in Requests /\ old \in RequestRow /\ old.status = "pending"
      /\ request[q] = old \/ request[q] = NoRow
      /\ new \in RequestRow /\ new.key = old.key
      /\ request' = [request EXCEPT ![q] = new]
      /\ Filing(q, old, record, candidate')
  BY DEF Handles, Opens, Outcome
<1>2. request \in [Requests -> RequestRow \cup {NoRow}]
  BY DEF IInv, TypeOK
<1>3. request[q].status # "approved"
  BY <1>1, RowsAreRows
<1>4. new.key \in Keys
  BY <1>1 DEF RequestRow
<1> QED
  BY <1>1, <1>2, <1>3, <1>4

\* The record an approved create publishes is a row at revision 1.
LEMMA PublishedIsRow ==
  ASSUME TypeOK, NEW key \in Keys, key.identity \in Identities
  PROVE  /\ Published(key) \in RecordRow
         /\ Published(key).revision = 1 /\ Published(key).status = "active"
         /\ Published(key).payload = key.payload /\ Published(key).search = key.search
         /\ key.window.to # None => Published(key).to = key.window.to
<1>1. /\ key.window.from \in Nat \cup {None} /\ key.window.to \in Nat \cup {None}
      /\ retention[key.namespace] \in Nat \cup {None} /\ clock \in Nat
      /\ key.namespace \in Slugs /\ key.payload \in Payloads /\ key.search \in SearchTexts
  BY Constants DEF Keys, Window, TypeOK, Time
<1> DEFINE from == IF key.window.from = None THEN clock ELSE key.window.from
           to == IF key.window.to # None THEN key.window.to
                 ELSE IF retention[key.namespace] # None
                 THEN from + retention[key.namespace] ELSE None
<1>2. from \in Nat
  BY <1>1
<1>3. to \in Nat \cup {None}
  BY <1>1, <1>2
<1>4. Published(key) = [status |-> "active", namespace |-> key.namespace,
        identity |-> key.identity, revision |-> 1, payload |-> key.payload,
        search |-> key.search, from |-> from, to |-> to]
  BY DEF Published
<1>5. key.window.to # None => to = key.window.to
  OBVIOUS
<1> HIDE DEF from, to
<1> QED
  BY <1>1, <1>2, <1>3, <1>4, <1>5 DEF RecordRow

\* A mutation counts the revision, closes the window an update does not name,
\* and leaves the content of a tombstone alone.
LEMMA MutationIsRow ==
  ASSUME NEW row \in RecordRow, NEW key \in Keys, key.window = Always,
         key.operation \in {"update", "delete"}
  PROVE  /\ Mutation(row, key) \in RecordRow
         /\ Mutation(row, key).revision = row.revision + 1
         /\ key.operation = "update" =>
              /\ Mutation(row, key).status = "active" /\ Mutation(row, key).to = None
              /\ Mutation(row, key).payload = key.payload
              /\ Mutation(row, key).search = key.search
         /\ key.operation = "delete" =>
              /\ Mutation(row, key).status = "tombstoned"
              /\ Mutation(row, key).payload = row.payload
              /\ Mutation(row, key).search = row.search
<1>1. row.revision + 1 \in Nat \ {0}
  BY DEF RecordRow
<1>2. key.payload \in Payloads /\ key.search \in SearchTexts
  BY DEF Keys
<1>3. CASE key.operation = "update"
  <2> DEFINE from == IF key.window.from = None THEN row.from ELSE key.window.from
  <2>1. from \in Nat /\ key.window.to = None
    BY DEF RecordRow, Always
  <2>2. Mutation(row, key) =
          [row EXCEPT !.status = "active", !.revision = row.revision + 1,
                      !.payload = key.payload, !.search = key.search,
                      !.from = from, !.to = key.window.to]
    BY <1>3 DEF Mutation, Updated
  <2> HIDE DEF from
  <2> QED
    BY <1>1, <1>2, <1>3, <2>1, <2>2 DEF RecordRow
<1>4. CASE key.operation = "delete"
  BY <1>1, <1>4 DEF Mutation, Tombstone, RecordRow
<1> QED
  BY <1>3, <1>4

\* What an outcome does to records, one by one.
LEMMA HandledRecords ==
  ASSUME IInv, NEW p \in Profiles, NEW q, NEW old, NEW new, Handles(p, q, old, new)
  PROVE  \/ Unapplied(old, new) /\ new.record = old.record
         \/ DefinitionApplied(old, new) /\ new.record = None
         \/ /\ CreateApplied(old, new)
            /\ old.key.identity \in Identities /\ old.key.operation = "create"
            /\ record'[new.record] = Published(old.key)
            /\ \A r \in Records \ {new.record} : record'[r] = record[r]
         \/ /\ MutationApplied(old, new)
            /\ new.record \in Records /\ old.key.operation \in {"update", "delete"}
            /\ old.key.window = Always /\ record[new.record] \in RecordRow
            /\ record[new.record].status # "tombstoned"
            /\ old.key.expected = record[new.record].revision
            /\ record'[new.record] = Mutation(record[new.record], old.key)
            /\ \A r \in Records \ {new.record} : record'[r] = record[r]
<1>0. /\ Filing(q, old, record, candidate') /\ old.status = "pending"
      /\ old.key \in Keys /\ record \in [Records -> RecordRow \cup {NoRow, Erased}]
  BY HandledRows DEF IInv, TypeOK
<1>1. CASE Unapplied(old, new)
  BY <1>1 DEF Unapplied
<1>2. CASE DefinitionApplied(old, new)
  BY <1>0, <1>2 DEF DefinitionApplied, Filing
<1>3. CASE CreateApplied(old, new)
  BY <1>0, <1>3 DEF CreateApplied, Filing
<1>4. CASE MutationApplied(old, new)
  <2>1. /\ There(new.record) /\ new.record = old.record /\ old.key.operation # "create"
        /\ record[new.record].revision = old.key.expected
        /\ record' = [record EXCEPT ![new.record] = Mutation(record[new.record], old.key)]
    BY <1>4 DEF MutationApplied
  <2>2. /\ old.record \in Records /\ old.key.window = Always
        /\ Reached(record[old.record], old.key.expected)
    BY <1>0, <2>1 DEF Filing
  <2>3. record[new.record] \in RecordRow
    BY <1>0, <2>1, <2>2 DEF There
  <2>4. record[new.record].status # "tombstoned"
    BY <2>1, <2>2, <2>3 DEF Reached, There, RecordRow
  <2>5. old.key.operation \in {"update", "delete"}
    BY <1>0, <2>1 DEF Keys
  <2> QED
    BY <1>0, <1>4, <2>1, <2>2, <2>3, <2>4, <2>5
<1> QED
  BY <1>1, <1>2, <1>3, <1>4 DEF Handles, Outcome


----------------------------------------------------------------------------
(* What every kind of step keeps *)

\* Every row keeps its type.
LEMMA TypesKept ==
  ASSUME IInv, Next
  PROVE  TypeOK'
<1>0. TypeOK
  BY DEF IInv
<1>1. World
  BY StepKinds
<1>2. /\ request' \in [Requests -> RequestRow \cup {NoRow}]
      /\ record' \in [Records -> RecordRow \cup {NoRow, Erased}]
      /\ purge' \in [Purges -> PurgeRow \cup {NoRow}]
  <2>1. CASE Handled
    <3>1. PICK p \in Profiles : \E q, old, new : Handles(p, q, old, new)
      BY <2>1 DEF Handled
    <3>2. PICK q, old, new : Handles(p, q, old, new)
      BY <3>1
    <3>3. old.key \in Keys
      BY <3>2, HandledRows DEF RequestRow
    <3>4. record' \in [Records -> RecordRow \cup {NoRow, Erased}]
      <4>1. CASE record' = record
        BY <1>0, <4>1 DEF TypeOK
      <4>2. CASE CreateApplied(old, new) /\ old.key.identity \in Identities
        BY <1>0, <3>3, <4>2, PublishedIsRow DEF CreateApplied, TypeOK
      <4>3. CASE /\ MutationApplied(old, new) /\ new.record \in Records
                 /\ old.key.operation \in {"update", "delete"}
                 /\ old.key.window = Always /\ record[new.record] \in RecordRow
        BY <1>0, <3>3, <4>3, MutationIsRow DEF MutationApplied, TypeOK
      <4> QED
        BY <3>2, <4>1, <4>2, <4>3, HandledRecords DEF Unapplied, DefinitionApplied
    <3> QED
      BY <1>0, <2>1, <3>2, <3>4, HandledRows DEF Handled, TypeOK
  <2>2. CASE Elsewhere \/ RequestsExpire \/ RecordsExpire
    BY <1>0, <2>2 DEF Elsewhere, RequestsExpire, RecordsExpire, TypeOK
  <2>3. CASE PurgeFiled
    BY <1>0, <2>3 DEF PurgeFiled, TypeOK, PurgeRow
  <2>4. CASE PurgeApproved
    <3>1. PICK u \in Purges, p \in Profiles :
            /\ purge[u].status = "pending"
            /\ record' = [record EXCEPT ![purge[u].record] = Erased]
            /\ purge' = [purge EXCEPT ![u].status = "purged", ![u].approved_by = p]
      BY <2>4 DEF PurgeApproved
    <3>2. purge[u] \in PurgeRow
      BY <1>0, <3>1, RowsExist
    <3> QED
      BY <1>0, <2>4, <3>1, <3>2 DEF PurgeApproved, TypeOK, PurgeRow
  <2> QED
    BY <2>1, <2>2, <2>3, <2>4, StepKinds
<1> QED
  BY <1>1, <1>2 DEF World, AccessGrows, CandidatesKept, TypeOK

\* Nothing but a purge takes a record back, and revisions only grow.
LEMMA RecordsGrow ==
  ASSUME IInv, Next
  PROVE  \A r \in Records :
           /\ record[r] # NoRow => record'[r] # NoRow
           /\ \A n \in Nat : Reached(record[r], n) => Reached(record'[r], n)
<1> SUFFICES ASSUME NEW r \in Records, record'[r] # record[r], record[r] # NoRow
             PROVE  /\ record'[r] # NoRow
                    /\ \A n \in Nat : Reached(record[r], n) => Reached(record'[r], n)
  BY DEF Reached
<1>0. TypeOK /\ record \in [Records -> RecordRow \cup {NoRow, Erased}]
  BY DEF IInv, TypeOK
<1>1. CASE Handled
  <2>1. PICK p \in Profiles : \E q, old, new : Handles(p, q, old, new)
    BY <1>1 DEF Handled
  <2>2. PICK q, old, new : Handles(p, q, old, new)
    BY <2>1
  <2>3. /\ r = new.record /\ record[r] \in RecordRow
        /\ record[r].status # "tombstoned" /\ old.key.window = Always
        /\ old.key.operation \in {"update", "delete"} /\ old.key \in Keys
        /\ record'[r] = Mutation(record[r], old.key)
    BY <2>2, HandledRows, HandledRecords
       DEF Unapplied, DefinitionApplied, CreateApplied, RequestRow
  <2>4. /\ record'[r] \in RecordRow /\ record'[r].revision = record[r].revision + 1
    BY <2>3, MutationIsRow
  <2>5. record[r].revision \in Nat
    BY <2>3 DEF RecordRow
  <2> QED
    BY <2>3, <2>4, <2>5, RowsAreRows DEF Reached
<1>2. CASE RecordsExpire
  <2>1. Due(r) /\ record'[r] = [record[r] EXCEPT !.status = "expired"]
    BY <1>2 DEF RecordsExpire
  <2>2. record[r] \in RecordRow
    BY <1>0, <2>1, RowsExist DEF Due
  <2>3. record'[r] \in RecordRow /\ record'[r].revision = record[r].revision
        /\ record'[r].status = "expired"
    BY <2>1, <2>2 DEF RecordRow
  <2> QED
    BY <2>2, <2>3, RowsAreRows DEF Reached
<1>3. CASE PurgeApproved
  BY <1>0, <1>3, RowsAreRows DEF PurgeApproved, Reached
<1> QED
  BY <1>1, <1>2, <1>3, StepKinds DEF Elsewhere, RequestsExpire, PurgeFiled


\* A request keeps its key, and an approved one stays as it is.
LEMMA RequestsStay ==
  ASSUME IInv, Next, NEW q \in Requests
  PROVE  /\ request[q] # NoRow =>
              request'[q] # NoRow /\ request'[q].key = request[q].key
         /\ request[q].status = "approved" => request'[q] = request[q]
<1>0. request \in [Requests -> RequestRow \cup {NoRow}]
  BY DEF IInv, TypeOK
<1>1. CASE Handled
  <2>1. PICK p \in Profiles : \E o, old, new : Handles(p, o, old, new)
    BY <1>1 DEF Handled
  <2>2. PICK o, old, new : Handles(p, o, old, new)
    BY <2>1
  <2>3. request[o] = old \/ request[o] = NoRow
    BY <2>2 DEF Handles, Opens
  <2> QED
    BY <2>2, <2>3, HandledRows, RowsAreRows
<1>2. CASE RequestsExpire
  <2>1. CASE request'[q] = request[q]
    BY <2>1
  <2>2. CASE /\ request[q].status = "pending"
             /\ request'[q] = [request[q] EXCEPT !.status = "expired"]
    <3>1. request[q] \in RequestRow
      BY <1>0, <2>2, RowsAreRows
    <3>2. request'[q].key = request[q].key /\ request'[q].status = "expired"
      BY <2>2, <3>1 DEF RequestRow
    <3> QED
      BY <2>2, <3>2, RowsAreRows
  <2> QED
    BY <1>2, <2>1, <2>2 DEF RequestsExpire
<1> QED
  BY <1>1, <1>2, StepKinds DEF Elsewhere, RecordsExpire, PurgeFiled, PurgeApproved

\* What a request says of its record stays true.
LEMMA FilingGrows ==
  ASSUME IInv, Next, NEW q, NEW row \in RequestRow, Filing(q, row, record, candidate')
  PROVE  Filing(q, row, record', candidate')
<1>1. row.record \in Records \cup {None}
  BY DEF RequestRow
<1>2. \A r \in Records :
        /\ record[r] # NoRow => record'[r] # NoRow
        /\ \A n \in Nat : Reached(record[r], n) => Reached(record'[r], n)
  BY RecordsGrow
<1> QED
  BY <1>1, <1>2 DEF Filing

\* Every request stays well filed.
LEMMA FilingsKept ==
  ASSUME IInv, Next
  PROVE  Filings'
<1> SUFFICES ASSUME NEW q \in Requests, request'[q] # NoRow
             PROVE  Filing(q, request'[q], record', candidate')
  BY DEF Filings
<1>0. request \in [Requests -> RequestRow \cup {NoRow}] /\ CandidatesKept
  BY StepKinds DEF IInv, TypeOK, World
<1>1. ASSUME request'[q] = request[q] PROVE Filing(q, request'[q], record', candidate')
  <2>1. Filing(q, request[q], record, candidate')
    BY <1>0, <1>1, FilingStays, Constants DEF IInv, Filings
  <2> QED
    BY <1>0, <1>1, <2>1, FilingGrows
<1>2. CASE Handled
  <2>1. PICK p \in Profiles : \E o, old, new : Handles(p, o, old, new)
    BY <1>2 DEF Handled
  <2>2. PICK o, old, new : Handles(p, o, old, new)
    BY <2>1
  <2>3. CASE q = o
    <3>1. /\ request'[q] = new /\ new.key = old.key /\ new \in RequestRow
          /\ old.status = "pending" /\ Filing(q, old, record, candidate')
          /\ old \in RequestRow /\ new.key \in Keys
      BY <2>2, <2>3, HandledRows
    <3>2. Filing(q, old, record', candidate')
      BY <3>1, FilingGrows
    <3>3. CASE new.record = old.record
      <4>1. old.key.operation = "create" => new.record = None
        BY <3>1, <3>3 DEF Filing
      <4> QED
        BY <3>1, <3>2, <3>3, <4>1 DEF Filing
    <3>4. CASE /\ CreateApplied(old, new) /\ old.key.operation = "create"
               /\ record'[new.record] = Published(old.key)
               /\ old.key.identity \in Identities
      <4>1. record'[new.record] # NoRow
        BY <3>1, <3>4, PublishedIsRow, RowsAreRows DEF IInv
      <4>2. new.status = "approved"
        BY <3>4 DEF CreateApplied
      <4> QED
        BY <3>1, <3>2, <3>4, <4>1, <4>2 DEF Filing
    <3> QED
      BY <2>2, <3>1, <3>3, <3>4, HandledRecords
         DEF DefinitionApplied, MutationApplied
  <2>4. CASE q # o
    BY <1>1, <2>2, <2>4, HandledRows
  <2> QED
    BY <2>3, <2>4
<1>3. CASE RequestsExpire
  <2>1. CASE /\ request[q].status = "pending"
             /\ request'[q] = [request[q] EXCEPT !.status = "expired"]
    <3>1. request[q] \in RequestRow /\ request[q] # NoRow
      BY <1>0, <2>1, RowsAreRows
    <3>2. /\ request'[q] \in RequestRow /\ request'[q].key = request[q].key
          /\ request'[q].record = request[q].record /\ request'[q].status = "expired"
      BY <2>1, <3>1 DEF RequestRow, Decided
    <3>3. Filing(q, request[q], record, candidate')
      BY <1>0, <3>1, FilingStays, Constants DEF IInv, Filings
    <3>4. Filing(q, request'[q], record, candidate')
      BY <2>1, <3>2, <3>3 DEF Filing
    <3> QED
      BY <3>2, <3>4, FilingGrows
  <2> QED
    BY <1>1, <1>3, <2>1 DEF RequestsExpire
<1> QED
  BY <1>1, <1>2, <1>3, StepKinds DEF Elsewhere, RecordsExpire, PurgeFiled, PurgeApproved

\* No two requests ever have one key.
LEMMA RetriesKept ==
  ASSUME IInv, Next
  PROVE  RetriesAreIdempotent'
<1> SUFFICES ASSUME NEW q \in Requests, NEW o \in Requests, q # o,
                    request'[q] # NoRow, request'[o] # NoRow
             PROVE  request'[q].key # request'[o].key
  BY DEF RetriesAreIdempotent
<1>1. CASE request[q] # NoRow /\ request[o] # NoRow
  BY <1>1, RequestsStay DEF IInv, RetriesAreIdempotent
<1>2. CASE request[q] = NoRow \/ request[o] = NoRow
  <2>0. request \in [Requests -> RequestRow \cup {NoRow}]
    BY DEF IInv, TypeOK
  <2>1. Handled
    BY <1>2, RowsAreRows, StepKinds
       DEF Elsewhere, RequestsExpire, RecordsExpire, PurgeFiled, PurgeApproved
  <2>2. PICK p \in Profiles : \E n, old, new : Handles(p, n, old, new)
    BY <2>1 DEF Handled
  <2>3. PICK n, old, new : Handles(p, n, old, new)
    BY <2>2
  <2>4. request[n] = NoRow =>
          \A k \in Requests : request[k] # NoRow => request[k].key # old.key
    BY <2>3, RowsAreRows DEF Handles, Opens
  <2> QED
    BY <1>2, <2>3, <2>4, HandledRows
<1> QED
  BY <1>1, <1>2

\* What was decided stays decided by someone who may.
LEMMA AuthorityKept ==
  ASSUME IInv, Next
  PROVE  ApprovalsAuthorised' /\ Decisions'
<1> DEFINE Holds(p, s) == owner'[s] = p \/ <<s, p, "approve">> \in grants'
           Sound(row) == /\ row.decided_by \in Profiles
                         /\ \/ Holds(row.decided_by, row.key.namespace)
                            \/ /\ Policy[row.key.operation] = "auto"
                               /\ row.decided_by = row.key.by
<1>0. /\ \A p \in Profiles, s \in Slugs : HasCapability(p, s, "approve") => Holds(p, s)
      /\ request \in [Requests -> RequestRow \cup {NoRow}]
  BY StepKinds, Constants DEF IInv, TypeOK, World, AccessGrows, HasCapability
<1> SUFFICES ASSUME NEW q \in Requests, request'[q].status = "approved"
             PROVE  Sound(request'[q])
  BY DEF ApprovalsAuthorised, Decisions, HasCapability
<1> HIDE DEF Holds
<1>1. ASSUME request'[q] = request[q] PROVE Sound(request'[q])
  <2>1. request[q].key.namespace \in Slugs
    BY <1>0, <1>1, RowsAreRows DEF RequestRow, Keys
  <2>2. /\ request[q].decided_by \in Profiles
        /\ \/ HasCapability(request[q].decided_by, request[q].key.namespace, "approve")
           \/ /\ Policy[request[q].key.operation] = "auto"
              /\ request[q].decided_by = request[q].key.by
    BY <1>1 DEF IInv, ApprovalsAuthorised, Decisions
  <2> QED
    BY <1>0, <1>1, <2>1, <2>2
<1>2. CASE Handled
  <2>1. PICK p \in Profiles : \E o, old, new : Handles(p, o, old, new)
    BY <1>2 DEF Handled
  <2>2. PICK o, old, new : Handles(p, o, old, new)
    BY <2>1
  <2>3. CASE q = o
    <3>1. /\ request'[q] = new /\ new.key = old.key /\ new.key \in Keys
          /\ new.decided_by = p /\ MayApprove(p, old)
      BY <2>2, <2>3, HandledRows DEF Handles, Outcome
    <3>2. new.key.namespace \in Slugs
      BY <3>1 DEF Keys
    <3> QED
      BY <1>0, <3>1, <3>2 DEF MayApprove
  <2> QED
    BY <1>1, <2>2, <2>3, HandledRows
<1>3. CASE RequestsExpire
  <2>1. request'[q] = request[q]
    BY <1>0, <1>3, RowsAreRows DEF RequestsExpire, RequestRow
  <2> QED
    BY <1>1, <2>1
<1> QED
  BY <1>1, <1>2, <1>3, StepKinds DEF Elsewhere, RecordsExpire, PurgeFiled, PurgeApproved

\* Two people stay behind every purge, and behind every purge to come a record.
LEMMA PurgesKept ==
  ASSUME IInv, Next
  PROVE  PurgedByTwo' /\ PurgesNameRecords'
<1>0. /\ purge \in [Purges -> PurgeRow \cup {NoRow}]
      /\ record \in [Records -> RecordRow \cup {NoRow, Erased}]
  BY DEF IInv, TypeOK
<1>1. PurgesNameRecords'
  <2> SUFFICES ASSUME NEW u \in Purges, purge'[u] # NoRow
               PROVE  record'[purge'[u].record] # NoRow
    BY DEF PurgesNameRecords
  <2>1. ASSUME purge[u] # NoRow, purge'[u].record = purge[u].record
        PROVE  record'[purge'[u].record] # NoRow
    BY <1>0, <2>1, RecordsGrow DEF IInv, PurgesNameRecords, PurgeRow
  <2>2. CASE PurgeFiled
    <3>1. purge'[u] = purge[u] \/
          (record[purge'[u].record] # NoRow /\ purge'[u].record \in Records)
      BY <1>0, <2>2 DEF PurgeFiled
    <3> QED
      BY <2>1, <3>1, RecordsGrow
  <2>3. CASE PurgeApproved
    <3>1. PICK v \in Purges, p \in Profiles :
            /\ purge[v].status = "pending"
            /\ purge' = [purge EXCEPT ![v].status = "purged", ![v].approved_by = p]
      BY <2>3 DEF PurgeApproved
    <3>2. purge[v] \in PurgeRow
      BY <1>0, <3>1, RowsAreRows
    <3>3. purge'[v].record = purge[v].record /\ purge[v] # NoRow
      BY <1>0, <3>1, <3>2, RowsAreRows DEF PurgeRow
    <3> QED
      BY <1>0, <2>1, <3>1, <3>3
  <2> QED
    BY <2>1, <2>2, <2>3, StepKinds DEF Elsewhere, RequestsExpire, RecordsExpire, Handled
<1>2. PurgedByTwo'
  <2> SUFFICES ASSUME NEW r \in Records, record'[r] = Erased
               PROVE  \E u \in Purges :
                        /\ purge'[u].status = "purged" /\ purge'[u].record = r
                        /\ purge'[u].by # purge'[u].approved_by
    BY DEF PurgedByTwo
  <2>1. CASE PurgeApproved
    <3>1. PICK v \in Purges, p \in Profiles :
            /\ purge[v].status = "pending" /\ purge[v].by # p
            /\ record' = [record EXCEPT ![purge[v].record] = Erased]
            /\ purge' = [purge EXCEPT ![v].status = "purged", ![v].approved_by = p]
      BY <2>1 DEF PurgeApproved
    <3>2. purge[v] \in PurgeRow
      BY <1>0, <3>1, RowsAreRows
    <3>3. /\ purge'[v].record = purge[v].record /\ purge'[v].status = "purged"
          /\ purge'[v].by = purge[v].by /\ purge'[v].approved_by = p
          /\ \A u \in Purges \ {v} : purge'[u] = purge[u]
      BY <1>0, <3>1, <3>2 DEF PurgeRow
    <3>4. CASE r = purge[v].record
      BY <3>1, <3>3, <3>4
    <3>5. CASE r # purge[v].record
      <4>1. record[r] = Erased
        BY <1>0, <3>1, <3>5
      <4>2. PICK u \in Purges : /\ purge[u].status = "purged" /\ purge[u].record = r
                               /\ purge[u].by # purge[u].approved_by
        BY <4>1 DEF IInv, PurgedByTwo
      <4> QED
        BY <3>1, <3>3, <4>2
    <3> QED
      BY <3>4, <3>5
  <2>2. CASE ~PurgeApproved
    <3>1. record[r] = Erased
      <4>1. CASE Handled
        <5>1. PICK p \in Profiles : \E q, old, new : Handles(p, q, old, new)
          BY <4>1 DEF Handled
        <5>2. PICK q, old, new : Handles(p, q, old, new)
          BY <5>1
        <5>3. old.key \in Keys
          BY <5>2, HandledRows
        <5>4. CASE r = new.record /\ record'[r] = Published(old.key)
                   /\ old.key.identity \in Identities
          BY <5>3, <5>4, PublishedIsRow, RowsAreRows DEF IInv
        <5>5. CASE /\ r = new.record /\ record'[r] = Mutation(record[r], old.key)
                   /\ record[r] \in RecordRow /\ old.key.window = Always
                   /\ old.key.operation \in {"update", "delete"}
          BY <5>3, <5>5, MutationIsRow, RowsAreRows
        <5> QED
          BY <5>2, <5>4, <5>5, HandledRecords DEF Unapplied, DefinitionApplied
      <4>2. CASE RecordsExpire
        <5>1. CASE Due(r) /\ record'[r] = [record[r] EXCEPT !.status = "expired"]
          <6>1. record[r] \in RecordRow
            BY <5>1, RowsExist DEF Due, IInv
          <6>2. record'[r] \in RecordRow
            BY <5>1, <6>1 DEF RecordRow
          <6> QED
            BY <6>2, RowsAreRows
        <5> QED
          BY <4>2, <5>1 DEF RecordsExpire
      <4> QED
        BY <2>2, <4>1, <4>2, StepKinds DEF Elsewhere, RequestsExpire, PurgeFiled
    <3>2. PICK u \in Purges : /\ purge[u].status = "purged" /\ purge[u].record = r
                             /\ purge[u].by # purge[u].approved_by
      BY <3>1 DEF IInv, PurgedByTwo
    <3>3. purge'[u] = purge[u]
      BY <1>0, <2>2, <3>2, RowsAreRows, StepKinds
         DEF Elsewhere, RequestsExpire, RecordsExpire, Handled, PurgeFiled
    <3> QED
      BY <3>2, <3>3
  <2> QED
    BY <2>1, <2>2
<1> QED
  BY <1>1, <1>2


----------------------------------------------------------------------------
(* What approved requests made of a record *)

\* A step that approves nothing for a record and leaves its content and its
\* revision alone.
Untouched(r) ==
  /\ Approved(r)' = Approved(r)
  /\ record'[r].revision = record[r].revision
  /\ record'[r].payload = record[r].payload /\ record'[r].search = record[r].search

\* Only what a command approves joins the approved requests of a record.
LEMMA ApprovedGrows ==
  ASSUME IInv, Next, NEW r \in Records
  PROVE  /\ ~Handled => Approved(r)' = Approved(r)
         /\ \A p \in Profiles : \A q, old, new : Handles(p, q, old, new) =>
              /\ q \notin Approved(r)
              /\ Approved(r)' = IF new.status = "approved" /\ new.record = r
                                THEN Approved(r) \cup {q} ELSE Approved(r)
<1>1. \A q \in Requests : request[q].status = "approved" => request'[q] = request[q]
  BY RequestsStay
<1>2. ASSUME ~Handled PROVE Approved(r)' = Approved(r)
  <2>1. \A q \in Requests : request'[q].status = "approved" => request'[q] = request[q]
    <3> SUFFICES ASSUME NEW q \in Requests, request'[q].status = "approved"
                 PROVE  request'[q] = request[q]
      OBVIOUS
    <3>1. CASE RequestsExpire
      <4>1. CASE /\ request[q].status = "pending"
                 /\ request'[q] = [request[q] EXCEPT !.status = "expired"]
        <5>1. request[q] \in RequestRow
          BY <4>1, RowsExist DEF IInv
        <5> QED
          BY <4>1, <5>1 DEF RequestRow
      <4> QED
        BY <3>1, <4>1 DEF RequestsExpire
    <3> QED
      BY <1>2, <3>1, StepKinds DEF Elsewhere, RecordsExpire, PurgeFiled, PurgeApproved
  <2> QED
    BY <1>1, <2>1 DEF Approved
<1>3. ASSUME NEW p \in Profiles, NEW q, NEW old, NEW new, Handles(p, q, old, new)
      PROVE  /\ q \notin Approved(r)
             /\ Approved(r)' = IF new.status = "approved" /\ new.record = r
                               THEN Approved(r) \cup {q} ELSE Approved(r)
  BY <1>3, HandledRows DEF Approved
<1> QED
  BY <1>2, <1>3

\* The chain of an untouched record is the one it was.
LEMMA ChainStays ==
  ASSUME IInv, Next, NEW r \in Records, Untouched(r), Chained(r)
  PROVE  Chained(r)'
<1>1. \A q \in Approved(r) : q \in Requests /\ request'[q] = request[q]
  BY RequestsStay DEF Approved
<1>2. Creates(r)' = Creates(r)
  BY <1>1 DEF Creates, Untouched
<1>3. Changes(r)' = Changes(r)
  BY <1>2 DEF Changes, Untouched
<1>4. \A q \in Changes(r) \cup Creates(r) : request'[q] = request[q]
  BY <1>1 DEF Changes, Creates
<1>5. Writes(r)' = Writes(r)
  BY <1>3, <1>4 DEF Writes
<1>6. \A q \in Writes(r) : q \in Changes(r)
  BY DEF Writes
<1>7. Latest(r)' = Latest(r)
  <2>1. CASE Writes(r) = {}
    BY <1>2, <1>5, <2>1 DEF Latest
  <2>2. CASE Writes(r) # {}
    <3>1. \A q \in Writes(r) : request'[q] = request[q]
      BY <1>4, <1>6
    <3> HIDE DEF Writes
    <3>2. Latest(r)' = {q \in Writes(r) : \A w \in Writes(r) :
                          request'[w].key.expected <= request'[q].key.expected}
      BY <1>5, <2>2 DEF Latest
    <3> QED
      BY <2>2, <3>1, <3>2 DEF Latest
  <2> QED
    BY <2>1, <2>2
<1>8. \A q \in Latest(r) : request'[q] = request[q]
  BY <1>4, <1>6 DEF Latest
<1> QED
  BY <1>2, <1>3, <1>4, <1>7, <1>8 DEF Chained, Untouched

\* A published record has its create and no change.
LEMMA ChainBegins ==
  ASSUME IInv, Next, NEW r \in Records, NEW q, NEW key \in Keys, record[r] = NoRow,
         Approved(r)' = Approved(r) \cup {q}, request'[q].key = key,
         key.operation = "create", key.identity \in Identities,
         record'[r] = Published(key)
  PROVE  Chained(r)'
<1>1. Approved(r) = {}
  <2> SUFFICES ASSUME NEW o \in Requests, request[o].status = "approved",
                      request[o].record = r
               PROVE  FALSE
    BY DEF Approved
  <2>1. request[o] # NoRow
    BY RowsAreRows
  <2> QED
    BY <2>1, Constants DEF IInv, Filings, Filing
<1>2. Creates(r)' = {q} /\ Changes(r)' = {}
  BY <1>1 DEF Creates, Changes
<1>3. Latest(r)' = {q}
  BY <1>2 DEF Latest, Writes
<1>4. record'[r].revision = 1 /\ record'[r].payload = key.payload
      /\ record'[r].search = key.search
  BY PublishedIsRow DEF IInv
<1> QED
  BY <1>2, <1>3, <1>4 DEF Chained

\* A mutation at the current revision is the latest change of its record, and
\* if it writes, the latest write.
LEMMA ChainGrows ==
  ASSUME IInv, Next, NEW r \in Records, NEW q, NEW key \in Keys,
         record[r] \in RecordRow, Chained(r),
         q \notin Approved(r), Approved(r)' = Approved(r) \cup {q},
         request'[q].key = key, key.operation \in {"update", "delete"},
         key.window = Always, key.expected = record[r].revision,
         record'[r] = Mutation(record[r], key)
  PROVE  Chained(r)'
<1> DEFINE n == record[r].revision
<1>1. \A o \in Approved(r) : o \in Requests /\ request'[o] = request[o]
  BY RequestsStay DEF Approved
<1>2. Creates(r)' = Creates(r)
  BY <1>1 DEF Creates
<1>3. Changes(r)' = Changes(r) \cup {q} /\ q \notin Changes(r)
  BY <1>2 DEF Changes, Creates
<1>4. \A o \in Changes(r) \cup Creates(r) : request'[o] = request[o]
  BY <1>1 DEF Changes, Creates
<1>5. n \in Nat \ {0} /\ record'[r].revision = n + 1 /\ (n + 1) - 1 = n
  BY MutationIsRow DEF RecordRow
<1>6. \A o \in Changes(r) : request[o].key.expected \in 1..(n - 1)
  BY DEF Chained
<1>7. \A o \in Changes(r) : request'[o].key.expected \in 1..(n - 1)
  BY <1>4, <1>6
<1>8. request'[q].key.expected = n
  OBVIOUS
<1>9. \A o \in Latest(r) : /\ record[r].payload = request[o].key.payload
                           /\ record[r].search = request[o].key.search
  BY DEF Chained
<1>10. /\ \E o \in Creates(r)' : \A u \in Creates(r)' : u = o
       /\ \A o \in Changes(r)' : request'[o].key.expected \in 1..((n + 1) - 1)
  BY <1>2, <1>3, <1>5, <1>7, <1>8 DEF Chained
<1>11. \A m \in 1..((n + 1) - 1) : \E o \in Changes(r)' : request'[o].key.expected = m
  <2> SUFFICES ASSUME NEW m \in 1..n
               PROVE  \E o \in Changes(r)' : request'[o].key.expected = m
    BY <1>5
  <2>1. CASE m = n
    BY <1>3, <1>8, <2>1
  <2>2. CASE m # n
    <3>1. m \in 1..(n - 1)
      BY <1>5, <2>2
    <3> QED
      BY <1>3, <1>4, <3>1 DEF Chained
  <2> QED
    BY <2>1, <2>2
<1>12. \A o, u \in Changes(r)' :
         request'[o].key.expected = request'[u].key.expected => o = u
  <2>1. \A o \in Changes(r) : request'[o].key.expected # n
    BY <1>5, <1>7
  <2> QED
    BY <1>3, <1>4, <1>8, <2>1 DEF Chained
<1>13. \A o \in Latest(r)' : /\ record'[r].payload = request'[o].key.payload
                             /\ record'[r].search = request'[o].key.search
  <2>1. CASE key.operation = "update"
    <3>1. Writes(r)' = Writes(r) \cup {q}
      BY <1>3, <1>4, <2>1 DEF Writes
    <3>2. \A o \in Writes(r) : request'[o].key.expected \in 1..(n - 1)
      BY <1>7 DEF Writes
    <3>3. Latest(r)' \subseteq {q}
      BY <1>5, <1>8, <3>1, <3>2 DEF Latest
    <3>4. record'[r].payload = key.payload /\ record'[r].search = key.search
      BY <2>1, MutationIsRow
    <3> QED
      BY <3>3, <3>4
  <2>2. CASE key.operation = "delete"
    <3>1. Writes(r)' = Writes(r)
      BY <1>3, <1>4, <2>2 DEF Writes
    <3>2. \A o \in Writes(r) : o \in Changes(r)
      BY DEF Writes
    <3>3. Latest(r)' = Latest(r)
      BY <1>2, <1>4, <3>1, <3>2 DEF Latest
    <3>4. \A o \in Latest(r) : request'[o] = request[o]
      BY <1>4, <3>2 DEF Latest
    <3>5. record'[r].payload = record[r].payload /\ record'[r].search = record[r].search
      BY <2>2, MutationIsRow
    <3> QED
      BY <1>9, <3>3, <3>4, <3>5
  <2> QED
    BY <2>1, <2>2
<1> HIDE DEF n
<1> QED
  BY <1>5, <1>10, <1>11, <1>12, <1>13 DEF Chained

\* Every record stays what its approved requests made of it.
LEMMA ChainsKept ==
  ASSUME IInv, Next
  PROVE  Chains'
<1> SUFFICES ASSUME NEW r \in Records, There(r)' PROVE Chained(r)'
  BY DEF Chains
<1>0. /\ record \in [Records -> RecordRow \cup {NoRow, Erased}]
      /\ There(r) => Chained(r)
  BY DEF IInv, TypeOK, Chains
<1>1. CASE Handled
  <2>1. PICK p \in Profiles : \E q, old, new : Handles(p, q, old, new)
    BY <1>1 DEF Handled
  <2>2. PICK q, old, new : Handles(p, q, old, new)
    BY <2>1
  <2> DEFINE mine == new.status = "approved" /\ new.record = r
  <2>3. /\ q \notin Approved(r)
        /\ Approved(r)' = IF mine THEN Approved(r) \cup {q} ELSE Approved(r)
    BY <2>2, ApprovedGrows
  <2>4. new.key = old.key /\ old.key \in Keys /\ request'[q].key = old.key
    BY <2>2, HandledRows
  <2>5. ASSUME record'[r] = record[r], ~mine PROVE Chained(r)'
    BY <1>0, <2>3, <2>5, ChainStays DEF There, Untouched
  <2>6. CASE /\ CreateApplied(old, new) /\ old.key.identity \in Identities
             /\ old.key.operation = "create" /\ record'[new.record] = Published(old.key)
             /\ \A i \in Records \ {new.record} : record'[i] = record[i]
    <3>1. CASE r = new.record
      BY <2>3, <2>4, <2>6, <3>1, ChainBegins DEF CreateApplied
    <3> QED
      BY <2>5, <2>6, <3>1
  <2>7. CASE /\ MutationApplied(old, new) /\ old.key.operation \in {"update", "delete"}
             /\ old.key.window = Always /\ record[new.record] \in RecordRow
             /\ old.key.expected = record[new.record].revision
             /\ record'[new.record] = Mutation(record[new.record], old.key)
             /\ \A i \in Records \ {new.record} : record'[i] = record[i]
    <3>1. CASE r = new.record
      <4>1. Chained(r) /\ mine
        BY <1>0, <2>7, <3>1 DEF MutationApplied
      <4> QED
        BY <2>3, <2>4, <2>7, <3>1, <4>1, ChainGrows
    <3> QED
      BY <2>5, <2>7, <3>1
  <2>8. CASE Unapplied(old, new) \/ (DefinitionApplied(old, new) /\ new.record = None)
    BY <2>5, <2>8, Constants DEF Unapplied, DefinitionApplied
  <2> QED
    BY <2>2, <2>6, <2>7, <2>8, HandledRecords
<1>2. CASE ~Handled
  <2>1. Approved(r)' = Approved(r)
    BY <1>2, ApprovedGrows
  <2>2. There(r) /\ Untouched(r)
    <3>1. CASE record'[r] = record[r]
      BY <2>1, <3>1 DEF There, Untouched
    <3>2. CASE Due(r) /\ record'[r] = [record[r] EXCEPT !.status = "expired"]
      <4>1. There(r) /\ record[r] \in RecordRow
        BY <3>2, RowsExist DEF Due, IInv
      <4> QED
        BY <2>1, <3>2, <4>1 DEF Untouched, RecordRow
    <3>3. CASE PurgeApproved
      <4>1. record'[r] = record[r] \/ record'[r] = Erased
        BY <1>0, <3>3 DEF PurgeApproved
      <4> QED
        BY <3>1, <4>1 DEF There
    <3> QED
      BY <1>2, <3>1, <3>2, <3>3, StepKinds
         DEF Elsewhere, RequestsExpire, RecordsExpire, PurgeFiled
  <2> QED
    BY <1>0, <2>2, ChainStays
<1> QED
  BY <1>1, <1>2


\* An unapproved request, and one that is no create, leaves the window of a
\* record to its create; an update opens the window and a delete ends it.
LEMMA WindowsStay ==
  ASSUME IInv, Next
  PROVE  WindowsKept'
<1> SUFFICES ASSUME NEW r \in Records, There(r)', NEW c \in Creates(r)',
                    request'[c].key.window.to # None
             PROVE  /\ record'[r].status = "active" /\ record'[r].to # None =>
                         record'[r].to = request'[c].key.window.to
                    /\ record'[r].status = "expired" =>
                         request'[c].key.window.to <= clock'
  BY DEF WindowsKept
<1>0. /\ record \in [Records -> RecordRow \cup {NoRow, Erased}]
      /\ clock \in Nat /\ clock' \in Nat /\ clock <= clock'
      /\ There(r) => \A q \in Creates(r) : request[q].key.window.to # None =>
           /\ record[r].status = "active" /\ record[r].to # None =>
                record[r].to = request[q].key.window.to
           /\ record[r].status = "expired" => request[q].key.window.to <= clock
  <2>1. World
    BY StepKinds
  <2> QED
    BY <2>1, Constants DEF IInv, TypeOK, Time, World, WindowsKept
<1>1. ASSUME c \in Approved(r)
      PROVE  /\ c \in Creates(r) /\ request'[c] = request[c]
             /\ request[c].key.window.to \in Nat
  <2>1. c \in Requests /\ request'[c] = request[c] /\ request[c].status = "approved"
    BY <1>1, RequestsStay DEF Approved
  <2>2. request[c] \in RequestRow
    BY <2>1, RowsExist DEF IInv
  <2>3. request[c].key.window.to \in Nat
    BY <2>1, <2>2 DEF RequestRow, Keys, Window
  <2> QED
    BY <1>1, <2>1, <2>3 DEF Creates
<1>2. ASSUME record'[r] = record[r], c \in Approved(r)
      PROVE  /\ record'[r].status = "active" /\ record'[r].to # None =>
                  record'[r].to = request'[c].key.window.to
             /\ record'[r].status = "expired" => request'[c].key.window.to <= clock'
  <2>1. c \in Creates(r) /\ request'[c] = request[c] /\ request[c].key.window.to \in Nat
    BY <1>1, <1>2
  <2>2. There(r)
    BY <1>2 DEF There
  <2>3. record[r].status = "expired" => request[c].key.window.to <= clock
    BY <1>0, <2>1, <2>2
  <2> QED
    BY <1>0, <1>2, <2>1, <2>2, <2>3
<1>3. CASE Handled
  <2>1. PICK p \in Profiles : \E q, old, new : Handles(p, q, old, new)
    BY <1>3 DEF Handled
  <2>2. PICK q, old, new : Handles(p, q, old, new)
    BY <2>1
  <2> DEFINE mine == new.status = "approved" /\ new.record = r
  <2>3. Approved(r)' = IF mine THEN Approved(r) \cup {q} ELSE Approved(r)
    BY <2>2, ApprovedGrows
  <2>4. /\ new.key = old.key /\ old.key \in Keys /\ request'[q].key = old.key
        /\ c \in Approved(r)'
    BY <2>2, HandledRows DEF Creates
  <2>5. ASSUME record'[r] = record[r], ~mine PROVE c \in Approved(r)
    BY <2>3, <2>4, <2>5
  <2>6. CASE /\ CreateApplied(old, new) /\ old.key.identity \in Identities
             /\ record'[new.record] = Published(old.key)
             /\ \A i \in Records \ {new.record} : record'[i] = record[i]
    <3>1. CASE r = new.record
      <4>1. Approved(r) = {}
        <5> SUFFICES ASSUME NEW o \in Requests, request[o].status = "approved",
                            request[o].record = r
                     PROVE  FALSE
          BY DEF Approved
        <5>1. request[o] # NoRow
          BY RowsAreRows
        <5> QED
          BY <2>6, <3>1, <5>1, Constants DEF IInv, Filings, Filing, CreateApplied
      <4>2. c = q
        BY <2>3, <2>4, <4>1
      <4> QED
        BY <2>4, <2>6, <3>1, <4>2, PublishedIsRow DEF IInv
    <3> QED
      BY <1>2, <2>5, <2>6, <3>1
  <2>7. CASE /\ MutationApplied(old, new) /\ old.key.operation \in {"update", "delete"}
             /\ old.key.window = Always /\ record[new.record] \in RecordRow
             /\ record'[new.record] = Mutation(record[new.record], old.key)
             /\ \A i \in Records \ {new.record} : record'[i] = record[i]
    <3>1. CASE r = new.record
      <4>1. /\ old.key.operation = "update" =>
                 record'[r].status = "active" /\ record'[r].to = None
            /\ old.key.operation = "delete" => record'[r].status = "tombstoned"
        BY <2>4, <2>7, <3>1, MutationIsRow
      <4> QED
        BY <2>7, <4>1
    <3> QED
      BY <1>2, <2>5, <2>7, <3>1
  <2>8. CASE Unapplied(old, new) \/ (DefinitionApplied(old, new) /\ new.record = None)
    BY <1>2, <2>5, <2>8, Constants DEF Unapplied, DefinitionApplied
  <2> QED
    BY <2>2, <2>6, <2>7, <2>8, HandledRecords
<1>4. CASE ~Handled
  <2>1. c \in Approved(r)
    BY <1>4, ApprovedGrows DEF Creates
  <2>2. CASE Due(r) /\ record'[r] = [record[r] EXCEPT !.status = "expired"]
    <3>1. /\ There(r) /\ record[r] \in RecordRow /\ record[r].status = "active"
          /\ record[r].to # None /\ record[r].to <= clock
      BY <2>2, RowsExist DEF Due, IInv
    <3>2. record'[r].status = "expired"
      BY <2>2, <3>1 DEF RecordRow
    <3>3. request'[c] = request[c] /\ record[r].to = request[c].key.window.to
          /\ request[c].key.window.to \in Nat
      BY <1>0, <1>1, <2>1, <3>1
    <3> QED
      BY <1>0, <3>1, <3>2, <3>3
  <2>3. CASE PurgeApproved
    <3>1. record'[r] = record[r] \/ record'[r] = Erased
      BY <1>0, <2>3 DEF PurgeApproved
    <3> QED
      BY <1>2, <2>1, <3>1 DEF There
  <2> QED
    BY <1>2, <1>4, <2>1, <2>2, <2>3, StepKinds
       DEF Elsewhere, RequestsExpire, RecordsExpire, PurgeFiled
<1> QED
  BY <1>3, <1>4

----------------------------------------------------------------------------
(* The theorems *)

\* The store starts empty.
LEMMA InitHolds == Init => IInv
<1> SUFFICES ASSUME Init PROVE IInv
  OBVIOUS
<1>1. /\ \A r \in Records : record[r] = NoRow
      /\ \A q \in Requests : request[q] = NoRow
      /\ \A u \in Purges : purge[u] = NoRow
      /\ \A c \in Candidates : candidate[c] = NoRow
  BY DEF Init
<1>2. TypeOK
  BY Constants DEF Init, TypeOK, Time
<1>3. NoRow # Erased /\ NoRow.status = "none"
  BY RowsAreRows
<1> QED
  BY <1>1, <1>2, <1>3
     DEF IInv, Filings, RetriesAreIdempotent, Chains, There, ApprovalsAuthorised,
         Decisions, WindowsKept, PurgedByTwo, PurgesNameRecords

\* A step that changes nothing keeps the invariant.
LEMMA StutterHolds ==
  ASSUME IInv, UNCHANGED vars
  PROVE  IInv'
<1>1. \A r \in Records : /\ Approved(r)' = Approved(r) /\ Creates(r)' = Creates(r)
                         /\ Changes(r)' = Changes(r) /\ Writes(r)' = Writes(r)
                         /\ Latest(r)' = Latest(r) /\ There(r)' = There(r)
  BY DEF vars, Approved, Creates, Changes, Writes, Latest, There
<1>2. Chains' /\ WindowsKept'
  BY <1>1 DEF IInv, vars, Chains, Chained, WindowsKept
<1>3. TypeOK' /\ Filings' /\ RetriesAreIdempotent'
  BY DEF IInv, vars, TypeOK, Filings, RetriesAreIdempotent
<1>4. ApprovalsAuthorised' /\ Decisions' /\ PurgedByTwo' /\ PurgesNameRecords'
  BY DEF IInv, vars, ApprovalsAuthorised, HasCapability, Decisions, PurgedByTwo,
         PurgesNameRecords
<1> QED
  BY <1>2, <1>3, <1>4 DEF IInv

\* The inductive invariant holds of every reachable state.
THEOREM InductiveInvariant == Spec => []IInv
<1>1. IInv /\ [Next]_vars => IInv'
  BY TypesKept, FilingsKept, RetriesKept, AuthorityKept, PurgesKept, ChainsKept,
     WindowsStay, StutterHolds DEF IInv
<1> QED
  BY <1>1, InitHolds, PTL DEF Spec


----------------------------------------------------------------------------
(* What reviewers made of a record *)

\* Finitely many requests, so that those of a kind can be counted.
LEMMA RequestsAreFinite == IsFiniteSet(Requests)
BY FS_Interval, Constants

\* A record whose changes are at the revisions before its own has as many of
\* them as it has earlier revisions.
LEMMA ChangesAreCounted ==
  ASSUME NEW S, NEW n \in Nat, NEW f \in [S -> 1..n],
         \A m \in 1..n : \E q \in S : f[q] = m,
         \A q, o \in S : f[q] = f[o] => q = o
  PROVE  Cardinality(S) = n
<1>1. f \in Bijection(S, 1..n)
  BY DEF Bijection, Injection, Surjection, IsInjective
<1>2. ExistsBijection(1..n, S)
  BY <1>1, Fun_ExistsBij, Fun_ExistsBijSymmetric
<1> QED
  BY <1>2, FS_CountingElements

\* The chain of a record is its history.
LEMMA ChainIsHistory ==
  ASSUME IInv
  PROVE  HistoryMatches
<1> SUFFICES ASSUME NEW r \in Records, There(r)
             PROVE  /\ Cardinality(Creates(r)) = 1
                    /\ Cardinality(Changes(r)) = record[r].revision - 1
                    /\ {request[q].key.expected : q \in Changes(r)}
                         = 1..(record[r].revision - 1)
                    /\ \A q \in Latest(r) : /\ record[r].payload = request[q].key.payload
                                            /\ record[r].search = request[q].key.search
  BY DEF HistoryMatches, There, Creates, Changes, Writes, Latest
<1> DEFINE n == record[r].revision - 1
           f == [q \in Changes(r) |-> request[q].key.expected]
<1>1. Chained(r) /\ n \in Nat
  BY RowsExist DEF IInv, Chains, RecordRow
<1>2. \E q : Creates(r) = {q}
  <2>1. PICK q \in Creates(r) : \A o \in Creates(r) : o = q
    BY <1>1 DEF Chained
  <2> HIDE DEF Creates
  <2>2. Creates(r) = {q}
    BY <2>1
  <2> QED
    BY <2>2
<1>3. Cardinality(Creates(r)) = 1
  BY <1>2, FS_Singleton
<1>4. /\ f \in [Changes(r) -> 1..n]
      /\ \A m \in 1..n : \E q \in Changes(r) : f[q] = m
      /\ \A q, o \in Changes(r) : f[q] = f[o] => q = o
  BY <1>1 DEF Chained
<1>5. {request[q].key.expected : q \in Changes(r)} = 1..n
  BY <1>1 DEF Chained
<1>6. \A q \in Latest(r) : /\ record[r].payload = request[q].key.payload
                           /\ record[r].search = request[q].key.search
  BY <1>1 DEF Chained
<1> HIDE DEF n, f
<1>7. Cardinality(Changes(r)) = n
  BY <1>1, <1>4, ChangesAreCounted
<1> QED
  BY <1>3, <1>5, <1>6, <1>7 DEF n

\* A record is, at any time, what people who may approve made of it: one create,
\* one change at each earlier revision, and the content of the latest write;
\* and none was erased by one person alone.
THEOREM EveryChangeReviewed == Spec => []ChangesReviewed
<1>1. IInv => ChangesReviewed
  BY ChainIsHistory DEF IInv, ChangesReviewed
<1> QED
  BY <1>1, InductiveInvariant, PTL

\* Neither a repeated proposal nor a repeated consolidation leads to a second
\* request.
THEOREM NothingFiledTwice == Spec => []OneRequestEach
<1>1. IInv => ConsolidatedOnce
  <2> SUFFICES ASSUME IInv, NEW c \in Candidates
               PROVE  Cardinality({q \in Requests : /\ request[q] # NoRow
                                                    /\ request[q].key.candidate = c}) <= 1
    BY DEF ConsolidatedOnce
  <2> DEFINE S == {q \in Requests : request[q] # NoRow /\ request[q].key.candidate = c}
             o == candidate[c].consolidation
  <2>1. S \in SUBSET {o}
    BY Constants DEF IInv, Filings, Filing
  <2>2. IsFiniteSet({o}) /\ Cardinality({o}) = 1
    BY FS_Singleton
  <2> HIDE DEF S, o
  <2>3. Cardinality(S) <= 1
    BY <2>1, <2>2, FS_Subset
  <2> QED
    BY <2>3 DEF S
<1>2. IInv => OneRequestEach
  BY <1>1 DEF IInv, OneRequestEach
<1> QED
  BY <1>2, InductiveInvariant, PTL

\* A record expires only after the window its create asked for.
THEOREM NoEarlyExpiry == Spec => []WindowHonoured
<1>1. IInv => WindowHonoured
  BY RowsExist DEF IInv, WindowHonoured, WindowsKept, Creates
<1> QED
  BY <1>1, InductiveInvariant, PTL

----------------------------------------------------------------------------
(* The promise *)

\* The cell that stands for a record.
CellOf(r) ==
  IF record[r] = NoRow THEN [state |-> "unborn"]
  ELSE IF record[r] = Erased THEN [state |-> "erased"]
  ELSE [state   |-> IF record[r].status = "tombstoned" THEN "closed" ELSE "live",
        slot    |-> r,
        version |-> record[r].revision,
        content |-> <<record[r].payload, record[r].search>>]
Cells ==
  [r \in Records |->
    IF record[r] = NoRow THEN [state |-> "unborn"]
    ELSE IF record[r] = Erased THEN [state |-> "erased"]
    ELSE [state   |-> IF record[r].status = "tombstoned" THEN "closed" ELSE "live",
          slot    |-> r,
          version |-> record[r].revision,
          content |-> <<record[r].payload, record[r].search>>]]

\* One cell per record.
LEMMA CellsHold ==
  /\ DOMAIN Cells = Records /\ DOMAIN Cells' = Records
  /\ \A r \in Records : Cells[r] = CellOf(r) /\ Cells'[r] = CellOf(r)'
  /\ Cells = [r \in Records |-> Cells[r]] /\ Cells' = [r \in Records |-> Cells'[r]]
BY DEF Cells, CellOf

\* A row's cell, by the row.
LEMMA CellOfRow ==
  ASSUME NEW r \in Records
  PROVE  /\ record[r] \in RecordRow =>
              Cells[r] = [state |-> IF record[r].status = "tombstoned" THEN "closed"
                                    ELSE "live",
                          slot |-> r, version |-> record[r].revision,
                          content |-> <<record[r].payload, record[r].search>>]
         /\ record'[r] \in RecordRow =>
              Cells'[r] = [state |-> IF record'[r].status = "tombstoned" THEN "closed"
                                     ELSE "live",
                           slot |-> r, version |-> record'[r].revision,
                           content |-> <<record'[r].payload, record'[r].search>>]
         /\ record'[r] = record[r] => Cells'[r] = Cells[r]
         /\ record[r] = NoRow => Cells[r] = [state |-> "unborn"]
         /\ record'[r] = Erased => Cells'[r] = [state |-> "erased"]
BY CellsHold, RowsAreRows DEF CellOf

\* An approved create bears the cell of a record that was none.
LEMMA CreateBears ==
  ASSUME IInv, NEW key \in Keys, key.identity \in Identities, NEW i \in Records,
         record[i] = NoRow, record'[i] = Published(key),
         \A r \in Records \ {i} : record'[r] = record[r]
  PROVE  Versions!Bear(i)
<1>1. /\ record'[i] \in RecordRow /\ record'[i].revision = 1
      /\ record'[i].status = "active" /\ record'[i].payload \in Payloads
      /\ record'[i].search \in SearchTexts
  BY PublishedIsRow DEF IInv, RecordRow
<1> DEFINE content == <<record'[i].payload, record'[i].search>>
<1>2. /\ Cells[i] = [state |-> "unborn"]
      /\ Cells'[i] = [state |-> "live", slot |-> i, version |-> 1, content |-> content]
      /\ content \in Payloads \X SearchTexts
  BY <1>1, CellOfRow
<1>3. \A r \in Records \ {i} : Cells'[r] = Cells[r]
  BY CellOfRow
<1> HIDE DEF content
<1>4. Cells' = [Cells EXCEPT ![i] = [state |-> "live", slot |-> Cells'[i].slot,
                                     version |-> 1, content |-> Cells'[i].content]]
  BY <1>2, <1>3, CellsHold
<1>5. \A r \in Records : ~(Cells[r].state = "live" /\ Cells[r].slot = i)
  <2>1. \A r \in Records \ {i} : Cells[r].state = "live" => Cells[r].slot = r
    BY CellsHold DEF CellOf
  <2> QED
    BY <1>2, <2>1
<1> QED
  BY <1>2, <1>4, <1>5 DEF Versions!Bear, Versions!Unborn, Versions!Free, Cells

\* An approved update writes the cell of its record, which may have expired, and
\* an approved delete closes it.
LEMMA MutationMoves ==
  ASSUME IInv, NEW key \in Keys, key.operation \in {"update", "delete"},
         key.window = Always, NEW i \in Records, record[i] \in RecordRow,
         record[i].status # "tombstoned",
         record'[i] = Mutation(record[i], key),
         \A r \in Records \ {i} : record'[r] = record[r]
  PROVE  Versions!Write(i) \/ Versions!Delete(i)
<1> DEFINE old == <<record[i].payload, record[i].search>>
           new == <<record'[i].payload, record'[i].search>>
           n == record[i].revision
<1>1. /\ record'[i] \in RecordRow /\ record'[i].revision = n + 1
      /\ key.operation = "update" => record'[i].status = "active"
      /\ key.operation = "delete" => record'[i].status = "tombstoned" /\ new = old
  BY MutationIsRow
<1>2. Cells[i] = [state |-> "live", slot |-> i, version |-> n, content |-> old]
  BY CellOfRow
<1>3. Cells'[i] = [state |-> IF key.operation = "update" THEN "live" ELSE "closed",
                   slot |-> i, version |-> n + 1, content |-> new]
  BY <1>1, CellOfRow
<1>4. new \in Payloads \X SearchTexts
  BY <1>1 DEF RecordRow
<1>5. \A r \in Records \ {i} : Cells'[r] = Cells[r]
  BY CellOfRow
<1>6. key.operation = "delete" => new = old
  BY <1>1
<1> HIDE DEF old, new, n
<1>7. CASE key.operation = "update"
  <2>1. Cells' = [Cells EXCEPT ![i].version = @ + 1, ![i].content = Cells'[i].content]
    <3> DEFINE D == [Cells EXCEPT ![i].version = @ + 1, ![i].content = Cells'[i].content]
    <3>1. D = [r \in Records |-> D[r]] /\ \A r \in Records \ {i} : D[r] = Cells[r]
      BY CellsHold
    <3>2. D[i] = Cells'[i]
      <4>1. D[i] = [[Cells[i] EXCEPT !.version = Cells[i].version + 1]
                      EXCEPT !.content = Cells'[i].content]
        BY CellsHold
      <4>2. Cells'[i] = [state |-> "live", slot |-> i, version |-> n + 1, content |-> new]
        BY <1>3, <1>7
      <4> HIDE DEF D
      <4>3. [Cells[i] EXCEPT !.version = Cells[i].version + 1]
              = [state |-> "live", slot |-> i, version |-> n + 1, content |-> old]
        BY <1>2
      <4>4. [[state |-> "live", slot |-> i, version |-> n + 1, content |-> old]
               EXCEPT !.content = Cells'[i].content] = Cells'[i]
        BY <4>2
      <4> QED
        BY <4>1, <4>3, <4>4
    <3> HIDE DEF D
    <3>3. \A r \in Records : D[r] = Cells'[r]
      BY <1>5, <3>1, <3>2
    <3>4. Cells' = D
      BY <3>1, <3>3, CellsHold
    <3> QED
      BY <3>4 DEF D
  <2>2. Cells[i].state = "live" /\ Cells'[i].state = "live"
        /\ Cells'[i].content \in Payloads \X SearchTexts
    BY <1>2, <1>3, <1>4, <1>7
  <2> QED
    BY <2>1, <2>2 DEF Versions!Write, Cells
<1>8. CASE key.operation = "delete"
  <2>1. Cells' = [Cells EXCEPT ![i].version = @ + 1, ![i].state = "closed"]
    <3> DEFINE D == [Cells EXCEPT ![i].version = @ + 1, ![i].state = "closed"]
    <3>1. D = [r \in Records |-> D[r]] /\ \A r \in Records \ {i} : D[r] = Cells[r]
      BY CellsHold
    <3>2. D[i] = Cells'[i]
      <4>1. D[i] = [[Cells[i] EXCEPT !.version = Cells[i].version + 1]
                      EXCEPT !.state = "closed"]
        BY CellsHold
      <4>2. Cells'[i] = [state |-> "closed", slot |-> i, version |-> n + 1, content |-> new]
        BY <1>3, <1>8
      <4> HIDE DEF D
      <4>3. [Cells[i] EXCEPT !.version = Cells[i].version + 1]
              = [state |-> "live", slot |-> i, version |-> n + 1, content |-> old]
        BY <1>2
      <4>4. [[state |-> "live", slot |-> i, version |-> n + 1, content |-> old]
               EXCEPT !.state = "closed"] = Cells'[i]
        BY <1>6, <1>8, <4>2
      <4> QED
        BY <4>1, <4>3, <4>4
    <3> HIDE DEF D
    <3>3. \A r \in Records : D[r] = Cells'[r]
      BY <1>5, <3>1, <3>2
    <3>4. Cells' = D
      BY <3>1, <3>3, CellsHold
    <3> QED
      BY <3>4 DEF D
  <2>2. Cells[i].state = "live"
    BY <1>2
  <2> QED
    BY <2>1, <2>2 DEF Versions!Delete, Cells
<1> QED
  BY <1>7, <1>8

\* A purge erases the cell of its record.
LEMMA PurgeErases ==
  ASSUME IInv, PurgeApproved
  PROVE  [Versions!Next]_Cells
<1>0. record \in [Records -> RecordRow \cup {NoRow, Erased}]
  BY DEF IInv, TypeOK
<1>1. PICK u \in Purges : /\ purge[u].status = "pending"
                          /\ record' = [record EXCEPT ![purge[u].record] = Erased]
  BY DEF PurgeApproved
<1>2. purge[u].record \in Records /\ record[purge[u].record] # NoRow
  BY <1>1, RowsExist, RowsAreRows DEF IInv, PurgesNameRecords, PurgeRow
<1> PICK i \in Records : i = purge[u].record
  BY <1>2
<1>3. Cells'[i] = [state |-> "erased"] /\ \A r \in Records \ {i} : Cells'[r] = Cells[r]
  BY <1>0, <1>1, <1>2, CellOfRow
<1>4. CASE record[i] \in RecordRow
  <2>1. Cells[i].state \in {"live", "closed"}
    <3>1. Cells[i] = CellOf(i) /\ record[i] # NoRow /\ record[i] # Erased
      BY <1>4, CellsHold, RowsAreRows
    <3> QED
      BY <3>1 DEF CellOf
  <2>2. Cells' = [Cells EXCEPT ![i] = [state |-> "erased"]]
    BY <1>2, <1>3, CellsHold
  <2>3. Versions!Erase(i)
    BY <2>1, <2>2 DEF Versions!Erase, Versions!Erased, Cells
  <2>4. Versions!Next
    BY <1>2, <2>3 DEF Versions!Next
  <2> QED
    BY <2>4
<1>5. CASE record[i] = Erased
  <2>1. record' = record
    BY <1>0, <1>1, <1>5
  <2> QED
    BY <2>1 DEF Cells
<1> QED
  BY <1>0, <1>2, <1>4, <1>5

\* Every step is a step of the promise or leaves its cells alone.
LEMMA StepKeepsPromise ==
  ASSUME IInv, [Next]_vars
  PROVE  [Versions!Next]_Cells
<1>1. CASE record' = record
  BY <1>1 DEF Cells
<1>2. CASE Next /\ Handled
  <2>1. PICK p \in Profiles : \E q, old, new : Handles(p, q, old, new)
    BY <1>2 DEF Handled
  <2>2. PICK q, old, new : Handles(p, q, old, new)
    BY <2>1
  <2>3. old.key \in Keys
    BY <2>2, HandledRows
  <2>4. CASE /\ CreateApplied(old, new) /\ old.key.identity \in Identities
             /\ record'[new.record] = Published(old.key)
             /\ \A i \in Records \ {new.record} : record'[i] = record[i]
    BY <2>3, <2>4, CreateBears DEF CreateApplied, Versions!Next
  <2>5. CASE /\ new.record \in Records /\ old.key.operation \in {"update", "delete"}
             /\ old.key.window = Always /\ record[new.record] \in RecordRow
             /\ record[new.record].status # "tombstoned"
             /\ record'[new.record] = Mutation(record[new.record], old.key)
             /\ \A r \in Records \ {new.record} : record'[r] = record[r]
    BY <2>3, <2>5, MutationMoves DEF Versions!Next
  <2> QED
    BY <1>1, <2>2, <2>4, <2>5, HandledRecords DEF Unapplied, DefinitionApplied
<1>3. CASE RecordsExpire
  <2>1. \A r \in Records : Cells'[r] = Cells[r]
    <3> SUFFICES ASSUME NEW r \in Records PROVE Cells'[r] = Cells[r]
      OBVIOUS
    <3>1. CASE Due(r) /\ record'[r] = [record[r] EXCEPT !.status = "expired"]
      <4>1. record[r] \in RecordRow /\ record[r].status = "active"
        BY <3>1, RowsExist DEF Due, IInv
      <4>2. /\ record'[r] \in RecordRow /\ record'[r].status = "expired"
            /\ record'[r].revision = record[r].revision
            /\ record'[r].payload = record[r].payload
            /\ record'[r].search = record[r].search
        BY <3>1, <4>1 DEF RecordRow
      <4> QED
        BY <4>1, <4>2, CellOfRow
    <3> QED
      BY <1>3, <3>1, CellOfRow DEF RecordsExpire
  <2> QED
    BY <2>1, CellsHold
<1> QED
  BY <1>1, <1>2, <1>3, PurgeErases, StepKinds
     DEF vars, Elsewhere, RequestsExpire, PurgeFiled

\* Record by record, the in-memory store keeps the promise of the PostgreSQL
\* store: content changes with the revision, one by one, a tombstone is the last
\* revision, and a purged record does not return.
THEOREM StoreKeepsPromise == Spec => ImplementsVersionedRecords
<1>1. Init => Versions!Init
  BY DEF Init, Versions!Init, Versions!Unborn
<1>2. IInv /\ [Next]_vars => [Versions!Next]_Cells
  BY StepKeepsPromise
<1> QED
  BY <1>1, <1>2, InductiveInvariant, PTL
     DEF Spec, ImplementsVersionedRecords, Versions!Spec, Cells


=============================================================================
