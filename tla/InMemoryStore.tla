---------------------------- MODULE InMemoryStore ----------------------------
(***************************************************************************)
(* The process-local store of tests and local development, driven by the   *)
(* service commands that call it.  Python runs one command at a time, so a *)
(* command is one step; several profiles may share the store.              *)
(*                                                                         *)
(* Data.  A payload is a field and a text.  Search text is a word, or      *)
(* ByIdentity when the service falls back to the identity.  There is one   *)
(* record type; its inventory definition, once active, requires the field  *)
(* and makes it searchable.                                                *)
(***************************************************************************)
EXTENDS Integers, FiniteSets

CONSTANTS
  Profiles,     \* also the slug of each profile's private namespace
  Shared,       \* the slug of the one shared namespace
  Identities, Words,
  Policy,       \* the configured action of each operation
  CreatePatches, UpdatePatches,  \* what callers name in a proposal
  Founders,     \* who creates the shared namespace
  Named,        \* the namespaces that proposals name
  Inventories,  \* the namespaces for which a definition is proposed
  UpdateModes,
  Grantable,    \* the grants that are ever made
  Windows,      \* validity windows of candidates: [from, to], None for open
  Retentions,   \* retentions an administrator sets
  TTL,
  MaxTime, MaxRequests, MaxRecords, MaxCandidates, MaxPurges,  \* bounds
  Absent, Keep, ByIdentity, None

Slugs == Profiles \cup {Shared}
Operations == {"create", "update", "delete"}
Capabilities == {"read", "propose", "approve", "admin"}
Requests == 1..MaxRequests
Records == 1..MaxRecords
Candidates == 1..MaxCandidates
Purges == 1..MaxPurges
Time == 0..MaxTime

VARIABLES
  owner,       \* namespaces: the owner of each slug
  grants,      \* <<namespace, grantee, capability>>
  definition,  \* namespaces whose inventory definition is active
  record, request, candidate, purge, retention, clock

vars == <<owner, grants, definition, record, request, candidate, purge,
          retention, clock>>
access == <<owner, grants>>

NoRow == [status |-> "none"]
Erased == [status |-> "purged"]

----------------------------------------------------------------------------
(* Rows *)

Payloads == [field : Words \cup {Absent}, text : Words \cup {Absent}]
\* What a caller names: a field may be kept, set or (with null) removed.
Patches == [field : Words \cup {Keep, Absent}, text : Words \cup {Keep}]
SearchTexts == Words \cup {ByIdentity}
Window == [from : Nat \cup {None}, to : Nat \cup {None}]
Always == [from |-> None, to |-> None]

ASSUME StoreConstants ==
  /\ Shared \notin Profiles
  /\ Policy \in [Operations -> {"require", "auto", "deny"}]
  /\ TTL \in Nat \ {0} /\ MaxTime \in Nat
  /\ MaxRequests \in Nat /\ MaxRecords \in Nat
  /\ MaxCandidates \in Nat /\ MaxPurges \in Nat
  /\ Founders \subseteq Profiles /\ Inventories \subseteq Named
  /\ UpdateModes \subseteq {"patch", "replace"}
  /\ Named \subseteq Slugs /\ Grantable \subseteq Slugs \X Profiles \X Capabilities
  /\ Windows \subseteq [from : Nat \cup {None}, to : Nat \cup {None}]
  /\ Retentions \subseteq (Nat \ {0}) \cup {None}
  /\ CreatePatches \subseteq Patches /\ UpdatePatches \subseteq Patches
  /\ {Absent, Keep, ByIdentity} \cap Words = {} /\ None \notin Nat \cup Profiles
  /\ Cardinality({Absent, Keep, ByIdentity}) = 3

\* What the idempotency digest is computed from; a consolidation adds its
\* candidate.
Keys ==
  [by : Profiles, operation : Operations, type : {"item", "definition"},
   namespace : Slugs, identity : Identities \cup {None},
   record : Records \cup {None}, payload : Payloads, search : SearchTexts, expected : Nat \cup {None},
   mode : {"patch", "replace"}, window : Window,
   candidate : Candidates \cup {None}]
Decided == {"approved", "rejected", "expired", "superseded"}
RequestRow ==
  [status : {"pending"} \cup Decided, key : Keys,
   record : Records \cup {None}, decided_by : Profiles \cup {None},
   expires : Nat, patch : Patches]
RecordRow ==
  [status : {"active", "expired", "tombstoned"}, namespace : Slugs,
   identity : Identities, revision : Nat \ {0}, payload : Payloads,
   search : SearchTexts, from : Nat, to : Nat \cup {None}]
CandidateRow ==
  [by : Profiles, namespace : Slugs, identity : Identities,
   payload : Payloads, search : SearchTexts,
   assessment : {"new", "duplicate", "conflict"},
   relation : Records \cup {None}, consolidation : Requests \cup {None}]
PurgeRow ==
  [status : {"pending", "purged"}, record : Records, by : Profiles,
   approved_by : Profiles \cup {None}]

TypeOK ==
  /\ owner \in [Slugs -> Profiles \cup {None}]
  /\ grants \subseteq Slugs \X Profiles \X Capabilities
  /\ definition \subseteq Slugs
  /\ record \in [Records -> RecordRow \cup {NoRow, Erased}]
  /\ request \in [Requests -> RequestRow \cup {NoRow}]
  /\ candidate \in [Candidates -> CandidateRow \cup {NoRow}]
  /\ purge \in [Purges -> PurgeRow \cup {NoRow}]
  /\ retention \in [Slugs -> Nat \cup {None}]
  /\ clock \in Time

Init ==
  /\ owner = [s \in Slugs |-> None]
  /\ grants = {} /\ definition = {}
  /\ record = [i \in Records |-> NoRow]
  /\ request = [q \in Requests |-> NoRow]
  /\ candidate = [c \in Candidates |-> NoRow]
  /\ purge = [u \in Purges |-> NoRow]
  /\ retention = [s \in Slugs |-> None]
  /\ clock = 0

\* The next id of a table: ids are only compared.
Fresh(table, i) ==
  table[i] = NoRow /\ \A j \in DOMAIN table : j < i => table[j] # NoRow

----------------------------------------------------------------------------
(* Access *)

HasCapability(p, s, c) == owner[s] = p \/ <<s, p, c>> \in grants

\* Every command first creates the profile's private namespace.
Context(p) ==
  /\ owner[p] \in {None, p}
  /\ owner' = [owner EXCEPT ![p] = p]

\* The caller's own namespace by default, or one that is named and open.
VisibleNamespace(p, s, c) == s = p \/ (owner[s] # None /\ HasCapability(p, s, c))

CreateNamespace(p) ==
  /\ p \in Founders /\ owner[Shared] = None
  /\ owner[p] \in {None, p}
  /\ owner' = [owner EXCEPT ![p] = p, ![Shared] = p]
  /\ UNCHANGED <<grants, definition, record, request, candidate, purge,
                 retention, clock>>

\* grant looks the namespace and the grantee up, so both must exist.
GrantCapability(p, s, grantee, c) ==
  /\ Context(p)
  /\ owner'[s] # None /\ owner'[grantee] # None
  /\ owner'[s] = p \/ HasCapability(p, s, "admin")
  /\ grants' = grants \cup {<<s, grantee, c>>}
  /\ UNCHANGED <<definition, record, request, candidate, purge, retention,
                 clock>>

----------------------------------------------------------------------------
(* Payloads *)

Given(patch) ==
  [field |-> IF patch.field = Keep THEN Absent ELSE patch.field,
   text  |-> IF patch.text = Keep THEN Absent ELSE patch.text]
MergePatch(current, patch) ==
  [field |-> IF patch.field = Keep THEN current.field ELSE patch.field,
   text  |-> IF patch.text = Keep THEN current.text ELSE patch.text]

\* With an active definition the field is required, and a text that was not
\* given is derived from it and stored; without one, the identity stands in.
Valid(payload, defined) == defined => payload.field # Absent
SearchText(payload, patch, defined) ==
  IF patch.text # Keep THEN patch.text
  ELSE IF defined THEN payload.field ELSE ByIdentity
Stored(payload, patch, defined) ==
  IF defined /\ patch.text = Keep
  THEN [field |-> payload.field, text |-> payload.field] ELSE payload

----------------------------------------------------------------------------
(* Decisions *)

IsCurrent(r) ==
  r.status = "active" /\ r.from <= clock /\ (r.to = None \/ r.to > clock)

IdentityAvailable(s, i) ==
  \A r \in Records :
    ~(record[r].status = "active" /\ IsCurrent(record[r])
      /\ record[r].namespace = s /\ record[r].identity = i)

Close(rows, q, status, p) ==
  request' = [rows EXCEPT ![q].status = status, ![q].decided_by = p]

\* A create is published with the window it asked for, or with the
\* namespace's retention from its start on.
Published(key) ==
  LET from == IF key.window.from = None THEN clock ELSE key.window.from
  IN [status |-> "active", namespace |-> key.namespace,
      identity |-> key.identity, revision |-> 1, payload |-> key.payload,
      search |-> key.search, from |-> from,
      to |-> IF key.window.to # None THEN key.window.to
             ELSE IF retention[key.namespace] # None
             THEN from + retention[key.namespace] ELSE None]

ApplyDefinition(rows, q, p, key) ==
  /\ definition' = definition \cup {key.namespace}
  /\ Close(rows, q, IF key.namespace \in definition THEN "superseded"
                    ELSE "approved", p)
  /\ UNCHANGED record

ApplyCreate(rows, q, p, key) ==
  /\ IF IdentityAvailable(key.namespace, key.identity)
     THEN \E i \in Records :
            /\ Fresh(record, i)
            /\ record' = [record EXCEPT ![i] = Published(key)]
            /\ request' = [rows EXCEPT ![q].status = "approved",
                             ![q].decided_by = p, ![q].record = i]
     ELSE Close(rows, q, "superseded", p) /\ UNCHANGED record
  /\ UNCHANGED definition

\* An update takes its window's start from the record, its end from the
\* request, and is active whatever the record was.
Updated(row, key) ==
  [row EXCEPT !.status = "active", !.revision = @ + 1,
              !.payload = key.payload, !.search = key.search,
              !.from = IF key.window.from = None THEN @ ELSE key.window.from,
              !.to = key.window.to]
\* Mutant of Tombstone: the last revision is not counted.
SilentTombstone(row) == [row EXCEPT !.status = "tombstoned"]
Tombstone(row) == [row EXCEPT !.status = "tombstoned", !.revision = @ + 1]

\* Mutant of Stale: the expected revision is not compared.
NeverStale(row, key) == FALSE
Stale(row, key) == key.expected # None /\ row.revision # key.expected

\* A request whose record was purged raises and stays pending.
ApplyMutation(rows, q, p, key) ==
  LET i == key.record
  IN /\ record[i] \notin {NoRow, Erased}
     /\ IF Stale(record[i], key)
        THEN Close(rows, q, "superseded", p) /\ UNCHANGED record
        ELSE /\ Close(rows, q, "approved", p)
             /\ record' = [record EXCEPT ![i] =
                  IF key.operation = "update" THEN Updated(@, key)
                  ELSE Tombstone(@)]
     /\ UNCHANGED definition

Apply(rows, q, p) ==
  LET key == rows[q].key
  IN \/ key.type = "definition" /\ ApplyDefinition(rows, q, p, key)
     \/ /\ key.type = "item" /\ key.operation = "create"
        /\ ApplyCreate(rows, q, p, key)
     \/ key.operation # "create" /\ ApplyMutation(rows, q, p, key)

Overdue(row) == row.expires <= clock

Settle(rows, q, p, decision) ==
  IF Overdue(rows[q])
  THEN /\ request' = [rows EXCEPT ![q].status = "expired"]
       /\ UNCHANGED <<record, definition>>
  ELSE IF decision = "reject"
  THEN Close(rows, q, "rejected", p) /\ UNCHANGED <<record, definition>>
  ELSE Apply(rows, q, p)

Decidable(q) == request[q].status = "pending"

MayDecide(p, q) == HasCapability(p, request[q].key.namespace, "approve")

Decide(p, q, decision) ==
  /\ request[q] # NoRow /\ Decidable(q)
  /\ Context(p)
  /\ MayDecide(p, q)
  /\ Settle(request, q, p, decision)
  /\ UNCHANGED <<grants, candidate, purge, retention, clock>>

\* Listing the queue expires what the caller may see.
Pending(p) ==
  /\ Context(p)
  /\ request' = [q \in Requests |->
       IF /\ request[q].status = "pending" /\ Overdue(request[q])
          /\ \/ request[q].key.by = p
             \/ HasCapability(p, request[q].key.namespace, "approve")
       THEN [request[q] EXCEPT !.status = "expired"] ELSE request[q]]
  /\ UNCHANGED <<grants, definition, record, candidate, purge, retention, clock>>

----------------------------------------------------------------------------
(* Proposals *)

\* Mutant of Known: nothing is looked up.
NothingKnown(key) == {}
\* A submission whose digest is known returns the request it led to.
Known(key) == {q \in Requests : request[q] # NoRow /\ request[q].key = key}

Filed(q, key, patch) ==
  [request EXCEPT ![q] =
     [status |-> "pending", key |-> key, record |-> key.record,
      decided_by |-> None, expires |-> clock + TTL, patch |-> patch]]

\* The service approves at once where the policy says so.
ApproveIfAuto(rows, q, p) ==
  IF Policy[rows[q].key.operation] = "auto" /\ rows[q].status = "pending"
  THEN Settle(rows, q, p, "approve")
  ELSE request' = rows /\ UNCHANGED <<record, definition>>

Submit(p, key, patch) ==
  \/ \E q \in Known(key) : ApproveIfAuto(request, q, p)
  \/ /\ Known(key) = {}
     /\ \E q \in Requests : /\ Fresh(request, q)
                           /\ ApproveIfAuto(Filed(q, key, patch), q, p)

ProposeCreate(p, s, i, patch) ==
  LET defined == s \in definition
      payload == Stored(Given(patch), patch, defined)
      key == [by |-> p, operation |-> "create", type |-> "item",
              namespace |-> s, identity |-> i, record |-> None,
              payload |-> payload, search |-> SearchText(payload, patch, defined),
              expected |-> None, mode |-> "patch", window |-> Always,
              candidate |-> None]
  IN /\ Context(p)
     /\ VisibleNamespace(p, s, "propose") /\ Policy["create"] # "deny"
     /\ Valid(payload, defined)
     /\ IdentityAvailable(s, i)
     /\ Submit(p, key, patch)
     /\ UNCHANGED <<grants, candidate, purge, retention, clock>>

\* Updates and deletes are merged into the target before they are filed.  The
\* caller may name the revision it read; LookAhead is not allowed here.
ProposeMutation(p, operation, r, patch, mode, expected) ==
  LET row == record[r]
      defined == row.namespace \in definition
      merged == IF mode = "replace" THEN Given(patch)
                ELSE MergePatch(row.payload, patch)
      payload == Stored(merged, patch, defined)
      key == [by |-> p, operation |-> operation, type |-> "item",
              namespace |-> row.namespace, identity |-> row.identity,
              record |-> r, payload |-> payload,
              search |-> SearchText(merged, patch, defined),
              expected |-> expected, mode |-> mode,
              window |-> Always, candidate |-> None]
  IN /\ row.status = "active" /\ expected \in 1..row.revision
     /\ Context(p)
     /\ VisibleNamespace(p, row.namespace, "propose")
     /\ Policy[operation] # "deny"
     /\ Valid(merged, defined)
     /\ Submit(p, key, patch)
     /\ UNCHANGED <<grants, candidate, purge, retention, clock>>

\* A definition is filed under the one record type it defines.
ProposeInventory(p, s) ==
  LET nothing == [field |-> Absent, text |-> Absent]
      key == [by |-> p, operation |-> "create", type |-> "definition",
              namespace |-> s, identity |-> None, record |-> None,
              payload |-> nothing, search |-> ByIdentity, expected |-> None,
              mode |-> "patch", window |-> Always, candidate |-> None]
  IN /\ Context(p)
     /\ VisibleNamespace(p, s, "propose") /\ Policy["create"] # "deny"
     /\ s \notin definition
     /\ Submit(p, key, [field |-> Keep, text |-> Keep])
     /\ UNCHANGED <<grants, candidate, purge, retention, clock>>

----------------------------------------------------------------------------
(* Candidates *)

Matching(s, i) ==
  {r \in Records : /\ record[r].status = "active" /\ IsCurrent(record[r])
                   /\ record[r].namespace = s /\ record[r].identity = i}

\* A candidate that names a current record is assessed against it, any other
\* is filed as a create.
Assess(p, key, patch) ==
  LET matched == Matching(key.namespace, key.identity)
      r == CHOOSE r \in matched : \A other \in matched : r <= other
      same == /\ record[r].payload = key.payload
              /\ record[r].search = key.search
      Row(assessment, relation) ==
        [by |-> p, namespace |-> key.namespace, identity |-> key.identity,
         payload |-> key.payload, search |-> key.search,
         assessment |-> assessment, relation |-> relation,
         consolidation |-> None]
  IN \E c \in Candidates :
       /\ Fresh(candidate, c)
       /\ IF matched = {}
          THEN /\ candidate' = [candidate EXCEPT ![c] = Row("new", None)]
               /\ Submit(p, key, patch)
          ELSE /\ candidate' = [candidate EXCEPT ![c] =
                    Row(IF same THEN "duplicate" ELSE "conflict", r)]
               /\ UNCHANGED <<request, record, definition>>

SubmitCandidate(p, s, i, patch, window) ==
  LET defined == s \in definition
      payload == Stored(Given(patch), patch, defined)
      key == [by |-> p, operation |-> "create", type |-> "item",
              namespace |-> s, identity |-> i, record |-> None,
              payload |-> payload, search |-> SearchText(payload, patch, defined),
              expected |-> None, mode |-> "patch", window |-> window,
              candidate |-> None]
  IN /\ Context(p)
     /\ VisibleNamespace(p, s, "propose") /\ Policy["create"] # "deny"
     /\ Valid(payload, defined)
     /\ Assess(p, key, patch)
     /\ UNCHANGED <<grants, purge, retention, clock>>

\* Only the fields a candidate has are merged into the record.
AsPatch(payload) ==
  [field |-> IF payload.field = Absent THEN Keep ELSE payload.field,
   text  |-> IF payload.text = Absent THEN Keep ELSE payload.text]

\* A first consolidation files an update of the related record, unless the
\* record is gone; later ones return that request.
Consolidated(c) == candidate[c].consolidation # None

ConsolidateCandidate(p, c) ==
  LET row == candidate[c]
      r == row.relation
      patch == AsPatch(row.payload)
      key == [by |-> p, operation |-> "update", type |-> "item",
              namespace |-> row.namespace, identity |-> row.identity,
              record |-> r, payload |-> MergePatch(record[r].payload, patch),
              search |-> row.search, expected |-> record[r].revision,
              mode |-> "patch", window |-> Always, candidate |-> c]
  IN /\ row # NoRow /\ r # None /\ ~Consolidated(c)
     /\ HasCapability(p, row.namespace, "approve")
     /\ Policy["update"] # "deny"
     /\ record[r].status = "active"
     /\ \E q \in Requests :
          /\ Fresh(request, q)
          /\ candidate' = [candidate EXCEPT ![c].consolidation = q]
          /\ ApproveIfAuto(Filed(q, key, patch), q, p)
     /\ UNCHANGED <<access, purge, retention, clock>>

----------------------------------------------------------------------------
(* Lifecycle *)

\* Mutant of Due: a record is due in the last instant of its window.
DueEarly(r) == record[r].status = "active" /\ record[r].to # None
               /\ record[r].to <= clock + 1

Due(r) == record[r].status = "active" /\ record[r].to # None
          /\ record[r].to <= clock
\* The loop visits due records by id and raises at the first one the caller
\* may not touch: the ones before it stay expired.
ExpireRecords(p, limit) ==
  LET due == {r \in Records : Due(r)}
      denied == {r \in due : ~HasCapability(p, record[r].namespace, "approve")}
      reached == {r \in due : /\ \A d \in denied : r < d
                              /\ Cardinality({d \in due : d < r}) < limit}
  IN /\ Context(p)
     /\ record' = [r \in Records |->
          IF r \in reached THEN [record[r] EXCEPT !.status = "expired"]
          ELSE record[r]]
     /\ UNCHANGED <<grants, definition, request, candidate, purge, retention,
                    clock>>

SetRetention(p, s, seconds) ==
  /\ Context(p)
  /\ owner[s] # None /\ HasCapability(p, s, "admin")
  /\ retention' = [retention EXCEPT ![s] = seconds]
  /\ UNCHANGED <<grants, definition, record, request, candidate, purge, clock>>

RequestHardPurge(p, r) ==
  /\ record[r] \notin {NoRow, Erased}
  /\ HasCapability(p, record[r].namespace, "admin")
  /\ Context(p)
  /\ \E u \in Purges :
       /\ Fresh(purge, u)
       /\ purge' = [purge EXCEPT ![u] =
                      [status |-> "pending", record |-> r, by |-> p,
                       approved_by |-> None]]
  /\ UNCHANGED <<grants, definition, record, request, candidate, retention,
                 clock>>

\* The second administrator must be another one; a record that is gone raises.
Independent(p, u) == purge[u].by # p
ApproveHardPurge(p, u) ==
  /\ purge[u].status = "pending" /\ Independent(p, u)
  /\ record[purge[u].record] # Erased
  /\ HasCapability(p, record[purge[u].record].namespace, "admin")
  /\ Context(p)
  /\ record' = [record EXCEPT ![purge[u].record] = Erased]
  /\ purge' = [purge EXCEPT ![u].status = "purged", ![u].approved_by = p]
  /\ UNCHANGED <<grants, definition, request, candidate, retention, clock>>

Tick ==
  /\ clock < MaxTime
  /\ clock' = clock + 1
  /\ UNCHANGED <<owner, grants, definition, record, request, candidate, purge,
                 retention>>

----------------------------------------------------------------------------
Next ==
  \/ Tick
  \/ \E p \in Profiles :
       \/ CreateNamespace(p)
       \/ Pending(p)
       \/ \E limit \in 1..MaxRecords : ExpireRecords(p, limit)
       \/ \E g \in Grantable : GrantCapability(p, g[1], g[2], g[3])
       \/ \E s \in Named, seconds \in Retentions : SetRetention(p, s, seconds)
       \/ \E s \in Inventories : ProposeInventory(p, s)
       \/ \E s \in Named, i \in Identities, patch \in CreatePatches :
            \/ ProposeCreate(p, s, i, patch)
            \/ \E window \in Windows : SubmitCandidate(p, s, i, patch, window)
       \/ \E q \in Requests, decision \in {"approve", "reject"} :
            Decide(p, q, decision)
       \/ \E r \in Records, expected \in 1..MaxRequests :
            \/ ProposeMutation(p, "delete", r, [field |-> Keep, text |-> Keep],
                               "patch", expected)
            \/ \E patch \in UpdatePatches, mode \in UpdateModes :
                 ProposeMutation(p, "update", r, patch, mode, expected)
       \/ \E c \in Candidates : ConsolidateCandidate(p, c)
       \/ \E r \in Records : RequestHardPurge(p, r)
       \/ \E u \in Purges : ApproveHardPurge(p, u)

Spec == Init /\ [][Next]_vars

----------------------------------------------------------------------------
(* Properties *)

\* A record for itself: an expired one counts as live, for an approved update
\* makes it active again, and an identity is not a slot of its own, for a record
\* whose window is closed leaves its identity to others before it expires.
Versions == INSTANCE VersionedRecords WITH
  Ids <- Records,
  Slots <- Records,
  Contents <- Payloads \X SearchTexts,
  cell <- [r \in Records |->
    IF record[r] = NoRow THEN [state |-> "unborn"]
    ELSE IF record[r] = Erased THEN [state |-> "erased"]
    ELSE [state   |-> IF record[r].status = "tombstoned" THEN "closed" ELSE "live",
          slot    |-> r,
          version |-> record[r].revision,
          content |-> <<record[r].payload, record[r].search>>]]

\* Of the promise of the PostgreSQL store the in-memory store keeps what
\* concerns one record: its content changes with its revision, one by one, a
\* tombstone is the last, and a purged record does not return.
ImplementsVersionedRecords == Versions!Spec

Approved(r) == {q \in Requests : request[q].status = "approved"
                                 /\ request[q].record = r}

\* A record is what its approved requests made of it: one create, then one
\* mutation per revision, each approved at the revision it expected, and the
\* content of the latest one that wrote.
HistoryMatches == \A r \in Records : record[r] \notin {NoRow, Erased} =>
  LET creates == {q \in Approved(r) : request[q].key.operation = "create"}
      changes == Approved(r) \ creates
      writes == {q \in changes : request[q].key.operation = "update"}
      last == IF writes = {} THEN creates
              ELSE {q \in writes : \A w \in writes :
                      request[w].key.expected <= request[q].key.expected}
  IN /\ Cardinality(creates) = 1
     /\ Cardinality(changes) = record[r].revision - 1
     /\ {request[q].key.expected : q \in changes} = 1..(record[r].revision - 1)
     /\ \A q \in last : /\ record[r].payload = request[q].key.payload
                        /\ record[r].search = request[q].key.search

\* What was approved was approved by someone who may approve in its
\* namespace, or by its author where the policy needs no reviewer.
ApprovalsAuthorised == \A q \in Requests : request[q].status = "approved" =>
  \/ HasCapability(request[q].decided_by, request[q].key.namespace, "approve")
  \/ /\ Policy[request[q].key.operation] = "auto"
     /\ request[q].decided_by = request[q].key.by

\* A submission that is repeated, whatever happened in between, leads to one
\* request.
RetriesAreIdempotent == \A q, o \in Requests :
  request[q] # NoRow /\ request[o] # NoRow /\ q # o =>
    request[q].key # request[o].key

\* However often and by whomever a candidate is consolidated, it changes its
\* record once.
ConsolidatedOnce == \A c \in Candidates :
  Cardinality({q \in Requests : request[q] # NoRow
                                /\ request[q].key.candidate = c}) <= 1

\* A purged record is gone for good and was condemned by two people.
PurgedByTwo == \A r \in Records : record[r] = Erased =>
  \E u \in Purges : purge[u].status = "purged" /\ purge[u].record = r
                    /\ purge[u].by # purge[u].approved_by

\* A record expires only after the window its create asked for, however long
\* the approval and however often expiry is run.
WindowHonoured == \A r \in Records : \A q \in Approved(r) :
  /\ record[r].status = "expired" /\ request[q].key.operation = "create"
  /\ request[q].key.window.to # None
  => request[q].key.window.to <= clock

\* A record is, at any time, what people who may approve made of it, and none
\* was erased by one person alone.
ChangesReviewed ==
  TypeOK /\ HistoryMatches /\ ApprovalsAuthorised /\ PurgedByTwo

\* Neither a proposal that is repeated nor a candidate that is consolidated
\* again leads to a second request.
OneRequestEach == RetriesAreIdempotent /\ ConsolidatedOnce

==============================================================================
