----------------------------- MODULE Migrations -----------------------------
(***************************************************************************)
(* DatabaseMigrator: processes that migrate one schema, each with the      *)
(* migrations of its own binary, and processes that bootstrap profiles,    *)
(* any of which may fail in the middle.  A call is one transaction under   *)
(* READ COMMITTED: what it writes is kept with it until it commits, and a  *)
(* statement that meets an uncommitted row with its key waits.             *)
(*                                                                         *)
(* A migration is its checksum.  Of what migrations do only the table      *)
(* operation_policy is kept, which one creates and two fill for the        *)
(* profiles there are.                                                     *)
(***************************************************************************)
EXTENDS Integers, Sequences, FiniteSets

CONSTANTS
  Processes,
  Releases,    \* the migrations of each binary in use: sequences of checksums
  Checksums,
  MaxVersion,  \* bound: the versions there are
  Backfills,   \* versions that fill operation_policy; the first one creates it
  Slugs, Roles,
  Policies,    \* the configured policies
  Required,    \* what the backfills write: require, for a day
  Null

MigrationConstants ==
  /\ MaxVersion \in Nat
  /\ Releases \subseteq Seq(Checksums)
  /\ \A release \in Releases : Len(release) \in 1..MaxVersion
  /\ Backfills \subseteq 1..MaxVersion /\ Backfills # {}
  /\ Required \in Policies /\ Null \notin Policies \cup Roles \cup Processes

VARIABLES
  history,  \* schema_migration: the checksums applied, by version
  profile,  \* profile: the runtime role of a slug
  policy,   \* operation_policy, by slug and operation: whose values the row has
  tx,       \* the transactions
  lock      \* who holds the advisory lock

vars == <<history, profile, policy, tx, lock>>

Operations == {"create", "delete", "update"}
Sorted == <<"create", "delete", "update">>
Rows == Slugs \X Operations
Histories == UNION {[versions -> Checksums] : versions \in SUBSET (1..MaxVersion)}

Idle == [pc |-> "idle"]

Migrating ==
  [pc : {"lock", "validate", "apply", "commit"}, release : Releases,
   next : 1..MaxVersion + 1, rows : Histories, filled : SUBSET Rows]

Bootstrapping ==
  [pc : {"select", "insert", "upsert", "done"}, slug : Slugs, role : Roles,
   policy : Policies, inserted : BOOLEAN, written : 0..3]

IsMigrating(p) == tx[p] \in Migrating
IsBootstrapping(p) == tx[p] \in Bootstrapping

\* Tables and transactions hold rows of their kind, and only the holder of the
\* lock is past asking for it.
TypeOK ==
  /\ history \in Histories
  /\ profile \in [Slugs -> Roles \cup {Null}]
  /\ policy \in [Slugs -> [Operations -> Policies \cup {Null}]]
  /\ tx \in [Processes -> Migrating \cup Bootstrapping \cup {Idle}]
  /\ lock \in Processes \cup {Null}
  /\ \A p \in Processes : lock = p <=> IsMigrating(p) /\ tx[p].pc # "lock"

Created == CHOOSE v \in Backfills : \A w \in Backfills : v <= w
HasTable == Created \in DOMAIN history

\* Any history a release, a restored backup or a hand may have left; profiles
\* of earlier releases have a policy since there is a table for it.
Init ==
  /\ history \in Histories
  /\ profile \in [Slugs -> Roles \cup {Null}]
  /\ \A s, t \in Slugs : s # t /\ profile[s] # Null => profile[s] # profile[t]
  /\ 1 \notin DOMAIN history => \A s \in Slugs : profile[s] = Null
  /\ policy = [s \in Slugs |-> [o \in Operations |->
       IF profile[s] # Null /\ HasTable THEN Required ELSE Null]]
  /\ tx = [p \in Processes |-> Idle]
  /\ lock = Null

Extended(f, v, x) ==
  [w \in DOMAIN f \cup {v} |-> IF w = v THEN x ELSE f[w]]

\* schema_migration as a transaction sees it.
Seen(p) ==
  [v \in DOMAIN history \cup DOMAIN tx[p].rows |->
     IF v \in DOMAIN tx[p].rows THEN tx[p].rows[v] ELSE history[v]]

\* The operations a bootstrap writes, one after the other.
Written(chosen, i) == Sorted[i]

\* The rows a transaction has written and not committed.
Uncommitted(p) ==
  CASE IsMigrating(p) -> tx[p].filled
    [] IsBootstrapping(p) ->
         {<<tx[p].slug, Written(tx[p].policy, i)>> : i \in 1..tx[p].written}
    [] OTHER -> {}

\* ON CONFLICT DO NOTHING, for the profiles that are committed.
Missing(version) ==
  IF version \in Backfills
  THEN {r \in Rows : profile[r[1]] # Null /\ policy[r[1]][r[2]] = Null}
  ELSE {}

\* The policies the next statement of a transaction writes.
NextRows(p) ==
  LET me == tx[p] IN
  CASE IsMigrating(p) /\ me.pc = "apply" /\ me.next <= Len(me.release)
         /\ me.next \notin DOMAIN Seen(p) -> Missing(me.next)
    [] IsBootstrapping(p) /\ me.pc = "upsert" /\ HasTable ->
         {<<me.slug, Written(me.policy, me.written + 1)>>}
    [] OTHER -> {}

\* slug and runtime_role are unique.
SameProfile(p, q) ==
  /\ IsBootstrapping(p) /\ tx[p].pc = "insert"
  /\ IsBootstrapping(q) /\ tx[q].inserted
  /\ tx[p].slug = tx[q].slug \/ tx[p].role = tx[q].role

\* Whom a transaction waits for: the holder of the lock, or who has written a
\* row with a key it is about to write and has not committed.
WaitsFor(p) ==
  {q \in Processes \ {p} :
     \/ IsMigrating(p) /\ tx[p].pc = "lock" /\ lock = q
     \/ SameProfile(p, q)
     \/ NextRows(p) \cap Uncommitted(q) # {}}

\* An exception leaves the with block: nothing is kept, the lock is released.
Rollback(p) ==
  /\ tx' = [tx EXCEPT ![p] = Idle]
  /\ lock' = IF lock = p THEN Null ELSE lock
  /\ UNCHANGED <<history, profile, policy>>

----------------------------------------------------------------------------
(* migrate *)

StartMigration(p, release) ==
  /\ tx[p] = Idle
  /\ tx' = [tx EXCEPT ![p] =
       [pc |-> "lock", release |-> release, next |-> 1, rows |-> <<>>, filled |-> {}]]
  /\ UNCHANGED <<history, profile, policy, lock>>

Lock(p) ==
  /\ IsMigrating(p) /\ tx[p].pc = "lock"
  /\ WaitsFor(p) = {}
  /\ lock' = p
  /\ tx' = [tx EXCEPT ![p].pc = "validate"]
  /\ UNCHANGED <<history, profile, policy>>

\* Mutant of Accepts: the database may be ahead of the binary.
AcceptsNewer(release) ==
  /\ DOMAIN history = 1..Cardinality(DOMAIN history)
  /\ \A v \in DOMAIN history \cap DOMAIN release : history[v] = release[v]

\* _validate_applied: no version of another binary, no gap, no other checksum.
Accepts(release) ==
  /\ DOMAIN history \subseteq DOMAIN release
  /\ DOMAIN history = 1..Cardinality(DOMAIN history)
  /\ \A v \in DOMAIN history : history[v] = release[v]

Validate(p) ==
  /\ IsMigrating(p) /\ tx[p].pc = "validate"
  /\ IF Accepts(tx[p].release)
     THEN /\ tx' = [tx EXCEPT ![p].pc = "apply"]
          /\ UNCHANGED <<history, profile, policy, lock>>
     ELSE Rollback(p)

\* One migration: already applied, changed after its application, or applied
\* now.
ApplyNext(p) ==
  LET me == tx[p]
      v == me.next
  IN /\ IsMigrating(p) /\ me.pc = "apply" /\ v <= Len(me.release)
     /\ IF v \in DOMAIN Seen(p)
        THEN IF Seen(p)[v] # me.release[v] THEN Rollback(p)
             ELSE /\ tx' = [tx EXCEPT ![p].next = v + 1]
                  /\ UNCHANGED <<history, profile, policy, lock>>
        ELSE /\ WaitsFor(p) = {}
             /\ tx' = [tx EXCEPT ![p].next = v + 1,
                                 ![p].rows = Extended(@, v, me.release[v]),
                                 ![p].filled = @ \cup Missing(v)]
             /\ UNCHANGED <<history, profile, policy, lock>>

Ready(p) ==
  /\ IsMigrating(p) /\ tx[p].pc = "apply" /\ tx[p].next > Len(tx[p].release)
  /\ tx' = [tx EXCEPT ![p].pc = "commit"]
  /\ UNCHANGED <<history, profile, policy, lock>>

Commit(p) ==
  /\ IsMigrating(p) /\ tx[p].pc = "commit"
  /\ history' = Seen(p)
  /\ policy' = [s \in Slugs |-> [o \in Operations |->
       IF <<s, o>> \in tx[p].filled THEN Required ELSE policy[s][o]]]
  /\ tx' = [tx EXCEPT ![p] = Idle]
  /\ lock' = Null
  /\ UNCHANGED profile

----------------------------------------------------------------------------
(* bootstrap_profile *)

StartBootstrap(p, slug, role, chosen) ==
  /\ tx[p] = Idle
  /\ tx' = [tx EXCEPT ![p] =
       [pc |-> "select", slug |-> slug, role |-> role, policy |-> chosen,
        inserted |-> FALSE, written |-> 0]]
  /\ UNCHANGED <<history, profile, policy, lock>>

\* A missing table, or a profile bound to another role, raises.
SelectProfile(p) ==
  LET me == tx[p] IN
  /\ IsBootstrapping(p) /\ me.pc = "select"
  /\ IF \/ 1 \notin DOMAIN history
        \/ profile[me.slug] \notin {Null, me.role}
     THEN Rollback(p)
     ELSE /\ tx' = [tx EXCEPT ![p].pc =
                      IF profile[me.slug] = Null THEN "insert" ELSE "upsert"]
          /\ UNCHANGED <<history, profile, policy, lock>>

\* A committed row with its slug or role raises.
InsertProfile(p) ==
  LET me == tx[p] IN
  /\ IsBootstrapping(p) /\ me.pc = "insert"
  /\ WaitsFor(p) = {}
  /\ IF profile[me.slug] # Null \/ \E s \in Slugs : profile[s] = me.role
     THEN Rollback(p)
     ELSE /\ tx' = [tx EXCEPT ![p].pc = "upsert", ![p].inserted = TRUE]
          /\ UNCHANGED <<history, profile, policy, lock>>

UpsertPolicy(p) ==
  LET me == tx[p] IN
  /\ IsBootstrapping(p) /\ me.pc = "upsert"
  /\ IF ~HasTable THEN Rollback(p)
     ELSE /\ WaitsFor(p) = {}
          /\ tx' = [tx EXCEPT ![p].written = @ + 1,
                              ![p].pc = IF me.written = 2 THEN "done" ELSE @]
          /\ UNCHANGED <<history, profile, policy, lock>>

\* Mutant of CommitBootstrap: autocommit, after any statement.
AutoCommit(p) ==
  LET me == tx[p] IN
  /\ IsBootstrapping(p) /\ me.pc \in {"upsert", "done"}
  /\ profile' = [profile EXCEPT ![me.slug] = me.role]
  /\ policy' = [policy EXCEPT ![me.slug] = [o \in Operations |->
       IF <<me.slug, o>> \in Uncommitted(p) THEN me.policy ELSE @[o]]]
  /\ tx' = [tx EXCEPT ![p] = Idle]
  /\ UNCHANGED <<history, lock>>

CommitBootstrap(p) ==
  LET me == tx[p] IN
  /\ IsBootstrapping(p) /\ me.pc = "done"
  /\ profile' = [profile EXCEPT ![me.slug] = me.role]
  /\ policy' = [policy EXCEPT ![me.slug] = [o \in Operations |-> me.policy]]
  /\ tx' = [tx EXCEPT ![p] = Idle]
  /\ UNCHANGED <<history, lock>>

\* A statement fails, or the process or its connection dies.
Fail(p) == tx[p] # Idle /\ Rollback(p)

----------------------------------------------------------------------------

MigrationStep(p) ==
  Lock(p) \/ Validate(p) \/ ApplyNext(p) \/ Ready(p) \/ Commit(p)
BootstrapStep(p) ==
  SelectProfile(p) \/ InsertProfile(p) \/ UpsertPolicy(p) \/ CommitBootstrap(p)

Next ==
  \E p \in Processes :
    \/ \E release \in Releases : StartMigration(p, release)
    \/ \E slug \in Slugs, role \in Roles, chosen \in Policies :
         StartBootstrap(p, slug, role, chosen)
    \/ MigrationStep(p)
    \/ BootstrapStep(p)
    \/ Fail(p)

Spec == Init /\ [][Next]_vars

----------------------------------------------------------------------------
(* Properties *)

\* A migrate that is about to succeed has applied exactly its own migrations,
\* whoever migrated, with whatever binary, since it began: it fails closed.
UpToDate ==
  \A p \in Processes :
    IsMigrating(p) /\ tx[p].pc = "commit" => Seen(p) = tx[p].release

\* A step of the history turns the beginning of a release into that release.
Released ==
  history' # history =>
    /\ history' \in Releases
    /\ \E n \in 0..MaxVersion : DOMAIN history = 1..n
    /\ \A v \in DOMAIN history : history'[v] = history[v]

\* Once there are policies, every profile has all of one bootstrap, or of the
\* backfill, however bootstraps and migrations overlap: operation_policy()
\* never finds a policy incomplete, or mixed.
PolicyOfOneBootstrap ==
  \A s \in Slugs :
    profile[s] # Null /\ HasTable =>
      \E chosen \in Policies : \A o \in Operations : policy[s][o] = chosen

=============================================================================
