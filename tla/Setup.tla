------------------------------- MODULE Setup -------------------------------
(***************************************************************************)
(* The interactive setup: for each profile a wizard that provisions a      *)
(* database, migrates, bootstraps and checks it, and only then saves the   *)
(* settings to the files of the profile.  The statements of provisioning   *)
(* commit one by one, so a wizard that ends in the middle leaves what it   *)
(* did, and the operator starts again, perhaps with other answers, while   *)
(* the wizards of other profiles prepare the same database.                *)
(*                                                                         *)
(* There is one server with one database of interest.  Migrate and         *)
(* bootstrap are one step each: Migrations looks inside.                   *)
(***************************************************************************)
EXTENDS Integers, Functions

CONSTANTS
  Profiles,     \* each with a home and at most one wizard
  Roles,
  Passwords,
  Answers,      \* what operators may answer
  Clusters,     \* the states the server may be in before: <<role, database>>
  Privileged,   \* the roles that are superusers or own forbidden privileges
  MaxEdits,     \* bound: the edits of the files by others
  MaxFailures,  \* bound: the wizards that fail or are killed
  Null

Settings == [runtime : Roles, password : Passwords, danger : BOOLEAN]

Answer ==
  [runtime : Roles, owner : Roles, password : [Roles -> Passwords],
   danger : BOOLEAN, provision : BOOLEAN, activate : BOOLEAN]

NoDatabase == [owner |-> Null]
Database ==
  [owner : Roles, public : BOOLEAN, connect : SUBSET Roles, extensions : BOOLEAN]

\* A plan raises when its roles do not fit its mode.
ASSUME SetupConstants ==
  /\ MaxEdits \in Nat /\ MaxFailures \in Nat
  /\ Privileged \subseteq Roles
  /\ Clusters \subseteq [Roles -> Passwords \cup {Null}] \X (Database \cup {NoDatabase})
  /\ \A p \in Profiles : Answers[p] \subseteq Answer
  /\ \A p \in Profiles : \A a \in Answers[p] : a.danger <=> a.owner = a.runtime
  /\ Null \notin Roles \cup Passwords \cup Settings

VARIABLES
  role,      \* the password of each role of the server
  database,  \* owner, extensions and who may connect
  schema,    \* owner of the migrated schema, runtime roles of profiles, grants
  env,       \* .env of each profile: the settings, and the rest
  config,    \* config.yaml: whether this plugin is memory.provider, the rest
  edits,     \* the edits of the rest of the files by others
  wizard,    \* the local variables of each wizard
  failures,  \* the wizards that failed so far
  torn       \* history: the profiles whose last save was interrupted too late

server == <<role, database, schema>>
files == <<env, config>>
vars == <<server, files, edits, wizard, failures, torn>>

Schema ==
  [owner : Roles \cup {Null}, bound : [Profiles -> Roles \cup {Null}],
   granted : SUBSET Roles]

Env == [settings : Settings \cup {Null}, rest : Nat]
Config == [provider : BOOLEAN, rest : Nat]
Idle == [pc |-> "idle"]

Stages ==
  {"look", "owner role", "runtime role", "create", "revoke", "connect",
   "extensions", "verify", "migrate", "bootstrap", "grant", "doctor",
   "compare", "env", "config", "restore"}

Wizard ==
  [pc : Stages, answer : Answer, env : Env, config : Config, existing : BOOLEAN]

\* Every variable has its shape; schema objects need a database.
TypeOK ==
  /\ role \in [Roles -> Passwords \cup {Null}]
  /\ database \in Database \cup {NoDatabase}
  /\ schema \in Schema
  /\ env \in [Profiles -> Env] /\ config \in [Profiles -> Config]
  /\ edits \in [Profiles -> [env : Nat, config : Nat]]
  /\ wizard \in [Profiles -> Wizard \cup {Idle}]
  /\ failures \in 0..MaxFailures
  /\ torn \subseteq Profiles
  /\ schema.owner = Null =>
       schema.granted = {} /\ \A p \in Profiles : schema.bound[p] = Null
  /\ database = NoDatabase => schema.owner = Null

Init ==
  /\ \E cluster \in Clusters : role = cluster[1] /\ database = cluster[2]
  /\ schema = [owner |-> Null, bound |-> [p \in Profiles |-> Null], granted |-> {}]
  /\ env = [p \in Profiles |-> [settings |-> Null, rest |-> 0]]
  /\ config = [p \in Profiles |-> [provider |-> FALSE, rest |-> 0]]
  /\ edits = [p \in Profiles |-> [env |-> 0, config |-> 0]]
  /\ wizard = [p \in Profiles |-> Idle]
  /\ failures = 0
  /\ torn = {}

At(p, stage) == wizard[p] # Idle /\ wizard[p].pc = stage
GoTo(p, stage) == wizard' = [wizard EXCEPT ![p].pc = stage]

\* An exception: the wizard ends, and what it did stays.
GiveUp(p) == wizard' = [wizard EXCEPT ![p] = Idle] /\ UNCHANGED <<server, files>>

Rest == <<edits, failures, torn>>

----------------------------------------------------------------------------
(* The questions, up to the confirmation *)

\* The files are read first; what they will be is rendered before anything
\* is applied.
Start(p, answer) ==
  /\ wizard[p] = Idle
  /\ wizard' = [wizard EXCEPT ![p] =
       [pc |-> IF answer.provision THEN "look" ELSE "verify", answer |-> answer,
        env |-> env[p], config |-> config[p], existing |-> FALSE]]
  /\ UNCHANGED <<server, files, Rest>>

(* provision_database, statement by statement *)

LookForDatabase(p) ==
  /\ At(p, "look")
  /\ IF database # NoDatabase /\ database.owner # wizard[p].answer.owner
     THEN GiveUp(p)
     ELSE /\ wizard' = [wizard EXCEPT ![p].pc = "owner role",
                                      ![p].existing = database # NoDatabase]
          /\ UNCHANGED <<server, files>>
  /\ UNCHANGED Rest

\* CREATE ROLE, unless the role exists: then its password is left alone.
Created(r, password) ==
  role' = [role EXCEPT ![r] = IF @ = Null THEN password ELSE @]

CreateRole(p, stage, r, next) ==
  /\ At(p, stage)
  /\ Created(r, wizard[p].answer.password[r])
  /\ GoTo(p, next)
  /\ UNCHANGED <<database, schema, files, Rest>>

CreateRoles(p) ==
  LET me == wizard[p] IN
  \/ At(p, "owner role") /\ CreateRole(p, "owner role", me.answer.owner, "runtime role")
  \/ At(p, "runtime role")
       /\ CreateRole(p, "runtime role", me.answer.runtime,
                     IF me.existing THEN "connect" ELSE "create")

\* Another wizard may have created it since this one looked.
CreateDatabase(p) ==
  /\ At(p, "create")
  /\ IF database # NoDatabase THEN GiveUp(p)
     ELSE /\ database' = [owner |-> wizard[p].answer.owner, public |-> TRUE,
                          connect |-> {}, extensions |-> FALSE]
          /\ GoTo(p, "revoke")
          /\ UNCHANGED <<role, schema, files>>
  /\ UNCHANGED Rest

RevokePublic(p) ==
  /\ At(p, "revoke")
  /\ database' = [database EXCEPT !.public = FALSE]
  /\ GoTo(p, "connect")
  /\ UNCHANGED <<role, schema, files, Rest>>

\* Mutant of GrantConnect: only for a database it has created.
GrantConnectIfNew(p) ==
  /\ At(p, "connect")
  /\ database' = [database EXCEPT !.connect =
       IF wizard[p].existing THEN @ ELSE @ \cup {wizard[p].answer.runtime}]
  /\ GoTo(p, "extensions")
  /\ UNCHANGED <<role, schema, files, Rest>>

GrantConnect(p) ==
  /\ At(p, "connect")
  /\ database' = [database EXCEPT !.connect = @ \cup {wizard[p].answer.runtime}]
  /\ GoTo(p, "extensions")
  /\ UNCHANGED <<role, schema, files, Rest>>

CreateExtensions(p) ==
  /\ At(p, "extensions")
  /\ database' = [database EXCEPT !.extensions = TRUE]
  /\ GoTo(p, "verify")
  /\ UNCHANGED <<role, schema, files, Rest>>

Provision(p) ==
  \/ LookForDatabase(p) \/ CreateRoles(p) \/ CreateDatabase(p)
  \/ RevokePublic(p) \/ GrantConnect(p) \/ CreateExtensions(p)

----------------------------------------------------------------------------
(* setup_database, after provisioning *)

Connects(r, password) ==
  /\ role[r] = password
  /\ database # NoDatabase
  /\ database.owner = r \/ database.public \/ r \in database.connect

\* Both accounts log in.
Verify(p) ==
  LET a == wizard[p].answer IN
  /\ At(p, "verify")
  /\ IF \A r \in {a.runtime, a.owner} : Connects(r, a.password[r])
     THEN GoTo(p, "migrate") /\ UNCHANGED <<server, files>>
     ELSE GiveUp(p)
  /\ UNCHANGED Rest

\* The owner of the database creates the schema, for which the extensions must
\* be there; later migrates are its owner's.
Migrate(p) ==
  LET owner == wizard[p].answer.owner IN
  /\ At(p, "migrate")
  /\ IF \/ schema.owner = Null /\ database.owner = owner /\ database.extensions
        \/ schema.owner = owner
     THEN /\ schema' = [schema EXCEPT !.owner = owner]
          /\ GoTo(p, "bootstrap")
          /\ UNCHANGED <<role, database, files>>
     ELSE GiveUp(p)
  /\ UNCHANGED Rest

\* A profile keeps its role, and a role its profile.
Bootstrap(p) ==
  LET runtime == wizard[p].answer.runtime IN
  /\ At(p, "bootstrap")
  /\ IF \/ schema.bound[p] \notin {Null, runtime}
        \/ \E q \in Profiles \ {p} : schema.bound[q] = runtime
     THEN GiveUp(p)
     ELSE /\ schema' = [schema EXCEPT !.bound[p] = runtime]
          /\ GoTo(p, IF wizard[p].answer.danger THEN "doctor" ELSE "grant")
          /\ UNCHANGED <<role, database, files>>
  /\ UNCHANGED Rest

\* grant_runtime, one transaction.
GrantRuntime(p) ==
  LET runtime == wizard[p].answer.runtime IN
  /\ At(p, "grant")
  /\ database' = [database EXCEPT !.connect = @ \cup {runtime}]
  /\ schema' = [schema EXCEPT !.granted = @ \cup {runtime}]
  /\ GoTo(p, "doctor")
  /\ UNCHANGED <<role, files, Rest>>

\* What deployment_preflight asks of the runtime role.
Authority(r) == r \in Privileged \/ schema.owner = r
Usable(r) == schema.owner = r \/ r \in schema.granted

Preflight(settings) ==
  /\ Connects(settings.runtime, settings.password)
  /\ Usable(settings.runtime)
  /\ settings.danger \/ ~Authority(settings.runtime)

\* SetupPlan.settings
SettingsOf(answer) ==
  [runtime |-> answer.runtime, password |-> answer.password[answer.runtime],
   danger |-> answer.danger]

\* Mutant of Doctor: authority is a warning in any mode.
DoctorWarns(p) ==
  /\ At(p, "doctor")
  /\ IF Preflight([SettingsOf(wizard[p].answer) EXCEPT !.danger = TRUE])
     THEN GoTo(p, "compare") /\ UNCHANGED <<server, files>>
     ELSE GiveUp(p)
  /\ UNCHANGED Rest

Doctor(p) ==
  /\ At(p, "doctor")
  /\ IF Preflight(SettingsOf(wizard[p].answer))
     THEN GoTo(p, "compare") /\ UNCHANGED <<server, files>>
     ELSE GiveUp(p)
  /\ UNCHANGED Rest

Prepare(p) ==
  Verify(p) \/ Migrate(p) \/ Bootstrap(p) \/ GrantRuntime(p) \/ Doctor(p)

----------------------------------------------------------------------------
(* ProfileFiles.commit *)

Unchanged(p) == env[p] = wizard[p].env /\ config[p] = wizard[p].config

Compare(p) ==
  /\ At(p, "compare")
  /\ IF Unchanged(p) THEN GoTo(p, "env") /\ UNCHANGED <<server, files>>
     ELSE GiveUp(p)
  /\ UNCHANGED Rest

\* The rendered files keep everything else as it was when it was read.
ReplaceEnv(p) ==
  /\ At(p, "env")
  /\ env' = [env EXCEPT ![p] =
       [settings |-> SettingsOf(wizard[p].answer), rest |-> wizard[p].env.rest]]
  /\ GoTo(p, "config")
  /\ UNCHANGED <<server, config, Rest>>

Rendered(p) ==
  [provider |-> wizard[p].config.provider \/ wizard[p].answer.activate,
   rest |-> wizard[p].config.rest]

\* Whatever is raised leads to the old .env: before the replacement, or by an
\* interrupt that arrives after it.
ReplaceConfig(p) ==
  /\ At(p, "config")
  /\ \/ /\ config' = [config EXCEPT ![p] = Rendered(p)]
        /\ wizard' = [wizard EXCEPT ![p] = Idle]
        /\ torn' = torn \ {p}
        /\ UNCHANGED failures
     \/ /\ failures < MaxFailures /\ failures' = failures + 1
        /\ GoTo(p, "restore")
        /\ \/ UNCHANGED <<config, torn>>
           \/ /\ config' = [config EXCEPT ![p] = Rendered(p)]
              /\ torn' = torn \cup {p}
  /\ UNCHANGED <<server, env, edits>>

RestoreEnv(p) ==
  /\ At(p, "restore")
  /\ env' = [env EXCEPT ![p] = wizard[p].env]
  /\ wizard' = [wizard EXCEPT ![p] = Idle]
  /\ UNCHANGED <<server, config, Rest>>

Save(p) == Compare(p) \/ ReplaceEnv(p) \/ ReplaceConfig(p) \/ RestoreEnv(p)

----------------------------------------------------------------------------
(* Meanwhile *)

\* Any step raises before it has an effect, or the process is killed.
Fail(p) ==
  /\ wizard[p] # Idle /\ failures < MaxFailures
  /\ failures' = failures + 1
  /\ GiveUp(p)
  /\ UNCHANGED <<edits, torn>>

Saving(p) == \E stage \in {"env", "config", "restore"} : At(p, stage)

MayEdit ==
  FoldFunction(LAMBDA e, sum : e.env + e.config + sum, 0, edits) < MaxEdits

\* Someone edits a file, not while setup saves it, as README.md asks.
EditEnv(p) ==
  /\ ~Saving(p) /\ MayEdit
  /\ edits' = [edits EXCEPT ![p].env = @ + 1]
  /\ env' = [env EXCEPT ![p].rest = @ + 1]
  /\ UNCHANGED <<server, config, wizard, failures, torn>>

EditConfig(p) ==
  /\ ~Saving(p) /\ MayEdit
  /\ edits' = [edits EXCEPT ![p].config = @ + 1]
  /\ config' = [config EXCEPT ![p].rest = @ + 1]
  /\ UNCHANGED <<server, env, wizard, failures, torn>>

Step(p) == Provision(p) \/ Prepare(p) \/ Save(p)

Next ==
  \E p \in Profiles :
    \/ \E answer \in Answers[p] : Start(p, answer)
    \/ Step(p)
    \/ Fail(p)
    \/ EditEnv(p)
    \/ EditConfig(p)

Spec == Init /\ [][Next]_vars

----------------------------------------------------------------------------
(* Properties *)

\* Settings that were saved work, and go on working whatever wizards start,
\* fail or are killed later: the database takes their password, the profile is
\* bound to their role, and outside danger mode the role has the API and no
\* more.
SavedIsReady ==
  \A p \in Profiles :
    env[p].settings # Null =>
      /\ Preflight(env[p].settings)
      /\ schema.bound[p] = env[p].settings.runtime

\* Whatever others wrote to the files before setup compared them is there.
EditsKept ==
  \A p \in Profiles :
    env[p].rest = edits[p].env /\ config[p].rest = edits[p].config

\* The memory provider is switched only together with its settings: whatever
\* failed, no profile uses this plugin without them, except where an interrupt
\* came between the replacement of config.yaml and the end of commit, until a
\* later setup of the profile is saved (setup_files.py:118-126).
SwitchedWithSettings ==
  \A p \in Profiles : config[p].provider => env[p].settings # Null \/ p \in torn

=============================================================================
