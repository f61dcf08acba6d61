-------------------------- MODULE Deployment_proofs --------------------------
(***************************************************************************)
(* Theorems about Deployment for any number of profiles, roles, answers,   *)
(* processes and releases, and any database or history to begin with.      *)
(***************************************************************************)
EXTENDS Deployment, Sequences, FiniteSetTheorems, WellFoundedInduction, TLAPS

----------------------------------------------------------------------------
(* Setup *)

\* The settings of a profile work, and not only because everybody may connect:
\* another wizard revokes that.
Ready(p, settings) ==
  /\ Preflight(settings)
  /\ database.owner = settings.runtime \/ settings.runtime \in database.connect
  /\ schema.bound[p] = settings.runtime

\* The stages of a wizard from one on.
Saves == {"env", "config", "restore"}
Checked == {"compare"} \cup Saves
Granted == {"doctor"} \cup Checked
Bound == {"grant"} \cup Granted
Migrated == {"bootstrap"} \cup Bound
Connected == {"revoke", "connect", "extensions", "migrate"} \cup Migrated

\* What the wizard of p relies on at its stage: what the stages before did to
\* the server is still there, and so are the settings it read.
Backed(p) ==
  LET me == wizard[p] IN
  /\ me.answer \in Answers[p]
  /\ me.env.settings # Null => Ready(p, me.env.settings)
  /\ me.pc \in {"owner role", "runtime role"} /\ me.existing => database # NoDatabase
  /\ me.pc \in Connected => database # NoDatabase
  /\ me.pc \in Migrated => schema.owner = me.answer.owner
  /\ me.pc \in Bound => schema.bound[p] = me.answer.runtime
  /\ me.pc \in Granted => me.answer.danger \/ me.answer.runtime \in database.connect
  /\ me.pc \in Checked => Ready(p, SettingsOf(me.answer))

\* What it relies on of the files, which others leave alone while it saves: a
\* config.yaml other than the one it read is what an interrupt left.
Filed(p) ==
  LET me == wizard[p] IN
  /\ me.config.provider => me.env.settings # Null \/ p \in torn
  /\ me.pc \in Saves =>
       /\ config[p] = me.config \/ (me.pc = "restore" /\ p \in torn)
       /\ me.env.rest = edits[p].env /\ me.config.rest = edits[p].config
       /\ env[p] = IF me.pc = "env" THEN me.env
                   ELSE [settings |-> SettingsOf(me.answer), rest |-> me.env.rest]

\* The files of a profile.
Kept(p) ==
  /\ env[p].settings # Null => Ready(p, env[p].settings)
  /\ config[p].provider => env[p].settings # Null \/ p \in torn
  /\ env[p].rest = edits[p].env /\ config[p].rest = edits[p].config

\* The schema belongs to the owner of the database.
OwnerKept ==
  schema.owner # Null => database # NoDatabase /\ schema.owner = database.owner

\* SavedIsReady is not inductive: a failed save brings old settings back, and
\* settings that work because everybody may connect stop working.
SetupInv ==
  /\ TypeOK
  /\ OwnerKept
  /\ \A p \in Profiles :
       /\ Kept(p)
       /\ wizard[p] # Idle => Backed(p) /\ Filed(p)

\* Nothing that setup has made on the server is ever taken back.
ServerGrows ==
  /\ \A r \in Roles : role[r] # Null => role'[r] = role[r]
  /\ database # NoDatabase =>
       /\ database' # NoDatabase /\ database'.owner = database.owner
       /\ database.connect \subseteq database'.connect
  /\ schema.owner # Null => schema'.owner = schema.owner
  /\ schema.granted \subseteq schema'.granted
  /\ \A p \in Profiles : schema.bound[p] # Null => schema'.bound[p] = schema.bound[p]

LEMMA SettingsTyped ==
  ASSUME NEW p \in Profiles, NEW a \in Answers[p]
  PROVE  SettingsOf(a) \in Settings
BY SetupConstants DEF SettingsOf, Settings, Answer

\* Settings that work go on working.
LEMMA ReadyStays ==
  ASSUME SetupInv, ServerGrows, NEW p \in Profiles,
         NEW s \in Settings, Ready(p, s)
  PROVE  Ready(p, s)'
<1>1. /\ s.runtime \in Roles /\ s.password \in Passwords
      /\ s.runtime # Null /\ s.password # Null
  BY SetupConstants DEF Settings
<1>2. role'[s.runtime] = role[s.runtime] /\ schema'.bound[p] = s.runtime
  BY <1>1 DEF ServerGrows, Ready, Preflight, Connects
<1>3. /\ database # NoDatabase /\ database' # NoDatabase
      /\ database'.owner = s.runtime \/ s.runtime \in database'.connect
  BY DEF ServerGrows, Ready, Preflight, Connects
<1>4. schema.owner # Null /\ schema'.owner = schema.owner
  <2>1. schema.owner = s.runtime \/ s.runtime \in schema.granted
    BY DEF Ready, Preflight, Usable
  <2> QED
    BY <1>1, <2>1 DEF ServerGrows, SetupInv, TypeOK
<1>5. Usable(s.runtime)' /\ Connects(s.runtime, s.password)'
  BY <1>2, <1>3, <1>4 DEF ServerGrows, Ready, Preflight, Usable, Connects
<1>6. s.danger \/ ~Authority(s.runtime)'
  BY <1>4 DEF Ready, Preflight, Authority
<1> QED
  BY <1>2, <1>3, <1>5, <1>6 DEF Ready, Preflight

\* A wizard that stays where it is keeps what it relies on.
LEMMA BackedStays ==
  ASSUME SetupInv, ServerGrows, NEW p \in Profiles,
         wizard[p] # Idle, wizard'[p] = wizard[p]
  PROVE  Backed(p)'
<1>1. PICK me \in Wizard : me = wizard[p] /\ Backed(p) /\ me.answer \in Answers[p]
  BY DEF SetupInv, TypeOK, Backed
<1>2. /\ me.env.settings # Null => me.env.settings \in Settings
      /\ SettingsOf(me.answer) \in Settings
      /\ me.answer.owner \in Roles /\ me.answer.runtime \in Roles
  <2>1. me.env \in Env /\ me.answer \in Answer
    BY DEF Wizard
  <2> QED
    BY <1>1, <2>1, SettingsTyped DEF Env, Answer
<1>3. me.env.settings # Null => Ready(p, me.env.settings)'
  BY <1>1, <1>2, ReadyStays DEF Backed
<1>4. me.pc \in Checked => Ready(p, SettingsOf(me.answer))'
  BY <1>1, <1>2, ReadyStays DEF Backed
<1>5. /\ me.pc \in {"owner role", "runtime role"} /\ me.existing => database' # NoDatabase
      /\ me.pc \in Connected => database' # NoDatabase
  BY <1>1 DEF Backed, ServerGrows
<1>6. /\ me.pc \in Migrated => schema'.owner = me.answer.owner
      /\ me.pc \in Bound => schema'.bound[p] = me.answer.runtime
  BY <1>1, <1>2, SetupConstants DEF Backed, ServerGrows
<1>7. me.pc \in Granted => me.answer.danger \/ me.answer.runtime \in database'.connect
  <2>1. me.pc \in Granted => me.pc \in Connected
    BY DEF Connected, Migrated, Bound
  <2> QED
    BY <1>1, <2>1 DEF Backed, ServerGrows
<1> QED
  BY <1>1, <1>3, <1>4, <1>5, <1>6, <1>7 DEF Backed

\* So does one whose files nobody touches, and its files.
LEMMA FiledStays ==
  ASSUME NEW p \in Profiles, Filed(p), wizard'[p] = wizard[p],
         env'[p] = env[p], config'[p] = config[p], edits'[p] = edits[p],
         p \in torn' <=> p \in torn
  PROVE  Filed(p)'
BY DEF Filed

LEMMA KeptStays ==
  ASSUME SetupInv, ServerGrows, NEW p \in Profiles,
         env'[p] = env[p], config'[p] = config[p], edits'[p] = edits[p],
         p \in torn' <=> p \in torn
  PROVE  Kept(p)'
<1>1. Kept(p) /\ env[p].settings \in Settings \cup {Null}
  BY DEF SetupInv, TypeOK, Env
<1>2. PICK e : env[p] = e
  OBVIOUS
<1>3. e.settings # Null => Ready(p, e.settings)'
  BY <1>1, <1>2, ReadyStays DEF Kept
<1> QED
  BY <1>1, <1>2, <1>3 DEF Kept

\* A step is the step of one profile, and right if it is right for that one.
LEMMA StepOf ==
  ASSUME SetupInv, TypeOK', ServerGrows, OwnerKept', NEW p \in Profiles,
         \A q \in Profiles \ {p} :
           /\ wizard'[q] = wizard[q] /\ env'[q] = env[q]
           /\ config'[q] = config[q] /\ edits'[q] = edits[q]
           /\ q \in torn' <=> q \in torn,
         Kept(p)', wizard'[p] # Idle => Backed(p)' /\ Filed(p)'
  PROVE  SetupInv'
<1>1. ASSUME NEW q \in Profiles \ {p}
      PROVE  /\ Kept(q)'
             /\ wizard'[q] # Idle => Backed(q)' /\ Filed(q)'
  BY <1>1, BackedStays, FiledStays, KeptStays DEF SetupInv
<1> QED
  BY <1>1 DEF SetupInv

\* A wizard goes on to a stage.
LEMMA GoToIs ==
  ASSUME TypeOK, NEW p \in Profiles, NEW now, At(p, now),
         NEW stage \in Stages, GoTo(p, stage)
  PROVE  /\ wizard' \in [Profiles -> Wizard \cup {Idle}]
         /\ wizard'[p] \in Wizard /\ wizard[p] \in Wizard /\ wizard[p] # Idle
         /\ wizard'[p].pc = stage /\ wizard'[p].answer = wizard[p].answer
         /\ wizard'[p].env = wizard[p].env /\ wizard'[p].config = wizard[p].config
         /\ wizard'[p].existing = wizard[p].existing
         /\ \A q \in Profiles \ {p} : wizard'[q] = wizard[q]
<1>1. wizard[p] \in Wizard /\ wizard[p] # Idle
  BY DEF TypeOK, At
<1>2. [wizard[p] EXCEPT !.pc = stage] \in Wizard
  BY <1>1 DEF Wizard
<1> QED
  BY <1>1, <1>2 DEF TypeOK, GoTo, Wizard

\* A stage that works on the server and leaves the files alone.
LEMMA ServerStep ==
  ASSUME SetupInv, NEW p \in Profiles, wizard[p] # Idle,
         wizard' \in [Profiles -> Wizard \cup {Idle}],
         \A q \in Profiles \ {p} : wizard'[q] = wizard[q],
         wizard'[p] # Idle =>
           /\ wizard'[p].pc \notin Saves /\ wizard'[p].config = wizard[p].config
           /\ wizard'[p].env = wizard[p].env /\ Backed(p)',
         ServerGrows, OwnerKept', UNCHANGED <<files, edits, torn>>,
         failures' \in 0..MaxFailures,
         role' \in [Roles -> Passwords \cup {Null}],
         database' \in Database \cup {NoDatabase}, schema' \in Schema,
         database' = NoDatabase => schema'.owner = Null,
         schema'.owner = Null =>
           schema'.granted = {} /\ \A q \in Profiles : schema'.bound[q] = Null
  PROVE  SetupInv'
<1>1. TypeOK'
  BY DEF SetupInv, TypeOK, files
<1>2. Kept(p)'
  BY KeptStays DEF files
<1>3. wizard'[p] # Idle => Filed(p)'
  BY DEF SetupInv, Filed
<1> QED
  BY <1>1, <1>2, <1>3, StepOf DEF files

\* A wizard gives up.
LEMMA GivesUp ==
  ASSUME SetupInv, NEW p \in Profiles, wizard[p] # Idle, GiveUp(p),
         UNCHANGED <<edits, torn>>, failures' \in 0..MaxFailures
  PROVE  SetupInv'
<1>1. ServerGrows /\ OwnerKept'
  BY DEF GiveUp, server, ServerGrows, SetupInv, OwnerKept
<1> QED
  BY <1>1, ServerStep DEF GiveUp, server, SetupInv, TypeOK

\* What the server is after a stage of setup.
ServerTyped ==
  /\ role \in [Roles -> Passwords \cup {Null}]
  /\ database \in Database \cup {NoDatabase} /\ schema \in Schema
  /\ database = NoDatabase => schema.owner = Null
  /\ schema.owner = Null =>
       schema.granted = {} /\ \A q \in Profiles : schema.bound[q] = Null

\* A wizard whose stage has done its work on the server goes on.
LEMMA Proceeds ==
  ASSUME SetupInv, NEW p \in Profiles, NEW now, At(p, now),
         NEW stage \in Stages \ Saves, GoTo(p, stage),
         ServerGrows, ServerTyped', OwnerKept',
         UNCHANGED <<files, edits, failures, torn>>,
         NEW a \in Answer, a = wizard[p].answer,
         stage \in {"owner role", "runtime role"} /\ wizard[p].existing =>
           database # NoDatabase,
         stage \in Connected => database' # NoDatabase,
         stage \in Migrated => schema'.owner = a.owner,
         stage \in Bound => schema'.bound[p] = a.runtime,
         stage \in Granted => a.danger \/ a.runtime \in database'.connect,
         stage \in Checked => Ready(p, SettingsOf(a))
  PROVE  SetupInv'
<1>1. /\ wizard' \in [Profiles -> Wizard \cup {Idle}]
      /\ wizard'[p] \in Wizard /\ wizard[p] \in Wizard /\ wizard[p] # Idle
      /\ wizard'[p].pc = stage /\ wizard'[p].answer = wizard[p].answer
      /\ wizard'[p].env = wizard[p].env /\ wizard'[p].config = wizard[p].config
      /\ wizard'[p].existing = wizard[p].existing
      /\ \A q \in Profiles \ {p} : wizard'[q] = wizard[q]
  BY GoToIs DEF SetupInv
<1>2. Backed(p) /\ a \in Answers[p]
  BY <1>1 DEF SetupInv, Backed
<1>3. PICK e \in Env : e = wizard[p].env
  BY <1>1 DEF Wizard
<1>4. e.settings # Null => Ready(p, e.settings)'
  BY <1>2, <1>3, ReadyStays DEF Backed, Env
<1>5. stage \in Checked => Ready(p, SettingsOf(a))'
  BY <1>2, ReadyStays, SettingsTyped
<1>6. database # NoDatabase => database' # NoDatabase
  BY DEF ServerGrows
<1>7. Backed(p)'
  BY <1>1, <1>2, <1>3, <1>4, <1>5, <1>6 DEF Backed
<1> QED
  BY <1>1, <1>7, ServerStep DEF ServerTyped, SetupInv, TypeOK

\* What a wizard at a stage can rely on.
LEMMA StageIs ==
  ASSUME SetupInv, NEW p \in Profiles, NEW now, At(p, now)
  PROVE  /\ wizard[p] \in Wizard /\ wizard[p] # Idle /\ wizard[p].pc = now
         /\ Backed(p) /\ Filed(p) /\ ServerTyped /\ OwnerKept
         /\ wizard[p].answer \in Answers[p] /\ wizard[p].answer \in Answer
         /\ wizard[p].answer.owner \in Roles /\ wizard[p].answer.runtime \in Roles
         /\ wizard[p].answer.password \in [Roles -> Passwords]
         /\ Null \notin Roles \cup Passwords
<1>1. wizard[p] \in Wizard /\ wizard[p] # Idle /\ wizard[p].pc = now
  BY DEF SetupInv, TypeOK, At
<1>2. Backed(p) /\ Filed(p) /\ ServerTyped /\ OwnerKept
  BY <1>1 DEF SetupInv, TypeOK, ServerTyped
<1>3. wizard[p].answer \in Answers[p] /\ wizard[p].answer \in Answer
  BY <1>1, <1>2 DEF Backed, Wizard
<1> QED
  BY <1>1, <1>2, <1>3, SetupConstants DEF Answer

----------------------------------------------------------------------------

LEMMA LookInv ==
  ASSUME SetupInv, NEW p \in Profiles, LookForDatabase(p)
  PROVE  SetupInv'
<1>1. At(p, "look") /\ UNCHANGED <<edits, failures, torn>>
  BY DEF LookForDatabase, Rest
<1>2. CASE GiveUp(p)
  BY <1>1, <1>2, StageIs, GivesUp DEF SetupInv, TypeOK
<1>3. CASE /\ wizard' = [wizard EXCEPT ![p].pc = "owner role",
                                       ![p].existing = database # NoDatabase]
           /\ UNCHANGED <<server, files>>
  <2> DEFINE me == [wizard[p] EXCEPT !.pc = "owner role",
                                     !.existing = database # NoDatabase]
  <2>1. /\ wizard[p] \in Wizard /\ wizard[p] # Idle /\ Backed(p) /\ ServerTyped
        /\ OwnerKept /\ wizard[p].answer \in Answers[p]
    BY <1>1, StageIs
  <2>2. /\ me \in Wizard /\ me.pc = "owner role" /\ me.answer = wizard[p].answer
        /\ me.env = wizard[p].env /\ me.config = wizard[p].config
        /\ me.existing = (database # NoDatabase)
    BY <2>1 DEF Wizard, Stages
  <2>3. wizard' = [wizard EXCEPT ![p] = me]
    BY <1>3
  <2> HIDE DEF me
  <2>4. /\ wizard'[p] = me /\ wizard' \in [Profiles -> Wizard \cup {Idle}]
        /\ \A q \in Profiles \ {p} : wizard'[q] = wizard[q]
    BY <2>2, <2>3 DEF SetupInv, TypeOK
  <2>5. ServerGrows /\ ServerTyped' /\ OwnerKept'
    BY <1>3, <2>1 DEF server, ServerGrows, ServerTyped, OwnerKept
  <2>6. PICK e \in Env : e = wizard[p].env
    BY <2>1 DEF Wizard
  <2>7. e.settings # Null => Ready(p, e.settings)'
    BY <2>1, <2>5, <2>6, ReadyStays DEF Backed, Env
  <2>8. Backed(p)'
    BY <1>3, <2>1, <2>2, <2>4, <2>6, <2>7
       DEF Backed, server, Connected, Migrated, Bound, Granted, Checked, Saves
  <2> QED
    BY <1>1, <1>3, <2>1, <2>2, <2>4, <2>5, <2>8, ServerStep
       DEF ServerTyped, SetupInv, TypeOK, Saves
<1> QED
  BY <1>2, <1>3 DEF LookForDatabase

LEMMA CreateRoleInv ==
  ASSUME SetupInv, NEW p \in Profiles, NEW now, NEW next, NEW r \in Roles,
         CreateRole(p, now, r, next),
         \/ now = "owner role" /\ next = "runtime role"
         \/ now = "runtime role" /\ wizard[p].existing /\ next = "connect"
         \/ now = "runtime role" /\ next = "create"
  PROVE  SetupInv'
<1>1. /\ At(p, now) /\ Created(r, wizard[p].answer.password[r]) /\ GoTo(p, next)
      /\ UNCHANGED <<database, schema, files, edits, failures, torn>>
  BY DEF CreateRole, Rest
<1>2. PICK a \in Answer : a = wizard[p].answer
  BY <1>1, StageIs
<1>3. /\ wizard[p] \in Wizard /\ wizard[p].pc = now /\ Backed(p) /\ ServerTyped
      /\ OwnerKept /\ a.password[r] \in Passwords
  BY <1>1, <1>2, StageIs
<1>4. ServerGrows /\ ServerTyped' /\ OwnerKept'
  BY <1>1, <1>2, <1>3 DEF Created, ServerGrows, ServerTyped, OwnerKept
<1>5. wizard[p].existing => database # NoDatabase
  BY <1>3 DEF Backed
<1>6. /\ next \in {"runtime role", "connect", "create"}
      /\ next = "connect" => database # NoDatabase
  BY <1>5
<1>7. /\ next \in Stages \ Saves /\ next \notin Migrated
      /\ next \in Connected => next = "connect"
  BY <1>6 DEF Stages, Connected, Migrated, Bound, Granted, Checked, Saves
<1>8. next \notin Bound /\ next \notin Granted /\ next \notin Checked
  BY <1>7 DEF Migrated, Bound, Granted
<1> QED
  BY <1>1, <1>2, <1>4, <1>5, <1>6, <1>7, <1>8, Proceeds

LEMMA CreateRolesInv ==
  ASSUME SetupInv, NEW p \in Profiles, CreateRoles(p)
  PROVE  SetupInv'
<1>1. CASE /\ At(p, "owner role")
           /\ CreateRole(p, "owner role", wizard[p].answer.owner, "runtime role")
  BY <1>1, StageIs, CreateRoleInv
<1>2. CASE /\ At(p, "runtime role")
           /\ CreateRole(p, "runtime role", wizard[p].answer.runtime,
                         IF wizard[p].existing THEN "connect" ELSE "create")
  <2>1. wizard[p].answer.runtime \in Roles
    BY <1>2, StageIs
  <2>2. CASE wizard[p].existing
    BY <1>2, <2>1, <2>2, CreateRoleInv
  <2>3. CASE ~wizard[p].existing
    BY <1>2, <2>1, <2>3, CreateRoleInv
  <2> QED
    BY <2>2, <2>3
<1> QED
  BY <1>1, <1>2 DEF CreateRoles

\* Past the stage that creates it there is a database.
LEMMA ConnectedIs ==
  ASSUME SetupInv, NEW p \in Profiles, NEW now \in Connected, At(p, now)
  PROVE  database # NoDatabase /\ database \in Database
<1>1. wizard[p].pc = now /\ Backed(p) /\ ServerTyped
  BY StageIs
<1>2. database # NoDatabase
  BY <1>1 DEF Backed
<1> QED
  BY <1>1, <1>2 DEF ServerTyped

\* The stages in which only the database changes.
LEMMA DatabaseIs ==
  ASSUME NEW d \in Database
  PROVE  d # NoDatabase
BY SetupConstants DEF Database, NoDatabase

LEMMA DatabaseGrows ==
  ASSUME SetupInv, database # NoDatabase, database' \in Database,
         database'.owner = database.owner, database.connect \subseteq database'.connect,
         UNCHANGED <<role, schema>>
  PROVE  ServerGrows /\ ServerTyped' /\ OwnerKept'
<1>1. database' # NoDatabase /\ ServerTyped /\ OwnerKept
  BY DatabaseIs DEF SetupInv, TypeOK, ServerTyped
<1> QED
  BY <1>1 DEF ServerGrows, ServerTyped, OwnerKept

LEMMA CreateDatabaseInv ==
  ASSUME SetupInv, NEW p \in Profiles, CreateDatabase(p)
  PROVE  SetupInv'
<1>1. At(p, "create") /\ UNCHANGED <<edits, failures, torn>>
  BY DEF CreateDatabase, Rest
<1>2. CASE GiveUp(p)
  BY <1>1, <1>2, StageIs, GivesUp DEF SetupInv, TypeOK
<1>3. CASE /\ database = NoDatabase
           /\ database' = [owner |-> wizard[p].answer.owner, public |-> TRUE,
                           connect |-> {}, extensions |-> FALSE]
           /\ GoTo(p, "revoke")
           /\ UNCHANGED <<role, schema, files>>
  <2>1. PICK a \in Answer : a = wizard[p].answer /\ a.owner \in Roles
    BY <1>1, StageIs
  <2>2. database' \in Database /\ database' # NoDatabase
    BY <1>3, <2>1, DatabaseIs DEF Database
  <2>3. ServerTyped /\ schema.owner = Null
    BY <1>1, <1>3, StageIs DEF ServerTyped
  <2>4. ServerGrows /\ ServerTyped' /\ OwnerKept'
    BY <1>3, <2>2, <2>3 DEF ServerGrows, ServerTyped, OwnerKept
  <2>5. /\ "revoke" \in Stages \ Saves /\ "revoke" \notin Migrated
        /\ "revoke" \notin Bound /\ "revoke" \notin Granted /\ "revoke" \notin Checked
    BY DEF Stages, Migrated, Bound, Granted, Checked, Saves
  <2> QED
    BY <1>1, <1>3, <2>1, <2>2, <2>4, <2>5, Proceeds
<1> QED
  BY <1>2, <1>3 DEF CreateDatabase

\* The stages of provisioning in a database that is there.
LEMMA ProvisionsInv ==
  ASSUME SetupInv, NEW p \in Profiles, NEW now \in {"revoke", "connect", "extensions"},
         At(p, now), NEW next \in {"connect", "extensions", "verify"}, GoTo(p, next),
         \/ database' = [database EXCEPT !.public = FALSE]
         \/ database' = [database EXCEPT !.connect = @ \cup {wizard[p].answer.runtime}]
         \/ database' = [database EXCEPT !.extensions = TRUE],
         UNCHANGED <<role, schema, files, edits, failures, torn>>
  PROVE  SetupInv'
<1>1. PICK a \in Answer : a = wizard[p].answer /\ a.runtime \in Roles
  BY StageIs
<1>2. now \in Connected
  BY DEF Connected
<1>3. database # NoDatabase /\ database \in Database
  BY <1>2, ConnectedIs
<1>4. /\ database' \in Database /\ database'.owner = database.owner
      /\ database.connect \subseteq database'.connect
  BY <1>1, <1>3 DEF Database
<1>5. /\ ServerGrows /\ ServerTyped' /\ OwnerKept' /\ database' # NoDatabase
  BY <1>3, <1>4, DatabaseGrows, DatabaseIs
<1>6. /\ next \in Stages \ Saves /\ next \notin Migrated
      /\ next \notin Bound /\ next \notin Granted /\ next \notin Checked
  BY DEF Stages, Migrated, Bound, Granted, Checked, Saves
<1> QED
  BY <1>1, <1>5, <1>6, Proceeds

LEMMA ProvisionInv ==
  ASSUME SetupInv, NEW p \in Profiles, Provision(p)
  PROVE  SetupInv'
<1>1. CASE RevokePublic(p)
  BY <1>1, ProvisionsInv DEF RevokePublic, Rest
<1>2. CASE GrantConnect(p)
  BY <1>2, ProvisionsInv DEF GrantConnect, Rest
<1>3. CASE CreateExtensions(p)
  BY <1>3, ProvisionsInv DEF CreateExtensions, Rest
<1> QED
  BY <1>1, <1>2, <1>3, LookInv, CreateRolesInv, CreateDatabaseInv DEF Provision

----------------------------------------------------------------------------

LEMMA ServerStays ==
  ASSUME SetupInv, UNCHANGED server
  PROVE  ServerGrows /\ ServerTyped' /\ OwnerKept'
BY DEF SetupInv, TypeOK, server, ServerGrows, ServerTyped, OwnerKept

LEMMA VerifyInv ==
  ASSUME SetupInv, NEW p \in Profiles, Verify(p)
  PROVE  SetupInv'
<1>1. At(p, "verify") /\ UNCHANGED <<edits, failures, torn>>
  BY DEF Verify, Rest
<1>2. CASE GiveUp(p)
  BY <1>1, <1>2, StageIs, GivesUp DEF SetupInv, TypeOK
<1>3. CASE /\ database # NoDatabase
           /\ GoTo(p, "migrate") /\ UNCHANGED <<server, files>>
  <2>1. PICK a \in Answer : a = wizard[p].answer
    BY <1>1, StageIs
  <2>2. ServerGrows /\ ServerTyped' /\ OwnerKept' /\ database' # NoDatabase
    BY <1>3, ServerStays DEF server
  <2>3. /\ "migrate" \in Stages \ Saves /\ "migrate" \notin Migrated
        /\ "migrate" \notin Bound /\ "migrate" \notin Granted
        /\ "migrate" \notin Checked
    BY DEF Stages, Migrated, Bound, Granted, Checked, Saves
  <2> QED
    BY <1>1, <1>3, <2>1, <2>2, <2>3, Proceeds
<1> QED
  BY <1>2, <1>3 DEF Verify, Connects

LEMMA MigrateInv ==
  ASSUME SetupInv, NEW p \in Profiles, Migrate(p)
  PROVE  SetupInv'
<1>1. At(p, "migrate") /\ UNCHANGED <<edits, failures, torn>>
  BY DEF Migrate, Rest
<1>2. CASE GiveUp(p)
  BY <1>1, <1>2, StageIs, GivesUp DEF SetupInv, TypeOK
<1>3. CASE /\ \/ schema.owner = Null /\ database.owner = wizard[p].answer.owner
              \/ schema.owner = wizard[p].answer.owner
           /\ schema' = [schema EXCEPT !.owner = wizard[p].answer.owner]
           /\ GoTo(p, "bootstrap") /\ UNCHANGED <<role, database, files>>
  <2>1. PICK a \in Answer : a = wizard[p].answer /\ a.owner \in Roles /\ a.owner # Null
    BY <1>1, StageIs
  <2>2. /\ database # NoDatabase /\ ServerTyped /\ OwnerKept
    <3>1. "migrate" \in Connected
      BY DEF Connected
    <3> QED
      BY <1>1, <3>1, ConnectedIs, StageIs
  <2>3. /\ schema' \in Schema /\ schema'.owner = a.owner
        /\ schema'.granted = schema.granted /\ schema'.bound = schema.bound
    BY <1>3, <2>1, <2>2 DEF ServerTyped, Schema
  <2>4. ServerGrows /\ ServerTyped' /\ OwnerKept'
    BY <1>3, <2>1, <2>2, <2>3 DEF ServerGrows, ServerTyped, OwnerKept
  <2>5. /\ "bootstrap" \in Stages \ Saves
        /\ "bootstrap" \notin Bound /\ "bootstrap" \notin Granted
        /\ "bootstrap" \notin Checked
    BY DEF Stages, Bound, Granted, Checked, Saves
  <2> QED
    BY <1>1, <1>3, <2>1, <2>2, <2>3, <2>4, <2>5, Proceeds
<1> QED
  BY <1>2, <1>3 DEF Migrate

LEMMA BindInv ==
  ASSUME SetupInv, NEW p \in Profiles, Bootstrap(p)
  PROVE  SetupInv'
<1>1. At(p, "bootstrap") /\ UNCHANGED <<edits, failures, torn>>
  BY DEF Bootstrap, Rest
<1>2. CASE GiveUp(p)
  BY <1>1, <1>2, StageIs, GivesUp DEF SetupInv, TypeOK
<1>3. CASE /\ schema.bound[p] \in {Null, wizard[p].answer.runtime}
           /\ schema' = [schema EXCEPT !.bound[p] = wizard[p].answer.runtime]
           /\ GoTo(p, IF wizard[p].answer.danger THEN "doctor" ELSE "grant")
           /\ UNCHANGED <<role, database, files>>
  <2>1. PICK a \in Answer : /\ a = wizard[p].answer /\ a.owner \in Roles
                            /\ a.owner # Null /\ a.runtime \in Roles
    BY <1>1, StageIs
  <2> DEFINE next == IF a.danger THEN "doctor" ELSE "grant"
  <2>2. "bootstrap" \in Migrated /\ "bootstrap" \in Connected
    BY DEF Migrated, Connected
  <2>3. database # NoDatabase /\ schema.owner = a.owner /\ ServerTyped /\ OwnerKept
    <3>1. wizard[p].pc = "bootstrap" /\ Backed(p) /\ ServerTyped /\ OwnerKept
      BY <1>1, StageIs
    <3>2. schema.owner = a.owner
      BY <2>1, <2>2, <3>1 DEF Backed
    <3> QED
      BY <1>1, <2>2, <3>1, <3>2, ConnectedIs
  <2>4. /\ schema' \in Schema /\ schema'.owner = a.owner
        /\ schema'.granted = schema.granted /\ schema'.bound[p] = a.runtime
        /\ \A q \in Profiles \ {p} : schema'.bound[q] = schema.bound[q]
    BY <1>3, <2>1, <2>3 DEF ServerTyped, Schema
  <2>5. ServerGrows /\ ServerTyped' /\ OwnerKept'
    BY <1>3, <2>1, <2>3, <2>4 DEF ServerGrows, ServerTyped, OwnerKept
  <2>6. /\ next \in Stages \ Saves /\ next \notin Checked
        /\ next \in Granted => a.danger
        /\ next \notin {"owner role", "runtime role"}
    BY DEF Stages, Granted, Checked, Saves
  <2>7. GoTo(p, next)
    BY <1>3, <2>1
  <2> HIDE DEF next
  <2> QED
    BY <1>1, <1>3, <2>1, <2>3, <2>4, <2>5, <2>6, <2>7, Proceeds
<1> QED
  BY <1>2, <1>3 DEF Bootstrap

LEMMA GrantRuntimeInv ==
  ASSUME SetupInv, NEW p \in Profiles, GrantRuntime(p)
  PROVE  SetupInv'
<1>1. /\ At(p, "grant") /\ GoTo(p, "doctor")
      /\ database' = [database EXCEPT !.connect = @ \cup {wizard[p].answer.runtime}]
      /\ schema' = [schema EXCEPT !.granted = @ \cup {wizard[p].answer.runtime}]
      /\ UNCHANGED <<role, files, edits, failures, torn>>
  BY DEF GrantRuntime, Rest
<1>2. PICK a \in Answer : /\ a = wizard[p].answer /\ a.owner \in Roles
                          /\ a.owner # Null /\ a.runtime \in Roles
  BY <1>1, StageIs
<1>3. "grant" \in Bound /\ "grant" \in Migrated /\ "grant" \in Connected
  BY DEF Bound, Migrated, Connected
<1>4. /\ schema.owner = a.owner /\ schema.bound[p] = a.runtime
      /\ database # NoDatabase /\ database \in Database
      /\ ServerTyped /\ OwnerKept
  <2>1. wizard[p].pc = "grant" /\ Backed(p) /\ ServerTyped /\ OwnerKept
    BY <1>1, StageIs
  <2>2. schema.owner = a.owner /\ schema.bound[p] = a.runtime
    BY <1>2, <1>3, <2>1 DEF Backed
  <2> QED
    BY <1>1, <1>3, <2>1, <2>2, ConnectedIs
<1>5. /\ database' \in Database /\ database'.owner = database.owner
      /\ database'.connect = database.connect \cup {a.runtime}
      /\ database' # NoDatabase
  BY <1>1, <1>2, <1>4, DatabaseIs DEF Database
<1>6. /\ schema' \in Schema /\ schema'.owner = a.owner /\ schema'.bound = schema.bound
      /\ schema.granted \subseteq schema'.granted
  BY <1>1, <1>2, <1>4 DEF ServerTyped, Schema
<1>7. ServerGrows /\ ServerTyped' /\ OwnerKept'
  BY <1>1, <1>2, <1>4, <1>5, <1>6 DEF ServerGrows, ServerTyped, OwnerKept
<1>8. "doctor" \in Stages \ Saves /\ "doctor" \notin Checked
  BY DEF Stages, Checked, Saves
<1> QED
  BY <1>1, <1>2, <1>4, <1>5, <1>6, <1>7, <1>8, Proceeds

\* The doctor lets only settings pass that are ready for good: whoever it lets
\* through owns the database or was granted to connect.
LEMMA DoctorInv ==
  ASSUME SetupInv, NEW p \in Profiles, Doctor(p)
  PROVE  SetupInv'
<1>1. At(p, "doctor") /\ UNCHANGED <<edits, failures, torn>>
  BY DEF Doctor, Rest
<1>2. CASE GiveUp(p)
  BY <1>1, <1>2, StageIs, GivesUp DEF SetupInv, TypeOK
<1>3. CASE /\ Preflight(SettingsOf(wizard[p].answer))
           /\ GoTo(p, "compare") /\ UNCHANGED <<server, files>>
  <2>1. PICK a \in Answer : /\ a = wizard[p].answer /\ a \in Answers[p]
                            /\ a.owner # Null /\ SettingsOf(a).runtime = a.runtime
    BY <1>1, StageIs DEF SettingsOf
  <2>2. "doctor" \in Granted /\ "doctor" \in Bound /\ "doctor" \in Migrated
        /\ "doctor" \in Connected
    BY DEF Granted, Bound, Migrated, Connected
  <2>3. /\ schema.owner = a.owner /\ schema.bound[p] = a.runtime
        /\ a.danger \/ a.runtime \in database.connect
        /\ database # NoDatabase /\ OwnerKept
    <3>1. wizard[p].pc = "doctor" /\ Backed(p) /\ OwnerKept
      BY <1>1, StageIs
    <3>2. /\ schema.owner = a.owner /\ schema.bound[p] = a.runtime
          /\ a.danger \/ a.runtime \in database.connect
      BY <2>1, <2>2, <3>1 DEF Backed
    <3> QED
      BY <1>1, <2>2, <3>1, <3>2, ConnectedIs
  <2>4. Ready(p, SettingsOf(a))
    <3>1. a.danger => database.owner = a.runtime
      BY <2>1, <2>3, SetupConstants DEF OwnerKept
    <3> QED
      BY <1>3, <2>1, <2>3, <3>1 DEF Ready
  <2>5. ServerGrows /\ ServerTyped' /\ OwnerKept' /\ UNCHANGED <<database, schema>>
    BY <1>3, ServerStays DEF server
  <2>6. "compare" \in Stages \ Saves
    BY DEF Stages, Saves
  <2> QED
    BY <1>1, <1>3, <2>1, <2>3, <2>4, <2>5, <2>6, Proceeds
<1> QED
  BY <1>2, <1>3 DEF Doctor

----------------------------------------------------------------------------

\* What is ready stays ready while the server is left alone.
LEMMA ReadyRests ==
  ASSUME SetupInv, UNCHANGED server, NEW p \in Profiles, NEW s \in Settings, Ready(p, s)
  PROVE  Ready(p, s)'
BY ServerStays, ReadyStays

\* A wizard past the doctor.
LEMMA CheckedIs ==
  ASSUME SetupInv, NEW p \in Profiles, NEW now \in Checked, At(p, now)
  PROVE  /\ Ready(p, SettingsOf(wizard[p].answer))
         /\ SettingsOf(wizard[p].answer) \in Settings
         /\ SettingsOf(wizard[p].answer) # Null
         /\ wizard[p].env \in Env /\ wizard[p].config \in Config
         /\ wizard[p].env.settings # Null => Ready(p, wizard[p].env.settings)
         /\ wizard[p].config.provider =>
              wizard[p].env.settings # Null \/ p \in torn
<1>1. wizard[p] \in Wizard /\ wizard[p].pc = now /\ Backed(p) /\ Filed(p)
      /\ wizard[p].answer \in Answers[p]
  BY StageIs
<1>2. SettingsOf(wizard[p].answer) \in Settings /\ Null \notin Settings
  BY <1>1, SettingsTyped, SetupConstants
<1>3. wizard[p].env \in Env /\ wizard[p].config \in Config
  BY <1>1 DEF Wizard
<1> QED
  BY <1>1, <1>2, <1>3 DEF Backed, Filed

LEMMA SavingBacked ==
  ASSUME SetupInv, NEW p \in Profiles, NEW now \in Checked, At(p, now),
         NEW stage \in Saves, GoTo(p, stage), UNCHANGED server
  PROVE  Backed(p)'
<1>1. /\ wizard[p] \in Wizard /\ wizard'[p].pc = stage
      /\ wizard'[p].answer = wizard[p].answer /\ wizard'[p].env = wizard[p].env
  BY GoToIs DEF SetupInv, Stages, Saves
<1>2. PICK me \in Wizard : me = wizard[p]
  BY <1>1
<1>3. me.pc = now /\ Backed(p)
  BY <1>2, StageIs
<1>4. now \in Granted /\ now \in Bound /\ now \in Migrated /\ now \in Connected
  BY DEF Granted, Bound, Migrated, Connected
<1>5. /\ me.answer \in Answers[p] /\ database # NoDatabase
      /\ schema.owner = me.answer.owner /\ schema.bound[p] = me.answer.runtime
      /\ me.answer.danger \/ me.answer.runtime \in database.connect
  BY <1>2, <1>3, <1>4 DEF Backed
<1>6. Ready(p, SettingsOf(me.answer))'
  BY <1>2, CheckedIs, ReadyRests
<1>7. me.env.settings # Null => Ready(p, me.env.settings)'
  BY <1>2, CheckedIs, ReadyRests DEF Env
<1>8. stage \notin {"owner role", "runtime role"}
  BY DEF Saves
<1> QED
  BY <1>1, <1>2, <1>5, <1>6, <1>7, <1>8 DEF Backed, server

LEMMA StartInv ==
  ASSUME SetupInv, NEW p \in Profiles, NEW answer \in Answers[p], Start(p, answer)
  PROVE  SetupInv'
<1> DEFINE me == [pc |-> IF answer.provision THEN "look" ELSE "verify",
                  answer |-> answer, env |-> env[p], config |-> config[p],
                  existing |-> FALSE]
<1>1. /\ wizard' = [wizard EXCEPT ![p] = me]
      /\ UNCHANGED <<server, files, edits, failures, torn>>
  BY DEF Start, Rest
<1>2. PICK e \in Env, c \in Config : e = env[p] /\ c = config[p]
  BY DEF SetupInv, TypeOK
<1>3. /\ me \in Wizard /\ me.pc \in {"look", "verify"} /\ me.answer = answer
      /\ me.env = e /\ me.config = c /\ me.existing = FALSE
  BY <1>2, SetupConstants DEF Wizard, Stages
<1> HIDE DEF me
<1>4. /\ wizard' \in [Profiles -> Wizard \cup {Idle}] /\ wizard'[p] = me
      /\ \A q \in Profiles \ {p} : wizard'[q] = wizard[q]
  BY <1>1, <1>3 DEF SetupInv, TypeOK
<1>5. ServerGrows /\ ServerTyped' /\ OwnerKept' /\ Kept(p)
  BY <1>1, ServerStays DEF SetupInv
<1>6. e.settings # Null => Ready(p, e.settings)'
  BY <1>1, <1>2, <1>5, ReadyRests DEF Kept, Env
<1>7. me.pc \notin Connected /\ me.pc \notin Migrated /\ me.pc \notin Bound
      /\ me.pc \notin Granted /\ me.pc \notin Checked /\ me.pc \notin Saves
  BY <1>3 DEF Connected, Migrated, Bound, Granted, Checked, Saves
<1>8. Backed(p)'
  BY <1>3, <1>4, <1>6, <1>7 DEF Backed
<1>9. Filed(p)'
  BY <1>1, <1>2, <1>3, <1>4, <1>5, <1>7 DEF Filed, Kept
<1>10. TypeOK' /\ Kept(p)'
  BY <1>1, <1>4, <1>5, KeptStays DEF SetupInv, TypeOK, ServerTyped, files
<1> QED
  BY <1>1, <1>4, <1>5, <1>8, <1>9, <1>10, StepOf DEF files

LEMMA CompareInv ==
  ASSUME SetupInv, NEW p \in Profiles, Compare(p)
  PROVE  SetupInv'
<1>1. At(p, "compare") /\ UNCHANGED <<edits, failures, torn>>
  BY DEF Compare, Rest
<1>2. CASE GiveUp(p)
  BY <1>1, <1>2, StageIs, GivesUp DEF SetupInv, TypeOK
<1>3. CASE Unchanged(p) /\ GoTo(p, "env") /\ UNCHANGED <<server, files>>
  <2>1. "compare" \in Checked /\ "env" \in Saves /\ "env" \in Stages
    BY DEF Checked, Saves, Stages
  <2>2. /\ wizard' \in [Profiles -> Wizard \cup {Idle}] /\ wizard'[p].pc = "env"
        /\ wizard'[p].env = wizard[p].env /\ wizard'[p].config = wizard[p].config
        /\ \A q \in Profiles \ {p} : wizard'[q] = wizard[q]
    BY <1>1, <1>3, <2>1, GoToIs DEF SetupInv
  <2>3. Backed(p)'
    BY <1>1, <1>3, <2>1, SavingBacked
  <2>4. ServerGrows /\ ServerTyped' /\ OwnerKept'
    BY <1>3, ServerStays
  <2>5. TypeOK' /\ Kept(p)' /\ Kept(p)
    BY <1>1, <1>3, <2>2, <2>4, KeptStays DEF SetupInv, TypeOK, ServerTyped, files
  <2>6. Filed(p)'
    <3>1. wizard[p].config.provider => wizard[p].env.settings # Null \/ p \in torn
      BY <1>1, <2>1, CheckedIs
    <3> QED
      BY <1>1, <1>3, <2>2, <2>5, <3>1 DEF Filed, Kept, Unchanged, files
  <2> QED
    BY <1>1, <1>3, <2>2, <2>3, <2>4, <2>5, <2>6, StepOf DEF files
<1> QED
  BY <1>2, <1>3 DEF Compare

\* What a wizard that saves finds in the files.
LEMMA SavesIs ==
  ASSUME SetupInv, NEW p \in Profiles, NEW now \in Saves, At(p, now)
  PROVE  /\ config[p] = wizard[p].config \/ (now = "restore" /\ p \in torn)
         /\ wizard[p].env.rest = edits[p].env
         /\ wizard[p].config.rest = edits[p].config
         /\ now # "env" => env[p] = [settings |-> SettingsOf(wizard[p].answer),
                                     rest |-> wizard[p].env.rest]
BY StageIs DEF Filed

LEMMA ReplaceEnvInv ==
  ASSUME SetupInv, NEW p \in Profiles, ReplaceEnv(p)
  PROVE  SetupInv'
<1> DEFINE s == SettingsOf(wizard[p].answer)
           e == [settings |-> s, rest |-> wizard[p].env.rest]
<1>1. /\ At(p, "env") /\ env' = [env EXCEPT ![p] = e] /\ GoTo(p, "config")
      /\ UNCHANGED <<server, config, edits, failures, torn>>
  BY DEF ReplaceEnv, Rest
<1>2. "env" \in Saves /\ "env" \in Checked /\ "config" \in Saves /\ "config" \in Stages
  BY DEF Checked, Saves, Stages
<1>3. /\ Ready(p, s) /\ s \in Settings /\ s # Null
      /\ wizard[p].env \in Env /\ wizard[p].config \in Config
      /\ wizard[p].config.provider => wizard[p].env.settings # Null \/ p \in torn
  BY <1>1, <1>2, CheckedIs
<1>4. /\ config[p] = wizard[p].config
      /\ wizard[p].env.rest = edits[p].env /\ wizard[p].config.rest = edits[p].config
  BY <1>1, <1>2, SavesIs
<1>5. e \in Env /\ e.settings = s /\ e.rest = wizard[p].env.rest
  BY <1>3 DEF Env
<1>6. PICK t \in Settings : t = s
  BY <1>3
<1>7. Ready(p, t)'
  BY <1>1, <1>3, <1>6, ReadyRests
<1>8. Backed(p)'
  BY <1>1, <1>2, SavingBacked
<1> HIDE DEF e, s
<1>9. /\ env' \in [Profiles -> Env] /\ env'[p] = e
      /\ \A q \in Profiles \ {p} : env'[q] = env[q]
  BY <1>1, <1>5 DEF SetupInv, TypeOK
<1>10. /\ wizard' \in [Profiles -> Wizard \cup {Idle}] /\ wizard'[p].pc = "config"
       /\ wizard'[p].env = wizard[p].env /\ wizard'[p].config = wizard[p].config
       /\ wizard'[p].answer = wizard[p].answer
       /\ \A q \in Profiles \ {p} : wizard'[q] = wizard[q]
  BY <1>1, <1>2, GoToIs DEF SetupInv
<1>11. ServerGrows /\ ServerTyped' /\ OwnerKept'
  BY <1>1, ServerStays
<1>12. TypeOK'
  BY <1>1, <1>9, <1>10, <1>11 DEF SetupInv, TypeOK, ServerTyped
<1>13. Kept(p)'
  BY <1>1, <1>2, <1>3, <1>4, <1>5, <1>6, <1>7, <1>9 DEF Kept
<1>14. Filed(p)'
  BY <1>1, <1>3, <1>4, <1>9, <1>10 DEF Filed, e, s
<1> QED
  BY <1>1, <1>8, <1>9, <1>10, <1>11, <1>12, <1>13, <1>14, StepOf

LEMMA ReplaceConfigInv ==
  ASSUME SetupInv, NEW p \in Profiles, ReplaceConfig(p)
  PROVE  SetupInv'
<1>1. At(p, "config") /\ UNCHANGED <<server, env, edits>>
  BY DEF ReplaceConfig
<1>2. /\ "config" \in Saves /\ "config" \in Checked
      /\ "restore" \in Saves /\ "restore" \in Stages
  BY DEF Checked, Saves, Stages
<1>3. PICK s \in Settings : s = SettingsOf(wizard[p].answer) /\ Ready(p, s) /\ s # Null
  BY <1>1, <1>2, CheckedIs
<1>4. /\ config[p] = wizard[p].config /\ wizard[p].config \in Config
      /\ env[p].settings = s /\ env[p].rest = wizard[p].env.rest
      /\ wizard[p].env.rest = edits[p].env /\ wizard[p].config.rest = edits[p].config
  <2>1. env[p] = [settings |-> s, rest |-> wizard[p].env.rest]
    BY <1>1, <1>2, <1>3, SavesIs
  <2>2. /\ config[p] = wizard[p].config
        /\ wizard[p].env.rest = edits[p].env /\ wizard[p].config.rest = edits[p].config
    BY <1>1, <1>2, SavesIs
  <2>3. wizard[p].config \in Config
    BY <1>1, <1>2, CheckedIs
  <2> QED
    BY <2>1, <2>2, <2>3
<1>5. Ready(p, s)' /\ ServerGrows /\ ServerTyped' /\ OwnerKept'
  BY <1>1, <1>3, ReadyRests, ServerStays
<1>6. /\ Rendered(p) \in Config /\ Rendered(p).rest = edits[p].config
  <2>1. wizard[p].answer.activate \in BOOLEAN
    BY <1>1, StageIs DEF Answer
  <2> QED
    BY <1>4, <2>1 DEF Rendered, Config
<1>7. CASE /\ config' = [config EXCEPT ![p] = Rendered(p)]
           /\ wizard' = [wizard EXCEPT ![p] = Idle]
           /\ torn' = torn \ {p} /\ UNCHANGED failures
  <2>1. /\ config' \in [Profiles -> Config] /\ config'[p].rest = edits[p].config
        /\ \A q \in Profiles \ {p} : config'[q] = config[q]
    BY <1>6, <1>7 DEF SetupInv, TypeOK
  <2>2. /\ wizard' \in [Profiles -> Wizard \cup {Idle}] /\ wizard'[p] = Idle
        /\ \A q \in Profiles \ {p} : wizard'[q] = wizard[q]
    BY <1>7 DEF SetupInv, TypeOK
  <2>3. TypeOK'
    BY <1>1, <1>5, <1>7, <2>1, <2>2 DEF SetupInv, TypeOK, ServerTyped
  <2>4. Kept(p)'
    BY <1>1, <1>3, <1>4, <1>5, <2>1 DEF Kept
  <2>5. \A q \in Profiles \ {p} : q \in torn' <=> q \in torn
    BY <1>7
  <2> QED
    BY <1>1, <1>5, <2>1, <2>2, <2>3, <2>4, <2>5, StepOf
<1>8. CASE /\ failures < MaxFailures /\ failures' = failures + 1
           /\ GoTo(p, "restore")
           /\ \/ UNCHANGED <<config, torn>>
              \/ /\ config' = [config EXCEPT ![p] = Rendered(p)]
                 /\ torn' = torn \cup {p}
  <2>1. /\ wizard' \in [Profiles -> Wizard \cup {Idle}] /\ wizard'[p].pc = "restore"
        /\ wizard'[p].env = wizard[p].env /\ wizard'[p].config = wizard[p].config
        /\ wizard'[p].answer = wizard[p].answer
        /\ \A q \in Profiles \ {p} : wizard'[q] = wizard[q]
    BY <1>1, <1>2, <1>8, GoToIs DEF SetupInv
  <2>2. failures' \in 0..MaxFailures
    BY <1>8, SetupConstants DEF SetupInv, TypeOK
  <2>3. /\ config' \in [Profiles -> Config] /\ config'[p].rest = edits[p].config
        /\ config'[p] = wizard[p].config \/ p \in torn'
        /\ torn \subseteq torn' /\ torn' \subseteq Profiles
        /\ \A q \in Profiles \ {p} :
             config'[q] = config[q] /\ (q \in torn' <=> q \in torn)
    BY <1>4, <1>6, <1>8 DEF SetupInv, TypeOK
  <2>4. TypeOK'
    BY <1>1, <1>5, <2>1, <2>2, <2>3 DEF SetupInv, TypeOK, ServerTyped
  <2>5. Kept(p)'
    BY <1>1, <1>3, <1>4, <1>5, <2>3 DEF Kept
  <2>6. Backed(p)'
    BY <1>1, <1>2, <1>8, SavingBacked
  <2>7. Filed(p)'
    <3>1. /\ wizard[p].config.provider =>
               wizard[p].env.settings # Null \/ p \in torn
          /\ env[p] = [settings |-> SettingsOf(wizard[p].answer),
                       rest |-> wizard[p].env.rest]
      BY <1>1, <1>2, CheckedIs, SavesIs
    <3> QED
      BY <1>1, <1>4, <2>1, <2>3, <3>1 DEF Filed
  <2> QED
    BY <1>1, <1>5, <2>1, <2>3, <2>4, <2>5, <2>6, <2>7, StepOf
<1> QED
  BY <1>7, <1>8 DEF ReplaceConfig

LEMMA RestoreEnvInv ==
  ASSUME SetupInv, NEW p \in Profiles, RestoreEnv(p)
  PROVE  SetupInv'
<1>1. /\ At(p, "restore") /\ env' = [env EXCEPT ![p] = wizard[p].env]
      /\ wizard' = [wizard EXCEPT ![p] = Idle]
      /\ UNCHANGED <<server, config, edits, failures, torn>>
  BY DEF RestoreEnv, Rest
<1>2. "restore" \in Saves /\ "restore" \in Checked
  BY DEF Checked, Saves
<1>3. PICK e \in Env : /\ e = wizard[p].env
                       /\ e.settings # Null => Ready(p, e.settings)
                       /\ wizard[p].config.provider =>
                            e.settings # Null \/ p \in torn
  BY <1>1, <1>2, CheckedIs
<1>4. /\ config[p] = wizard[p].config \/ p \in torn
      /\ e.rest = edits[p].env /\ config[p].rest = edits[p].config
  BY <1>1, <1>2, <1>3, SavesIs DEF SetupInv, Kept
<1>5. e.settings # Null => Ready(p, e.settings)'
  BY <1>1, <1>3, ReadyRests DEF Env
<1>6. /\ env' \in [Profiles -> Env] /\ env'[p] = e
      /\ wizard' \in [Profiles -> Wizard \cup {Idle}] /\ wizard'[p] = Idle
      /\ \A q \in Profiles \ {p} : wizard'[q] = wizard[q] /\ env'[q] = env[q]
  BY <1>1, <1>3 DEF SetupInv, TypeOK
<1>7. ServerGrows /\ ServerTyped' /\ OwnerKept'
  BY <1>1, ServerStays
<1>8. TypeOK'
  BY <1>1, <1>6, <1>7 DEF SetupInv, TypeOK, ServerTyped
<1>9. Kept(p)'
  BY <1>1, <1>3, <1>4, <1>5, <1>6 DEF Kept
<1> QED
  BY <1>1, <1>6, <1>7, <1>8, <1>9, StepOf

\* Someone edits a file while no wizard of the profile saves.
LEMMA EditInv ==
  ASSUME SetupInv, NEW p \in Profiles, EditEnv(p) \/ EditConfig(p)
  PROVE  SetupInv'
<1>1. ~Saving(p) /\ UNCHANGED <<server, wizard, failures, torn>>
  BY DEF EditEnv, EditConfig
<1>2. PICK e \in Env, c \in Config, d \in [env : Nat, config : Nat] :
        e = env[p] /\ c = config[p] /\ d = edits[p]
  BY DEF SetupInv, TypeOK
<1>3. Kept(p) /\ ServerGrows /\ ServerTyped' /\ OwnerKept'
  BY <1>1, ServerStays DEF SetupInv
<1>4. e.settings # Null => Ready(p, e.settings)'
  BY <1>1, <1>2, <1>3, ReadyRests DEF Kept, Env
<1>5. /\ env' \in [Profiles -> Env] /\ env'[p].settings = e.settings
      /\ config' \in [Profiles -> Config] /\ config'[p].provider = c.provider
      /\ edits' \in [Profiles -> [env : Nat, config : Nat]]
      /\ env'[p].rest = edits'[p].env /\ config'[p].rest = edits'[p].config
      /\ \A q \in Profiles \ {p} :
           env'[q] = env[q] /\ config'[q] = config[q] /\ edits'[q] = edits[q]
  <2>1. e.rest = d.env /\ c.rest = d.config
    BY <1>2, <1>3 DEF Kept
  <2>2. CASE EditEnv(p)
    <3> DEFINE f == [e EXCEPT !.rest = @ + 1]
               n == [d EXCEPT !.env = @ + 1]
    <3>1. /\ f \in Env /\ f.settings = e.settings /\ f.rest = e.rest + 1
          /\ n \in [env : Nat, config : Nat]
          /\ n.env = d.env + 1 /\ n.config = d.config
      BY DEF Env
    <3>2. /\ env' = [env EXCEPT ![p] = f] /\ edits' = [edits EXCEPT ![p] = n]
          /\ config' = config
      BY <1>2, <2>2 DEF EditEnv
    <3> HIDE DEF f, n
    <3> QED
      BY <1>2, <2>1, <3>1, <3>2 DEF SetupInv, TypeOK
  <2>3. CASE EditConfig(p)
    <3> DEFINE f == [c EXCEPT !.rest = @ + 1]
               n == [d EXCEPT !.config = @ + 1]
    <3>1. /\ f \in Config /\ f.provider = c.provider /\ f.rest = c.rest + 1
          /\ n \in [env : Nat, config : Nat]
          /\ n.env = d.env /\ n.config = d.config + 1
      BY DEF Config
    <3>2. /\ config' = [config EXCEPT ![p] = f] /\ edits' = [edits EXCEPT ![p] = n]
          /\ env' = env
      BY <1>2, <2>3 DEF EditConfig
    <3> HIDE DEF f, n
    <3> QED
      BY <1>2, <2>1, <3>1, <3>2 DEF SetupInv, TypeOK
  <2> QED
    BY <2>2, <2>3
<1>6. Kept(p)'
  BY <1>1, <1>2, <1>3, <1>4, <1>5 DEF Kept
<1>7. wizard'[p] # Idle => Backed(p)' /\ Filed(p)'
  <2>1. wizard[p] # Idle => Backed(p)'
    BY <1>1, <1>3, BackedStays
  <2>2. wizard[p] # Idle => wizard[p].pc \notin Saves /\ Filed(p)
    BY <1>1 DEF Saving, At, Saves, SetupInv
  <2> QED
    BY <1>1, <2>1, <2>2 DEF Filed
<1>8. TypeOK'
  BY <1>1, <1>3, <1>5 DEF SetupInv, TypeOK, ServerTyped
<1> QED
  BY <1>1, <1>3, <1>5, <1>6, <1>7, <1>8, StepOf

LEMMA FailInv ==
  ASSUME SetupInv, NEW p \in Profiles, Fail(p)
  PROVE  SetupInv'
<1>1. failures' \in 0..MaxFailures
  BY SetupConstants DEF Fail, SetupInv, TypeOK
<1> QED
  BY <1>1, GivesUp DEF Fail

LEMMA SetupNextInv ==
  ASSUME SetupInv, Next \/ UNCHANGED vars
  PROVE  SetupInv'
<1>1. CASE UNCHANGED vars
  <2>1. UNCHANGED <<server, wizard, env, config, edits, failures, torn>>
    BY <1>1 DEF vars, files
  <2>2. ServerGrows /\ ServerTyped' /\ OwnerKept'
    BY <2>1, ServerStays
  <2>3. \A p \in Profiles :
          Kept(p)' /\ (wizard[p] # Idle => Backed(p)' /\ Filed(p)')
    BY <2>1, <2>2, KeptStays, BackedStays, FiledStays DEF SetupInv
  <2> QED
    BY <2>1, <2>2, <2>3 DEF SetupInv, TypeOK, ServerTyped
<1>2. ASSUME NEW p \in Profiles, Step(p)
      PROVE  SetupInv'
  BY <1>2, ProvisionInv, VerifyInv, MigrateInv, BindInv, GrantRuntimeInv,
     DoctorInv, CompareInv, ReplaceEnvInv, ReplaceConfigInv, RestoreEnvInv
     DEF Step, Prepare, Save
<1> QED
  BY <1>1, <1>2, StartInv, FailInv, EditInv DEF Next

LEMMA SetupInitInv ==
  ASSUME Init
  PROVE  SetupInv
<1>1. /\ schema = [owner |-> Null, bound |-> [p \in Profiles |-> Null], granted |-> {}]
      /\ env = [p \in Profiles |-> [settings |-> Null, rest |-> 0]]
      /\ config = [p \in Profiles |-> [provider |-> FALSE, rest |-> 0]]
      /\ edits = [p \in Profiles |-> [env |-> 0, config |-> 0]]
      /\ wizard = [p \in Profiles |-> Idle] /\ failures = 0 /\ torn = {}
  BY DEF Init
<1>2. role \in [Roles -> Passwords \cup {Null}] /\ database \in Database \cup {NoDatabase}
  BY SetupConstants DEF Init
<1>3. TypeOK
  <2>1. schema \in Schema
    BY <1>1 DEF Schema
  <2>2. env \in [Profiles -> Env] /\ config \in [Profiles -> Config]
    BY <1>1 DEF Env, Config
  <2> QED
    BY <1>1, <1>2, <2>1, <2>2, SetupConstants DEF TypeOK
<1> QED
  BY <1>1, <1>3 DEF SetupInv, OwnerKept, Kept

----------------------------------------------------------------------------
(* Migrations *)

\* Only the holder of the lock is past asking for it.
LockHeld ==
  \A p \in Processes : lock = p <=> M!IsMigrating(p) /\ tx[p].pc # "lock"

\* The rows the backfills write in a database without policies.
Uncovered == {r \in M!Rows : profile[r[1]] # Null}

\* What a migration that holds the lock has done: the history is the beginning
\* of its release, its own rows continue it up to next, and it fills the
\* policies of all profiles if the table is its own.
Going(me) ==
  /\ M!Accepts(me.release)
  /\ \A v \in DOMAIN me.rows : v \in DOMAIN me.release /\ me.rows[v] = me.release[v]
  /\ \A v \in DOMAIN me.release :
       v < me.next => v \in DOMAIN history \cup DOMAIN me.rows
  /\ M!HasTable => me.filled = {}
  /\ ~M!HasTable =>
       /\ M!Created \in DOMAIN me.rows <=> M!Created \in 1..me.next - 1
       /\ me.filled = IF M!Created < me.next THEN Uncovered ELSE {}
  /\ me.next <= Len(me.release) + 1
  /\ me.pc = "commit" => me.next > Len(me.release)

Continues(p) == Going(tx[p])

MigrationInv(p) ==
  M!IsMigrating(p) =>
    IF tx[p].pc \in {"lock", "validate"}
    THEN tx[p].next = 1 /\ tx[p].rows = <<>> /\ tx[p].filled = {}
    ELSE Continues(p)

\* A bootstrap writes policies only where there is a table for them.
BootstrapInv(p) ==
  M!IsBootstrapping(p) =>
    /\ tx[p].pc = "done" \/ tx[p].written > 0 => M!HasTable
    /\ tx[p].pc # "done" => tx[p].written < 3

\* Released and PolicyOfOneBootstrap take what an open transaction has yet to
\* commit into account.
MigrationsInv ==
  /\ M!TypeOK /\ M!PolicyOfOneBootstrap
  /\ ~M!HasTable => \A s \in Slugs, o \in M!Operations : policy[s][o] = Null
  /\ \A p \in Processes : MigrationInv(p) /\ BootstrapInv(p)

\* The first version that fills policies creates their table.
LEMMA CreatedIs ==
  M!Created \in Backfills /\ M!Created \in 1..MaxVersion
    /\ \A v \in Backfills : M!Created <= v
<1>1. Backfills # {} /\ Backfills \subseteq 1..MaxVersion /\ MaxVersion \in Nat
  BY MigrationsConstants DEF M!MigrationConstants
<1>2. \E v \in Backfills : \A w \in Backfills : v <= w
  <2> DEFINE R == OpToRel(<, Nat)
  <2>1. \A v, w \in Nat : v < w => <<v, w>> \in R
    BY DEF OpToRel
  <2>2. IsWellFoundedOn(R, Nat)
    BY NatLessThanWellFounded
  <2> HIDE DEF R
  <2>3. Backfills \subseteq Nat /\ Backfills # {}
    BY <1>1
  <2>4. PICK v \in Backfills : \A w \in Backfills : ~(<<w, v>> \in R)
    BY <2>2, <2>3, WFMin
  <2>5. \A w \in Backfills : ~(w < v)
    BY <2>1, <2>3, <2>4
  <2> QED
    BY <2>3, <2>5
<1> QED
  BY <1>1, <1>2 DEF M!Created

\* A release is a sequence of checksums of limited length.
LEMMA ReleaseIs ==
  ASSUME NEW release \in Releases
  PROVE  /\ Len(release) \in 1..MaxVersion /\ DOMAIN release = 1..Len(release)
         /\ release = [v \in 1..Len(release) |-> release[v]]
         /\ \A v \in 1..Len(release) : release[v] \in Checksums
<1>1. release \in Seq(Checksums) /\ Len(release) \in 1..MaxVersion
  BY MigrationsConstants DEF M!MigrationConstants
<1> QED
  BY <1>1

\* What M!TypeOK says of one transaction.
LEMMA KindsOfTx ==
  /\ \A me \in M!Migrating :
       /\ me \notin M!Bootstrapping /\ me # M!Idle
       /\ me.pc \in {"lock", "validate", "apply", "commit"}
  /\ \A me \in M!Bootstrapping :
       /\ me \notin M!Migrating /\ me # M!Idle
       /\ me.pc \in {"select", "insert", "upsert", "done"}
  /\ M!Idle \notin M!Migrating /\ M!Idle \notin M!Bootstrapping
<1>1. \A me \in M!Migrating : me.pc \in {"lock", "validate", "apply", "commit"}
  BY DEF M!Migrating
<1>2. \A me \in M!Bootstrapping : me.pc \in {"select", "insert", "upsert", "done"}
  BY DEF M!Bootstrapping
<1>3. M!Idle.pc = "idle"
  BY DEF M!Idle
<1> QED
  BY <1>1, <1>2, <1>3

LEMMA HistoryIs ==
  ASSUME NEW h
  PROVE  h \in M!Histories <=>
           \E versions \in SUBSET (1..MaxVersion) : h \in [versions -> Checksums]
BY DEF M!Histories

\* A transaction that nothing committed disturbs keeps what it relies on.
LEMMA TxStays ==
  ASSUME MigrationsInv, NEW p \in Processes, tx'[p] = tx[p],
         UNCHANGED <<history, profile>>
  PROVE  MigrationInv(p)' /\ BootstrapInv(p)'
<1>1. MigrationInv(p) /\ BootstrapInv(p)
  BY DEF MigrationsInv
<1>2. MigrationInv(p)'
  BY <1>1 DEF MigrationInv, Continues, Going, M!IsMigrating, M!Accepts, M!HasTable, Uncovered
<1>3. BootstrapInv(p)'
  BY <1>1 DEF BootstrapInv, M!IsBootstrapping, M!HasTable
<1> QED
  BY <1>2, <1>3

\* A step of a transaction that commits nothing is right if it is for itself
\* and for the lock.
LEMMA TxStep ==
  ASSUME MigrationsInv, NEW p \in Processes,
         NEW me \in M!Migrating \cup M!Bootstrapping \cup {M!Idle},
         tx' = [tx EXCEPT ![p] = me], UNCHANGED <<history, profile, policy>>,
         \/ lock' = lock /\ (lock = p <=> me \in M!Migrating /\ me.pc # "lock")
         \/ lock = Null /\ lock' = p /\ me \in M!Migrating /\ me.pc # "lock"
         \/ lock = p /\ lock' = Null /\ ~(me \in M!Migrating /\ me.pc # "lock"),
         MigrationInv(p)', BootstrapInv(p)'
  PROVE  MigrationsInv'
<1>1. /\ tx' \in [Processes -> M!Migrating \cup M!Bootstrapping \cup {M!Idle}]
      /\ tx'[p] = me /\ \A q \in Processes \ {p} : tx'[q] = tx[q]
  BY DEF MigrationsInv, M!TypeOK
<1>2. /\ lock' \in Processes \cup {Null} /\ LockHeld' /\ Null \notin Processes
  <2>1. LockHeld /\ lock \in Processes \cup {Null} /\ Null \notin Processes
    BY MigrationsConstants DEF MigrationsInv, M!TypeOK, LockHeld, M!MigrationConstants
  <2>2. \A q \in Processes : lock' = q <=> M!IsMigrating(q)' /\ tx'[q].pc # "lock"
    BY <1>1, <2>1 DEF LockHeld, M!IsMigrating
  <2> QED
    BY <2>1, <2>2 DEF LockHeld
<1>3. M!TypeOK'
  BY <1>1, <1>2 DEF MigrationsInv, M!TypeOK, LockHeld
<1>4. \A q \in Processes : MigrationInv(q)' /\ BootstrapInv(q)'
  BY <1>1, TxStays
<1>5. M!PolicyOfOneBootstrap'
  BY DEF MigrationsInv, M!PolicyOfOneBootstrap, M!HasTable
<1>6. ~M!HasTable' => \A s \in Slugs, o \in M!Operations : policy'[s][o] = Null
  BY DEF MigrationsInv, M!HasTable
<1> QED
  BY <1>3, <1>4, <1>5, <1>6 DEF MigrationsInv

LEMMA RollbackInv ==
  ASSUME MigrationsInv, NEW p \in Processes, M!Rollback(p)
  PROVE  MigrationsInv'
<1>1. /\ tx' = [tx EXCEPT ![p] = M!Idle] /\ tx'[p] = M!Idle
      /\ lock' = IF lock = p THEN Null ELSE lock
      /\ UNCHANGED <<history, profile, policy>>
  BY DEF M!Rollback, MigrationsInv, M!TypeOK
<1>2. M!Idle \notin M!Migrating /\ M!Idle \notin M!Bootstrapping
  BY KindsOfTx
<1>3. MigrationInv(p)' /\ BootstrapInv(p)'
  BY <1>1, <1>2 DEF MigrationInv, BootstrapInv, M!IsMigrating, M!IsBootstrapping
<1> QED
  BY <1>1, <1>2, <1>3, TxStep

LEMMA StartMigrationInv ==
  ASSUME MigrationsInv, NEW p \in Processes, NEW release \in Releases,
         M!StartMigration(p, release)
  PROVE  MigrationsInv'
<1> DEFINE me == [pc |-> "lock", release |-> release, next |-> 1, rows |-> <<>>,
                  filled |-> {}]
<1>1. /\ tx[p] = M!Idle /\ tx' = [tx EXCEPT ![p] = me]
      /\ UNCHANGED <<history, profile, policy, lock>>
  BY DEF M!StartMigration
<1>2. <<>> \in M!Histories
  <2>1. <<>> \in [{} -> Checksums]
    OBVIOUS
  <2> QED
    BY <2>1, HistoryIs
<1>3. me \in M!Migrating
  BY <1>2, MigrationsConstants DEF M!Migrating, M!MigrationConstants
<1>4. /\ me.pc = "lock" /\ me.next = 1 /\ me.rows = <<>> /\ me.filled = {}
  OBVIOUS
<1> HIDE DEF me
<1>5. tx'[p] = me /\ M!IsMigrating(p)' /\ ~M!IsBootstrapping(p)'
  BY <1>1, <1>3, KindsOfTx
     DEF MigrationsInv, M!TypeOK, M!IsMigrating, M!IsBootstrapping
<1>6. MigrationInv(p)' /\ BootstrapInv(p)'
  BY <1>4, <1>5 DEF MigrationInv, BootstrapInv
<1>7. lock # p
  BY <1>1, KindsOfTx DEF MigrationsInv, M!TypeOK, M!IsMigrating
<1> QED
  BY <1>1, <1>3, <1>4, <1>6, <1>7, TxStep

\* A transaction that migrates, or holds the lock, is one in its stage.
LEMMA MigratingIs ==
  ASSUME MigrationsInv, NEW p \in Processes, M!IsMigrating(p)
  PROVE  /\ tx[p] \in M!Migrating /\ MigrationInv(p) /\ LockHeld
         /\ tx[p].release \in Releases /\ tx[p].next \in 1..MaxVersion + 1
         /\ tx[p].rows \in M!Histories /\ tx[p].filled \subseteq M!Rows
BY DEF MigrationsInv, M!TypeOK, LockHeld, M!IsMigrating, M!Migrating

LEMMA LockInv ==
  ASSUME MigrationsInv, NEW p \in Processes, M!Lock(p)
  PROVE  MigrationsInv'
<1> DEFINE me == [tx[p] EXCEPT !.pc = "validate"]
<1>1. /\ M!IsMigrating(p) /\ tx[p].pc = "lock" /\ lock = Null /\ lock' = p
      /\ tx' = [tx EXCEPT ![p] = me] /\ UNCHANGED <<history, profile, policy>>
  <2>1. /\ M!IsMigrating(p) /\ tx[p].pc = "lock" /\ M!WaitsFor(p) = {} /\ lock' = p
        /\ tx' = [tx EXCEPT ![p] = me] /\ UNCHANGED <<history, profile, policy>>
    BY DEF M!Lock
  <2>2. lock \in Processes \cup {Null} /\ lock # p
    BY <2>1, MigratingIs DEF MigrationsInv, M!TypeOK, LockHeld
  <2>3. lock \notin Processes
    BY <2>1, <2>2 DEF M!WaitsFor
  <2> QED
    BY <2>1, <2>2, <2>3
<1>2. tx[p] \in M!Migrating /\ MigrationInv(p)
  BY <1>1, MigratingIs
<1>3. /\ me \in M!Migrating /\ me.pc = "validate" /\ me.next = tx[p].next
      /\ me.rows = tx[p].rows /\ me.filled = tx[p].filled
  BY <1>2 DEF M!Migrating
<1> HIDE DEF me
<1>4. tx'[p] = me /\ M!IsMigrating(p)' /\ ~M!IsBootstrapping(p)'
  BY <1>1, <1>3, KindsOfTx
     DEF MigrationsInv, M!TypeOK, M!IsMigrating, M!IsBootstrapping
<1>5. MigrationInv(p)' /\ BootstrapInv(p)'
  BY <1>1, <1>2, <1>3, <1>4 DEF MigrationInv, BootstrapInv
<1> QED
  BY <1>1, <1>3, <1>5, TxStep

LEMMA ValidateInv ==
  ASSUME MigrationsInv, NEW p \in Processes, M!Validate(p)
  PROVE  MigrationsInv'
<1>1. M!IsMigrating(p) /\ tx[p].pc = "validate"
  BY DEF M!Validate
<1>2. CASE /\ M!Accepts(tx[p].release)
           /\ tx' = [tx EXCEPT ![p].pc = "apply"]
           /\ UNCHANGED <<history, profile, policy, lock>>
  <2>1. PICK was \in M!Migrating :
          /\ was = tx[p] /\ was.next = 1 /\ was.rows = <<>> /\ was.filled = {}
          /\ was.release \in Releases /\ lock = p
    BY <1>1, MigratingIs DEF MigrationInv, LockHeld
  <2> DEFINE me == [was EXCEPT !.pc = "apply"]
  <2>2. /\ me \in M!Migrating /\ me.pc = "apply" /\ me.next = 1 /\ me.rows = <<>>
        /\ me.filled = {} /\ me.release = was.release
    BY <2>1 DEF M!Migrating
  <2>3. tx' = [tx EXCEPT ![p] = me]
    BY <1>2, <2>1
  <2> HIDE DEF me
  <2>4. tx'[p] = me /\ M!IsMigrating(p)' /\ ~M!IsBootstrapping(p)'
    BY <2>2, <2>3, KindsOfTx
       DEF MigrationsInv, M!TypeOK, M!IsMigrating, M!IsBootstrapping
  <2>5. DOMAIN me.release = 1..Len(me.release) /\ Len(me.release) \in Nat
        /\ DOMAIN me.rows = {} /\ M!Created \in Nat /\ M!Created > 0
    BY <2>1, <2>2, ReleaseIs, CreatedIs
  <2>6. Going(me)
    BY <1>2, <2>1, <2>2, <2>5 DEF Going
  <2>7. Continues(p)'
    BY <1>2, <2>4, <2>6 DEF Continues, Going, M!Accepts, M!HasTable, Uncovered
  <2>8. MigrationInv(p)' /\ BootstrapInv(p)'
    BY <2>2, <2>4, <2>7 DEF MigrationInv, BootstrapInv
  <2> QED
    BY <1>2, <2>1, <2>2, <2>3, <2>8, TxStep
<1> QED
  BY <1>1, <1>2, RollbackInv DEF M!Validate

\* What a migration that holds the lock knows.
LEMMA ApplyingIs ==
  ASSUME MigrationsInv, NEW p \in Processes, M!IsMigrating(p),
         tx[p].pc \in {"apply", "commit"}
  PROVE  /\ Continues(p) /\ lock = p /\ tx[p] \in M!Migrating
         /\ tx[p].release \in Releases
         /\ DOMAIN tx[p].release = 1..Len(tx[p].release)
         /\ Len(tx[p].release) \in 1..MaxVersion /\ MaxVersion \in Nat
         /\ tx[p].next \in 1..MaxVersion + 1
         /\ M!Created \in Nat /\ M!Created > 0
BY MigratingIs, ReleaseIs, CreatedIs, MigrationsConstants
   DEF MigrationInv, LockHeld, M!MigrationConstants

\* The rows a backfill adds: with a table there are none to add.
LEMMA MissingIs ==
  ASSUME MigrationsInv, NEW v \in 1..MaxVersion
  PROVE  M!Missing(v) = IF v \in Backfills /\ ~M!HasTable THEN Uncovered ELSE {}
<1>1. CASE v \in Backfills /\ M!HasTable
  <2>1. ASSUME NEW r \in M!Rows, profile[r[1]] # Null PROVE policy[r[1]][r[2]] # Null
    <3>1. r[1] \in Slugs /\ r[2] \in M!Operations
      BY DEF M!Rows
    <3> QED
      BY <1>1, <2>1, <3>1, MigrationsConstants
         DEF MigrationsInv, M!PolicyOfOneBootstrap, M!MigrationConstants
  <2> QED
    BY <1>1, <2>1 DEF M!Missing
<1>2. CASE v \in Backfills /\ ~M!HasTable
  <2>1. ASSUME NEW r \in M!Rows PROVE policy[r[1]][r[2]] = Null
    <3>1. r[1] \in Slugs /\ r[2] \in M!Operations
      BY DEF M!Rows
    <3> QED
      BY <1>2, <3>1 DEF MigrationsInv
  <2> QED
    BY <1>2, <2>1 DEF M!Missing, Uncovered
<1>3. CASE v \notin Backfills
  BY <1>3 DEF M!Missing
<1> QED
  BY <1>1, <1>2, <1>3

LEMMA ApplyNextInv ==
  ASSUME MigrationsInv, NEW p \in Processes, M!ApplyNext(p)
  PROVE  MigrationsInv'
<1>1. M!IsMigrating(p) /\ tx[p].pc = "apply" /\ tx[p].next <= Len(tx[p].release)
  BY DEF M!ApplyNext
<1>2. PICK was \in M!Migrating : was = tx[p]
  BY <1>1, ApplyingIs
<1> DEFINE v == was.next
<1>3. /\ was.pc = "apply" /\ Going(was) /\ lock = p /\ was.release \in Releases
      /\ DOMAIN was.release = 1..Len(was.release)
      /\ Len(was.release) \in 1..MaxVersion /\ MaxVersion \in Nat
      /\ v \in 1..MaxVersion /\ v \in 1..Len(was.release)
      /\ v + 1 \in 1..MaxVersion + 1
      /\ M!Created \in Nat /\ M!Created > 0
  BY <1>1, <1>2, ApplyingIs DEF Continues
<1>4. was.rows \in M!Histories /\ was.filled \subseteq M!Rows
  BY <1>1, <1>2, MigratingIs
<1> HIDE DEF v
<1>5. ASSUME NEW me \in M!Migrating, tx' = [tx EXCEPT ![p] = me],
             UNCHANGED <<history, profile, policy, lock>>,
             me.pc = "apply", Going(me)
      PROVE  MigrationsInv'
  <2>1. tx'[p] = me /\ M!IsMigrating(p)' /\ ~M!IsBootstrapping(p)'
    BY <1>5, KindsOfTx
       DEF MigrationsInv, M!TypeOK, M!IsMigrating, M!IsBootstrapping
  <2>2. Continues(p)'
    BY <1>5, <2>1 DEF Continues, Going, M!Accepts, M!HasTable, Uncovered
  <2>3. MigrationInv(p)' /\ BootstrapInv(p)'
    BY <1>5, <2>1, <2>2 DEF MigrationInv, BootstrapInv
  <2> QED
    BY <1>3, <1>5, <2>3, TxStep
<1>6. CASE /\ v \in DOMAIN M!Seen(p)
           /\ tx' = [tx EXCEPT ![p].next = v + 1]
           /\ UNCHANGED <<history, profile, policy, lock>>
  <2> DEFINE me == [was EXCEPT !.next = v + 1]
  <2>1. /\ me \in M!Migrating /\ me.pc = "apply" /\ me.next = v + 1
        /\ me.rows = was.rows /\ me.filled = was.filled /\ me.release = was.release
    BY <1>3 DEF M!Migrating
  <2>2. tx' = [tx EXCEPT ![p] = me]
    BY <1>2, <1>6
  <2>3. v \in DOMAIN history \cup DOMAIN was.rows
    BY <1>2, <1>6 DEF M!Seen
  <2> HIDE DEF me
  <2>4. Going(me)
    <3>1. ~M!HasTable => M!Created \notin DOMAIN history
      BY DEF M!HasTable
    <3>2. ~M!HasTable =>
            /\ M!Created \in DOMAIN me.rows <=> M!Created \in 1..me.next - 1
            /\ me.filled = IF M!Created < me.next THEN Uncovered ELSE {}
      BY <1>3, <2>1, <2>3, <3>1 DEF Going, v
    <3>3. \A w \in DOMAIN me.release :
            w < me.next => w \in DOMAIN history \cup DOMAIN me.rows
      <4>1. ASSUME NEW w \in DOMAIN me.release, w < me.next
            PROVE  w = v \/ w < was.next
        BY <1>3, <2>1, <4>1 DEF v
      <4> QED
        BY <1>3, <2>1, <2>3, <4>1 DEF Going
    <3>4. /\ M!Accepts(me.release)
          /\ \A w \in DOMAIN me.rows :
               w \in DOMAIN me.release /\ me.rows[w] = me.release[w]
          /\ M!HasTable => me.filled = {}
      BY <1>3, <2>1 DEF Going
    <3>5. me.next <= Len(me.release) + 1
      BY <1>3, <2>1
    <3> QED
      BY <2>1, <3>2, <3>3, <3>4, <3>5 DEF Going
  <2> QED
    BY <1>5, <1>6, <2>1, <2>2, <2>4
<1>7. CASE /\ v \notin DOMAIN M!Seen(p)
           /\ tx' = [tx EXCEPT ![p].next = v + 1,
                               ![p].rows = M!Extended(@, v, was.release[v]),
                               ![p].filled = @ \cup M!Missing(v)]
           /\ UNCHANGED <<history, profile, policy, lock>>
  <2>1. PICK missing : missing = M!Missing(v)
    OBVIOUS
  <2> DEFINE rows == M!Extended(was.rows, v, was.release[v])
             filled == was.filled \cup missing
             me == [was EXCEPT !.next = v + 1, !.rows = rows, !.filled = filled]
  <2>2. /\ rows \in M!Histories /\ DOMAIN rows = DOMAIN was.rows \cup {v}
        /\ \A w \in DOMAIN rows :
             rows[w] = IF w = v THEN was.release[v] ELSE was.rows[w]
    <3>1. was.release[v] \in Checksums
      BY <1>3, ReleaseIs
    <3>2. PICK versions \in SUBSET (1..MaxVersion) : was.rows \in [versions -> Checksums]
      BY <1>4, HistoryIs
    <3>3. rows \in [versions \cup {v} -> Checksums]
      BY <3>1, <3>2 DEF M!Extended
    <3>4. versions \cup {v} \in SUBSET (1..MaxVersion)
      BY <1>3
    <3> HIDE DEF rows
    <3>5. rows \in M!Histories
      BY <3>3, <3>4, HistoryIs
    <3> QED
      BY <3>5 DEF rows, M!Extended
  <2>3. /\ filled \subseteq M!Rows
        /\ filled = IF v \in Backfills /\ ~M!HasTable THEN was.filled \cup Uncovered
                    ELSE was.filled
    BY <1>3, <1>4, <2>1, MissingIs DEF Uncovered
  <2>4. tx' = [tx EXCEPT ![p] = me]
    BY <1>2, <1>7, <2>1
  <2>5. v \notin DOMAIN history /\ v \notin DOMAIN was.rows
    BY <1>2, <1>7 DEF M!Seen
  <2> HIDE DEF rows, filled
  <2>6. /\ me \in M!Migrating /\ me.pc = "apply" /\ me.next = v + 1
        /\ me.rows = rows /\ me.filled = filled /\ me.release = was.release
    BY <1>3, <2>2, <2>3 DEF M!Migrating
  <2> HIDE DEF me
  <2>7. Going(me)
    <3>1. ~M!HasTable =>
            M!Created \in DOMAIN me.rows <=> M!Created \in 1..me.next - 1
      BY <1>3, <2>2, <2>6 DEF Going, v
    <3>2. ~M!HasTable =>
            me.filled = IF M!Created < me.next THEN Uncovered ELSE {}
      <4>1. v \in Backfills => M!Created <= v
        BY CreatedIs
      <4>2. M!Created = v => v \in Backfills
        BY CreatedIs
      <4>3. ~M!HasTable =>
              was.filled = IF M!Created < v THEN Uncovered ELSE {}
        BY <1>3 DEF Going, v
      <4>4. v \in Backfills => M!Created < me.next
        BY <1>3, <2>6, <4>1
      <4>5. v \notin Backfills => (M!Created < me.next <=> M!Created < v)
        BY <1>3, <2>6, <4>2
      <4>6. me.filled = IF v \in Backfills /\ ~M!HasTable THEN was.filled \cup Uncovered
                        ELSE was.filled
        BY <2>3, <2>6
      <4>7. CASE v \in Backfills
        BY <4>3, <4>4, <4>6, <4>7
      <4>8. CASE v \notin Backfills
        BY <4>3, <4>5, <4>6, <4>8
      <4> QED
        BY <4>7, <4>8
    <3>3. \A w \in DOMAIN me.release :
            w < me.next => w \in DOMAIN history \cup DOMAIN me.rows
      <4>1. ASSUME NEW w \in DOMAIN me.release, w < me.next
            PROVE  w = v \/ w < was.next
        BY <1>3, <2>6, <4>1 DEF v
      <4> QED
        BY <1>3, <2>2, <2>6, <4>1 DEF Going
    <3>4. \A w \in DOMAIN me.rows :
            w \in DOMAIN me.release /\ me.rows[w] = me.release[w]
      BY <1>3, <2>2, <2>6 DEF Going
    <3>5. M!Accepts(me.release) /\ (M!HasTable => me.filled = {})
      BY <1>3, <2>3, <2>6 DEF Going
    <3>6. me.next <= Len(me.release) + 1
      BY <1>3, <2>6
    <3> QED
      BY <2>6, <3>1, <3>2, <3>3, <3>4, <3>5, <3>6 DEF Going
  <2> QED
    BY <1>5, <1>7, <2>4, <2>6, <2>7
<1>8. CASE M!Rollback(p)
  BY <1>8, RollbackInv
<1>9. \/ /\ v \in DOMAIN M!Seen(p)
         /\ \/ M!Rollback(p)
            \/ /\ tx' = [tx EXCEPT ![p].next = v + 1]
               /\ UNCHANGED <<history, profile, policy, lock>>
      \/ /\ v \notin DOMAIN M!Seen(p)
         /\ tx' = [tx EXCEPT ![p].next = v + 1,
                             ![p].rows = M!Extended(@, v, was.release[v]),
                             ![p].filled = @ \cup M!Missing(v)]
         /\ UNCHANGED <<history, profile, policy, lock>>
  BY <1>2 DEF M!ApplyNext, v
<1> QED
  BY <1>6, <1>7, <1>8, <1>9

LEMMA ReadyInv ==
  ASSUME MigrationsInv, NEW p \in Processes, M!Ready(p)
  PROVE  MigrationsInv'
<1>1. /\ M!IsMigrating(p) /\ tx[p].pc = "apply" /\ tx[p].next > Len(tx[p].release)
      /\ UNCHANGED <<history, profile, policy, lock>>
  BY DEF M!Ready
<1>2. PICK was \in M!Migrating : was = tx[p] /\ Going(was) /\ lock = p
  BY <1>1, ApplyingIs DEF Continues
<1> DEFINE me == [was EXCEPT !.pc = "commit"]
<1>3. /\ me \in M!Migrating /\ me.pc = "commit" /\ me.next = was.next
      /\ me.rows = was.rows /\ me.filled = was.filled /\ me.release = was.release
  BY DEF M!Migrating
<1>4. tx' = [tx EXCEPT ![p] = me]
  BY <1>2 DEF M!Ready
<1> HIDE DEF me
<1>5. tx'[p] = me /\ M!IsMigrating(p)' /\ ~M!IsBootstrapping(p)'
  BY <1>3, <1>4, KindsOfTx
     DEF MigrationsInv, M!TypeOK, M!IsMigrating, M!IsBootstrapping
<1>6. Going(me)
  BY <1>1, <1>2, <1>3 DEF Going
<1>7. Continues(p)'
  BY <1>1, <1>5, <1>6 DEF Continues, Going, M!Accepts, M!HasTable, Uncovered
<1>8. MigrationInv(p)' /\ BootstrapInv(p)'
  BY <1>3, <1>5, <1>7 DEF MigrationInv, BootstrapInv
<1> QED
  BY <1>1, <1>2, <1>3, <1>4, <1>8, TxStep

\* Nobody else holds the lock, so the others that migrate still wait for it.
LEMMA OthersWait ==
  ASSUME MigrationsInv, NEW p \in Processes, lock = p,
         NEW q \in Processes \ {p}, M!IsMigrating(q)
  PROVE  tx[q].pc = "lock" /\ MigrationInv(q)
BY MigratingIs DEF LockHeld

\* When everything is applied, a migration sees its own release and no more.
LEMMA SeenIsRelease ==
  ASSUME MigrationsInv, NEW p \in Processes, M!IsMigrating(p), tx[p].pc = "commit"
  PROVE  M!Seen(p) = tx[p].release
<1>1. PICK was \in M!Migrating :
        /\ was = tx[p] /\ was.pc = "commit" /\ Going(was) /\ was.release \in Releases
        /\ DOMAIN was.release = 1..Len(was.release) /\ Len(was.release) \in Nat
        /\ was.next \in Nat
  BY ApplyingIs DEF Continues
<1>2. DOMAIN history \cup DOMAIN was.rows = DOMAIN was.release
  <2>1. \A v \in DOMAIN was.release : v < was.next
    BY <1>1 DEF Going
  <2> QED
    BY <1>1, <2>1 DEF Going, M!Accepts
<1>3. \A v \in DOMAIN was.release :
        (IF v \in DOMAIN was.rows THEN was.rows[v] ELSE history[v]) = was.release[v]
  BY <1>1, <1>2 DEF Going, M!Accepts
<1>4. M!Seen(p) = [v \in DOMAIN was.release |-> was.release[v]]
  BY <1>1, <1>2, <1>3 DEF M!Seen
<1> QED
  BY <1>1, <1>4, ReleaseIs

\* A commit turns the beginning of the release that is the history into that
\* release, and gives the profiles that had no policies all of the backfill's.
LEMMA CommitInv ==
  ASSUME MigrationsInv, NEW p \in Processes, M!Commit(p)
  PROVE  MigrationsInv' /\ M!Released
<1>1. /\ M!IsMigrating(p) /\ tx[p].pc = "commit" /\ tx' = [tx EXCEPT ![p] = M!Idle]
      /\ lock' = Null /\ profile' = profile
  BY DEF M!Commit
<1>2. PICK was \in M!Migrating :
        /\ was = tx[p] /\ was.pc = "commit" /\ Going(was) /\ was.release \in Releases
        /\ DOMAIN was.release = 1..Len(was.release)
        /\ Len(was.release) \in 1..MaxVersion /\ MaxVersion \in Nat
        /\ was.next \in Nat
        /\ M!Created \in Nat /\ M!Created > 0 /\ lock = p
  BY <1>1, ApplyingIs DEF Continues
<1>3. history' = was.release
  BY <1>1, <1>2, SeenIsRelease DEF M!Commit
<1>4. M!HasTable' <=> M!Created < was.next
  <2>1. M!Created \in DOMAIN was.release <=> M!Created < was.next
    <3>1. CASE M!Created \in 1..Len(was.release)
      BY <1>2, <3>1 DEF Going
    <3>2. CASE M!Created \notin 1..Len(was.release)
      BY <1>2, <3>2 DEF Going
    <3> QED
      BY <3>1, <3>2, <1>2
  <2> QED
    BY <1>3, <2>1 DEF M!HasTable
<1>5. M!HasTable => M!HasTable'
  BY <1>2, <1>3 DEF M!HasTable, Going, M!Accepts
<1>6. policy' = [s \in Slugs |-> [o \in M!Operations |->
        IF <<s, o>> \in was.filled THEN Required ELSE policy[s][o]]]
  BY <1>2 DEF M!Commit
<1>7. /\ history' \in M!Histories /\ tx'[p] = M!Idle
      /\ \A q \in Processes \ {p} : tx'[q] = tx[q]
      /\ tx' \in [Processes -> M!Migrating \cup M!Bootstrapping \cup {M!Idle}]
  <2>1. was.release \in M!Histories
    <3>1. was.release \in [1..Len(was.release) -> Checksums]
      BY <1>2, ReleaseIs
    <3>2. 1..Len(was.release) \in SUBSET (1..MaxVersion)
      BY <1>2
    <3> QED
      BY <3>1, <3>2, HistoryIs
  <2> QED
    BY <1>1, <1>3, <2>1 DEF MigrationsInv, M!TypeOK
<1>8. /\ policy' \in [Slugs -> [M!Operations -> Policies \cup {Null}]]
      /\ profile' \in [Slugs -> RuntimeRoles \cup {Null}]
  BY <1>1, <1>6, MigrationsConstants DEF MigrationsInv, M!TypeOK, M!MigrationConstants
<1>9. \A q \in Processes : lock' = q <=> M!IsMigrating(q)' /\ tx'[q].pc # "lock"
  <2>1. Null \notin Processes
    BY MigrationsConstants DEF M!MigrationConstants
  <2>2. ~M!IsMigrating(p)'
    BY <1>7, KindsOfTx DEF M!IsMigrating
  <2>3. ASSUME NEW q \in Processes \ {p}, M!IsMigrating(q)' PROVE tx'[q].pc = "lock"
    BY <1>2, <1>7, <2>3, OthersWait DEF M!IsMigrating
  <2> QED
    BY <1>1, <2>1, <2>2, <2>3
<1>10. M!TypeOK'
  BY <1>1, <1>7, <1>8, <1>9 DEF M!TypeOK
<1>11. \A s \in Slugs, o \in M!Operations :
         policy'[s][o] = IF <<s, o>> \in was.filled THEN Required ELSE policy[s][o]
  BY <1>6
<1>12. M!PolicyOfOneBootstrap'
  <2> SUFFICES ASSUME NEW s \in Slugs, profile[s] # Null, M!HasTable'
               PROVE  \E chosen \in Policies : \A o \in M!Operations :
                        policy'[s][o] = chosen
    BY <1>1 DEF M!PolicyOfOneBootstrap
  <2>1. CASE M!HasTable
    <3>1. was.filled = {}
      BY <1>2, <2>1 DEF Going
    <3> QED
      BY <1>11, <2>1, <3>1 DEF MigrationsInv, M!PolicyOfOneBootstrap
  <2>2. CASE ~M!HasTable
    <3>1. was.filled = Uncovered
      BY <1>2, <1>4, <2>2 DEF Going
    <3>2. \A o \in M!Operations : <<s, o>> \in Uncovered
      BY DEF Uncovered, M!Rows
    <3> QED
      BY <1>11, <3>1, <3>2, MigrationsConstants DEF M!MigrationConstants
  <2> QED
    BY <2>1, <2>2
<1>13. ~M!HasTable' => \A s \in Slugs, o \in M!Operations : policy'[s][o] = Null
  <2>1. ~M!HasTable' => ~M!HasTable /\ was.filled = {}
    BY <1>2, <1>4, <1>5 DEF Going
  <2> QED
    BY <1>11, <2>1 DEF MigrationsInv
<1>14. \A q \in Processes : MigrationInv(q)' /\ BootstrapInv(q)'
  <2>1. MigrationInv(p)' /\ BootstrapInv(p)'
    BY <1>7, KindsOfTx DEF MigrationInv, BootstrapInv, M!IsMigrating, M!IsBootstrapping
  <2>2. ASSUME NEW q \in Processes \ {p} PROVE MigrationInv(q)' /\ BootstrapInv(q)'
    <3>1. M!IsMigrating(q) => tx[q].pc = "lock" /\ MigrationInv(q)
      BY <1>2, OthersWait
    <3>2. MigrationInv(q)'
      BY <1>7, <3>1 DEF MigrationInv, M!IsMigrating
    <3>3. BootstrapInv(q)
      BY DEF MigrationsInv
    <3>4. BootstrapInv(q)'
      BY <1>5, <1>7, <3>3 DEF BootstrapInv, M!IsBootstrapping
    <3> QED
      BY <3>2, <3>4
  <2> QED
    BY <2>1, <2>2
<1>15. M!Released
  <2>1. M!Cardinality(DOMAIN history) \in 0..MaxVersion
    <3>1. /\ IsFiniteSet(1..MaxVersion) /\ Cardinality(1..MaxVersion) = MaxVersion
      BY <1>2, FS_Interval
    <3>2. DOMAIN history \subseteq 1..MaxVersion
      BY <1>2 DEF Going, M!Accepts
    <3>3. /\ IsFiniteSet(DOMAIN history)
          /\ Cardinality(DOMAIN history) <= MaxVersion
      BY <3>1, <3>2, FS_Subset
    <3>4. M!Cardinality(DOMAIN history) = Cardinality(DOMAIN history)
      BY DEF M!Cardinality, Cardinality
    <3> QED
      BY <1>2, <3>3, <3>4, FS_CardinalityType
  <2>2. DOMAIN history = 1..M!Cardinality(DOMAIN history)
    BY <1>2 DEF Going, M!Accepts
  <2>3. \E n \in 0..MaxVersion : DOMAIN history = 1..n
    BY <2>1, <2>2
  <2> QED
    BY <1>2, <1>3, <2>3 DEF M!Released, Going, M!Accepts
<1> QED
  BY <1>10, <1>12, <1>13, <1>14, <1>15 DEF MigrationsInv

\* What a bootstrap is and does not hold.
LEMMA BootstrappingIs ==
  ASSUME MigrationsInv, NEW p \in Processes, M!IsBootstrapping(p)
  PROVE  tx[p] \in M!Bootstrapping /\ BootstrapInv(p) /\ lock # p
BY KindsOfTx DEF MigrationsInv, M!TypeOK, M!IsBootstrapping, M!IsMigrating

\* A step of a bootstrap that commits nothing is right if it is for itself.
LEMMA BootstrapStays ==
  ASSUME MigrationsInv, NEW p \in Processes, lock # p, NEW me \in M!Bootstrapping,
         tx' = [tx EXCEPT ![p] = me], UNCHANGED <<history, profile, policy, lock>>,
         me.pc = "done" \/ me.written > 0 => M!HasTable,
         me.pc # "done" => me.written < 3
  PROVE  MigrationsInv'
<1>1. tx'[p] = me /\ M!IsBootstrapping(p)' /\ ~M!IsMigrating(p)'
  BY KindsOfTx DEF MigrationsInv, M!TypeOK, M!IsMigrating, M!IsBootstrapping
<1>2. MigrationInv(p)' /\ BootstrapInv(p)'
  BY <1>1 DEF MigrationInv, BootstrapInv, M!HasTable
<1>3. me \notin M!Migrating
  BY KindsOfTx
<1> QED
  BY <1>2, <1>3, TxStep

LEMMA StartBootstrapInv ==
  ASSUME MigrationsInv, NEW p \in Processes, NEW slug \in Slugs,
         NEW r \in RuntimeRoles, NEW chosen \in Policies,
         M!StartBootstrap(p, slug, r, chosen)
  PROVE  MigrationsInv'
<1> DEFINE me == [pc |-> "select", slug |-> slug, role |-> r, policy |-> chosen,
                  inserted |-> FALSE, written |-> 0]
<1>1. /\ tx[p] = M!Idle /\ tx' = [tx EXCEPT ![p] = me]
      /\ UNCHANGED <<history, profile, policy, lock>>
  BY DEF M!StartBootstrap
<1>2. me \in M!Bootstrapping /\ me.pc = "select" /\ me.written = 0
  BY DEF M!Bootstrapping
<1> HIDE DEF me
<1>3. lock # p
  BY <1>1, KindsOfTx DEF MigrationsInv, M!TypeOK, M!IsMigrating
<1>4. ~(me.pc = "done" \/ me.written > 0) /\ me.written < 3
  BY <1>2
<1> QED
  BY <1>1, <1>2, <1>3, <1>4, BootstrapStays

LEMMA SelectProfileInv ==
  ASSUME MigrationsInv, NEW p \in Processes, M!SelectProfile(p)
  PROVE  MigrationsInv'
<1>1. M!IsBootstrapping(p) /\ tx[p].pc = "select"
  BY DEF M!SelectProfile
<1>2. PICK was \in M!Bootstrapping :
        /\ was = tx[p] /\ lock # p /\ was.pc = "select"
        /\ was.written > 0 => M!HasTable
        /\ was.written < 3
  BY <1>1, BootstrappingIs DEF BootstrapInv
<1>3. ASSUME NEW pc \in {"insert", "upsert"}, tx' = [tx EXCEPT ![p].pc = pc],
             UNCHANGED <<history, profile, policy, lock>>
      PROVE  MigrationsInv'
  <2> DEFINE me == [was EXCEPT !.pc = pc]
  <2>1. me \in M!Bootstrapping /\ me.pc = pc /\ me.written = was.written
    BY DEF M!Bootstrapping
  <2>2. tx' = [tx EXCEPT ![p] = me]
    BY <1>2, <1>3
  <2> HIDE DEF me
  <2> QED
    BY <1>2, <1>3, <2>1, <2>2, BootstrapStays
<1>4. CASE M!Rollback(p)
  BY <1>4, RollbackInv
<1> QED
  BY <1>3, <1>4 DEF M!SelectProfile

LEMMA InsertProfileInv ==
  ASSUME MigrationsInv, NEW p \in Processes, M!InsertProfile(p)
  PROVE  MigrationsInv'
<1>1. M!IsBootstrapping(p) /\ tx[p].pc = "insert"
  BY DEF M!InsertProfile
<1>2. PICK was \in M!Bootstrapping :
        /\ was = tx[p] /\ lock # p /\ was.pc = "insert"
        /\ was.written > 0 => M!HasTable
        /\ was.written < 3
  BY <1>1, BootstrappingIs DEF BootstrapInv
<1>3. CASE /\ tx' = [tx EXCEPT ![p].pc = "upsert", ![p].inserted = TRUE]
           /\ UNCHANGED <<history, profile, policy, lock>>
  <2> DEFINE me == [was EXCEPT !.pc = "upsert", !.inserted = TRUE]
  <2>1. me \in M!Bootstrapping /\ me.pc = "upsert" /\ me.written = was.written
    BY DEF M!Bootstrapping
  <2>2. tx' = [tx EXCEPT ![p] = me]
    BY <1>2, <1>3
  <2> HIDE DEF me
  <2> QED
    BY <1>2, <1>3, <2>1, <2>2, BootstrapStays
<1>4. CASE M!Rollback(p)
  BY <1>4, RollbackInv
<1> QED
  BY <1>3, <1>4 DEF M!InsertProfile

LEMMA UpsertPolicyInv ==
  ASSUME MigrationsInv, NEW p \in Processes, M!UpsertPolicy(p)
  PROVE  MigrationsInv'
<1>1. M!IsBootstrapping(p) /\ tx[p].pc = "upsert"
  BY DEF M!UpsertPolicy
<1>2. PICK was \in M!Bootstrapping :
        was = tx[p] /\ lock # p /\ was.pc = "upsert" /\ was.written < 3
  BY <1>1, BootstrappingIs DEF BootstrapInv
<1>3. CASE /\ M!HasTable
           /\ tx' = [tx EXCEPT ![p].written = @ + 1,
                               ![p].pc = IF was.written = 2 THEN "done" ELSE @]
           /\ UNCHANGED <<history, profile, policy, lock>>
  <2> DEFINE me == [was EXCEPT !.written = @ + 1,
                               !.pc = IF was.written = 2 THEN "done" ELSE @]
  <2>1. was.written \in 0..3
    BY DEF M!Bootstrapping
  <2>2. was.written + 1 \in 0..3 /\ (was.written # 2 => was.written + 1 < 3)
    BY <1>2, <2>1
  <2>3. PICK pc \in {"upsert", "done"} : pc = IF was.written = 2 THEN "done" ELSE was.pc
    BY <1>2
  <2>4. me = [was EXCEPT !.written = was.written + 1, !.pc = pc]
    BY <2>3
  <2>5. me \in M!Bootstrapping /\ me.pc = pc /\ me.written = was.written + 1
    BY <2>2, <2>4 DEF M!Bootstrapping
  <2>6. tx' = [tx EXCEPT ![p] = me]
    BY <1>2, <1>3
  <2> HIDE DEF me
  <2>7. me.pc # "done" => me.written < 3
    BY <2>2, <2>3, <2>5
  <2> QED
    BY <1>2, <1>3, <2>5, <2>6, <2>7, BootstrapStays
<1>4. CASE M!Rollback(p)
  BY <1>4, RollbackInv
<1> QED
  BY <1>2, <1>3, <1>4 DEF M!UpsertPolicy

\* A bootstrap that commits has met a table for its policies, and writes all.
LEMMA CommitBootstrapInv ==
  ASSUME MigrationsInv, NEW p \in Processes, M!CommitBootstrap(p)
  PROVE  MigrationsInv'
<1>1. M!IsBootstrapping(p) /\ tx[p].pc = "done"
  BY DEF M!CommitBootstrap
<1>2. PICK was \in M!Bootstrapping :
        /\ was = tx[p] /\ lock # p /\ M!HasTable /\ was.slug \in Slugs
        /\ was.role \in RuntimeRoles /\ was.policy \in Policies
  BY <1>1, BootstrappingIs DEF BootstrapInv, M!Bootstrapping
<1>3. /\ profile' = [profile EXCEPT ![was.slug] = was.role]
      /\ policy' = [policy EXCEPT ![was.slug] = [o \in M!Operations |-> was.policy]]
      /\ tx' = [tx EXCEPT ![p] = M!Idle] /\ UNCHANGED <<history, lock>>
  BY <1>2 DEF M!CommitBootstrap
<1>4. /\ profile' \in [Slugs -> RuntimeRoles \cup {Null}]
      /\ policy' \in [Slugs -> [M!Operations -> Policies \cup {Null}]]
      /\ policy'[was.slug] = [o \in M!Operations |-> was.policy]
      /\ \A s \in Slugs \ {was.slug} :
           policy'[s] = policy[s] /\ profile'[s] = profile[s]
  BY <1>2, <1>3 DEF MigrationsInv, M!TypeOK
<1>5. /\ tx' \in [Processes -> M!Migrating \cup M!Bootstrapping \cup {M!Idle}]
      /\ tx'[p] = M!Idle /\ \A q \in Processes \ {p} : tx'[q] = tx[q]
  BY <1>3 DEF MigrationsInv, M!TypeOK
<1>6. \A q \in Processes : lock' = q <=> M!IsMigrating(q)' /\ tx'[q].pc # "lock"
  <2>1. ~M!IsMigrating(p)'
    BY <1>5, KindsOfTx DEF M!IsMigrating
  <2> QED
    BY <1>2, <1>3, <1>5, <2>1 DEF MigrationsInv, M!TypeOK, M!IsMigrating
<1>7. M!TypeOK'
  BY <1>3, <1>4, <1>5, <1>6 DEF MigrationsInv, M!TypeOK
<1>8. M!HasTable'
  BY <1>2, <1>3 DEF M!HasTable
<1>9. M!PolicyOfOneBootstrap'
  BY <1>2, <1>4 DEF MigrationsInv, M!PolicyOfOneBootstrap
<1>10. \A q \in Processes : MigrationInv(q)' /\ BootstrapInv(q)'
  <2>1. MigrationInv(p)' /\ BootstrapInv(p)'
    BY <1>5, KindsOfTx DEF MigrationInv, BootstrapInv, M!IsMigrating, M!IsBootstrapping
  <2>2. ASSUME NEW q \in Processes \ {p} PROVE MigrationInv(q)' /\ BootstrapInv(q)'
    <3>1. MigrationInv(q) /\ BootstrapInv(q)
      BY DEF MigrationsInv
    <3>2. MigrationInv(q)'
      BY <1>2, <1>3, <1>5, <1>8, <3>1
         DEF MigrationInv, Continues, Going, M!IsMigrating, M!Accepts
    <3>3. BootstrapInv(q)'
      BY <1>5, <1>8, <3>1 DEF BootstrapInv, M!IsBootstrapping
    <3> QED
      BY <3>2, <3>3
  <2> QED
    BY <2>1, <2>2
<1> QED
  BY <1>7, <1>8, <1>9, <1>10 DEF MigrationsInv

\* Every step keeps the invariant, and those that change the history are
\* commits.
LEMMA MigrationsNextInv ==
  ASSUME MigrationsInv, M!Next
  PROVE  MigrationsInv' /\ M!Released
<1> SUFFICES ASSUME NEW p \in Processes,
               \/ \E release \in Releases : M!StartMigration(p, release)
               \/ \E slug \in Slugs, r \in RuntimeRoles, chosen \in Policies :
                    M!StartBootstrap(p, slug, r, chosen)
               \/ M!MigrationStep(p) \/ M!BootstrapStep(p) \/ M!Fail(p)
             PROVE  MigrationsInv' /\ M!Released
  BY DEF M!Next
<1>1. CASE M!Commit(p)
  BY <1>1, CommitInv
<1>2. CASE ~M!Commit(p)
  <2>1. history' = history
    BY <1>2 DEF M!StartMigration, M!StartBootstrap, M!MigrationStep, M!BootstrapStep,
       M!Fail, M!Rollback, M!Lock, M!Validate, M!ApplyNext, M!Ready, M!SelectProfile,
       M!InsertProfile, M!UpsertPolicy, M!CommitBootstrap
  <2>2. MigrationsInv'
    BY <1>2, StartMigrationInv, StartBootstrapInv, LockInv, ValidateInv, ApplyNextInv,
       ReadyInv, SelectProfileInv, InsertProfileInv, UpsertPolicyInv,
       CommitBootstrapInv, RollbackInv
       DEF M!MigrationStep, M!BootstrapStep, M!Fail
  <2> QED
    BY <2>1, <2>2 DEF M!Released
<1> QED
  BY <1>1, <1>2

LEMMA MigrationsStay ==
  ASSUME MigrationsInv, UNCHANGED tables
  PROVE  MigrationsInv'
<1>1. UNCHANGED <<history, profile, policy, tx, lock>>
  BY DEF tables
<1>2. \A p \in Processes : MigrationInv(p)' /\ BootstrapInv(p)'
  BY <1>1, TxStays
<1> QED
  BY <1>1, <1>2 DEF MigrationsInv, M!TypeOK, M!IsMigrating, M!PolicyOfOneBootstrap,
     M!HasTable

LEMMA MigrationsInitInv ==
  ASSUME M!Init \/ MigrationsAtRest
  PROVE  MigrationsInv
<1>1. /\ tx = [p \in Processes |-> M!Idle] /\ lock = Null
      /\ history \in M!Histories /\ profile \in [Slugs -> RuntimeRoles \cup {Null}]
  <2>1. <<>> \in [{} -> Checksums]
    OBVIOUS
  <2>2. <<>> \in M!Histories
    BY <2>1, HistoryIs
  <2> QED
    BY <2>2 DEF M!Init, MigrationsAtRest
<1>2. policy = [s \in Slugs |-> [o \in M!Operations |->
        IF profile[s] # Null /\ M!HasTable THEN Required ELSE Null]]
  BY DEF M!Init, MigrationsAtRest
<1>3. Required \in Policies /\ Null \notin Processes
  BY MigrationsConstants DEF M!MigrationConstants
<1>4. \A p \in Processes : ~M!IsMigrating(p) /\ ~M!IsBootstrapping(p)
  BY <1>1, KindsOfTx DEF M!IsMigrating, M!IsBootstrapping
<1>5. M!TypeOK
  BY <1>1, <1>2, <1>3, <1>4 DEF M!TypeOK
<1> QED
  BY <1>2, <1>3, <1>4, <1>5
     DEF MigrationsInv, M!PolicyOfOneBootstrap, MigrationInv, BootstrapInv

----------------------------------------------------------------------------
(* Who waits for whom *)

\* Where a bootstrap is in its transaction: it has written policies only after
\* its profile was there, its own one or a committed one.
Staged(me) ==
  me \in M!Bootstrapping =>
    /\ me.pc \in {"select", "insert"} => me.written = 0 /\ ~me.inserted
    /\ me.pc \in {"upsert", "done"} => (me.inserted <=> profile[me.slug] = Null)

\* The transaction has inserted the profile of the slug.
Inserting(me, slug) == me \in M!Bootstrapping /\ me.inserted /\ me.slug = slug

\* Nobody else has the profile a bootstrap inserted.
WaitsInv ==
  /\ \A p \in Processes : Staged(tx[p])
  /\ \A p \in Processes, q \in Processes, s \in Slugs :
       Inserting(tx[p], s) /\ Inserting(tx[q], s) => p = q

\* Transactions that bring nothing new into the profiles rest on what there is.
LEMMA WaitsStep ==
  ASSUME MigrationsInv, WaitsInv, NEW p \in Processes, NEW me,
         tx' = [tx EXCEPT ![p] = me], UNCHANGED profile,
         Staged(me),
         me \in M!Bootstrapping /\ me.inserted =>
           \A q \in Processes \ {p} : ~Inserting(tx[q], me.slug)
  PROVE  WaitsInv'
<1>1. tx'[p] = me /\ \A q \in Processes \ {p} : tx'[q] = tx[q]
  BY DEF MigrationsInv, M!TypeOK
<1>2. \A q \in Processes : Staged(tx[q])'
  BY <1>1 DEF WaitsInv, Staged
<1>3. \A q, r \in Processes, s \in Slugs :
        Inserting(tx'[q], s) /\ Inserting(tx'[r], s) => q = r
  <2> SUFFICES ASSUME NEW q \in Processes, NEW r \in Processes, NEW s \in Slugs,
                      Inserting(tx'[q], s), Inserting(tx'[r], s), q # r
               PROVE  FALSE
    OBVIOUS
  <2>1. CASE q = p
    BY <1>1, <2>1 DEF Inserting
  <2>2. CASE r = p
    BY <1>1, <2>2 DEF Inserting
  <2>3. CASE q # p /\ r # p
    BY <1>1, <2>3 DEF WaitsInv
  <2> QED
    BY <2>1, <2>2, <2>3
<1> QED
  BY <1>2, <1>3 DEF WaitsInv, Inserting

\* A transaction that is not a bootstrap has no profile.
LEMMA WaitsLess ==
  ASSUME MigrationsInv, WaitsInv, NEW p \in Processes, NEW me,
         tx' = [tx EXCEPT ![p] = me], UNCHANGED profile, me \notin M!Bootstrapping
  PROVE  WaitsInv'
BY WaitsStep DEF Staged

LEMMA RollbackWaits ==
  ASSUME MigrationsInv, WaitsInv, NEW p \in Processes, M!Rollback(p)
  PROVE  WaitsInv'
BY WaitsLess, KindsOfTx DEF M!Rollback

\* What migrations do to transactions is nothing to bootstraps.
LEMMA MigrationStepWaits ==
  ASSUME MigrationsInv, WaitsInv, NEW p \in Processes, M!MigrationStep(p)
  PROVE  WaitsInv'
<1>1. CASE M!Rollback(p)
  BY <1>1, RollbackWaits
<1>2. CASE M!Commit(p)
  BY <1>2, WaitsLess, KindsOfTx DEF M!Commit
<1>3. ASSUME NEW me, me.pc = "validate" \/ me.pc = "apply" \/ me.pc = "commit",
             tx' = [tx EXCEPT ![p] = me], UNCHANGED profile
      PROVE  WaitsInv'
  BY <1>3, WaitsLess, KindsOfTx
<1>4. PICK was \in M!Migrating : was = tx[p]
  BY DEF M!MigrationStep, M!Lock, M!Validate, M!ApplyNext, M!Ready, M!Commit,
     M!IsMigrating
<1>5. \A pc \in {"validate", "apply", "commit"} : [was EXCEPT !.pc = pc].pc = pc
  BY DEF M!Migrating
<1>6. CASE M!Lock(p)
  <2>1. tx' = [tx EXCEPT ![p] = [was EXCEPT !.pc = "validate"]] /\ UNCHANGED profile
    BY <1>4, <1>6 DEF M!Lock
  <2> QED
    BY <1>3, <1>5, <2>1, Zenon
<1>7. CASE M!Validate(p) /\ ~M!Rollback(p)
  <2>1. tx' = [tx EXCEPT ![p] = [was EXCEPT !.pc = "apply"]] /\ UNCHANGED profile
    BY <1>4, <1>7 DEF M!Validate
  <2> QED
    BY <1>3, <1>5, <2>1, Zenon
<1>8. CASE M!ApplyNext(p) /\ ~M!Rollback(p)
  <2>1. was.pc = "apply" /\ UNCHANGED profile
    BY <1>4, <1>8 DEF M!ApplyNext
  <2>2. CASE tx' = [tx EXCEPT ![p].next = was.next + 1]
    <3> DEFINE me == [was EXCEPT !.next = was.next + 1]
    <3>1. me.pc = "apply" /\ tx' = [tx EXCEPT ![p] = me]
      BY <1>4, <2>1, <2>2 DEF M!Migrating
    <3> HIDE DEF me
    <3> QED
      BY Zenon, <1>3, <2>1, <3>1
  <2>3. CASE tx' = [tx EXCEPT ![p].next = was.next + 1,
                              ![p].rows = M!Extended(@, was.next, was.release[was.next]),
                              ![p].filled = @ \cup M!Missing(was.next)]
    <3>1. PICK missing : missing = M!Missing(was.next)
      OBVIOUS
    <3>2. PICK rows : rows = M!Extended(was.rows, was.next, was.release[was.next])
      OBVIOUS
    <3> DEFINE me == [was EXCEPT !.next = was.next + 1, !.rows = rows,
                                 !.filled = was.filled \cup missing]
    <3>3. me.pc = "apply" /\ tx' = [tx EXCEPT ![p] = me]
      BY <1>4, <2>1, <2>3, <3>1, <3>2 DEF M!Migrating
    <3> HIDE DEF me
    <3> QED
      BY Zenon, <1>3, <2>1, <3>3
  <2> QED
    BY <1>4, <1>8, <2>2, <2>3 DEF M!ApplyNext
<1>9. CASE M!Ready(p)
  <2>1. tx' = [tx EXCEPT ![p] = [was EXCEPT !.pc = "commit"]] /\ UNCHANGED profile
    BY <1>4, <1>9 DEF M!Ready
  <2> QED
    BY <1>3, <1>5, <2>1, Zenon
<1> QED
  BY <1>1, <1>2, <1>6, <1>7, <1>8, <1>9 DEF M!MigrationStep

LEMMA SelectProfileWaits ==
  ASSUME MigrationsInv, WaitsInv, NEW p \in Processes, M!SelectProfile(p)
  PROVE  WaitsInv'
<1>1. PICK was \in M!Bootstrapping : was = tx[p] /\ was.pc = "select" /\ Staged(was)
  BY DEF M!SelectProfile, M!IsBootstrapping, WaitsInv
<1>2. CASE /\ tx' = [tx EXCEPT ![p].pc =
                       IF profile[was.slug] = Null THEN "insert" ELSE "upsert"]
           /\ UNCHANGED <<history, profile, policy, lock>>
  <2>1. PICK pc \in {"insert", "upsert"} :
          pc = IF profile[was.slug] = Null THEN "insert" ELSE "upsert"
    OBVIOUS
  <2> DEFINE me == [was EXCEPT !.pc = pc]
  <2>2. /\ me \in M!Bootstrapping /\ me.pc = pc /\ me.written = was.written
        /\ me.inserted = was.inserted /\ me.slug = was.slug
    BY DEF M!Bootstrapping
  <2>3. tx' = [tx EXCEPT ![p] = me]
    BY <1>1, <1>2, <2>1
  <2> HIDE DEF me
  <2>4. Staged(me) /\ ~me.inserted
    BY <1>1, <2>1, <2>2 DEF Staged
  <2> QED
    BY <1>2, <2>3, <2>4, WaitsStep
<1> QED
  BY <1>1, <1>2, RollbackWaits DEF M!SelectProfile

\* Who inserts a profile waited until nobody else had it.
LEMMA InsertProfileWaits ==
  ASSUME MigrationsInv, WaitsInv, NEW p \in Processes, M!InsertProfile(p)
  PROVE  WaitsInv'
<1>1. PICK was \in M!Bootstrapping : was = tx[p] /\ was.pc = "insert" /\ Staged(was)
  BY DEF M!InsertProfile, M!IsBootstrapping, WaitsInv
<1>2. CASE /\ profile[was.slug] = Null
           /\ tx' = [tx EXCEPT ![p].pc = "upsert", ![p].inserted = TRUE]
           /\ UNCHANGED <<history, profile, policy, lock>>
  <2> DEFINE me == [was EXCEPT !.pc = "upsert", !.inserted = TRUE]
  <2>1. /\ me \in M!Bootstrapping /\ me.pc = "upsert" /\ me.inserted
        /\ me.slug = was.slug
    BY DEF M!Bootstrapping
  <2>2. tx' = [tx EXCEPT ![p] = me]
    BY <1>1, <1>2
  <2> HIDE DEF me
  <2>3. Staged(me)
    BY <1>2, <2>1 DEF Staged
  <2>4. ASSUME NEW q \in Processes \ {p}, Inserting(tx[q], was.slug) PROVE FALSE
    <3>1. M!SameProfile(p, q)
      BY <1>1, <2>4 DEF M!SameProfile, M!IsBootstrapping, Inserting
    <3>2. q \in M!WaitsFor(p)
      BY <3>1 DEF M!WaitsFor
    <3> QED
      BY <3>2 DEF M!InsertProfile
  <2> QED
    BY <1>2, <2>1, <2>2, <2>3, <2>4, WaitsStep
<1> QED
  BY <1>1, <1>2, RollbackWaits DEF M!InsertProfile

LEMMA UpsertPolicyWaits ==
  ASSUME MigrationsInv, WaitsInv, NEW p \in Processes, M!UpsertPolicy(p)
  PROVE  WaitsInv'
<1>1. PICK was \in M!Bootstrapping :
        was = tx[p] /\ was.pc = "upsert" /\ Staged(was) /\ was.written < 3
  BY BootstrappingIs
     DEF M!UpsertPolicy, M!IsBootstrapping, WaitsInv, BootstrapInv
<1>2. CASE /\ tx' = [tx EXCEPT ![p].written = @ + 1,
                               ![p].pc = IF was.written = 2 THEN "done" ELSE @]
           /\ UNCHANGED <<history, profile, policy, lock>>
  <2>1. PICK pc \in {"upsert", "done"} : pc = IF was.written = 2 THEN "done" ELSE was.pc
    BY <1>1
  <2> DEFINE me == [was EXCEPT !.written = was.written + 1, !.pc = pc]
  <2>2. /\ me \in M!Bootstrapping /\ me.pc = pc /\ me.inserted = was.inserted
        /\ me.slug = was.slug
    <3>1. was.written \in 0..3
      BY DEF M!Bootstrapping
    <3>2. was.written + 1 \in 0..3
      BY <1>1, <3>1
    <3> QED
      BY <3>2 DEF M!Bootstrapping
  <2>3. tx' = [tx EXCEPT ![p] = me]
    BY <1>1, <1>2, <2>1
  <2> HIDE DEF me
  <2>4. Staged(me)
    BY <1>1, <2>2 DEF Staged
  <2>5. ASSUME NEW q \in Processes \ {p}, me.inserted, Inserting(tx[q], me.slug)
        PROVE  FALSE
    <3>1. Inserting(tx[p], me.slug) /\ me.slug \in Slugs
      BY <1>1, <2>2, <2>5 DEF Inserting, M!Bootstrapping
    <3> QED
      BY <2>5, <3>1 DEF WaitsInv
  <2> QED
    BY <1>2, <2>3, <2>4, <2>5, WaitsStep
<1> QED
  BY <1>1, <1>2, RollbackWaits DEF M!UpsertPolicy

\* A profile that is committed was nobody else's.
LEMMA CommitBootstrapWaits ==
  ASSUME MigrationsInv, WaitsInv, NEW p \in Processes, M!CommitBootstrap(p)
  PROVE  WaitsInv'
<1>1. PICK was \in M!Bootstrapping :
        /\ was = tx[p] /\ was.pc = "done" /\ Staged(was)
        /\ was.slug \in Slugs /\ was.role \in RuntimeRoles
        /\ profile' = [profile EXCEPT ![was.slug] = was.role]
        /\ tx' = [tx EXCEPT ![p] = M!Idle]
  BY DEF M!CommitBootstrap, M!IsBootstrapping, WaitsInv, M!Bootstrapping
<1>2. /\ tx'[p] = M!Idle /\ M!Idle \notin M!Bootstrapping
      /\ \A q \in Processes \ {p} : tx'[q] = tx[q]
  BY <1>1, KindsOfTx DEF MigrationsInv, M!TypeOK
<1>3. /\ profile'[was.slug] # Null
      /\ \A s \in Slugs \ {was.slug} : profile'[s] = profile[s]
  BY <1>1, MigrationsConstants DEF MigrationsInv, M!TypeOK, M!MigrationConstants
<1>4. ASSUME NEW q \in Processes \ {p} PROVE Staged(tx[q])'
  <2> SUFFICES ASSUME NEW other \in M!Bootstrapping, other = tx[q]
               PROVE  Staged(other)'
    BY <1>2 DEF Staged
  <2>1. Staged(other) /\ other.slug \in Slugs
    BY DEF WaitsInv, M!Bootstrapping
  <2>2. CASE other.slug # was.slug
    BY <1>3, <2>1, <2>2 DEF Staged
  <2>3. CASE other.slug = was.slug /\ ~other.inserted
    BY <1>3, <2>1, <2>3 DEF Staged
  <2>4. CASE other.slug = was.slug /\ other.inserted
    <3>1. other.pc \in {"upsert", "done"}
      BY <2>1, <2>4, KindsOfTx DEF Staged
    <3>2. was.inserted
      BY <1>1, <2>1, <2>4, <3>1 DEF Staged
    <3> QED
      BY <1>1, <2>1, <2>4, <3>2 DEF WaitsInv, Inserting
  <2> QED
    BY <2>2, <2>3, <2>4 DEF M!Bootstrapping
<1>5. Staged(tx[p])'
  BY <1>2 DEF Staged
<1>6. \A q, r \in Processes, s \in Slugs :
        Inserting(tx'[q], s) /\ Inserting(tx'[r], s) => q = r
  BY <1>2 DEF WaitsInv, Inserting
<1> QED
  BY <1>4, <1>5, <1>6 DEF WaitsInv, Inserting

LEMMA StartBootstrapWaits ==
  ASSUME MigrationsInv, WaitsInv, NEW p \in Processes, NEW slug \in Slugs,
         NEW r \in RuntimeRoles, NEW chosen \in Policies,
         M!StartBootstrap(p, slug, r, chosen)
  PROVE  WaitsInv'
<1> DEFINE me == [pc |-> "select", slug |-> slug, role |-> r, policy |-> chosen,
                  inserted |-> FALSE, written |-> 0]
<1>1. Staged(me) /\ ~me.inserted
  BY DEF Staged
<1>2. tx' = [tx EXCEPT ![p] = me] /\ UNCHANGED profile
  BY DEF M!StartBootstrap
<1> HIDE DEF me
<1> QED
  BY <1>1, <1>2, WaitsStep

LEMMA WaitsNextInv ==
  ASSUME MigrationsInv, WaitsInv, M!Next
  PROVE  WaitsInv'
<1>1. ASSUME NEW p \in Processes, NEW release \in Releases,
             M!StartMigration(p, release)
      PROVE  WaitsInv'
  <2> DEFINE me == [pc |-> "lock", release |-> release, next |-> 1, rows |-> <<>>,
                    filled |-> {}]
  <2>1. me.pc = "lock" /\ tx' = [tx EXCEPT ![p] = me] /\ UNCHANGED profile
    BY <1>1 DEF M!StartMigration
  <2>2. me \notin M!Bootstrapping
    BY <2>1, KindsOfTx
  <2> HIDE DEF me
  <2> QED
    BY <2>1, <2>2, WaitsLess
<1> QED
  BY <1>1, StartBootstrapWaits, MigrationStepWaits, SelectProfileWaits,
     InsertProfileWaits, UpsertPolicyWaits, CommitBootstrapWaits, RollbackWaits
     DEF M!Next, M!BootstrapStep, M!Fail

\* A migration waits only for the lock: a table that it creates has no rows of
\* others yet, and a table that is there needs no backfill.
LEMMA MigrationWaits ==
  ASSUME MigrationsInv, WaitsInv, NEW p \in Processes, NEW q \in M!WaitsFor(p),
         M!IsMigrating(p)
  PROVE  tx[p].pc = "lock" /\ lock = q
<1>1. q \in Processes \ {p} /\ ~M!IsBootstrapping(p)
  BY KindsOfTx DEF M!WaitsFor, M!IsMigrating, M!IsBootstrapping
<1>2. ASSUME M!NextRows(p) \cap M!Uncommitted(q) # {} PROVE FALSE
  <2>1. /\ tx[p].pc = "apply" /\ tx[p].next <= Len(tx[p].release)
        /\ M!NextRows(p) = M!Missing(tx[p].next)
    BY <1>1, <1>2 DEF M!NextRows
  <2>2. tx[p].next \in 1..MaxVersion /\ lock = p
    BY <2>1, ApplyingIs
  <2>3. ~M!HasTable
    BY <1>2, <2>1, <2>2, MissingIs
  <2>4. CASE M!IsMigrating(q)
    <3>1. tx[q].pc = "lock" /\ MigrationInv(q)
      BY <1>1, <2>2, <2>4, OthersWait
    <3>2. ~M!IsBootstrapping(q) /\ tx[q].filled = {}
      BY <2>4, <3>1, KindsOfTx DEF MigrationInv, M!IsMigrating, M!IsBootstrapping
    <3>3. M!Uncommitted(q) = {}
      BY <2>4, <3>2 DEF M!Uncommitted
    <3> QED
      BY <1>2, <3>3
  <2>5. CASE M!IsBootstrapping(q)
    <3>1. tx[q].written \in 0..3 /\ ~(tx[q].written > 0)
      BY <1>1, <2>3, <2>5, BootstrappingIs DEF BootstrapInv, M!Bootstrapping
    <3>2. ~M!IsMigrating(q) /\ 1..tx[q].written = {}
      BY <2>5, <3>1, KindsOfTx DEF M!IsMigrating, M!IsBootstrapping
    <3>3. M!Uncommitted(q) = {}
      BY <2>5, <3>2 DEF M!Uncommitted
    <3> QED
      BY <1>2, <3>3
  <2>6. CASE ~M!IsMigrating(q) /\ ~M!IsBootstrapping(q)
    BY <1>2, <2>6 DEF M!Uncommitted
  <2> QED
    BY <2>4, <2>5, <2>6
<1> QED
  BY <1>1, <1>2 DEF M!WaitsFor, M!SameProfile

\* A bootstrap waits for one that has inserted its profile, or has written more
\* of the same policies.
LEMMA BootstrapWaits ==
  ASSUME MigrationsInv, WaitsInv, NEW p \in Processes, NEW q \in M!WaitsFor(p),
         ~M!IsMigrating(p)
  PROVE  /\ M!IsBootstrapping(p) /\ M!IsBootstrapping(q) /\ q \in Processes \ {p}
         /\ \/ tx[p].pc = "insert" /\ tx[q].inserted
            \/ /\ tx[p].pc = "upsert" /\ tx[q].slug = tx[p].slug
               /\ tx[p].written < tx[q].written
<1>1. q \in Processes \ {p}
  BY DEF M!WaitsFor
<1>2. CASE M!SameProfile(p, q)
  BY <1>1, <1>2 DEF M!SameProfile
<1>3. CASE M!NextRows(p) \cap M!Uncommitted(q) # {}
  <2>1. /\ M!IsBootstrapping(p) /\ tx[p].pc = "upsert" /\ M!HasTable
        /\ M!NextRows(p) = {<<tx[p].slug, M!Written(tx[p].policy, tx[p].written + 1)>>}
    BY <1>3 DEF M!NextRows
  <2>2. tx[p].written \in 0..3 /\ tx[p].written < 3
    BY <2>1, BootstrappingIs DEF BootstrapInv, M!Bootstrapping
  <2>3. ~M!IsMigrating(q)
    <3> SUFFICES ASSUME M!IsMigrating(q) PROVE M!Uncommitted(q) = {}
      BY <1>3
    <3>1. tx[q].filled = {}
      BY <1>1, <2>1, MigratingIs DEF MigrationInv, Continues, Going
    <3>2. ~M!IsBootstrapping(q)
      BY KindsOfTx DEF M!IsMigrating, M!IsBootstrapping
    <3> QED
      BY <3>1, <3>2 DEF M!Uncommitted
  <2>4. M!IsBootstrapping(q)
    BY <1>3, <2>3 DEF M!Uncommitted
  <2>5. tx[q].written \in 0..3
    BY <1>1, <2>4, BootstrappingIs DEF M!Bootstrapping
  <2>6. PICK i \in 1..tx[q].written :
          <<tx[q].slug, M!Written(tx[q].policy, i)>>
            = <<tx[p].slug, M!Written(tx[p].policy, tx[p].written + 1)>>
    BY <1>3, <2>1, <2>3, <2>4 DEF M!Uncommitted
  <2>7. tx[q].slug = tx[p].slug /\ M!Sorted[i] = M!Sorted[tx[p].written + 1]
    BY <2>6 DEF M!Written
  <2>8. i = tx[p].written + 1
    <3>1. i \in 1..3 /\ tx[p].written + 1 \in 1..3
      BY <2>2, <2>5
    <3>2. \A j, k \in 1..3 : M!Sorted[j] = M!Sorted[k] => j = k
      BY DEF M!Sorted
    <3> QED
      BY <2>7, <3>1, <3>2
  <2> QED
    BY <1>1, <2>1, <2>2, <2>4, <2>5, <2>7, <2>8
<1> QED
  BY <1>1, <1>2, <1>3 DEF M!WaitsFor

\* Who has inserted a profile waits for nobody.
LEMMA InsertedGoesOn ==
  ASSUME MigrationsInv, WaitsInv, NEW p \in Processes,
         M!IsBootstrapping(p), tx[p].inserted
  PROVE  M!WaitsFor(p) = {}
<1> SUFFICES ASSUME NEW q \in M!WaitsFor(p) PROVE FALSE
  OBVIOUS
<1>1. ~M!IsMigrating(p) /\ Staged(tx[p]) /\ tx[p] \in M!Bootstrapping
  BY KindsOfTx DEF M!IsMigrating, M!IsBootstrapping, WaitsInv
<1>2. tx[p].pc \in {"upsert", "done"} /\ profile[tx[p].slug] = Null
  BY <1>1, KindsOfTx DEF Staged
<1>3. /\ M!IsBootstrapping(q) /\ q \in Processes \ {p} /\ tx[q].slug = tx[p].slug
      /\ tx[p].written < tx[q].written
  BY <1>1, <1>2, BootstrapWaits
<1>4. Staged(tx[q]) /\ tx[q] \in M!Bootstrapping
  BY <1>3 DEF M!IsBootstrapping, WaitsInv
<1>5. tx[q].pc \in {"upsert", "done"}
  <2>1. tx[p].written \in 0..3 /\ tx[q].written \in 0..3
    BY <1>1, <1>4 DEF M!Bootstrapping
  <2> QED
    BY <1>3, <1>4, <2>1, KindsOfTx DEF Staged
<1>6. tx[q].inserted /\ tx[p].slug \in Slugs
  BY <1>1, <1>2, <1>3, <1>4, <1>5 DEF Staged, M!Bootstrapping
<1> QED
  BY <1>1, <1>3, <1>4, <1>6 DEF WaitsInv, Inserting

\* In a circle nobody could migrate, for the holder of the lock waits for
\* nobody, and nobody could have written the most policies.
LEMMA NobodyWaitsInACircle ==
  ASSUME MigrationsInv, WaitsInv
  PROVE  NoDeadlock
<1> SUFFICES ASSUME NEW circle \in SUBSET Processes, circle # {},
                    \A p \in circle : M!WaitsFor(p) \cap circle # {}
             PROVE  FALSE
  BY DEF NoDeadlock
<1>1. ASSUME NEW p \in circle, M!IsMigrating(p) PROVE FALSE
  <2>1. PICK q \in circle : q \in M!WaitsFor(p)
    OBVIOUS
  <2>2. lock = q
    BY <1>1, <2>1, MigrationWaits
  <2>3. M!IsMigrating(q) /\ tx[q].pc # "lock"
    BY <1>1, <2>2, MigratingIs DEF LockHeld
  <2> QED
    BY <2>3, MigrationWaits
<1>2. ASSUME NEW p \in circle
      PROVE  \E q \in circle :
               /\ tx[p].written \in 0..3 /\ tx[q].written \in 0..3
               /\ tx[p].written < tx[q].written
  <2>1. PICK q \in circle : q \in M!WaitsFor(p)
    OBVIOUS
  <2>2. M!IsBootstrapping(p) /\ M!IsBootstrapping(q)
    BY <1>1, <2>1, BootstrapWaits
  <2>3. ~tx[q].inserted
    BY <2>2, InsertedGoesOn
  <2>4. tx[p].written < tx[q].written
    BY <1>1, <2>1, <2>3, BootstrapWaits
  <2>5. tx[p].written \in 0..3 /\ tx[q].written \in 0..3
    BY <2>2 DEF M!IsBootstrapping, M!Bootstrapping
  <2> QED
    BY <2>4, <2>5
<1>3. PICK p \in circle : TRUE
  OBVIOUS
<1>4. PICK q \in circle : tx[p].written \in 0..3 /\ tx[p].written < tx[q].written
  BY <1>2
<1>5. PICK r \in circle : tx[q].written \in 0..3 /\ tx[q].written < tx[r].written
  BY <1>2
<1>6. PICK s \in circle : tx[r].written \in 0..3 /\ tx[r].written < tx[s].written
  BY <1>2
<1>7. PICK t \in circle : tx[s].written \in 0..3 /\ tx[t].written \in 0..3
                          /\ tx[s].written < tx[t].written
  BY <1>2
<1> QED
  BY <1>4, <1>5, <1>6, <1>7

----------------------------------------------------------------------------
(* The deployment *)

\* Whatever wizards, migrations and bootstraps have done, and whatever failed:
\* what each of them relies on is there, and what they leave is complete.
THEOREM DeploymentConsistent ==
  DeploymentSpec => [](SetupInv /\ MigrationsInv /\ WaitsInv)
<1>1. DeploymentInit => SetupInv /\ MigrationsInv
  BY SetupInitInv, MigrationsInitInv DEF DeploymentInit, SetupAtRest
<1>2. SetupInv /\ MigrationsInv /\ [DeploymentNext]_deployment
        => SetupInv' /\ MigrationsInv'
  BY SetupNextInv, MigrationsNextInv, MigrationsStay DEF DeploymentNext, deployment
<1>3. DeploymentInit => WaitsInv
  <2>1. DeploymentInit => tx = [p \in Processes |-> M!Idle]
    BY DEF DeploymentInit, MigrationsAtRest, M!Init
  <2> QED
    BY <2>1, KindsOfTx DEF WaitsInv, Staged, Inserting
<1>4. MigrationsInv /\ WaitsInv /\ [DeploymentNext]_deployment => WaitsInv'
  <2>1. WaitsInv /\ UNCHANGED tables => WaitsInv'
    BY DEF WaitsInv, Staged, Inserting, tables
  <2> QED
    BY <2>1, WaitsNextInv DEF DeploymentNext, deployment
<1> QED
  BY <1>1, <1>2, <1>3, <1>4, PTL DEF DeploymentSpec

\* Saved settings work and go on working, the provider is switched only
\* together with them, and what others wrote to the files is still there.
THEOREM SettingsKept == DeploymentSpec => []SettingsHold
<1>1. SetupInv /\ MigrationsInv => SettingsHold
  BY DEF SettingsHold, DeploymentTypeOK, SetupInv, MigrationsInv, Kept,
     SavedIsReady, SwitchedWithSettings, EditsKept, Ready
<1> QED
  BY <1>1, DeploymentConsistent, PTL

\* Whatever the history was and whoever migrates it: it only ever becomes a
\* release it is the beginning of, and who is about to commit sees exactly its
\* own release.
THEOREM HistoryStaysInOrder == DeploymentSpec => HistoryInOrder
<1>1. SetupInv /\ MigrationsInv => M!UpToDate
  BY SeenIsRelease DEF M!UpToDate
<1>2. SetupInv /\ MigrationsInv /\ [DeploymentNext]_deployment
        => [M!Released]_deployment
  <2>1. UNCHANGED tables => history' = history
    BY DEF tables
  <2> QED
    BY <2>1, MigrationsNextInv DEF DeploymentNext, M!Released
<1>3. SetupInv /\ MigrationsInv /\ (SetupInv /\ MigrationsInv)'
      /\ [DeploymentNext]_deployment
        => [M!Released /\ M!UpToDate']_deployment
  BY <1>1, <1>2, PTL
<1> QED
  BY <1>3, DeploymentConsistent, PTL DEF DeploymentSpec, HistoryInOrder

\* However bootstraps and migrations overlap and wait, none of them wait in a
\* circle, and once there are policies every profile has all of one bootstrap,
\* or of the backfill: operation_policy() never finds one incomplete, or mixed.
THEOREM PolicyComplete == DeploymentSpec => []PolicyOfOneBootstrap
<1>1. SetupInv /\ MigrationsInv /\ WaitsInv => PolicyOfOneBootstrap
  BY NobodyWaitsInACircle DEF MigrationsInv, PolicyOfOneBootstrap
<1> QED
  BY <1>1, DeploymentConsistent, PTL

=============================================================================
