----------------------------- MODULE Deployment -----------------------------
(***************************************************************************)
(* What operators do to a deployment: set profiles up, and later migrate   *)
(* the database and bootstrap profiles by hand.  Setup runs the migrator   *)
(* as one step, Migrations looks inside, and the two share no state, so a  *)
(* behaviour of a deployment is one of either, with the other at rest.     *)
(***************************************************************************)
EXTENDS Setup

CONSTANTS
  Careful,  \* the answers of operators who know their passwords and roles
  \* of Migrations
  Processes, Releases, Checksums, MaxVersion, Backfills, Slugs, RuntimeRoles,
  Policies, Required

VARIABLES
  activity,  \* which part this behaviour is about
  history, profile, policy, tx, lock  \* of Migrations

M == INSTANCE Migrations WITH Roles <- RuntimeRoles

ASSUME MigrationsConstants == M!MigrationConstants
ASSUME CarefulConstants == \A p \in Profiles : Careful[p] \subseteq Answers[p]

tables == <<history, profile, policy, tx, lock>>
deployment == <<vars, tables, activity>>

\* Nothing is migrated while a wizard is, and the other way round.
MigrationsAtRest ==
  /\ history = <<>> /\ lock = Null
  /\ profile = [s \in Slugs |-> Null]
  /\ policy = [s \in Slugs |-> [o \in M!Operations |-> Null]]
  /\ tx = [p \in Processes |-> M!Idle]

SetupAtRest == Init /\ database = NoDatabase /\ \A r \in Roles : role[r] = Null

DeploymentInit ==
  \/ activity = "setup" /\ Init /\ MigrationsAtRest
  \/ activity = "careful setup" /\ SetupAtRest /\ MigrationsAtRest
  \/ activity = "migration" /\ M!Init /\ SetupAtRest

\* Careful operators start their wizards with answers that fit together, while
\* others edit the files; with any answers the files are left alone, a bound.
StartsCarefully ==
  \A p \in Profiles : wizard'[p] # Idle => wizard'[p].answer \in Careful[p]

DeploymentNext ==
  /\ \/ activity = "setup" /\ Next /\ UNCHANGED <<edits, tables>>
     \/ activity = "careful setup" /\ Next /\ StartsCarefully /\ UNCHANGED tables
     \/ activity = "migration" /\ M!Next /\ UNCHANGED vars
  /\ UNCHANGED activity

DeploymentSpec == DeploymentInit /\ [][DeploymentNext]_deployment

\* A wizard goes on, and a careful operator whose settings were not saved
\* starts it again.
Reruns ==
  \A p \in Profiles :
    /\ WF_deployment(/\ activity = "careful setup"
                     /\ Step(p) /\ UNCHANGED <<tables, activity>>)
    /\ WF_deployment(/\ activity = "careful setup" /\ env[p].settings = Null
                     /\ \E answer \in Careful[p] : Start(p, answer)
                     /\ UNCHANGED <<tables, activity>>)

LiveSpec == DeploymentSpec /\ Reruns

----------------------------------------------------------------------------
(* Properties: those of Setup, and *)

\* Every variable of both parts has its shape, schema objects need a database,
\* and only the holder of the advisory lock is past asking for it.
DeploymentTypeOK == TypeOK /\ M!TypeOK

\* Starting again after any failure, wherever it happened, gets every profile
\* its settings in the end.
RerunsSucceed ==
  \A p \in Profiles :
    activity = "careful setup" ~> [](env[p].settings # Null)

\* Whatever wizards start, fail or are killed, in whatever order: settings that
\* were saved work and go on working, the provider is switched only together
\* with them, unless an interrupt tore the two apart at the last moment, and
\* what others wrote to the files is still there.
SettingsHold ==
  DeploymentTypeOK /\ SavedIsReady /\ SwitchedWithSettings /\ EditsKept

\* Whatever the history was and whoever migrates it, with whatever binary: a
\* migrate that is about to succeed has applied exactly its own migrations, it
\* only ever turns the beginning of a release into that release, in one commit,
\* and changes no row.
HistoryInOrder == [][M!Released /\ M!UpToDate']_deployment

\* However migrations and bootstraps wait for each other, for the lock, for a
\* name or for a policy's row, none of them wait in a circle.
NoDeadlock ==
  ~\E circle \in SUBSET Processes :
     /\ circle # {}
     /\ \A p \in circle : M!WaitsFor(p) \cap circle # {}

\* However bootstraps and migrations overlap and wait, they get on, and once
\* there are policies every profile has all of one bootstrap, or of the
\* backfill: operation_policy() never finds a policy incomplete, or mixed.
PolicyOfOneBootstrap == M!PolicyOfOneBootstrap /\ NoDeadlock

=============================================================================
