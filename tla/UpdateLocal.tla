---------------------------- MODULE UpdateLocal ----------------------------
(***************************************************************************)
(* One run of update-local.sh, the updater of a native installation: it    *)
(* stages application and environment, stops the service, backs up the     *)
(* database, swaps directories, migrates, and starts the service again.    *)
(* A command that fails ends the script (errexit), and the trap "finish"   *)
(* restores what was there, if rollback_ready says so.  A signal ends it   *)
(* too, but then the trap finds the status of the last command that had    *)
(* ended, which is 0, and restores nothing.                                *)
(*                                                                         *)
(* The commands of the trap succeed; nobody else starts or stops the       *)
(* service meanwhile, and the machine is not rebooted; where               *)
(* requirements.txt is unchanged, the environment serves both versions.    *)
(*                                                                         *)
(* Source: src/setup/update-local.sh.  systemd, SQLite and alembic are     *)
(* modelled from how the script uses them.                                 *)
(***************************************************************************)
EXTENDS Naturals

CONSTANT MaxWrites  \* bound on what the service writes to its database

ASSUME UpdateAssumption == MaxWrites \in Nat

Version == {"old", "new"}
Place == {"app", "stage_app", "old_app", "venv", "stage_venv", "old_venv"}

VARIABLES
  tree,       \* tree[p]: the version whose directory is at p, or "none"
  unit,       \* the version of the unit file
  db,         \* the database: its schema, and the number of writes in it
  backup,     \* database_backup
  running,    \* the service is running
  step,       \* the next command
  ready,      \* rollback_ready
  wasActive,  \* service_was_active
  changed,    \* requirements_changed
  result,     \* how the script ends: "ok", "failed", "interrupted"
  written,    \* history: the number of writes there have been
  found       \* history: database and service as Stop found them

files == <<tree, unit>>
data == <<db, backup, found>>
service == <<running, written>>
script == <<ready, wasActive, changed, result>>
updateVars == <<files, data, service, step, script>>

(* "half": some revisions of the migration are committed.                  *)
Schema == {"old", "half", "new"}
Database == [schema : Schema, writes : 0 .. MaxWrites]
NoDatabase == [schema |-> "none", writes |-> 0]
NotYet == [db |-> NoDatabase, running |-> FALSE]

Update ==
  {"stage", "stage_venv", "stop", "backup", "app_out", "app_in", "venv_out",
   "venv_in", "migrate", "unit", "start", "check"}
Restore ==
  {"stop_again", "app_back", "venv_back", "db_back", "unit_back", "start_again"}

UpdateTypeOK ==
  /\ tree \in [Place -> Version \cup {"none"}]
  /\ unit \in Version
  /\ db \in Database
  /\ backup \in Database \cup {NoDatabase}
  /\ running \in BOOLEAN
  /\ step \in Update \cup Restore \cup {"clean", "over"}
  /\ ready \in BOOLEAN
  /\ wasActive \in BOOLEAN
  /\ changed \in BOOLEAN
  /\ result \in {"ok", "failed", "interrupted"}
  /\ written \in 0 .. MaxWrites
  /\ found \in [db : Database \cup {NoDatabase}, running : BOOLEAN]

UpdateInit ==
  /\ tree = [p \in Place |-> IF p \in {"app", "venv"} THEN "old" ELSE "none"]
  /\ unit = "old"
  /\ db = [schema |-> "old", writes |-> 0]
  /\ backup = NoDatabase
  /\ running \in BOOLEAN
  /\ step = "stage"
  /\ ready = FALSE
  /\ wasActive = FALSE
  /\ changed \in BOOLEAN
  /\ result = "ok"
  /\ written = 0
  /\ found = NotYet

-----------------------------------------------------------------------------
(* Commands of the script                                                  *)

MovedLost(p, q) == [tree EXCEPT ![p] = "none"]  \* mutant
Moved(p, q) == [tree EXCEPT ![p] = "none", ![q] = tree[p]]

(* A new directory is complete before it gets its name.                    *)
Stage ==
  /\ step = "stage"
  /\ tree' = [tree EXCEPT !["stage_app"] = "new"]
  /\ step' = IF changed THEN "stage_venv" ELSE "stop"
  /\ UNCHANGED <<unit, data, service, script>>

StageVenv ==
  /\ step = "stage_venv"
  /\ tree' = [tree EXCEPT !["stage_venv"] = "new"]
  /\ step' = "stop"
  /\ UNCHANGED <<unit, data, service, script>>

NotedNever == FALSE  \* mutant
Noted == running

Stop ==
  /\ step = "stop"
  /\ wasActive' = Noted
  /\ running' = FALSE
  /\ found' = [db |-> db, running |-> running]
  /\ step' = "backup"
  /\ UNCHANGED <<files, db, backup, written, ready, changed, result>>

Backup ==
  /\ step = "backup"
  /\ backup' = db
  /\ ready' = TRUE
  /\ step' = "app_out"
  /\ UNCHANGED <<files, db, found, service, wasActive, changed, result>>

AppOut ==
  /\ step = "app_out"
  /\ tree' = Moved("app", "old_app")
  /\ step' = "app_in"
  /\ UNCHANGED <<unit, data, service, script>>

AppIn ==
  /\ step = "app_in"
  /\ tree' = Moved("stage_app", "app")
  /\ step' = IF changed THEN "venv_out" ELSE "migrate"
  /\ UNCHANGED <<unit, data, service, script>>

VenvOut ==
  /\ step = "venv_out"
  /\ tree' = Moved("venv", "old_venv")
  /\ step' = "venv_in"
  /\ UNCHANGED <<unit, data, service, script>>

VenvIn ==
  /\ step = "venv_in"
  /\ tree' = Moved("stage_venv", "venv")
  /\ step' = "migrate"
  /\ UNCHANGED <<unit, data, service, script>>

Migrate ==
  /\ step = "migrate"
  /\ db' = [db EXCEPT !.schema = "new"]
  /\ step' = "unit"
  /\ UNCHANGED <<files, backup, found, service, script>>

InstallUnit ==
  /\ step = "unit"
  /\ unit' = tree["app"]
  /\ step' = "start"
  /\ UNCHANGED <<tree, data, service, script>>

Start ==
  /\ step = "start"
  /\ running' = TRUE
  /\ step' = "check"
  /\ UNCHANGED <<files, data, written, script>>

(* check.sh: the service is active, the schema current, the page reachable *)
Check ==
  /\ step = "check"
  /\ ready' = FALSE
  /\ step' = "clean"
  /\ UNCHANGED <<files, data, service, wasActive, changed, result>>

-----------------------------------------------------------------------------
(* The ends of the script                                                  *)

(* The trap keeps the status, and passes it on at its end.                 *)
StatusLost == "ok"  \* mutant
Status == "failed"

(* A command fails, perhaps half way: a stop or a start may have had its   *)
(* effect, and some revisions of a migration may be committed.             *)
Fail ==
  /\ step \in Update
  /\ result' = Status
  /\ step' = IF ready THEN "stop_again" ELSE "clean"
  /\ IF step = "stop" THEN wasActive' = running /\ running' \in {running, FALSE}
     ELSE IF step = "start" THEN running' \in BOOLEAN /\ UNCHANGED wasActive
     ELSE UNCHANGED <<running, wasActive>>
  /\ IF step = "migrate" THEN \E s \in Schema : db' = [db EXCEPT !.schema = s]
     ELSE UNCHANGED db
  /\ UNCHANGED <<files, backup, found, written, ready, changed>>

(* In the trap no other trap is set: a signal ends the restoration.        *)
Interrupt ==
  /\ step \in Update \cup Restore
  /\ result' = "interrupted"
  /\ step' = IF step \in Update THEN "clean" ELSE "over"
  /\ IF step = "migrate" THEN \E s \in Schema : db' = [db EXCEPT !.schema = s]
     ELSE UNCHANGED db
  /\ UNCHANGED <<files, backup, found, service, ready, wasActive, changed>>

StopAgain ==
  /\ step = "stop_again"
  /\ running' = FALSE
  /\ step' = "app_back"
  /\ UNCHANGED <<files, data, written, script>>

(* Each directory that was moved away is moved back.                       *)
BackKept(p, old) == tree  \* mutant
Back(p, old) == IF tree[old] = "none" THEN tree ELSE Moved(old, p)

AppBack ==
  /\ step = "app_back"
  /\ tree' = Back("app", "old_app")
  /\ step' = "venv_back"
  /\ UNCHANGED <<unit, data, service, script>>

VenvBack ==
  /\ step = "venv_back"
  /\ tree' = Back("venv", "old_venv")
  /\ step' = "db_back"
  /\ UNCHANGED <<unit, data, service, script>>

RestoredHalf == db  \* mutant
Restored == backup

DatabaseBack ==
  /\ step = "db_back"
  /\ db' = Restored
  /\ step' = "unit_back"
  /\ UNCHANGED <<files, backup, found, service, script>>

UnitBack ==
  /\ step = "unit_back"
  /\ unit' = tree["app"]
  /\ step' = "start_again"
  /\ UNCHANGED <<tree, data, service, script>>

StartAgain ==
  /\ step = "start_again"
  /\ running' = wasActive
  /\ step' = "clean"
  /\ UNCHANGED <<files, data, written, script>>

Clean ==
  /\ step = "clean"
  /\ tree' = [tree EXCEPT !["stage_app"] = "none", !["stage_venv"] = "none"]
  /\ step' = "over"
  /\ UNCHANGED <<unit, data, service, script>>

-----------------------------------------------------------------------------
(* The service                                                             *)

Write ==
  /\ running
  /\ written < MaxWrites
  /\ written' = written + 1
  /\ db' = [db EXCEPT !.writes = db.writes + 1]
  /\ UNCHANGED <<files, backup, found, running, step, script>>

Script ==
  \/ Stage \/ StageVenv \/ Stop \/ Backup \/ AppOut \/ AppIn \/ VenvOut \/ VenvIn
  \/ Migrate \/ InstallUnit \/ Start \/ Check
  \/ Fail \/ Interrupt
  \/ StopAgain \/ AppBack \/ VenvBack \/ DatabaseBack \/ UnitBack \/ StartAgain
  \/ Clean

UpdateNext == Script \/ Write

UpdateSpec == UpdateInit /\ [][UpdateNext]_updateVars

(* The script is not suspended, and its commands return.                   *)
FairSpec == UpdateSpec /\ WF_updateVars(Script)

-----------------------------------------------------------------------------
(* Properties                                                              *)

(* What runs when everything is of one version.                            *)
Installed(v) ==
  /\ tree["app"] = v
  /\ tree["venv"] = IF changed THEN v ELSE "old"
  /\ unit = v
  /\ db.schema = v

(* The service never runs on a mixture: code, environment, unit and schema *)
(* are of one version, also while the update is undone.                    *)
NeverMixed == running => Installed("old") \/ Installed("new")

(* "Migration ... restart, or health check" that fails: all is restored as *)
(* it was when the service had been stopped, and the service runs again if *)
(* it did.  What it wrote on the new version is given up.                  *)
FailureUndone ==
  result = "failed" /\ ready =>
    /\ step = "start_again" => Installed("old") /\ db = found.db
    /\ step = "over" => Installed("old") /\ (running = found.running)

(* Whatever command fails, and also if a signal ends the script, at every  *)
(* moment the earlier code, environment and data are there to go back to.  *)
NothingDestroyed ==
  /\ "old" \in {tree["app"], tree["old_app"]}
  /\ "old" \in {tree["venv"], tree["old_venv"]}
  /\ \/ db = [schema |-> "old", writes |-> written]
     \/ backup = found.db /\ backup # NoDatabase

(* An update that succeeds keeps every write, made before or after it.     *)
SuccessKeepsData ==
  result = "ok" /\ step = "over" => Installed("new") /\ db.writes = written /\ running

(* A service that was stopped for the update is started again, on the new  *)
(* version or on the old one, once there is a backup to go back to.        *)
ServiceReturns ==
  ready /\ found.running ~> running \/ result = "interrupted"
=============================================================================
