---------------------- MODULE UpdateAndSecretsProofs ------------------------
(***************************************************************************)
(* Proofs about UpdateLocal, for any number of writes of the service: type *)
(* correctness, and the four safety properties, all from one inductive     *)
(* invariant that says, for each command of the script and of its trap,    *)
(* where the directories are, what the database holds and who runs.        *)
(*                                                                         *)
(* Proofs about StonithSecrets, which shares no name with UpdateLocal:     *)
(* types, that no saved password loses its key, and that, but for rows     *)
(* that mix overlapping forms, none is kept or sent for anything but what  *)
(* it was entered for.                                                     *)
(***************************************************************************)
EXTENDS UpdateLocal, StonithSecrets, TLAPS

-----------------------------------------------------------------------------
(* Types                                                                   *)

LEMMA MovedTyped ==
  ASSUME UpdateTypeOK, NEW p \in Place, NEW q \in Place
  PROVE  /\ Moved(p, q) \in [Place -> Version \cup {"none"}]
         /\ Back(p, q) \in [Place -> Version \cup {"none"}]
  BY DEF UpdateTypeOK, Moved, Back

LEMMA PlacesTyped ==
  {"app", "stage_app", "old_app", "venv", "stage_venv", "old_venv"} \subseteq Place
  BY DEF Place

(***************************************************************************)
(* The two directories that are swapped: in place, moved out, replaced.    *)
(***************************************************************************)
AppKept == tree["app"] = "old" /\ tree["old_app"] = "none"
AppOutside == tree["app"] = "none" /\ tree["old_app"] = "old"
AppReplaced == tree["app"] = "new" /\ tree["old_app"] = "old"
VenvKept == tree["venv"] = "old" /\ tree["old_venv"] = "none"
VenvOutside == tree["venv"] = "none" /\ tree["old_venv"] = "old"
VenvReplaced == tree["venv"] = "new" /\ tree["old_venv"] = "old"
VenvUpdated == IF changed THEN VenvReplaced ELSE VenvKept

Before == {"stage", "stage_venv", "stop", "backup"}
Late == {"migrate", "unit", "start", "check"}

AppPlaced ==
  /\ AppKept \/ AppOutside \/ AppReplaced
  /\ step \in Before \cup {"app_out"} => AppKept
  /\ step = "app_in" => AppOutside
  /\ step \in {"venv_out", "venv_in"} \cup Late => AppReplaced
  /\ step \in {"venv_back", "db_back", "unit_back", "start_again"} => AppKept
  /\ step \in {"stage_venv", "stop", "backup", "app_out", "app_in"} =>
       tree["stage_app"] = "new"

VenvPlaced ==
  /\ VenvKept \/ VenvOutside \/ VenvReplaced
  /\ ~changed => VenvKept
  /\ step \in {"stage_venv", "venv_out", "venv_in"} => changed
  /\ step \in Before \cup {"app_out", "app_in", "venv_out"} => VenvKept
  /\ step = "venv_in" => VenvOutside
  /\ step \in Late => VenvUpdated
  /\ step \in {"db_back", "unit_back", "start_again"} => VenvKept
  /\ changed /\ step \in {"stop", "backup", "app_out", "app_in", "venv_out", "venv_in"} =>
       tree["stage_venv"] = "new"

UnitPlaced ==
  /\ step \in Update \ {"start", "check"} => unit = "old"
  /\ step \in {"start", "check"} => unit = "new"
  /\ step = "start_again" => unit = "old"

(* How far the script is, and what it remembers.                           *)
Remembered ==
  /\ step \in Before => ~ready
  /\ step \in (Update \cup Restore) \ Before => ready
  /\ step \in Update => result = "ok"
  /\ step \in Restore => result = "failed"
  /\ step \in (Update \cup Restore) \ {"stage", "stage_venv", "stop"} =>
       wasActive = found.running

(* What the database and its backup hold.                                  *)
DataKept ==
  /\ written \in Nat /\ db.writes \in Nat /\ db.writes <= written
  /\ step \in Update => db.writes = written
  /\ step \in Before \cup {"app_out", "app_in", "venv_out", "venv_in", "migrate"} =>
       db.schema = "old"
  /\ step \in {"unit", "start", "check"} => db.schema = "new"
  /\ step = "backup" => found.db = db
  /\ ready => backup = found.db /\ found.db \in Database /\ found.db.schema = "old"
              /\ found.db.writes <= written
  /\ step \in {"unit_back", "start_again"} => db = found.db
  /\ NothingDestroyed

(* Who runs, and what the ends of the script leave.                        *)
Standing ==
  /\ step \in Restore \ {"stop_again"} => ~running
  /\ step \in {"backup", "app_out", "app_in", "venv_out", "venv_in"} => ~running
  /\ step \in {"migrate", "unit", "start"} => ~running
  /\ step = "check" => running

Ends ==
  step \in {"clean", "over"} =>
    /\ result = "ok" => ~ready /\ Installed("new") /\ db.writes = written /\ running
    /\ result = "failed" /\ ready => Installed("old") /\ running = found.running

IInv ==
  /\ UpdateTypeOK
  /\ AppPlaced /\ VenvPlaced /\ UnitPlaced
  /\ Remembered /\ DataKept /\ Standing
  /\ NeverMixed /\ Ends

-----------------------------------------------------------------------------
(* Types are kept.                                                         *)

LEMMA TypeInit == UpdateInit => UpdateTypeOK
<1>1. 0 \in 0 .. MaxWrites
  BY UpdateAssumption DEF UpdateAssumption
<1>2. [schema |-> "old", writes |-> 0] \in Database
  BY <1>1 DEF Database, Schema
<1>3. NotYet \in [db : Database \cup {NoDatabase}, running : BOOLEAN]
  BY DEF NotYet
<1>4. [p \in Place |-> IF p \in {"app", "venv"} THEN "old" ELSE "none"]
        \in [Place -> Version \cup {"none"}]
  BY DEF Version
<1> QED
  BY <1>1, <1>2, <1>3, <1>4 DEF UpdateInit, UpdateTypeOK, Version, Update

LEMMA TypeNext == IInv /\ [UpdateNext]_updateVars => UpdateTypeOK'
<1> SUFFICES ASSUME IInv, [UpdateNext]_updateVars PROVE UpdateTypeOK'
  OBVIOUS
<1> USE DEF files, data, service, script, IInv, UpdateTypeOK
<1>1. CASE Backup \/ Check
  BY <1>1 DEF Backup, Check, Update
<1>2. CASE Start
  BY <1>2 DEF Start, Update
<1>3. CASE StopAgain
  BY <1>3 DEF StopAgain, Restore
<1>4. CASE StartAgain
  BY <1>4 DEF StartAgain
<1>5. CASE Stage
  BY <1>5 DEF Stage, Place, Version, Update, Restore
<1>6. CASE StageVenv
  BY <1>6 DEF StageVenv, Place, Version, Update, Restore
<1>7. CASE Stop
  BY <1>7 DEF Stop, Noted, Update, Restore
<1>8. CASE AppOut
  BY <1>8, MovedTyped, PlacesTyped DEF AppOut, Update
<1>9. CASE AppIn
  BY <1>9, MovedTyped, PlacesTyped DEF AppIn, Update
<1>10. CASE VenvOut
  BY <1>10, MovedTyped, PlacesTyped DEF VenvOut, Update
<1>11. CASE VenvIn
  BY <1>11, MovedTyped, PlacesTyped DEF VenvIn, Update
<1>12. CASE Migrate
  BY <1>12 DEF Migrate, Database, Schema, Update
<1>13. CASE InstallUnit
  BY <1>13 DEF InstallUnit, AppPlaced, AppReplaced, Late, Version, Update
<1>14. CASE Fail
  <2>1. db' \in Database
    BY <1>14 DEF Fail, Database
  <2>2. running' \in BOOLEAN /\ wasActive' \in BOOLEAN
    BY <1>14 DEF Fail
  <2> QED
    BY <1>14, <2>1, <2>2 DEF Fail, Status, Restore
<1>15. CASE Interrupt
  <2>1. db' \in Database
    BY <1>15 DEF Interrupt, Database
  <2> QED
    BY <1>15, <2>1 DEF Interrupt
<1>16. CASE AppBack
  BY <1>16, MovedTyped, PlacesTyped DEF AppBack, Restore
<1>17. CASE VenvBack
  BY <1>17, MovedTyped, PlacesTyped DEF VenvBack, Restore
<1>18. CASE DatabaseBack
  BY <1>18 DEF DatabaseBack, Restored, DataKept, Remembered, Restore, Update,
               Before
<1>19. CASE UnitBack
  BY <1>19 DEF UnitBack, AppPlaced, AppKept, Version, Restore
<1>20. CASE Clean
  BY <1>20 DEF Clean, Place, Version, Update, Restore
<1>21. CASE Write
  <2>1. db.writes + 1 \in 0 .. MaxWrites /\ written + 1 \in 0 .. MaxWrites
    BY <1>21, UpdateAssumption DEF Write, DataKept, UpdateAssumption
  <2>2. db' \in Database
    BY <1>21, <2>1 DEF Write, Database
  <2> QED
    BY <1>21, <2>1, <2>2 DEF Write
<1>22. CASE UNCHANGED updateVars
  BY <1>22 DEF updateVars
<1> QED
  BY <1>1, <1>2, <1>3, <1>4, <1>5, <1>6, <1>7, <1>8, <1>9, <1>10, <1>11,
     <1>12, <1>13, <1>14, <1>15, <1>16, <1>17, <1>18, <1>19, <1>20, <1>21,
     <1>22
  DEF UpdateNext, Script

-----------------------------------------------------------------------------
(* Directories, unit and variables of the script                           *)

LEMMA AppNext == IInv /\ [UpdateNext]_updateVars => AppPlaced'
<1> SUFFICES ASSUME IInv, [UpdateNext]_updateVars PROVE AppPlaced'
  OBVIOUS
<1> USE DEF files, data, service, script, IInv, UpdateTypeOK, AppPlaced, AppKept,
            AppOutside, AppReplaced, Before, Late, Update, Restore
<1>1. CASE Stop \/ Backup \/ Migrate \/ InstallUnit \/ Start \/ Check
           \/ Fail \/ Interrupt \/ StopAgain \/ DatabaseBack \/ UnitBack
           \/ StartAgain \/ Write
  BY <1>1 DEF Stop, Backup, Migrate, InstallUnit, Start, Check, Fail,
              Interrupt, StopAgain, DatabaseBack, UnitBack, StartAgain, Write
<1>2. CASE Stage
  BY <1>2 DEF Stage, Place, Update, Restore
<1>3. CASE StageVenv
  <2>1. /\ tree'["app"] = tree["app"] /\ tree'["old_app"] = tree["old_app"]
        /\ tree'["stage_app"] = tree["stage_app"]
    BY <1>3 DEF StageVenv, Place
  <2> QED
    BY <1>3, <2>1 DEF StageVenv
<1>4. CASE AppOut
  BY <1>4 DEF AppOut, Moved, Place
<1>5. CASE AppIn
  BY <1>5 DEF AppIn, Moved, Place
<1>6. CASE VenvOut
  BY <1>6 DEF VenvOut, Moved, Place
<1>7. CASE VenvIn
  BY <1>7 DEF VenvIn, Moved, Place
<1>8. CASE AppBack
  BY <1>8 DEF AppBack, Moved, Back, Place
<1>9. CASE VenvBack
  BY <1>9 DEF VenvBack, Moved, Back, Place
<1>10. CASE Clean
  BY <1>10 DEF Clean, Place, Update, Restore
<1>11. CASE UNCHANGED updateVars
  BY <1>11 DEF updateVars
<1> QED
  BY <1>1, <1>2, <1>3, <1>4, <1>5, <1>6, <1>7, <1>8, <1>9, <1>10, <1>11
  DEF UpdateNext, Script

LEMMA VenvNext == IInv /\ [UpdateNext]_updateVars => VenvPlaced'
<1> SUFFICES ASSUME IInv, [UpdateNext]_updateVars PROVE VenvPlaced'
  OBVIOUS
<1> USE DEF files, data, service, script, IInv, UpdateTypeOK, VenvPlaced, VenvKept,
            VenvOutside, VenvReplaced, VenvUpdated, Before, Late, Update,
            Restore, Remembered
<1>1. CASE Stop
  BY <1>1 DEF Stop
<1>2. CASE Backup
  BY <1>2 DEF Backup
<1>3. CASE Migrate
  BY <1>3 DEF Migrate
<1>4. CASE InstallUnit
  BY <1>4 DEF InstallUnit
<1>5. CASE Start
  BY <1>5 DEF Start
<1>6. CASE Check
  BY <1>6 DEF Check
<1>7. CASE Fail
  BY <1>7 DEF Fail
<1>8. CASE Interrupt
  BY <1>8 DEF Interrupt
<1>9. CASE StopAgain
  BY <1>9 DEF StopAgain
<1>10. CASE DatabaseBack
  BY <1>10 DEF DatabaseBack
<1>11. CASE UnitBack
  BY <1>11 DEF UnitBack
<1>12. CASE StartAgain
  BY <1>12 DEF StartAgain
<1>13. CASE Write
  BY <1>13 DEF Write
<1>14. CASE Stage
  BY <1>14 DEF Stage, Place, Update, Restore
<1>15. CASE StageVenv
  <2>1. /\ tree'["venv"] = tree["venv"] /\ tree'["old_venv"] = tree["old_venv"]
        /\ tree'["stage_venv"] = "new"
    BY <1>15 DEF StageVenv, Place
  <2> QED
    BY <1>15, <2>1 DEF StageVenv
<1>16. CASE AppOut
  BY <1>16 DEF AppOut, Moved, Place
<1>17. CASE AppIn
  BY <1>17 DEF AppIn, Moved, Place
<1>18. CASE VenvOut
  BY <1>18 DEF VenvOut, Moved, Place
<1>19. CASE VenvIn
  BY <1>19 DEF VenvIn, Moved, Place
<1>20. CASE AppBack
  BY <1>20 DEF AppBack, Moved, Back, Place
<1>21. CASE VenvBack
  BY <1>21 DEF VenvBack, Moved, Back, Place
<1>22. CASE Clean
  BY <1>22 DEF Clean, Place, Update, Restore
<1>23. CASE UNCHANGED updateVars
  BY <1>23 DEF updateVars
<1> QED
  BY <1>1, <1>2, <1>3, <1>4, <1>5, <1>6, <1>7, <1>8, <1>9, <1>10, <1>11,
     <1>12, <1>13, <1>14, <1>15, <1>16, <1>17, <1>18, <1>19, <1>20, <1>21,
     <1>22, <1>23
  DEF UpdateNext, Script

LEMMA UnitNext == IInv /\ [UpdateNext]_updateVars => UnitPlaced'
<1> SUFFICES ASSUME IInv, [UpdateNext]_updateVars PROVE UnitPlaced'
  OBVIOUS
<1> USE DEF files, data, service, script, IInv, UpdateTypeOK, AppPlaced, AppKept,
            AppReplaced, UnitPlaced, Before, Late, Update, Restore,
            Remembered
<1>1. CASE Stage \/ StageVenv \/ Stop \/ Backup \/ AppOut \/ AppIn
           \/ VenvOut \/ VenvIn \/ Migrate \/ InstallUnit \/ Start \/ Check
           \/ Fail \/ Interrupt \/ StopAgain \/ AppBack \/ VenvBack
           \/ DatabaseBack \/ UnitBack \/ StartAgain \/ Clean \/ Write
  BY <1>1 DEF Stage, StageVenv, Stop, Backup, AppOut, AppIn, VenvOut, VenvIn,
              Migrate, InstallUnit, Start, Check, Fail, Interrupt, StopAgain,
              AppBack, VenvBack, DatabaseBack, UnitBack, StartAgain, Clean,
              Write
<1>2. CASE UNCHANGED updateVars
  BY <1>2 DEF updateVars
<1> QED
  BY <1>1, <1>2
  DEF UpdateNext, Script

LEMMA RememberedNext == IInv /\ [UpdateNext]_updateVars => Remembered'
<1> SUFFICES ASSUME IInv, [UpdateNext]_updateVars PROVE Remembered'
  OBVIOUS
<1> USE DEF files, data, service, script, IInv, UpdateTypeOK, Before, Update,
            Restore, Remembered, VenvPlaced
<1>1. CASE Stage \/ StageVenv \/ Backup \/ AppOut \/ AppIn \/ VenvOut
           \/ VenvIn \/ Migrate \/ InstallUnit \/ Start \/ Check
           \/ Interrupt \/ StopAgain \/ AppBack \/ VenvBack \/ DatabaseBack
           \/ UnitBack \/ StartAgain \/ Clean \/ Write
  BY <1>1 DEF Stage, StageVenv, Backup, AppOut, AppIn, VenvOut, VenvIn,
              Migrate, InstallUnit, Start, Check, Interrupt, StopAgain,
              AppBack, VenvBack, DatabaseBack, UnitBack, StartAgain, Clean,
              Write
<1>2. CASE Stop
  BY <1>2 DEF Stop, Noted
<1>3. CASE Fail
  BY <1>3 DEF Fail, Status
<1>4. CASE UNCHANGED updateVars
  BY <1>4 DEF updateVars
<1> QED
  BY <1>1, <1>2, <1>3, <1>4
  DEF UpdateNext, Script

-----------------------------------------------------------------------------
(* The database                                                            *)

LEMMA DataNext == IInv /\ [UpdateNext]_updateVars => DataKept'
<1> SUFFICES ASSUME IInv, [UpdateNext]_updateVars PROVE DataKept'
  OBVIOUS
<1> USE DEF files, data, service, script, IInv, UpdateTypeOK, Database, NoDatabase,
            Schema, Before, Update, Restore, Remembered, DataKept,
            NothingDestroyed, AppPlaced, AppKept, AppOutside, AppReplaced,
            VenvPlaced, VenvKept, VenvOutside, VenvReplaced
<1>1. CASE Stage
  BY <1>1 DEF Stage
<1>2. CASE StageVenv
  BY <1>2 DEF StageVenv
<1>3. CASE Stop
  BY <1>3 DEF Stop
<1>4. CASE Backup
  BY <1>4 DEF Backup
<1>5. CASE Migrate
  BY <1>5 DEF Migrate
<1>6. CASE InstallUnit
  BY <1>6 DEF InstallUnit
<1>7. CASE Start
  BY <1>7 DEF Start
<1>8. CASE Check
  BY <1>8 DEF Check
<1>9. CASE Fail
  BY <1>9 DEF Fail
<1>10. CASE Interrupt
  BY <1>10 DEF Interrupt
<1>11. CASE StopAgain
  BY <1>11 DEF StopAgain
<1>12. CASE UnitBack
  BY <1>12 DEF UnitBack
<1>13. CASE StartAgain
  BY <1>13 DEF StartAgain
<1>14. CASE Clean
  BY <1>14 DEF Clean, Place
<1>15. CASE Write
  <2>1. /\ db'.schema = db.schema /\ db'.writes = db.writes + 1
        /\ db = [schema |-> "old", writes |-> written] =>
             db' = [schema |-> "old", writes |-> written']
    BY <1>15 DEF Write
  <2> QED
    BY <1>15, <2>1 DEF Write, Standing
<1>16. CASE AppOut
  BY <1>16 DEF AppOut, Moved, Place
<1>17. CASE AppIn
  BY <1>17 DEF AppIn, Moved, Place
<1>18. CASE VenvOut
  BY <1>18 DEF VenvOut, Moved, Place
<1>19. CASE VenvIn
  BY <1>19 DEF VenvIn, Moved, Place
<1>20. CASE AppBack
  BY <1>20 DEF AppBack, Moved, Back, Place
<1>21. CASE VenvBack
  BY <1>21 DEF VenvBack, Moved, Back, Place
<1>22. CASE DatabaseBack
  BY <1>22 DEF DatabaseBack, Restored
<1>23. CASE UNCHANGED updateVars
  BY <1>23 DEF updateVars
<1> QED
  BY <1>1, <1>2, <1>3, <1>4, <1>5, <1>6, <1>7, <1>8, <1>9, <1>10, <1>11,
     <1>12, <1>13, <1>14, <1>15, <1>16, <1>17, <1>18, <1>19, <1>20, <1>21,
     <1>22, <1>23
  DEF UpdateNext, Script

-----------------------------------------------------------------------------
(* The service                                                             *)

LEMMA StandingNext == IInv /\ [UpdateNext]_updateVars => Standing'
<1> SUFFICES ASSUME IInv, [UpdateNext]_updateVars PROVE Standing'
  OBVIOUS
<1> USE DEF files, data, service, script, IInv, UpdateTypeOK, Remembered, Before,
            Update, Restore, Standing
<1>1. CASE Stage \/ StageVenv \/ Backup \/ AppOut \/ AppIn \/ VenvOut
           \/ VenvIn \/ Migrate \/ InstallUnit \/ Start \/ Check
           \/ Interrupt \/ StopAgain \/ AppBack \/ VenvBack \/ DatabaseBack
           \/ UnitBack \/ StartAgain \/ Clean \/ Write
  BY <1>1 DEF Stage, StageVenv, Backup, AppOut, AppIn, VenvOut, VenvIn,
              Migrate, InstallUnit, Start, Check, Interrupt, StopAgain,
              AppBack, VenvBack, DatabaseBack, UnitBack, StartAgain, Clean,
              Write
<1>2. CASE Stop
  BY <1>2 DEF Stop, Noted
<1>3. CASE Fail
  BY <1>3 DEF Fail, Status
<1>4. CASE UNCHANGED updateVars
  BY <1>4 DEF updateVars
<1> QED
  BY <1>1, <1>2, <1>3, <1>4
  DEF UpdateNext, Script

(* Nothing that Installed is about changes.                                *)
LEMMA InstalledSame ==
  UpdateTypeOK /\ tree'["app"] = tree["app"] /\ tree'["venv"] = tree["venv"]
    /\ UNCHANGED <<unit, changed>> /\ db'.schema = db.schema =>
    \A v \in Version : Installed(v)' <=> Installed(v)
  BY DEF Installed

LEMMA NewInstalled ==
  IInv /\ step \in {"start", "check"} => Installed("new")
  BY DEF IInv, AppPlaced, AppReplaced, VenvPlaced, VenvUpdated, VenvReplaced,
         VenvKept,
         UnitPlaced, DataKept, Late, Installed

LEMMA OldInstalled ==
  IInv /\ step \in {"stage", "stage_venv", "stop", "start_again"} => Installed("old")
  BY DEF IInv, AppPlaced, AppKept, VenvPlaced, VenvKept, UnitPlaced, DataKept,
         Remembered,
         Before, Update, Restore, Installed

LEMMA MixedNext == IInv /\ [UpdateNext]_updateVars => NeverMixed'
<1> SUFFICES ASSUME IInv, [UpdateNext]_updateVars PROVE NeverMixed'
  OBVIOUS
<1> USE DEF files, data, service, script, IInv, NeverMixed
<1>1. CASE Stop \/ Backup \/ AppOut \/ AppIn \/ VenvOut \/ VenvIn \/ Migrate
           \/ InstallUnit \/ StopAgain \/ AppBack \/ VenvBack
           \/ DatabaseBack \/ UnitBack
  BY <1>1 DEF Stop, Backup, AppOut, AppIn, VenvOut, VenvIn, Migrate,
              InstallUnit, StopAgain, AppBack, VenvBack, DatabaseBack,
              UnitBack,
         Standing, Restore
<1>2. CASE Stage
  <2>1. tree'["app"] = tree["app"] /\ tree'["venv"] = tree["venv"]
    BY <1>2 DEF Stage, UpdateTypeOK, Place
  <2> QED
    BY <1>2, <2>1, InstalledSame DEF Stage, Version
<1>3. CASE StageVenv
  <2>1. tree'["app"] = tree["app"] /\ tree'["venv"] = tree["venv"]
    BY <1>3 DEF StageVenv, UpdateTypeOK, Place
  <2> QED
    BY <1>3, <2>1, InstalledSame DEF StageVenv, Version
<1>4. CASE Start
  BY <1>4, NewInstalled, InstalledSame DEF Start, Version
<1>5. CASE Check
  BY <1>5, InstalledSame DEF Check, Version
<1>6. CASE Fail
  <2>1. CASE step = "migrate"
    BY <1>6, <2>1 DEF Fail, Standing
  <2>2. CASE step = "start"
    BY <1>6, <2>2, NewInstalled, InstalledSame DEF Fail, Version
  <2>3. CASE step \notin {"migrate", "start"}
    BY <1>6, <2>3, InstalledSame DEF Fail, Version
  <2> QED
    BY <2>1, <2>2, <2>3
<1>7. CASE Interrupt
  <2>1. CASE step = "migrate"
    BY <1>7, <2>1 DEF Interrupt, Standing
  <2>2. CASE step # "migrate"
    BY <1>7, <2>2, InstalledSame DEF Interrupt, Version
  <2> QED
    BY <2>1, <2>2
<1>8. CASE StartAgain
  BY <1>8, OldInstalled, InstalledSame DEF StartAgain, Version
<1>9. CASE Clean
  <2>1. tree'["app"] = tree["app"] /\ tree'["venv"] = tree["venv"]
    BY <1>9 DEF Clean, UpdateTypeOK, Place
  <2> QED
    BY <1>9, <2>1, InstalledSame DEF Clean, Version
<1>10. CASE Write
  <2>1. db'.schema = db.schema
    BY <1>10 DEF Write, UpdateTypeOK, Database
  <2> QED
    BY <1>10, <2>1, InstalledSame DEF Write, Version
<1>11. CASE UNCHANGED updateVars
  BY InstalledSame, <1>11 DEF updateVars, Version
<1> QED
  BY <1>1, <1>2, <1>3, <1>4, <1>5, <1>6, <1>7, <1>8, <1>9, <1>10, <1>11
  DEF UpdateNext, Script

LEMMA EndsNext == IInv /\ [UpdateNext]_updateVars => Ends'
<1> SUFFICES ASSUME IInv, [UpdateNext]_updateVars PROVE Ends'
  OBVIOUS
<1> USE DEF files, data, service, script, IInv, Ends
<1>1. CASE Stage \/ StageVenv \/ Stop \/ Backup \/ AppOut \/ AppIn
           \/ VenvOut \/ VenvIn \/ Migrate \/ InstallUnit \/ Start
           \/ StopAgain \/ AppBack \/ VenvBack \/ DatabaseBack \/ UnitBack
  BY <1>1 DEF Stage, StageVenv, Stop, Backup, AppOut, AppIn, VenvOut, VenvIn,
              Migrate, InstallUnit, Start, StopAgain, AppBack, VenvBack,
              DatabaseBack, UnitBack,
         Update
<1>2. CASE Check
  <2>1. Installed("new") /\ result = "ok" /\ db.writes = written /\ running
    BY <1>2, NewInstalled DEF Check, Remembered, DataKept, Standing, Update
  <2> QED
    BY <1>2, <2>1, InstalledSame DEF Check, Version
<1>3. CASE Fail
  <2>1. step' \in {"stop_again", "clean"} /\ ready' = ready /\ result' = "failed"
    BY <1>3 DEF Fail, Status
  <2> QED
    BY <1>3, <2>1 DEF Fail
<1>4. CASE Interrupt
  BY <1>4 DEF Interrupt
<1>5. CASE StartAgain
  <2>1. Installed("old") /\ result = "failed" /\ wasActive = found.running
    BY <1>5, OldInstalled DEF StartAgain, Remembered, Restore, Update
  <2> QED
    BY <1>5, <2>1, InstalledSame DEF StartAgain, Version
<1>6. CASE Clean
  <2>1. tree'["app"] = tree["app"] /\ tree'["venv"] = tree["venv"]
    BY <1>6 DEF Clean, UpdateTypeOK, Place
  <2> QED
    BY <1>6, <2>1, InstalledSame DEF Clean, Version
<1>7. CASE Write
  <2>1. db'.schema = db.schema /\ db'.writes = db.writes + 1
    BY <1>7 DEF Write, UpdateTypeOK, Database
  <2> QED
    BY <1>7, <2>1, InstalledSame DEF Write, Version
<1>8. CASE UNCHANGED updateVars
  BY InstalledSame, <1>8 DEF updateVars, Version
<1> QED
  BY <1>1, <1>2, <1>3, <1>4, <1>5, <1>6, <1>7, <1>8
  DEF UpdateNext, Script

-----------------------------------------------------------------------------
(* Theorems                                                                *)

LEMMA InvInit == UpdateInit => IInv
<1> SUFFICES ASSUME UpdateInit PROVE IInv
  OBVIOUS
<1>1. UpdateTypeOK
  BY TypeInit
<1>2. AppKept /\ VenvKept
  BY DEF UpdateInit, Place, AppKept, VenvKept
<1>3. Installed("old")
  BY <1>2 DEF UpdateInit, Installed, AppKept, VenvKept
<1>4. AppPlaced /\ VenvPlaced
  BY <1>2 DEF UpdateInit, AppPlaced, VenvPlaced, Before, Late
<1>5. DataKept
  BY <1>2 DEF UpdateInit, DataKept, NothingDestroyed, AppKept, VenvKept, Before
<1> QED
  BY <1>1, <1>2, <1>3, <1>4, <1>5
  DEF UpdateInit, IInv, UnitPlaced, Remembered, Standing, NeverMixed, Ends, Update,
      Restore,
      Before

LEMMA Invariant == UpdateSpec => []IInv
<1>1. IInv /\ [UpdateNext]_updateVars => IInv'
  BY TypeNext, AppNext, VenvNext, UnitNext, RememberedNext, DataNext,
     StandingNext,
     MixedNext, EndsNext
  DEF IInv
<1> QED
  BY InvInit, <1>1, PTL DEF UpdateSpec

(* Directories, unit file, database and script keep their declared shapes, *)
(* however often the service writes.                                       *)
THEOREM TypeCorrect == UpdateSpec => []UpdateTypeOK
<1>1. IInv => UpdateTypeOK
  BY DEF IInv
<1> QED
  BY Invariant, <1>1, PTL

(* For any number of writes, the service never runs on code, environment,  *)
(* unit and schema of different versions.                                  *)
THEOREM MixedSafe == UpdateSpec => []NeverMixed
<1>1. IInv => NeverMixed
  BY DEF IInv
<1> QED
  BY Invariant, <1>1, PTL

(* For any number of writes, a failure after the backup leaves the earlier *)
(* version, the data and the service as they were found.                   *)
THEOREM UndoneSafe == UpdateSpec => []FailureUndone
<1>1. IInv => FailureUndone
  BY OldInstalled DEF IInv, DataKept, Ends, FailureUndone
<1> QED
  BY Invariant, <1>1, PTL

(* For any number of writes and at every moment, the earlier code,         *)
(* environment and data still exist.                                       *)
THEOREM DestroyedSafe == UpdateSpec => []NothingDestroyed
<1>1. IInv => NothingDestroyed
  BY DEF IInv, DataKept
<1> QED
  BY Invariant, <1>1, PTL

(* For any number of writes, a successful update has lost none of them.    *)
THEOREM SuccessSafe == UpdateSpec => []SuccessKeepsData
<1>1. IInv => SuccessKeepsData
  BY DEF IInv, Ends, SuccessKeepsData
<1> QED
  BY Invariant, <1>1, PTL

-----------------------------------------------------------------------------
(* The passwords of the STONITH profiles                                   *)

(* A token, where there is one, is of the key in the file.                 *)
Fits(t) == t # NoToken => t.key = key

(* What the type correctness of the next step and the reading of a key     *)
(* rest on: whoever reads has opened, so that the file exists, and whoever *)
(* writes holds the lock of a file that is still empty.                    *)
FormFits(f, w) ==
  /\ f.at # "idle" => f.project \in Project /\ f.entered \in Identity
  /\ f.at = "read" => key # Missing
  /\ f.at = "write" => lock = w /\ key = Empty
  /\ Fits(f.token)
  /\ Fits(f.loaded.token)

KeyInv ==
  /\ TypeOK
  /\ \A p \in Project : Fits(row[p].token)
  /\ \A w \in Worker : FormFits(form[w], w)

(* A missing or an empty file is no key, and one more can be generated     *)
(* below the bound.                                                        *)
LEMMA KeyFacts ==
  /\ Missing \notin Key
  /\ Empty \notin Key
  /\ Missing # Empty
  /\ \A n \in 0 .. MaxKeys : n < MaxKeys => n + 1 \in Key /\ n + 1 \in 0 .. MaxKeys
  BY SecretsAssumption DEF SecretsAssumption, Missing, Empty, Key

(* The rows that are no rows, and the form of a worker that serves none.   *)
LEMMA Blank ==
  /\ NoIdentity \notin Identity
  /\ NoToken \notin Token
  /\ Absent \notin Row
  /\ NoForm \in Form
  /\ NoForm.at = "idle"
  /\ NoForm.project = Nobody
  /\ NoForm.token = NoToken
  /\ NoForm.loaded.token = NoToken
  /\ \A r \in Row \cup {Absent} : r.token \in Token \cup {NoToken}
  /\ \A t \in Token : t.key \in Key /\ t.for \in Identity
<1>1. NoIdentity \notin Identity
  BY SecretsAssumption DEF SecretsAssumption, NoIdentity, Identity
<1>2. NoToken \notin Token
  BY KeyFacts DEF NoToken, Token
<1>3. Absent \notin Row
  BY SecretsAssumption DEF SecretsAssumption, Absent, Row
<1>4. NoForm \in Form
  BY DEF NoForm, Form, Steps
<1> QED BY <1>1, <1>2, <1>3, <1>4 DEF NoForm, Absent, Row, Token

(* Forms whose rows have changed are the same but for being stale.         *)
LEMMA OutdatedFields ==
  ASSUME TypeOK, NEW p, NEW v \in Worker, NEW g, g = Outdated(p)[v]
  PROVE  /\ g \in Form
         /\ g.at = form[v].at /\ g.project = form[v].project
         /\ g.loaded = form[v].loaded /\ g.entered = form[v].entered
         /\ g.verify = form[v].verify /\ g.token = form[v].token
         /\ g.secret = form[v].secret /\ g.mixed = form[v].mixed
         /\ g.stale <=> form[v].stale \/ form[v].project = p
<1>1. PICK f : f = form[v]
  OBVIOUS
<1>2. f \in Form
  BY <1>1 DEF TypeOK
<1>3. g = [f EXCEPT !.stale = @ \/ f.project = p]
  BY <1>1 DEF Outdated
<1>4. g \in Form
  BY <1>2, <1>3 DEF Form
<1> QED BY <1>1, <1>2, <1>3, <1>4 DEF Form

(* Without a key in the file there are no tokens at all.                   *)
LEMMA NoKeyNoToken ==
  ASSUME KeyInv, key \notin Key
  PROVE  /\ \A p \in Project : row[p].token = NoToken
         /\ \A w \in Worker : form[w].token = NoToken /\ form[w].loaded.token = NoToken
<1>1. ASSUME NEW t \in Token \cup {NoToken}, Fits(t) PROVE t = NoToken
  BY <1>1, Blank DEF Fits
<1>2. \A p \in Project : row[p].token \in Token \cup {NoToken}
  BY Blank DEF KeyInv, TypeOK
<1>3. ASSUME NEW w \in Worker
      PROVE  /\ form[w].token \in Token \cup {NoToken}
             /\ form[w].loaded.token \in Token \cup {NoToken}
  BY Blank DEF KeyInv, TypeOK, Form
<1> QED BY <1>1, <1>2, <1>3 DEF KeyInv, FormFits

(* A step that leaves rows, key and lock alone, and gives worker w a form  *)
(* that fits, keeps the invariant.                                         *)
LEMMA FormStep ==
  ASSUME KeyInv, NEW w \in Worker, NEW f \in Form, form' = [form EXCEPT ![w] = f],
         FormFits(f, w), UNCHANGED <<row, key, made, lock, mixed>>
  PROVE  KeyInv'
<1>1. TypeOK'
  BY DEF KeyInv, TypeOK
<1>2. ASSUME NEW v \in Worker PROVE FormFits(form[v], v)'
  <2>1. form'[v] = IF v = w THEN f ELSE form[v]
    BY DEF KeyInv, TypeOK
  <2>2. FormFits(form[v], v)
    BY DEF KeyInv
  <2> QED BY <2>1, <2>2 DEF FormFits, Fits
<1>3. \A p \in Project : Fits(row[p].token)'
  BY DEF KeyInv, Fits
<1> QED BY <1>1, <1>2, <1>3 DEF KeyInv

(* Every step of a worker keeps the tokens those of the key in the file.   *)
LEMMA WorkerKeepsKey ==
  ASSUME KeyInv, NEW w \in Worker,
         \/ Submit(w) \/ OpenKey(w) \/ ReadKey(w) \/ WriteKey(w) \/ Decrypt(w)
         \/ Commit(w) \/ Send(w) \/ Abandon(w)
  PROVE  KeyInv'
<1>0. /\ TypeOK
      /\ form[w] \in Form
      /\ FormFits(form[w], w)
      /\ key \in {Missing, Empty} \cup Key
      /\ \A p \in Project : row[p] \in Row \cup {Absent} /\ Fits(row[p].token)
  BY DEF KeyInv, TypeOK
<1>1. NoForm \in Form /\ FormFits(NoForm, w)
  BY Blank DEF FormFits, Fits
<1>2. ASSUME Ended(w), UNCHANGED <<row, key, made, lock, mixed>> PROVE KeyInv'
  BY <1>1, <1>2, FormStep DEF Ended
<1>3. CASE Submit(w)
  <2>1. PICK p \in Project, entered \in Identity, typed \in BOOLEAN, verify \in BOOLEAN :
          LET saved == SameIdentity(row[p], entered) /\ row[p].token # NoToken IN
          /\ verify => typed \/ saved
          /\ form' = [form EXCEPT ![w] =
            [at |-> IF typed THEN "open" ELSE IF verify THEN "decrypt" ELSE "commit",
             project |-> p, loaded |-> row[p], entered |-> entered, verify |-> verify,
             token |-> TokenLeft(row[p], entered),
             secret |-> IF typed THEN entered ELSE NoIdentity, stale |-> FALSE,
             mixed |-> ~typed /\ saved /\ p \in mixed]]
    BY <1>3 DEF Submit
  <2>2. PICK f : f =
            [at |-> IF typed THEN "open" ELSE IF verify THEN "decrypt" ELSE "commit",
             project |-> p, loaded |-> row[p], entered |-> entered, verify |-> verify,
             token |-> TokenLeft(row[p], entered),
             secret |-> IF typed THEN entered ELSE NoIdentity, stale |-> FALSE,
             mixed |-> /\ ~typed
                       /\ SameIdentity(row[p], entered) /\ row[p].token # NoToken
                       /\ p \in mixed]
    OBVIOUS
  <2>3. TokenLeft(row[p], entered) \in {row[p].token, NoToken}
    BY DEF TokenLeft
  <2>4. f \in Form
    <3>1. row[p].token \in Token \cup {NoToken}
      BY <1>0, Blank
    <3> QED BY <1>0, <2>2, <2>3, <3>1 DEF Form, Steps
  <2>5. FormFits(f, w)
    BY <1>0, <2>2, <2>3 DEF FormFits, Fits
  <2>6. form' = [form EXCEPT ![w] = f]
    BY <2>1, <2>2
  <2> QED BY <1>3, <2>4, <2>5, <2>6, FormStep DEF Submit
<1>4. CASE OpenKey(w)
  <2>1. PICK f : f = [form[w] EXCEPT !.at = "read"]
    OBVIOUS
  <2>2. /\ f \in Form
        /\ f.at = "read"
        /\ f.project = form[w].project /\ f.entered = form[w].entered
        /\ f.token = form[w].token /\ f.loaded = form[w].loaded
    BY <1>0, <2>1 DEF Form, Steps
  <2>3. form' = [form EXCEPT ![w] = f]
    BY <1>4, <2>1 DEF OpenKey
  <2>4. f.project \in Project /\ f.entered \in Identity
    BY <1>0, <1>4, <2>2 DEF OpenKey, Now, FormFits
  <2>5. CASE key # Missing
    <3>1. UNCHANGED <<row, key, made, lock, mixed>>
      BY <1>4, <2>5 DEF OpenKey
    <3>2. FormFits(f, w)
      BY <1>0, <2>2, <2>4, <2>5 DEF FormFits, Fits
    <3> QED BY <2>2, <2>3, <3>1, <3>2, FormStep
  <2>6. CASE key = Missing
    <3>1. /\ \A p \in Project : row[p].token = NoToken
          /\ \A v \in Worker : form[v].token = NoToken /\ form[v].loaded.token = NoToken
      BY <2>6, KeyFacts, NoKeyNoToken
    <3>2. key' = Empty /\ UNCHANGED <<row, made, lock, mixed>>
      BY <1>4, <2>6 DEF OpenKey
    <3>3. TypeOK'
      BY <1>0, <2>2, <2>3, <3>2 DEF TypeOK
    <3>4. ASSUME NEW v \in Worker PROVE FormFits(form[v], v)'
      <4>1. form'[v] = IF v = w THEN f ELSE form[v]
        BY <1>0, <2>3 DEF TypeOK
      <4>2. FormFits(form[v], v)
        BY DEF KeyInv
      <4> QED BY <2>2, <2>4, <2>6, <3>1, <3>2, <4>1, <4>2, KeyFacts DEF FormFits, Fits
    <3>5. \A p \in Project : Fits(row[p].token)'
      BY <3>1, <3>2 DEF Fits
    <3> QED BY <3>3, <3>4, <3>5 DEF KeyInv
  <2> QED BY <2>5, <2>6
<1>5. CASE ReadKey(w)
  <2>1. CASE MustWrite
    <3>1. PICK f : f = [form[w] EXCEPT !.at = "write"]
      OBVIOUS
    <3>2. /\ f \in Form
          /\ f.at = "write"
          /\ f.project = form[w].project /\ f.entered = form[w].entered
          /\ f.token = form[w].token /\ f.loaded = form[w].loaded
      BY <1>0, <3>1 DEF Form, Steps
    <3>3. /\ form' = [form EXCEPT ![w] = f]
          /\ lock = Nobody /\ lock' = w
          /\ UNCHANGED <<row, key, made, mixed>>
      BY <1>5, <2>1, <3>1 DEF ReadKey, LockFree
    <3>4. TypeOK'
      BY <1>0, <3>2, <3>3 DEF TypeOK
    <3>5. ASSUME NEW v \in Worker PROVE FormFits(form[v], v)'
      <4>1. form'[v] = IF v = w THEN f ELSE form[v]
        BY <1>0, <3>3 DEF TypeOK
      <4>2. FormFits(form[v], v)
        BY DEF KeyInv
      <4>3. v # Nobody
        BY SecretsAssumption DEF SecretsAssumption
      <4> QED
        BY <1>0, <1>5, <2>1, <3>2, <3>3, <4>1, <4>2, <4>3
           DEF ReadKey, Now, MustWrite, FormFits, Fits
    <3>6. \A p \in Project : Fits(row[p].token)'
      BY <1>0, <3>3 DEF Fits
    <3> QED BY <3>4, <3>5, <3>6 DEF KeyInv
  <2>2. CASE ~MustWrite
    <3>1. PICK f : f = [form[w] EXCEPT !.at = "commit",
                                       !.token = Encrypted(key, form[w].entered)]
      OBVIOUS
    <3>2. Encrypted(key, form[w].entered) \in Token
      BY <1>0, <1>5, <2>2 DEF ReadKey, Now, FormFits, MustWrite, Encrypted, Token
    <3>3. /\ f \in Form
          /\ f.at = "commit"
          /\ f.project = form[w].project /\ f.entered = form[w].entered
          /\ f.token = Encrypted(key, form[w].entered) /\ f.loaded = form[w].loaded
      BY <1>0, <3>1, <3>2 DEF Form, Steps
    <3>4. form' = [form EXCEPT ![w] = f] /\ UNCHANGED <<row, key, made, lock, mixed>>
      BY <1>0, <1>5, <2>2, <3>1 DEF ReadKey, TypeOK, Form
    <3>5. FormFits(f, w)
      BY <1>0, <1>5, <3>3 DEF ReadKey, Now, FormFits, Fits, Encrypted
    <3> QED BY <3>3, <3>4, <3>5, FormStep
  <2> QED BY <2>1, <2>2
<1>6. CASE WriteKey(w)
  <2>1. lock = w /\ key = Empty
    BY <1>0, <1>6 DEF WriteKey, Now, FormFits
  <2>2. /\ \A p \in Project : row[p].token = NoToken
        /\ \A v \in Worker : form[v].token = NoToken /\ form[v].loaded.token = NoToken
    BY <2>1, KeyFacts, NoKeyNoToken
  <2>3. /\ made + 1 \in Key
        /\ made + 1 \in 0 .. MaxKeys
        /\ made' = made + 1 /\ key' = made + 1 /\ lock' = Nobody /\ row' = row /\ mixed' = mixed
    BY <1>0, <1>6, KeyFacts DEF WriteKey, TypeOK
  <2>4. PICK f : f = [form[w] EXCEPT !.at = "commit",
                                     !.token = Encrypted(made + 1, form[w].entered)]
    OBVIOUS
  <2>5. Encrypted(made + 1, form[w].entered) \in Token
    BY <1>0, <1>6, <2>3 DEF WriteKey, Now, FormFits, Encrypted, Token
  <2>6. /\ f \in Form
        /\ f.at = "commit"
        /\ f.project = form[w].project /\ f.entered = form[w].entered
        /\ f.token = Encrypted(made + 1, form[w].entered) /\ f.loaded = form[w].loaded
    BY <1>0, <2>4, <2>5 DEF Form, Steps
  <2>7. form' = [form EXCEPT ![w] = f]
    BY <1>0, <1>6, <2>4 DEF WriteKey, TypeOK, Form
  <2>8. TypeOK'
    BY <1>0, <2>3, <2>6, <2>7 DEF TypeOK
  <2>9. ASSUME NEW v \in Worker PROVE FormFits(form[v], v)'
    <3>1. form'[v] = IF v = w THEN f ELSE form[v]
      BY <1>0, <2>7 DEF TypeOK
    <3>2. FormFits(form[v], v)
      BY DEF KeyInv
    <3>3. CASE v = w
      BY <1>0, <1>6, <2>2, <2>3, <2>6, <3>1, <3>3 DEF WriteKey, Now, FormFits, Fits, Encrypted
    <3>4. CASE v # w
      BY <2>1, <2>2, <2>3, <3>1, <3>2, <3>4, KeyFacts DEF FormFits, Fits
    <3> QED BY <3>3, <3>4
  <2>10. \A p \in Project : Fits(row[p].token)'
    BY <2>2, <2>3 DEF Fits
  <2> QED BY <2>8, <2>9, <2>10 DEF KeyInv
<1>7. CASE Decrypt(w)
  <2>1. CASE key = form[w].loaded.token.key
    <3>1. PICK f : f = [form[w] EXCEPT !.at = "commit",
                                       !.secret = form[w].loaded.token.for]
      OBVIOUS
    <3>2. form[w].loaded.token \in Token \cup {NoToken}
      BY <1>0, Blank DEF Form
    <3>3. form[w].loaded.token.for \in Identity \cup {NoIdentity}
      BY <3>2, Blank DEF NoToken
    <3>4. /\ f \in Form
          /\ f.at = "commit"
          /\ f.project = form[w].project /\ f.entered = form[w].entered
          /\ f.token = form[w].token /\ f.loaded = form[w].loaded
      BY <1>0, <3>1, <3>3 DEF Form, Steps
    <3>5. form' = [form EXCEPT ![w] = f] /\ UNCHANGED <<row, key, made, lock, mixed>>
      BY <1>0, <1>7, <2>1, <3>1 DEF Decrypt, TypeOK, Form
    <3>6. FormFits(f, w)
      BY <1>0, <1>7, <3>4 DEF Decrypt, Now, FormFits, Fits
    <3> QED BY <3>4, <3>5, <3>6, FormStep
  <2>2. CASE key # form[w].loaded.token.key
    BY <1>2, <1>7, <2>2 DEF Decrypt
  <2> QED BY <2>1, <2>2
<1>8. CASE Commit(w)
  <2>1. PICK p : p = form[w].project
    OBVIOUS
  <2>2. p \in Project /\ form[w].entered \in Identity
    BY <1>0, <1>8, <2>1 DEF Commit, Now, FormFits
  <2>3. CASE (row[p] = Absent) = (form[w].loaded = Absent)
    <3>1. PICK r : r = Saved(row[p], form[w].loaded, form[w].entered, form[w].token)
      OBVIOUS
    <3>2. /\ row' = [row EXCEPT ![p] = r]
          /\ mixed' \in {mixed \cup {p}, mixed \ {p}}
          /\ UNCHANGED <<key, made, lock>>
      BY <1>8, <2>1, <2>3, <3>1 DEF Commit
    <3>3. r.token \in {row[p].token, form[w].token}
      BY <3>1 DEF Saved, Column
    <3>4. r \in Row
      <4>1. row[p] \in Row \cup {Absent} /\ form[w].loaded \in Row \cup {Absent}
        BY <1>0, <2>2 DEF Form
      <4>2. r.target \in Target /\ r.login \in Login
        <5>1. CASE row[p] = Absent
          <6>1. form[w].loaded = Absent
            BY <2>3, <5>1
          <6>2. form[w].entered.target # Nobody /\ form[w].entered.login # Nobody
            BY <2>2, SecretsAssumption DEF SecretsAssumption, Identity
          <6> QED BY <2>2, <3>1, <5>1, <6>1, <6>2 DEF Saved, Column, Absent, Identity
        <5>2. CASE row[p] # Absent
          BY <2>2, <3>1, <4>1, <5>2 DEF Saved, Column, Row, Identity
        <5> QED BY <5>1, <5>2
      <4>3. r.token \in Token \cup {NoToken}
        BY <1>0, <3>3, <4>1, Blank DEF Form
      <4> QED BY <3>1, <4>2, <4>3 DEF Saved, Row
    <3>5. Fits(r.token)
      BY <1>0, <2>2, <3>3 DEF FormFits
    <3>6. \A q \in Project : row'[q] = IF q = p THEN r ELSE row[q]
      BY <1>0, <2>2, <3>2 DEF TypeOK
    <3>7. PICK f : f = IF form[w].verify THEN [form[w] EXCEPT !.at = "send"] ELSE NoForm
      OBVIOUS
    <3>8. form' = [Outdated(p) EXCEPT ![w] = f]
      BY <1>8, <2>1, <2>3, <3>7 DEF Commit
    <3>9. f \in Form
      BY <1>0, <1>1, <3>7 DEF Form, Steps
    <3>10. FormFits(f, w)
      <4>1. CASE f = NoForm
        BY <1>1, <4>1
      <4>2. CASE form[w].verify
        <5>1. /\ f.at = "send"
              /\ f.project = form[w].project /\ f.entered = form[w].entered
              /\ f.token = form[w].token /\ f.loaded = form[w].loaded
          BY <1>0, <3>7, <4>2 DEF Form
        <5> QED BY <1>0, <1>8, <5>1 DEF Commit, Now, FormFits
      <4> QED BY <3>7, <4>1, <4>2
    <3>11. TypeOK'
      <4>1. row' \in [Project -> Row \cup {Absent}]
        BY <1>0, <3>2, <3>4 DEF TypeOK
      <4>2. Outdated(p) \in [Worker -> Form]
        BY <1>0, OutdatedFields DEF Outdated
      <4>3. form' \in [Worker -> Form]
        BY <3>8, <3>9, <4>2
      <4>4. mixed' \subseteq Project
        BY <1>0, <2>2, <3>2 DEF TypeOK
      <4> QED BY <1>0, <3>2, <4>1, <4>3, <4>4 DEF TypeOK
    <3>12. ASSUME NEW v \in Worker PROVE FormFits(form[v], v)'
      <4>1. PICK g : g = IF v = w THEN f ELSE Outdated(p)[v]
        OBVIOUS
      <4>3. form'[v] = g
        BY <3>8, <4>1 DEF Outdated
      <4>4. FormFits(g, v)
        <5>1. FormFits(form[v], v)
          BY DEF KeyInv
        <5> QED BY <1>0, <3>10, <4>1, <5>1, OutdatedFields DEF FormFits, Fits
      <4> QED BY <3>2, <4>3, <4>4 DEF FormFits, Fits
    <3>13. \A q \in Project : Fits(row[q].token)'
      BY <1>0, <3>2, <3>5, <3>6 DEF Fits
    <3> QED BY <3>11, <3>12, <3>13 DEF KeyInv
  <2>4. CASE ~((row[p] = Absent) = (form[w].loaded = Absent))
    BY <1>2, <1>8, <2>1, <2>4 DEF Commit
  <2> QED BY <2>3, <2>4
<1>9. CASE Send(w)
  BY <1>2, <1>9 DEF Send
<1>10. CASE Abandon(w)
  <2>1. /\ form' = [form EXCEPT ![w] = NoForm]
        /\ lock' = IF lock = w THEN Nobody ELSE lock
        /\ UNCHANGED <<row, key, made, mixed>>
    BY <1>10 DEF Abandon, Ended
  <2>2. TypeOK'
    BY <1>0, <1>1, <2>1 DEF TypeOK
  <2>3. ASSUME NEW v \in Worker PROVE FormFits(form[v], v)'
    <3>1. form'[v] = IF v = w THEN NoForm ELSE form[v]
      BY <1>0, <2>1 DEF TypeOK
    <3>2. FormFits(form[v], v)
      BY DEF KeyInv
    <3> QED BY <2>1, <3>1, <3>2, Blank DEF FormFits, Fits
  <2>4. \A p \in Project : Fits(row[p].token)'
    BY <1>0, <2>1 DEF Fits
  <2> QED BY <2>2, <2>3, <2>4 DEF KeyInv
<1> QED BY <1>3, <1>4, <1>5, <1>6, <1>7, <1>8, <1>9, <1>10

(* So does deleting a project.                                             *)
LEMMA DeleteKeepsKey ==
  ASSUME KeyInv, NEW p \in Project, Delete(p) PROVE KeyInv'
<1>1. /\ row' = [row EXCEPT ![p] = Absent]
      /\ form' = Outdated(p)
      /\ mixed' = mixed \ {p}
      /\ UNCHANGED <<key, made, lock>>
  BY DEF Delete
<1>2. TypeOK'
  <2>1. form' \in [Worker -> Form]
    BY <1>1, OutdatedFields DEF KeyInv, Outdated
  <2> QED BY <1>1, <2>1 DEF KeyInv, TypeOK
<1>3. \A q \in Project : Fits(row[q].token)'
  BY <1>1 DEF KeyInv, TypeOK, Fits, Absent
<1>4. ASSUME NEW v \in Worker PROVE FormFits(form[v], v)'
  <2>1. PICK g : g = Outdated(p)[v]
    OBVIOUS
  <2>2. FormFits(form[v], v)
    BY DEF KeyInv
  <2>3. FormFits(g, v)
    BY <2>1, <2>2, OutdatedFields DEF KeyInv, FormFits, Fits
  <2> QED BY <1>1, <2>1, <2>3 DEF FormFits, Fits
<1> QED BY <1>2, <1>3, <1>4 DEF KeyInv

(* However the forms overlap.                                              *)
LEMMA KeyAlways == Spec => []KeyInv
<1>1. Init => KeyInv
  <2> SUFFICES ASSUME Init PROVE KeyInv
    OBVIOUS
  <2>1. /\ \A p \in Project : row[p] = Absent
        /\ \A w \in Worker : form[w] = NoForm
        /\ key = Missing /\ lock = Nobody
    BY DEF Init
  <2>2. TypeOK
    BY Blank, SecretsAssumption DEF Init, TypeOK, SecretsAssumption
  <2> QED BY <2>1, <2>2, Blank DEF KeyInv, FormFits, Fits, Absent
<1>2. KeyInv /\ [Next]_vars => KeyInv'
  <2>1. ASSUME KeyInv, UNCHANGED vars PROVE KeyInv'
    BY <2>1 DEF vars, KeyInv, TypeOK, FormFits, Fits
  <2> QED BY <2>1, WorkerKeepsKey, DeleteKeepsKey DEF Next
<1> QED BY <1>1, <1>2, PTL DEF Spec

(* Rows, key file, lock and forms keep their types, for any workers,       *)
(* projects, targets, logins and keys.                                     *)
THEOREM SecretsTyped == Spec => []TypeOK
<1>1. KeyInv => TypeOK
  BY DEF KeyInv
<1> QED BY <1>1, KeyAlways, PTL

(* Whatever workers race to create the key file, and wherever they are     *)
(* killed, every saved password was encrypted with the key that is in the  *)
(* file: none becomes unreadable.                                          *)
THEOREM ReadableAlways == Spec => []TokensReadable
<1>1. KeyInv => TokensReadable
  BY DEF KeyInv, Fits, TokensReadable
<1> QED BY <1>1, KeyAlways, PTL

-----------------------------------------------------------------------------
(* What the saved passwords are for                                        *)

(* A form that is not stale works on the rows as they are.  Unless it uses *)
(* a password of mixed rows, the token it will save is for what it says,   *)
(* and so is the password it is about to read or to send, even if it is    *)
(* stale.                                                                  *)
FormBelongs(f) ==
  /\ f.at \in {"open", "read", "write", "decrypt", "commit"} /\ ~f.stale
       => f.loaded = row[f.project]
  /\ ~f.mixed /\ f.token # NoToken /\ f.at \in {"decrypt", "commit", "send"}
       => f.token.for = f.entered
  /\ ~f.mixed /\ f.at = "decrypt" => f.loaded.token.for = f.entered
  /\ ~f.mixed /\ (f.at = "send" \/ (f.verify /\ f.at \in {"open", "read", "write", "commit"}))
       => f.secret = f.entered

BelongsInv == PasswordBelongs /\ \A w \in Worker : FormBelongs(form[w])

(* A step that leaves the rows alone, and gives worker w a form that       *)
(* belongs.                                                                *)
LEMMA FormGoesOn ==
  ASSUME KeyInv, BelongsInv, NEW w \in Worker, NEW f \in Form,
         form' = [form EXCEPT ![w] = f], FormBelongs(f), UNCHANGED <<row, mixed>>
  PROVE  BelongsInv'
<1>1. ASSUME NEW v \in Worker PROVE form'[v] = IF v = w THEN f ELSE form[v]
  BY DEF KeyInv, TypeOK
<1>2. ASSUME NEW v \in Worker PROVE FormBelongs(form[v])'
  <2>1. FormBelongs(form[v])
    BY DEF BelongsInv
  <2> QED BY <1>1, <2>1 DEF FormBelongs
<1> QED BY <1>2 DEF BelongsInv, PasswordBelongs

(* A form of another request still belongs when the rows of p change: if   *)
(* it had loaded them, it is stale.                                        *)
LEMMA StaleBelongs ==
  ASSUME KeyInv, NEW p \in Project, NEW v \in Worker, FormBelongs(form[v]),
         NEW r, row' = [row EXCEPT ![p] = r], NEW g, g = Outdated(p)[v]
  PROVE  FormBelongs(g)'
<1>1. FormFits(form[v], v) /\ TypeOK
  BY DEF KeyInv
<1>2. /\ g.at = form[v].at /\ g.project = form[v].project
      /\ g.loaded = form[v].loaded /\ g.entered = form[v].entered
      /\ g.verify = form[v].verify /\ g.token = form[v].token
      /\ g.secret = form[v].secret /\ g.mixed = form[v].mixed
      /\ g.stale <=> form[v].stale \/ form[v].project = p
  BY <1>1, OutdatedFields
<1>3. ASSUME form[v].at # "idle", form[v].project # p
      PROVE  row'[form[v].project] = row[form[v].project]
  BY <1>1, <1>3 DEF TypeOK, FormFits
<1> QED BY <1>2, <1>3 DEF FormBelongs

(* Every step of a worker keeps what passwords are for.                    *)
LEMMA WorkerKeepsBelongs ==
  ASSUME KeyInv, BelongsInv, NEW w \in Worker,
         \/ Submit(w) \/ OpenKey(w) \/ ReadKey(w) \/ WriteKey(w) \/ Decrypt(w)
         \/ Commit(w) \/ Send(w) \/ Abandon(w)
  PROVE  BelongsInv'
<1>0. /\ TypeOK
      /\ form[w] \in Form
      /\ FormFits(form[w], w)
      /\ FormBelongs(form[w])
      /\ NoForm \in Form /\ NoForm.at = "idle"
      /\ form[w].at # "idle" => form[w].project \in Project /\ form[w].project # Nobody
  BY Blank, SecretsAssumption DEF KeyInv, TypeOK, BelongsInv, FormFits, SecretsAssumption
<1>1. ASSUME form' = [form EXCEPT ![w] = NoForm], UNCHANGED <<row, mixed>>
      PROVE  BelongsInv'
  <2>1. FormBelongs(NoForm)
    BY DEF FormBelongs, NoForm
  <2> QED BY <1>0, <1>1, <2>1, FormGoesOn
<1>2. CASE Submit(w)
  <2>1. PICK p \in Project, entered \in Identity, typed \in BOOLEAN, verify \in BOOLEAN :
          LET saved == SameIdentity(row[p], entered) /\ row[p].token # NoToken IN
          /\ verify => typed \/ saved
          /\ form' = [form EXCEPT ![w] =
               [at |-> IF typed THEN "open" ELSE IF verify THEN "decrypt" ELSE "commit",
                project |-> p, loaded |-> row[p], entered |-> entered, verify |-> verify,
                token |-> TokenLeft(row[p], entered),
                secret |-> IF typed THEN entered ELSE NoIdentity, stale |-> FALSE,
                mixed |-> ~typed /\ saved /\ p \in mixed]]
    BY <1>2 DEF Submit
  <2>2. PICK f : f =
               [at |-> IF typed THEN "open" ELSE IF verify THEN "decrypt" ELSE "commit",
                project |-> p, loaded |-> row[p], entered |-> entered, verify |-> verify,
                token |-> TokenLeft(row[p], entered),
                secret |-> IF typed THEN entered ELSE NoIdentity, stale |-> FALSE,
                mixed |-> /\ ~typed
                          /\ SameIdentity(row[p], entered) /\ row[p].token # NoToken
                          /\ p \in mixed]
    OBVIOUS
  <2>3. form' = [form EXCEPT ![w] = f]
    BY <2>1, <2>2
  <2>4. ASSUME SameIdentity(row[p], entered), row[p].token # NoToken, p \notin mixed
        PROVE  row[p].token.for = entered
    BY <2>4 DEF SameIdentity, BelongsInv, PasswordBelongs, Identity
  <2>5. FormBelongs(f)
    <3>1. ~f.mixed /\ f.token # NoToken /\ f.at # "open" => f.token.for = f.entered
      <4>1. /\ f.at = "open" <=> typed
            /\ f.token = TokenLeft(row[p], entered) /\ f.entered = entered
            /\ f.mixed <=> /\ ~typed
                           /\ SameIdentity(row[p], entered) /\ row[p].token # NoToken
                           /\ p \in mixed
        BY <2>2
      <4> QED BY <2>4, <4>1 DEF TokenLeft
    <3>2. ~f.mixed /\ f.at = "decrypt" => f.loaded.token.for = f.entered
      BY <2>1, <2>2, <2>4
    <3> QED BY <2>2, <3>1, <3>2 DEF FormBelongs
  <2>6. f \in Form
    <3>1. form'[w] = f
      BY <1>0, <2>3 DEF TypeOK
    <3>2. KeyInv'
      BY <1>2, WorkerKeepsKey
    <3> QED BY <3>1, <3>2 DEF KeyInv, TypeOK
  <2>7. UNCHANGED <<row, mixed>>
    BY <1>2 DEF Submit
  <2> QED BY <2>3, <2>5, <2>6, <2>7, FormGoesOn
<1>3. CASE OpenKey(w) \/ (ReadKey(w) /\ MustWrite)
  <2>1. PICK f : f = [form[w] EXCEPT !.at = IF Now(w) = "open" THEN "read" ELSE "write"]
    OBVIOUS
  <2>2. /\ form[w].at \in {"open", "read"}
        /\ form' = [form EXCEPT ![w] = f]
        /\ UNCHANGED <<row, mixed>>
    BY <1>3, <2>1 DEF OpenKey, ReadKey, Now
  <2>3. /\ f \in Form
        /\ f.at \in {"read", "write"}
        /\ f.project = form[w].project /\ f.entered = form[w].entered
        /\ f.token = form[w].token /\ f.loaded = form[w].loaded
        /\ f.verify = form[w].verify /\ f.secret = form[w].secret
        /\ f.stale = form[w].stale /\ f.mixed = form[w].mixed
    BY <1>0, <2>1 DEF Form, Steps
  <2>4. FormBelongs(f)
    BY <1>0, <2>2, <2>3 DEF FormBelongs
  <2> QED BY <2>2, <2>3, <2>4, FormGoesOn
<1>4. CASE (ReadKey(w) /\ ~MustWrite) \/ WriteKey(w)
  <2>1. PICK k : form' = [form EXCEPT ![w].at = "commit",
                                      ![w].token = Encrypted(k, form[w].entered)]
    BY <1>4 DEF ReadKey, WriteKey
  <2>2. PICK f : f = [form[w] EXCEPT !.at = "commit",
                                     !.token = Encrypted(k, form[w].entered)]
    OBVIOUS
  <2>3. form[w].at \in {"read", "write"} /\ UNCHANGED <<row, mixed>>
    BY <1>4 DEF ReadKey, WriteKey, Now
  <2>4. form' = [form EXCEPT ![w] = f]
    BY <1>0, <2>1, <2>2 DEF TypeOK, Form
  <2>5. /\ f.at = "commit"
        /\ f.project = form[w].project /\ f.entered = form[w].entered
        /\ f.token.for = form[w].entered /\ f.loaded = form[w].loaded
        /\ f.verify = form[w].verify /\ f.secret = form[w].secret
        /\ f.stale = form[w].stale /\ f.mixed = form[w].mixed
    BY <1>0, <2>2 DEF Form, Encrypted
  <2>6. FormBelongs(f)
    BY <1>0, <2>3, <2>5 DEF FormBelongs
  <2>7. f \in Form
    <3>1. form'[w] = f
      BY <1>0, <2>4 DEF TypeOK
    <3>2. KeyInv'
      BY <1>4, WorkerKeepsKey
    <3> QED BY <3>1, <3>2 DEF KeyInv, TypeOK
  <2> QED BY <2>3, <2>4, <2>5, <2>6, <2>7, FormGoesOn
<1>5. CASE Decrypt(w)
  <2>1. CASE key = form[w].loaded.token.key
    <3>1. PICK f : f = [form[w] EXCEPT !.at = "commit",
                                       !.secret = form[w].loaded.token.for]
      OBVIOUS
    <3>2. /\ form[w].at = "decrypt"
          /\ form' = [form EXCEPT ![w] = f]
          /\ UNCHANGED <<row, mixed>>
      BY <1>0, <1>5, <2>1, <3>1 DEF Decrypt, Now, TypeOK, Form
    <3>3. /\ f.at = "commit"
          /\ f.project = form[w].project /\ f.entered = form[w].entered
          /\ f.token = form[w].token /\ f.loaded = form[w].loaded
          /\ f.secret = form[w].loaded.token.for
          /\ f.stale = form[w].stale /\ f.mixed = form[w].mixed
      BY <1>0, <3>1 DEF Form
    <3>4. FormBelongs(f)
      BY <1>0, <3>2, <3>3 DEF FormBelongs
    <3>5. f \in Form
      <4>1. form'[w] = f
        BY <1>0, <3>2 DEF TypeOK
      <4>2. KeyInv'
        BY <1>5, WorkerKeepsKey
      <4> QED BY <4>1, <4>2 DEF KeyInv, TypeOK
    <3> QED BY <3>2, <3>3, <3>4, <3>5, FormGoesOn
  <2>2. CASE key # form[w].loaded.token.key
    BY <1>1, <1>5, <2>2 DEF Decrypt, Ended
  <2> QED BY <2>1, <2>2
<1>6. CASE Commit(w)
  <2>1. PICK p : p = form[w].project
    OBVIOUS
  <2>2. /\ p \in Project /\ form[w].entered \in Identity
        /\ ~form[w].stale => form[w].loaded = row[p]
        /\ ~form[w].mixed /\ form[w].token # NoToken
             => form[w].token.for = form[w].entered
        /\ ~form[w].mixed /\ form[w].verify => form[w].secret = form[w].entered
    BY <1>0, <1>6, <2>1 DEF Commit, Now, FormFits, FormBelongs
  <2>3. CASE (row[p] = Absent) = (form[w].loaded = Absent)
    <3>1. PICK r : r = Saved(row[p], form[w].loaded, form[w].entered, form[w].token)
      OBVIOUS
    <3>2. /\ row' = [row EXCEPT ![p] = r]
          /\ mixed' = IF form[w].stale \/ form[w].mixed THEN mixed \cup {p} ELSE mixed \ {p}
      BY <1>6, <2>1, <2>3, <3>1 DEF Commit
    <3>3. \A q \in Project : row'[q] = IF q = p THEN r ELSE row[q]
      BY <1>0, <3>2 DEF TypeOK
    <3>4. PasswordBelongs'
      <4>1. ASSUME p \notin mixed', r.token # NoToken
            PROVE  r.token.for = [target |-> r.target, login |-> r.login]
        <5>1. ~form[w].stale /\ ~form[w].mixed
          BY <3>2, <4>1
        <5>2. /\ r.target = form[w].entered.target
              /\ r.login = form[w].entered.login
              /\ r.token = form[w].token
          BY <2>2, <3>1, <5>1 DEF Saved, Column
        <5> QED BY <2>2, <4>1, <5>1, <5>2 DEF Identity
      <4>2. \A q \in Project : q # p /\ q \notin mixed' => q \notin mixed
        BY <3>2
      <4> QED BY <3>3, <4>1, <4>2 DEF BelongsInv, PasswordBelongs
    <3>5. PICK f : f = IF form[w].verify THEN [form[w] EXCEPT !.at = "send"] ELSE NoForm
      OBVIOUS
    <3>6. form' = [Outdated(p) EXCEPT ![w] = f]
      BY <1>6, <2>1, <2>3, <3>5 DEF Commit
    <3>7. FormBelongs(f)'
      <4>1. CASE form[w].verify
        <5>1. /\ f.at = "send"
              /\ f.entered = form[w].entered /\ f.mixed = form[w].mixed
              /\ f.token = form[w].token /\ f.secret = form[w].secret
          BY <1>0, <3>5, <4>1 DEF Form
        <5> QED BY <2>2, <4>1, <5>1 DEF FormBelongs
      <4>2. CASE ~form[w].verify
        BY <3>5, <4>2 DEF FormBelongs, NoForm
      <4> QED BY <4>1, <4>2
    <3>8. ASSUME NEW v \in Worker PROVE FormBelongs(form[v])'
      <4>1. PICK g : g = Outdated(p)[v]
        OBVIOUS
      <4>2. form'[v] = IF v = w THEN f ELSE g
        BY <3>6, <4>1 DEF Outdated
      <4>3. FormBelongs(g)'
        BY <2>2, <3>2, <4>1, StaleBelongs DEF BelongsInv
      <4> QED BY <3>7, <4>2, <4>3 DEF FormBelongs
    <3> QED BY <3>4, <3>8 DEF BelongsInv
  <2>4. CASE ~((row[p] = Absent) = (form[w].loaded = Absent))
    BY <1>1, <1>6, <2>1, <2>4 DEF Commit, Ended
  <2> QED BY <2>3, <2>4
<1>7. CASE Send(w) \/ Abandon(w)
  BY <1>1, <1>7 DEF Send, Abandon, Ended
<1> QED BY <1>2, <1>3, <1>4, <1>5, <1>6, <1>7

(* However the forms of a project overlap, and whoever is killed.          *)
LEMMA BelongsAlways == Spec => []BelongsInv
<1>1. Init => BelongsInv
  <2> SUFFICES ASSUME Init PROVE BelongsInv
    OBVIOUS
  <2>1. /\ \A p \in Project : row[p] = Absent
        /\ \A w \in Worker : form[w] = NoForm
    BY DEF Init
  <2>2. FormBelongs(NoForm)
    BY DEF FormBelongs, NoForm
  <2> QED BY <2>1, <2>2, Blank DEF BelongsInv, PasswordBelongs, Absent
<1>2. KeyInv /\ BelongsInv /\ [Next]_vars => BelongsInv'
  <2> SUFFICES ASSUME KeyInv, BelongsInv, [Next]_vars PROVE BelongsInv'
    OBVIOUS
  <2>1. ASSUME NEW p \in Project, Delete(p) PROVE BelongsInv'
    <3>1. /\ row' = [row EXCEPT ![p] = Absent]
          /\ form' = Outdated(p)
          /\ mixed' = mixed \ {p}
      BY <2>1 DEF Delete
    <3>2. \A q \in Project : row'[q] = IF q = p THEN Absent ELSE row[q]
      BY <3>1 DEF KeyInv, TypeOK
    <3>3. ASSUME NEW w \in Worker PROVE FormBelongs(form[w])'
      <4>1. PICK g : g = Outdated(p)[w]
        OBVIOUS
      <4>2. FormBelongs(g)'
        BY <3>1, <4>1, StaleBelongs DEF BelongsInv
      <4> QED BY <3>1, <4>1, <4>2 DEF FormBelongs
    <3>4. PasswordBelongs'
      BY <3>1, <3>2 DEF BelongsInv, PasswordBelongs, Absent
    <3> QED BY <3>3, <3>4 DEF BelongsInv
  <2>2. CASE UNCHANGED vars
    BY <2>2 DEF vars, BelongsInv, PasswordBelongs, FormBelongs
  <2> QED BY <2>1, <2>2, WorkerKeepsBelongs DEF Next
<1> QED BY <1>1, <1>2, KeyAlways, PTL DEF Spec

(* After any sequence of edits, deletions and failures, by workers whose   *)
(* requests overlap as they may, a saved password is the one that was      *)
(* entered for the controller, mode and userid the rows now name; only a   *)
(* form that saves over rows changed since it loaded them mixes them.      *)
THEOREM BelongsSafe == Spec => []PasswordBelongs
<1>1. BelongsInv => PasswordBelongs
  BY DEF BelongsInv
<1> QED BY <1>1, BelongsAlways, PTL

(* A verification sends a password, entered or saved, only with the login  *)
(* and to the target it was entered for, however the rows change meanwhile *)
(* and unless it was read from mixed rows.                                 *)
THEOREM SentSafe == Spec => SentWhereMeant
<1>1. ASSUME BelongsInv
      PROVE  [\A w \in Worker : Send(w) /\ ~form[w].mixed =>
                form[w].secret = form[w].entered]_vars
  <2> SUFFICES ASSUME NEW w \in Worker, Send(w), ~form[w].mixed
               PROVE  form[w].secret = form[w].entered
    OBVIOUS
  <2>1. FormBelongs(form[w])
    BY <1>1 DEF BelongsInv
  <2> QED BY <2>1 DEF Send, Now, FormBelongs
<1> QED BY <1>1, BelongsAlways, PTL DEF SentWhereMeant
=============================================================================
