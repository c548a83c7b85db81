-------------------------- MODULE NetworkRollback --------------------------
(***************************************************************************)
(* Step 00c on one node: the management connection is changed under a      *)
(* timed rollback, which is cancelled over a new SSH session to the        *)
(* desired address.  NetworkManager, the transient systemd timer and the   *)
(* service it starts run on the node; the requests that drive them are     *)
(* served by worker processes and may overlap, fail or be killed.  Once a  *)
(* change is over the desired configuration may be edited: its profile is  *)
(* then the old one of the next change.                                    *)
(*                                                                         *)
(* Source: core/services/network_config.py (RHEL 9.8 and 10.2; on 7.9 the  *)
(* step changes nothing) and network_apply in web/routes/projects.py.      *)
(***************************************************************************)
CONSTANTS
  Worker    \* worker processes that may serve the step at the same time

VARIABLES
  active,    \* the profile that is up on the primary interface
  old,       \* the old profile: its autoconnect, or "deleted"
  cand,      \* the new profile, under its candidate or its final name
  starting,  \* nmcli is bringing the candidate up
  rollback,  \* the rollback timer and the service it starts
  back,      \* the profile that service brings up ("gone": a deleted one)
  private,   \* whether the cluster/private interface is as desired
  run,       \* run[w]: the request worker w is serving
  recorded,  \* bootstrap_ip in the project: the first one, or the new one
  route,     \* what that first address is: "old" (the old profile's), "same"
             \* (already the desired one: only gateway or prefix change) or
             \* "other" (an address of another interface)
  verified,  \* history: an SSH login over the desired address has reached
             \* the new profile
  crossed,   \* history: during this change a request has cleaned up while
             \* another one was in progress
  bared,     \* history: the cleanup has deleted the old profile while it was up
  steady     \* the node is not rebooted (this does not change)

nodeVars == <<active, old, cand, starting, rollback, back, private>>
history == <<crossed, bared>>
vars == <<nodeVars, run, recorded, route, verified, history, steady>>

Pc == {"idle", "inspect", "uuid", "cleanup", "add", "schedule", "activate",
       "reconnect", "cancel", "archive", "rename", "private", "final"}

(* via: the address of the SSH session ("lost": a session cut by a reboot);*)
(* uuid: the profile found active before the change; priv: what to do with *)
(* the private interface.                                                  *)
Request == [pc : Pc, via : {"first", "new", "lost"}, uuid : {"old", "gone"},
            priv : {"right", "change", "blocked"}]

NoRequest == [pc |-> "idle", via |-> "lost", uuid |-> "old", priv |-> "right"]

TypeOK ==
  /\ active \in {"old", "new", "none"}
  (* "candidate": with autoconnect, and never renamed after its change.    *)
  /\ old \in {"auto", "candidate", "manual", "deleted"}
  /\ cand \in {"absent", "candidate", "kept"}
  /\ starting \in BOOLEAN
  (* "loose": the service runs on after its timer has been stopped.        *)
  /\ rollback \in {"off", "armed", "firing", "loose"}
  /\ back \in {"old", "gone"}
  /\ private \in BOOLEAN
  /\ run \in [Worker -> Request]
  /\ recorded \in {"first", "new"}
  /\ route \in {"old", "same", "other"}
  /\ verified \in BOOLEAN
  /\ crossed \in BOOLEAN
  /\ bared \in BOOLEAN
  /\ steady \in BOOLEAN

Init ==
  /\ active = "old"
  /\ old = "auto"
  /\ cand = "absent"
  /\ starting = FALSE
  /\ rollback = "off"
  /\ back = "old"
  /\ private \in BOOLEAN
  /\ run = [w \in Worker |-> NoRequest]
  /\ recorded = "first"
  /\ route \in {"old", "same", "other"}
  /\ verified = FALSE
  /\ crossed = FALSE
  /\ bared = FALSE
  /\ steady \in BOOLEAN

-----------------------------------------------------------------------------
(* Addresses and sessions                                                  *)

(* The node answers at an address while a profile that has it is up.       *)
Reach(a) ==
  \/ a = "first" /\ route = "other"
  \/ a = "first" /\ active = "old"
  \/ a = "new" /\ active = "new"
  \/ a \in {"first", "new"} /\ route = "same" /\ active # "none"

(* What a login at address a tells of the new profile.                     *)
Proves(a) == active = "new" /\ (a = "new" \/ route = "same")

At(w, p) == run[w].pc = p
Alive(w) == Reach(run[w].via)
Goto(w, p) == run' = [run EXCEPT ![w].pc = p]

(* network_apply: a PASS replaces the recorded address.                    *)
Finish(w, res) ==
  /\ run' = [run EXCEPT ![w] = NoRequest]
  /\ recorded' = IF res = "pass" THEN "new" ELSE recorded

(* Any remote command may raise or end with an error, and a connection may *)
(* fail; what the command did on the node before that stays.  Only the     *)
(* activation's errors are ignored.                                        *)
Abandon(w) ==
  /\ ~At(w, "activate")
  /\ Finish(w, "fail")
  /\ UNCHANGED <<nodeVars, verified>>

-----------------------------------------------------------------------------
(* configure_node_network                                                  *)

Connect(w) ==
  /\ At(w, "idle")
  /\ Reach(recorded)
  /\ run' = [run EXCEPT ![w] = [NoRequest EXCEPT !.pc = "inspect", !.via = recorded]]
  /\ verified' = (verified \/ Proves(recorded))
  /\ UNCHANGED <<nodeVars, recorded>>

(* The live addresses and routes against the desired ones.  A private      *)
(* change is blocked when pcs reports a formed cluster.                    *)
CompliesKept == active = "new" /\ cand = "kept"  \* mutant
Complies == active = "new"

Inspect(w) ==
  /\ At(w, "inspect")
  /\ Alive(w)
  /\ IF Complies /\ private THEN Finish(w, "pass")
     ELSE /\ \E p \in IF private THEN {"right"} ELSE {"change", "blocked"} :
               run' = [run EXCEPT ![w].pc = IF Complies THEN "private" ELSE "uuid",
                                  ![w].priv = p]
          /\ UNCHANGED recorded
  /\ UNCHANGED <<nodeVars, verified>>

(* The UUID that the rollback and the archival will use.  If the candidate *)
(* itself has come up meanwhile, it is the next step that deletes it.      *)
ReadUuid(w) ==
  /\ At(w, "uuid")
  /\ Alive(w)
  /\ active # "none"
  /\ run' = [run EXCEPT ![w].pc = "cleanup",
                        ![w].uuid = IF active = "old" THEN "old" ELSE "gone"]
  /\ UNCHANGED <<nodeVars, recorded, verified>>

(* NetworkManager brings up a profile with autoconnect when the interface  *)
(* is left without one; the candidate has the higher priority.             *)
Automatic(c, o) ==
  CASE c # "absent"                                -> "new"
    [] c = "absent" /\ o \in {"auto", "candidate"} -> "old"
    [] OTHER                                       -> "none"

(* What has the candidate's name is removed, and a timer and a service     *)
(* left by an earlier run.                                                 *)
Cleanup(w) ==
  LET newGone == cand = "candidate"
      oldGone == old = "candidate"
      upGone == (newGone /\ active = "new") \/ (oldGone /\ active = "old")
  IN
  /\ At(w, "cleanup")
  /\ Alive(w)
  /\ cand' = IF newGone THEN "absent" ELSE cand
  /\ old' = IF oldGone THEN "deleted" ELSE old
  /\ active' = IF upGone THEN Automatic(cand', old') ELSE active
  /\ verified' = (verified /\ ~newGone)
  /\ starting' = FALSE
  /\ rollback' = "off"
  /\ crossed' = (crossed \/ \E v \in Worker \ {w} : ~At(v, "idle"))
  /\ bared' = (bared \/ (oldGone /\ active = "old"))
  /\ Goto(w, "add")
  /\ UNCHANGED <<back, private, recorded>>

Add(w) ==
  /\ At(w, "add")
  /\ Alive(w)
  /\ cand' = "candidate"
  /\ active' = IF active = "none" THEN "new" ELSE active
  /\ Goto(w, "schedule")
  /\ UNCHANGED <<old, starting, rollback, back, private, recorded, verified>>

(* systemd-run refuses a unit that exists; the result is then FAIL         *)
(* (Abandon).                                                              *)
ScheduleUnchecked(w) ==  \* mutant
  /\ rollback' \in {rollback, "armed"}
  /\ back' = run[w].uuid
ScheduleRollback(w) ==
  /\ rollback = "off"
  /\ rollback' = "armed"
  /\ back' = run[w].uuid

Schedule(w) ==
  /\ At(w, "schedule")
  /\ Alive(w)
  /\ ScheduleRollback(w)
  /\ Goto(w, "activate")
  /\ UNCHANGED <<active, old, cand, starting, private, recorded, verified>>

(* nohup nmcli ... &; whatever happens to the command, its session ends.   *)
Activate(w) ==
  /\ At(w, "activate")
  /\ \/ Alive(w) /\ cand = "candidate" /\ starting' = TRUE
     \/ starting' = starting
  /\ Goto(w, "reconnect")
  /\ UNCHANGED <<active, old, cand, rollback, back, private, recorded, verified>>

(* A session to the desired address, with the node's own host key.  Giving *)
(* up at the deadline is Abandon.                                          *)
AnsweredByAny(w) == Reach("new") \/ Reach("first")  \* mutant
Answered(w) == Reach("new")

Reconnect(w) ==
  /\ At(w, "reconnect")
  /\ Answered(w)
  /\ verified' = (verified \/ Proves("new"))
  /\ run' = [run EXCEPT ![w].pc = "cancel", ![w].via = "new"]
  /\ UNCHANGED <<nodeVars, recorded>>

(* systemctl stop of the timer only, which fails when the timer is already *)
(* gone; then the old profile loses its autoconnect, or this fails.        *)
Cancel(w) ==
  /\ At(w, "cancel")
  /\ Alive(w)
  /\ rollback' = CASE rollback = "armed"  -> "off"
                   [] rollback = "firing" -> "loose"
                   [] OTHER               -> rollback
  /\ \/ /\ rollback \in {"armed", "firing"} /\ run[w].uuid = "old" /\ old # "deleted"
        /\ old' = "manual" /\ Goto(w, "archive") /\ UNCHANGED recorded
     \/ old' = old /\ Finish(w, "fail")
  /\ UNCHANGED <<active, cand, starting, back, private, verified>>

(* The old profile is archived and deleted, or retained with a warning.    *)
Archive(w) ==
  /\ At(w, "archive")
  /\ Alive(w)
  /\ \/ /\ old' = "deleted"
        /\ active' = IF active = "old" THEN Automatic(cand, "deleted") ELSE active
     \/ UNCHANGED <<old, active>>
  /\ Goto(w, "rename")
  /\ UNCHANGED <<cand, starting, rollback, back, private, recorded, verified>>

Rename(w) ==
  /\ At(w, "rename")
  /\ Alive(w)
  /\ cand' \in IF cand = "candidate" THEN {"candidate", "kept"} ELSE {cand}
  /\ Goto(w, "private")
  /\ UNCHANGED <<active, old, starting, rollback, back, private, recorded, verified>>

ChangePrivate(w) ==
  /\ At(w, "private")
  /\ Alive(w)
  /\ run[w].priv # "blocked"
  /\ private' = TRUE
  /\ Goto(w, "final")
  /\ UNCHANGED <<active, old, cand, starting, rollback, back, recorded, verified>>

Conclude(w) ==
  /\ At(w, "final")
  /\ Alive(w)
  /\ Finish(w, "pass")
  /\ UNCHANGED <<nodeVars, verified>>

(* The worker is killed (gunicorn's timeout, a restart).                   *)
Crash(w) ==
  /\ run' = [run EXCEPT ![w] = NoRequest]
  /\ UNCHANGED <<nodeVars, recorded, verified>>

-----------------------------------------------------------------------------
(* The node                                                                *)

ActivationEnds ==
  /\ starting
  /\ starting' = FALSE
  /\ active' \in {active, "new"}
  /\ UNCHANGED <<old, cand, rollback, back, private, run, recorded, verified>>

(* The 90 s end.  A request needs at most 40 s from the arming to the      *)
(* activation, so they never end between the two.                          *)
Fire ==
  /\ rollback = "armed"
  /\ \A w \in Worker : ~At(w, "activate")
  /\ rollback' = "firing"
  /\ UNCHANGED <<active, old, cand, starting, back, private, run, recorded, verified>>

Restore ==
  LET restored == back = "old" /\ old # "deleted" IN
  /\ rollback \in {"firing", "loose"}
  /\ rollback' = "off"
  /\ active' = IF restored THEN "old" ELSE active
  /\ starting' = (starting /\ ~restored)
  /\ UNCHANGED <<old, cand, back, private, run, recorded, verified>>

(* A reboot ends sessions, the transient timer and pending activations;    *)
(* profiles with autoconnect come up.                                      *)
Reboot ==
  /\ ~steady
  /\ active' = Automatic(cand, old)
  /\ starting' = FALSE
  /\ rollback' = "off"
  /\ run' = [w \in Worker |-> [run[w] EXCEPT !.via = "lost"]]
  /\ UNCHANGED <<old, cand, back, private, recorded, verified>>

-----------------------------------------------------------------------------
(* edit_node, between two changes: another management address (or, for     *)
(* "same", another prefix or gateway) is entered, with an SSH address at   *)
(* which the node answers, and perhaps another private address.  The       *)
(* profile that is up is the old one from now on, under the name it has.   *)
EditNode ==
  /\ active = "new" /\ rollback = "off" /\ ~starting
  /\ \A w \in Worker : At(w, "idle")
  /\ active' = "old"
  /\ old' = IF cand = "candidate" THEN "candidate" ELSE "auto"
  /\ cand' = "absent"
  /\ private' \in {private, FALSE}
  /\ recorded' = "first"
  /\ route' \in {"old", "same", "other"}
  /\ verified' = FALSE /\ crossed' = FALSE /\ bared' = FALSE
  /\ back' = "old"
  /\ UNCHANGED <<starting, rollback, run>>

RequestStep(w) ==
  \/ Connect(w) \/ Inspect(w) \/ ReadUuid(w) \/ Add(w) \/ Schedule(w)
  \/ Activate(w) \/ Reconnect(w) \/ Cancel(w) \/ Archive(w) \/ Rename(w)
  \/ ChangePrivate(w) \/ Conclude(w) \/ Abandon(w) \/ Crash(w)

NodeStep == ActivationEnds \/ Fire \/ Restore \/ Reboot

Next ==
  /\ \/ \E w \in Worker : RequestStep(w) /\ UNCHANGED <<route, history>>
     \/ \E w \in Worker : Cleanup(w) /\ UNCHANGED route
     \/ NodeStep /\ UNCHANGED <<route, history>>
     \/ EditNode
  /\ UNCHANGED steady

Spec == Init /\ [][Next]_vars

(* The timer elapses, the service it starts ends, and a request does not   *)
(* rest for ever before the activation.                                    *)
Fairly(A) == A /\ UNCHANGED <<route, history, steady>>
FairSpec ==
  /\ Spec
  /\ WF_vars(Fairly(Fire))
  /\ WF_vars(Fairly(Restore))
  /\ \A w \in Worker : WF_vars(Fairly(Activate(w)))

-----------------------------------------------------------------------------
(* Properties                                                              *)

(* What the step relies on: the recorded address is the old profile's, and *)
(* no request has cleaned up under another one.                            *)
InOrder == route = "old" /\ ~crossed

(* app.js: "The automatic rollback remains armed until SSH verification    *)
(* succeeds": while a new profile nobody has reached over its own address  *)
(* is up, the rollback is armed or under way (a reboot stops the timer).   *)
ArmedUntilVerified ==
  InOrder /\ steady /\ active = "new" /\ ~verified => rollback # "off"

(* A PASS of 00c replaces the recorded SSH address only when the new       *)
(* profile has answered over SSH at the new one.                           *)
AddressVerified ==
  [][InOrder /\ recorded = "first" /\ recorded' = "new" => verified]_vars

(* The old profile is deleted only for a new one that has answered, so     *)
(* that a change that cuts the node off can always be undone, or by the    *)
(* cleanup that takes it for the candidate of an earlier attempt.          *)
OldProfileKept == InOrder /\ old = "deleted" => verified \/ bared

(* That cleanup is also the only thing that leaves the management          *)
(* interface without a profile, however requests overlap and fail.         *)
NeverDisconnected == steady /\ route = "old" /\ active = "none" => bared

(* A new profile that nobody can reach does not stay: it is verified or    *)
(* the old one comes back, also when the request is killed or gives up.    *)
Recovers ==
  InOrder /\ steady /\ active = "new" /\ ~verified
    ~> active = "old" \/ verified \/ crossed
=============================================================================
