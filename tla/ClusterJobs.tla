---------------------------- MODULE ClusterJobs ----------------------------
(***************************************************************************)
(* Cluster operation jobs: the HTTP handlers that admit, reserve, launch   *)
(* and expire a job, the background thread that runs it, and the commands  *)
(* it leaves running on the cluster nodes.  One project is modelled; the   *)
(* rows, reservations and threads of different projects share nothing.     *)
(*                                                                         *)
(* Source: web/routes/cluster_operations.py, and run_operation with its    *)
(* helpers in core/services/cluster_operations.py.                         *)
(***************************************************************************)
EXTENDS Integers, FiniteSets

CONSTANTS
  Node,          \* the project's cluster nodes
  Worker,        \* gunicorn sync worker processes (deploy: --workers 2)
  Inventory,     \* the values the node inventory and cluster name may take
  Deleted,       \* the inventory of a project that no longer exists
  Standby,       \* the standby attribute of the node selected for standby
  Action,        \* the actions users submit, a subset of Actions
  Kind,          \* the protected requests users submit, a subset of Kinds
  DbFaults,      \* whether a save may fail with a database error
  MaxJobs,       \* bound: jobs created in a behaviour
  StartDelay,    \* time a request may take from INSERT to Thread.start
  JOB_BUDGET,    \* 360 s: deadline of a job, counted from its thread's start
  STALE_AFTER,   \* 600 s: age at which a reservation is released
  Margin,        \* 6 s: least time left to send a modifying command
  Grace,         \* 5 s: part of the time left a command may not use
  CommandLimit,  \* 120 s: the remote timeout of a modifying command
  KillAfter,     \* 5 s: timeout --kill-after
  OpenLimit      \* 130 s: exec_command timeout, the wait for its channel

Job == 1 .. MaxJobs
NodeAction == {"standby", "unstandby"}
Mutation == {"start", "stop"} \cup NodeAction
Actions == {"status"} \cup Mutation
Kinds == {"edit", "delete", "setup"}
Facet == Node \cup {Standby}

ASSUME SetsAssumption ==
  /\ IsFiniteSet(Node)
  /\ Standby \notin Node
  /\ Deleted \notin Inventory
  /\ Action \subseteq Actions
  /\ Kind \subseteq Kinds
  /\ DbFaults \in BOOLEAN

ASSUME TimesAssumption ==
  /\ MaxJobs \in Nat
  /\ {StartDelay, JOB_BUDGET, STALE_AFTER, Margin, Grace, CommandLimit,
      KillAfter, OpenLimit} \subseteq Nat
  /\ Grace <= Margin
  /\ Margin <= JOB_BUDGET

(***************************************************************************)
(* A command sent by a job is over before the job's reservation is stale:  *)
(* 110 + 360 + 130 + 5 - 5 <= 600 for any start delay up to 110 s.         *)
(***************************************************************************)
ASSUME StaleAssumption ==
  StartDelay + JOB_BUDGET + OpenLimit + KillAfter - Grace <= STALE_AFTER

VARIABLES
  inv,      \* the project's current node inventory, or Deleted
  created,  \* number of rows inserted; row j is the j-th by created_at
  job,      \* job[j]: the row of cluster_operations
  thr,      \* thr[j]: run_operation(j)'s thread, pc "none" when not running
  cmd,      \* cmd[j][n]: the modifying command job j sent to node n
  lease,    \* lease[j][n]: time within which that command has ended
  web,      \* web[w]: the request worker w is serving
  world,    \* world[f]: services up on node f; Standby: the standby attribute
  foreign   \* history: facets others changed since the last reservation

rowVars == <<inv, created, job>>
remoteVars == <<cmd, lease, world, foreign>>
vars == <<inv, created, job, thr, cmd, lease, web, world, foreign>>

-----------------------------------------------------------------------------
(* Records                                                                 *)

Status == {"absent", "deleted", "queued", "running", "pass", "fail", "unknown"}
ThreadPc == {"none", "begin", "preflight", "decide", "execute", "drainStop",
             "drainError", "verify", "judge", "handler"}
WebPc == {"idle", "admitted", "reserved"} \cup Kinds

JobRow == [status : Status, active : BOOLEAN, action : Actions,
           age : 0 .. STALE_AFTER + 1]

(* The thread's own variables: its deadline (left), the inventory it was   *)
(* given (plan), the nodes whose future is not consumed yet (todo) and     *)
(* results: a snapshot is what later steps ask of it, whether it exists    *)
(* (ok), shows the requested state (met) and an active Pacemaker (live).   *)
(* Of a result, "closed" is a fail with the exit status -1.                *)
Marks == {"pending", "fail", "closed", "unknown"}
Thread == [pc : ThreadPc, host : SUBSET Worker, left : 0 .. JOB_BUDGET,
           plan : Inventory \cup {Deleted}, todo : SUBSET Node,
           targets : SUBSET Node, ok : SUBSET Node, met : SUBSET Node,
           live : SUBSET Node, state : [Node -> Marks]]

Request == [pc : WebPc, action : Actions, plan : Inventory \cup {Deleted},
            job : 0 .. MaxJobs]

NoRow == [status |-> "absent", active |-> FALSE, action |-> "status", age |-> 0]
NoThread == [pc |-> "none", host |-> {}, left |-> 0, plan |-> Deleted,
             todo |-> {}, targets |-> {}, ok |-> {}, met |-> {}, live |-> {},
             state |-> [n \in Node |-> "pending"]]
NoRequest == [pc |-> "idle", action |-> "status", plan |-> Deleted, job |-> 0]

TypeOK ==
  /\ inv \in Inventory \cup {Deleted}
  /\ created \in 0 .. MaxJobs
  /\ job \in [Job -> JobRow]
  /\ thr \in [Job -> Thread]
  /\ cmd \in [Job -> [Node -> {"none", "running", "ok", "failed", "killed"}]]
  /\ lease \in [Job -> [Node -> Nat]]
  /\ web \in [Worker -> Request]
  /\ world \in [Facet -> BOOLEAN]
  /\ foreign \in SUBSET Facet

Init ==
  /\ inv \in Inventory
  /\ created = 0
  /\ job = [j \in Job |-> NoRow]
  /\ thr = [j \in Job |-> NoThread]
  /\ cmd = [j \in Job |-> [n \in Node |-> "none"]]
  /\ lease = [j \in Job |-> [n \in Node |-> 0]]
  /\ web = [w \in Worker |-> NoRequest]
  /\ world \in [Facet -> BOOLEAN]
  /\ foreign = {}

-----------------------------------------------------------------------------
(* Rows                                                                    *)

Lesser(a, b) == IF a <= b THEN a ELSE b

Active(j) == job[j].active

(* The reservation: some row holds UNIQUE(active_project_id).              *)
SomeRunning == \E j \in Job : Active(j) /\ job[j].status = "running"  \* mutant
SomeActive == \E j \in Job : Active(j)

Closed(row, s) == [row EXCEPT !.status = s, !.active = FALSE, !.age = 0]

(* A write to the row without asking who owns it; a deleted row stays so.  *)
Rewritten(row, s) == IF row.status = "deleted" THEN row ELSE Closed(row, s)

(* release_stale_jobs: every active row older than STALE_AFTER.            *)
ReleaseNothing(rows) == rows  \* mutant
ReleaseStale(rows) ==
  [j \in Job |-> IF rows[j].active /\ rows[j].age > STALE_AFTER
                   THEN Closed(rows[j], "unknown") ELSE rows[j]]

(* The latest uncertain mutation has no successful status job after it.    *)
Uncertain(rows, u) == rows[u].action \in Mutation /\ rows[u].status = "unknown"
Refreshed(rows, u) ==
  \E s \in Job : s > u /\ rows[s].action = "status" /\ rows[s].status = "pass"
LatestUncertain(rows, u) ==
  /\ Uncertain(rows, u)
  /\ \A v \in Job : v > u => ~Uncertain(rows, v)
NeedsRefresh(rows) ==
  \E u \in Job : LatestUncertain(rows, u) /\ ~Refreshed(rows, u)

(* What save() meets: the row is still this job's reservation ("ok"), it   *)
(* is not ("stopped": JobStopped), or the inventory differs from the plan  *)
(* or the database fails ("error").                                        *)
OwnedByRow(j) == inv # Deleted /\ job[j].status # "absent"  \* mutant
Owned(j) == inv # Deleted /\ Active(j)
Save(j, outcome) ==
  \/ outcome = "ok" /\ Owned(j) /\ inv = thr[j].plan
  \/ outcome = "stopped" /\ ~Owned(j)
  \/ outcome = "error" /\ (DbFaults \/ (Owned(j) /\ inv # thr[j].plan))
SaveOutcome == {"ok", "stopped", "error"}

(* The command slot once nobody waits for the command any more.            *)
Dropped(c) == IF c = "running" THEN c ELSE "none"

-----------------------------------------------------------------------------
(* Requests: start, history and the protected endpoints                    *)

(* start, up to the INSERT: release_stale_jobs, then the uncertainty gate. *)
(* The checks that refuse the request outright (form, role, confirmation,  *)
(* key, names, addresses) leave everything unchanged and are not steps.    *)
Admit(w, a) ==
  LET rows == ReleaseStale(job) IN
  /\ web[w].pc = "idle"
  /\ inv # Deleted
  /\ created < MaxJobs
  /\ a = "status" \/ ~NeedsRefresh(rows)
  /\ job' = rows
  /\ web' = [web EXCEPT ![w] =
       [pc |-> "admitted", action |-> a, plan |-> inv, job |-> 0]]
  /\ UNCHANGED <<inv, created, thr, remoteVars>>

(* The INSERT; UNIQUE(active_project_id) refuses it with 409 when another  *)
(* row holds the reservation.                                              *)
Reserve(w) ==
  /\ web[w].pc = "admitted"
  /\ ~SomeActive
  /\ created < MaxJobs
  /\ created' = created + 1
  /\ job' = [job EXCEPT ![created + 1] =
       [status |-> "queued", active |-> TRUE, action |-> web[w].action, age |-> 0]]
  /\ web' = [web EXCEPT ![w].pc = "reserved", ![w].job = created + 1]
  /\ foreign' = {}
  /\ UNCHANGED <<inv, thr, cmd, lease, world>>

Conflict(w) ==
  /\ web[w].pc = "admitted"
  /\ SomeActive \/ created = MaxJobs
  /\ web' = [web EXCEPT ![w] = NoRequest]
  /\ UNCHANGED <<rowVars, thr, remoteVars>>

Launch(w) ==
  /\ web[w].pc = "reserved"
  /\ thr' = [thr EXCEPT ![web[w].job] =
       [NoThread EXCEPT !.pc = "begin", !.host = {w}, !.left = JOB_BUDGET,
                      !.plan = web[w].plan]]
  /\ web' = [web EXCEPT ![w] = NoRequest]
  /\ UNCHANGED <<rowVars, remoteVars>>

LaunchFails(w) ==
  LET j == web[w].job IN
  /\ web[w].pc = "reserved"
  /\ job' = [job EXCEPT ![j] = Rewritten(@, "fail")]
  /\ web' = [web EXCEPT ![w] = NoRequest]
  /\ UNCHANGED <<inv, created, thr, remoteVars>>

(* GET history, the project page, or a start refused after its release.    *)
Poll(w) ==
  /\ web[w].pc = "idle"
  /\ inv # Deleted
  /\ job' = ReleaseStale(job)
  /\ UNCHANGED <<inv, created, thr, web, remoteVars>>

(* protect_running_operation lets the request through.                     *)
Guard(w, k) ==
  /\ web[w].pc = "idle"
  /\ inv # Deleted
  /\ ~SomeActive
  /\ web' = [web EXCEPT ![w].pc = k]
  /\ UNCHANGED <<rowVars, thr, remoteVars>>

(* edit_project, create_node, clone_node, edit_node.                       *)
Edit(w) ==
  /\ web[w].pc = "edit"
  /\ inv # Deleted
  /\ \E i \in Inventory \ {inv} : inv' = i
  /\ web' = [web EXCEPT ![w] = NoRequest]
  /\ UNCHANGED <<created, job, thr, remoteVars>>

(* delete_project: the job rows go with the project.                       *)
Delete(w) ==
  /\ web[w].pc = "delete"
  /\ inv' = Deleted
  /\ job' = [j \in Job |-> IF job[j].status = "absent" THEN job[j]
                           ELSE Closed(job[j], "deleted")]
  /\ web' = [web EXCEPT ![w] = NoRequest]
  /\ UNCHANGED <<created, thr, remoteVars>>

(* run_cluster_setup and the other legacy steps act on the nodes for as    *)
(* long as their scripts run.                                              *)
Legacy(w) ==
  /\ web[w].pc = "setup"
  /\ \E n \in Node : /\ world' = [world EXCEPT ![n] = TRUE]
                     /\ foreign' = foreign \cup {n}
  /\ UNCHANGED <<rowVars, thr, cmd, lease, web>>

Respond(w) ==
  /\ web[w].pc \in Kinds
  /\ web' = [web EXCEPT ![w] = NoRequest]
  /\ UNCHANGED <<rowVars, thr, remoteVars>>

(* A worker process is killed: its request and its daemon threads end.     *)
Crash(w) ==
  /\ web' = [web EXCEPT ![w] = NoRequest]
  /\ thr' = [j \in Job |-> IF w \in thr[j].host THEN NoThread ELSE thr[j]]
  /\ cmd' = [j \in Job |-> IF w \in thr[j].host
                             THEN [n \in Node |-> Dropped(cmd[j][n])] ELSE cmd[j]]
  /\ UNCHANGED <<rowVars, lease, world, foreign>>

-----------------------------------------------------------------------------
(* run_operation                                                           *)

(* snapshot_node on n: what the live cluster shows, nothing when n's       *)
(* Pacemaker is down.                                                      *)
View(n) == IF world[n] THEN {f \in Facet : world[f]} ELSE {}

(* desired_state of such a snapshot; disable has the shape of stop.        *)
Desired(j, n) ==
  LET a == job[j].action IN
  CASE a = "start"     -> Node \subseteq View(n)
    [] a = "stop"      -> n \notin View(n)
    [] a = "standby"   -> {n, Standby} \subseteq View(n)
    [] a = "unstandby" -> n \in View(n) /\ Standby \notin View(n)
    [] OTHER           -> TRUE

Picking(j) == job[j].action \in NodeAction /\ thr[j].pc = "preflight"

At(j, p) == thr[j].pc = p
EndThread(j) == thr' = [thr EXCEPT ![j] = NoThread]
Goto(j, t) == thr' = [thr EXCEPT ![j] = t]

(* What follows a save that is not the last one: go on as t, stop at       *)
(* once, or enter the exception handler.                                   *)
AfterSave(j, t, stopPc, errorPc) ==
  \E o \in SaveOutcome :
    /\ Save(j, o)
    /\ \/ o = "ok" /\ Goto(j, t)
       \/ /\ o = "stopped"
          /\ IF stopPc = "none" THEN EndThread(j) ELSE Goto(j, [t EXCEPT !.pc = stopPc])
       \/ o = "error" /\ Goto(j, [t EXCEPT !.pc = errorPc])

(* save(..., status, finished=True)                                        *)
Finish(j, s) ==
  \/ Save(j, "ok") /\ job' = [job EXCEPT ![j] = Closed(@, s)] /\ EndThread(j)
  \/ Save(j, "stopped") /\ EndThread(j) /\ UNCHANGED job
  \/ Save(j, "error") /\ Goto(j, [thr[j] EXCEPT !.pc = "handler"]) /\ UNCHANGED job

(* The first save of collect: the job is running, every node is queried.   *)
Begin(j) ==
  /\ At(j, "begin")
  /\ AfterSave(j, [thr[j] EXCEPT !.pc = "preflight", !.todo = Node], "none", "handler")
  /\ job' = IF thr'[j].pc = "preflight"
              THEN [job EXCEPT ![j].status = "running"] ELSE job
  /\ UNCHANGED <<inv, created, web, remoteVars>>

(* One future of collect: a snapshot, or an exception, and its save.       *)
Observe(j, n) ==
  LET t == thr[j]
      next == IF t.todo # {n} THEN t.pc
              ELSE IF t.pc = "preflight" THEN "decide" ELSE "judge"
      rest == [t EXCEPT !.todo = @ \ {n}, !.pc = next]
      good == [rest EXCEPT !.ok = @ \cup {n},
                           !.met = IF Desired(j, n) THEN @ \cup {n} ELSE @,
                           !.live = IF Picking(j) /\ world[n] THEN @ \cup {n} ELSE @]
      bad == [rest EXCEPT !.state[n] = "fail"]
  IN
  /\ t.pc \in {"preflight", "verify"}
  /\ n \in t.todo
  /\ \/ t.left > 0 /\ AfterSave(j, good, "none", "handler")
     \/ AfterSave(j, bad, "none", "handler")
  /\ UNCHANGED <<rowVars, web, remoteVars>>

(* After the preflight: some snapshot is missing, or a status job is done. *)
DecideFinish(j) ==
  /\ At(j, "decide")
  /\ \/ thr[j].ok # Node /\ Finish(j, "fail")
     \/ thr[j].ok = Node /\ job[j].action = "status" /\ Finish(j, "pass")
  /\ UNCHANGED <<inv, created, web, remoteVars>>

(* Snapshots are read again before anything more is decided.               *)
Forget(t) == [t EXCEPT !.ok = {}, !.met = {}, !.live = {}]

(* The commands to send: already compliant targets are skipped.            *)
Execute(j, targets, met) ==
  LET send == targets \ met IN
  AfterSave(j, [Forget(thr[j]) EXCEPT !.targets = targets,
                         !.todo = IF send = {} THEN Node ELSE send,
                         !.pc = IF send = {} THEN "verify" ELSE "execute"],
            "none", "handler")

(* A cluster-wide action goes to every node.                               *)
DecideAll(j) ==
  /\ At(j, "decide")
  /\ thr[j].ok = Node
  /\ job[j].action \in Mutation \ NodeAction
  /\ Execute(j, Node, thr[j].met)
  /\ UNCHANGED <<rowVars, web, remoteVars>>

(* standby and unstandby go to one coordinator, after a second look at it. *)
DecideOne(j, c) ==
  /\ At(j, "decide")
  /\ thr[j].ok = Node
  /\ job[j].action \in NodeAction
  /\ c \in thr[j].live
  /\ world[c]
  /\ thr[j].left > 0
  /\ Execute(j, {c}, IF Desired(j, c) THEN {c} ELSE {})
  /\ UNCHANGED <<rowVars, web, remoteVars>>

(* No coordinator with quorum, an unreadable fresh snapshot, or            *)
(* standby_guard's refusal: the exception is raised before any command.    *)
DecideRaise(j) ==
  /\ At(j, "decide")
  /\ thr[j].ok = Node
  /\ job[j].action \in NodeAction
  /\ Goto(j, [thr[j] EXCEPT !.pc = "handler"])
  /\ UNCHANGED <<rowVars, web, remoteVars>>

(* The longest a command sent with this much time left can take to end.    *)
FullLease(left) == OpenLimit + CommandLimit + KillAfter  \* mutant
CommandLease(left) ==
  Lesser(OpenLimit, left) + Lesser(CommandLimit, left - Grace) + KillAfter

Executing(j) == thr[j].pc \in {"execute", "drainStop", "drainError"}

(* remote_script sends the script: enough time is left.  The channel may   *)
(* take OpenLimit to open; timeout then bounds the command.  Submitted     *)
(* scripts are sent even when a save has already failed (the executor      *)
(* waits for all of them).                                                 *)
Send(j, n) ==
  LET left == thr[j].left IN
  /\ Executing(j)
  /\ n \in thr[j].todo
  /\ cmd[j][n] = "none"
  /\ left > Margin
  /\ cmd' = [cmd EXCEPT ![j][n] = "running"]
  /\ lease' = [lease EXCEPT ![j][n] = CommandLease(left)]
  /\ UNCHANGED <<rowVars, thr, web, world, foreign>>

(* The state of a node after the future of its script: exit code 124 or    *)
(* 137, or an exception (also one raised before anything was sent), is     *)
(* unknown.  A channel that closes without an exit status is no exception  *)
(* for _collect_channel: it returns -1, a code like any other that failed. *)
ExitLost(c) ==  \* mutant
  CASE c \in {"ok", "lost"} -> "pending" [] c = "killed" -> "unknown" [] OTHER -> "fail"
ExitRaw(c) == c  \* mutant
ExitFailed(c) ==  \* mutant
  CASE c = "ok" -> "pending" [] c = "closed" -> "closed" [] OTHER -> "fail"
ExitState(c) ==
  CASE c = "ok"                -> "pending"
    [] c \in {"killed", "lost"} -> "unknown"
    [] c = "closed"            -> "closed"
    [] OTHER                   -> "fail"

(* A script's future ends with its exit code, or without it: with an       *)
(* exception ("lost") or by its channel ("closed"), before the command     *)
(* was sent, while it runs, or after it has ended.                         *)
ExitOrBreak(j, n, c) ==  \* mutant
  /\ c \in {"lost", "closed"} => cmd[j][n] = "running"
  /\ c \notin {"lost", "closed"} => cmd[j][n] = c
FutureEnds(j, n, c) ==
  \/ c = "lost"
  \/ c = "closed" /\ (cmd[j][n] # "none" \/ thr[j].left > Margin)
  \/ cmd[j][n] = c /\ c # "running"

(* One future of the execution: its result and its save.  A failed save leaves the loop for the executor's exit,   *)
(* which waits for the remaining futures.                                  *)
Return(j, n, c) ==
  LET t == thr[j]
      last == t.todo = {n}
      got == [t EXCEPT !.state[n] = ExitState(c),
                       !.todo = IF last THEN Node ELSE @ \ {n},
                       !.pc = IF last THEN "verify" ELSE @]
      rest == [got EXCEPT !.todo = @ \ {n}]
  IN
  /\ At(j, "execute")
  /\ n \in t.todo
  /\ FutureEnds(j, n, c)
  /\ IF last THEN AfterSave(j, got, "none", "handler")
             ELSE AfterSave(j, rest, "drainStop", "drainError")
  /\ cmd' = [cmd EXCEPT ![j][n] = Dropped(@)]
  /\ UNCHANGED <<rowVars, web, lease, world, foreign>>

(* The executor's exit: a remaining future ends and nobody reads it.       *)
Drain(j, n) ==
  LET t == thr[j] IN
  /\ t.pc \in {"drainStop", "drainError"}
  /\ n \in t.todo
  /\ IF t.todo # {n} THEN Goto(j, [t EXCEPT !.todo = @ \ {n}])
     ELSE IF t.pc = "drainStop" THEN EndThread(j)
     ELSE Goto(j, [t EXCEPT !.todo = {}, !.pc = "handler"])
  /\ cmd' = [cmd EXCEPT ![j][n] = Dropped(@)]
  /\ UNCHANGED <<rowVars, web, lease, world, foreign>>

(* The command ends on the node by itself (ok, failed) or by timeout       *)
(* (killed).  Whatever its exit code, it may have acted on the cluster or  *)
(* not: pcs returns before the cluster has reached the requested state.    *)
(* Nobody reads the exit code of a command whose future ended.             *)
RemoteEnds(j, n, r, acted) ==
  LET f == IF job[j].action \in NodeAction THEN Standby ELSE n
      read == Executing(j) /\ n \in thr[j].todo
  IN
  /\ cmd[j][n] = "running"
  /\ cmd' = [cmd EXCEPT ![j][n] = IF read THEN r ELSE "none"]
  /\ lease' = [lease EXCEPT ![j][n] = 0]
  /\ IF acted
       THEN /\ world' = [world EXCEPT ![f] = job[j].action \in {"start", "standby"}]
            /\ foreign' = IF Active(j) THEN foreign ELSE foreign \cup {f}
       ELSE UNCHANGED <<world, foreign>>
  /\ UNCHANGED <<rowVars, thr, web>>

(* The end of a verification round.  The round is repeated until the state *)
(* is achieved, the verification limit expires (any time before, and at    *)
(* the latest with, the deadline) or a target is already in trouble.       *)
Checked(j) == IF job[j].action \in NodeAction THEN thr[j].targets ELSE Node
Achieved(j) == Checked(j) \subseteq thr[j].met
Troubled(j) == \E n \in thr[j].targets : thr[j].state[n] # "pending"

TrustExit(j, n) ==  \* mutant
  IF n \in thr[j].ok /\ thr[j].state[n] = "pending" THEN "pass" ELSE "unknown"
FinalState(j, n) ==
  LET t == thr[j] IN
  CASE n \notin t.ok -> "unknown"
    [] n \in t.ok /\ n \in t.targets /\ t.state[n] # "pending" ->
         IF t.state[n] = "unknown" THEN "unknown" ELSE "fail"
    [] OTHER -> IF job[j].action \in NodeAction
                  THEN IF Achieved(j) THEN "pass" ELSE "unknown"
                  ELSE IF n \in t.met THEN "pass" ELSE "unknown"

FinalStatus(j) ==
  LET states == {FinalState(j, n) : n \in Node} IN
  IF "unknown" \in states THEN "unknown" ELSE IF "fail" \in states THEN "fail" ELSE "pass"

Again(j) ==
  /\ At(j, "judge")
  /\ ~Achieved(j)
  /\ ~Troubled(j)
  /\ thr[j].left > 0
  /\ AfterSave(j, [Forget(thr[j]) EXCEPT !.pc = "verify", !.todo = Node], "none", "handler")
  /\ UNCHANGED <<rowVars, web, remoteVars>>

Judge(j) ==
  /\ At(j, "judge")
  /\ Finish(j, FinalStatus(j))
  /\ UNCHANGED <<inv, created, web, remoteVars>>

(* except Exception: save 'fail'; a row lost to a stale release, or an     *)
(* inventory that still differs, is marked unknown without asking again    *)
(* who owns it; a database error ends the thread with the row active.      *)
Handler(j) ==
  /\ At(j, "handler")
  /\ \/ Save(j, "ok") /\ job' = [job EXCEPT ![j] = Closed(@, "fail")]
     \/ /\ Save(j, "stopped") \/ (Owned(j) /\ inv # thr[j].plan)
        /\ job' = [job EXCEPT ![j] = Rewritten(@, "unknown")]
     \/ DbFaults /\ UNCHANGED job
  /\ EndThread(j)
  /\ UNCHANGED <<inv, created, web, remoteVars>>

-----------------------------------------------------------------------------
(* Time passes for everyone.  A request cannot sit between INSERT and      *)
(* Thread.start for longer than StartDelay; a command whose lease ends is  *)
(* killed by its timeout.                                                  *)
Tick ==
  /\ \A w \in Worker : web[w].pc = "reserved" /\ job[web[w].job].active
                         => job[web[w].job].age < StartDelay
  /\ job' = [j \in Job |-> [job[j] EXCEPT !.age =
       IF job[j].active THEN Lesser(@ + 1, STALE_AFTER + 1) ELSE @]]
  /\ thr' = [j \in Job |-> [thr[j] EXCEPT !.left = IF @ > 0 THEN @ - 1 ELSE 0]]
  /\ lease' = [j \in Job |-> [n \in Node |->
       IF lease[j][n] > 0 THEN lease[j][n] - 1 ELSE 0]]
  /\ cmd' = [j \in Job |-> [n \in Node |->
       IF cmd[j][n] = "running" /\ lease[j][n] <= 1
         THEN IF Executing(j) /\ n \in thr[j].todo THEN "killed" ELSE "none"
         ELSE cmd[j][n]]]
  /\ UNCHANGED <<inv, created, web, world, foreign>>

WebStep(w) ==
  \/ \E a \in Action : Admit(w, a)
  \/ Reserve(w) \/ Conflict(w) \/ Launch(w) \/ LaunchFails(w)
  \/ Poll(w)
  \/ \E k \in Kind : Guard(w, k)
  \/ Edit(w) \/ Delete(w) \/ Legacy(w) \/ Respond(w)
  \/ Crash(w)

NodeStep(j, n) ==
  \/ Observe(j, n) \/ DecideOne(j, n) \/ Send(j, n) \/ Drain(j, n)
  \/ \E c \in {"ok", "failed", "killed", "lost", "closed"} : Return(j, n, c)

ThreadStep(j) ==
  \/ Begin(j) \/ DecideFinish(j) \/ DecideAll(j) \/ DecideRaise(j)
  \/ Again(j) \/ Judge(j) \/ Handler(j)
  \/ \E n \in Node : NodeStep(j, n)

RemoteStep(j) ==
  \E n \in Node, r \in {"ok", "failed", "killed"}, acted \in BOOLEAN :
    RemoteEnds(j, n, r, acted)

Next ==
  \/ Tick
  \/ \E w \in Worker : WebStep(w)
  \/ \E j \in Job : ThreadStep(j) \/ RemoteStep(j)

Spec == Init /\ [][Next]_vars

(* Threads and requests are scheduled, clocks advance, and the browser     *)
(* polls the history of an unfinished job every two seconds.               *)
Fairness ==
  /\ WF_vars(Tick)
  /\ \A w \in Worker :
       /\ WF_vars(Reserve(w) \/ Conflict(w))
       /\ WF_vars(Launch(w) \/ LaunchFails(w))
       /\ WF_vars(Respond(w))
       /\ WF_vars(Poll(w))
  /\ \A j \in Job : WF_vars(ThreadStep(j))

FairSpec == Spec /\ Fairness

-----------------------------------------------------------------------------
(* Properties                                                              *)

Running(j, n) == cmd[j][n] = "running"
Quiet(j) == \A n \in Node : ~Running(j, n)
MaySend(j) == thr[j].pc \in {"begin", "preflight", "decide"} \/ Executing(j)

(* When a reservation is old enough to be released as stale, no command of *)
(* its job is running and its thread, if still alive, can send none: the   *)
(* 600 s of STALE_AFTER outlast JOB_BUDGET and every remote timeout.       *)
StaleMeansQuiet ==
  \A j \in Job : Active(j) /\ job[j].age > STALE_AFTER =>
    /\ Quiet(j)
    /\ MaySend(j) => thr[j].left <= Margin

(* A job recorded PASS has no command still running on any node, whatever  *)
(* saves failed on the way.                                                *)
PassMeansQuiet == \A j \in Job : job[j].status = "pass" => Quiet(j)

(* "Command timeout or lost transport produces UNKNOWN" (README, Cluster   *)
(* Operations), so that a job recorded PASS or FAIL has no command still   *)
(* running, and the next mutation needs no refresh first.                  *)
CertainMeansQuiet ==
  \A j \in Job : job[j].status \in {"pass", "fail"} => Quiet(j)

(* What is left of it: a verification that records FAIL leaves a command   *)
(* running only where the channel closed without an exit status.  A        *)
(* timeout, an exception and a missing snapshot all end as UNKNOWN,        *)
(* whatever the other nodes have answered.                                 *)
LostMeansUnknown ==
  [][\A j \in Job : At(j, "judge") /\ job[j].status = "running" /\ job'[j].status = "fail" =>
       \A n \in Node : Running(j, n) => thr[j].state[n] = "closed"]_vars

(* What a PASS certifies: every node (or the node's standby attribute) is  *)
(* in the requested state when the PASS is recorded, unless somebody else  *)
(* (a command of an earlier UNKNOWN job, a legacy step) changed it since   *)
(* the job was reserved.                                                   *)
Requested(j, f) ==
  CASE job[j].action = "start"     -> f \in Node => world[f]
    [] job[j].action = "stop"      -> f \in Node => ~world[f]
    [] job[j].action = "standby"   -> f = Standby => world[f]
    [] job[j].action = "unstandby" -> f = Standby => ~world[f]
    [] OTHER                       -> TRUE
PassMeansAchieved ==
  [][\A j \in Job : job[j].status # "pass" /\ job'[j].status = "pass" =>
       \A f \in Facet \ foreign : Requested(j, f)]_vars

(* The implementation of JobPromise.  A job may command a node while its   *)
(* thread has not reached the sending yet, or while the node's script is   *)
(* submitted and not sent, and only with more than Margin left.            *)
Outcome(j) ==
  CASE job[j].status = "absent"                -> "none"
    [] job[j].status \in {"queued", "running"} -> "open"
    [] job[j].status = "deleted"               -> "gone"
    [] OTHER                                   -> job[j].status
Reserved(j) == \E w \in Worker : web[w].pc = "reserved" /\ web[w].job = j
May(j) ==
  CASE job[j].action \notin Mutation -> {}
    [] job[j].action \in Mutation /\ Reserved(j) -> Node
    [] job[j].action \in Mutation /\ ~Reserved(j) ->
         IF thr[j].left <= Margin THEN {}
         ELSE IF Executing(j) THEN {n \in thr[j].todo : cmd[j][n] = "none"}
         ELSE IF MaySend(j) THEN Node ELSE {}

Promise == INSTANCE JobPromise WITH
  outcome <- [j \in Job |-> Outcome(j)],
  may <- [j \in Job |-> May(j)],
  live <- [j \in Job |-> {n \in Node : Running(j, n)}]

(* The jobs keep the promise of JobPromise: at most one open job, final    *)
(* outcomes, at most one command per node and only from an open job.       *)
KeepsPromise == Promise!PromiseSpec

(* A reservation does not outlive its worker for ever: it is released by   *)
(* its job or as stale, also when the worker was killed at any point.      *)
ReservationReleased ==
  \A j \in Job : Active(j) ~> (~Active(j) \/ inv = Deleted)

(* Every job thread ends, however its saves, snapshots and commands fare.  *)
ThreadEnds == \A j \in Job : thr[j].pc # "none" ~> thr[j].pc = "none"
=============================================================================
