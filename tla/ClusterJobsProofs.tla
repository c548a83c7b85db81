------------------------- MODULE ClusterJobsProofs -------------------------
(* Theorems of ClusterJobs for every value of its constants.               *)
EXTENDS ClusterJobs, TLAPS

(***************************************************************************)
(* Type correctness                                                        *)
(***************************************************************************)

(* The times are numbers.                                                  *)
LEMMA Times ==
  /\ MaxJobs \in Nat
  /\ StartDelay \in Nat /\ JOB_BUDGET \in Nat /\ STALE_AFTER \in Nat
  /\ Margin \in Nat /\ Grace \in Nat /\ CommandLimit \in Nat
  /\ KillAfter \in Nat /\ OpenLimit \in Nat
  /\ Grace <= Margin /\ Margin <= JOB_BUDGET
BY TimesAssumption DEF TimesAssumption

(* Closing a row keeps it a row.                                           *)
LEMMA RowTypes ==
  /\ NoRow \in JobRow
  /\ \A row \in JobRow, s \in Status :
       Closed(row, s) \in JobRow /\ Rewritten(row, s) \in JobRow
<1>1. 0 \in 0 .. STALE_AFTER + 1
  BY Times
<1>2. NoRow \in JobRow
  BY <1>1 DEF NoRow, JobRow, Status, Actions
<1>3. \A row \in JobRow, s \in Status : Closed(row, s) \in JobRow
  BY <1>1 DEF JobRow, Closed
<1>4. \A row \in JobRow, s \in Status : Rewritten(row, s) \in JobRow
  BY <1>3 DEF Rewritten
<1> QED BY <1>2, <1>3, <1>4

(* Releasing the stale rows keeps every row a row.                         *)
LEMMA ReleaseType ==
  ASSUME NEW rows \in [Job -> JobRow]
  PROVE  ReleaseStale(rows) \in [Job -> JobRow]
BY RowTypes DEF ReleaseStale, Status

(* The threads that the steps build from NoThread or from a thread.        *)
LEMMA ThreadTypes ==
  /\ NoThread \in Thread
  /\ \A w \in Worker, p \in Inventory \cup {Deleted} :
       [NoThread EXCEPT !.pc = "begin", !.host = {w}, !.left = JOB_BUDGET,
                        !.plan = p] \in Thread
  /\ \A t \in Thread, p \in ThreadPc : [t EXCEPT !.pc = p] \in Thread
  /\ \A t \in Thread : Forget(t) \in Thread
<1>1. 0 \in 0 .. JOB_BUDGET /\ JOB_BUDGET \in 0 .. JOB_BUDGET
  BY Times
<1>2. NoThread \in Thread
  BY <1>1 DEF NoThread, Thread, ThreadPc, Marks
<1>3. \A w \in Worker, p \in Inventory \cup {Deleted} :
        [NoThread EXCEPT !.pc = "begin", !.host = {w}, !.left = JOB_BUDGET,
                         !.plan = p] \in Thread
  BY <1>1 DEF NoThread, Thread, ThreadPc, Marks
<1>4. \A t \in Thread, p \in ThreadPc : [t EXCEPT !.pc = p] \in Thread
  BY DEF Thread
<1>5. \A t \in Thread : Forget(t) \in Thread
  BY DEF Thread, Forget
<1> QED BY <1>2, <1>3, <1>4, <1>5

(* A save puts the thread into one of the given states.                    *)
LEMMA AfterSaveType ==
  ASSUME TypeOK, NEW j \in Job, NEW t \in Thread, NEW p \in ThreadPc,
         NEW q \in ThreadPc, AfterSave(j, t, p, q)
  PROVE  thr' \in [Job -> Thread]
<1>1. thr \in [Job -> Thread]
  BY DEF TypeOK
<1>2. NoThread \in Thread /\ [t EXCEPT !.pc = p] \in Thread
                          /\ [t EXCEPT !.pc = q] \in Thread
  BY ThreadTypes
<1> QED BY <1>1, <1>2 DEF AfterSave, Goto, EndThread

(* The last save closes the row, ends the thread or fails.                 *)
LEMMA FinishType ==
  ASSUME TypeOK, NEW j \in Job, NEW s \in Status, Finish(j, s)
  PROVE  thr' \in [Job -> Thread] /\ job' \in [Job -> JobRow]
<1>1. job[j] \in JobRow /\ thr[j] \in Thread
  BY DEF TypeOK
<1>2. Closed(job[j], s) \in JobRow
  BY <1>1, RowTypes
<1>3. NoThread \in Thread /\ [thr[j] EXCEPT !.pc = "handler"] \in Thread
  BY <1>1, ThreadTypes DEF ThreadPc
<1> QED BY <1>2, <1>3 DEF TypeOK, Finish, Goto, EndThread

(***************************************************************************)
(* The steps, one lemma per kind of actor.                                 *)
(***************************************************************************)

LEMMA WebTypes ==
  ASSUME TypeOK, NEW w \in Worker, WebStep(w)
  PROVE  TypeOK'
<1> USE DEF TypeOK, rowVars, remoteVars
<1>0. NoRequest \in Request
  BY TimesAssumption DEF TimesAssumption, NoRequest, Request, WebPc, Actions
<1>1. ASSUME NEW a \in Action, Admit(w, a) PROVE TypeOK'
  <2>1. [pc |-> "admitted", action |-> a, plan |-> inv, job |-> 0] \in Request
    BY SetsAssumption, TimesAssumption DEF SetsAssumption, TimesAssumption, Request, WebPc
  <2>2. web' \in [Worker -> Request]
    BY <1>1, <2>1 DEF Admit
  <2> QED BY <1>1, <2>2, ReleaseType DEF Admit
<1>2. CASE Reserve(w)
  <2>1. created + 1 \in Job /\ created' \in 0 .. MaxJobs
    BY <1>2, TimesAssumption DEF TimesAssumption, Reserve, Job
  <2>2. [status |-> "queued", active |-> TRUE, action |-> web[w].action, age |-> 0]
          \in JobRow
    BY TimesAssumption DEF TimesAssumption, JobRow, Status, Request
  <2>3. job' \in [Job -> JobRow]
    BY <1>2, <2>2 DEF Reserve
  <2>4. web' \in [Worker -> Request]
    BY <1>2, <2>1 DEF Reserve, Request, WebPc, Job
  <2> QED BY <1>2, <2>1, <2>3, <2>4 DEF Reserve
<1>3. CASE Conflict(w)
  BY <1>0, <1>3 DEF Conflict
<1>4. CASE Launch(w)
  <2>1. web[w].plan \in Inventory \cup {Deleted}
    BY DEF Request
  <2>2. thr' \in [Job -> Thread]
    BY <1>4, <2>1, ThreadTypes DEF Launch
  <2> QED BY <1>0, <1>4, <2>2 DEF Launch
<1>5. CASE LaunchFails(w)
  <2>1. job' \in [Job -> JobRow]
    BY <1>5, RowTypes DEF LaunchFails, Status
  <2> QED BY <1>0, <1>5, <2>1 DEF LaunchFails
<1>6. CASE Poll(w)
  BY <1>6, ReleaseType DEF Poll
<1>7. ASSUME NEW k \in Kind, Guard(w, k) PROVE TypeOK'
  BY <1>7, SetsAssumption DEF SetsAssumption, Guard, Request, WebPc
<1>8. CASE Edit(w)
  BY <1>0, <1>8 DEF Edit
<1>9. CASE Delete(w)
  <2>1. job' \in [Job -> JobRow]
    BY <1>9, RowTypes DEF Delete, Status
  <2> QED BY <1>0, <1>9, <2>1 DEF Delete
<1>10. CASE Legacy(w)
  BY <1>10 DEF Legacy, Facet
<1>11. CASE Respond(w)
  BY <1>0, <1>11 DEF Respond
<1>12. CASE Crash(w)
  <2>1. thr' \in [Job -> Thread]
    BY <1>12, ThreadTypes DEF Crash
  <2>2. cmd' \in [Job -> [Node -> {"none", "running", "ok", "failed", "killed"}]]
    BY <1>12 DEF Crash, Dropped
  <2> QED BY <1>0, <1>12, <2>1, <2>2 DEF Crash
<1> QED BY <1>1, <1>2, <1>3, <1>4, <1>5, <1>6, <1>7, <1>8, <1>9, <1>10, <1>11,
           <1>12 DEF WebStep

(* A future that is read, or left running, leaves a command slot.          *)
LEMMA DroppedType ==
  ASSUME TypeOK, NEW j \in Job, NEW n \in Node,
         cmd' = [cmd EXCEPT ![j][n] = Dropped(@)]
  PROVE  cmd' \in [Job -> [Node -> {"none", "running", "ok", "failed", "killed"}]]
BY DEF TypeOK, Dropped

LEMMA ObserveSaves ==
  ASSUME TypeOK, NEW j \in Job, NEW n \in Node, Observe(j, n)
  PROVE  \E x \in Thread, p \in ThreadPc, q \in ThreadPc :
           x.left = thr[j].left /\ AfterSave(j, x, p, q)
<1> DEFINE t == thr[j]
           next == IF t.todo # {n} THEN t.pc
                   ELSE IF t.pc = "preflight" THEN "decide" ELSE "judge"
           rest == [t EXCEPT !.todo = @ \ {n}, !.pc = next]
           good == [rest EXCEPT !.ok = @ \cup {n},
                           !.met = IF Desired(j, n) THEN @ \cup {n} ELSE @,
                           !.live = IF Picking(j) /\ world[n] THEN @ \cup {n} ELSE @]
           bad == [rest EXCEPT !.state[n] = "fail"]
<1>1. t \in Thread /\ next \in ThreadPc /\ {"none", "handler"} \subseteq ThreadPc
  BY DEF TypeOK, Thread, ThreadPc
<1>2. rest \in Thread
  BY <1>1 DEF Thread
<1>3. good \in Thread
  <2>1. /\ rest.ok \cup {n} \in SUBSET Node
        /\ rest.met \cup {n} \in SUBSET Node /\ rest.met \in SUBSET Node
        /\ rest.live \cup {n} \in SUBSET Node /\ rest.live \in SUBSET Node
    BY <1>2 DEF Thread
  <2> HIDE DEF rest
  <2>2. \A o, m, l \in SUBSET Node :
          [rest EXCEPT !.ok = o, !.met = m, !.live = l] \in Thread
    BY <1>2 DEF Thread
  <2> QED BY <2>1, <2>2
<1>4. bad \in Thread
  BY <1>2 DEF Thread, Marks
<1>5. good.left = t.left /\ bad.left = t.left
  BY <1>1 DEF Thread
<1>6. AfterSave(j, good, "none", "handler") \/ AfterSave(j, bad, "none", "handler")
  BY DEF Observe
<1> HIDE DEF good, bad
<1> QED BY <1>1, <1>3, <1>4, <1>5, <1>6

LEMMA ExecuteSaves ==
  ASSUME TypeOK, NEW j \in Job, NEW targets \in SUBSET Node, NEW met,
         Execute(j, targets, met)
  PROVE  \E x \in Thread, p \in ThreadPc, q \in ThreadPc :
           x.left = thr[j].left /\ AfterSave(j, x, p, q)
<1> DEFINE send == targets \ met
           t == [Forget(thr[j]) EXCEPT !.targets = targets,
                         !.todo = IF send = {} THEN Node ELSE send,
                         !.pc = IF send = {} THEN "verify" ELSE "execute"]
<1>1. thr[j] \in Thread /\ {"none", "handler"} \subseteq ThreadPc
  BY DEF TypeOK, ThreadPc
<1>2. Forget(thr[j]) \in Thread
  BY <1>1, ThreadTypes
<1>3. t \in Thread /\ t.left = thr[j].left
  BY <1>1, <1>2 DEF Thread, ThreadPc, Forget
<1>4. AfterSave(j, t, "none", "handler")
  BY DEF Execute
<1> HIDE DEF t
<1> QED BY <1>1, <1>3, <1>4

LEMMA ReturnSaves ==
  ASSUME TypeOK, NEW j \in Job, NEW n \in Node, NEW c, Return(j, n, c)
  PROVE  \E x \in Thread, p \in ThreadPc, q \in ThreadPc :
           x.left = thr[j].left /\ AfterSave(j, x, p, q)
<1> DEFINE t == thr[j]
           last == t.todo = {n}
           got == [t EXCEPT !.state[n] = ExitState(c),
                       !.todo = IF last THEN Node ELSE @ \ {n},
                       !.pc = IF last THEN "verify" ELSE @]
           rest == [got EXCEPT !.todo = @ \ {n}]
<1>1. t \in Thread
  BY DEF TypeOK
<1>2. {"none", "handler", "drainStop", "drainError", "verify"} \subseteq ThreadPc
  BY DEF ThreadPc
<1>3. ExitState(c) \in Marks
  BY DEF ExitState, Marks
<1>4. got \in Thread
  BY <1>1, <1>2, <1>3 DEF Thread
<1>5. rest \in Thread
  BY <1>4 DEF Thread
<1>6. got.left = t.left /\ rest.left = t.left
  BY <1>1 DEF Thread
<1>7. \/ AfterSave(j, got, "none", "handler")
      \/ AfterSave(j, rest, "drainStop", "drainError")
  BY DEF Return
<1> HIDE DEF got, rest
<1> QED BY <1>2, <1>4, <1>5, <1>6, <1>7

LEMMA ThreadStepTypes ==
  ASSUME TypeOK, NEW j \in Job, ThreadStep(j)
  PROVE  TypeOK'
<1> USE DEF rowVars, remoteVars
<1>0. thr[j] \in Thread /\ {"none", "handler", "preflight", "verify"} \subseteq ThreadPc
  BY DEF TypeOK, ThreadPc
<1>1. CASE Begin(j)
  <2>1. [thr[j] EXCEPT !.pc = "preflight", !.todo = Node] \in Thread
    BY <1>0 DEF Thread
  <2>2. thr' \in [Job -> Thread]
    BY <1>0, <1>1, <2>1, AfterSaveType DEF Begin
  <2>3. job' \in [Job -> JobRow]
    BY <1>1 DEF Begin, TypeOK, JobRow, Status
  <2> QED BY <1>1, <2>2, <2>3 DEF Begin, TypeOK
<1>2. CASE DecideFinish(j)
  BY <1>2, FinishType DEF DecideFinish, TypeOK, Status
<1>3. CASE DecideAll(j)
  BY <1>3, ExecuteSaves, AfterSaveType DEF DecideAll, TypeOK
<1>4. CASE DecideRaise(j)
  <2>1. [thr[j] EXCEPT !.pc = "handler"] \in Thread
    BY <1>0, ThreadTypes
  <2>2. thr' \in [Job -> Thread]
    BY <1>4, <2>1 DEF DecideRaise, Goto, TypeOK
  <2> QED BY <1>4, <2>2 DEF DecideRaise, TypeOK
<1>5. CASE Again(j)
  <2>0. Forget(thr[j]) \in Thread
    BY <1>0, ThreadTypes
  <2>1. [Forget(thr[j]) EXCEPT !.pc = "verify", !.todo = Node] \in Thread
    BY <2>0 DEF Thread, ThreadPc
  <2> QED BY <1>0, <1>5, <2>1, AfterSaveType DEF Again, TypeOK
<1>6. CASE Judge(j)
  <2>1. FinalStatus(j) \in Status
    BY DEF FinalStatus, Status
  <2> QED BY <1>6, <2>1, FinishType DEF Judge, TypeOK
<1>7. CASE Handler(j)
  <2>1. \A s \in {"fail", "unknown"} :
          Closed(job[j], s) \in JobRow /\ Rewritten(job[j], s) \in JobRow
    BY RowTypes DEF TypeOK, Status
  <2>2. job' \in [Job -> JobRow]
    BY <1>7, <2>1 DEF Handler, TypeOK
  <2>3. thr' \in [Job -> Thread]
    BY <1>7, ThreadTypes DEF Handler, EndThread, TypeOK
  <2> QED BY <1>7, <2>2, <2>3 DEF Handler, TypeOK
<1>8. ASSUME NEW n \in Node, NodeStep(j, n) PROVE TypeOK'
  <2>1. CASE Observe(j, n)
    BY <2>1, ObserveSaves, AfterSaveType DEF Observe, TypeOK
  <2>2. CASE DecideOne(j, n)
    BY <2>2, ExecuteSaves, AfterSaveType DEF DecideOne, TypeOK
  <2>3. CASE Send(j, n)
    <3>1. CommandLease(thr[j].left) \in Nat
      BY <1>0, <2>3, Times DEF Send, CommandLease, Lesser, Thread
    <3> QED BY <2>3, <3>1 DEF Send, TypeOK
  <2>4. CASE Drain(j, n)
    <3>1. [thr[j] EXCEPT !.todo = @ \ {n}] \in Thread
      BY <1>0 DEF Thread
    <3>2. [thr[j] EXCEPT !.todo = {}, !.pc = "handler"] \in Thread
      BY <1>0 DEF Thread
    <3>3. thr' \in [Job -> Thread]
      BY <2>4, <3>1, <3>2, ThreadTypes DEF Drain, Goto, EndThread, TypeOK
    <3> QED BY <2>4, <3>3, DroppedType DEF Drain, TypeOK
  <2>5. ASSUME NEW c \in {"ok", "failed", "killed", "lost", "closed"}, Return(j, n, c)
        PROVE  TypeOK'
    BY <2>5, ReturnSaves, AfterSaveType, DroppedType DEF Return, TypeOK
  <2> QED BY <1>8, <2>1, <2>2, <2>3, <2>4, <2>5 DEF NodeStep
<1> QED BY <1>1, <1>2, <1>3, <1>4, <1>5, <1>6, <1>7, <1>8 DEF ThreadStep

LEMMA WorldUpdate ==
  ASSUME TypeOK, NEW f \in Facet
  PROVE  /\ [world EXCEPT ![f] = TRUE] \in [Facet -> BOOLEAN]
         /\ [world EXCEPT ![f] = FALSE] \in [Facet -> BOOLEAN]
<1>1. world \in [Facet -> BOOLEAN]
  BY DEF TypeOK
<1> QED BY <1>1

(* A command that ends leaves well-typed slots, leases and nodes.          *)
LEMMA RemoteTypes ==
  ASSUME TypeOK, NEW j \in Job, NEW n \in Node,
         NEW r \in {"ok", "failed", "killed"}, NEW acted \in BOOLEAN,
         RemoteEnds(j, n, r, acted)
  PROVE  TypeOK'
<1> USE DEF TypeOK, RemoteEnds, rowVars
<1>1. cmd' \in [Job -> [Node -> {"none", "running", "ok", "failed", "killed"}]]
  <2>1. PICK c \in {r, "none"} : cmd' = [cmd EXCEPT ![j][n] = c]
    BY Zenon
  <2> QED BY <2>1
<1>2. lease' \in [Job -> [Node -> Nat]]
  OBVIOUS
<1>3. world' \in [Facet -> BOOLEAN]
  <2>1. CASE acted
    <3> DEFINE f == IF job[j].action \in NodeAction THEN Standby ELSE n
               up == job[j].action \in {"start", "standby"}
    <3>1. f \in Facet
      BY DEF Facet
    <3>2. CASE up
      <4>1. world' = [world EXCEPT ![f] = TRUE]
        BY <2>1, <3>2
      <4> QED BY <3>1, <4>1, WorldUpdate
    <3>3. CASE ~up
      <4>1. up = FALSE
        BY <3>3
      <4>2. world' = [world EXCEPT ![f] = up]
        BY <2>1
      <4>3. world' = [world EXCEPT ![f] = FALSE]
        BY <4>1, <4>2
      <4> QED BY <3>1, <4>3, WorldUpdate
    <3> QED BY <3>2, <3>3
  <2>2. CASE ~acted
    BY <2>2
  <2> QED BY <2>1, <2>2
<1>4. foreign' \in SUBSET Facet
  BY DEF Facet
<1> QED BY <1>1, <1>2, <1>3, <1>4

LEMMA TickTypes ==
  ASSUME TypeOK, Tick
  PROVE  TypeOK'
<1> USE DEF TypeOK, Tick
<1>1. job' \in [Job -> JobRow]
  <2>1. \A a \in 0 .. STALE_AFTER + 1 :
          Lesser(a + 1, STALE_AFTER + 1) \in 0 .. STALE_AFTER + 1
    BY Times DEF Lesser
  <2> QED BY <2>1 DEF JobRow
<1>2. thr' \in [Job -> Thread]
  <2>1. \A l \in 0 .. JOB_BUDGET :
          (IF l > 0 THEN l - 1 ELSE 0) \in 0 .. JOB_BUDGET
    BY Times
  <2>2. \A t \in Thread : [t EXCEPT !.left = IF @ > 0 THEN @ - 1 ELSE 0] \in Thread
    <3>1. \A t \in Thread, l \in 0 .. JOB_BUDGET : [t EXCEPT !.left = l] \in Thread
      BY DEF Thread
    <3>2. \A t \in Thread : t.left \in 0 .. JOB_BUDGET
      BY DEF Thread
    <3> QED BY <2>1, <3>1, <3>2
  <2> QED BY <2>2
<1>3. lease' \in [Job -> [Node -> Nat]]
  OBVIOUS
<1>4. cmd' \in [Job -> [Node -> {"none", "running", "ok", "failed", "killed"}]]
  OBVIOUS
<1> QED BY <1>1, <1>2, <1>3, <1>4

(***************************************************************************)
(* Every reachable state is well typed: rows, threads, requests, commands  *)
(* and leases keep the shapes their declarations give them.                *)
(***************************************************************************)
THEOREM TypeCorrect == Spec => []TypeOK
<1>1. Init => TypeOK
  <2>1. NoRequest \in Request
    BY Times DEF NoRequest, Request, WebPc, Actions
  <2>2. 0 \in 0 .. MaxJobs
    BY Times
  <2>3. NoRow \in JobRow /\ NoThread \in Thread
    BY RowTypes, ThreadTypes
  <2> QED BY <2>1, <2>2, <2>3 DEF Init, TypeOK
<1>2. TypeOK /\ [Next]_vars => TypeOK'
  <2> SUFFICES ASSUME TypeOK, [Next]_vars PROVE TypeOK'
    OBVIOUS
  <2>1. CASE Tick
    BY <2>1, TickTypes
  <2>2. ASSUME NEW w \in Worker, WebStep(w) PROVE TypeOK'
    BY <2>2, WebTypes
  <2>3. ASSUME NEW j \in Job, ThreadStep(j) PROVE TypeOK'
    BY <2>3, ThreadStepTypes
  <2>4. ASSUME NEW j \in Job, RemoteStep(j) PROVE TypeOK'
    BY <2>4, RemoteTypes DEF RemoteStep
  <2>5. CASE UNCHANGED vars
    BY <2>5 DEF vars, TypeOK
  <2> QED BY <2>1, <2>2, <2>3, <2>4, <2>5 DEF Next
<1> QED BY <1>1, <1>2, PTL DEF Spec

(***************************************************************************)
(* Stale reservations                                                      *)
(*                                                                         *)
(* StaleMeansQuiet speaks of one moment, the age at which a reservation    *)
(* may be released.  Its strengthening follows the age from the INSERT:    *)
(* a reserved row not yet launched is at most StartDelay old; from the     *)
(* launch on, age and time left add up to at most StartDelay + JOB_BUDGET; *)
(* and a command inherits what was left when it was sent.                  *)
(***************************************************************************)

LeaseEnd == StartDelay + JOB_BUDGET + OpenLimit + KillAfter - Grace

LaunchInTime ==
  \A w \in Worker : web[w].pc = "reserved" =>
    /\ web[w].job \in 1 .. created
    /\ Active(web[w].job) => job[web[w].job].age <= StartDelay

WithinBudget ==
  \A j \in Job : Active(j) /\ thr[j].left > 0 =>
    job[j].age + thr[j].left <= StartDelay + JOB_BUDGET

WithinLease ==
  \A j \in Job, n \in Node : Active(j) /\ Running(j, n) =>
    job[j].age + lease[j][n] <= LeaseEnd

NothingAhead == \A j \in Job : j > created => thr[j].left = 0 /\ Quiet(j)

StaleInv == LaunchInTime /\ WithinBudget /\ WithinLease /\ NothingAhead

(* What most steps do: no row becomes active or changes its age, no thread *)
(* gains time, no command starts, no request becomes reserved.             *)
NothingGained ==
  /\ created' = created
  /\ \A j \in Job : job'[j].active => job[j].active /\ job'[j].age = job[j].age
  /\ \A j \in Job : thr'[j].left \in 0 .. thr[j].left
  /\ \A j \in Job, n \in Node : cmd'[j][n] = "running" =>
       cmd[j][n] = "running" /\ lease'[j][n] = lease[j][n]
  /\ \A w \in Worker : web'[w].pc = "reserved" => web'[w] = web[w]

(* The parts of TypeOK the arithmetic below needs.                         *)
LEMMA Numbers ==
  ASSUME TypeOK
  PROVE  /\ created \in 0 .. MaxJobs
         /\ \A j \in Job : job[j].age \in Nat /\ job[j].active \in BOOLEAN
         /\ \A j \in Job : thr[j].left \in 0 .. JOB_BUDGET
         /\ \A j \in Job, n \in Node : lease[j][n] \in Nat
         /\ \A w \in Worker : web[w].job \in 0 .. MaxJobs
<1>1. \A j \in Job : job[j] \in JobRow /\ thr[j] \in Thread
  BY DEF TypeOK
<1>2. \A w \in Worker : web[w] \in Request
  BY DEF TypeOK
<1>3. \A j \in Job : job[j].age \in Nat /\ job[j].active \in BOOLEAN
  BY <1>1, Times DEF JobRow
<1>4. \A j \in Job : thr[j].left \in 0 .. JOB_BUDGET
  BY <1>1 DEF Thread
<1>5. \A w \in Worker : web[w].job \in 0 .. MaxJobs
  BY <1>2 DEF Request
<1>6. \A j \in Job, n \in Node : lease[j][n] \in Nat
  BY DEF TypeOK
<1> QED BY <1>3, <1>4, <1>5, <1>6 DEF TypeOK

LEMMA NothingGainedKeeps ==
  ASSUME TypeOK, StaleInv, NothingGained
  PROVE  StaleInv'
<1> USE DEF NothingGained
<1>1. LaunchInTime'
  <2> SUFFICES ASSUME NEW w \in Worker, web'[w].pc = "reserved"
               PROVE  /\ web'[w].job \in 1 .. created'
                      /\ job'[web'[w].job].active => job'[web'[w].job].age <= StartDelay
    BY DEF LaunchInTime, Active
  <2>1. web'[w] = web[w] /\ web[w].job \in 1 .. created
    BY DEF StaleInv, LaunchInTime
  <2>2. web[w].job \in Job
    BY <2>1, Numbers, Times DEF Job
  <2> QED BY <2>1, <2>2 DEF StaleInv, LaunchInTime, Active
<1>2. WithinBudget'
  BY Numbers, Times DEF StaleInv, WithinBudget, Active
<1>3. WithinLease'
  BY DEF StaleInv, WithinLease, Active, Running
<1>4. NothingAhead'
  BY Numbers DEF StaleInv, NothingAhead, Quiet, Running
<1> QED BY <1>1, <1>2, <1>3, <1>4 DEF StaleInv

(* A save changes one thread, which keeps its time or ends.                *)
LEMMA AfterSaveGains ==
  ASSUME TypeOK, NEW j \in Job, NEW t \in Thread, t.left = thr[j].left,
         NEW p, NEW q, AfterSave(j, t, p, q)
  PROVE  \A k \in Job : thr'[k].left \in 0 .. thr[k].left
<1>1. thr \in [Job -> Thread]
  BY DEF TypeOK
<1>2. \A k \in Job : thr[k].left \in 0 .. thr[k].left /\ 0 \in 0 .. thr[k].left
  BY Numbers, Times
<1>3. PICK x \in {NoThread, t, [t EXCEPT !.pc = p], [t EXCEPT !.pc = q]} :
        thr' = [thr EXCEPT ![j] = x]
  BY DEF AfterSave, Goto, EndThread
<1>4. x.left \in {0, thr[j].left}
  BY DEF NoThread, Thread
<1> QED BY <1>1, <1>2, <1>3, <1>4

LEMMA FinishGains ==
  ASSUME TypeOK, NEW j \in Job, NEW s, Finish(j, s)
  PROVE  /\ \A k \in Job : thr'[k].left \in 0 .. thr[k].left
         /\ \A k \in Job : job'[k].active => job[k].active /\ job'[k].age = job[k].age
<1>1. thr \in [Job -> Thread] /\ job \in [Job -> JobRow]
  BY DEF TypeOK
<1>2. \A k \in Job : thr[k].left \in 0 .. thr[k].left /\ 0 \in 0 .. thr[k].left
  BY Numbers, Times
<1>3. PICK x \in {NoThread, [thr[j] EXCEPT !.pc = "handler"]} :
        thr' = [thr EXCEPT ![j] = x]
  BY DEF Finish, Goto, EndThread
<1>4. x.left \in {0, thr[j].left}
  BY <1>1 DEF NoThread, Thread
<1>5. PICK row \in {job[j], Closed(job[j], s)} : job' = [job EXCEPT ![j] = row]
  BY <1>1 DEF Finish
<1>6. row.active => row = job[j]
  BY <1>1 DEF Closed, JobRow
<1> QED BY <1>1, <1>2, <1>3, <1>4, <1>5, <1>6

LEMMA DroppedGains ==
  ASSUME TypeOK, NEW j \in Job, NEW n \in Node,
         cmd' = [cmd EXCEPT ![j][n] = Dropped(@)], lease' = lease
  PROVE  \A k \in Job, m \in Node : cmd'[k][m] = "running" =>
           cmd[k][m] = "running" /\ lease'[k][m] = lease[k][m]
BY DEF TypeOK, Dropped

(* Releasing rows and rewriting one only take reservations away.           *)
LEMMA RowsGain ==
  ASSUME TypeOK
  PROVE  /\ \A k \in Job : ReleaseStale(job)[k].active =>
              ReleaseStale(job)[k] = job[k]
         /\ \A k \in Job, s \in Status : Rewritten(job[k], s).active =>
              Rewritten(job[k], s) = job[k]
<1>1. job \in [Job -> JobRow]
  BY DEF TypeOK
<1> QED BY <1>1 DEF ReleaseStale, Rewritten, Closed, JobRow

(* A thread's step gains nothing, unless it sends a command.               *)
LEMMA ThreadGains ==
  ASSUME TypeOK, NEW j \in Job, ThreadStep(j), \A n \in Node : ~Send(j, n)
  PROVE  NothingGained
<1> USE DEF rowVars, remoteVars
<1>0. thr \in [Job -> Thread] /\ thr[j] \in Thread
      /\ \A k \in Job : thr[k].left \in 0 .. thr[k].left /\ 0 \in 0 .. thr[k].left
  BY Numbers, Times DEF TypeOK
<1>1. CASE Begin(j)
  <2>1. [thr[j] EXCEPT !.pc = "preflight", !.todo = Node] \in Thread
    BY <1>0 DEF Thread, ThreadPc
  <2>2. [thr[j] EXCEPT !.pc = "preflight", !.todo = Node].left = thr[j].left
    BY <1>0 DEF Thread
  <2>3. \A k \in Job : thr'[k].left \in 0 .. thr[k].left
    BY <1>1, <2>1, <2>2, AfterSaveGains DEF Begin
  <2>4. \A k \in Job : job'[k].active => job[k].active /\ job'[k].age = job[k].age
    BY <1>1 DEF Begin, TypeOK, JobRow
  <2> QED BY <1>1, <2>3, <2>4 DEF Begin, NothingGained
<1>2. CASE DecideFinish(j)
  BY <1>2, FinishGains DEF DecideFinish, NothingGained
<1>3. ASSUME NEW targets \in SUBSET Node, NEW met, Execute(j, targets, met)
      PROVE  \A k \in Job : thr'[k].left \in 0 .. thr[k].left
  BY <1>3, ExecuteSaves, AfterSaveGains
<1>4. CASE DecideAll(j)
  BY <1>3, <1>4 DEF DecideAll, NothingGained
<1>5. CASE DecideRaise(j)
  <2>1. [thr[j] EXCEPT !.pc = "handler"].left = thr[j].left
    BY <1>0 DEF Thread
  <2>2. \A k \in Job : thr'[k].left \in 0 .. thr[k].left
    BY <1>0, <1>5, <2>1 DEF DecideRaise, Goto
  <2> QED BY <1>5, <2>2 DEF DecideRaise, NothingGained
<1>6. CASE Again(j)
  <2>1. Forget(thr[j]) \in Thread /\ Forget(thr[j]).left = thr[j].left
    BY <1>0, ThreadTypes DEF Forget, Thread
  <2>2. /\ [Forget(thr[j]) EXCEPT !.pc = "verify", !.todo = Node] \in Thread
        /\ [Forget(thr[j]) EXCEPT !.pc = "verify", !.todo = Node].left = thr[j].left
    BY <2>1 DEF Thread, ThreadPc
  <2>3. \A k \in Job : thr'[k].left \in 0 .. thr[k].left
    BY <1>6, <2>2, AfterSaveGains DEF Again
  <2> QED BY <1>6, <2>3 DEF Again, NothingGained
<1>7. CASE Judge(j)
  BY <1>7, FinishGains DEF Judge, NothingGained
<1>8. CASE Handler(j)
  <2>1. job \in [Job -> JobRow]
    BY DEF TypeOK
  <2>2. PICK row \in {job[j], Closed(job[j], "fail"), Rewritten(job[j], "unknown")} :
          job' = [job EXCEPT ![j] = row]
    BY <1>8, <2>1 DEF Handler
  <2>3. row.active => row = job[j]
    BY <2>1, RowsGain DEF Closed, JobRow, Status
  <2>4. \A k \in Job : job'[k].active => job[k].active /\ job'[k].age = job[k].age
    BY <2>1, <2>2, <2>3
  <2>5. \A k \in Job : thr'[k].left \in 0 .. thr[k].left
    BY <1>0, <1>8 DEF Handler, EndThread, NoThread
  <2> QED BY <1>8, <2>4, <2>5 DEF Handler, NothingGained
<1>9. ASSUME NEW n \in Node, NodeStep(j, n) PROVE NothingGained
  <2>1. CASE Observe(j, n)
    <3>1. \A k \in Job : thr'[k].left \in 0 .. thr[k].left
      BY <2>1, ObserveSaves, AfterSaveGains
    <3> QED BY <2>1, <3>1 DEF Observe, NothingGained
  <2>2. CASE DecideOne(j, n)
    BY <1>3, <2>2 DEF DecideOne, NothingGained
  <2>3. CASE Drain(j, n)
    <3>1. PICK x \in {NoThread, [thr[j] EXCEPT !.todo = @ \ {n}],
                      [thr[j] EXCEPT !.todo = {}, !.pc = "handler"]} :
            thr' = [thr EXCEPT ![j] = x]
      BY <2>3 DEF Drain, Goto, EndThread
    <3>2. /\ NoThread.left = 0
          /\ [thr[j] EXCEPT !.todo = @ \ {n}].left = thr[j].left
          /\ [thr[j] EXCEPT !.todo = {}, !.pc = "handler"].left = thr[j].left
      BY <1>0 DEF NoThread, Thread
    <3>3. \A k \in Job : thr'[k].left \in 0 .. thr[k].left
      BY <1>0, <3>1, <3>2
    <3> QED BY <2>3, <3>3, DroppedGains DEF Drain, NothingGained
  <2>4. ASSUME NEW c \in {"ok", "failed", "killed", "lost", "closed"}, Return(j, n, c)
        PROVE  NothingGained
    <3>1. \A k \in Job : thr'[k].left \in 0 .. thr[k].left
      BY <2>4, ReturnSaves, AfterSaveGains
    <3> QED BY <2>4, <3>1, DroppedGains DEF Return, NothingGained
  <2> QED BY <1>9, <2>1, <2>2, <2>3, <2>4 DEF NodeStep
<1> QED BY <1>1, <1>2, <1>4, <1>5, <1>6, <1>7, <1>8, <1>9 DEF ThreadStep

(* A request's step gains nothing, unless it reserves or launches a job.   *)
LEMMA WebGains ==
  ASSUME TypeOK, NEW w \in Worker, WebStep(w), ~Reserve(w), ~Launch(w)
  PROVE  NothingGained
<1> USE DEF rowVars, remoteVars
<1>0. /\ thr \in [Job -> Thread] /\ job \in [Job -> JobRow]
      /\ web \in [Worker -> Request] /\ cmd \in [Job -> [Node ->
            {"none", "running", "ok", "failed", "killed"}]]
      /\ \A k \in Job : thr[k].left \in 0 .. thr[k].left /\ 0 \in 0 .. thr[k].left
  BY Numbers, Times DEF TypeOK
<1>1. NoRequest.pc # "reserved"
  BY DEF NoRequest
<1>2. ASSUME NEW a \in Action, Admit(w, a) PROVE NothingGained
  BY <1>0, <1>2, RowsGain DEF Admit, NothingGained
<1>3. CASE Conflict(w)
  BY <1>0, <1>1, <1>3 DEF Conflict, NothingGained
<1>4. CASE LaunchFails(w)
  <2>1. \A k \in Job : job'[k].active => job[k].active /\ job'[k].age = job[k].age
    BY <1>0, <1>4, RowsGain DEF LaunchFails, Status
  <2> QED BY <1>0, <1>1, <1>4, <2>1 DEF LaunchFails, NothingGained
<1>5. CASE Poll(w)
  BY <1>0, <1>5, RowsGain DEF Poll, NothingGained
<1>6. ASSUME NEW k \in Kind, Guard(w, k) PROVE NothingGained
  <2>1. k # "reserved"
    BY SetsAssumption DEF SetsAssumption, Kinds
  <2> QED BY <1>0, <1>6, <2>1 DEF Guard, NothingGained, Request
<1>7. CASE Edit(w)
  BY <1>0, <1>1, <1>7 DEF Edit, NothingGained
<1>8. CASE Delete(w)
  <2>1. \A k \in Job : job'[k].active => job[k].active /\ job'[k].age = job[k].age
    BY <1>0, <1>8 DEF Delete, Closed, JobRow
  <2> QED BY <1>0, <1>1, <1>8, <2>1 DEF Delete, NothingGained
<1>9. CASE Legacy(w)
  BY <1>0, <1>9 DEF Legacy, NothingGained
<1>10. CASE Respond(w)
  BY <1>0, <1>1, <1>10 DEF Respond, NothingGained
<1>11. CASE Crash(w)
  <2>1. \A k \in Job : thr'[k].left \in 0 .. thr[k].left
    BY <1>0, <1>11 DEF Crash, NoThread
  <2>2. \A k \in Job, n \in Node : cmd'[k][n] = "running" => cmd[k][n] = "running"
    BY <1>0, <1>11 DEF Crash, Dropped
  <2> QED BY <1>0, <1>1, <1>11, <2>1, <2>2 DEF Crash, NothingGained
<1> QED BY <1>2, <1>3, <1>4, <1>5, <1>6, <1>7, <1>8, <1>9, <1>10, <1>11 DEF WebStep

LEMMA RemoteGains ==
  ASSUME TypeOK, NEW j \in Job, RemoteStep(j)
  PROVE  NothingGained
<1> PICK n \in Node, r \in {"ok", "failed", "killed"}, acted \in BOOLEAN :
      RemoteEnds(j, n, r, acted)
  BY DEF RemoteStep
<1>1. \A k \in Job, m \in Node : cmd'[k][m] = "running" =>
        cmd[k][m] = "running" /\ lease'[k][m] = lease[k][m]
  <2>1. PICK c \in {r, "none"} : cmd' = [cmd EXCEPT ![j][n] = c]
    BY Zenon DEF RemoteEnds
  <2>2. lease' = [lease EXCEPT ![j][n] = 0]
    BY DEF RemoteEnds
  <2> QED BY <2>1, <2>2 DEF TypeOK
<1>2. \A k \in Job : thr[k].left \in 0 .. thr[k].left
  BY Numbers, Times
<1> QED BY <1>1, <1>2 DEF RemoteEnds, rowVars, NothingGained

(* The INSERT starts the age of the row that becomes active.               *)
LEMMA ReserveStale ==
  ASSUME TypeOK, StaleInv, NEW w \in Worker, Reserve(w)
  PROVE  StaleInv'
<1>0. /\ job \in [Job -> JobRow] /\ web \in [Worker -> Request]
      /\ created \in 0 .. MaxJobs /\ created < MaxJobs
  BY DEF TypeOK, Reserve
<1>1. created + 1 \in Job /\ created' = created + 1 /\ created \in Nat
  BY <1>0, Times DEF Job, Reserve
<1>2. /\ job'[created + 1].active /\ job'[created + 1].age = 0
      /\ \A k \in Job : k # created + 1 => job'[k] = job[k]
      /\ UNCHANGED <<thr, cmd, lease>>
  BY <1>0, <1>1 DEF Reserve
<1>3. LaunchInTime'
  <2> SUFFICES ASSUME NEW v \in Worker, web'[v].pc = "reserved"
               PROVE  /\ web'[v].job \in 1 .. created'
                      /\ job'[web'[v].job].active => job'[web'[v].job].age <= StartDelay
    BY DEF LaunchInTime, Active
  <2>1. CASE v = w
    <3>1. web'[v].job = created + 1
      BY <1>0, <2>1 DEF Reserve, Request
    <3> QED BY <1>1, <1>2, <3>1, Times
  <2>2. CASE v # w
    <3>1. web'[v] = web[v]
      BY <1>0, <2>2 DEF Reserve
    <3>2. web[v].job \in 1 .. created
      BY <3>1 DEF StaleInv, LaunchInTime
    <3>3. web[v].job \in Job /\ web[v].job # created + 1
      BY <1>0, <1>1, <3>2, Times DEF Job
    <3> QED BY <1>1, <1>2, <3>1, <3>2, <3>3 DEF StaleInv, LaunchInTime, Active
  <2> QED BY <2>1, <2>2
<1>4. WithinBudget'
  BY <1>1, <1>2 DEF StaleInv, WithinBudget, NothingAhead, Active
<1>5. WithinLease'
  <2>1. created + 1 > created
    BY <1>1
  <2>2. Quiet(created + 1)
    BY <1>1, <2>1 DEF StaleInv, NothingAhead
  <2>3. \A n \in Node : ~Running(created + 1, n)
    BY <2>2 DEF Quiet
  <2> QED BY <1>2, <2>3 DEF StaleInv, WithinLease, Active, Running
<1>6. NothingAhead'
  <2>1. \A k \in Job : k > created + 1 => k > created
    BY <1>1 DEF Job
  <2> QED BY <1>1, <1>2, <2>1 DEF StaleInv, NothingAhead, Quiet, Running
<1> QED BY <1>3, <1>4, <1>5, <1>6 DEF StaleInv

(* The launch gives the whole budget to a row at most StartDelay old.      *)
LEMMA LaunchStale ==
  ASSUME TypeOK, StaleInv, NEW w \in Worker, Launch(w)
  PROVE  StaleInv'
<1> USE DEF Launch, TypeOK, rowVars, remoteVars
<1> DEFINE j == web[w].job
<1>1. j \in 1 .. created /\ j \in Job /\ (Active(j) => job[j].age <= StartDelay)
  BY Numbers, Times DEF StaleInv, LaunchInTime, Job
<1>2. /\ thr'[j].left = JOB_BUDGET
      /\ \A k \in Job : k # j => thr'[k] = thr[k]
  BY <1>1 DEF NoThread
<1>3. \A v \in Worker : web'[v].pc = "reserved" => web'[v] = web[v]
  BY DEF NoRequest
<1>4. LaunchInTime'
  BY <1>3 DEF StaleInv, LaunchInTime, Active
<1>5. WithinBudget'
  BY <1>1, <1>2, Numbers, Times DEF StaleInv, WithinBudget, Active
<1>6. WithinLease'
  BY DEF StaleInv, WithinLease, Active, Running
<1>7. NothingAhead'
  BY <1>1, <1>2 DEF StaleInv, NothingAhead, Quiet, Running
<1> QED BY <1>4, <1>5, <1>6, <1>7 DEF StaleInv

(* A command gets less than the time its job has left, and the time to     *)
(* open its channel and to be killed.                                      *)
LEMMA SendStale ==
  ASSUME TypeOK, StaleInv, NEW j \in Job, NEW n \in Node, Send(j, n)
  PROVE  StaleInv'
<1> USE DEF Send, rowVars
<1>1. thr[j].left \in Nat /\ thr[j].left > Margin /\ job[j].age \in Nat
  BY Numbers
<1>2. thr[j].left > 0 /\ thr[j].left > Grace
  BY <1>1, Times
<1>3. CommandLease(thr[j].left) <= OpenLimit + (thr[j].left - Grace) + KillAfter
  BY <1>1, <1>2, Times DEF CommandLease, Lesser
<1>4. /\ lease'[j][n] = CommandLease(thr[j].left)
      /\ \A k \in Job, m \in Node : <<k, m>> # <<j, n>> =>
           cmd'[k][m] = cmd[k][m] /\ lease'[k][m] = lease[k][m]
  BY DEF TypeOK
<1>5. CommandLease(thr[j].left) \in Int
  BY <1>1, Times DEF CommandLease, Lesser
<1>6. LaunchInTime'
  BY DEF StaleInv, LaunchInTime, Active
<1>7. WithinBudget'
  BY DEF StaleInv, WithinBudget, Active
<1>8. WithinLease'
  <2> SUFFICES ASSUME NEW k \in Job, NEW m \in Node, Active(k), Running(k, m)'
               PROVE  job[k].age + lease'[k][m] <= LeaseEnd
    BY DEF WithinLease, Active
  <2>1. CASE <<k, m>> = <<j, n>>
    <3>1. job[j].age + thr[j].left <= StartDelay + JOB_BUDGET
      BY <1>2, <2>1 DEF StaleInv, WithinBudget
    <3> QED BY <1>1, <1>3, <1>4, <1>5, <2>1, <3>1, Times DEF LeaseEnd
  <2>2. CASE <<k, m>> # <<j, n>>
    BY <1>4, <2>2 DEF StaleInv, WithinLease, Running
  <2> QED BY <2>1, <2>2
<1>9. NothingAhead'
  BY <1>2, <1>4 DEF StaleInv, NothingAhead, Quiet, Running
<1> QED BY <1>6, <1>7, <1>8, <1>9 DEF StaleInv

(* Time is taken from what is left as it is added to the age.              *)
LEMMA TickStale ==
  ASSUME TypeOK, StaleInv, Tick
  PROVE  StaleInv'
<1>1. /\ job \in [Job -> JobRow] /\ thr \in [Job -> Thread]
      /\ cmd \in [Job -> [Node -> {"none", "running", "ok", "failed", "killed"}]]
      /\ web' = web /\ created' = created
  BY DEF TypeOK, Tick
<1>2. \A k \in Job : job'[k].active =>
        job[k].active /\ job'[k].age \in Int /\ job'[k].age <= job[k].age + 1
  <2>1. \A k \in Job : /\ job'[k].active = job[k].active
                       /\ job[k].active =>
                            job'[k].age = Lesser(job[k].age + 1, STALE_AFTER + 1)
    BY <1>1 DEF Tick, JobRow
  <2>2. \A a \in Nat : /\ Lesser(a + 1, STALE_AFTER + 1) \in Int
                       /\ Lesser(a + 1, STALE_AFTER + 1) <= a + 1
    BY Times DEF Lesser
  <2> QED BY <2>1, <2>2, Numbers
<1>3. \A k \in Job : thr'[k].left = IF thr[k].left > 0 THEN thr[k].left - 1 ELSE 0
  BY <1>1 DEF Tick, Thread
<1>4. \A k \in Job, n \in Node : cmd'[k][n] = "running" =>
        cmd[k][n] = "running" /\ lease[k][n] > 1 /\ lease'[k][n] = lease[k][n] - 1
  BY <1>1, Numbers DEF Tick
<1>5. LaunchInTime'
  <2> SUFFICES ASSUME NEW w \in Worker, web[w].pc = "reserved"
               PROVE  /\ web[w].job \in 1 .. created
                      /\ job'[web[w].job].active => job'[web[w].job].age <= StartDelay
    BY <1>1 DEF LaunchInTime, Active
  <2>1. web[w].job \in 1 .. created /\ web[w].job \in Job
    BY Numbers, Times DEF StaleInv, LaunchInTime, Job
  <2>2. job[web[w].job].active => job[web[w].job].age < StartDelay
    BY DEF Tick
  <2> QED BY <1>2, <2>1, <2>2, Numbers, Times
<1>6. WithinBudget'
  BY <1>2, <1>3, Numbers, Times DEF StaleInv, WithinBudget, Active
<1>7. WithinLease'
  BY <1>2, <1>4, Numbers, Times DEF StaleInv, WithinLease, Active, Running, LeaseEnd
<1>8. NothingAhead'
  BY <1>1, <1>3, <1>4 DEF StaleInv, NothingAhead, Quiet, Running
<1> QED BY <1>5, <1>6, <1>7, <1>8 DEF StaleInv

(* The ages, the times left and the leases add up in every state.          *)
LEMMA StaleAlways == Spec => []StaleInv
<1>1. Init => StaleInv
  <2> SUFFICES ASSUME Init PROVE StaleInv
    OBVIOUS
  <2>1. \A j \in Job : ~Active(j) /\ thr[j].left = 0 /\ Quiet(j)
    BY DEF Init, Active, Quiet, Running, NoRow, NoThread
  <2>2. \A w \in Worker : web[w].pc # "reserved"
    BY DEF Init, NoRequest
  <2> QED BY <2>1, <2>2 DEF StaleInv, LaunchInTime, WithinBudget, WithinLease,
                           NothingAhead
<1>2. TypeOK /\ StaleInv /\ [Next]_vars => StaleInv'
  <2> SUFFICES ASSUME TypeOK, StaleInv, [Next]_vars PROVE StaleInv'
    OBVIOUS
  <2>1. CASE Tick
    BY <2>1, TickStale
  <2>2. ASSUME NEW w \in Worker, WebStep(w) PROVE StaleInv'
    BY <2>2, ReserveStale, LaunchStale, WebGains, NothingGainedKeeps
  <2>3. ASSUME NEW j \in Job, ThreadStep(j) PROVE StaleInv'
    BY <2>3, SendStale, ThreadGains, NothingGainedKeeps
  <2>4. ASSUME NEW j \in Job, RemoteStep(j) PROVE StaleInv'
    BY <2>4, RemoteGains, NothingGainedKeeps
  <2>5. CASE UNCHANGED vars
    BY <2>5 DEF vars, StaleInv, LaunchInTime, WithinBudget, WithinLease,
                NothingAhead, Active, Running, Quiet
  <2> QED BY <2>1, <2>2, <2>3, <2>4, <2>5 DEF Next
<1> QED BY <1>1, <1>2, TypeCorrect, PTL DEF Spec

(***************************************************************************)
(* Whatever the number of workers, nodes and jobs and whatever the times,  *)
(* if StaleAssumption holds of them: a reservation that release_stale_jobs *)
(* may release has no command running and a thread that can send none.     *)
(***************************************************************************)
THEOREM StaleSafe == Spec => []StaleMeansQuiet
<1>1. TypeOK /\ StaleInv => StaleMeansQuiet
  <2> SUFFICES ASSUME TypeOK, StaleInv, NEW j \in Job,
                      Active(j), job[j].age > STALE_AFTER
               PROVE  Quiet(j) /\ thr[j].left <= Margin
    BY DEF StaleMeansQuiet
  <2>1. LeaseEnd <= STALE_AFTER
    BY StaleAssumption DEF StaleAssumption, LeaseEnd
  <2>2. Quiet(j)
    BY <2>1, Numbers, Times DEF Quiet, StaleInv, WithinLease, LeaseEnd
  <2>3. thr[j].left <= Margin
    BY <2>1, Numbers, Times DEF StaleInv, WithinBudget, LeaseEnd
  <2> QED BY <2>2, <2>3
<1> QED BY <1>1, TypeCorrect, StaleAlways, PTL

(***************************************************************************)
(* What a save, a future and an execution do to their thread               *)
(***************************************************************************)

(* A save leaves the thread where it wanted to go, ends it, stops it or    *)
(* sends it to an exception handler; each case has its reason.             *)
LEMMA AfterSaveCases ==
  ASSUME NEW j \in Job, NEW t, NEW p, NEW q, AfterSave(j, t, p, q)
  PROVE  \/ Goto(j, t) /\ Owned(j) /\ inv = thr[j].plan
         \/ EndThread(j) /\ p = "none"
         \/ Goto(j, [t EXCEPT !.pc = p]) /\ p # "none" /\ ~Owned(j)
         \/ Goto(j, [t EXCEPT !.pc = q])
              /\ (DbFaults \/ (Owned(j) /\ inv # thr[j].plan))
BY DEF AfterSave, Save

(* One snapshot: the thread ends, or only its view of node n has changed.  *)
ObservedAs(j, n, y) ==
  LET t == thr[j] IN
  /\ y \in Thread
  /\ y.left = t.left /\ y.plan = t.plan /\ y.targets = t.targets
  /\ y.todo = t.todo \ {n}
  /\ \/ y.pc = "handler" /\ (DbFaults \/ (Owned(j) /\ inv # t.plan))
     \/ y.pc = t.pc
     \/ t.pc = "preflight" /\ y.pc = "decide"
     \/ t.pc = "verify" /\ y.pc = "judge"
  /\ \/ /\ y.state = t.state
        /\ y.met = t.met \/ (y.met = t.met \cup {n} /\ Desired(j, n))
        /\ y.ok = t.ok \cup {n}
     \/ /\ y.ok = t.ok /\ y.met = t.met
        /\ y.state = [t.state EXCEPT ![n] = "fail"]

LEMMA ObserveEffect ==
  ASSUME TypeOK, NEW j \in Job, NEW n \in Node, Observe(j, n)
  PROVE  /\ thr[j].pc \in {"preflight", "verify"} /\ n \in thr[j].todo
         /\ EndThread(j) \/ \E y : ObservedAs(j, n, y) /\ Goto(j, y)
<1> DEFINE t == thr[j]
           next == IF t.todo # {n} THEN t.pc
                   ELSE IF t.pc = "preflight" THEN "decide" ELSE "judge"
           rest == [t EXCEPT !.todo = @ \ {n}, !.pc = next]
           good == [rest EXCEPT !.ok = @ \cup {n},
                           !.met = IF Desired(j, n) THEN @ \cup {n} ELSE @,
                           !.live = IF Picking(j) /\ world[n] THEN @ \cup {n} ELSE @]
           bad == [rest EXCEPT !.state[n] = "fail"]
           After(x) == \/ Goto(j, x) /\ Owned(j) /\ inv = t.plan
                       \/ EndThread(j)
                       \/ /\ Goto(j, [x EXCEPT !.pc = "handler"])
                          /\ (DbFaults \/ (Owned(j) /\ inv # t.plan))
<1>1. /\ t \in Thread /\ next \in ThreadPc /\ "handler" \in ThreadPc
      /\ t.pc \in {"preflight", "verify"} /\ n \in t.todo
  BY DEF TypeOK, Thread, ThreadPc, Observe
<1>2. rest \in Thread
  BY <1>1 DEF Thread
<1>3. AfterSave(j, good, "none", "handler") \/ AfterSave(j, bad, "none", "handler")
  BY DEF Observe
<1>4. After(good) \/ After(bad)
  BY <1>3, AfterSaveCases, Zenon
<1>5. /\ good \in Thread /\ good.pc = next
      /\ good.left = t.left /\ good.plan = t.plan /\ good.targets = t.targets
      /\ good.todo = t.todo \ {n} /\ good.state = t.state /\ good.ok = t.ok \cup {n}
      /\ good.met = t.met \/ (good.met = t.met \cup {n} /\ Desired(j, n))
  <2>1. /\ rest.ok \cup {n} \in SUBSET Node
        /\ rest.met \cup {n} \in SUBSET Node /\ rest.met \in SUBSET Node
        /\ rest.live \cup {n} \in SUBSET Node /\ rest.live \in SUBSET Node
    BY <1>2 DEF Thread
  <2>2. /\ rest.pc = next /\ rest.left = t.left /\ rest.plan = t.plan
        /\ rest.targets = t.targets /\ rest.todo = t.todo \ {n}
        /\ rest.state = t.state /\ rest.ok = t.ok /\ rest.met = t.met
    BY <1>1 DEF Thread
  <2> DEFINE o == rest.ok \cup {n}
             m == IF Desired(j, n) THEN rest.met \cup {n} ELSE rest.met
             l == IF Picking(j) /\ world[n] THEN rest.live \cup {n} ELSE rest.live
  <2>3. good = [rest EXCEPT !.ok = o, !.met = m, !.live = l]
    OBVIOUS
  <2>4. /\ o \in SUBSET Node /\ m \in SUBSET Node /\ l \in SUBSET Node
        /\ o = rest.ok \cup {n}
        /\ m = rest.met \/ (m = rest.met \cup {n} /\ Desired(j, n))
    BY <2>1
  <2> HIDE DEF rest, next, good, o, m, l
  <2>5. /\ good \in Thread /\ good.pc = rest.pc /\ good.left = rest.left
        /\ good.plan = rest.plan /\ good.targets = rest.targets
        /\ good.todo = rest.todo /\ good.state = rest.state
        /\ good.ok = o /\ good.met = m
    BY <1>2, <2>3, <2>4 DEF Thread
  <2> QED BY <2>2, <2>4, <2>5
<1>6. /\ bad \in Thread /\ bad.pc = next
      /\ bad.left = t.left /\ bad.plan = t.plan /\ bad.targets = t.targets
      /\ bad.todo = t.todo \ {n} /\ bad.ok = t.ok /\ bad.met = t.met
      /\ bad.state = [t.state EXCEPT ![n] = "fail"]
  BY <1>1, <1>2 DEF Thread, Marks
<1>7. \A x \in Thread : LET y == [x EXCEPT !.pc = "handler"] IN
        /\ y \in Thread /\ y.pc = "handler" /\ y.left = x.left /\ y.plan = x.plan
        /\ y.targets = x.targets /\ y.todo = x.todo /\ y.state = x.state
        /\ y.ok = x.ok /\ y.met = x.met
  BY <1>1 DEF Thread
<1>8. \/ next = t.pc \/ (t.pc = "preflight" /\ next = "decide")
      \/ (t.pc = "verify" /\ next = "judge")
  BY <1>1
<1> HIDE DEF good, bad, next, rest
<1>9. ASSUME After(good) PROVE EndThread(j) \/ \E y : ObservedAs(j, n, y) /\ Goto(j, y)
  <2>1. ObservedAs(j, n, good)
    BY <1>5, <1>8 DEF ObservedAs
  <2>2. (DbFaults \/ (Owned(j) /\ inv # t.plan)) => ObservedAs(j, n, [good EXCEPT !.pc = "handler"])
    BY <1>5, <1>7 DEF ObservedAs
  <2> QED BY <1>9, <2>1, <2>2
<1>10. ASSUME After(bad) PROVE EndThread(j) \/ \E y : ObservedAs(j, n, y) /\ Goto(j, y)
  <2>1. ObservedAs(j, n, bad)
    BY <1>6, <1>8 DEF ObservedAs
  <2>2. (DbFaults \/ (Owned(j) /\ inv # t.plan)) => ObservedAs(j, n, [bad EXCEPT !.pc = "handler"])
    BY <1>6, <1>7 DEF ObservedAs
  <2> QED BY <1>10, <2>1, <2>2
<1> QED BY <1>1, <1>4, <1>9, <1>10

(* The commands are chosen: the snapshots are forgotten and the thread     *)
(* sends to some of the targets, or verifies.                              *)
ExecutedAs(j, targets, y) ==
  LET t == thr[j] IN
  /\ y \in Thread
  /\ y.left = t.left /\ y.plan = t.plan /\ y.targets = targets
  /\ y.ok = {} /\ y.met = {} /\ y.state = t.state
  /\ \/ y.pc = "handler" /\ (DbFaults \/ (Owned(j) /\ inv # t.plan))
     \/ y.pc = "verify"
     \/ y.pc = "execute" /\ y.todo \subseteq targets

LEMMA ExecuteEffect ==
  ASSUME TypeOK, NEW j \in Job, NEW targets \in SUBSET Node, NEW met,
         Execute(j, targets, met)
  PROVE  EndThread(j) \/ \E y : ExecutedAs(j, targets, y) /\ Goto(j, y)
<1> DEFINE send == targets \ met
           x == [Forget(thr[j]) EXCEPT !.targets = targets,
                         !.todo = IF send = {} THEN Node ELSE send,
                         !.pc = IF send = {} THEN "verify" ELSE "execute"]
           z == [x EXCEPT !.pc = "handler"]
<1>1. thr[j] \in Thread /\ {"verify", "execute", "handler"} \subseteq ThreadPc
  BY DEF TypeOK, ThreadPc
<1>2. /\ Forget(thr[j]) \in Thread
      /\ Forget(thr[j]).left = thr[j].left /\ Forget(thr[j]).plan = thr[j].plan
      /\ Forget(thr[j]).ok = {} /\ Forget(thr[j]).met = {}
      /\ Forget(thr[j]).state = thr[j].state
  BY <1>1, ThreadTypes DEF Forget, Thread
<1>3. /\ x \in Thread /\ x.left = thr[j].left /\ x.plan = thr[j].plan
      /\ x.targets = targets /\ x.ok = {} /\ x.met = {} /\ x.state = thr[j].state
      /\ x.pc = "verify" \/ (x.pc = "execute" /\ x.todo \subseteq targets)
  BY <1>1, <1>2 DEF Thread
<1>4. /\ z \in Thread /\ z.left = x.left /\ z.plan = x.plan
      /\ z.targets = x.targets /\ z.ok = x.ok /\ z.met = x.met /\ z.state = x.state
      /\ z.pc = "handler"
  BY <1>1, <1>3 DEF Thread
<1>5. AfterSave(j, x, "none", "handler")
  BY DEF Execute
<1> HIDE DEF x
<1>6. \/ Goto(j, x) \/ EndThread(j)
      \/ Goto(j, z) /\ (DbFaults \/ (Owned(j) /\ inv # thr[j].plan))
  BY <1>5, AfterSaveCases, Zenon
<1> HIDE DEF z
<1>7. ExecutedAs(j, targets, x)
  BY <1>3 DEF ExecutedAs
<1>8. DbFaults \/ (Owned(j) /\ inv # thr[j].plan) => ExecutedAs(j, targets, z)
  BY <1>3, <1>4 DEF ExecutedAs
<1> QED BY <1>6, <1>7, <1>8

(* A future of the execution: its node has a result, the others wait.      *)
ReturnedAs(j, n, c, y) ==
  LET t == thr[j]
      lost == DbFaults \/ (Owned(j) /\ inv # t.plan)
  IN
  /\ y \in Thread
  /\ y.left = t.left /\ y.plan = t.plan /\ y.targets = t.targets
  /\ y.ok = t.ok /\ y.met = t.met
  /\ y.state = [t.state EXCEPT ![n] = ExitState(c)]
  /\ \/ y.pc = "handler" /\ lost
     \/ y.pc = "verify" /\ t.todo = {n}
     \/ y.pc \in {"execute", "drainStop"} /\ y.todo = t.todo \ {n}
     \/ y.pc = "drainError" /\ y.todo = t.todo \ {n} /\ lost

LEMMA ReturnEffect ==
  ASSUME TypeOK, NEW j \in Job, NEW n \in Node, NEW c, Return(j, n, c)
  PROVE  EndThread(j) \/ \E y : ReturnedAs(j, n, c, y) /\ Goto(j, y)
<1> DEFINE t == thr[j]
           last == t.todo = {n}
           got == [t EXCEPT !.state[n] = ExitState(c),
                       !.todo = IF last THEN Node ELSE @ \ {n},
                       !.pc = IF last THEN "verify" ELSE @]
           rest == [got EXCEPT !.todo = @ \ {n}]
           lost == DbFaults \/ (Owned(j) /\ inv # t.plan)
           Like(x) == /\ x \in Thread /\ x.left = t.left /\ x.plan = t.plan
                      /\ x.targets = t.targets /\ x.ok = t.ok /\ x.met = t.met
                      /\ x.state = [t.state EXCEPT ![n] = ExitState(c)]
<1>1. t \in Thread /\ t.pc = "execute" /\ n \in t.todo
  BY DEF TypeOK, Return, At
<1>2. ExitState(c) \in Marks
  BY DEF ExitState, Marks
<1>3. Like(got) /\ got.pc = (IF last THEN "verify" ELSE "execute")
      /\ got.todo = IF last THEN Node ELSE t.todo \ {n}
  BY <1>1, <1>2 DEF Thread, ThreadPc
<1>4. ~last => Like(rest) /\ rest.pc = "execute" /\ rest.todo = t.todo \ {n}
  BY <1>1, <1>3 DEF Thread
<1>5. /\ last => AfterSave(j, got, "none", "handler")
      /\ ~last => AfterSave(j, rest, "drainStop", "drainError")
  BY DEF Return
<1>6. \A x, p : Like(x) /\ p \in ThreadPc =>
        /\ Like([x EXCEPT !.pc = p]) /\ [x EXCEPT !.pc = p].pc = p
        /\ [x EXCEPT !.pc = p].todo = x.todo
  BY <1>1 DEF Thread
<1>7. {"handler", "drainStop", "drainError"} \subseteq ThreadPc
  BY DEF ThreadPc
<1> HIDE DEF got, rest
<1>8. CASE last
  <2>1. Goto(j, got) \/ EndThread(j) \/ (Goto(j, [got EXCEPT !.pc = "handler"]) /\ lost)
    BY <1>5, <1>8, AfterSaveCases, Zenon
  <2>2. ReturnedAs(j, n, c, got)
    BY <1>3, <1>8 DEF ReturnedAs
  <2>3. lost => ReturnedAs(j, n, c, [got EXCEPT !.pc = "handler"])
    BY <1>3, <1>6, <1>7 DEF ReturnedAs
  <2> QED BY <2>1, <2>2, <2>3
<1>9. CASE ~last
  <2>1. \/ Goto(j, rest) \/ Goto(j, [rest EXCEPT !.pc = "drainStop"])
        \/ Goto(j, [rest EXCEPT !.pc = "drainError"]) /\ lost
    <3>1. "drainStop" # "none"
      OBVIOUS
    <3> QED BY <1>5, <1>9, <3>1, AfterSaveCases, Zenon
  <2>2. ReturnedAs(j, n, c, rest)
    BY <1>4, <1>9 DEF ReturnedAs
  <2>3. ReturnedAs(j, n, c, [rest EXCEPT !.pc = "drainStop"])
    BY <1>4, <1>6, <1>7, <1>9 DEF ReturnedAs
  <2>4. lost => ReturnedAs(j, n, c, [rest EXCEPT !.pc = "drainError"])
    BY <1>4, <1>6, <1>7, <1>9 DEF ReturnedAs
  <2> QED BY <2>1, <2>2, <2>3, <2>4
<1> QED BY <1>8, <1>9

(***************************************************************************)
(* Rows, reservations, threads and commands                                *)
(*                                                                         *)
(* JobInv relates the four places a job lives in.  At most the last row is *)
(* active; a reserved request has neither thread nor command; a thread     *)
(* that has reached no decision has sent nothing; and once every future    *)
(* has been read, a command still running was lost and its node is marked. *)
(***************************************************************************)

RowInv(j) ==
  /\ Active(j) <=> job[j].status \in {"queued", "running"}
  /\ j > created <=> job[j].status = "absent"
  /\ Active(j) => j = created

ThreadInv(j) ==
  /\ thr[j].pc = "none" => thr[j].left = 0 /\ thr[j].met = {}
  /\ thr[j].pc # "none" => job[j].status \in {"queued", "running", "unknown", "deleted"}
  /\ Executing(j) => job[j].action \in Mutation
  /\ thr[j].pc \in {"execute", "verify", "judge"} /\ job[j].action \in NodeAction =>
       thr[j].targets # {}
  /\ thr[j].pc = "execute" => thr[j].ok = {}
  /\ thr[j].pc \in {"verify", "judge"} => thr[j].ok \cap thr[j].todo = {}

(* A command nobody waits for: its node is marked, and stays unread if the *)
(* mark was overwritten.                                                   *)
LostCommand(j, n) ==
  /\ n \in thr[j].targets
  /\ \/ thr[j].state[n] \in {"unknown", "closed"}
     \/ thr[j].state[n] = "fail" /\ n \notin thr[j].ok /\ n \notin thr[j].todo

CmdInv(j) ==
  /\ job[j].status = "absent" \/ thr[j].pc \in {"begin", "preflight", "decide"} =>
       \A n \in Node : cmd[j][n] = "none"
  /\ thr[j].pc = "execute" =>
       /\ thr[j].todo \subseteq thr[j].targets
       /\ \A n \in Node : Running(j, n) =>
            n \in thr[j].targets /\ (n \in thr[j].todo \/ thr[j].state[n] \in {"unknown", "closed"})
  /\ thr[j].pc \in {"verify", "judge"} => \A n \in Node : Running(j, n) => LostCommand(j, n)
  /\ job[j].status = "pass" => Quiet(j)

OwnInv(j) == RowInv(j) /\ ThreadInv(j) /\ CmdInv(j)

ReservedInv ==
  /\ \A w \in Worker : web[w].pc = "reserved" =>
       /\ web[w].job \in 1 .. created
       /\ thr[web[w].job].pc = "none"
       /\ \A n \in Node : cmd[web[w].job][n] = "none"
       /\ job[web[w].job].status \in {"queued", "unknown", "deleted"}
  /\ \A v, w \in Worker : web[v].pc = "reserved" /\ web[w].pc = "reserved"
                            /\ web[v].job = web[w].job => v = w

JobInv == ReservedInv /\ \A j \in Job : OwnInv(j)

(* A step of one job: every other job keeps its row, thread and commands.  *)
OnlyJob(j) ==
  /\ web' = web /\ created' = created
  /\ \A k \in Job : k # j => job'[k] = job[k] /\ thr'[k] = thr[k] /\ cmd'[k] = cmd[k]

(* A thread step, or the end of a command, of one job keeps JobInv if the  *)
(* job keeps its own part: no request has this job reserved.               *)
LEMMA OnlyJobKeeps ==
  ASSUME TypeOK, JobInv, NEW j \in Job, OnlyJob(j), ~Reserved(j), OwnInv(j)'
  PROVE  JobInv'
<1>1. ASSUME NEW k \in Job, k # j PROVE OwnInv(k)'
  <2>1. /\ job'[k] = job[k] /\ thr'[k] = thr[k] /\ cmd'[k] = cmd[k]
        /\ created' = created
    BY <1>1 DEF OnlyJob
  <2>2. OwnInv(k)
    BY DEF JobInv
  <2> QED BY <2>1, <2>2 DEF OwnInv, RowInv, ThreadInv, CmdInv, LostCommand, Active,
                            Executing, Running, Quiet
<1>2. ReservedInv'
  <2>1. \A w \in Worker : web[w].pc = "reserved" => web[w].job \in Job /\ web[w].job # j
    BY Numbers, Times DEF JobInv, ReservedInv, Reserved, Job
  <2> QED BY <2>1 DEF OnlyJob, JobInv, ReservedInv
<1> QED BY <1>1, <1>2 DEF JobInv

(* A job with a thread or a command is not reserved.                       *)
LEMMA NotReserved ==
  ASSUME JobInv, NEW j \in Job,
         thr[j].pc # "none" \/ (\E n \in Node : cmd[j][n] # "none")
  PROVE  ~Reserved(j)
BY DEF JobInv, ReservedInv, Reserved

(* The end of a thread, and the way into its exception handler.            *)
LEMMA EndKeeps ==
  ASSUME TypeOK, JobInv, NEW j \in Job, thr[j].pc # "none", EndThread(j),
         job' = job, web' = web, created' = created,
         \A k \in Job : k # j => cmd'[k] = cmd[k],
         \A n \in Node : cmd'[j][n] \in {"none", cmd[j][n]}
  PROVE  JobInv'
<1>1. thr \in [Job -> Thread] /\ cmd[j] \in [Node -> {"none", "running", "ok", "failed", "killed"}]
  BY DEF TypeOK
<1>2. thr' = [thr EXCEPT ![j] = NoThread] /\ thr'[j] = NoThread
  BY <1>1 DEF EndThread
<1>3. NoThread.pc = "none" /\ NoThread.left = 0 /\ NoThread.met = {}
  BY DEF NoThread
<1>4. OwnInv(j)
  BY DEF JobInv
<1>5. OwnInv(j)'
  BY <1>2, <1>3, <1>4 DEF OwnInv, RowInv, ThreadInv, CmdInv, Active, Executing,
                          Running, Quiet
<1> QED BY <1>1, <1>2, <1>5, OnlyJobKeeps, NotReserved DEF OnlyJob

(* A thread that changes its own record only, keeping what it has sent.    *)
LEMMA GotoKeeps ==
  ASSUME TypeOK, JobInv, NEW j \in Job, thr[j].pc # "none", NEW y, Goto(j, y),
         y.pc # "none", job' = job, web' = web, created' = created, cmd' = cmd,
         y.pc \in {"execute", "drainStop", "drainError"} => job[j].action \in Mutation,
         y.pc \in {"execute", "verify", "judge"} /\ job[j].action \in NodeAction =>
            y.targets # {},
         y.pc = "execute" => y.ok = {},
         y.pc \in {"verify", "judge"} => y.ok \cap y.todo = {},
         y.pc \in {"begin", "preflight", "decide"} => \A n \in Node : cmd[j][n] = "none",
         y.pc = "execute" => /\ y.todo \subseteq y.targets
                             /\ \A n \in Node : Running(j, n) => n \in y.targets
                                   /\ (n \in y.todo \/ y.state[n] \in {"unknown", "closed"}),
         y.pc \in {"verify", "judge"} => \A n \in Node : Running(j, n) =>
            /\ n \in y.targets
            /\ \/ y.state[n] \in {"unknown", "closed"}
               \/ y.state[n] = "fail" /\ n \notin y.ok /\ n \notin y.todo
  PROVE  JobInv'
<1>1. thr \in [Job -> Thread]
  BY DEF TypeOK
<1>2. thr' = [thr EXCEPT ![j] = y] /\ thr'[j] = y
  BY <1>1 DEF Goto
<1>4. OwnInv(j)
  BY DEF JobInv
<1>5. OwnInv(j)'
  BY <1>2, <1>4 DEF OwnInv, RowInv, ThreadInv, CmdInv, Active, Executing,
                          Running, Quiet, LostCommand
<1> QED BY <1>1, <1>2, <1>5, OnlyJobKeeps, NotReserved DEF OnlyJob

(* The last save: the row is closed and the thread ends, or it stays.      *)
LEMMA FinishKeeps ==
  ASSUME TypeOK, JobInv, NEW j \in Job, thr[j].pc # "none",
         NEW s \in {"pass", "fail", "unknown"}, s = "pass" => Quiet(j),
         Finish(j, s), web' = web, created' = created, cmd' = cmd
  PROVE  JobInv'
<1>0. job[j] \in JobRow /\ thr[j] \in Thread /\ job \in [Job -> JobRow]
      /\ thr \in [Job -> Thread]
  BY DEF TypeOK
<1>1. CASE Save(j, "ok") /\ job' = [job EXCEPT ![j] = Closed(@, s)] /\ EndThread(j)
  <2>1. /\ job'[j].status = s /\ job'[j].active = FALSE
        /\ job'[j].action = job[j].action
    BY <1>0, <1>1 DEF Closed, JobRow
  <2>2. thr'[j].pc = "none" /\ thr'[j].left = 0 /\ thr'[j].met = {}
    BY <1>0, <1>1 DEF EndThread, NoThread
  <2>3. Active(j)
    BY <1>1 DEF Save, Owned
  <2>4. OwnInv(j)
    BY DEF JobInv
  <2>5. OwnInv(j)'
    BY <2>1, <2>2, <2>3, <2>4 DEF OwnInv, RowInv, ThreadInv, CmdInv, Active,
                                  Executing, Running, Quiet
  <2>6. OnlyJob(j)
    BY <1>0, <1>1 DEF OnlyJob, EndThread
  <2> QED BY <2>5, <2>6, OnlyJobKeeps, NotReserved
<1>2. CASE EndThread(j) /\ UNCHANGED job
  BY <1>2, EndKeeps
<1>3. CASE Goto(j, [thr[j] EXCEPT !.pc = "handler"]) /\ UNCHANGED job
  <2>1. [thr[j] EXCEPT !.pc = "handler"].pc = "handler"
    BY <1>0 DEF Thread
  <2> QED BY <1>3, <2>1, GotoKeeps
<1> QED BY <1>1, <1>2, <1>3 DEF Finish

(* The final state of a node whose command still runs is fail, because its *)
(* channel closed without an exit status, or unknown.                      *)
LEMMA RunningIsMarked ==
  ASSUME TypeOK, JobInv, NEW j \in Job, thr[j].pc = "judge",
         NEW n \in Node, Running(j, n)
  PROVE  \/ FinalState(j, n) = "unknown"
         \/ FinalState(j, n) = "fail" /\ thr[j].state[n] = "closed"
<1>1. LostCommand(j, n)
  BY DEF JobInv, OwnInv, CmdInv
<1> QED BY <1>1 DEF FinalState, LostCommand

(* A final status of pass is that of a job with no command running.        *)
LEMMA PassIsQuiet ==
  ASSUME TypeOK, JobInv, NEW j \in Job, thr[j].pc = "judge",
         FinalStatus(j) = "pass"
  PROVE  Quiet(j)
BY RunningIsMarked DEF Quiet, FinalStatus

LEMMA FinalStatusPass ==
  ASSUME NEW j \in Job, FinalStatus(j) = "pass", TypeOK
  PROVE  \A n \in Node : FinalState(j, n) = "pass"
<1>1. \A n \in Node : FinalState(j, n) \in {"pass", "fail", "unknown"}
  <2>1. thr[j].state \in [Node -> Marks]
    BY DEF TypeOK, Thread
  <2> QED BY <2>1 DEF FinalState
<1> QED BY <1>1 DEF FinalStatus

(* Which thread steps keep JobInv: all of them.                            *)
LEMMA ThreadKeepsJobInv ==
  ASSUME TypeOK, JobInv, NEW j \in Job, ThreadStep(j)
  PROVE  JobInv'
<1> USE DEF rowVars, remoteVars
<1>0. /\ thr[j] \in Thread /\ job[j] \in JobRow /\ thr \in [Job -> Thread]
      /\ job \in [Job -> JobRow]
      /\ cmd \in [Job -> [Node -> {"none", "running", "ok", "failed", "killed"}]]
  BY DEF TypeOK
<1>o. OwnInv(j)
  BY DEF JobInv
<1>1. CASE Begin(j)
  <2> DEFINE x == [thr[j] EXCEPT !.pc = "preflight", !.todo = Node]
  <2>1. /\ x.pc = "preflight" /\ [x EXCEPT !.pc = "handler"].pc = "handler"
    BY <1>0 DEF Thread
  <2>2. thr[j].pc = "begin" /\ \A n \in Node : cmd[j][n] = "none"
    BY <1>1, <1>o DEF Begin, At, OwnInv, CmdInv
  <2>3. AfterSave(j, x, "none", "handler") /\ web' = web /\ created' = created /\ cmd' = cmd
        /\ job' = IF thr'[j].pc = "preflight" THEN [job EXCEPT ![j].status = "running"] ELSE job
    BY <1>1 DEF Begin
  <2> HIDE DEF x
  <2>4. CASE Goto(j, x) /\ Owned(j)
    <3>1. thr' = [thr EXCEPT ![j] = x] /\ thr'[j] = x
      BY <1>0, <2>4 DEF Goto
    <3>2. /\ job'[j].status = "running" /\ job'[j].active = job[j].active
          /\ job'[j].action = job[j].action
          /\ \A k \in Job : k # j => job'[k] = job[k] /\ thr'[k] = thr[k]
      BY <1>0, <2>1, <2>3, <3>1 DEF JobRow
    <3>3. Active(j)
      BY <2>4 DEF Owned
    <3>4. OwnInv(j)'
      BY <1>o, <2>1, <2>2, <2>3, <3>1, <3>2, <3>3 DEF OwnInv, RowInv, ThreadInv,
           CmdInv, Active, Executing, Running, Quiet
    <3> QED BY <2>2, <2>3, <3>2, <3>4, OnlyJobKeeps, NotReserved DEF OnlyJob
  <2>5. CASE EndThread(j)
    <3>1. thr'[j].pc = "none"
      BY <1>0, <2>5 DEF EndThread, NoThread
    <3> QED BY <1>0, <2>2, <2>3, <2>5, <3>1, EndKeeps
  <2>6. CASE Goto(j, [x EXCEPT !.pc = "handler"])
    <3>1. thr'[j].pc = "handler"
      BY <1>0, <2>1, <2>6 DEF Goto
    <3> QED BY <2>1, <2>2, <2>3, <2>6, <3>1, GotoKeeps
  <2> QED BY <2>3, <2>4, <2>5, <2>6, AfterSaveCases, Zenon
<1>2. CASE DecideFinish(j)
  <2>1. Quiet(j) /\ thr[j].pc = "decide"
    BY <1>2, <1>o DEF DecideFinish, At, OwnInv, CmdInv, Quiet, Running
  <2>2. PICK s \in {"pass", "fail"} : Finish(j, s)
    BY <1>2 DEF DecideFinish
  <2>3. web' = web /\ created' = created /\ cmd' = cmd
    BY <1>2 DEF DecideFinish
  <2> QED BY <2>1, <2>2, <2>3, FinishKeeps
<1>3. ASSUME NEW targets \in SUBSET Node, NEW met, Execute(j, targets, met),
             thr[j].pc = "decide", job[j].action \in Mutation,
             job[j].action \in NodeAction => targets # {},
             job' = job, web' = web, created' = created, cmd' = cmd
      PROVE  JobInv'
  <2>1. \A n \in Node : cmd[j][n] = "none"
    BY <1>3, <1>o DEF OwnInv, CmdInv
  <2>2. CASE EndThread(j)
    BY <1>0, <1>3, <2>2, EndKeeps
  <2>3. ASSUME NEW y, ExecutedAs(j, targets, y), Goto(j, y) PROVE JobInv'
    BY <1>3, <2>1, <2>3, GotoKeeps DEF ExecutedAs, Running
  <2> QED BY <1>3, <2>2, <2>3, ExecuteEffect
<1>4. CASE DecideAll(j)
  BY <1>3, <1>4 DEF DecideAll, At
<1>5. CASE DecideRaise(j)
  <2>1. [thr[j] EXCEPT !.pc = "handler"].pc = "handler"
    BY <1>0 DEF Thread
  <2> QED BY <1>5, <2>1, GotoKeeps DEF DecideRaise, At
<1>6. CASE Again(j)
  <2> DEFINE x == [Forget(thr[j]) EXCEPT !.pc = "verify", !.todo = Node]
  <2>1. /\ Forget(thr[j]) \in Thread /\ Forget(thr[j]).targets = thr[j].targets
        /\ Forget(thr[j]).state = thr[j].state /\ Forget(thr[j]).ok = {}
    BY <1>0, ThreadTypes DEF Forget, Thread
  <2>2. /\ x.pc = "verify" /\ x.targets = thr[j].targets /\ x.state = thr[j].state
        /\ x.ok = {} /\ [x EXCEPT !.pc = "handler"].pc = "handler"
    BY <2>1 DEF Thread
  <2>3. AfterSave(j, x, "none", "handler") /\ thr[j].pc = "judge"
        /\ web' = web /\ created' = created /\ cmd' = cmd /\ job' = job /\ ~Troubled(j)
    BY <1>6 DEF Again, At
  <2> HIDE DEF x
  <2>4. \A n \in Node : ~Running(j, n)
    <3>1. \A n \in Node : Running(j, n) => LostCommand(j, n)
      BY <1>o, <2>3 DEF OwnInv, CmdInv
    <3>2. \A n \in thr[j].targets : thr[j].state[n] = "pending"
      BY <2>3 DEF Troubled
    <3> QED BY <3>1, <3>2 DEF LostCommand
  <2>5. CASE Goto(j, x)
    <3>1. job[j].action \in NodeAction => x.targets # {}
      BY <1>o, <2>2, <2>3 DEF OwnInv, ThreadInv
    <3> QED BY <2>2, <2>3, <2>4, <2>5, <3>1, GotoKeeps
  <2>6. CASE EndThread(j)
    BY <1>0, <2>3, <2>6, EndKeeps
  <2>7. CASE Goto(j, [x EXCEPT !.pc = "handler"])
    BY <2>2, <2>3, <2>7, GotoKeeps
  <2> QED BY <2>3, <2>5, <2>6, <2>7, AfterSaveCases, Zenon
<1>7. CASE Judge(j)
  <2>1. FinalStatus(j) \in {"pass", "fail", "unknown"} /\ thr[j].pc = "judge"
    BY <1>7 DEF FinalStatus, Judge, At
  <2>2. FinalStatus(j) = "pass" => Quiet(j)
    BY <2>1, PassIsQuiet
  <2> QED BY <1>7, <2>1, <2>2, FinishKeeps DEF Judge
<1>8. CASE Handler(j)
  <2>1. thr'[j].pc = "none" /\ thr'[j].left = 0 /\ thr'[j].met = {}
        /\ thr[j].pc = "handler" /\ web' = web /\ created' = created /\ cmd' = cmd
        /\ \A k \in Job : k # j => thr'[k] = thr[k]
    BY <1>0, <1>8 DEF Handler, EndThread, NoThread, At
  <2>2. PICK row \in {job[j], Closed(job[j], "fail"), Rewritten(job[j], "unknown")} :
          job' = [job EXCEPT ![j] = row]
    BY <1>0, <1>8 DEF Handler
  <2>3. job'[j] = row /\ \A k \in Job : k # j => job'[k] = job[k]
    BY <1>0, <2>2
  <2>4. /\ row = job[j] \/ (row.active = FALSE /\ row.status \in {"fail", "unknown"})
        /\ row.action = job[j].action
    BY <1>0, <2>2 DEF Closed, Rewritten, JobRow
  <2>5. job[j].status # "absent"
    BY <1>o, <2>1 DEF OwnInv, ThreadInv
  <2>6. OwnInv(j)'
    BY <1>o, <2>1, <2>3, <2>4, <2>5 DEF OwnInv, RowInv, ThreadInv, CmdInv,
         Active, Executing, Running, Quiet
  <2> QED BY <2>1, <2>3, <2>6, OnlyJobKeeps, NotReserved DEF OnlyJob
<1>9. ASSUME NEW n \in Node, NodeStep(j, n) PROVE JobInv'
  <2>1. CASE Observe(j, n)
    <3>1. thr[j].pc \in {"preflight", "verify"} /\ n \in thr[j].todo
      BY <2>1 DEF Observe
    <3>2. job' = job /\ web' = web /\ created' = created /\ cmd' = cmd
      BY <2>1 DEF Observe
    <3>3. CASE EndThread(j)
      BY <1>0, <3>1, <3>2, <3>3, EndKeeps
    <3>4. ASSUME NEW y, ObservedAs(j, n, y), Goto(j, y) PROVE JobInv'
      <4>1. /\ y.targets = thr[j].targets /\ y.todo = thr[j].todo \ {n}
            /\ y.pc \in {"handler", "preflight", "decide", "verify", "judge"}
            /\ y.pc \in {"verify", "judge"} => thr[j].pc = "verify"
            /\ y.pc \in {"preflight", "decide"} => thr[j].pc = "preflight"
        BY <3>1, <3>4 DEF ObservedAs
      <4>2. ASSUME y.pc \in {"verify", "judge"}, NEW m \in Node, Running(j, m)
            PROVE  /\ m \in y.targets
                   /\ \/ y.state[m] \in {"unknown", "closed"}
                      \/ y.state[m] = "fail" /\ m \notin y.ok /\ m \notin y.todo
        <5>1. LostCommand(j, m)
          BY <1>o, <4>1, <4>2 DEF OwnInv, CmdInv
        <5>2. thr[j].state \in [Node -> Marks]
          BY <1>0 DEF Thread
        <5>3. CASE y.state = thr[j].state /\ y.ok = thr[j].ok \cup {n}
          BY <3>1, <4>1, <5>1, <5>3 DEF LostCommand
        <5>4. CASE y.ok = thr[j].ok /\ y.state = [thr[j].state EXCEPT ![n] = "fail"]
          <6>1. CASE m = n
            <7>1. n \notin thr[j].ok
              BY <1>o, <3>1, <4>1, <4>2 DEF OwnInv, ThreadInv
            <7> QED BY <3>1, <4>1, <5>1, <5>2, <5>4, <6>1, <7>1 DEF LostCommand
          <6>2. CASE m # n
            BY <4>1, <5>1, <5>2, <5>4, <6>2 DEF LostCommand
          <6> QED BY <6>1, <6>2
        <5> QED BY <3>4, <5>3, <5>4 DEF ObservedAs
      <4>3. y.pc \in {"preflight", "decide"} => \A m \in Node : cmd[j][m] = "none"
        BY <1>o, <4>1 DEF OwnInv, CmdInv
      <4>4. y.pc \in {"verify", "judge"} /\ job[j].action \in NodeAction => y.targets # {}
        BY <1>o, <4>1 DEF OwnInv, ThreadInv
      <4>5. y.pc \in {"verify", "judge"} => y.ok \cap y.todo = {}
        BY <1>o, <3>4, <4>1 DEF OwnInv, ThreadInv, ObservedAs
      <4> QED BY <3>1, <3>2, <3>4, <4>1, <4>2, <4>3, <4>4, <4>5, GotoKeeps
    <3> QED BY <2>1, <3>3, <3>4, ObserveEffect
  <2>2. CASE DecideOne(j, n)
    <3>1. job[j].action \in Mutation
      BY <2>2 DEF DecideOne, Mutation
    <3> QED BY <1>3, <2>2, <3>1 DEF DecideOne, At
  <2>3. CASE Send(j, n)
    <3>1. /\ job' = job /\ web' = web /\ created' = created /\ thr' = thr
          /\ cmd' = [cmd EXCEPT ![j][n] = "running"]
          /\ thr[j].pc \in {"execute", "drainStop", "drainError"} /\ n \in thr[j].todo
      BY <2>3 DEF Send, Executing
    <3>2. \A m \in Node : cmd'[j][m] = IF m = n THEN "running" ELSE cmd[j][m]
      BY <1>0, <3>1
    <3>3. job[j].status \notin {"absent", "pass"}
      BY <1>o, <3>1 DEF OwnInv, ThreadInv
    <3>4. OwnInv(j)'
      BY <1>o, <3>1, <3>2, <3>3 DEF OwnInv, RowInv, ThreadInv, CmdInv,
           Active, Executing, Running, Quiet
    <3> QED BY <1>0, <3>1, <3>4, OnlyJobKeeps, NotReserved DEF OnlyJob
  <2>4. CASE Drain(j, n)
    <3>1. /\ job' = job /\ web' = web /\ created' = created
          /\ thr[j].pc \in {"drainStop", "drainError"} /\ n \in thr[j].todo
          /\ cmd' = [cmd EXCEPT ![j][n] = Dropped(@)]
      BY <2>4 DEF Drain
    <3>2. /\ \A k \in Job : k # j => cmd'[k] = cmd[k]
          /\ \A m \in Node : cmd'[j][m] \in {"none", cmd[j][m]}
      BY <1>0, <3>1 DEF Dropped
    <3>3. CASE EndThread(j)
      BY <3>1, <3>2, <3>3, EndKeeps
    <3>4. CASE \/ Goto(j, [thr[j] EXCEPT !.todo = @ \ {n}])
               \/ Goto(j, [thr[j] EXCEPT !.todo = {}, !.pc = "handler"])
      <4>1. thr'[j].pc \in {"drainStop", "drainError", "handler"}
            /\ (thr'[j].pc # "handler" => thr[j].pc = thr'[j].pc)
            /\ \A k \in Job : k # j => thr'[k] = thr[k]
        <5>1. \/ thr'[j] = [thr[j] EXCEPT !.todo = @ \ {n}]
              \/ thr'[j] = [thr[j] EXCEPT !.todo = {}, !.pc = "handler"]
          BY <1>0, <3>4 DEF Goto
        <5>2. thr[j] \in Thread
          BY <1>0
        <5> QED BY <1>0, <3>1, <3>4, <5>1, <5>2 DEF Goto, Thread
      <4>2. OwnInv(j)'
        BY <1>o, <3>1, <3>2, <4>1 DEF OwnInv, RowInv, ThreadInv, CmdInv,
             Active, Executing, Running, Quiet
      <4> QED BY <3>1, <3>2, <4>1, <4>2, OnlyJobKeeps, NotReserved DEF OnlyJob
    <3> QED BY <2>4, <3>3, <3>4 DEF Drain
  <2>5. ASSUME NEW c \in {"ok", "failed", "killed", "lost", "closed"}, Return(j, n, c)
        PROVE  JobInv'
    <3>1. /\ job' = job /\ web' = web /\ created' = created
          /\ thr[j].pc = "execute" /\ n \in thr[j].todo
          /\ cmd' = [cmd EXCEPT ![j][n] = Dropped(@)]
          /\ c \in {"lost", "closed"} \/ (cmd[j][n] = c /\ c # "running")
      BY <2>5 DEF Return, At, FutureEnds
    <3>2. /\ \A k \in Job : k # j => cmd'[k] = cmd[k]
          /\ \A m \in Node : cmd'[j][m] \in {"none", cmd[j][m]}
          /\ cmd'[j][n] = Dropped(cmd[j][n])
      BY <1>0, <3>1 DEF Dropped
    <3>3. CASE EndThread(j)
      BY <3>1, <3>2, <3>3, EndKeeps
    <3>4. ASSUME NEW y, ReturnedAs(j, n, c, y), Goto(j, y) PROVE JobInv'
      <4>1. thr'[j] = y /\ \A k \in Job : k # j => thr'[k] = thr[k]
        BY <1>0, <3>4 DEF Goto
      <4>2. cmd'[j][n] = "running" => ExitState(c) \in {"unknown", "closed"}
        BY <3>1, <3>2 DEF Dropped, ExitState
      <4>3. thr[j].state \in [Node -> Marks]
        BY <1>0 DEF Thread
      <4>4. /\ y.targets = thr[j].targets
            /\ y.state = [thr[j].state EXCEPT ![n] = ExitState(c)]
            /\ \/ y.pc = "handler"
               \/ y.pc = "verify" /\ thr[j].todo = {n}
               \/ y.pc \in {"execute", "drainStop", "drainError"}
                    /\ y.todo = thr[j].todo \ {n}
        BY <3>4 DEF ReturnedAs
      <4>5. ASSUME NEW m \in Node, cmd'[j][m] = "running"
            PROVE  /\ m \in y.targets
                   /\ m \in thr[j].todo \ {n} \/ y.state[m] \in {"unknown", "closed"}
        <5>1. cmd[j][m] = "running"
          BY <3>2, <4>5
        <5>2. m \in thr[j].targets /\ (m \in thr[j].todo \/ thr[j].state[m] \in {"unknown", "closed"})
          BY <1>o, <3>1, <5>1 DEF OwnInv, CmdInv, Running
        <5>3. CASE m = n
          BY <4>2, <4>3, <4>4, <4>5, <5>2, <5>3
        <5>4. CASE m # n
          BY <4>3, <4>4, <5>2, <5>4
        <5> QED BY <5>3, <5>4
      <4>6. ThreadInv(j)'
        BY <1>o, <3>1, <3>4, <4>1, <4>4 DEF OwnInv, ThreadInv, Executing, NodeAction,
             ReturnedAs
      <4>7. CmdInv(j)'
        <5>1. job[j].status \notin {"absent", "pass"}
          BY <1>o, <3>1 DEF OwnInv, ThreadInv
        <5>2. y.pc = "execute" => y.todo \subseteq y.targets
          BY <1>o, <3>1, <4>4 DEF OwnInv, CmdInv
        <5> QED BY <3>1, <4>1, <4>4, <4>5, <5>1, <5>2 DEF CmdInv, Running, LostCommand
      <4>8. RowInv(j)'
        BY <1>o, <3>1 DEF OwnInv, RowInv, Active
      <4> QED BY <3>1, <3>2, <4>1, <4>6, <4>7, <4>8, OnlyJobKeeps, NotReserved
            DEF OnlyJob, OwnInv
    <3> QED BY <2>5, <3>3, <3>4, ReturnEffect
  <2> QED BY <1>9, <2>1, <2>2, <2>3, <2>4, <2>5 DEF NodeStep
<1> QED BY <1>1, <1>2, <1>4, <1>5, <1>6, <1>7, <1>8, <1>9 DEF ThreadStep

(* A request's step keeps JobInv when no row changes and no job is newly   *)
(* reserved.                                                               *)
LEMMA RequestKeeps ==
  ASSUME JobInv, job' = job, created' = created, thr' = thr, cmd' = cmd,
         \A w \in Worker : web'[w].pc = "reserved" => web'[w] = web[w]
  PROVE  JobInv'
<1>1. ReservedInv'
  <2>1. \A w \in Worker : web'[w].pc = "reserved" =>
          web[w].pc = "reserved" /\ web'[w].job = web[w].job
    OBVIOUS
  <2> QED BY <2>1 DEF JobInv, ReservedInv
<1>2. \A j \in Job : OwnInv(j)'
  BY DEF JobInv, OwnInv, RowInv, ThreadInv, CmdInv, LostCommand, Active,
         Executing, Running, Quiet
<1> QED BY <1>1, <1>2 DEF JobInv

(* Closing rows without asking anybody: a row that is not closed yet ends  *)
(* as unknown, failed or deleted, and stays itself otherwise.              *)
LEMMA ClosingKeeps ==
  ASSUME TypeOK, JobInv, created' = created, thr' = thr, cmd' = cmd,
         \A w \in Worker : web'[w].pc = "reserved" => web'[w] = web[w],
         NEW s \in {"unknown", "fail", "deleted"},
         \A j \in Job : \/ job'[j] = job[j]
                        \/ job'[j] = Closed(job[j], s) /\ job[j].status # "absent",
         s = "fail" => \A j \in Job : job'[j] # job[j] =>
           thr[j].pc = "none" /\ \A w \in Worker : ~(web'[w].pc = "reserved" /\ web'[w].job = j)
  PROVE  JobInv'
<1>1. \A j \in Job : job[j] \in JobRow
  BY DEF TypeOK
<1>2. ASSUME NEW j \in Job PROVE OwnInv(j)'
  <2>1. OwnInv(j)
    BY DEF JobInv
  <2>2. CASE job'[j] = job[j]
    BY <2>1, <2>2 DEF OwnInv, RowInv, ThreadInv, CmdInv, LostCommand, Active,
         Executing, Running, Quiet
  <2>3. CASE job'[j] # job[j]
    <3>1. /\ job'[j].status = s /\ job'[j].active = FALSE
          /\ job'[j].action = job[j].action /\ job[j].status # "absent"
      BY <1>1, <2>3 DEF Closed, JobRow
    <3>2. s = "fail" => thr[j].pc = "none"
      BY <2>3
    <3> QED BY <2>1, <3>1, <3>2 DEF OwnInv, RowInv, ThreadInv, CmdInv, LostCommand,
         Active, Executing, Running, Quiet
  <2> QED BY <2>2, <2>3
<1>3. ReservedInv'
  <2>1. \A w \in Worker : web'[w].pc = "reserved" =>
          web[w].pc = "reserved" /\ web'[w].job = web[w].job /\ web[w].job \in Job
    BY Numbers, Times DEF JobInv, ReservedInv, Job
  <2>2. \A w \in Worker : web'[w].pc = "reserved" =>
          job'[web'[w].job].status \in {"queued", "unknown", "deleted"}
    <3> SUFFICES ASSUME NEW w \in Worker, web'[w].pc = "reserved"
                 PROVE  job'[web'[w].job].status \in {"queued", "unknown", "deleted"}
      OBVIOUS
    <3> DEFINE j == web'[w].job
    <3>1. j \in Job /\ job[j].status \in {"queued", "unknown", "deleted"}
      BY <2>1 DEF JobInv, ReservedInv
    <3>2. CASE job'[j] = job[j]
      BY <3>1, <3>2
    <3>3. CASE job'[j] # job[j]
      <4>1. job'[j] = Closed(job[j], s) /\ s # "fail"
        BY <3>1, <3>3
      <4> QED BY <1>1, <3>1, <4>1 DEF Closed, JobRow
    <3> QED BY <3>2, <3>3
  <2> QED BY <2>1, <2>2 DEF JobInv, ReservedInv
<1> QED BY <1>2, <1>3 DEF JobInv

(* release_stale_jobs closes active rows as unknown and nothing else.      *)
LEMMA ReleaseCloses ==
  ASSUME TypeOK, JobInv, NEW j \in Job
  PROVE  \/ ReleaseStale(job)[j] = job[j]
         \/ /\ ReleaseStale(job)[j] = Closed(job[j], "unknown")
            /\ Active(j) /\ job[j].age > STALE_AFTER /\ job[j].status # "absent"
<1>1. Active(j) => job[j].status # "absent"
  BY DEF JobInv, OwnInv, RowInv
<1> QED BY <1>1 DEF ReleaseStale, Active

LEMMA ReserveKeepsJobInv ==
  ASSUME TypeOK, JobInv, NEW w \in Worker, Reserve(w)
  PROVE  JobInv'
<1>0. created + 1 \in Job
  BY Times DEF TypeOK, Job, Reserve
<1> PICK j \in Job : j = created + 1
  BY <1>0
<1>1. /\ created' = j /\ created \in Nat /\ j > created
      /\ job \in [Job -> JobRow] /\ web \in [Worker -> Request]
  BY Times DEF TypeOK, Job, Reserve
<1>2. /\ job'[j].status = "queued" /\ job'[j].active = TRUE
      /\ \A k \in Job : k # j => job'[k] = job[k]
      /\ thr' = thr /\ cmd' = cmd
      /\ web'[w].pc = "reserved" /\ web'[w].job = j
      /\ \A v \in Worker : v # w => web'[v] = web[v]
  BY <1>1 DEF Reserve, Request
<1>3. /\ thr[j].pc = "none" /\ \A n \in Node : cmd[j][n] = "none"
      /\ \A k \in Job : ~Active(k)
  BY <1>1 DEF JobInv, OwnInv, RowInv, ThreadInv, CmdInv, Reserve, SomeActive
<1>4. ASSUME NEW k \in Job PROVE OwnInv(k)'
  <2>1. OwnInv(k)
    BY DEF JobInv
  <2>2. CASE k = j
    <3>1. RowInv(j)'
      BY <1>1, <1>2 DEF RowInv, Active
    <3>2. ThreadInv(j)' /\ CmdInv(j)'
      BY <1>2, <1>3, <2>1, <2>2 DEF OwnInv, ThreadInv, CmdInv, Executing
    <3> QED BY <2>2, <3>1, <3>2 DEF OwnInv
  <2>3. CASE k # j
    <3>1. k > created <=> k > created'
      BY <1>1, <2>3 DEF Job
    <3>2. RowInv(k)'
      BY <1>2, <1>3, <2>1, <2>3, <3>1 DEF OwnInv, RowInv, Active
    <3> QED BY <1>2, <2>1, <2>3, <3>2 DEF OwnInv, ThreadInv, CmdInv, LostCommand,
         Executing, Running, Quiet
  <2> QED BY <2>2, <2>3
<1>5. ReservedInv'
  <2>1. \A v \in Worker : v # w /\ web[v].pc = "reserved" =>
          web[v].job \in Job /\ web[v].job # j /\ web[v].job \in 1 .. created'
    BY <1>1, Numbers, Times DEF JobInv, ReservedInv, Job
  <2> QED BY <1>1, <1>2, <1>3, <2>1 DEF JobInv, ReservedInv
<1> QED BY <1>4, <1>5 DEF JobInv

LEMMA LaunchKeepsJobInv ==
  ASSUME TypeOK, JobInv, NEW w \in Worker, Launch(w)
  PROVE  JobInv'
<1> DEFINE j == web[w].job
<1>1. /\ j \in Job /\ web[w].pc = "reserved" /\ thr \in [Job -> Thread]
      /\ web \in [Worker -> Request]
  BY Numbers, Times DEF TypeOK, JobInv, ReservedInv, Job, Launch
<1>2. /\ thr[j].pc = "none" /\ \A n \in Node : cmd[j][n] = "none"
      /\ job[j].status \in {"queued", "unknown", "deleted"}
  BY <1>1 DEF JobInv, ReservedInv
<1>3. /\ job' = job /\ created' = created /\ cmd' = cmd
      /\ thr'[j].pc = "begin" /\ \A k \in Job : k # j => thr'[k] = thr[k]
      /\ web'[w].pc = "idle" /\ \A v \in Worker : v # w => web'[v] = web[v]
  BY <1>1 DEF Launch, rowVars, remoteVars, NoThread, NoRequest
<1>4. ASSUME NEW k \in Job PROVE OwnInv(k)'
  <2>1. OwnInv(k)
    BY DEF JobInv
  <2>2. CASE k = j
    BY <1>2, <1>3, <2>1, <2>2 DEF OwnInv, RowInv, ThreadInv, CmdInv, Active,
         Executing, Quiet, Running
  <2>3. CASE k # j
    BY <1>3, <2>1, <2>3 DEF OwnInv, RowInv, ThreadInv, CmdInv, LostCommand, Active,
         Executing, Running, Quiet
  <2> QED BY <2>2, <2>3
<1>5. ReservedInv'
  <2>1. \A v \in Worker : v # w /\ web[v].pc = "reserved" =>
          web[v].job \in Job /\ web[v].job # j
    BY <1>1, Numbers, Times DEF JobInv, ReservedInv, Job
  <2> QED BY <1>3, <2>1 DEF JobInv, ReservedInv
<1> QED BY <1>4, <1>5 DEF JobInv

LEMMA CrashKeepsJobInv ==
  ASSUME TypeOK, JobInv, NEW w \in Worker, Crash(w)
  PROVE  JobInv'
<1>1. /\ job' = job /\ created' = created /\ web \in [Worker -> Request]
      /\ web'[w].pc = "idle" /\ \A v \in Worker : v # w => web'[v] = web[v]
  BY DEF Crash, rowVars, NoRequest, TypeOK
<1>2. \A k \in Job : \/ thr'[k] = thr[k] /\ cmd'[k] = cmd[k]
                     \/ /\ thr'[k] = NoThread
                        /\ \A n \in Node : cmd'[k][n] \in {"none", cmd[k][n]}
  BY DEF Crash, Dropped, TypeOK
<1>3. NoThread.pc = "none" /\ NoThread.left = 0 /\ NoThread.met = {}
  BY DEF NoThread
<1>4. ASSUME NEW k \in Job PROVE OwnInv(k)'
  <2>1. OwnInv(k)
    BY DEF JobInv
  <2>2. CASE thr'[k] = thr[k] /\ cmd'[k] = cmd[k]
    BY <1>1, <2>1, <2>2 DEF OwnInv, RowInv, ThreadInv, CmdInv, LostCommand, Active,
         Executing, Running, Quiet
  <2>3. CASE thr'[k] = NoThread /\ \A n \in Node : cmd'[k][n] \in {"none", cmd[k][n]}
    BY <1>1, <1>3, <2>1, <2>3 DEF OwnInv, RowInv, ThreadInv, CmdInv, Active,
         Executing, Running, Quiet
  <2> QED BY <1>2, <2>2, <2>3
<1>5. ReservedInv'
  <2>1. \A v \in Worker : web'[v].pc = "reserved" =>
          web[v].pc = "reserved" /\ web'[v] = web[v] /\ web[v].job \in Job
    BY <1>1, Numbers, Times DEF JobInv, ReservedInv, Job
  <2>2. \A k \in Job : thr[k].pc = "none" => thr'[k].pc = "none"
    BY <1>2, <1>3
  <2>3. \A k \in Job, n \in Node : cmd[k][n] = "none" => cmd'[k][n] = "none"
    BY <1>2
  <2> QED BY <1>1, <2>1, <2>2, <2>3 DEF JobInv, ReservedInv
<1> QED BY <1>4, <1>5 DEF JobInv

LEMMA WebKeepsJobInv ==
  ASSUME TypeOK, JobInv, NEW w \in Worker, WebStep(w)
  PROVE  JobInv'
<1> USE DEF rowVars, remoteVars
<1>0. /\ web \in [Worker -> Request] /\ job \in [Job -> JobRow]
      /\ NoRequest.pc # "reserved"
  BY DEF TypeOK, NoRequest
<1>1. ASSUME NEW a \in Action, Admit(w, a) PROVE JobInv'
  <2>1. \A v \in Worker : web'[v].pc = "reserved" => web'[v] = web[v]
    BY <1>0, <1>1 DEF Admit
  <2>2. job' = ReleaseStale(job) /\ created' = created /\ thr' = thr /\ cmd' = cmd
    BY <1>1 DEF Admit
  <2> QED BY <2>1, <2>2, ClosingKeeps, ReleaseCloses
<1>2. CASE Reserve(w)
  BY <1>2, ReserveKeepsJobInv
<1>3. CASE Conflict(w)
  BY <1>0, <1>3, RequestKeeps DEF Conflict
<1>4. CASE Launch(w)
  BY <1>4, LaunchKeepsJobInv
<1>5. CASE LaunchFails(w)
  <2> DEFINE j == web[w].job
  <2>1. /\ j \in Job /\ web[w].pc = "reserved" /\ thr[j].pc = "none"
        /\ job[j].status \in {"queued", "unknown", "deleted"}
    BY <1>5, Numbers, Times DEF JobInv, ReservedInv, Job, LaunchFails
  <2>2. /\ web'[w].pc # "reserved" /\ \A v \in Worker : v # w => web'[v] = web[v]
        /\ created' = created /\ thr' = thr /\ cmd' = cmd
    BY <1>0, <1>5 DEF LaunchFails
  <2>3. \A k \in Job : \/ job'[k] = job[k]
                       \/ k = j /\ job'[k] = Closed(job[k], "fail") /\ job[k].status # "absent"
    BY <1>0, <1>5, <2>1 DEF LaunchFails, Rewritten
  <2>4. \A v \in Worker : ~(web'[v].pc = "reserved" /\ web'[v].job = j)
    BY <2>1, <2>2 DEF JobInv, ReservedInv
  <2>5. \A v \in Worker : web'[v].pc = "reserved" => web'[v] = web[v]
    BY <2>2
  <2> QED BY <2>1, <2>2, <2>3, <2>4, <2>5, ClosingKeeps
<1>6. CASE Poll(w)
  <2>1. job' = ReleaseStale(job) /\ created' = created /\ thr' = thr /\ cmd' = cmd
        /\ web' = web
    BY <1>6 DEF Poll
  <2> QED BY <2>1, ClosingKeeps, ReleaseCloses
<1>7. ASSUME NEW k \in Kind, Guard(w, k) PROVE JobInv'
  <2>1. k # "reserved"
    BY SetsAssumption DEF SetsAssumption, Kinds
  <2>2. \A v \in Worker : web'[v].pc = "reserved" => web'[v] = web[v]
    BY <1>0, <1>7, <2>1 DEF Guard, Request
  <2> QED BY <1>7, <2>2, RequestKeeps DEF Guard
<1>8. CASE Edit(w)
  BY <1>0, <1>8, RequestKeeps DEF Edit
<1>9. CASE Delete(w)
  <2>1. /\ \A v \in Worker : web'[v].pc = "reserved" => web'[v] = web[v]
        /\ created' = created /\ thr' = thr /\ cmd' = cmd
    BY <1>0, <1>9 DEF Delete
  <2>2. \A j \in Job : \/ job'[j] = job[j]
                       \/ job'[j] = Closed(job[j], "deleted") /\ job[j].status # "absent"
    BY <1>9 DEF Delete
  <2> QED BY <2>1, <2>2, ClosingKeeps
<1>10. CASE Legacy(w)
  BY <1>10, RequestKeeps DEF Legacy
<1>11. CASE Respond(w)
  BY <1>0, <1>11, RequestKeeps DEF Respond
<1>12. CASE Crash(w)
  BY <1>12, CrashKeepsJobInv
<1> QED BY <1>1, <1>2, <1>3, <1>4, <1>5, <1>6, <1>7, <1>8, <1>9, <1>10, <1>11,
           <1>12 DEF WebStep

(* A command that ends is in no slot any more, or waits to be read.        *)
LEMMA EndedKeeps ==
  ASSUME TypeOK, JobInv, created' = created, web' = web,
         \A j \in Job : /\ job'[j].status = job[j].status /\ job'[j].active = job[j].active
                        /\ job'[j].action = job[j].action,
         \A j \in Job : \/ thr'[j] = thr[j]
                        \/ /\ thr'[j].pc = thr[j].pc /\ thr'[j].met = thr[j].met
                           /\ thr'[j].left \in 0 .. thr[j].left
                           /\ thr'[j].todo = thr[j].todo /\ thr'[j].targets = thr[j].targets
                           /\ thr'[j].ok = thr[j].ok /\ thr'[j].state = thr[j].state,
         \A j \in Job, n \in Node : \/ cmd'[j][n] = cmd[j][n]
                                    \/ cmd'[j][n] # "running" /\ cmd[j][n] = "running"
  PROVE  JobInv'
<1>1. ASSUME NEW j \in Job PROVE OwnInv(j)'
  <2>1. OwnInv(j)
    BY DEF JobInv
  <2>2. \A n \in Node : cmd[j][n] = "none" => cmd'[j][n] = "none"
    OBVIOUS
  <2>3. \A n \in Node : cmd'[j][n] = "running" => cmd[j][n] = "running"
    OBVIOUS
  <2>4. /\ thr'[j].pc = thr[j].pc /\ thr'[j].met = thr[j].met
        /\ thr'[j].todo = thr[j].todo /\ thr'[j].targets = thr[j].targets
        /\ thr'[j].ok = thr[j].ok /\ thr'[j].state = thr[j].state
        /\ thr[j].left = 0 => thr'[j].left = 0
    OBVIOUS
  <2>5. RowInv(j)'
    BY <2>1 DEF OwnInv, RowInv, Active
  <2>6. ThreadInv(j)'
    BY <2>1, <2>4 DEF OwnInv, ThreadInv, Executing
  <2>7. CmdInv(j)'
    BY <2>1, <2>2, <2>3, <2>4 DEF OwnInv, CmdInv, LostCommand, Running, Quiet
  <2> QED BY <2>5, <2>6, <2>7 DEF OwnInv
<1>2. ReservedInv'
  <2>1. \A w \in Worker : web[w].pc = "reserved" => web[w].job \in Job
    BY Numbers, Times DEF JobInv, ReservedInv, Job
  <2>2. \A j \in Job : thr'[j].pc = thr[j].pc
    OBVIOUS
  <2>3. \A j \in Job, n \in Node : cmd[j][n] = "none" => cmd'[j][n] = "none"
    OBVIOUS
  <2> QED BY <2>1, <2>2, <2>3 DEF JobInv, ReservedInv
<1> QED BY <1>1, <1>2 DEF JobInv

(* One command that ends, by itself: its slot is empty or read later.      *)
LEMMA RemoteSlots ==
  ASSUME TypeOK, NEW j \in Job, NEW n \in Node, NEW r \in {"ok", "failed", "killed"},
         NEW acted \in BOOLEAN, RemoteEnds(j, n, r, acted)
  PROVE  /\ cmd[j][n] = "running"
         /\ \A k \in Job, m \in Node : <<k, m>> # <<j, n>> => cmd'[k][m] = cmd[k][m]
         /\ cmd'[j][n] \in {r, "none"}
         /\ cmd'[j][n] = "none" <=> ~(Executing(j) /\ n \in thr[j].todo)
<1>1. cmd' = [cmd EXCEPT ![j][n] =
        IF Executing(j) /\ n \in thr[j].todo THEN r ELSE "none"]
  BY DEF RemoteEnds
<1> QED BY <1>1 DEF TypeOK, RemoteEnds

LEMMA RemoteKeepsJobInv ==
  ASSUME TypeOK, JobInv, NEW j \in Job, RemoteStep(j)
  PROVE  JobInv'
<1> PICK n \in Node, r \in {"ok", "failed", "killed"}, acted \in BOOLEAN :
      RemoteEnds(j, n, r, acted)
  BY DEF RemoteStep
<1>1. \A k \in Job, m \in Node : \/ cmd'[k][m] = cmd[k][m]
                                 \/ cmd'[k][m] # "running" /\ cmd[k][m] = "running"
  <2>1. cmd'[j][n] # "running" /\ cmd[j][n] = "running"
    BY RemoteSlots
  <2>2. \A k \in Job, m \in Node : <<k, m>> # <<j, n>> => cmd'[k][m] = cmd[k][m]
    BY RemoteSlots
  <2> QED BY <2>1, <2>2
<1>2. job' = job /\ created' = created /\ thr' = thr /\ web' = web
  BY DEF RemoteEnds, rowVars
<1> QED BY <1>1, <1>2, EndedKeeps

(* What a unit of time does to a row, a thread and a command.              *)
LEMMA TickEffect ==
  ASSUME TypeOK, Tick
  PROVE  /\ created' = created /\ web' = web
         /\ \A j \in Job : /\ job'[j].status = job[j].status
                           /\ job'[j].active = job[j].active
                           /\ job'[j].action = job[j].action
         /\ \A j \in Job :
              /\ thr'[j].pc = thr[j].pc /\ thr'[j].met = thr[j].met
              /\ thr'[j].left \in 0 .. thr[j].left
              /\ thr'[j].todo = thr[j].todo /\ thr'[j].targets = thr[j].targets
              /\ thr'[j].ok = thr[j].ok /\ thr'[j].state = thr[j].state
              /\ thr'[j].plan = thr[j].plan
         /\ \A j \in Job, n \in Node :
              \/ cmd'[j][n] = cmd[j][n]
              \/ /\ cmd'[j][n] # "running" /\ cmd[j][n] = "running"
                 /\ cmd'[j][n] = "none" => ~(Executing(j) /\ n \in thr[j].todo)
<1>1. created' = created /\ web' = web
  BY DEF Tick
<1>2. \A j \in Job : /\ job'[j].status = job[j].status
                     /\ job'[j].active = job[j].active
                     /\ job'[j].action = job[j].action
  BY DEF Tick, TypeOK, JobRow
<1>3. ASSUME NEW j \in Job
      PROVE  /\ thr'[j].pc = thr[j].pc /\ thr'[j].met = thr[j].met
             /\ thr'[j].left \in 0 .. thr[j].left
             /\ thr'[j].todo = thr[j].todo /\ thr'[j].targets = thr[j].targets
             /\ thr'[j].ok = thr[j].ok /\ thr'[j].state = thr[j].state
             /\ thr'[j].plan = thr[j].plan
  <2>1. thr[j] \in Thread /\ thr[j].left \in Nat
    BY Numbers DEF TypeOK
  <2>2. thr'[j] = [thr[j] EXCEPT !.left = IF @ > 0 THEN @ - 1 ELSE 0]
    BY DEF Tick
  <2>3. (IF thr[j].left > 0 THEN thr[j].left - 1 ELSE 0) \in 0 .. thr[j].left
    BY <2>1
  <2> QED BY <2>1, <2>2, <2>3 DEF Thread
<1>4. ASSUME NEW j \in Job, NEW n \in Node
      PROVE  \/ cmd'[j][n] = cmd[j][n]
             \/ /\ cmd'[j][n] # "running" /\ cmd[j][n] = "running"
                /\ cmd'[j][n] = "none" => ~(Executing(j) /\ n \in thr[j].todo)
  BY DEF Tick
<1> QED BY <1>1, <1>2, <1>3, <1>4

(***************************************************************************)
(* JobInv holds in every reachable state, for any number of workers, nodes *)
(* and jobs, any times, and database faults or none.                       *)
(***************************************************************************)
THEOREM JobsInvariant == Spec => []JobInv
<1>1. Init => JobInv
  <2> SUFFICES ASSUME Init PROVE JobInv
    OBVIOUS
  <2>1. ASSUME NEW j \in Job PROVE OwnInv(j)
    <3>1. /\ job[j].status = "absent" /\ job[j].active = FALSE /\ j > created
          /\ thr[j].pc = "none" /\ thr[j].left = 0 /\ thr[j].met = {}
          /\ \A n \in Node : cmd[j][n] = "none"
      BY DEF Init, NoRow, NoThread, Job
    <3> QED BY <3>1 DEF OwnInv, RowInv, ThreadInv, CmdInv, Active, Executing
  <2>2. \A w \in Worker : web[w].pc # "reserved"
    BY DEF Init, NoRequest
  <2> QED BY <2>1, <2>2 DEF JobInv, ReservedInv
<1>2. TypeOK /\ JobInv /\ [Next]_vars => JobInv'
  <2> SUFFICES ASSUME TypeOK, JobInv, [Next]_vars PROVE JobInv'
    OBVIOUS
  <2>1. CASE Tick
    BY <2>1, TickEffect, EndedKeeps
  <2>2. ASSUME NEW w \in Worker, WebStep(w) PROVE JobInv'
    BY <2>2, WebKeepsJobInv
  <2>3. ASSUME NEW j \in Job, ThreadStep(j) PROVE JobInv'
    BY <2>3, ThreadKeepsJobInv
  <2>4. ASSUME NEW j \in Job, RemoteStep(j) PROVE JobInv'
    BY <2>4, RemoteKeepsJobInv
  <2>5. CASE UNCHANGED vars
    BY <2>5, RequestKeeps DEF vars
  <2> QED BY <2>1, <2>2, <2>3, <2>4, <2>5 DEF Next
<1> QED BY <1>1, <1>2, TypeCorrect, PTL DEF Spec

(***************************************************************************)
(* A job recorded PASS has no command running on any node, whatever saves  *)
(* failed, requests raced and workers crashed on the way.                  *)
(***************************************************************************)
THEOREM PassQuiet == Spec => []PassMeansQuiet
<1>1. JobInv => PassMeansQuiet
  BY DEF JobInv, OwnInv, CmdInv, PassMeansQuiet
<1> QED BY <1>1, JobsInvariant, PTL

(***************************************************************************)
(* What a PASS certifies                                                   *)
(*                                                                         *)
(* The snapshots of the open job are not stale in one respect: what they   *)
(* showed as achieved still holds, except on facets somebody else changed. *)
(* The job's own commands only move towards the requested state, and at    *)
(* most one job is open.                                                   *)
(***************************************************************************)

MetIs(j) ==
  /\ job[j].action = "start" /\ thr[j].met # {} =>
       \A f \in Node : f \in foreign \/ world[f]
  /\ job[j].action = "stop" => \A f \in thr[j].met : f \in foreign \/ ~world[f]
  /\ job[j].action = "standby" /\ thr[j].met # {} => Standby \in foreign \/ world[Standby]
  /\ job[j].action = "unstandby" /\ thr[j].met # {} =>
       Standby \in foreign \/ ~world[Standby]

MetInv == \A j \in Job : Active(j) => MetIs(j)

(* No row opens, no thread sees more and nobody touches the cluster.       *)
NothingSeen ==
  /\ world' = world /\ foreign' = foreign
  /\ \A j \in Job : job'[j].active =>
       /\ job[j].active /\ job'[j].action = job[j].action
       /\ thr'[j].met \subseteq thr[j].met

LEMMA NothingSeenKeeps ==
  ASSUME MetInv, NothingSeen
  PROVE  MetInv'
BY DEF MetInv, MetIs, NothingSeen, Active

(* What a snapshot of n proves about the cluster it was taken of.          *)
LEMMA DesiredMeans ==
  ASSUME TypeOK, NEW j \in Job, NEW n \in Node, Desired(j, n)
  PROVE  /\ job[j].action = "start" => \A f \in Node : world[f]
         /\ job[j].action = "stop" => ~world[n]
         /\ job[j].action = "standby" => world[Standby]
         /\ job[j].action = "unstandby" => ~world[Standby]
<1>1. Node \subseteq Facet /\ Standby \in Facet
  BY DEF Facet
<1>2. CASE job[j].action = "start"
  <2>1. Node \subseteq View(n)
    BY <1>2 DEF Desired
  <2> QED BY <1>2, <2>1 DEF View
<1>3. CASE job[j].action = "stop"
  <2>1. n \notin View(n)
    BY <1>3 DEF Desired
  <2> QED BY <1>1, <1>3, <2>1 DEF View
<1>4. CASE job[j].action = "standby"
  <2>1. Standby \in View(n)
    BY <1>4 DEF Desired
  <2> QED BY <1>4, <2>1 DEF View
<1>5. CASE job[j].action = "unstandby"
  <2>1. n \in View(n) /\ Standby \notin View(n)
    BY <1>5 DEF Desired
  <2> QED BY <1>1, <1>5, <2>1 DEF View
<1> QED BY <1>2, <1>3, <1>4, <1>5

(* At most one job is open.                                                *)
LEMMA OneActive ==
  ASSUME JobInv, NEW j \in Job, NEW k \in Job, Active(j), Active(k)
  PROVE  j = k
BY DEF JobInv, OwnInv, RowInv

LEMMA ObserveKeepsMet ==
  ASSUME TypeOK, MetInv, NEW j \in Job, NEW n \in Node, Observe(j, n)
  PROVE  MetInv'
<1>0. /\ job' = job /\ world' = world /\ foreign' = foreign /\ thr \in [Job -> Thread]
  BY DEF Observe, rowVars, remoteVars, TypeOK
<1>1. CASE EndThread(j)
  <2>1. \A k \in Job : thr'[k] = thr[k] \/ thr'[k].met = {}
    BY <1>0, <1>1 DEF EndThread, NoThread
  <2> QED BY <1>0, <2>1, NothingSeenKeeps DEF NothingSeen
<1>2. ASSUME NEW y, ObservedAs(j, n, y), Goto(j, y) PROVE MetInv'
  <2>1. thr'[j] = y /\ \A k \in Job : k # j => thr'[k] = thr[k]
    BY <1>0, <1>2 DEF Goto
  <2>2. CASE y.met = thr[j].met
    <3>1. \A k \in Job : thr'[k].met = thr[k].met
      BY <2>1, <2>2
    <3> QED BY <1>0, <3>1, NothingSeenKeeps DEF NothingSeen
  <2>3. CASE y.met = thr[j].met \cup {n} /\ Desired(j, n)
    <3>1. Active(j) => MetIs(j)'
      BY <1>0, <2>1, <2>3, DesiredMeans DEF MetInv, MetIs
    <3>2. \A k \in Job : k # j /\ Active(k) => MetIs(k)'
      BY <1>0, <2>1 DEF MetInv, MetIs
    <3> QED BY <1>0, <3>1, <3>2 DEF MetInv, Active
  <2> QED BY <1>2, <2>2, <2>3 DEF ObservedAs
<1> QED BY <1>1, <1>2, ObserveEffect

(* Every other thread step forgets snapshots or keeps them.                *)
LEMMA ThreadSeesNothing ==
  ASSUME TypeOK, JobInv, NEW j \in Job, ThreadStep(j), \A n \in Node : ~Observe(j, n)
  PROVE  NothingSeen
<1> USE DEF rowVars, remoteVars
<1>0. /\ thr[j] \in Thread /\ job[j] \in JobRow /\ thr \in [Job -> Thread]
      /\ job \in [Job -> JobRow]
  BY DEF TypeOK
<1>1. NoThread.met = {}
  BY DEF NoThread
<1>2. ASSUME NEW x, thr' = [thr EXCEPT ![j] = x], x.met \subseteq thr[j].met
      PROVE  \A k \in Job : thr'[k].met \subseteq thr[k].met
  BY <1>0, <1>2
<1>3. ASSUME EndThread(j) PROVE \A k \in Job : thr'[k].met \subseteq thr[k].met
  BY <1>1, <1>2, <1>3 DEF EndThread
<1>4. ASSUME NEW s, Finish(j, s), world' = world, foreign' = foreign PROVE NothingSeen
  <2>1. [thr[j] EXCEPT !.pc = "handler"].met = thr[j].met
    BY <1>0 DEF Thread
  <2>2. \A k \in Job : thr'[k].met \subseteq thr[k].met
    BY <1>2, <1>3, <1>4, <2>1 DEF Finish, Goto
  <2>3. PICK row \in {job[j], Closed(job[j], s)} : job' = [job EXCEPT ![j] = row]
    BY <1>0, <1>4 DEF Finish
  <2>4. row = job[j] \/ row.active = FALSE
    BY <1>0, <2>3 DEF Closed, JobRow
  <2> QED BY <1>0, <1>4, <2>2, <2>3, <2>4 DEF NothingSeen
<1>5. CASE Begin(j)
  <2> DEFINE x == [thr[j] EXCEPT !.pc = "preflight", !.todo = Node]
  <2>1. x.met = thr[j].met /\ [x EXCEPT !.pc = "handler"].met = thr[j].met
    BY <1>0 DEF Thread
  <2>2. AfterSave(j, x, "none", "handler")
    BY <1>5 DEF Begin
  <2> HIDE DEF x
  <2>3. Goto(j, x) \/ EndThread(j) \/ Goto(j, [x EXCEPT !.pc = "handler"])
    BY <2>2, AfterSaveCases, Zenon
  <2>4. \A k \in Job : thr'[k].met \subseteq thr[k].met
    BY <1>2, <1>3, <2>1, <2>3 DEF Goto
  <2>5. \A k \in Job : job'[k].active = job[k].active /\ job'[k].action = job[k].action
    BY <1>0, <1>5 DEF Begin, JobRow
  <2> QED BY <1>5, <2>4, <2>5 DEF NothingSeen, Begin
<1>6. CASE DecideFinish(j)
  BY <1>4, <1>6 DEF DecideFinish
<1>7. ASSUME NEW targets \in SUBSET Node, NEW met, Execute(j, targets, met),
             job' = job, world' = world, foreign' = foreign
      PROVE  NothingSeen
  <2>1. \A k \in Job : thr'[k].met \subseteq thr[k].met
    <3>1. ASSUME NEW y, ExecutedAs(j, targets, y), Goto(j, y)
          PROVE  \A k \in Job : thr'[k].met \subseteq thr[k].met
      <4>1. y.met \subseteq thr[j].met
        BY <3>1 DEF ExecutedAs
      <4> QED BY <1>2, <3>1, <4>1 DEF Goto
    <3> QED BY <1>3, <1>7, <3>1, ExecuteEffect
  <2> QED BY <1>7, <2>1 DEF NothingSeen
<1>8. CASE DecideAll(j)
  BY <1>7, <1>8 DEF DecideAll
<1>9. CASE DecideRaise(j)
  <2>1. [thr[j] EXCEPT !.pc = "handler"].met = thr[j].met
    BY <1>0 DEF Thread
  <2>2. \A k \in Job : thr'[k].met \subseteq thr[k].met
    BY <1>2, <1>9, <2>1 DEF DecideRaise, Goto
  <2> QED BY <1>9, <2>2 DEF NothingSeen, DecideRaise
<1>10. CASE Again(j)
  <2> DEFINE x == [Forget(thr[j]) EXCEPT !.pc = "verify", !.todo = Node]
  <2>0. Forget(thr[j]) \in Thread /\ Forget(thr[j]).met = {}
    BY <1>0, ThreadTypes DEF Forget, Thread
  <2>1. x.met = {} /\ [x EXCEPT !.pc = "handler"].met = {}
    BY <2>0 DEF Thread
  <2>2. AfterSave(j, x, "none", "handler")
    BY <1>10 DEF Again
  <2> HIDE DEF x
  <2>3. Goto(j, x) \/ EndThread(j) \/ Goto(j, [x EXCEPT !.pc = "handler"])
    BY <2>2, AfterSaveCases, Zenon
  <2>4. \A k \in Job : thr'[k].met \subseteq thr[k].met
    BY <1>2, <1>3, <2>1, <2>3 DEF Goto
  <2> QED BY <1>10, <2>4 DEF NothingSeen, Again
<1>11. CASE Judge(j)
  BY <1>4, <1>11 DEF Judge
<1>12. CASE Handler(j)
  <2>1. PICK row \in {job[j], Closed(job[j], "fail"), Rewritten(job[j], "unknown")} :
          job' = [job EXCEPT ![j] = row]
    BY <1>0, <1>12 DEF Handler
  <2>2. row = job[j] \/ row.active = FALSE
    BY <1>0, <2>1 DEF Closed, Rewritten, JobRow
  <2> QED BY <1>0, <1>3, <1>12, <2>1, <2>2 DEF NothingSeen, Handler
<1>13. ASSUME NEW n \in Node, NodeStep(j, n) PROVE NothingSeen
  <2>1. CASE DecideOne(j, n)
    BY <1>7, <2>1 DEF DecideOne
  <2>2. CASE Send(j, n)
    BY <2>2 DEF Send, NothingSeen
  <2>3. CASE Drain(j, n)
    <3>1. /\ [thr[j] EXCEPT !.todo = @ \ {n}].met = thr[j].met
          /\ [thr[j] EXCEPT !.todo = {}, !.pc = "handler"].met = thr[j].met
      BY <1>0 DEF Thread
    <3>2. \A k \in Job : thr'[k].met \subseteq thr[k].met
      BY <1>2, <1>3, <2>3, <3>1 DEF Drain, Goto
    <3> QED BY <2>3, <3>2 DEF NothingSeen, Drain
  <2>4. ASSUME NEW c \in {"ok", "failed", "killed", "lost", "closed"}, Return(j, n, c)
        PROVE  NothingSeen
    <3>1. ASSUME NEW y, ReturnedAs(j, n, c, y), Goto(j, y)
          PROVE  \A k \in Job : thr'[k].met \subseteq thr[k].met
      <4>1. y.met \subseteq thr[j].met
        BY <3>1 DEF ReturnedAs
      <4> QED BY <1>2, <3>1, <4>1 DEF Goto
    <3>2. \A k \in Job : thr'[k].met \subseteq thr[k].met
      BY <1>3, <2>4, <3>1, ReturnEffect
    <3> QED BY <2>4, <3>2 DEF NothingSeen, Return
  <2> QED BY <1>13, <2>1, <2>2, <2>3, <2>4 DEF NodeStep
<1> QED BY <1>5, <1>6, <1>8, <1>9, <1>10, <1>11, <1>12, <1>13 DEF ThreadStep

LEMMA WebKeepsMet ==
  ASSUME TypeOK, JobInv, MetInv, NEW w \in Worker, WebStep(w)
  PROVE  MetInv'
<1> USE DEF rowVars, remoteVars
<1>0. /\ job \in [Job -> JobRow] /\ thr \in [Job -> Thread]
      /\ world \in [Facet -> BOOLEAN] /\ NoThread.met = {}
  BY DEF TypeOK, NoThread
<1>1. ASSUME job' = ReleaseStale(job), thr' = thr, world' = world, foreign' = foreign
      PROVE  MetInv'
  <2>1. \A j \in Job : ReleaseStale(job)[j].active => ReleaseStale(job)[j] = job[j]
    BY RowsGain
  <2> QED BY <1>1, <2>1, NothingSeenKeeps DEF NothingSeen
<1>2. ASSUME NEW a \in Action, Admit(w, a) PROVE MetInv'
  BY <1>1, <1>2 DEF Admit
<1>3. CASE Reserve(w)
  <2>1. created + 1 \in Job /\ created + 1 > created
    BY <1>3, Times DEF TypeOK, Job, Reserve
  <2>2. thr[created + 1].pc = "none"
    BY <2>1 DEF JobInv, OwnInv, RowInv, ThreadInv
  <2>3. thr[created + 1].met = {}
    BY <2>1, <2>2 DEF JobInv, OwnInv, ThreadInv
  <2>4. \A j \in Job : job'[j].active => j = created + 1
    BY <1>0, <1>3 DEF Reserve, SomeActive, Active
  <2> QED BY <1>3, <2>3, <2>4 DEF MetInv, MetIs, Active, Reserve
<1>4. CASE Launch(w)
  <2>1. \A j \in Job : thr'[j] = thr[j] \/ thr'[j].met = {}
    BY <1>0, <1>4 DEF Launch, NoThread
  <2> QED BY <1>4, <2>1, NothingSeenKeeps DEF NothingSeen, Launch
<1>5. CASE Legacy(w)
  <2>1. PICK n \in Node : world' = [world EXCEPT ![n] = TRUE] /\ foreign' = foreign \cup {n}
    BY <1>5 DEF Legacy
  <2>2. /\ world'[n] = TRUE /\ \A f \in Facet : f # n => world'[f] = world[f]
        /\ n \in foreign' /\ Standby # n /\ Standby \in Facet
        /\ job' = job /\ thr' = thr
        /\ \A f \in foreign : f \in foreign'
    BY <1>0, <1>5, <2>1, SetsAssumption DEF SetsAssumption, Facet, Legacy
  <2>3. \A j \in Job : thr[j].met \subseteq Node /\ Node \subseteq Facet
    BY <1>0 DEF Thread, Facet
  <2> QED BY <2>2, <2>3 DEF MetInv, MetIs, Active
<1>6. CASE LaunchFails(w)
  <2>1. \A j \in Job : job'[j].active => job[j].active /\ job'[j] = job[j]
    BY <1>0, <1>6, RowsGain DEF LaunchFails, Status
  <2> QED BY <1>6, <2>1, NothingSeenKeeps DEF NothingSeen, LaunchFails
<1>7. CASE Poll(w)
  BY <1>1, <1>7 DEF Poll
<1>8. CASE Delete(w)
  <2>1. \A j \in Job : job'[j].active => job'[j] = job[j]
    BY <1>0, <1>8 DEF Delete, Closed, JobRow
  <2> QED BY <1>8, <2>1, NothingSeenKeeps DEF NothingSeen, Delete
<1>9. CASE Crash(w)
  <2>1. \A j \in Job : thr'[j] = thr[j] \/ thr'[j].met = {}
    BY <1>0, <1>9 DEF Crash
  <2> QED BY <1>9, <2>1, NothingSeenKeeps DEF NothingSeen, Crash
<1>10. CASE Conflict(w) \/ Edit(w) \/ Respond(w) \/ \E k \in Kind : Guard(w, k)
  BY <1>10, NothingSeenKeeps DEF NothingSeen, Conflict, Edit, Respond, Guard
<1> QED BY <1>2, <1>3, <1>4, <1>5, <1>6, <1>7, <1>8, <1>9, <1>10 DEF WebStep

(* A command of the open job moves towards the requested state; what any   *)
(* other command changes is recorded as foreign.                           *)
LEMMA RemoteKeepsMet ==
  ASSUME TypeOK, JobInv, MetInv, NEW j \in Job, RemoteStep(j)
  PROVE  MetInv'
<1> PICK n \in Node, r \in {"ok", "failed", "killed"}, acted \in BOOLEAN :
      RemoteEnds(j, n, r, acted)
  BY DEF RemoteStep
<1> DEFINE f == IF job[j].action \in NodeAction THEN Standby ELSE n
<1>0. /\ job' = job /\ thr' = thr /\ world \in [Facet -> BOOLEAN]
      /\ f \in Facet /\ Standby # n /\ Standby \in Facet /\ n \in Facet
      /\ \A k \in Job : thr[k].met \subseteq Node /\ Node \subseteq Facet
  BY SetsAssumption DEF SetsAssumption, RemoteEnds, rowVars, TypeOK, Thread, Facet
<1>1. CASE ~acted
  BY <1>0, <1>1, NothingSeenKeeps DEF NothingSeen, RemoteEnds
<1>2. CASE acted
  <2>1. /\ world' = [world EXCEPT ![f] = job[j].action \in {"start", "standby"}]
        /\ foreign' = IF Active(j) THEN foreign ELSE foreign \cup {f}
    BY <1>2 DEF RemoteEnds
  <2>2. /\ world'[f] = (job[j].action \in {"start", "standby"})
        /\ \A g \in Facet : g # f => world'[g] = world[g]
    BY <1>0, <2>1
  <2>3. CASE Active(j)
    <3>1. MetIs(j)
      BY <2>3 DEF MetInv
    <3>2. MetIs(j)'
      <4>1. job[j].action = "start" /\ thr[j].met # {} =>
              \A g \in Node : g \in foreign' \/ world'[g]
        BY <1>0, <2>1, <2>2, <2>3, <3>1 DEF MetIs, NodeAction
      <4>2. job[j].action = "stop" => \A g \in thr[j].met : g \in foreign' \/ ~world'[g]
        BY <1>0, <2>1, <2>2, <2>3, <3>1 DEF MetIs, NodeAction
      <4>3. job[j].action = "standby" => world'[Standby]
        BY <2>2 DEF NodeAction
      <4>4. job[j].action = "unstandby" => ~world'[Standby]
        BY <2>2 DEF NodeAction
      <4> QED BY <1>0, <4>1, <4>2, <4>3, <4>4 DEF MetIs
    <3>3. \A k \in Job : Active(k) => k = j
      BY <2>3, OneActive
    <3> QED BY <1>0, <3>2, <3>3 DEF MetInv, Active
  <2>4. CASE ~Active(j)
    <3>1. f \in foreign' /\ foreign \subseteq foreign'
      BY <2>1, <2>4
    <3> HIDE DEF f
    <3> QED BY <1>0, <2>2, <3>1 DEF MetInv, MetIs, Active
  <2> QED BY <2>3, <2>4
<1> QED BY <1>1, <1>2

(* A PASS is recorded at the end of a status job or of a verification.     *)
LEMMA PassComesFrom ==
  ASSUME TypeOK, JobInv, [Next]_vars, NEW j \in Job, job[j].status # "pass",
         job'[j].status = "pass"
  PROVE  /\ Active(j)
         /\ job[j].action = "status" \/ (thr[j].pc = "judge" /\ FinalStatus(j) = "pass")
<1> USE DEF rowVars, remoteVars
<1>0. job \in [Job -> JobRow] /\ job' # job
  BY DEF TypeOK
<1>1. ASSUME NEW w \in Worker, WebStep(w) PROVE FALSE
  <2>1. ASSUME NEW s \in {"fail", "unknown", "deleted"},
               job'[j] \in {job[j], Closed(job[j], s)}
        PROVE  FALSE
    BY <1>0, <2>1 DEF Closed, JobRow
  <2>2. ASSUME NEW a \in Action, Admit(w, a) PROVE FALSE
    BY <2>1, <2>2, ReleaseCloses DEF Admit
  <2>3. CASE Reserve(w)
    BY <1>0, <2>3 DEF Reserve
  <2>4. CASE LaunchFails(w)
    BY <1>0, <2>1, <2>4 DEF LaunchFails, Rewritten
  <2>5. CASE Poll(w)
    BY <2>1, <2>5, ReleaseCloses DEF Poll
  <2>6. CASE Delete(w)
    BY <2>1, <2>6 DEF Delete
  <2>7. CASE Conflict(w) \/ Launch(w) \/ Edit(w) \/ Legacy(w) \/ Respond(w) \/ Crash(w)
             \/ \E k \in Kind : Guard(w, k)
    BY <1>0, <2>7 DEF Conflict, Launch, Edit, Legacy, Respond, Crash, Guard
  <2> QED BY <1>1, <2>2, <2>3, <2>4, <2>5, <2>6, <2>7 DEF WebStep
<1>2. CASE Tick
  BY <1>2, TickEffect
<1>3. ASSUME NEW k \in Job, RemoteStep(k) PROVE FALSE
  BY <1>0, <1>3 DEF RemoteStep, RemoteEnds
<1>4. ASSUME NEW k \in Job, ThreadStep(k)
      PROVE  /\ Active(j)
             /\ job[j].action = "status" \/ (thr[j].pc = "judge" /\ FinalStatus(j) = "pass")
  <2>1. ASSUME NEW s, Finish(k, s)
        PROVE  k = j /\ Active(j) /\ s = "pass"
    <3>1. Save(k, "ok") /\ job' = [job EXCEPT ![k] = Closed(@, s)]
      BY <1>0, <2>1 DEF Finish
    <3>2. Active(k)
      BY <3>1 DEF Save, Owned
    <3>3. job'[k].status = s /\ \A i \in Job : i # k => job'[i] = job[i]
      BY <1>0, <3>1 DEF Closed, JobRow
    <3> QED BY <3>2, <3>3
  <2>2. CASE Begin(k)
    BY <1>0, <2>2 DEF Begin
  <2>3. CASE DecideFinish(k)
    <3>1. \/ Finish(k, "fail")
          \/ Finish(k, "pass") /\ job[k].action = "status"
      BY <2>3 DEF DecideFinish
    <3> QED BY <2>1, <3>1
  <2>4. CASE Judge(k)
    BY <2>1, <2>4 DEF Judge, At
  <2>5. CASE Handler(k)
    <3>1. \E row \in {job[k], Closed(job[k], "fail"), Rewritten(job[k], "unknown")} :
            job' = [job EXCEPT ![k] = row]
      BY <1>0, <2>5 DEF Handler
    <3> QED BY <1>0, <3>1 DEF Closed, Rewritten, JobRow
  <2>6. CASE DecideAll(k) \/ DecideRaise(k) \/ Again(k)
    BY <1>0, <2>6 DEF DecideAll, DecideRaise, Again
  <2>7. ASSUME NEW n \in Node, NodeStep(k, n) PROVE FALSE
    BY <1>0, <2>7 DEF NodeStep, Observe, DecideOne, Send, Drain, Return
  <2> QED BY <1>4, <2>2, <2>3, <2>4, <2>5, <2>6, <2>7 DEF ThreadStep
<1>5. CASE UNCHANGED vars
  BY <1>0, <1>5 DEF vars
<1> QED BY <1>1, <1>2, <1>3, <1>4, <1>5 DEF Next

(* MetInv holds in every reachable state.                                  *)
LEMMA MetAlways == Spec => []MetInv
<1>1. Init => MetInv
  BY DEF Init, MetInv, Active, NoRow
<1>2. TypeOK /\ JobInv /\ MetInv /\ [Next]_vars => MetInv'
  <2> SUFFICES ASSUME TypeOK, JobInv, MetInv, [Next]_vars PROVE MetInv'
    OBVIOUS
  <2>1. CASE Tick
    BY <2>1, TickEffect, NothingSeenKeeps DEF NothingSeen, Tick
  <2>2. ASSUME NEW w \in Worker, WebStep(w) PROVE MetInv'
    BY <2>2, WebKeepsMet
  <2>3. ASSUME NEW j \in Job, ThreadStep(j) PROVE MetInv'
    <3>1. ASSUME NEW n \in Node, Observe(j, n) PROVE MetInv'
      BY <3>1, ObserveKeepsMet
    <3>2. CASE \A n \in Node : ~Observe(j, n)
      BY <2>3, <3>2, ThreadSeesNothing, NothingSeenKeeps
    <3> QED BY <3>1, <3>2
  <2>4. ASSUME NEW j \in Job, RemoteStep(j) PROVE MetInv'
    BY <2>4, RemoteKeepsMet
  <2>5. CASE UNCHANGED vars
    BY <2>5, NothingSeenKeeps DEF NothingSeen, vars
  <2> QED BY <2>1, <2>2, <2>3, <2>4, <2>5 DEF Next
<1> QED BY <1>1, <1>2, TypeCorrect, JobsInvariant, PTL DEF Spec

(***************************************************************************)
(* When a PASS is recorded, every node (or the standby attribute) is in    *)
(* the requested state, except where somebody else changed it since the    *)
(* job was reserved.                                                       *)
(***************************************************************************)
THEOREM PassAchieved == Spec => PassMeansAchieved
<1>1. TypeOK /\ JobInv /\ MetInv /\ [Next]_vars =>
        [\A j \in Job : job[j].status # "pass" /\ job'[j].status = "pass" =>
           \A f \in Facet \ foreign : Requested(j, f)]_vars
  <2> SUFFICES ASSUME TypeOK, JobInv, MetInv, [Next]_vars, NEW j \in Job,
                      job[j].status # "pass", job'[j].status = "pass",
                      NEW f \in Facet, f \notin foreign
               PROVE  Requested(j, f)
    OBVIOUS
  <2>1. /\ Active(j)
        /\ job[j].action = "status" \/ (thr[j].pc = "judge" /\ FinalStatus(j) = "pass")
    BY PassComesFrom
  <2>2. CASE job[j].action = "status"
    BY <2>2 DEF Requested
  <2>3. CASE thr[j].pc = "judge" /\ FinalStatus(j) = "pass"
    <3>1. thr[j] \in Thread /\ MetIs(j) /\ f \in Node \cup {Standby} /\ Standby \notin Node
      BY <2>1, SetsAssumption DEF TypeOK, MetInv, Facet, SetsAssumption
    <3>2. \A n \in Node : FinalState(j, n) = "pass"
      BY <2>3, FinalStatusPass
    <3>3. CASE job[j].action \in NodeAction
      <4>1. PICK c \in thr[j].targets : TRUE
        BY <2>3, <3>3 DEF JobInv, OwnInv, ThreadInv
      <4>2. c \in Node /\ thr[j].state[c] \in Marks
        BY <3>1, <4>1 DEF Thread
      <4>3. Achieved(j)
        BY <3>2, <3>3, <4>2 DEF FinalState
      <4>4. c \in thr[j].met
        BY <3>3, <4>1, <4>3 DEF Achieved, Checked
      <4> QED BY <3>1, <3>3, <4>4 DEF MetIs, Requested, NodeAction
    <3>4. CASE job[j].action \notin NodeAction
      <4>1. ASSUME NEW n \in Node PROVE n \in thr[j].met
        <5>1. FinalState(j, n) = "pass" /\ thr[j].state[n] \in Marks
          BY <3>1, <3>2 DEF Thread
        <5> QED BY <3>4, <5>1 DEF FinalState
      <4>2. job[j].action \notin {"standby", "unstandby"}
        BY <3>4 DEF NodeAction
      <4>3. f \in Node => f \in thr[j].met
        BY <4>1
      <4> QED BY <3>1, <4>2, <4>3 DEF MetIs, Requested
    <3> QED BY <3>3, <3>4
  <2> QED BY <2>1, <2>2, <2>3
<1> QED BY <1>1, TypeCorrect, JobsInvariant, MetAlways, PTL DEF Spec, PassMeansAchieved

(* A FAIL recorded while the thread stands at its verdict is the verdict.  *)
LEMMA FailComesFrom ==
  ASSUME TypeOK, JobInv, [Next]_vars, NEW j \in Job, thr[j].pc = "judge",
         job[j].status = "running", job'[j].status = "fail"
  PROVE  FinalStatus(j) = "fail"
<1> USE DEF rowVars, remoteVars
<1>0. job \in [Job -> JobRow] /\ job' # job
  BY DEF TypeOK
<1>1. ASSUME NEW w \in Worker, WebStep(w) PROVE FALSE
  <2>1. ASSUME NEW s \in {"unknown", "deleted"}, job'[j] \in {job[j], Closed(job[j], s)}
        PROVE  FALSE
    BY <1>0, <2>1 DEF Closed, JobRow
  <2>2. ASSUME NEW a \in Action, Admit(w, a) PROVE FALSE
    BY <2>1, <2>2, ReleaseCloses DEF Admit
  <2>3. CASE Reserve(w)
    BY <1>0, <2>3 DEF Reserve
  <2>4. CASE LaunchFails(w)
    <3>1. web[w].job # j
      BY <2>4 DEF LaunchFails, JobInv, ReservedInv
    <3> QED BY <1>0, <2>4, <3>1 DEF LaunchFails
  <2>5. CASE Poll(w)
    BY <2>1, <2>5, ReleaseCloses DEF Poll
  <2>6. CASE Delete(w)
    BY <2>1, <2>6 DEF Delete
  <2>7. CASE Conflict(w) \/ Launch(w) \/ Edit(w) \/ Legacy(w) \/ Respond(w) \/ Crash(w)
             \/ \E k \in Kind : Guard(w, k)
    BY <1>0, <2>7 DEF Conflict, Launch, Edit, Legacy, Respond, Crash, Guard
  <2> QED BY <1>1, <2>2, <2>3, <2>4, <2>5, <2>6, <2>7 DEF WebStep
<1>2. CASE Tick
  BY <1>2, TickEffect
<1>3. ASSUME NEW k \in Job, RemoteStep(k) PROVE FALSE
  BY <1>0, <1>3 DEF RemoteStep, RemoteEnds
<1>4. ASSUME NEW k \in Job, ThreadStep(k) PROVE FinalStatus(j) = "fail"
  <2>1. ASSUME NEW s, Finish(k, s) PROVE k = j /\ s = "fail"
    <3>1. Save(k, "ok") /\ job' = [job EXCEPT ![k] = Closed(@, s)]
      BY <1>0, <2>1 DEF Finish
    <3>2. job'[k].status = s /\ \A i \in Job : i # k => job'[i] = job[i]
      BY <1>0, <3>1 DEF Closed, JobRow
    <3> QED BY <3>2
  <2>2. CASE Begin(k)
    BY <1>0, <2>2 DEF Begin
  <2>3. CASE DecideFinish(k)
    BY <2>1, <2>3 DEF DecideFinish, At
  <2>4. CASE Judge(k)
    BY <2>1, <2>4 DEF Judge, At
  <2>5. CASE Handler(k)
    <3>1. k # j
      BY <2>5 DEF Handler, At
    <3>2. \E row \in {job[k], Closed(job[k], "fail"), Rewritten(job[k], "unknown")} :
            job' = [job EXCEPT ![k] = row]
      BY <1>0, <2>5 DEF Handler
    <3> QED BY <1>0, <3>1, <3>2
  <2>6. CASE DecideAll(k) \/ DecideRaise(k) \/ Again(k)
    BY <1>0, <2>6 DEF DecideAll, DecideRaise, Again
  <2>7. ASSUME NEW n \in Node, NodeStep(k, n) PROVE FALSE
    BY <1>0, <2>7 DEF NodeStep, Observe, DecideOne, Send, Drain, Return
  <2> QED BY <1>4, <2>2, <2>3, <2>4, <2>5, <2>6, <2>7 DEF ThreadStep
<1>5. CASE UNCHANGED vars
  BY <1>0, <1>5 DEF vars
<1> QED BY <1>1, <1>2, <1>3, <1>4, <1>5 DEF Next

(***************************************************************************)
(* A verification that records FAIL leaves a command running only where    *)
(* the channel closed without an exit status: lost transports, timeouts    *)
(* and unread snapshots end as UNKNOWN.                                    *)
(***************************************************************************)
THEOREM LostIsUnknown == Spec => LostMeansUnknown
<1>1. TypeOK /\ JobInv /\ [Next]_vars =>
        [\A j \in Job : At(j, "judge") /\ job[j].status = "running"
                         /\ job'[j].status = "fail" =>
           \A n \in Node : Running(j, n) => thr[j].state[n] = "closed"]_vars
  <2> SUFFICES ASSUME TypeOK, JobInv, [Next]_vars, NEW j \in Job, At(j, "judge"),
                      job[j].status = "running", job'[j].status = "fail",
                      NEW n \in Node, Running(j, n)
               PROVE  thr[j].state[n] = "closed"
    OBVIOUS
  <2>1. FinalStatus(j) = "fail"
    BY FailComesFrom DEF At
  <2>2. FinalState(j, n) # "unknown"
    BY <2>1 DEF FinalStatus
  <2> QED BY <2>2, RunningIsMarked DEF At
<1> QED BY <1>1, TypeCorrect, JobsInvariant, PTL DEF Spec, LostMeansUnknown

(***************************************************************************)
(* The promise of the reservation                                          *)
(*                                                                         *)
(* JobPromise asks that a job whose outcome is recorded can send nothing   *)
(* more.  For PASS and FAIL this is part of JobInv: the thread is over.    *)
(* For UNKNOWN it rests on the times: a reservation is released when its   *)
(* request has been launched or is dead and its thread has no more than    *)
(* Margin left; the handler's own UNKNOWN ends its thread.                 *)
(***************************************************************************)

UnknownInv ==
  \A j \in Job : job[j].status = "unknown" => ~Reserved(j) /\ thr[j].left <= Margin

(* A reserved request is launched before its row can be stale.             *)
LEMMA StaleMeansLaunched ==
  ASSUME TypeOK, StaleInv, NEW j \in Job, Active(j), job[j].age > STALE_AFTER
  PROVE  ~Reserved(j) /\ thr[j].left <= Margin
<1>1. LeaseEnd <= STALE_AFTER /\ StartDelay <= STALE_AFTER
  BY StaleAssumption, Times DEF StaleAssumption, LeaseEnd
<1>2. ~Reserved(j)
  <2>1. ASSUME NEW w \in Worker, web[w].pc = "reserved", web[w].job = j PROVE FALSE
    BY <1>1, <2>1, Numbers, Times DEF StaleInv, LaunchInTime
  <2> QED BY <2>1 DEF Reserved
<1>3. thr[j].left <= Margin
  BY <1>1, Numbers, Times DEF StaleInv, WithinBudget, LeaseEnd
<1> QED BY <1>2, <1>3

(* Steps that gain nothing and whose new UNKNOWN rows, if any, are safe.   *)
LEMMA UnknownKeeps ==
  ASSUME TypeOK, UnknownInv, NothingGained,
         \A j \in Job : job'[j].status = "unknown" /\ job[j].status # "unknown" =>
           (~Reserved(j) /\ thr[j].left <= Margin) \/ (~Reserved(j) /\ thr'[j].left = 0)
  PROVE  UnknownInv'
<1> SUFFICES ASSUME NEW j \in Job, job'[j].status = "unknown"
             PROVE  ~Reserved(j)' /\ thr'[j].left <= Margin
  BY DEF UnknownInv
<1>1. Reserved(j)' => Reserved(j)
  BY DEF NothingGained, Reserved
<1>2. thr'[j].left \in 0 .. thr[j].left /\ thr[j].left \in Nat
  BY Numbers DEF NothingGained
<1>3. ~Reserved(j) /\ (thr[j].left <= Margin \/ thr'[j].left = 0)
  BY DEF UnknownInv
<1> QED BY <1>1, <1>2, <1>3, Times

LEMMA WebKeepsUnknown ==
  ASSUME TypeOK, StaleInv, JobInv, UnknownInv, NEW w \in Worker, WebStep(w)
  PROVE  UnknownInv'
<1> USE DEF rowVars, remoteVars
<1>0. job \in [Job -> JobRow] /\ web \in [Worker -> Request] /\ thr \in [Job -> Thread]
  BY DEF TypeOK
<1>1. CASE Reserve(w)
  <2> SUFFICES ASSUME NEW k \in Job, job'[k].status = "unknown"
               PROVE  ~Reserved(k)' /\ thr'[k].left <= Margin
    BY DEF UnknownInv
  <2>1. k # created + 1 /\ job'[k] = job[k]
    BY <1>0, <1>1 DEF Reserve
  <2>2. Reserved(k)' => Reserved(k)
    BY <1>0, <1>1, <2>1 DEF Reserve, Reserved, Request
  <2> QED BY <1>1, <2>1, <2>2 DEF UnknownInv, Reserve
<1>2. CASE Launch(w)
  <2> SUFFICES ASSUME NEW k \in Job, job[k].status = "unknown"
               PROVE  ~Reserved(k)' /\ thr'[k].left <= Margin
    BY <1>2 DEF UnknownInv, Launch
  <2>1. ~Reserved(k) /\ thr[k].left <= Margin
    BY DEF UnknownInv
  <2>2. k # web[w].job
    BY <1>2, <2>1 DEF Launch, Reserved
  <2>3. Reserved(k)' => Reserved(k)
    BY <1>0, <1>2 DEF Launch, Reserved, NoRequest
  <2>4. thr'[k] = thr[k]
    BY <1>0, <1>2, <2>2 DEF Launch
  <2> QED BY <2>1, <2>3, <2>4
<1>3. CASE ~Reserve(w) /\ ~Launch(w)
  <2>1. NothingGained
    BY <1>3, WebGains
  <2>2. ASSUME job' = ReleaseStale(job) PROVE UnknownInv'
    <3>1. \A j \in Job : job'[j].status = "unknown" /\ job[j].status # "unknown" =>
            Active(j) /\ job[j].age > STALE_AFTER
      BY <2>2, ReleaseCloses
    <3> QED BY <2>1, <3>1, StaleMeansLaunched, UnknownKeeps
  <2>3. ASSUME NEW a \in Action, Admit(w, a) PROVE UnknownInv'
    BY <2>2, <2>3 DEF Admit
  <2>4. CASE Poll(w)
    BY <2>2, <2>4 DEF Poll
  <2>5. CASE LaunchFails(w)
    <3>1. \A j \in Job : job'[j].status = "unknown" => job[j].status = "unknown"
      BY <1>0, <2>5 DEF LaunchFails, Rewritten, Closed, JobRow
    <3> QED BY <2>1, <3>1, UnknownKeeps
  <2>6. CASE Delete(w)
    <3>1. \A j \in Job : job'[j].status = "unknown" => job[j].status = "unknown"
      BY <1>0, <2>6 DEF Delete, Closed, JobRow
    <3> QED BY <2>1, <3>1, UnknownKeeps
  <2>7. CASE Conflict(w) \/ Edit(w) \/ Legacy(w) \/ Respond(w) \/ Crash(w)
             \/ \E k \in Kind : Guard(w, k)
    <3>1. job' = job
      BY <2>7 DEF Conflict, Edit, Legacy, Respond, Crash, Guard
    <3> QED BY <2>1, <3>1, UnknownKeeps
  <2> QED BY <1>3, <2>3, <2>4, <2>5, <2>6, <2>7 DEF WebStep
<1> QED BY <1>1, <1>2, <1>3

LEMMA ThreadKeepsUnknown ==
  ASSUME TypeOK, JobInv, UnknownInv, NEW j \in Job, ThreadStep(j)
  PROVE  UnknownInv'
<1> USE DEF rowVars, remoteVars
<1>0. job \in [Job -> JobRow] /\ thr \in [Job -> Thread]
  BY DEF TypeOK
<1>1. ASSUME NEW n \in Node, Send(j, n) PROVE UnknownInv'
  BY <1>1 DEF Send, UnknownInv, Reserved
<1>2. CASE \A n \in Node : ~Send(j, n)
  <2>1. NothingGained
    BY <1>2, ThreadGains
  <2>2. ASSUME \A k \in Job : job'[k].status = "unknown" => job[k].status = "unknown"
        PROVE  UnknownInv'
    BY <2>1, <2>2, UnknownKeeps
  <2>3. ASSUME EndThread(j), thr[j].pc # "none",
               \A k \in Job : k # j => job'[k] = job[k]
        PROVE  UnknownInv'
    <3>1. thr'[j].left = 0
      BY <1>0, <2>3 DEF EndThread, NoThread
    <3>2. ~Reserved(j)
      BY <2>3, NotReserved
    <3> QED BY <2>1, <2>3, <3>1, <3>2, UnknownKeeps
  <2>4. ASSUME NEW s, Finish(j, s), thr[j].pc # "none" PROVE UnknownInv'
    <3>1. CASE job' = [job EXCEPT ![j] = Closed(@, s)] /\ EndThread(j)
      BY <1>0, <2>3, <2>4, <3>1
    <3>2. CASE UNCHANGED job
      BY <2>2, <3>2
    <3> QED BY <2>4, <3>1, <3>2 DEF Finish
  <2>5. CASE Begin(j)
    <3>1. \A k \in Job : job'[k].status = "unknown" => job[k].status = "unknown"
      BY <1>0, <2>5 DEF Begin, JobRow
    <3> QED BY <2>2, <3>1
  <2>6. CASE DecideFinish(j) \/ Judge(j)
    BY <2>4, <2>6 DEF DecideFinish, Judge, At
  <2>7. CASE Handler(j)
    <3>1. \A k \in Job : k # j => job'[k] = job[k]
      BY <1>0, <2>7 DEF Handler
    <3> QED BY <2>3, <2>7, <3>1 DEF Handler, At
  <2>8. CASE DecideAll(j) \/ DecideRaise(j) \/ Again(j)
    BY <2>2, <2>8 DEF DecideAll, DecideRaise, Again
  <2>9. ASSUME NEW n \in Node, NodeStep(j, n) PROVE UnknownInv'
    <3>1. job' = job
      BY <2>9 DEF NodeStep, Observe, DecideOne, Send, Drain, Return
    <3> QED BY <2>2, <3>1
  <2> QED BY <2>5, <2>6, <2>7, <2>8, <2>9 DEF ThreadStep
<1> QED BY <1>1, <1>2

LEMMA UnknownAlways == Spec => []UnknownInv
<1>1. Init => UnknownInv
  BY DEF Init, UnknownInv, NoRow
<1>2. TypeOK /\ StaleInv /\ JobInv /\ UnknownInv /\ [Next]_vars => UnknownInv'
  <2> SUFFICES ASSUME TypeOK, StaleInv, JobInv, UnknownInv, [Next]_vars PROVE UnknownInv'
    OBVIOUS
  <2>1. CASE Tick
    <3> SUFFICES ASSUME NEW j \in Job, job'[j].status = "unknown"
                 PROVE  ~Reserved(j)' /\ thr'[j].left <= Margin
      BY DEF UnknownInv
    <3>1. /\ job[j].status = "unknown" /\ thr'[j].left \in 0 .. thr[j].left
          /\ web' = web
      BY <2>1, TickEffect
    <3>2. ~Reserved(j) /\ thr[j].left <= Margin /\ thr[j].left \in Nat
      BY <3>1, Numbers DEF UnknownInv
    <3> QED BY <3>1, <3>2, Times DEF Reserved
  <2>2. ASSUME NEW w \in Worker, WebStep(w) PROVE UnknownInv'
    BY <2>2, WebKeepsUnknown
  <2>3. ASSUME NEW j \in Job, ThreadStep(j) PROVE UnknownInv'
    BY <2>3, ThreadKeepsUnknown
  <2>4. ASSUME NEW j \in Job, RemoteStep(j) PROVE UnknownInv'
    BY <2>4 DEF RemoteStep, RemoteEnds, rowVars, UnknownInv, Reserved
  <2>5. CASE UNCHANGED vars
    BY <2>5 DEF vars, UnknownInv, Reserved
  <2> QED BY <2>1, <2>2, <2>3, <2>4, <2>5 DEF Next
<1> QED BY <1>1, <1>2, TypeCorrect, StaleAlways, JobsInvariant, PTL DEF Spec

(* A closed job may send nothing.                                          *)
ClosedSendsNothing ==
  \A j \in Job : job[j].status \in {"pass", "fail", "unknown"} => May(j) = {}

LEMMA ClosedIsOver ==
  ASSUME TypeOK, JobInv, UnknownInv
  PROVE  ClosedSendsNothing
<1> SUFFICES ASSUME NEW j \in Job, job[j].status \in {"pass", "fail", "unknown"}
             PROVE  May(j) = {}
  BY DEF ClosedSendsNothing
<1>1. ~Reserved(j) /\ thr[j].left <= Margin
  <2>1. CASE job[j].status = "unknown"
    BY <2>1 DEF UnknownInv
  <2>2. CASE job[j].status \in {"pass", "fail"}
    <3>1. ~Reserved(j)
      BY <2>2 DEF JobInv, ReservedInv, Reserved
    <3>2. thr[j].left = 0
      BY <2>2 DEF JobInv, OwnInv, ThreadInv
    <3> QED BY <3>1, <3>2, Times
  <2> QED BY <2>1, <2>2
<1> QED BY <1>1 DEF May

(* The nodes a job may still command, by cases.                            *)
LEMMA MayIs ==
  ASSUME TypeOK, NEW j \in Job
  PROVE  /\ May(j) \subseteq Node
         /\ job[j].action \notin Mutation => May(j) = {}
         /\ job[j].action \in Mutation /\ Reserved(j) => May(j) = Node
         /\ ~Reserved(j) /\ thr[j].left <= Margin => May(j) = {}
         /\ ~Reserved(j) /\ ~MaySend(j) => May(j) = {}
         /\ job[j].action \in Mutation /\ ~Reserved(j) /\ ~(thr[j].left <= Margin)
              /\ MaySend(j) /\ ~Executing(j) => May(j) = Node
         /\ job[j].action \in Mutation /\ ~Reserved(j) /\ ~(thr[j].left <= Margin)
              /\ Executing(j) => May(j) = {n \in thr[j].todo : cmd[j][n] = "none"}
<1>1. thr[j].todo \subseteq Node
  BY DEF TypeOK, Thread
<1> QED BY <1>1 DEF May, MaySend

(* A job can send no more than before: its request was reserved, or its    *)
(* time has not grown and its thread has not come nearer to a command.     *)
Narrows(j) ==
  /\ job'[j].action = job[j].action
  /\ Reserved(j)' => Reserved(j)
  /\ \/ Reserved(j)
     \/ /\ thr'[j].left <= thr[j].left
        /\ \/ ~MaySend(j)'
           \/ MaySend(j) /\ ~Executing(j)
           \/ /\ Executing(j) /\ Executing(j)'
              /\ \A n \in thr'[j].todo :
                   n \in thr[j].todo /\ (cmd'[j][n] = "none" => cmd[j][n] = "none")

LEMMA MayNarrows ==
  ASSUME TypeOK, TypeOK', NEW j \in Job, Narrows(j)
  PROVE  May(j)' \subseteq May(j)
<1>1. May(j)' \subseteq Node
  <2>1. thr'[j].todo \subseteq Node
    BY DEF TypeOK, Thread
  <2> QED BY <2>1 DEF May
<1>2. CASE job[j].action \notin Mutation
  BY <1>2 DEF May, Narrows
<1>3. CASE job[j].action \in Mutation /\ Reserved(j)
  BY <1>1, <1>3, MayIs
<1>4. CASE job[j].action \in Mutation /\ ~Reserved(j)
  <2>1. ~Reserved(j)' /\ job'[j].action \in Mutation /\ thr'[j].left <= thr[j].left
    BY <1>4 DEF Narrows
  <2>2. thr[j].left \in Nat /\ thr'[j].left \in Nat
    <3>1. thr[j] \in Thread /\ thr'[j] \in Thread
      BY DEF TypeOK
    <3> QED BY <3>1, Times DEF Thread
  <2>3. CASE thr'[j].left <= Margin
    BY <2>1, <2>3 DEF May
  <2>4. CASE ~(thr'[j].left <= Margin)
    <3>1. ~(thr[j].left <= Margin)
      BY <2>1, <2>2, <2>4, Times
    <3>2. CASE ~MaySend(j)'
      BY <2>1, <3>2 DEF May, MaySend
    <3>3. CASE MaySend(j) /\ ~Executing(j)
      BY <1>1, <1>4, <3>1, <3>3, MayIs
    <3>4. CASE /\ Executing(j) /\ Executing(j)'
               /\ \A n \in thr'[j].todo :
                    n \in thr[j].todo /\ (cmd'[j][n] = "none" => cmd[j][n] = "none")
      <4>1. May(j)' = {n \in thr'[j].todo : cmd'[j][n] = "none"}
        BY <2>1, <2>4, <3>4 DEF May
      <4>2. May(j) = {n \in thr[j].todo : cmd[j][n] = "none"}
        BY <1>4, <3>1, <3>4, MayIs
      <4> QED BY <3>4, <4>1, <4>2
    <3> QED BY <1>4, <3>2, <3>3, <3>4 DEF Narrows
  <2> QED BY <2>3, <2>4
<1> QED BY <1>2, <1>3, <1>4

(***************************************************************************)
(* The moves of JobPromise, in terms of jobs.                              *)
(***************************************************************************)

(* No job can send more, and no command starts.                            *)
Calm == \A j \in Job : May(j)' \subseteq May(j) /\ \A n \in Node : Running(j, n)' => Running(j, n)

LEMMA CalmSettles == Calm <=> Promise!Settled
BY DEF Calm, Promise!Settled

LEMMA SettleMove ==
  ASSUME Calm, \A j \in Job : Outcome(j)' = Outcome(j)
  PROVE  Promise!PromiseNext
BY CalmSettles DEF Promise!PromiseNext, Promise!Settle

LEMMA CloseMove ==
  ASSUME Calm, NEW j \in Job, NEW r \in {"pass", "fail", "unknown"},
         Outcome(j) = "open", Outcome(j)' = r, r = "pass" => Quiet(j), May(j)' = {},
         \A k \in Job : k # j => Outcome(k)' = Outcome(k)
  PROVE  Promise!PromiseNext
<1>1. r = "pass" => {n \in Node : Running(j, n)} = {}
  BY DEF Quiet
<1>2. Promise!Close(j, r)
  BY <1>1, CalmSettles DEF Promise!Close
<1> QED BY <1>2 DEF Promise!PromiseNext, Promise!Result

LEMMA VanishMove ==
  ASSUME \A j \in Job : May(j)' = May(j) /\ \A n \in Node : Running(j, n)' <=> Running(j, n),
         \A j \in Job : Outcome(j)' = IF Outcome(j) = "none" THEN "none" ELSE "gone"
  PROVE  Promise!PromiseNext
BY DEF Promise!PromiseNext, Promise!Vanish

LEMMA AcceptMove ==
  ASSUME NEW j \in Job, Outcome(j) = "none", \A k \in Job : Outcome(k) # "open",
         Outcome(j)' = "open", May(j)' \subseteq Node,
         \A k \in Job : k # j => Outcome(k)' = Outcome(k) /\ May(k)' = May(k),
         \A k \in Job, n \in Node : Running(k, n)' <=> Running(k, n)
  PROVE  Promise!PromiseNext
<1>1. Promise!Accept(j)
  BY DEF Promise!Accept
<1> QED BY <1>1 DEF Promise!PromiseNext

LEMMA CommandMove ==
  ASSUME NEW j \in Job, NEW n \in Node, Outcome(j) \in {"open", "gone"}, n \in May(j),
         May(j)' = May(j) \ {n}, \A k \in Job : Outcome(k)' = Outcome(k),
         \A k \in Job : k # j => May(k)' = May(k),
         \A k \in Job, m \in Node : Running(k, m)' <=> Running(k, m) \/ (k = j /\ m = n)
  PROVE  Promise!PromiseNext
<1>1. Promise!Command(j, n)
  BY DEF Promise!Command
<1> QED BY <1>1 DEF Promise!PromiseNext

(* Where a step leaves a job: its request was reserved, or its thread has  *)
(* not come nearer to a command.                                           *)
Retreats(j) ==
  \/ Reserved(j)
  \/ ~MaySend(j)'
  \/ MaySend(j) /\ ~Executing(j)
  \/ /\ Executing(j) /\ Executing(j)'
     /\ \A n \in thr'[j].todo :
          n \in thr[j].todo /\ (cmd'[j][n] = "none" => cmd[j][n] = "none")

LEMMA StayingRetreats ==
  ASSUME NEW j \in Job, thr'[j] = thr[j], cmd'[j] = cmd[j]
  PROVE  Retreats(j)
BY DEF Retreats, MaySend, Executing

LEMMA RetreatCalms ==
  ASSUME TypeOK, TypeOK', NothingGained,
         \A j \in Job : job'[j].action = job[j].action /\ Retreats(j)
  PROVE  Calm
<1>1. ASSUME NEW j \in Job PROVE May(j)' \subseteq May(j)
  <2>1. Reserved(j)' => Reserved(j)
    BY DEF NothingGained, Reserved
  <2>2. thr'[j].left <= thr[j].left
    BY Numbers DEF NothingGained
  <2>3. Narrows(j)
    BY <2>1, <2>2 DEF Narrows, Retreats
  <2> QED BY <2>3, MayNarrows
<1>2. \A j \in Job, n \in Node : Running(j, n)' => Running(j, n)
  BY DEF NothingGained, Running
<1> QED BY <1>1, <1>2 DEF Calm

(* A thread's step that sends nothing lets its job send no more.           *)
LEMMA ThreadRetreats ==
  ASSUME TypeOK, NEW j \in Job, ThreadStep(j), \A n \in Node : ~Send(j, n)
  PROVE  \A k \in Job : Retreats(k)
<1> USE DEF rowVars, remoteVars
<1>0. /\ thr \in [Job -> Thread] /\ thr[j] \in Thread
      /\ cmd \in [Job -> [Node -> {"none", "running", "ok", "failed", "killed"}]]
  BY DEF TypeOK
<1>1. ASSUME EndThread(j), \A k \in Job : k # j => cmd'[k] = cmd[k]
      PROVE  \A k \in Job : Retreats(k)
  <2>1. thr'[j].pc = "none" /\ \A k \in Job : k # j => thr'[k] = thr[k]
    BY <1>0, <1>1 DEF EndThread, NoThread
  <2>2. Retreats(j)
    BY <2>1 DEF Retreats, MaySend, Executing
  <2> QED BY <1>1, <2>1, <2>2, StayingRetreats
<1>2. ASSUME NEW y, Goto(j, y), \A k \in Job : k # j => cmd'[k] = cmd[k],
             \/ y.pc \notin {"begin", "preflight", "decide", "execute", "drainStop", "drainError"}
             \/ thr[j].pc \in {"begin", "preflight", "decide"}
             \/ /\ Executing(j) /\ y.pc \in {"execute", "drainStop", "drainError"}
                /\ \A n \in y.todo :
                     n \in thr[j].todo /\ (cmd'[j][n] = "none" => cmd[j][n] = "none")
      PROVE  \A k \in Job : Retreats(k)
  <2>1. thr'[j] = y /\ \A k \in Job : k # j => thr'[k] = thr[k]
    BY <1>0, <1>2 DEF Goto
  <2>2. Retreats(j)
    BY <1>2, <2>1 DEF Retreats, MaySend, Executing
  <2> QED BY <1>2, <2>1, <2>2, StayingRetreats
<1>3. ASSUME thr[j].pc \in {"begin", "preflight", "decide"}, cmd' = cmd,
             \A k \in Job : k # j => thr'[k] = thr[k]
      PROVE  \A k \in Job : Retreats(k)
  <2>1. Retreats(j)
    BY <1>3 DEF Retreats, MaySend, Executing
  <2> QED BY <1>3, <2>1, StayingRetreats
<1>4. ASSUME NEW s, Finish(j, s), cmd' = cmd PROVE \A k \in Job : Retreats(k)
  <2>1. [thr[j] EXCEPT !.pc = "handler"].pc = "handler"
    BY <1>0 DEF Thread
  <2> QED BY <1>1, <1>2, <1>4, <2>1 DEF Finish
<1>5. ASSUME NEW t, NEW p, NEW q, AfterSave(j, t, p, q)
      PROVE  \A k \in Job : k # j => thr'[k] = thr[k]
  BY <1>0, <1>5, AfterSaveCases DEF Goto, EndThread
<1>6. CASE Begin(j)
  BY <1>3, <1>5, <1>6 DEF Begin, At
<1>7. CASE DecideFinish(j)
  BY <1>4, <1>7 DEF DecideFinish
<1>8. CASE DecideAll(j)
  BY <1>3, <1>5, <1>8 DEF DecideAll, At, Execute
<1>9. CASE DecideRaise(j)
  BY <1>0, <1>3, <1>9 DEF DecideRaise, At, Goto
<1>10. CASE Again(j)
  <2> DEFINE x == [Forget(thr[j]) EXCEPT !.pc = "verify", !.todo = Node]
  <2>1. Forget(thr[j]) \in Thread
    BY <1>0, ThreadTypes
  <2>2. x.pc = "verify" /\ [x EXCEPT !.pc = "handler"].pc = "handler"
    BY <2>1 DEF Thread
  <2>3. AfterSave(j, x, "none", "handler") /\ cmd' = cmd
    BY <1>10 DEF Again
  <2> HIDE DEF x
  <2>4. Goto(j, x) \/ EndThread(j) \/ Goto(j, [x EXCEPT !.pc = "handler"])
    BY <2>3, AfterSaveCases, Zenon
  <2>5. CASE Goto(j, x)
    BY <1>2, <2>2, <2>3, <2>5
  <2>6. CASE EndThread(j)
    BY <1>1, <2>3, <2>6
  <2>7. CASE Goto(j, [x EXCEPT !.pc = "handler"])
    BY <1>2, <2>2, <2>3, <2>7
  <2> QED BY <2>4, <2>5, <2>6, <2>7
<1>11. CASE Judge(j)
  BY <1>4, <1>11 DEF Judge
<1>12. CASE Handler(j)
  BY <1>1, <1>12 DEF Handler
<1>13. ASSUME NEW n \in Node, NodeStep(j, n) PROVE \A k \in Job : Retreats(k)
  <2>1. CASE Observe(j, n)
    <3>1. cmd' = cmd
      BY <2>1 DEF Observe
    <3>2. CASE EndThread(j)
      BY <1>1, <3>1, <3>2
    <3>3. ASSUME NEW y, ObservedAs(j, n, y), Goto(j, y) PROVE \A k \in Job : Retreats(k)
      <4>1. \/ thr[j].pc = "preflight"
            \/ y.pc \in {"handler", "verify", "judge"}
        BY <2>1, <3>3, ObserveEffect DEF ObservedAs
      <4>2. CASE thr[j].pc = "preflight"
        BY <1>2, <3>1, <3>3, <4>2
      <4>3. CASE y.pc \in {"handler", "verify", "judge"}
        BY <1>2, <3>1, <3>3, <4>3
      <4> QED BY <4>1, <4>2, <4>3
    <3> QED BY <2>1, <3>2, <3>3, ObserveEffect
  <2>2. CASE DecideOne(j, n)
    BY <1>3, <1>5, <2>2 DEF DecideOne, At, Execute
  <2>3. CASE Drain(j, n)
    <3>1. /\ \A k \in Job : k # j => cmd'[k] = cmd[k]
          /\ \A m \in Node : m # n => cmd'[j][m] = cmd[j][m]
          /\ Executing(j) /\ thr[j].todo \subseteq Node
      BY <1>0, <2>3 DEF Drain, Executing, Thread
    <3>2. CASE EndThread(j)
      BY <1>1, <3>1, <3>2
    <3>3. CASE Goto(j, [thr[j] EXCEPT !.todo = @ \ {n}])
      <4>1. /\ [thr[j] EXCEPT !.todo = @ \ {n}].pc = thr[j].pc
            /\ [thr[j] EXCEPT !.todo = @ \ {n}].todo = thr[j].todo \ {n}
        BY <1>0 DEF Thread
      <4>2. \A m \in thr[j].todo \ {n} :
              m \in thr[j].todo /\ (cmd'[j][m] = "none" => cmd[j][m] = "none")
        BY <3>1
      <4> QED BY <1>2, <3>1, <3>3, <4>1, <4>2 DEF Executing
    <3>4. CASE Goto(j, [thr[j] EXCEPT !.todo = {}, !.pc = "handler"])
      <4>1. [thr[j] EXCEPT !.todo = {}, !.pc = "handler"].pc = "handler"
        BY <1>0 DEF Thread
      <4> QED BY <1>2, <3>1, <3>4, <4>1
    <3> QED BY <2>3, <3>2, <3>3, <3>4 DEF Drain
  <2>4. ASSUME NEW c \in {"ok", "failed", "killed", "lost", "closed"}, Return(j, n, c)
        PROVE  \A k \in Job : Retreats(k)
    <3>1. /\ \A k \in Job : k # j => cmd'[k] = cmd[k]
          /\ \A m \in Node : m # n => cmd'[j][m] = cmd[j][m]
          /\ Executing(j) /\ thr[j].todo \subseteq Node
      BY <1>0, <2>4 DEF Return, At, Executing, Thread
    <3>2. CASE EndThread(j)
      BY <1>1, <3>1, <3>2
    <3>3. ASSUME NEW y, ReturnedAs(j, n, c, y), Goto(j, y) PROVE \A k \in Job : Retreats(k)
      <4>1. \/ y.pc \in {"handler", "verify"}
            \/ /\ y.pc \in {"execute", "drainStop", "drainError"}
               /\ y.todo = thr[j].todo \ {n}
        BY <3>3 DEF ReturnedAs
      <4>2. \A m \in thr[j].todo \ {n} :
              m \in thr[j].todo /\ (cmd'[j][m] = "none" => cmd[j][m] = "none")
        BY <3>1
      <4> QED BY <1>2, <3>1, <3>3, <4>1, <4>2
    <3> QED BY <2>4, <3>2, <3>3, ReturnEffect
  <2> QED BY <1>13, <2>1, <2>2, <2>3, <2>4 DEF NodeStep
<1> QED BY <1>6, <1>7, <1>8, <1>9, <1>10, <1>11, <1>12, <1>13 DEF ThreadStep

(* The outcome of a job is a matter of its row alone.                      *)
LEMMA SameStatus ==
  ASSUME NEW j \in Job, job'[j].status = job[j].status
  PROVE  Outcome(j)' = Outcome(j)
BY DEF Outcome

(* A step that calms and changes the outcome of at most one open job.      *)
LEMMA RowMove ==
  ASSUME Calm, JobInv', ClosedSendsNothing', cmd' = cmd, NEW j \in Job,
         \A k \in Job : k # j => job'[k].status = job[k].status,
         \/ job'[j].status = job[j].status
         \/ /\ job[j].status \in {"queued", "running"}
            /\ job'[j].status \in {"queued", "running", "pass", "fail", "unknown"}
  PROVE  Promise!PromiseNext
<1>1. \A k \in Job : k # j => Outcome(k)' = Outcome(k)
  BY SameStatus
<1>2. CASE \/ job'[j].status = job[j].status
           \/ job[j].status \in {"queued", "running"} /\ job'[j].status \in {"queued", "running"}
  <2>1. Outcome(j)' = Outcome(j)
    BY <1>2 DEF Outcome
  <2> QED BY <1>1, <2>1, SettleMove
<1>3. CASE /\ job[j].status \in {"queued", "running"}
           /\ job'[j].status \in {"pass", "fail", "unknown"}
  <2>1. PICK r \in {"pass", "fail", "unknown"} : r = job'[j].status
    BY <1>3
  <2>2. Outcome(j) = "open" /\ Outcome(j)' = r
    BY <1>3, <2>1 DEF Outcome
  <2>3. May(j)' = {}
    BY <1>3 DEF ClosedSendsNothing
  <2>4. r = "pass" => Quiet(j)
    BY <2>1 DEF JobInv, OwnInv, CmdInv, Quiet, Running
  <2> QED BY <1>1, <2>2, <2>3, <2>4, CloseMove
<1> QED BY <1>2, <1>3

(* A thread's step changes no action and at most one open row, its own.    *)
LEMMA ThreadRows ==
  ASSUME TypeOK, JobInv, NEW j \in Job, ThreadStep(j)
  PROVE  /\ \A k \in Job : job'[k].action = job[k].action
         /\ \A k \in Job : k # j => job'[k].status = job[k].status
         /\ \/ job'[j].status = job[j].status
            \/ /\ cmd' = cmd
               /\ job[j].status \in {"queued", "running"}
               /\ job'[j].status \in {"queued", "running", "pass", "fail", "unknown"}
<1> USE DEF rowVars, remoteVars
<1>0. /\ job \in [Job -> JobRow] /\ thr \in [Job -> Thread]
      /\ Active(j) <=> job[j].status \in {"queued", "running"}
      /\ thr[j].pc # "none" => job[j].status \in {"queued", "running", "unknown", "deleted"}
  BY DEF TypeOK, JobInv, OwnInv, RowInv, ThreadInv
<1>1. ASSUME job' = job
      PROVE  /\ \A k \in Job : job'[k].action = job[k].action
             /\ \A k \in Job : job'[k].status = job[k].status
  BY <1>1
<1>2. ASSUME NEW row, job' = [job EXCEPT ![j] = row], row.action = job[j].action, cmd' = cmd,
             \/ row.status = job[j].status
             \/ /\ job[j].status \in {"queued", "running"}
                /\ row.status \in {"queued", "running", "pass", "fail", "unknown"}
      PROVE  /\ \A k \in Job : job'[k].action = job[k].action
             /\ \A k \in Job : k # j => job'[k].status = job[k].status
             /\ \/ job'[j].status = job[j].status
                \/ /\ cmd' = cmd
                   /\ job[j].status \in {"queued", "running"}
                   /\ job'[j].status \in {"queued", "running", "pass", "fail", "unknown"}
  <2>1. job'[j] = row /\ \A k \in Job : k # j => job'[k] = job[k]
    BY <1>0, <1>2
  <2> QED BY <1>2, <2>1
<1>3. \A s : Closed(job[j], s).action = job[j].action /\ Closed(job[j], s).status = s
  BY <1>0 DEF Closed, JobRow
<1>4. ASSUME NEW s \in {"pass", "fail", "unknown"}, Finish(j, s), cmd' = cmd
      PROVE  /\ \A k \in Job : job'[k].action = job[k].action
             /\ \A k \in Job : k # j => job'[k].status = job[k].status
             /\ \/ job'[j].status = job[j].status
                \/ /\ cmd' = cmd
                   /\ job[j].status \in {"queued", "running"}
                   /\ job'[j].status \in {"queued", "running", "pass", "fail", "unknown"}
  <2>1. CASE Save(j, "ok") /\ job' = [job EXCEPT ![j] = Closed(@, s)]
    <3>1. job[j].status \in {"queued", "running"}
      BY <1>0, <2>1 DEF Save, Owned
    <3> QED BY <1>2, <1>3, <1>4, <2>1, <3>1
  <2>2. CASE job' = job
    BY <1>1, <2>2
  <2> QED BY <1>4, <2>1, <2>2 DEF Finish
<1>5. CASE Begin(j)
  <2>1. CASE thr'[j].pc = "preflight"
    <3> DEFINE x == [thr[j] EXCEPT !.pc = "preflight", !.todo = Node]
    <3>1. [x EXCEPT !.pc = "handler"].pc = "handler" /\ NoThread.pc = "none"
      BY <1>0 DEF Thread, NoThread
    <3>2. AfterSave(j, x, "none", "handler")
      BY <1>5 DEF Begin
    <3> HIDE DEF x
    <3>3. \/ Owned(j) \/ EndThread(j) \/ Goto(j, [x EXCEPT !.pc = "handler"])
      BY <3>2, AfterSaveCases, Zenon
    <3>4. Owned(j)
      BY <1>0, <2>1, <3>1, <3>3 DEF EndThread, Goto
    <3>5. job' = [job EXCEPT ![j] = [job[j] EXCEPT !.status = "running"]]
          /\ [job[j] EXCEPT !.status = "running"].status = "running"
          /\ [job[j] EXCEPT !.status = "running"].action = job[j].action
          /\ cmd' = cmd
      BY <1>0, <1>5, <2>1 DEF Begin, JobRow
    <3> QED BY <1>0, <1>2, <3>4, <3>5 DEF Owned
  <2>2. CASE thr'[j].pc # "preflight"
    BY <1>1, <1>5, <2>2 DEF Begin
  <2> QED BY <2>1, <2>2
<1>6. CASE DecideFinish(j)
  BY <1>4, <1>6 DEF DecideFinish
<1>7. CASE Judge(j)
  <2>1. FinalStatus(j) \in {"pass", "fail", "unknown"}
    BY DEF FinalStatus
  <2> QED BY <1>4, <1>7, <2>1 DEF Judge
<1>8. CASE Handler(j)
  <2>1. cmd' = cmd /\ thr[j].pc = "handler"
    BY <1>8 DEF Handler, At
  <2>2. CASE Save(j, "ok") /\ job' = [job EXCEPT ![j] = Closed(@, "fail")]
    <3>1. job[j].status \in {"queued", "running"}
      BY <1>0, <2>2 DEF Save, Owned
    <3> QED BY <1>2, <1>3, <2>1, <2>2, <3>1
  <2>3. CASE job' = [job EXCEPT ![j] = Rewritten(@, "unknown")]
    <3>1. CASE job[j].status = "deleted"
      <4>1. job' = [job EXCEPT ![j] = job[j]]
        BY <2>3, <3>1 DEF Rewritten
      <4> QED BY <1>2, <2>1, <4>1
    <3>2. CASE job[j].status # "deleted"
      <4>1. job' = [job EXCEPT ![j] = Closed(job[j], "unknown")]
        BY <2>3, <3>2 DEF Rewritten
      <4>2. job[j].status \in {"queued", "running", "unknown"}
        BY <1>0, <2>1, <3>2
      <4> QED BY <1>2, <1>3, <2>1, <4>1, <4>2
    <3> QED BY <3>1, <3>2
  <2>4. CASE job' = job
    BY <1>1, <2>4
  <2> QED BY <1>8, <2>2, <2>3, <2>4 DEF Handler
<1>9. CASE DecideAll(j) \/ DecideRaise(j) \/ Again(j)
  BY <1>1, <1>9 DEF DecideAll, DecideRaise, Again
<1>10. ASSUME NEW n \in Node, NodeStep(j, n) PROVE job' = job
  BY <1>10 DEF NodeStep, Observe, DecideOne, Send, Drain, Return
<1> QED BY <1>1, <1>5, <1>6, <1>7, <1>8, <1>9, <1>10 DEF ThreadStep

(* Sending a script is the promise's Command.                              *)
LEMMA SendMove ==
  ASSUME TypeOK, JobInv, UnknownInv, NEW j \in Job, NEW n \in Node, Send(j, n)
  PROVE  Promise!PromiseNext
<1> USE DEF rowVars, remoteVars
<1>0. /\ thr[j] \in Thread
      /\ cmd \in [Job -> [Node -> {"none", "running", "ok", "failed", "killed"}]]
  BY DEF TypeOK
<1>1. /\ Executing(j) /\ thr[j].pc # "none" /\ n \in thr[j].todo /\ cmd[j][n] = "none"
      /\ thr[j].left > Margin
      /\ job' = job /\ thr' = thr /\ web' = web
      /\ cmd' = [cmd EXCEPT ![j][n] = "running"]
  BY DEF Send, Executing
<1>2. /\ job[j].action \in Mutation
      /\ job[j].status \in {"queued", "running", "unknown", "deleted"}
  BY <1>1 DEF JobInv, OwnInv, ThreadInv
<1>3. ~(thr[j].left <= Margin)
  BY <1>0, <1>1, Numbers, Times
<1>4. ~Reserved(j)
  BY <1>1, NotReserved
<1>5. job[j].status # "unknown"
  BY <1>3 DEF UnknownInv
<1>6. Outcome(j) \in {"open", "gone"}
  BY <1>2, <1>5 DEF Outcome
<1>7. May(j) = {m \in thr[j].todo : cmd[j][m] = "none"}
  BY <1>1, <1>2, <1>3, <1>4, MayIs
<1>8. /\ \A k \in Job : k # j => cmd'[k] = cmd[k]
      /\ \A m \in Node : cmd'[j][m] = IF m = n THEN "running" ELSE cmd[j][m]
      /\ thr[j].todo \subseteq Node
  BY <1>0, <1>1 DEF Thread
<1>9. May(j)' = {m \in thr[j].todo : cmd'[j][m] = "none"}
  BY <1>1, <1>2, <1>3, <1>4 DEF May, Reserved, Executing
<1>10. May(j)' = May(j) \ {n}
  BY <1>7, <1>8, <1>9
<1>11. \A k \in Job : k # j => May(k)' = May(k)
  BY <1>1, <1>8 DEF May, Reserved, Executing, MaySend
<1>12. \A k \in Job, m \in Node : Running(k, m)' <=> Running(k, m) \/ (k = j /\ m = n)
  BY <1>1, <1>8 DEF Running
<1>13. \A k \in Job : Outcome(k)' = Outcome(k)
  BY <1>1 DEF Outcome
<1>14. n \in May(j)
  BY <1>1, <1>7
<1> QED BY <1>6, <1>10, <1>11, <1>12, <1>13, <1>14, CommandMove

LEMMA ThreadMove ==
  ASSUME TypeOK, TypeOK', JobInv, JobInv', UnknownInv, ClosedSendsNothing',
         NEW j \in Job, ThreadStep(j)
  PROVE  Promise!PromiseNext
<1>1. ASSUME NEW n \in Node, Send(j, n) PROVE Promise!PromiseNext
  BY <1>1, SendMove
<1>2. CASE \A n \in Node : ~Send(j, n)
  <2>1. NothingGained /\ \A k \in Job : Retreats(k)
    BY <1>2, ThreadGains, ThreadRetreats
  <2>2. Calm
    BY <2>1, RetreatCalms, ThreadRows
  <2>3. CASE \A k \in Job : job'[k].status = job[k].status
    BY <2>2, <2>3, SameStatus, SettleMove
  <2>4. CASE cmd' = cmd
    BY <2>2, <2>4, ThreadRows, RowMove
  <2> QED BY <2>3, <2>4, ThreadRows
<1> QED BY <1>1, <1>2

(* The INSERT is the promise's Accept.                                     *)
LEMMA ReserveMove ==
  ASSUME TypeOK, TypeOK', JobInv, NEW w \in Worker, Reserve(w)
  PROVE  Promise!PromiseNext
<1>0. created + 1 \in Job
  BY Times DEF TypeOK, Job, Reserve
<1> PICK j \in Job : j = created + 1
  BY <1>0
<1>1. /\ created \in Nat /\ j > created
      /\ job \in [Job -> JobRow] /\ web \in [Worker -> Request]
  BY Times DEF TypeOK, Job, Reserve
<1>2. /\ job'[j].status = "queued"
      /\ \A k \in Job : k # j => job'[k] = job[k]
      /\ thr' = thr /\ cmd' = cmd
      /\ web[w].pc = "admitted" /\ web'[w].job = j
      /\ \A v \in Worker : v # w => web'[v] = web[v]
  BY <1>1 DEF Reserve, Request
<1>3. Outcome(j) = "none"
  BY <1>1 DEF JobInv, OwnInv, RowInv, Outcome
<1>4. \A k \in Job : Outcome(k) # "open"
  <2> SUFFICES ASSUME NEW k \in Job PROVE Outcome(k) # "open"
    OBVIOUS
  <2>1. job[k].status \notin {"queued", "running"}
    BY DEF JobInv, OwnInv, RowInv, Reserve, SomeActive
  <2>2. job[k].status \in Status
    BY DEF TypeOK, JobRow
  <2> QED BY <2>1, <2>2 DEF Outcome, Status
<1>5. Outcome(j)' = "open"
  BY <1>2 DEF Outcome
<1>6. May(j)' \subseteq Node
  <2>1. thr'[j].todo \subseteq Node
    BY DEF TypeOK, Thread
  <2> QED BY <2>1 DEF May
<1>7. \A k \in Job : k # j => Outcome(k)' = Outcome(k) /\ May(k)' = May(k)
  <2> SUFFICES ASSUME NEW k \in Job, k # j
               PROVE  Outcome(k)' = Outcome(k) /\ May(k)' = May(k)
    OBVIOUS
  <2>1. Reserved(k)' <=> Reserved(k)
    BY <1>2 DEF Reserved
  <2> QED BY <1>2, <2>1 DEF Outcome, May, Executing, MaySend
<1>8. \A k \in Job, n \in Node : Running(k, n)' <=> Running(k, n)
  BY <1>2 DEF Running
<1> QED BY <1>3, <1>4, <1>5, <1>6, <1>7, <1>8, AcceptMove

LEMMA LaunchMove ==
  ASSUME TypeOK, TypeOK', NEW w \in Worker, Launch(w)
  PROVE  Promise!PromiseNext
<1>1. /\ job' = job /\ cmd' = cmd /\ web[w].pc = "reserved"
      /\ \A k \in Job : k # web[w].job => thr'[k] = thr[k]
      /\ \A v \in Worker : web'[v].pc = "reserved" => web'[v] = web[v]
  BY DEF Launch, rowVars, remoteVars, NoRequest, TypeOK
<1>2. ASSUME NEW k \in Job PROVE May(k)' \subseteq May(k)
  <2>1. Reserved(k)' => Reserved(k)
    BY <1>1 DEF Reserved
  <2>2. CASE k = web[w].job
    <3>1. Reserved(k)
      BY <1>1, <2>2 DEF Reserved
    <3> QED BY <1>1, <2>1, <3>1, MayNarrows DEF Narrows
  <2>3. CASE k # web[w].job
    <3>1. thr'[k].left <= thr[k].left
      BY <1>1, <2>3, Numbers, Times
    <3>2. Retreats(k)
      BY <1>1, <2>3, StayingRetreats
    <3> QED BY <1>1, <2>1, <3>1, <3>2, MayNarrows DEF Narrows, Retreats
  <2> QED BY <2>2, <2>3
<1>3. Calm
  BY <1>1, <1>2 DEF Calm, Running
<1> QED BY <1>1, <1>3, SameStatus, SettleMove

(* Deleting the project is the promise's Vanish.                           *)
LEMMA DeleteMove ==
  ASSUME TypeOK, NEW w \in Worker, Delete(w)
  PROVE  Promise!PromiseNext
<1>1. /\ job \in [Job -> JobRow] /\ web \in [Worker -> Request]
      /\ thr' = thr /\ cmd' = cmd /\ web[w].pc = "delete" /\ web'[w] = NoRequest
      /\ \A v \in Worker : v # w => web'[v] = web[v]
  BY DEF TypeOK, Delete, remoteVars
<1>2. \A k \in Job : job'[k].action = job[k].action
        /\ job'[k].status = IF job[k].status = "absent" THEN "absent" ELSE "deleted"
  BY <1>1 DEF Delete, Closed, JobRow
<1>3. \A k \in Job : Reserved(k)' <=> Reserved(k)
  BY <1>1 DEF Reserved, NoRequest
<1>4. \A k \in Job : May(k)' = May(k) /\ \A n \in Node : Running(k, n)' <=> Running(k, n)
  BY <1>1, <1>2, <1>3 DEF May, Executing, MaySend, Running
<1>5. ASSUME NEW k \in Job
      PROVE  Outcome(k)' = IF Outcome(k) = "none" THEN "none" ELSE "gone"
  <2>1. job[k].status \in Status
    BY <1>1 DEF JobRow
  <2> QED BY <1>2, <2>1 DEF Outcome, Status
<1> QED BY <1>4, <1>5, VanishMove

(* A request's other steps.                                                *)
LEMMA RequestMove ==
  ASSUME TypeOK, TypeOK', JobInv, JobInv', UnknownInv, ClosedSendsNothing',
         NEW w \in Worker, WebStep(w), ~Reserve(w), ~Launch(w), ~Delete(w)
  PROVE  Promise!PromiseNext
<1> USE DEF rowVars, remoteVars
<1>0. /\ job \in [Job -> JobRow] /\ NothingGained
      /\ \A k \in Job : Active(k) <=> job[k].status \in {"queued", "running"}
  BY WebGains DEF TypeOK, JobInv, OwnInv, RowInv
<1>1. \A k \in Job : job'[k].action = job[k].action
  <2>1. CASE job' = ReleaseStale(job)
    BY <1>0, <2>1 DEF ReleaseStale, Closed, JobRow
  <2>2. CASE LaunchFails(w)
    BY <1>0, <2>2 DEF LaunchFails, Rewritten, Closed, JobRow
  <2>3. CASE job' = job
    BY <2>3
  <2> QED BY <2>1, <2>2, <2>3 DEF WebStep, Admit, Poll, Conflict, Guard, Edit, Legacy,
                                  Respond, Crash
<1>2. \A k \in Job : Retreats(k)
  <2>1. CASE Crash(w)
    <3> SUFFICES ASSUME NEW k \in Job PROVE Retreats(k)
      OBVIOUS
    <3>1. CASE w \in thr[k].host
      <4>1. thr'[k].pc = "none"
        BY <2>1, <3>1 DEF Crash, NoThread
      <4> QED BY <4>1 DEF Retreats, MaySend, Executing
    <3>2. CASE w \notin thr[k].host
      BY <2>1, <3>2, StayingRetreats DEF Crash
    <3> QED BY <3>1, <3>2
  <2>2. CASE thr' = thr /\ cmd' = cmd
    BY <2>2, StayingRetreats
  <2> QED BY <2>1, <2>2 DEF WebStep, Admit, Poll, LaunchFails, Conflict, Guard, Edit,
                            Legacy, Respond
<1>3. Calm
  BY <1>0, <1>1, <1>2, RetreatCalms
<1>4. ASSUME job' = ReleaseStale(job), cmd' = cmd PROVE Promise!PromiseNext
  <2>1. CASE \A k \in Job : job'[k] = job[k]
    BY <1>3, <2>1, SameStatus, SettleMove
  <2>2. ASSUME NEW j \in Job, job'[j] # job[j] PROVE Promise!PromiseNext
    <3>1. Active(j) /\ job'[j] = Closed(job[j], "unknown")
      BY <1>4, <2>2, ReleaseCloses
    <3>2. job[j].status \in {"queued", "running"} /\ job'[j].status = "unknown"
      BY <1>0, <3>1 DEF Closed, JobRow
    <3>3. ASSUME NEW k \in Job, k # j PROVE job'[k].status = job[k].status
      <4>1. ~Active(k)
        BY <3>1, <3>3 DEF JobInv, OwnInv, RowInv
      <4> QED BY <1>4, <4>1, ReleaseCloses
    <3> QED BY <1>3, <1>4, <3>2, <3>3, RowMove
  <2> QED BY <2>1, <2>2
<1>5. CASE LaunchFails(w)
  <2> DEFINE j == web[w].job
  <2>1. /\ j \in Job /\ Reserved(j) /\ job[j].status \in {"queued", "unknown", "deleted"}
    BY <1>5, Numbers, Times DEF JobInv, ReservedInv, Job, LaunchFails, Reserved
  <2>2. job[j].status \in {"queued", "deleted"}
    BY <2>1 DEF UnknownInv
  <2>3. /\ cmd' = cmd /\ \A k \in Job : k # j => job'[k] = job[k]
        /\ job'[j] = Rewritten(job[j], "fail")
    BY <1>0, <1>5, <2>1 DEF LaunchFails
  <2>4. \/ job'[j].status = job[j].status
        \/ job[j].status = "queued" /\ job'[j].status = "fail"
    BY <1>0, <2>1, <2>2, <2>3 DEF Rewritten, Closed, JobRow
  <2> HIDE DEF j
  <2>5. \A k \in Job : k # j => job'[k].status = job[k].status
    BY <2>3
  <2> QED BY <1>3, <2>1, <2>3, <2>4, <2>5, RowMove
<1>6. CASE job' = job
  BY <1>3, <1>6, SameStatus, SettleMove
<1> QED BY <1>4, <1>5, <1>6 DEF WebStep, Admit, Poll, Conflict, Guard, Edit, Legacy,
                                Respond, Crash

LEMMA RemoteMove ==
  ASSUME TypeOK, TypeOK', NEW j \in Job, RemoteStep(j)
  PROVE  Promise!PromiseNext
<1> PICK n \in Node, r \in {"ok", "failed", "killed"}, acted \in BOOLEAN :
      RemoteEnds(j, n, r, acted)
  BY DEF RemoteStep
<1>1. job' = job /\ thr' = thr
  BY DEF RemoteEnds, rowVars
<1>2. \A k \in Job : thr[k].todo \subseteq Node
  BY DEF TypeOK, Thread
<1>3. ASSUME NEW k \in Job PROVE Retreats(k)
  <2>1. CASE Executing(k)
    <3>1. ASSUME NEW m \in thr[k].todo, cmd'[k][m] = "none" PROVE cmd[k][m] = "none"
      <4>1. CASE <<k, m>> = <<j, n>>
        BY <2>1, <3>1, <4>1, RemoteSlots
      <4>2. CASE <<k, m>> # <<j, n>>
        BY <1>2, <3>1, <4>2, RemoteSlots
      <4> QED BY <4>1, <4>2
    <3> QED BY <1>1, <2>1, <3>1 DEF Retreats, Executing
  <2>2. CASE ~Executing(k)
    BY <1>1, <2>2 DEF Retreats, Executing, MaySend
  <2> QED BY <2>1, <2>2
<1>4. Calm
  BY <1>1, <1>3, RemoteGains, RetreatCalms
<1> QED BY <1>1, <1>4, SameStatus, SettleMove

LEMMA TickMove ==
  ASSUME TypeOK, TypeOK', Tick
  PROVE  Promise!PromiseNext
<1>1. ASSUME NEW k \in Job PROVE May(k)' \subseteq May(k)
  <2>1. /\ job'[k].action = job[k].action /\ thr'[k].pc = thr[k].pc
        /\ thr'[k].left \in 0 .. thr[k].left /\ thr'[k].todo = thr[k].todo
        /\ web' = web /\ thr[k].todo \subseteq Node
    BY TickEffect DEF TypeOK, Thread
  <2>2. thr'[k].left <= thr[k].left
    BY <2>1, Numbers
  <2>3. \A m \in Node : cmd'[k][m] = "none" =>
          cmd[k][m] = "none" \/ ~(Executing(k) /\ m \in thr[k].todo)
    BY TickEffect
  <2>4. Narrows(k)
    BY <2>1, <2>2, <2>3 DEF Narrows, Reserved, MaySend, Executing
  <2> QED BY <2>4, MayNarrows
<1>2. \A k \in Job, n \in Node : Running(k, n)' => Running(k, n)
  BY TickEffect DEF Running
<1>3. Calm
  BY <1>1, <1>2 DEF Calm
<1> QED BY <1>3, TickEffect, SameStatus, SettleMove

(***************************************************************************)
(* The jobs implement JobPromise: one open job at a time, a recorded       *)
(* outcome never changes, each job sends at most one command to a node,    *)
(* only while it is open or its project was deleted under it, and PASS is  *)
(* recorded only over finished commands.                                   *)
(***************************************************************************)
THEOREM PromiseKept == Spec => KeepsPromise
<1>1. Init => Promise!PromiseInit
  <2> SUFFICES ASSUME Init PROVE Promise!PromiseInit
    OBVIOUS
  <2>1. ASSUME NEW j \in Job
        PROVE  Outcome(j) = "none" /\ May(j) = {} /\ {n \in Node : Running(j, n)} = {}
    BY DEF Init, NoRow, Outcome, May, Mutation, NodeAction, Running
  <2> QED BY <2>1 DEF Promise!PromiseInit
<1>2. Spec => []ClosedSendsNothing
  BY ClosedIsOver, TypeCorrect, JobsInvariant, UnknownAlways, PTL
<1>3. /\ TypeOK /\ TypeOK' /\ JobInv /\ JobInv' /\ UnknownInv /\ ClosedSendsNothing'
      /\ [Next]_vars
      => [Promise!PromiseNext]_(Promise!pvars)
  <2> SUFFICES ASSUME TypeOK, TypeOK', JobInv, JobInv', UnknownInv, ClosedSendsNothing',
                      [Next]_vars
               PROVE  Promise!PromiseNext \/ UNCHANGED Promise!pvars
    OBVIOUS
  <2>1. CASE Tick
    BY <2>1, TickMove
  <2>2. ASSUME NEW w \in Worker, WebStep(w) PROVE Promise!PromiseNext
    BY <2>2, ReserveMove, LaunchMove, DeleteMove, RequestMove
  <2>3. ASSUME NEW j \in Job, ThreadStep(j) PROVE Promise!PromiseNext
    BY <2>3, ThreadMove
  <2>4. ASSUME NEW j \in Job, RemoteStep(j) PROVE Promise!PromiseNext
    BY <2>4, RemoteMove
  <2>5. CASE UNCHANGED vars
    BY <2>5 DEF vars, Promise!pvars, Outcome, May, Reserved, Executing, MaySend, Running
  <2> QED BY <2>1, <2>2, <2>3, <2>4, <2>5 DEF Next
<1> QED BY <1>1, <1>2, <1>3, TypeCorrect, JobsInvariant, UnknownAlways, PTL
        DEF Spec, KeepsPromise, Promise!PromiseSpec
=============================================================================
