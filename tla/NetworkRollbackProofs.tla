----------------------- MODULE NetworkRollbackProofs -----------------------
(***************************************************************************)
(* Theorems about NetworkRollback: its types; that a PASS is only recorded *)
(* for a profile that was reached, and that the rollback stays armed until *)
(* then, unless a request has cleaned up under another one; and, however   *)
(* requests overlap, what alone can leave the management interface without *)
(* a profile.                                                              *)
(***************************************************************************)
EXTENDS NetworkRollback, TLAPS

(* The same lines start every step of a worker.                            *)
LEMMA RequestTypes ==
  ASSUME TypeOK, NEW w \in Worker
  PROVE  /\ run[w] \in Request
         /\ NoRequest \in Request
         /\ \A p \in Pc : [run EXCEPT ![w].pc = p] \in [Worker -> Request]
         /\ \A r \in Request : [run EXCEPT ![w] = r] \in [Worker -> Request]
  BY DEF TypeOK, Request, NoRequest, Pc

(* Every variable keeps its type, however many workers serve the step and  *)
(* however the node is reached.                                            *)
THEOREM TypeCorrect == Spec => []TypeOK
<1>1. Init => TypeOK
  <2>1. NoRequest \in Request
    BY DEF Request, NoRequest, Pc
  <2> QED BY <2>1 DEF Init, TypeOK
<1>2. TypeOK /\ [Next]_vars => TypeOK'
  <2> SUFFICES ASSUME TypeOK, [Next]_vars PROVE TypeOK'
    OBVIOUS
  <2>0. /\ route' \in {"old", "same", "other"} /\ steady' \in BOOLEAN
        /\ crossed' \in BOOLEAN /\ bared' \in BOOLEAN
    <3>1. CASE \E w \in Worker : Cleanup(w) /\ UNCHANGED <<route, steady>>
      BY <3>1 DEF TypeOK, Cleanup
    <3>2. CASE EditNode /\ UNCHANGED steady
      BY <3>2 DEF TypeOK, EditNode
    <3>3. CASE UNCHANGED <<route, history, steady>>
      BY <3>3 DEF TypeOK, history
    <3> QED BY <3>1, <3>2, <3>3 DEF Next, vars, history
  <2> USE <2>0
  <2>1. ASSUME NEW w \in Worker, RequestStep(w) \/ Cleanup(w) PROVE TypeOK'
    <3>0. /\ run[w] \in Request
          /\ NoRequest \in Request
          /\ \A p \in Pc : [run EXCEPT ![w].pc = p] \in [Worker -> Request]
          /\ \A r \in Request : [run EXCEPT ![w] = r] \in [Worker -> Request]
      BY RequestTypes
    <3>1. CASE Connect(w)
      <4>1. [NoRequest EXCEPT !.pc = "inspect", !.via = recorded] \in Request
        BY DEF TypeOK, NoRequest, Request, Pc
      <4> QED BY <3>0, <3>1, <4>1 DEF Connect, TypeOK, nodeVars, Proves
    <3>2. CASE Inspect(w)
      <4>1. CASE Complies /\ private
        BY <3>0, <3>2, <4>1 DEF Inspect, Finish, TypeOK, nodeVars
      <4>2. CASE ~(Complies /\ private)
        <5>1. PICK p \in {"right", "change", "blocked"}, q \in {"private", "uuid"} :
                run' = [run EXCEPT ![w].pc = q, ![w].priv = p]
          BY <3>0, <3>2, <4>2 DEF Inspect
        <5>2. run' \in [Worker -> Request]
          BY <3>0, <5>1 DEF TypeOK, Request, Pc
        <5> QED BY <3>0, <3>2, <4>2, <5>2 DEF Inspect, TypeOK, nodeVars
      <4> QED BY <4>1, <4>2
    <3>3. CASE ReadUuid(w)
      <4>1. run' \in [Worker -> Request]
        BY <3>0, <3>3 DEF ReadUuid, TypeOK, Request, Pc
      <4> QED BY <3>0, <3>3, <4>1 DEF ReadUuid, TypeOK, nodeVars
    <3>4. CASE Cleanup(w)
      <4>1. "add" \in Pc
        BY DEF Pc
      <4>2. /\ active' \in {"old", "new", "none"}
            /\ old' \in {"auto", "candidate", "manual", "deleted"}
            /\ cand' \in {"absent", "candidate", "kept"}
            /\ verified' \in BOOLEAN
        BY <3>4 DEF Cleanup, TypeOK, Automatic
      <4> QED BY <3>0, <3>4, <4>1, <4>2 DEF Cleanup, Goto, TypeOK
    <3>5. CASE Add(w)
      <4>1. "schedule" \in Pc
        BY DEF Pc
      <4> QED BY <3>0, <3>5, <4>1 DEF Add, Goto, TypeOK
    <3>6. CASE Schedule(w)
      <4>1. "activate" \in Pc /\ run[w].uuid \in {"old", "gone"}
        BY <3>0 DEF Pc, Request
      <4> QED BY <3>0, <3>6, <4>1 DEF Schedule, ScheduleRollback, Goto, TypeOK
    <3>7. CASE Activate(w)
      <4>1. "reconnect" \in Pc
        BY DEF Pc
      <4> QED BY <3>0, <3>7, <4>1 DEF Activate, Goto, TypeOK
    <3>8. CASE Reconnect(w)
      <4>1. run' \in [Worker -> Request]
        BY <3>0, <3>8 DEF Reconnect, TypeOK, Request, Pc
      <4> QED BY <3>0, <3>8, <4>1 DEF Reconnect, TypeOK, nodeVars, Proves
    <3>9. CASE Cancel(w)
      <4>1. "archive" \in Pc
        BY DEF Pc
      <4>2. rollback' \in {"off", "armed", "firing", "loose"}
        BY <3>0, <3>9 DEF Cancel, TypeOK
      <4>3. run' \in [Worker -> Request] /\ old' \in {"auto", "candidate", "manual", "deleted"}
            /\ recorded' \in {"first", "new"}
        BY <3>0, <3>9, <4>1 DEF Cancel, Goto, Finish, TypeOK
      <4> QED BY <3>0, <3>9, <4>2, <4>3 DEF Cancel, TypeOK
    <3>10. CASE Archive(w)
      <4>1. "rename" \in Pc
        BY DEF Pc
      <4> QED BY <3>0, <3>10, <4>1 DEF Archive, Goto, TypeOK, Automatic
    <3>11. CASE Rename(w)
      <4>1. "private" \in Pc
        BY DEF Pc
      <4> QED BY <3>0, <3>11, <4>1 DEF Rename, Goto, TypeOK
    <3>12. CASE ChangePrivate(w)
      <4>1. "final" \in Pc
        BY DEF Pc
      <4> QED BY <3>0, <3>12, <4>1 DEF ChangePrivate, Goto, TypeOK
    <3>13. CASE Conclude(w)
      BY <3>0, <3>13 DEF Conclude, Finish, TypeOK, nodeVars
    <3>14. CASE Abandon(w)
      BY <3>0, <3>14 DEF Abandon, Finish, TypeOK, nodeVars
    <3>15. CASE Crash(w)
      BY <3>0, <3>15 DEF Crash, TypeOK, nodeVars
    <3> QED
      BY <2>1, <3>1, <3>2, <3>3, <3>4, <3>5, <3>6, <3>7, <3>8, <3>9, <3>10,
         <3>11, <3>12, <3>13, <3>14, <3>15 DEF RequestStep
  <2>2. CASE ActivationEnds
    BY <2>2 DEF ActivationEnds, TypeOK
  <2>3. CASE Fire
    BY <2>3 DEF Fire, TypeOK
  <2>4. CASE Restore
    BY <2>4 DEF Restore, TypeOK
  <2>5. CASE Reboot
    <3>1. run' \in [Worker -> Request]
      BY <2>5 DEF Reboot, TypeOK, Request
    <3> QED BY <2>5, <3>1 DEF Reboot, TypeOK, Automatic
  <2>6. CASE EditNode
    BY <2>6 DEF EditNode, TypeOK
  <2>7. CASE UNCHANGED vars
    BY <2>7 DEF vars, nodeVars, history, TypeOK
  <2> QED BY <2>1, <2>2, <2>3, <2>4, <2>5, <2>6, <2>7 DEF Next, NodeStep
<1> QED BY <1>1, <1>2, PTL DEF Spec

-----------------------------------------------------------------------------
(* Every request, however it overlaps with others                          *)

(* The steps from the deletion of a candidate to the renaming.             *)
Past == {"add", "schedule", "activate", "reconnect", "cancel", "archive", "rename"}

(* A request only gets there through the cleanup, and only there does it   *)
(* add or start a candidate.                                               *)
LEMMA PastComes ==
  ASSUME TypeOK, NEW w \in Worker, RequestStep(w)
  PROVE  /\ run'[w].pc \in Past => run[w].pc \in Past
         /\ run'[w].pc = "activate" => run[w].pc = "schedule"
         /\ \A v \in Worker : v # w => run'[v] = run[v]
         /\ At(w, "idle")' => run'[w] = NoRequest
         /\ old' = "candidate" => old = "candidate"
         /\ cand' = "absent" \/ cand # "absent" \/ run[w].pc \in Past
         /\ starting' => starting \/ run[w].pc \in Past
<1>0. /\ run[w] \in Request
      /\ NoRequest.pc = "idle"
      /\ run \in [Worker -> Request]
  BY RequestTypes DEF TypeOK, NoRequest
<1>1. ASSUME NEW p \in Pc, Goto(w, p)
      PROVE  run'[w].pc = p /\ \A v \in Worker : v # w => run'[v] = run[v]
  BY <1>0, <1>1 DEF Goto, Request
<1>2. ASSUME run' = [run EXCEPT ![w] = NoRequest]
      PROVE  run'[w] = NoRequest /\ \A v \in Worker : v # w => run'[v] = run[v]
  BY <1>0, <1>2
<1>3. CASE Connect(w)
  <2>1. /\ run'[w] = [NoRequest EXCEPT !.pc = "inspect", !.via = recorded]
        /\ \A v \in Worker : v # w => run'[v] = run[v]
    BY <1>0, <1>3 DEF Connect
  <2>2. run'[w].pc = "inspect"
    BY <2>1 DEF NoRequest
  <2> QED BY <1>0, <1>3, <2>1, <2>2 DEF Connect, nodeVars, Past, At
<1>4. CASE Inspect(w)
  <2>1. \A v \in Worker : v # w => run'[v] = run[v]
    BY <1>0, <1>4 DEF Inspect, Finish
  <2>2. run'[w] = NoRequest \/ run'[w].pc \in {"private", "uuid"}
    <3>1. CASE Complies /\ private
      BY <1>0, <1>4, <3>1 DEF Inspect, Finish
    <3>2. CASE ~(Complies /\ private)
      <4>1. PICK p \in {"right", "change", "blocked"}, q \in {"private", "uuid"} :
              run' = [run EXCEPT ![w].pc = q, ![w].priv = p]
        BY <1>4, <3>2 DEF Inspect
      <4> QED BY <1>0, <4>1 DEF Request
    <3> QED BY <3>1, <3>2
  <2> QED BY <1>0, <1>4, <2>1, <2>2 DEF Inspect, nodeVars, Past, At
<1>5. CASE ReadUuid(w)
  <2>1. run'[w].pc = "cleanup" /\ \A v \in Worker : v # w => run'[v] = run[v]
    BY <1>0, <1>5 DEF ReadUuid, Request
  <2> QED BY <1>0, <1>5, <2>1 DEF ReadUuid, nodeVars, Past, At
<1>6. CASE Add(w)
  <2>1. run'[w].pc = "schedule" /\ \A v \in Worker : v # w => run'[v] = run[v]
    BY <1>1, <1>6 DEF Add, Pc
  <2> QED BY <1>0, <1>6, <2>1 DEF Add, Past, At
<1>7. CASE Schedule(w)
  <2>1. run'[w].pc = "activate" /\ \A v \in Worker : v # w => run'[v] = run[v]
    BY <1>1, <1>7 DEF Schedule, Pc
  <2> QED BY <1>0, <1>7, <2>1 DEF Schedule, Past, At
<1>8. CASE Activate(w)
  <2>1. run'[w].pc = "reconnect" /\ \A v \in Worker : v # w => run'[v] = run[v]
    BY <1>1, <1>8 DEF Activate, Pc
  <2> QED BY <1>0, <1>8, <2>1 DEF Activate, Past, At
<1>9. CASE Reconnect(w)
  <2>1. run'[w].pc = "cancel" /\ \A v \in Worker : v # w => run'[v] = run[v]
    BY <1>0, <1>9 DEF Reconnect, Request
  <2> QED BY <1>0, <1>9, <2>1 DEF Reconnect, nodeVars, Past, At
<1>10. CASE Cancel(w)
  <2>1. \/ run'[w].pc = "archive" /\ \A v \in Worker : v # w => run'[v] = run[v]
        \/ run'[w] = NoRequest /\ \A v \in Worker : v # w => run'[v] = run[v]
    BY <1>1, <1>2, <1>10 DEF Cancel, Finish, Pc
  <2> QED BY <1>0, <1>10, <2>1 DEF Cancel, Past, At
<1>11. CASE Archive(w)
  <2>1. run'[w].pc = "rename" /\ \A v \in Worker : v # w => run'[v] = run[v]
    BY <1>1, <1>11 DEF Archive, Pc
  <2> QED BY <1>0, <1>11, <2>1 DEF Archive, Past, At
<1>12. CASE Rename(w)
  <2>1. run'[w].pc = "private" /\ \A v \in Worker : v # w => run'[v] = run[v]
    BY <1>1, <1>12 DEF Rename, Pc
  <2> QED BY <1>0, <1>12, <2>1 DEF Rename, Past, At
<1>13. CASE ChangePrivate(w)
  <2>1. run'[w].pc = "final" /\ \A v \in Worker : v # w => run'[v] = run[v]
    BY <1>1, <1>13 DEF ChangePrivate, Pc
  <2> QED BY <1>0, <1>13, <2>1 DEF ChangePrivate, Past, At
<1>14. CASE Conclude(w) \/ Abandon(w) \/ Crash(w)
  <2>1. run'[w] = NoRequest /\ \A v \in Worker : v # w => run'[v] = run[v]
    BY <1>2, <1>14 DEF Conclude, Abandon, Crash, Finish
  <2> QED BY <1>0, <1>14, <2>1 DEF Conclude, Abandon, Crash, nodeVars, Past, At
<1> QED
  BY <1>3, <1>4, <1>5, <1>6, <1>7, <1>8, <1>9, <1>10, <1>11, <1>12, <1>13, <1>14
     DEF RequestStep

(* A profile that bears the candidate's name from an earlier change has no *)
(* other candidate beside it, and no request is past the cleanup, which    *)
(* deletes it.  While nobody has cleaned up under another request, only    *)
(* one is past the cleanup.                                                *)
IdleInv == \A w \in Worker : At(w, "idle") => run[w] = NoRequest

NamedInv ==
  old = "candidate" =>
    cand = "absent" /\ ~starting /\ \A w \in Worker : run[w].pc \notin Past

AloneInv ==
  ~crossed =>
    \A v, w \in Worker : run[v].pc \in Past /\ run[w].pc \in Past => v = w

BaseInv == TypeOK /\ IdleInv /\ NamedInv /\ AloneInv

(* What the cleanup does to the requests.                                  *)
LEMMA CleanupMoves ==
  ASSUME TypeOK, NEW w \in Worker, Cleanup(w)
  PROVE  /\ run'[w].pc = "add" /\ run'[w].via = run[w].via /\ run'[w].uuid = run[w].uuid
         /\ \A v \in Worker : v # w => run'[v] = run[v]
         /\ ~crossed' => ~crossed /\ \A v \in Worker : v # w => At(v, "idle")
<1>1. run \in [Worker -> Request] /\ run[w] \in Request
  BY RequestTypes DEF TypeOK
<1>2. run' = [run EXCEPT ![w].pc = "add"]
  BY DEF Cleanup, Goto
<1>3. crossed' = (crossed \/ \E v \in Worker \ {w} : ~At(v, "idle"))
  BY DEF Cleanup
<1> QED BY <1>1, <1>2, <1>3 DEF Request

LEMMA BaseAlways == Spec => []BaseInv
<1>1. TypeOK /\ Init => BaseInv
  <2>1. NoRequest.pc = "idle"
    BY DEF NoRequest
  <2>2. Init => \A w \in Worker : run[w] = NoRequest
    BY DEF Init
  <2> QED BY <2>1, <2>2 DEF Init, BaseInv, IdleInv, NamedInv, AloneInv, Past, At
<1>2. BaseInv /\ TypeOK' /\ [Next]_vars => BaseInv'
  <2> SUFFICES ASSUME BaseInv, [Next]_vars PROVE IdleInv' /\ NamedInv' /\ AloneInv'
    BY DEF BaseInv
  <2>1. ASSUME NEW w \in Worker, RequestStep(w), UNCHANGED history
        PROVE  IdleInv' /\ NamedInv' /\ AloneInv'
    <3>1. /\ run'[w].pc \in Past => run[w].pc \in Past
          /\ \A v \in Worker : v # w => run'[v] = run[v]
          /\ At(w, "idle")' => run'[w] = NoRequest
          /\ old' = "candidate" => old = "candidate"
          /\ cand' = "absent" \/ cand # "absent" \/ run[w].pc \in Past
          /\ starting' => starting \/ run[w].pc \in Past
      BY <2>1, PastComes DEF BaseInv
    <3>2. crossed' = crossed
      BY <2>1 DEF history
    <3> QED BY <3>1, <3>2 DEF BaseInv, IdleInv, NamedInv, AloneInv, At
  <2>2. ASSUME NEW w \in Worker, Cleanup(w)
        PROVE  IdleInv' /\ NamedInv' /\ AloneInv'
    <3>1. /\ run'[w].pc = "add"
          /\ \A v \in Worker : v # w => run'[v] = run[v]
          /\ ~crossed' => ~crossed /\ \A v \in Worker : v # w => At(v, "idle")
      BY <2>2, CleanupMoves DEF BaseInv
    <3>2. old' # "candidate"
      BY <2>2 DEF Cleanup
    <3> QED BY <3>1, <3>2 DEF BaseInv, IdleInv, NamedInv, AloneInv, At, Past
  <2>3. ASSUME UNCHANGED history, ActivationEnds \/ Fire \/ Restore
        PROVE  IdleInv' /\ NamedInv' /\ AloneInv'
    <3>1. UNCHANGED <<old, cand, run, crossed>> /\ (starting' => starting)
      BY <2>3 DEF ActivationEnds, Fire, Restore, history, BaseInv, TypeOK
    <3> QED BY <3>1 DEF BaseInv, IdleInv, NamedInv, AloneInv, At
  <2>4. ASSUME UNCHANGED history, Reboot PROVE IdleInv' /\ NamedInv' /\ AloneInv'
    <3>1. ASSUME NEW w \in Worker
          PROVE  /\ run'[w].pc = run[w].pc
                 /\ run[w] = NoRequest => run'[w] = NoRequest
      BY <2>4, <3>1 DEF Reboot, BaseInv, TypeOK, Request, NoRequest
    <3>2. UNCHANGED <<old, cand, crossed>> /\ ~starting'
      BY <2>4 DEF Reboot, history
    <3> QED BY <3>1, <3>2 DEF BaseInv, IdleInv, NamedInv, AloneInv, At
  <2>5. CASE EditNode
    <3>1. /\ UNCHANGED <<run, starting>> /\ ~starting /\ cand' = "absent"
          /\ \A w \in Worker : run[w].pc = "idle"
      BY <2>5 DEF EditNode, At
    <3> QED BY <3>1 DEF BaseInv, IdleInv, NamedInv, AloneInv, At, Past
  <2>6. CASE UNCHANGED vars
    <3>1. UNCHANGED <<old, cand, run, crossed, starting>>
      BY <2>6 DEF vars, nodeVars, history
    <3> QED BY <3>1 DEF BaseInv, IdleInv, NamedInv, AloneInv, At
  <2> QED BY <2>1, <2>2, <2>3, <2>4, <2>5, <2>6 DEF Next, NodeStep
<1> QED BY <1>1, <1>2, TypeCorrect, PTL DEF Spec

-----------------------------------------------------------------------------
(* Sessions, while the recorded address is the old profile's               *)

(* What the address of a request's session tells: before the change it is  *)
(* never the new one, after the reconnection never the first one.          *)
Before == {"uuid", "cleanup", "add", "schedule"}
After == {"cancel", "archive", "rename", "private", "final"}
RouteOf(r) == (r.pc \in Before => r.via # "new") /\ (r.pc \in After => r.via # "first")

LEMMA Sessions ==
  ASSUME route = "old", NEW w \in Worker, Alive(w)
  PROVE  /\ run[w].via \in {"first", "new"}
         /\ run[w].via = "first" => active = "old"
         /\ run[w].via = "new" => active = "new"
  BY DEF Alive, Reach

(* A step gives its request a session that tells as much, that knows the   *)
(* old profile if it did, and that reaches the new one only over a login.  *)
Moved(w, r) ==
  /\ run' = [run EXCEPT ![w] = r]
  /\ RouteOf(r)
  /\ run[w].uuid = "old" => r.uuid = "old"
  /\ r.via = "new" => run[w].via = "new" \/ verified'

LEMMA RequestMoves ==
  ASSUME TypeOK, route = "old", NEW w \in Worker, RouteOf(run[w]), RequestStep(w)
  PROVE  \E r \in Request : Moved(w, r)
<1>0. /\ run[w] \in Request
      /\ Alive(w) => run[w].via \in {"first", "new"}
      /\ Alive(w) /\ run[w].via = "first" => active = "old"
      /\ Alive(w) /\ run[w].via = "new" => active = "new"
  BY RequestTypes, Sessions
<1>1. ASSUME run' = [run EXCEPT ![w] = NoRequest] PROVE \E r \in Request : Moved(w, r)
  <2>1. RouteOf(NoRequest) /\ NoRequest \in Request /\ NoRequest.uuid = "old" /\ NoRequest.via = "lost"
    BY RequestTypes DEF RouteOf, NoRequest, Before, After
  <2> QED BY <1>1, <2>1 DEF Moved
<1>2. ASSUME NEW p \in Pc, Goto(w, p),
             /\ p \in Before => run[w].via # "new"
             /\ p \in After => run[w].via # "first"
      PROVE  \E r \in Request : Moved(w, r)
  <2>1. PICK r : r = [run[w] EXCEPT !.pc = p]
    OBVIOUS
  <2>2. r \in Request /\ r.pc = p /\ r.via = run[w].via /\ r.uuid = run[w].uuid
    BY <1>0, <2>1 DEF Request
  <2>3. run' = [run EXCEPT ![w] = r]
    BY <1>2, <2>1 DEF Goto
  <2> QED BY <1>2, <2>2, <2>3 DEF Moved, RouteOf
<1>3. CASE Connect(w)
  <2>1. PICK r : r = [NoRequest EXCEPT !.pc = "inspect", !.via = recorded]
    OBVIOUS
  <2>2. r \in Request /\ r.pc = "inspect" /\ r.uuid = "old" /\ r.via = recorded
    BY RequestTypes, <2>1 DEF TypeOK, NoRequest, Request, Pc
  <2>3. recorded = "new" => verified'
    BY <1>3 DEF Connect, Reach, Proves
  <2> QED BY <1>3, <2>1, <2>2, <2>3 DEF Connect, Moved, RouteOf, Before, After
<1>4. CASE Inspect(w)
  <2>1. CASE Complies /\ private
    BY <1>1, <1>4, <2>1 DEF Inspect, Finish
  <2>2. CASE ~(Complies /\ private)
    <3>1. PICK p \in {"right", "change", "blocked"} :
            run' = [run EXCEPT ![w].pc = IF Complies THEN "private" ELSE "uuid",
                               ![w].priv = p]
      BY <1>4, <2>2 DEF Inspect
    <3>2. PICK r : r = [run[w] EXCEPT !.pc = IF Complies THEN "private" ELSE "uuid",
                                      !.priv = p]
      OBVIOUS
    <3>3. /\ r \in Request
          /\ r.pc = IF Complies THEN "private" ELSE "uuid"
          /\ r.via = run[w].via
          /\ r.uuid = run[w].uuid
      BY <1>0, <3>2 DEF Request, Pc
    <3>4. run' = [run EXCEPT ![w] = r]
      BY <1>0, <3>1, <3>2 DEF TypeOK, Request
    <3>5. (Complies => run[w].via = "new") /\ (~Complies => run[w].via = "first")
      BY <1>0, <1>4 DEF Inspect, Complies
    <3> QED BY <3>3, <3>4, <3>5 DEF Moved, RouteOf, Before, After
  <2> QED BY <2>1, <2>2
<1>5. CASE ReadUuid(w)
  <2>1. run[w].via = "first" /\ active = "old"
    BY <1>0, <1>5 DEF ReadUuid, At, RouteOf, Before
  <2>2. PICK r : r = [run[w] EXCEPT !.pc = "cleanup", !.uuid = "old"]
    OBVIOUS
  <2>3. r \in Request /\ r.pc = "cleanup" /\ r.via = run[w].via /\ r.uuid = "old"
    BY <1>0, <2>2 DEF Request, Pc
  <2>4. run' = [run EXCEPT ![w] = r]
    BY <1>0, <1>5, <2>1, <2>2 DEF ReadUuid, TypeOK, Request
  <2> QED BY <2>1, <2>3, <2>4 DEF Moved, RouteOf, Before, After
<1>6. CASE Add(w)
  BY <1>2, <1>6 DEF Add, At, RouteOf, Pc, Before, After
<1>7. CASE Schedule(w)
  BY <1>2, <1>7 DEF Schedule, Pc, Before, After
<1>8. CASE Activate(w)
  BY <1>2, <1>8 DEF Activate, Pc, Before, After
<1>9. CASE Reconnect(w)
  <2>1. PICK r : r = [run[w] EXCEPT !.pc = "cancel", !.via = "new"]
    OBVIOUS
  <2>2. r \in Request /\ r.pc = "cancel" /\ r.via = "new" /\ r.uuid = run[w].uuid
    BY <1>0, <2>1 DEF Request, Pc
  <2>3. run' = [run EXCEPT ![w] = r]
    BY <1>0, <1>9, <2>1 DEF Reconnect, TypeOK, Request
  <2>4. verified'
    BY <1>9 DEF Reconnect, Answered, Reach, Proves
  <2> QED BY <2>2, <2>3, <2>4 DEF Moved, RouteOf, Before, After
<1>10. CASE Cancel(w) \/ Archive(w) \/ Rename(w) \/ ChangePrivate(w)
  <2>1. run[w].via # "first"
    BY <1>0, <1>10 DEF Cancel, Archive, Rename, ChangePrivate, At, RouteOf, After
  <2>2. \/ run' = [run EXCEPT ![w] = NoRequest]
        \/ \E p \in {"archive", "rename", "private", "final"} : Goto(w, p)
    BY <1>10 DEF Cancel, Archive, Rename, ChangePrivate, Finish
  <2> QED BY <1>1, <1>2, <2>1, <2>2 DEF Pc, Before
<1>11. CASE Conclude(w) \/ Abandon(w) \/ Crash(w)
  BY <1>1, <1>11 DEF Conclude, Abandon, Crash, Finish
<1> QED
  BY <1>3, <1>4, <1>5, <1>6, <1>7, <1>8, <1>9, <1>10, <1>11 DEF RequestStep

(* What a step of a request can do to the profiles: only the cleanup takes *)
(* one away that is up, and then it is the old one.                        *)
LEMMA RequestEffects ==
  ASSUME TypeOK, route = "old", NEW w \in Worker, RouteOf(run[w]), RequestStep(w)
  PROVE  /\ active' = active
         /\ verified => verified'
         /\ old' = "deleted" => old = "deleted" \/ (active = "new" /\ run[w].via = "new")
<1>0. /\ run[w] \in Request
      /\ Alive(w) => run[w].via \in {"first", "new"}
      /\ Alive(w) /\ run[w].via = "first" => active = "old"
      /\ Alive(w) /\ run[w].via = "new" => active = "new"
  BY RequestTypes, Sessions
<1>1. CASE Add(w)
  <2>1. active = "old"
    BY <1>0, <1>1 DEF Add, At, RouteOf, Before
  <2> QED BY <1>1, <2>1 DEF Add
<1>2. CASE Archive(w)
  <2>1. active = "new" /\ run[w].via = "new"
    BY <1>0, <1>2 DEF Archive, At, RouteOf, After
  <2> QED BY <1>2, <2>1 DEF Archive
<1>3. CASE Cancel(w)
  BY <1>3 DEF Cancel
<1>4. CASE Connect(w) \/ Inspect(w) \/ ReadUuid(w) \/ Reconnect(w)
  <2>1. active' = active /\ old' = old
    BY <1>4 DEF Connect, Inspect, ReadUuid, Reconnect, nodeVars
  <2>2. verified => verified'
    BY <1>4 DEF Connect, Inspect, ReadUuid, Reconnect
  <2> QED BY <2>1, <2>2
<1>5. CASE Schedule(w) \/ Activate(w) \/ Rename(w) \/ ChangePrivate(w)
  BY <1>5 DEF Schedule, Activate, Rename, ChangePrivate
<1>6. CASE Conclude(w) \/ Abandon(w) \/ Crash(w)
  BY <1>6 DEF Conclude, Abandon, Crash, nodeVars
<1> QED BY <1>1, <1>2, <1>3, <1>4, <1>5, <1>6 DEF RequestStep

LEMMA CleanupEffects ==
  ASSUME TypeOK, NamedInv, route = "old", NEW w \in Worker, RouteOf(run[w]), Cleanup(w)
  PROVE  /\ active = "old" /\ run[w].via = "first"
         /\ \/ /\ old = "candidate" /\ old' = "deleted" /\ active' = "none"
               /\ cand' = "absent" /\ bared'
            \/ old # "candidate" /\ old' = old /\ active' = "old" /\ bared' = bared
         /\ rollback' = "off" /\ ~starting' /\ back' = back
<1>1. active = "old" /\ run[w].via = "first"
  BY RequestTypes, Sessions DEF Cleanup, At, RouteOf, Before, Request
<1>2. /\ cand' = IF cand = "candidate" THEN "absent" ELSE cand
      /\ old' = IF old = "candidate" THEN "deleted" ELSE old
      /\ active' = IF old = "candidate" THEN Automatic(cand', old') ELSE active
      /\ bared' = (bared \/ old = "candidate")
      /\ rollback' = "off" /\ starting' = FALSE /\ back' = back
  BY <1>1 DEF Cleanup
<1>3. CASE old = "candidate"
  <2>1. cand' = "absent" /\ old' = "deleted"
    BY <1>2, <1>3 DEF NamedInv
  <2> QED BY <1>1, <1>2, <1>3, <2>1 DEF Automatic
<1>4. CASE old # "candidate"
  BY <1>1, <1>2, <1>4 DEF TypeOK
<1> QED BY <1>3, <1>4

-----------------------------------------------------------------------------
(* The management interface keeps a profile, also when requests overlap.   *)

(* Whoever else serves the step: a request that may delete a candidate has *)
(* a session over the old profile's address, one that may delete the old   *)
(* profile has one over the new profile's, and a deleted one is down.      *)
UpInv ==
  route = "old" =>
    /\ \A w \in Worker : RouteOf(run[w])
    /\ old = "deleted" => active # "old"
    /\ NeverDisconnected

(* However many requests overlap, fail or are killed, and whatever is      *)
(* edited between two changes: on a node that is not rebooted and whose    *)
(* recorded address is the old profile's, the management interface is only *)
(* left without a profile by the cleanup that takes the old profile for a  *)
(* candidate, because its renaming after an earlier change had failed.     *)
THEOREM NeverCut == Spec => []NeverDisconnected
<1>1. Init => UpInv
  <2>1. RouteOf(NoRequest)
    BY DEF NoRequest, RouteOf, Before, After
  <2>2. Init => \A w \in Worker : run[w] = NoRequest
    BY DEF Init
  <2> QED BY <2>1, <2>2 DEF Init, UpInv, NeverDisconnected
<1>2. BaseInv /\ UpInv /\ [Next]_vars => UpInv'
  <2> SUFFICES ASSUME BaseInv, UpInv, [Next]_vars PROVE UpInv'
    OBVIOUS
  <2>0. /\ TypeOK /\ NamedInv
        /\ active \in {"old", "new", "none"} /\ steady' = steady
    BY DEF BaseInv, TypeOK, Next, vars
  <2>1. ASSUME NEW w \in Worker, RequestStep(w), UNCHANGED <<route, history>> PROVE UpInv'
    <3> SUFFICES ASSUME route = "old"
                 PROVE  /\ \A v \in Worker : RouteOf(run[v])'
                        /\ (old = "deleted" => active # "old")'
                        /\ NeverDisconnected'
      BY <2>1 DEF UpInv
    <3>1. RouteOf(run[w])
      BY DEF UpInv
    <3>2. PICK r \in Request : Moved(w, r)
      BY <2>0, <2>1, <3>1, RequestMoves
    <3>3. ASSUME NEW v \in Worker PROVE RouteOf(run[v])'
      <4>1. run'[v] = IF v = w THEN r ELSE run[v]
        BY <2>0, <3>2 DEF Moved, TypeOK
      <4>2. RouteOf(run[v]) /\ RouteOf(r)
        BY <3>2 DEF UpInv, Moved
      <4> QED BY <4>1, <4>2 DEF RouteOf
    <3>4. /\ active' = active /\ bared' = bared
          /\ old' = "deleted" => old = "deleted" \/ active = "new"
      BY <2>0, <2>1, <3>1, RequestEffects DEF history
    <3> QED BY <2>0, <3>3, <3>4 DEF UpInv, NeverDisconnected
  <2>2. ASSUME NEW w \in Worker, Cleanup(w), UNCHANGED route PROVE UpInv'
    <3> SUFFICES ASSUME route = "old"
                 PROVE  /\ \A v \in Worker : RouteOf(run[v])'
                        /\ (old = "deleted" => active # "old")'
                        /\ NeverDisconnected'
      BY <2>2 DEF UpInv
    <3>1. RouteOf(run[w])
      BY DEF UpInv
    <3>2. /\ active = "old" /\ run[w].via = "first"
          /\ \/ old' = "deleted" /\ active' = "none" /\ bared'
             \/ old' = old /\ active' = "old"
      BY <2>0, <2>2, <3>1, CleanupEffects
    <3>3. /\ run'[w].pc = "add" /\ run'[w].via = run[w].via
          /\ \A v \in Worker : v # w => run'[v] = run[v]
      BY <2>0, <2>2, CleanupMoves
    <3>4. \A v \in Worker : RouteOf(run[v])'
      BY <3>2, <3>3 DEF UpInv, RouteOf, Before, After
    <3> QED BY <2>0, <3>2, <3>4 DEF UpInv, NeverDisconnected
  <2>3. ASSUME ActivationEnds \/ Fire \/ Restore, UNCHANGED <<route, history>> PROVE UpInv'
    <3>1. /\ run' = run /\ old' = old /\ bared' = bared
          /\ active' = active \/ active' = "new" \/ (active' = "old" /\ old # "deleted")
      BY <2>3 DEF ActivationEnds, Fire, Restore, history
    <3> QED BY <2>0, <2>3, <3>1 DEF UpInv, RouteOf, NeverDisconnected
  <2>4. ASSUME Reboot, UNCHANGED <<route, history>> PROVE UpInv'
    <3>1. ASSUME NEW w \in Worker PROVE RouteOf(run[w])'
      <4>1. run'[w].via = "lost"
        BY <2>0, <2>4, <3>1 DEF Reboot, TypeOK, Request
      <4> QED BY <4>1 DEF RouteOf
    <3>2. (old = "deleted" => active # "old")' /\ ~steady'
      BY <2>0, <2>4 DEF Reboot, Automatic
    <3> QED BY <3>1, <3>2 DEF UpInv, NeverDisconnected
  <2>5. CASE EditNode
    <3>1. /\ run' = run /\ active' = "old" /\ old' # "deleted"
          /\ \A w \in Worker : run[w].pc = "idle"
      BY <2>5 DEF EditNode, At
    <3> QED BY <3>1 DEF UpInv, RouteOf, Before, After, NeverDisconnected
  <2>6. CASE UNCHANGED vars
    <3>1. UNCHANGED <<active, old, run, route, bared, steady>>
      BY <2>6 DEF vars, nodeVars, history
    <3> QED BY <3>1 DEF UpInv, RouteOf, NeverDisconnected
  <2> QED BY <2>1, <2>2, <2>3, <2>4, <2>5, <2>6 DEF Next, NodeStep
<1>3. UpInv => NeverDisconnected
  BY DEF UpInv, NeverDisconnected
<1> QED BY <1>1, <1>2, <1>3, BaseAlways, PTL DEF Spec

-----------------------------------------------------------------------------
(* A change nobody else has cleaned up under                               *)

(* Every session knows the old profile, and the new address stands for a   *)
(* login that has reached the new one.  The old profile is deleted only    *)
(* after such a login, or by the cleanup that bares the interface; then    *)
(* nothing comes up any more.                                              *)
SessionOf(r) == RouteOf(r) /\ r.uuid = "old" /\ (r.via = "new" => verified)
SessionInv == \A w \in Worker : SessionOf(run[w])
KeptInv == old = "deleted" => active # "old" /\ (verified \/ bared)
BareInv == bared => old = "deleted" /\ active = "none" /\ cand = "absent" /\ ~starting
OrderInv == InOrder => SessionInv /\ KeptInv /\ BareInv

LEMMA RequestKeepsOrder ==
  ASSUME BaseInv, InOrder, SessionInv, KeptInv, BareInv,
         NEW w \in Worker, RequestStep(w), UNCHANGED history
  PROVE  SessionInv' /\ KeptInv' /\ BareInv'
<1>0. /\ TypeOK /\ route = "old" /\ run[w] \in Request
      /\ SessionOf(run[w]) /\ RouteOf(run[w])
      /\ run \in [Worker -> Request]
  BY RequestTypes DEF BaseInv, InOrder, SessionInv, SessionOf, TypeOK
<1>1. PICK r \in Request : Moved(w, r)
  BY <1>0, RequestMoves
<1>2. /\ active' = active
      /\ verified => verified'
      /\ old' = "deleted" => old = "deleted" \/ (active = "new" /\ run[w].via = "new")
      /\ bared' = bared
  BY <1>0, RequestEffects DEF history
<1>3. SessionInv'
  <2>1. ASSUME NEW v \in Worker PROVE SessionOf(run[v])'
    <3>1. run'[v] = IF v = w THEN r ELSE run[v]
      BY <1>0, <1>1 DEF Moved
    <3>2. SessionOf(run[v])
      BY DEF SessionInv
    <3> QED BY <1>0, <1>1, <1>2, <3>1, <3>2 DEF Moved, SessionOf, RouteOf
  <2> QED BY <2>1 DEF SessionInv
<1>4. KeptInv'
  BY <1>0, <1>2 DEF KeptInv, SessionOf
<1>5. BareInv'
  <2> SUFFICES ASSUME bared
               PROVE  old' = "deleted" /\ cand' = "absent" /\ ~starting'
    BY <1>2 DEF BareInv
  <2>1. old = "deleted" /\ active = "none" /\ cand = "absent" /\ ~starting
    BY DEF BareInv
  <2>2. ~Alive(w)
    BY <1>0, <2>1, Sessions
  <2> QED
    BY <2>1, <2>2 DEF RequestStep, Connect, Inspect, ReadUuid, Add, Schedule, Activate,
       Reconnect, Cancel, Archive, Rename, ChangePrivate, Conclude, Abandon, Crash, nodeVars
<1> QED BY <1>3, <1>4, <1>5

LEMMA CleanupKeepsOrder ==
  ASSUME BaseInv, InOrder, SessionInv, KeptInv, BareInv,
         NEW w \in Worker, Cleanup(w), ~crossed'
  PROVE  SessionInv' /\ KeptInv' /\ BareInv'
<1>0. /\ TypeOK /\ NamedInv /\ IdleInv /\ route = "old"
      /\ SessionOf(run[w]) /\ RouteOf(run[w])
  BY DEF BaseInv, InOrder, SessionInv, SessionOf
<1>1. /\ active = "old" /\ run[w].via = "first"
      /\ \/ /\ old = "candidate" /\ old' = "deleted" /\ active' = "none"
            /\ cand' = "absent" /\ bared'
         \/ old # "candidate" /\ old' = old /\ active' = "old" /\ bared' = bared
      /\ ~starting'
  BY <1>0, CleanupEffects
<1>2. /\ run'[w].pc = "add" /\ run'[w].via = run[w].via /\ run'[w].uuid = run[w].uuid
      /\ \A v \in Worker : v # w => run'[v] = run[v] /\ At(v, "idle")
  BY <1>0, CleanupMoves
<1>3. ASSUME NEW v \in Worker PROVE SessionOf(run[v])'
  <2>1. CASE v = w
    BY <1>0, <1>1, <1>2, <2>1 DEF SessionOf, RouteOf, Before, After
  <2>2. CASE v # w
    <3>1. run'[v] = NoRequest
      BY <1>0, <1>2, <2>2 DEF IdleInv
    <3> QED BY <3>1 DEF SessionOf, RouteOf, NoRequest, Before, After
  <2> QED BY <2>1, <2>2
<1> QED BY <1>1, <1>3 DEF SessionInv, KeptInv, BareInv

LEMMA OrderAlways == Spec => []OrderInv
<1>1. Init => OrderInv
  <2>1. SessionOf(NoRequest)
    BY DEF SessionOf, RouteOf, NoRequest, Before, After
  <2>2. Init => \A w \in Worker : run[w] = NoRequest
    BY DEF Init
  <2> QED BY <2>1, <2>2 DEF Init, OrderInv, SessionInv, KeptInv, BareInv
<1>2. BaseInv /\ OrderInv /\ [Next]_vars => OrderInv'
  <2> SUFFICES ASSUME BaseInv, OrderInv, [Next]_vars, InOrder'
               PROVE  SessionInv' /\ KeptInv' /\ BareInv'
    BY DEF OrderInv
  <2>1. CASE EditNode
    <3>1. /\ run' = run /\ active' = "old" /\ old' # "deleted" /\ ~bared'
          /\ \A w \in Worker : run[w] = NoRequest
      BY <2>1 DEF EditNode, BaseInv, IdleInv
    <3>2. ASSUME NEW w \in Worker PROVE SessionOf(run[w])'
      BY <3>1, <3>2 DEF SessionOf, RouteOf, NoRequest, Before, After
    <3> QED BY <3>1, <3>2 DEF SessionInv, KeptInv, BareInv
  <2>2. ASSUME NEW w \in Worker, RequestStep(w), UNCHANGED <<route, history>>
        PROVE  SessionInv' /\ KeptInv' /\ BareInv'
    <3>1. InOrder
      BY <2>2 DEF InOrder, history
    <3> QED BY <2>2, <3>1, RequestKeepsOrder DEF OrderInv
  <2>3. ASSUME NEW w \in Worker, Cleanup(w), UNCHANGED route
        PROVE  SessionInv' /\ KeptInv' /\ BareInv'
    <3>1. InOrder /\ ~crossed'
      BY <2>3 DEF InOrder, Cleanup
    <3> QED BY <2>3, <3>1, CleanupKeepsOrder DEF OrderInv
  <2>4. ASSUME NodeStep \/ UNCHANGED vars, UNCHANGED <<route, history>>
        PROVE  SessionInv' /\ KeptInv' /\ BareInv'
    <3>0. /\ SessionInv /\ KeptInv /\ BareInv /\ bared' = bared
          /\ TypeOK
      BY <2>4 DEF OrderInv, InOrder, history, BaseInv
    <3>1. CASE ActivationEnds \/ Fire
      BY <3>0, <3>1 DEF ActivationEnds, Fire, SessionInv, SessionOf, RouteOf, KeptInv, BareInv
    <3>2. CASE Restore
      BY <3>0, <3>2 DEF Restore, SessionInv, SessionOf, RouteOf, KeptInv, BareInv
    <3>3. CASE Reboot
      <4>1. ASSUME NEW w \in Worker PROVE SessionOf(run[w])'
        <5>1. run'[w].pc = run[w].pc /\ run'[w].via = "lost" /\ run'[w].uuid = run[w].uuid
          BY <3>0, <3>3, <4>1 DEF Reboot, TypeOK, Request
        <5> QED BY <3>0, <3>3, <5>1 DEF SessionInv, SessionOf, RouteOf
      <4>2. KeptInv' /\ BareInv'
        BY <3>0, <3>3 DEF Reboot, KeptInv, BareInv, Automatic
      <4> QED BY <4>1, <4>2 DEF SessionInv
    <3>4. CASE UNCHANGED vars
      BY <3>0, <3>4 DEF vars, nodeVars, history, SessionInv, SessionOf, RouteOf, KeptInv, BareInv
    <3> QED BY <2>4, <3>1, <3>2, <3>3, <3>4 DEF NodeStep
  <2> QED BY <2>1, <2>2, <2>3, <2>4 DEF Next, vars
<1> QED BY <1>1, <1>2, BaseAlways, PTL DEF Spec

(* With requests that overlap, fail and are killed, reboots at any point   *)
(* and edits between two changes: when no request has cleaned up under     *)
(* another one, the old profile is deleted only once the new one has       *)
(* answered, or by the cleanup of NeverCut.                                *)
THEOREM OldKept == Spec => []OldProfileKept
<1>1. OrderInv => OldProfileKept
  BY DEF OrderInv, KeptInv, OldProfileKept
<1> QED BY <1>1, OrderAlways, PTL

(* Under the same conditions 00c replaces the recorded address only when   *)
(* the new profile has answered over SSH.                                  *)
THEOREM AddressSafe == Spec => AddressVerified
<1>1. BaseInv /\ OrderInv /\ [Next]_vars
        => [InOrder /\ recorded = "first" /\ recorded' = "new" => verified]_vars
  <2> SUFFICES ASSUME BaseInv, OrderInv, [Next]_vars, InOrder,
                      recorded = "first", recorded' = "new"
               PROVE  verified
    OBVIOUS
  <2>1. PICK w \in Worker : RequestStep(w)
    BY DEF Next, NodeStep, ActivationEnds, Fire, Restore, Reboot, EditNode, Cleanup, vars
  <2>2. /\ run[w] \in Request
        /\ SessionOf(run[w])
        /\ Alive(w) => run[w].via \in {"first", "new"}
        /\ Alive(w) /\ run[w].via = "first" => active = "old"
    BY RequestTypes, Sessions DEF BaseInv, OrderInv, InOrder, SessionInv
  <2>3. CASE Inspect(w)
    BY <2>2, <2>3 DEF Inspect, Complies, SessionOf
  <2>4. CASE Conclude(w)
    BY <2>2, <2>4 DEF Conclude, At, SessionOf, RouteOf, After
  <2>5. CASE Cancel(w) \/ Abandon(w)
    BY <2>5 DEF Cancel, Abandon, Finish
  <2> QED
    BY <2>1, <2>3, <2>4, <2>5 DEF RequestStep, Connect, ReadUuid, Add, Schedule,
       Activate, Reconnect, Archive, Rename, ChangePrivate, Crash
<1> QED BY <1>1, BaseAlways, OrderAlways, PTL DEF Spec, AddressVerified

(* ArmedUntilVerified, of a node that is not rebooted, says nothing of a   *)
(* candidate that is not up yet: it is inductive only together with what a *)
(* starting candidate and a request about to start one need, and with a    *)
(* rollback that knows the old profile.                                    *)
Guarded == active = "new" /\ ~verified => rollback # "off"
Coming == starting /\ ~verified => rollback # "off"
Arming == \A w \in Worker : run[w].pc = "activate" => rollback = "armed"
ArmedInv == InOrder /\ steady => Guarded /\ Coming /\ back = "old" /\ Arming

LEMMA RequestKeepsArmed ==
  ASSUME BaseInv, InOrder, SessionInv, Guarded, Coming, back = "old", Arming,
         NEW w \in Worker, RequestStep(w)
  PROVE  Guarded' /\ Coming' /\ back' = "old" /\ Arming'
<1>0. /\ TypeOK /\ AloneInv /\ ~crossed /\ route = "old"
      /\ SessionOf(run[w]) /\ RouteOf(run[w])
  BY DEF BaseInv, InOrder, SessionInv, SessionOf
<1>1. active' = active /\ (verified => verified')
  BY <1>0, RequestEffects
<1>2. /\ run'[w].pc = "activate" => run[w].pc = "schedule"
      /\ \A v \in Worker : v # w => run'[v] = run[v]
      /\ starting' => starting \/ run[w].pc \in Past
  BY <1>0, PastComes
<1>3. CASE Schedule(w)
  <2>1. rollback' = "armed" /\ back' = run[w].uuid /\ starting' = starting
    BY <1>3 DEF Schedule, ScheduleRollback
  <2> QED BY <1>0, <2>1 DEF SessionOf, Guarded, Coming, Arming
<1>4. CASE Activate(w)
  <2>1. rollback = "armed" /\ UNCHANGED <<rollback, back, verified>>
    BY <1>4 DEF Activate, At, Arming
  <2> QED BY <2>1 DEF Guarded, Coming, Arming
<1>5. CASE Cancel(w)
  <2>1. verified
    BY <1>0, <1>5, RequestTypes DEF Cancel, At, Alive, Reach, SessionOf, RouteOf, After, Request
  <2>2. run[w].pc = "cancel" /\ back' = back
    BY <1>5 DEF Cancel, At
  <2>3. Arming'
    BY <1>0, <1>2, <2>2 DEF AloneInv, Arming, Past
  <2> QED BY <1>1, <2>1, <2>2, <2>3 DEF Guarded, Coming
<1>6. CASE Connect(w) \/ Inspect(w) \/ ReadUuid(w) \/ Add(w) \/ Reconnect(w) \/ Archive(w)
           \/ Rename(w) \/ ChangePrivate(w) \/ Conclude(w) \/ Abandon(w) \/ Crash(w)
  <2>1. UNCHANGED <<rollback, back, starting>>
    BY <1>6 DEF Connect, Inspect, ReadUuid, Add, Reconnect, Archive, Rename,
       ChangePrivate, Conclude, Abandon, Crash, nodeVars
  <2>2. run'[w].pc # "activate"
    <3>1. CASE Conclude(w) \/ Abandon(w) \/ Crash(w)
      <4>1. run'[w] = NoRequest
        BY <1>0, <3>1, RequestTypes DEF Conclude, Abandon, Crash, Finish, TypeOK
      <4> QED BY <4>1 DEF NoRequest
    <3>2. CASE ~(Conclude(w) \/ Abandon(w) \/ Crash(w))
      <4>1. run[w].pc # "schedule"
        BY <1>6, <3>2 DEF Connect, Inspect, ReadUuid, Add, Reconnect, Archive, Rename,
           ChangePrivate, At
      <4> QED BY <1>2, <4>1
    <3> QED BY <3>1, <3>2
  <2> QED BY <1>1, <1>2, <2>1, <2>2 DEF Guarded, Coming, Arming
<1> QED BY <1>3, <1>4, <1>5, <1>6 DEF RequestStep

(* While no request has cleaned up under another one, a node that is not   *)
(* rebooted never has a new profile up that was not reached and will not   *)
(* be rolled back, however the requests overlap, fail or are killed.       *)
THEOREM ArmedSafe == Spec => []ArmedUntilVerified
<1>1. Init => ArmedInv
  <2>1. NoRequest.pc = "idle"
    BY DEF NoRequest
  <2>2. Init => \A w \in Worker : run[w] = NoRequest
    BY DEF Init
  <2> QED BY <2>1, <2>2 DEF Init, ArmedInv, Guarded, Coming, Arming
<1>2. BaseInv /\ OrderInv /\ ArmedInv /\ [Next]_vars => ArmedInv'
  <2> SUFFICES ASSUME BaseInv, OrderInv, ArmedInv, [Next]_vars, InOrder', steady'
               PROVE  Guarded' /\ Coming' /\ back' = "old" /\ Arming'
    BY DEF ArmedInv
  <2>0. TypeOK /\ steady
    BY DEF Next, vars, BaseInv
  <2>1. CASE EditNode
    BY <2>1 DEF EditNode, At, Guarded, Coming, Arming
  <2>2. ASSUME NEW w \in Worker, RequestStep(w), UNCHANGED <<route, history>>
        PROVE  Guarded' /\ Coming' /\ back' = "old" /\ Arming'
    <3>1. InOrder
      BY <2>2 DEF InOrder, history
    <3> QED BY <2>0, <2>2, <3>1, RequestKeepsArmed DEF OrderInv, ArmedInv
  <2>3. ASSUME NEW w \in Worker, Cleanup(w), UNCHANGED route
        PROVE  Guarded' /\ Coming' /\ back' = "old" /\ Arming'
    <3>1. InOrder /\ ~crossed' /\ back = "old" /\ NamedInv
      BY <2>0, <2>3 DEF InOrder, Cleanup, ArmedInv, BaseInv
    <3>2. RouteOf(run[w])
      BY <3>1 DEF OrderInv, SessionInv, SessionOf
    <3>3. active' # "new" /\ ~starting' /\ back' = back
      BY <2>0, <2>3, <3>1, <3>2, CleanupEffects DEF InOrder
    <3>4. /\ run'[w].pc = "add"
          /\ \A v \in Worker : v # w => run'[v] = run[v] /\ At(v, "idle")
      BY <2>0, <2>3, <3>1, CleanupMoves
    <3> QED BY <3>1, <3>3, <3>4 DEF Guarded, Coming, Arming, At
  <2>4. ASSUME NodeStep \/ UNCHANGED vars, UNCHANGED <<route, history>>
        PROVE  Guarded' /\ Coming' /\ back' = "old" /\ Arming'
    <3>0. Guarded /\ Coming /\ back = "old" /\ Arming /\ KeptInv /\ BareInv /\ ~Reboot
      BY <2>0, <2>4 DEF ArmedInv, OrderInv, InOrder, history, Reboot
    <3>1. CASE ActivationEnds
      BY <3>0, <3>1 DEF ActivationEnds, Guarded, Coming, Arming
    <3>2. CASE Fire
      <4>1. /\ rollback' = "firing"
            /\ UNCHANGED <<active, starting, back, run, verified>>
            /\ \A w \in Worker : run[w].pc # "activate"
        BY <3>2 DEF Fire, At
      <4> QED BY <3>0, <4>1 DEF Guarded, Coming, Arming
    <3>3. CASE Restore
      <4>1. /\ rollback' = "off" /\ rollback # "armed"
            /\ UNCHANGED <<back, run, verified>>
            /\ \/ old # "deleted" /\ active' = "old" /\ ~starting'
               \/ old = "deleted" /\ active' = active /\ starting' = starting
        BY <2>0, <3>0, <3>3 DEF Restore, TypeOK
      <4>2. old = "deleted" => verified \/ (active = "none" /\ ~starting)
        BY <3>0 DEF KeptInv, BareInv
      <4> QED BY <3>0, <4>1, <4>2 DEF Guarded, Coming, Arming
    <3>4. CASE UNCHANGED vars
      <4>1. UNCHANGED <<active, starting, rollback, back, run, verified>>
        BY <3>4 DEF vars, nodeVars
      <4> QED BY <3>0, <4>1 DEF Guarded, Coming, Arming
    <3> QED BY <2>4, <3>0, <3>1, <3>2, <3>3, <3>4 DEF NodeStep
  <2> QED BY <2>1, <2>2, <2>3, <2>4 DEF Next, vars
<1>3. ArmedInv => ArmedUntilVerified
  BY DEF ArmedInv, Guarded, ArmedUntilVerified
<1> QED BY <1>1, <1>2, <1>3, BaseAlways, OrderAlways, PTL DEF Spec
=============================================================================
