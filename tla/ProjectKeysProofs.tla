------------------------- MODULE ProjectKeysProofs -------------------------
(* Theorems of ProjectKeys for every set of nodes and workers.             *)
EXTENDS ProjectKeys, TLAPS

USE DEF At, Goto, Done, Exists

(***************************************************************************)
(* Type correctness                                                        *)
(***************************************************************************)

LEMMA RequestTypes ==
  /\ NoRequest \in Request
  /\ \A p \in Path, s \in SUBSET Node, pc \in Pc : Begin(p, s, pc) \in Request
  /\ \A r \in Request, pc \in Pc : [r EXCEPT !.pc = pc] \in Request
  /\ \A r \in Request, n \in Node, s \in TaskState : [r EXCEPT !.task[n] = s] \in Request
<1>1. NoRequest \in Request
  BY DEF NoRequest, Request, Pc, Path, TaskState
<1>2. \A p \in Path, s \in SUBSET Node, pc \in Pc : Begin(p, s, pc) \in Request
  BY <1>1 DEF Begin, Request
<1>3. \A r \in Request, pc \in Pc : [r EXCEPT !.pc = pc] \in Request
  BY DEF Request
<1>4. \A r \in Request, n \in Node, s \in TaskState : [r EXCEPT !.task[n] = s] \in Request
  BY DEF Request
<1> QED BY <1>1, <1>2, <1>3, <1>4

(* A command carries the key of its request, which is one by then: the     *)
(* requests that install or revoke have read a key.                        *)
HasKey ==
  \A w \in Worker : req[w].pc \in {"install", "activate", "swap", "revoke", "unlink"} =>
    req[w].key \in Key

LEMMA OrderTypes ==
  ASSUME TypeOK, HasKey, NEW w \in Worker, NEW n \in Node,
         req[w].pc \in {"install", "revoke"},
         NEW kind \in {"add", "remove"}, Order(w, n, kind)
  PROVE  remote' \in [Node -> SUBSET Command]
<1>1. [by |-> w, kind |-> kind, key |-> req[w].key] \in Command
  BY DEF HasKey, Command
<1> QED BY <1>1 DEF Order, TypeOK

LEMMA NodeTypes ==
  ASSUME TypeOK, HasKey, NEW w \in Worker, NEW n \in Node, NodeStep(w, n)
  PROVE  TypeOK' /\ HasKey'
<1> USE DEF diskVars, nodeVars
<1>1. PICK s \in TaskState : req' = [req EXCEPT ![w] = [req[w] EXCEPT !.task[n] = s]]
  BY DEF NodeStep, SendInstall, Choose, VerifyNode, FailNode, SendRevoke,
         RevokedNode, Task, TaskState
<1>2. [req[w] EXCEPT !.task[n] = s] \in Request
  BY RequestTypes DEF TypeOK
<1>3. req' \in [Worker -> Request]
  BY <1>1, <1>2 DEF TypeOK
<1>4. \A v \in Worker : req'[v].pc = req[v].pc /\ req'[v].key = req[v].key
  BY <1>1 DEF TypeOK, Request
<1>5. HasKey'
  BY <1>4 DEF HasKey
<1>6. known' \in SUBSET Node /\ remote' \in [Node -> SUBSET Command]
  <2>1. CASE SendInstall(w, n)
    BY <2>1, OrderTypes DEF SendInstall, TypeOK
  <2>2. CASE SendRevoke(w, n)
    BY <2>2, OrderTypes DEF SendRevoke, TypeOK
  <2>3. CASE Choose(w, n) \/ VerifyNode(w, n) \/ FailNode(w, n) \/ RevokedNode(w, n)
    BY <2>3 DEF Choose, VerifyNode, FailNode, RevokedNode, TypeOK
  <2> QED BY <2>1, <2>2, <2>3 DEF NodeStep
<1>7. UNCHANGED <<file, made, lock, astray, auth, removed>>
  BY DEF NodeStep, SendInstall, Choose, VerifyNode, FailNode, SendRevoke, RevokedNode
<1> QED BY <1>3, <1>5, <1>6, <1>7 DEF TypeOK

(***************************************************************************)
(* The files, the lock and the requests that are about to change them: at  *)
(* most two of the three files exist, a new key is written and a pending   *)
(* key promoted only by the holder of the lock, and only while the file it *)
(* replaces holds no key.                                                  *)
(***************************************************************************)
Slots == Exists("pending") /\ Exists("previous") => ~Exists("private")

WritingHolds ==
  \A w \in Worker : At(w, "writing") =>
    lock = w /\ file["pending"] = Torn /\ made < MaxKeys

SwapHolds ==
  \A w \in Worker : At(w, "swap") =>
    lock = w /\ Exists("pending") /\ ~Exists("private")

DiskInv == Slots /\ WritingHolds /\ SwapHolds
KeysInv == TypeOK /\ HasKey /\ DiskInv

(* A step of w's request that leaves the disk alone.                       *)
LEMMA DiskStays ==
  ASSUME DiskInv, UNCHANGED diskVars,
         \A v \in Worker : req'[v].pc \in {"writing", "swap"} => req'[v].pc = req[v].pc
  PROVE  DiskInv'
BY DEF DiskInv, Slots, WritingHolds, SwapHolds, diskVars

(* Nobody but the holder of the lock is writing or swapping.               *)
LEMMA LockExcludes ==
  ASSUME DiskInv, NEW w \in Worker, lock \in {w, Nobody}
  PROVE  \A v \in Worker \ {w} : req[v].pc \notin {"writing", "swap"}
BY KeysAssumption DEF KeysAssumption, DiskInv, WritingHolds, SwapHolds

LEMMA Moves ==
  ASSUME TypeOK, HasKey, NEW w \in Worker, NEW r \in Request, Goto(w, r),
         r.pc \in {"install", "activate", "swap", "revoke", "unlink"} => r.key \in Key
  PROVE  /\ req' \in [Worker -> Request] /\ HasKey'
         /\ req'[w] = r
         /\ \A v \in Worker \ {w} : req'[v] = req[v]
BY DEF TypeOK, HasKey

LEMMA Ends ==
  ASSUME TypeOK, HasKey, NEW w \in Worker, Done(w)
  PROVE  /\ req' \in [Worker -> Request] /\ HasKey'
         /\ req'[w].pc = "idle"
         /\ \A v \in Worker \ {w} : req'[v] = req[v]
BY Moves, RequestTypes DEF NoRequest

(* Going on with the request at another point.                             *)
LEMMA Continues ==
  ASSUME TypeOK, HasKey, NEW w \in Worker, NEW pc \in Pc,
         Goto(w, [req[w] EXCEPT !.pc = pc]),
         pc \in {"install", "activate", "swap", "revoke", "unlink"} => req[w].key \in Key
  PROVE  /\ req' \in [Worker -> Request] /\ HasKey'
         /\ req'[w].pc = pc
         /\ \A v \in Worker \ {w} : req'[v] = req[v]
<1>1. req[w] \in Request
  BY DEF TypeOK
<1>2. /\ [req[w] EXCEPT !.pc = pc] \in Request
      /\ [req[w] EXCEPT !.pc = pc].pc = pc
      /\ [req[w] EXCEPT !.pc = pc].key = req[w].key
  BY <1>1, RequestTypes DEF Request
<1> QED BY <1>2, Moves

LEMMA InstallKeeps ==
  ASSUME KeysInv, NEW w \in Worker,
         \/ \E rotate \in BOOLEAN, secret \in SUBSET Node :
              Reuse(w, rotate, secret) \/ Create(w, rotate, secret)
         \/ Write(w) \/ ReadLine(w) \/ Conclude(w) \/ Retire(w) \/ Promote(w)
  PROVE  KeysInv'
<1> USE DEF KeysInv, nodeVars
<1>0. /\ req[w] \in Request /\ file \in [Path -> Key \cup {NoKey, Torn}]
      /\ {"private", "pending", "previous"} \subseteq Path /\ made \in Nat
      /\ NoKey \notin Key /\ Torn # NoKey /\ Torn \notin Key
  BY KeysAssumption DEF KeysAssumption, TypeOK, Path, Key, NoKey, Torn
<1>1. ASSUME NEW rotate \in BOOLEAN, NEW secret \in SUBSET Node, Reuse(w, rotate, secret)
      PROVE  KeysInv'
  <2> DEFINE path == IF Exists("pending") THEN "pending" ELSE "private"
             r == Begin(path, secret, "line")
  <2>1. r \in Request /\ r.pc = "line"
    BY RequestTypes DEF Path, Pc, Begin, NoRequest
  <2>2. Goto(w, r)
    BY <1>1 DEF Reuse
  <2> HIDE DEF r
  <2>3. /\ req' \in [Worker -> Request] /\ HasKey' /\ req'[w].pc = "line"
        /\ \A v \in Worker \ {w} : req'[v] = req[v]
    BY <2>1, <2>2, Moves
  <2>4. UNCHANGED diskVars
    BY <1>1 DEF Reuse
  <2>5. DiskInv'
    BY <2>3, <2>4, DiskStays
  <2> QED BY <1>1, <2>3, <2>4, <2>5 DEF Reuse, TypeOK, diskVars
<1>2. ASSUME NEW rotate \in BOOLEAN, NEW secret \in SUBSET Node, Create(w, rotate, secret)
      PROVE  KeysInv'
  <2> DEFINE r == Begin("pending", secret, "writing")
  <2>1. r \in Request /\ r.pc = "writing"
    BY RequestTypes DEF Path, Pc, Begin, NoRequest
  <2>2. Goto(w, r)
    BY <1>2 DEF Create
  <2> HIDE DEF r
  <2>3. /\ req' \in [Worker -> Request] /\ HasKey' /\ req'[w].pc = "writing"
        /\ \A v \in Worker \ {w} : req'[v] = req[v]
    BY <2>1, <2>2, Moves
  <2>4. /\ file' = [file EXCEPT !["pending"] = Torn] /\ lock' = w /\ made' = made
        /\ made < MaxKeys /\ lock = Nobody
        /\ Exists("private") => ~Exists("previous")
    BY <1>2 DEF Create, MayCreate
  <2>5. \A v \in Worker \ {w} : req[v].pc \notin {"writing", "swap"}
    BY <2>4, LockExcludes
  <2>6. DiskInv'
    BY <1>0, <2>3, <2>4, <2>5 DEF DiskInv, Slots, WritingHolds, SwapHolds
  <2>7. file' \in [Path -> Key \cup {NoKey, Torn}]
    BY <1>0, <2>4
  <2> QED BY <1>2, <2>3, <2>4, <2>6, <2>7 DEF Create, TypeOK
<1>3. CASE Write(w)
  <2>1. /\ req' \in [Worker -> Request] /\ HasKey' /\ req'[w].pc = "line"
        /\ \A v \in Worker \ {w} : req'[v] = req[v]
    BY <1>3, Continues DEF Write, Pc
  <2>2. /\ file' = [file EXCEPT !["pending"] = made + 1] /\ made' = made + 1
        /\ lock' = Nobody
    BY <1>3 DEF Write
  <2>3. made < MaxKeys /\ lock = w /\ Exists("pending")
    BY <1>0, <1>3 DEF Write, DiskInv, WritingHolds
  <2>4. made + 1 \in Key /\ made + 1 \in 0 .. MaxKeys
    BY <1>0, <2>3, KeysAssumption DEF KeysAssumption, Key
  <2>5. \A v \in Worker \ {w} : req[v].pc \notin {"writing", "swap"}
    BY <2>3, LockExcludes
  <2>6. DiskInv'
    BY <1>0, <2>1, <2>2, <2>3, <2>5 DEF DiskInv, Slots, WritingHolds, SwapHolds
  <2>7. file' \in [Path -> Key \cup {NoKey, Torn}]
    BY <1>0, <2>2, <2>4
  <2> QED BY <1>3, <2>1, <2>2, <2>4, <2>6, <2>7 DEF Write, TypeOK
<1>4. CASE ReadLine(w)
  <2>1. /\ req' \in [Worker -> Request] /\ HasKey' /\ req'[w].pc \in {"install", "idle"}
        /\ \A v \in Worker \ {w} : req'[v] = req[v]
    <3>1. CASE Readable(req[w].path)
      <4> DEFINE r == [req[w] EXCEPT !.pc = "install", !.key = file[req[w].path]]
      <4>1. r \in Request /\ r.pc = "install" /\ r.key \in Key
        BY <1>0, <3>1 DEF Readable, Request, Pc
      <4>2. Goto(w, r)
        BY <1>4, <3>1 DEF ReadLine
      <4> HIDE DEF r
      <4> QED BY <4>1, <4>2, Moves
    <3>2. CASE ~Readable(req[w].path)
      BY <1>4, <3>2, Ends DEF ReadLine
    <3> QED BY <3>1, <3>2
  <2>2. DiskInv'
    BY <1>4, <2>1, DiskStays DEF ReadLine
  <2> QED BY <1>4, <2>1, <2>2 DEF ReadLine, TypeOK, diskVars
<1>5. CASE Conclude(w)
  <2>1. /\ req' \in [Worker -> Request] /\ HasKey' /\ req'[w].pc \in {"activate", "idle"}
        /\ \A v \in Worker \ {w} : req'[v] = req[v]
    <3>1. CASE Passed(w) /\ req[w].path = "pending"
      <4>1. req[w].key \in Key
        BY <1>5 DEF Conclude, HasKey
      <4> QED BY <1>5, <3>1, <4>1, Continues DEF Conclude, Pc
    <3>2. CASE ~(Passed(w) /\ req[w].path = "pending")
      BY <1>5, <3>2, Ends DEF Conclude
    <3> QED BY <3>1, <3>2
  <2>2. DiskInv'
    BY <1>5, <2>1, DiskStays DEF Conclude
  <2> QED BY <1>5, <2>1, <2>2 DEF Conclude, TypeOK, diskVars
<1>6. CASE Retire(w)
  <2>1. CASE Exists("pending")
    <3>1. req[w].key \in Key
      BY <1>6 DEF Retire, HasKey
    <3>2. /\ req' \in [Worker -> Request] /\ HasKey' /\ req'[w].pc = "swap"
          /\ \A v \in Worker \ {w} : req'[v] = req[v]
      BY <1>6, <2>1, <3>1, Continues DEF Retire, Pc
    <3>3. /\ lock' = w /\ lock = Nobody /\ made' = made
          /\ file' = IF Exists("private")
               THEN [file EXCEPT !["previous"] = file["private"], !["private"] = NoKey]
               ELSE file
      BY <1>6, <2>1 DEF Retire
    <3>4. file' \in [Path -> Key \cup {NoKey, Torn}]
      BY <1>0, <3>3
    <3>5. file'["private"] = NoKey /\ file'["pending"] # NoKey
      BY <1>0, <2>1, <3>3
    <3>6. \A v \in Worker \ {w} : req[v].pc \notin {"writing", "swap"}
      BY <3>3, LockExcludes
    <3>7. DiskInv'
      BY <3>2, <3>3, <3>5, <3>6 DEF DiskInv, Slots, WritingHolds, SwapHolds
    <3> QED BY <1>6, <3>2, <3>3, <3>4, <3>7 DEF Retire, TypeOK
  <2>2. CASE ~Exists("pending")
    <3>1. /\ req' \in [Worker -> Request] /\ HasKey' /\ req'[w].pc = "idle"
          /\ \A v \in Worker \ {w} : req'[v] = req[v]
      BY <1>6, <2>2, Ends DEF Retire
    <3>2. UNCHANGED diskVars
      BY <1>6, <2>2 DEF Retire, diskVars
    <3>3. DiskInv'
      BY <3>1, <3>2, DiskStays
    <3> QED BY <1>6, <3>1, <3>2, <3>3 DEF Retire, TypeOK, diskVars
  <2> QED BY <2>1, <2>2
<1>7. CASE Promote(w)
  <2>1. /\ req' \in [Worker -> Request] /\ HasKey' /\ req'[w].pc = "idle"
        /\ \A v \in Worker \ {w} : req'[v] = req[v]
    BY <1>7, Ends DEF Promote
  <2>2. /\ file' = [file EXCEPT !["private"] = file["pending"], !["pending"] = NoKey]
        /\ lock' = Nobody /\ made' = made
    BY <1>7 DEF Promote
  <2>3. lock = w
    BY <1>7 DEF Promote, DiskInv, SwapHolds
  <2>4. \A v \in Worker \ {w} : req[v].pc \notin {"writing", "swap"}
    BY <2>3, LockExcludes
  <2>5. file' \in [Path -> Key \cup {NoKey, Torn}] /\ file'["pending"] = NoKey
    BY <1>0, <2>2
  <2>6. DiskInv'
    BY <2>1, <2>2, <2>4, <2>5 DEF DiskInv, Slots, WritingHolds, SwapHolds
  <2> QED BY <1>7, <2>1, <2>2, <2>5, <2>6 DEF Promote, TypeOK
<1> QED BY <1>1, <1>2, <1>3, <1>4, <1>5, <1>6, <1>7

LEMMA RevokeKeeps ==
  ASSUME KeysInv, NEW w \in Worker,
         StartRevoke(w) \/ ConcludeRevoke(w) \/ Unlink(w) \/ Crash(w)
  PROVE  KeysInv'
<1> USE DEF KeysInv, nodeVars
<1>0. /\ req[w] \in Request /\ file \in [Path -> Key \cup {NoKey, Torn}]
      /\ {"private", "pending", "previous"} \subseteq Path
  BY DEF TypeOK, Path
<1>1. CASE StartRevoke(w)
  <2> DEFINE r == [NoRequest EXCEPT !.pc = "revoke", !.path = "previous",
                                    !.key = file["previous"]]
  <2>1. r \in Request /\ r.pc = "revoke" /\ r.key \in Key
    BY <1>0, <1>1 DEF StartRevoke, Readable, NoRequest, Request, Pc, Path, TaskState
  <2>2. Goto(w, r)
    BY <1>1 DEF StartRevoke
  <2> HIDE DEF r
  <2>3. /\ req' \in [Worker -> Request] /\ HasKey' /\ req'[w].pc = "revoke"
        /\ \A v \in Worker \ {w} : req'[v] = req[v]
    BY <2>1, <2>2, Moves
  <2>4. DiskInv'
    BY <1>1, <2>3, DiskStays DEF StartRevoke
  <2> QED BY <1>1, <2>3, <2>4 DEF StartRevoke, TypeOK, diskVars
<1>2. CASE ConcludeRevoke(w)
  <2>1. /\ req' \in [Worker -> Request] /\ HasKey' /\ req'[w].pc \in {"unlink", "idle"}
        /\ \A v \in Worker \ {w} : req'[v] = req[v]
    <3>1. CASE Passed(w)
      <4>1. req[w].key \in Key
        BY <1>2 DEF ConcludeRevoke, HasKey
      <4> QED BY <1>2, <3>1, <4>1, Continues DEF ConcludeRevoke, Pc
    <3>2. CASE ~Passed(w)
      BY <1>2, <3>2, Ends DEF ConcludeRevoke
    <3> QED BY <3>1, <3>2
  <2>2. DiskInv'
    BY <1>2, <2>1, DiskStays DEF ConcludeRevoke
  <2> QED BY <1>2, <2>1, <2>2 DEF ConcludeRevoke, TypeOK, diskVars
<1>3. CASE Unlink(w)
  <2>1. /\ req' \in [Worker -> Request] /\ HasKey' /\ req'[w].pc = "idle"
        /\ \A v \in Worker \ {w} : req'[v] = req[v]
    BY <1>3, Ends DEF Unlink
  <2>2. file' = [file EXCEPT !["previous"] = NoKey] /\ lock' = lock /\ made' = made
    BY <1>3 DEF Unlink
  <2>3. file' \in [Path -> Key \cup {NoKey, Torn}] /\ file'["previous"] = NoKey
        /\ file'["pending"] = file["pending"] /\ file'["private"] = file["private"]
    BY <1>0, <2>2
  <2>4. DiskInv'
    BY <2>1, <2>2, <2>3 DEF DiskInv, Slots, WritingHolds, SwapHolds
  <2> QED BY <1>3, <2>1, <2>2, <2>3, <2>4 DEF Unlink, TypeOK
<1>4. CASE Crash(w)
  <2>1. /\ req' \in [Worker -> Request] /\ HasKey' /\ req'[w].pc = "idle"
        /\ \A v \in Worker \ {w} : req'[v] = req[v]
    BY <1>4, Ends DEF Crash
  <2>2. /\ file' = file /\ made' = made
        /\ lock' = IF lock = w THEN Nobody ELSE lock
    BY <1>4 DEF Crash
  <2>3. DiskInv'
    BY <2>1, <2>2 DEF DiskInv, Slots, WritingHolds, SwapHolds
  <2> QED BY <1>4, <2>1, <2>2, <2>3 DEF Crash, TypeOK
<1> QED BY <1>1, <1>2, <1>3, <1>4

LEMMA NodeKeeps ==
  ASSUME KeysInv, NEW w \in Worker, NEW n \in Node, NodeStep(w, n)
  PROVE  KeysInv'
<1> USE DEF KeysInv
<1>1. TypeOK' /\ HasKey'
  BY NodeTypes
<1>2. UNCHANGED diskVars
  BY DEF NodeStep, SendInstall, Choose, VerifyNode, FailNode, SendRevoke,
         RevokedNode, diskVars
<1>3. \A v \in Worker : req'[v].pc = req[v].pc
  <2>1. PICK s : req' = [req EXCEPT ![w] = [req[w] EXCEPT !.task[n] = s]]
    BY DEF NodeStep, SendInstall, Choose, VerifyNode, FailNode, SendRevoke,
           RevokedNode, Task
  <2> QED BY <2>1 DEF TypeOK, Request
<1> QED BY <1>1, <1>2, <1>3, DiskStays

LEMMA RunKeeps ==
  ASSUME KeysInv, NEW n \in Node, NEW c \in remote[n], Run(n, c)
  PROVE  KeysInv'
<1> USE DEF KeysInv, Run
<1>1. c \in Command /\ c.key \in Key
  BY DEF TypeOK, Command
<1>2. remote' \in [Node -> SUBSET Command] /\ auth' \in [Node -> SUBSET Key]
  BY <1>1 DEF TypeOK
<1>3. removed' \in SUBSET (Node \X Key)
  BY <1>1 DEF TypeOK
<1>4. TypeOK' /\ HasKey'
  BY <1>2, <1>3 DEF TypeOK, HasKey, diskVars
<1>5. DiskInv'
  BY DiskStays
<1> QED BY <1>4, <1>5

LEMMA Inductive ==
  /\ Init => KeysInv
  /\ KeysInv /\ [Next]_vars => KeysInv'
<1>1. Init => KeysInv
  <2> SUFFICES ASSUME Init PROVE KeysInv
    OBVIOUS
  <2>1. req \in [Worker -> Request] /\ \A w \in Worker : req[w].pc = "idle"
    BY RequestTypes DEF Init, NoRequest
  <2>2. TypeOK
    <3>1. file \in [Path -> Key \cup {NoKey, Torn}] /\ made \in 0 .. MaxKeys
      BY KeysAssumption DEF KeysAssumption, Init
    <3>2. astray \in BOOLEAN /\ lock \in Worker \cup {Nobody}
      BY DEF Init
    <3>3. /\ auth \in [Node -> SUBSET Key] /\ known \in SUBSET Node
          /\ remote \in [Node -> SUBSET Command] /\ removed \in SUBSET (Node \X Key)
      BY DEF Init
    <3> QED BY <2>1, <3>1, <3>2, <3>3 DEF TypeOK
  <2>3. HasKey
    BY <2>1 DEF HasKey
  <2>4. DiskInv
    BY <2>1 DEF Init, DiskInv, Slots, WritingHolds, SwapHolds, Path
  <2> QED BY <2>2, <2>3, <2>4 DEF KeysInv
<1>2. KeysInv /\ [Next]_vars => KeysInv'
  <2> SUFFICES ASSUME KeysInv, [Next]_vars PROVE KeysInv'
    OBVIOUS
  <2>1. ASSUME NEW w \in Worker, WorkerStep(w) PROVE KeysInv'
    BY <2>1, InstallKeeps, RevokeKeeps, NodeKeeps DEF WorkerStep
  <2>2. ASSUME NEW n \in Node, NEW c \in remote[n], Run(n, c) PROVE KeysInv'
    BY <2>2, RunKeeps
  <2>3. CASE UNCHANGED vars
    BY <2>3 DEF vars, KeysInv, TypeOK, HasKey, DiskInv, Slots, WritingHolds, SwapHolds
  <2> QED BY <2>1, <2>2, <2>3 DEF Next
<1> QED BY <1>1, <1>2

(***************************************************************************)
(* Files, requests, commands and authorized keys keep the shapes their     *)
(* declarations give them; a key is written only when one may be made.     *)
(***************************************************************************)
THEOREM TypeCorrect == Spec => []TypeOK
<1>1. KeysInv => TypeOK
  BY DEF KeysInv
<1> QED BY <1>1, Inductive, PTL DEF Spec

(***************************************************************************)
(* For any number of workers serving key requests at the same time, killed *)
(* at any point: no rename and no new key ever replaces a key that is      *)
(* still needed; only a revocation takes a key away, the previous one.     *)
(***************************************************************************)
THEOREM KeysKept == Spec => NoKeyOverwritten
<1> DEFINE Kept == OnDisk \ OnDisk' # {} =>
             OnDisk \ OnDisk' = {file["previous"]} /\ file'["previous"] = NoKey
<1>1. KeysInv /\ [Next]_vars => [Kept]_vars
  <2> SUFFICES ASSUME KeysInv, [Next]_vars PROVE Kept
    OBVIOUS
  <2>0. /\ file \in [Path -> Key \cup {NoKey, Torn}]
        /\ Path = {"private", "pending", "previous"}
        /\ NoKey \notin Key /\ Torn # NoKey /\ Torn \notin Key
    BY DEF KeysInv, TypeOK, Path, Key, NoKey, Torn
  <2>1. CASE UNCHANGED file
    BY <2>1 DEF OnDisk
  <2>2. ASSUME NEW w \in Worker, NEW rotate, NEW secret, Create(w, rotate, secret)
        PROVE  Kept
    <3>1. file["pending"] = NoKey /\ file' = [file EXCEPT !["pending"] = Torn]
      BY <2>2 DEF Create, MayCreate
    <3>2. OnDisk \subseteq OnDisk'
      BY <2>0, <3>1 DEF OnDisk
    <3> QED BY <3>2
  <2>3. ASSUME NEW w \in Worker, Write(w) PROVE Kept
    <3>1. file["pending"] = Torn /\ file' = [file EXCEPT !["pending"] = made + 1]
      BY <2>3 DEF Write, KeysInv, DiskInv, WritingHolds
    <3>2. OnDisk \subseteq OnDisk'
      BY <2>0, <3>1 DEF OnDisk
    <3> QED BY <3>2
  <2>4. ASSUME NEW w \in Worker, Retire(w) PROVE Kept
    <3>1. CASE Exists("pending") /\ Exists("private")
      <4>1. file["previous"] = NoKey
        BY <3>1 DEF KeysInv, DiskInv, Slots
      <4>2. file' = [file EXCEPT !["previous"] = file["private"], !["private"] = NoKey]
        BY <2>4, <3>1 DEF Retire
      <4>3. OnDisk \subseteq OnDisk'
        BY <2>0, <4>1, <4>2 DEF OnDisk
      <4> QED BY <4>3
    <3>2. CASE ~(Exists("pending") /\ Exists("private"))
      BY <2>1, <2>4, <3>2 DEF Retire
    <3> QED BY <3>1, <3>2
  <2>5. ASSUME NEW w \in Worker, Promote(w) PROVE Kept
    <3>1. /\ file["private"] = NoKey
          /\ file' = [file EXCEPT !["private"] = file["pending"], !["pending"] = NoKey]
      BY <2>5 DEF Promote, KeysInv, DiskInv, SwapHolds
    <3>2. OnDisk \subseteq OnDisk'
      BY <2>0, <3>1 DEF OnDisk
    <3> QED BY <3>2
  <2>6. ASSUME NEW w \in Worker, Unlink(w) PROVE Kept
    <3>1. file' = [file EXCEPT !["previous"] = NoKey]
      BY <2>6 DEF Unlink
    <3>2. OnDisk \ OnDisk' \subseteq {file["previous"]} /\ file'["previous"] = NoKey
      BY <2>0, <3>1 DEF OnDisk
    <3> QED BY <3>2
  <2>7. ASSUME NEW w \in Worker, NEW n \in Node, NodeStep(w, n) PROVE UNCHANGED file
    BY <2>7 DEF NodeStep, SendInstall, Choose, VerifyNode, FailNode, SendRevoke,
                RevokedNode, diskVars
  <2>8. ASSUME NEW w \in Worker,
               \/ \E rotate \in BOOLEAN, secret \in SUBSET Node : Reuse(w, rotate, secret)
               \/ ReadLine(w) \/ Conclude(w) \/ StartRevoke(w)
               \/ ConcludeRevoke(w) \/ Crash(w)
        PROVE  UNCHANGED file
    BY <2>8 DEF Reuse, ReadLine, Conclude, StartRevoke, ConcludeRevoke, Crash, diskVars
  <2>9. ASSUME NEW n \in Node, NEW c \in remote[n], Run(n, c) PROVE UNCHANGED file
    BY <2>9 DEF Run, diskVars
  <2>10. CASE UNCHANGED vars
    BY <2>1, <2>10 DEF vars
  <2>11. ASSUME NEW w \in Worker, WorkerStep(w) PROVE Kept
    <3> HIDE DEF Kept
    <3> QED BY <2>1, <2>2, <2>3, <2>4, <2>5, <2>6, <2>7, <2>8, <2>11 DEF WorkerStep
  <2> HIDE DEF Kept
  <2> QED BY <2>1, <2>9, <2>10, <2>11 DEF Next
<1> QED BY <1>1, Inductive, PTL DEF Spec, NoKeyOverwritten

(***************************************************************************)
(* Requests that overlap                                                   *)
(*                                                                         *)
(* However many workers serve key requests at the same time: the files     *)
(* differ, a removal under way is of no key that is in use or to be used,  *)
(* and what a request has been told of the key it has read stays true, as  *)
(* long as that key is the pending, or the previous, one.                  *)
(***************************************************************************)
OneEach ==
  /\ \A p, q \in Path : p # q /\ file[p] \in Key => file[p] # file[q]
  /\ \A p \in Path : file[p] <= made

Spent(k) == k <= made /\ k # file["private"] /\ k # file["pending"]
RemovalsSpent == \A n \in Node : \A c \in remote[n] : c.kind = "remove" => Spent(c.key)

Everywhere == \A n \in Node : Accepts(n, "pending")

Installing(r) ==
  /\ r.pc \in {"writing", "line"} =>
       r.path \in {"private", "pending"} /\ \A n \in Node : r.task[n] = "todo"
  /\ r.pc = "install" =>
       /\ r.path \in {"private", "pending"}
       /\ r.key <= made
       /\ r.path = "pending" /\ file["pending"] = r.key =>
            \A n \in Node : r.task[n] = "ok" => Accepts(n, "pending")
  /\ r.pc \in {"activate", "swap"} =>
       /\ r.key <= made
       /\ file["pending"] = r.key => Everywhere

Revoked(n, k) == <<n, k>> \in removed
Revoking(w, r) ==
  /\ r.pc \in {"revoke", "unlink"} => Spent(r.key)
  /\ r.pc = "revoke" => \A n \in Node :
       /\ r.task[n] = "sent" =>
            Revoked(n, r.key) \/ [by |-> w, kind |-> "remove", key |-> r.key] \in remote[n]
       /\ r.task[n] = "ok" => Revoked(n, r.key)
  /\ r.pc = "unlink" => \A n \in Node : Revoked(n, r.key)

StoreInv == OneEach /\ RemovalsSpent /\ ReplacementReady
RequestInv == \A w \in Worker : Installing(req[w]) /\ Revoking(w, req[w])
SharedInv == StoreInv /\ RequestInv

(* What no step may do to the requests of others: bring back a key as the  *)
(* pending one, reuse one that is spent, take the pending key off a node,  *)
(* or forget a removal.                                                    *)
Steady ==
  /\ made <= made'
  /\ \A k \in Key : k <= made /\ file'["pending"] = k => file["pending"] = k
  /\ \A k \in Key : Spent(k) => Spent(k)'
  /\ known \subseteq known'
  /\ \A n \in Node : file["pending"] \in auth[n] => file["pending"] \in auth'[n]
  /\ removed \subseteq removed'
  /\ \A n \in Node : \A c \in remote[n] :
       c.kind = "remove" => c \in remote'[n] \/ <<n, c.key>> \in removed'

(* A request with a key is told nothing but what stays true.               *)
LEMMA Stable ==
  ASSUME Steady, made \in Nat, made' \in Nat, NEW v, NEW r,
         Installing(r), Revoking(v, r),
         r.pc \in {"install", "activate", "swap", "revoke", "unlink"} => r.key \in Key
  PROVE  Installing(r)' /\ Revoking(v, r)'
<1>0. \A k \in Key : k \in Int
  BY KeysAssumption DEF KeysAssumption, Key
<1>1. ASSUME r.key \in Key, r.key <= made, file'["pending"] = r.key
      PROVE  /\ file["pending"] = r.key
             /\ \A n \in Node : Accepts(n, "pending") => Accepts(n, "pending")'
  <2>1. file["pending"] = r.key
    BY <1>1 DEF Steady
  <2> QED BY <1>1, <2>1 DEF Steady, Accepts
<1>2. ASSUME r.key \in Key, r.key <= made PROVE r.key <= made'
  BY <1>0, <1>2 DEF Steady
<1>3. Installing(r)'
  <2>1. CASE r.pc \in {"writing", "line"}
    BY <2>1 DEF Installing
  <2>2. CASE r.pc = "install"
    BY <1>1, <1>2, <2>2 DEF Installing
  <2>3. CASE r.pc \in {"activate", "swap"}
    BY <1>1, <1>2, <2>3 DEF Installing, Everywhere
  <2> QED BY <2>1, <2>2, <2>3 DEF Installing
<1>4. \A n \in Node : Revoked(n, r.key) => Revoked(n, r.key)'
  BY DEF Steady, Revoked
<1>5. ASSUME NEW n \in Node, [by |-> v, kind |-> "remove", key |-> r.key] \in remote[n]
      PROVE  Revoked(n, r.key)' \/ [by |-> v, kind |-> "remove", key |-> r.key] \in remote'[n]
  BY <1>5 DEF Steady, Revoked
<1>6. r.pc \in {"revoke", "unlink"} => Spent(r.key)'
  BY DEF Steady, Revoking
<1> QED BY <1>3, <1>4, <1>5, <1>6 DEF Revoking

(* The new request of w, and the requests of others, in a steady step.     *)
LEMMA OnlyRequest ==
  ASSUME KeysInv, RequestInv, NEW w \in Worker, NEW r, Goto(w, r),
         Steady, made' \in Nat,
         Installing(r)', Revoking(w, r)'
  PROVE  RequestInv'
<1>1. made \in Nat /\ req \in [Worker -> Request]
  BY KeysAssumption DEF KeysAssumption, KeysInv, TypeOK
<1>2. ASSUME NEW v \in Worker PROVE Installing(req[v])' /\ Revoking(v, req[v])'
  <2>1. CASE v = w
    <3>1. req'[v] = r
      BY <1>1, <2>1
    <3> QED BY <2>1, <3>1 DEF Installing, Revoking, Accepts, Everywhere, Revoked, Spent
  <2>2. CASE v # w
    <3>1. PICK x : x = req[v]
      OBVIOUS
    <3>2. req'[v] = x
      BY <1>1, <2>2, <3>1
    <3>3. x.pc \in {"install", "activate", "swap", "revoke", "unlink"} => x.key \in Key
      BY <3>1 DEF KeysInv, HasKey
    <3>4. Installing(x) /\ Revoking(v, x)
      BY <3>1 DEF RequestInv
    <3>5. Installing(x)' /\ Revoking(v, x)'
      BY <1>1, <3>3, <3>4, Stable
    <3> QED BY <3>2, <3>5 DEF Installing, Revoking, Accepts, Everywhere, Revoked, Spent
  <2> QED BY <2>1, <2>2
<1> QED BY <1>2 DEF RequestInv

(* A request that changes neither files nor nodes.                         *)
LEMMA OnlyMoves ==
  ASSUME KeysInv, SharedInv, NEW w \in Worker, NEW r, Goto(w, r),
         UNCHANGED <<file, made, astray>>, UNCHANGED nodeVars,
         Installing(r), Revoking(w, r)
  PROVE  SharedInv'
<1> USE DEF nodeVars
<1>0. made \in Nat
  BY KeysAssumption DEF KeysAssumption, KeysInv, TypeOK
<1>1. StoreInv'
  BY DEF SharedInv, StoreInv, OneEach, RemovalsSpent, Spent, ReplacementReady, Accepts
<1>2. Installing(r)' /\ Revoking(w, r)'
  BY DEF Installing, Revoking, Accepts, Everywhere, Revoked, Spent
<1>3. Steady
  BY <1>0 DEF Steady, Spent
<1> QED BY <1>0, <1>1, <1>2, <1>3, OnlyRequest DEF SharedInv

(* No request at all.                                                      *)
LEMMA IdleFits ==
  ASSUME NEW w, NEW r, r.pc = "idle"
  PROVE  Installing(r) /\ Revoking(w, r)
BY DEF Installing, Revoking

LEMMA ReadingKeeps ==
  ASSUME KeysInv, SharedInv, NEW w \in Worker,
         \/ \E rotate \in BOOLEAN, secret \in SUBSET Node : Reuse(w, rotate, secret)
         \/ ReadLine(w) \/ Conclude(w) \/ StartRevoke(w) \/ ConcludeRevoke(w) \/ Crash(w)
  PROVE  SharedInv'
<1> USE DEF KeysInv, diskVars
<1>0. /\ req[w] \in Request /\ NoRequest \in Request
      /\ Installing(req[w]) /\ Revoking(w, req[w])
  BY RequestTypes DEF TypeOK, SharedInv, RequestInv
<1>1. NoRequest.pc = "idle"
  BY DEF NoRequest
<1>2. ASSUME Done(w), UNCHANGED <<file, made, astray>>, UNCHANGED nodeVars PROVE SharedInv'
  BY <1>1, <1>2, IdleFits, OnlyMoves
<1>3. ASSUME NEW rotate \in BOOLEAN, NEW secret \in SUBSET Node, Reuse(w, rotate, secret)
      PROVE  SharedInv'
  <2> DEFINE path == IF Exists("pending") THEN "pending" ELSE "private"
             r == Begin(path, secret, "line")
  <2>1. /\ r.pc = "line" /\ r.path \in {"private", "pending"}
        /\ \A n \in Node : r.task[n] = "todo"
    BY DEF Begin, NoRequest
  <2>2. Goto(w, r) /\ UNCHANGED <<file, made, astray>> /\ UNCHANGED nodeVars
    BY <1>3 DEF Reuse
  <2> HIDE DEF r
  <2>3. Installing(r) /\ Revoking(w, r)
    BY <2>1 DEF Installing, Revoking
  <2>4. \E x : x = r
    OBVIOUS
  <2> QED BY <2>2, <2>3, OnlyMoves
<1>4. CASE ReadLine(w)
  <2>1. CASE Readable(req[w].path)
    <3> DEFINE r == [req[w] EXCEPT !.pc = "install", !.key = file[req[w].path]]
    <3>1. /\ r.pc = "install" /\ r.path = req[w].path /\ r.task = req[w].task
      BY <1>0 DEF Request
    <3>2. Goto(w, r) /\ UNCHANGED <<file, made, astray>> /\ UNCHANGED nodeVars
      BY <1>4, <2>1 DEF ReadLine
    <3>3. Installing(r) /\ Revoking(w, r)
      <4>1. r.key = file[req[w].path]
        BY <1>0 DEF Request
      <4>2. \A n \in Node : r.task[n] = "todo"
        BY <1>0, <1>4, <3>1 DEF Installing, ReadLine
      <4>3. r.path \in {"private", "pending"}
        BY <1>0, <1>4, <3>1 DEF Installing, ReadLine
      <4>4. r.key <= made
        BY <3>1, <4>1, <4>3 DEF SharedInv, StoreInv, OneEach, Path
      <4> HIDE DEF r
      <4> QED BY <3>1, <4>2, <4>3, <4>4 DEF Installing, Revoking
    <3> HIDE DEF r
    <3> QED BY <3>2, <3>3, OnlyMoves
  <2>2. CASE ~Readable(req[w].path)
    BY <1>2, <1>4, <2>2 DEF ReadLine
  <2> QED BY <2>1, <2>2
<1>5. CASE Conclude(w)
  <2>1. CASE Passed(w) /\ req[w].path = "pending"
    <3> DEFINE r == [req[w] EXCEPT !.pc = "activate"]
    <3>1. r.pc = "activate"
      BY <1>0 DEF Request
    <3>2. Goto(w, r) /\ UNCHANGED <<file, made, astray>> /\ UNCHANGED nodeVars
      BY <1>5, <2>1 DEF Conclude
    <3>3. r.key = req[w].key /\ r.key <= made /\ (file["pending"] = r.key => Everywhere)
      BY <1>0, <1>5, <2>1 DEF Conclude, Installing, Passed, Everywhere, Request
    <3>4. Installing(r) /\ Revoking(w, r)
      BY <3>1, <3>3 DEF Installing, Revoking
    <3> HIDE DEF r
    <3> QED BY <3>2, <3>4, OnlyMoves
  <2>2. CASE ~(Passed(w) /\ req[w].path = "pending")
    BY <1>2, <1>5, <2>2 DEF Conclude
  <2> QED BY <2>1, <2>2
<1>6. CASE StartRevoke(w)
  <2> DEFINE r == [NoRequest EXCEPT !.pc = "revoke", !.path = "previous",
                                    !.key = file["previous"]]
  <2>1. /\ r.pc = "revoke" /\ r.key = file["previous"]
        /\ \A n \in Node : r.task[n] = "todo"
    BY DEF NoRequest
  <2>2. Goto(w, r) /\ UNCHANGED <<file, made, astray>> /\ UNCHANGED nodeVars
    BY <1>6 DEF StartRevoke
  <2> HIDE DEF r
  <2>3. Spent(file["previous"])
    <3>1. file["previous"] \in Key /\ "previous" \in Path
      BY <1>6 DEF StartRevoke, Readable, Path
    <3> QED BY <3>1 DEF SharedInv, StoreInv, OneEach, Spent, Path
  <2>4. Installing(r) /\ Revoking(w, r)
    BY <2>1, <2>3 DEF Installing, Revoking
  <2> QED BY <2>2, <2>4, OnlyMoves
<1>7. CASE ConcludeRevoke(w)
  <2>1. CASE Passed(w)
    <3> DEFINE r == [req[w] EXCEPT !.pc = "unlink"]
    <3>1. r.pc = "unlink" /\ r.key = req[w].key
      BY <1>0 DEF Request
    <3>2. Goto(w, r) /\ UNCHANGED <<file, made, astray>> /\ UNCHANGED nodeVars
      BY <1>7, <2>1 DEF ConcludeRevoke
    <3>3. Installing(r) /\ Revoking(w, r)
      BY <1>0, <1>7, <2>1, <3>1 DEF ConcludeRevoke, Installing, Revoking, Passed
    <3> HIDE DEF r
    <3> QED BY <3>2, <3>3, OnlyMoves
  <2>2. CASE ~Passed(w)
    BY <1>2, <1>7, <2>2 DEF ConcludeRevoke
  <2> QED BY <2>1, <2>2
<1>8. CASE Crash(w)
  BY <1>2, <1>8 DEF Crash
<1> QED BY <1>3, <1>4, <1>5, <1>6, <1>7, <1>8

(* The values of the files, as facts.                                      *)
LEMMA FileFacts ==
  ASSUME KeysInv
  PROVE  /\ file \in [Path -> Key \cup {NoKey, Torn}] /\ made \in Nat
         /\ Path = {"private", "pending", "previous"}
         /\ NoKey \notin Key /\ Torn # NoKey /\ Torn \notin Key /\ NoKey = 0 /\ Torn = -1
         /\ \A k \in Key : k \in Int
         /\ \A n \in Node : auth[n] \subseteq Key
         /\ \A n \in Node : \A c \in remote[n] : c \in Command /\ c.key \in Key
BY KeysAssumption DEF KeysAssumption, KeysInv, TypeOK, Path, Key, NoKey, Torn, Command

LEMMA DiskKeeps ==
  ASSUME KeysInv, SharedInv, NEW w \in Worker,
         \/ \E rotate \in BOOLEAN, secret \in SUBSET Node : Create(w, rotate, secret)
         \/ Write(w) \/ Retire(w) \/ Promote(w) \/ Unlink(w)
  PROVE  SharedInv'
<1> USE DEF nodeVars
<1>0. /\ req[w] \in Request /\ NoRequest \in Request /\ TypeOK
      /\ Installing(req[w]) /\ Revoking(w, req[w])
      /\ OneEach /\ RemovalsSpent /\ ReplacementReady /\ RequestInv
  BY RequestTypes DEF KeysInv, TypeOK, SharedInv, StoreInv, RequestInv
<1>1. NoRequest.pc = "idle"
  BY DEF NoRequest
<1>2. ASSUME StoreInv', Done(w), Steady, made' \in Nat PROVE SharedInv'
  <2>1. Installing(NoRequest)' /\ Revoking(w, NoRequest)'
    BY <1>1 DEF Installing, Revoking, NoRequest
  <2> DEFINE r == NoRequest
  <2>2. Goto(w, r)
    BY <1>2
  <2>3. PICK x : x = NoRequest
    OBVIOUS
  <2>4. Goto(w, x) /\ x.pc = "idle"
    BY <1>1, <2>2, <2>3
  <2>5. Installing(x)' /\ Revoking(w, x)'
    BY <2>4 DEF Installing, Revoking
  <2> QED BY <1>0, <1>2, <2>4, <2>5, OnlyRequest DEF SharedInv
<1>3. ASSUME NEW rotate \in BOOLEAN, NEW secret \in SUBSET Node, Create(w, rotate, secret)
      PROVE  SharedInv'
  <2>1. PICK r : /\ r = Begin("pending", secret, "writing")
    OBVIOUS
  <2>2. /\ r.pc = "writing" /\ r.path = "pending" /\ \A n \in Node : r.task[n] = "todo"
    BY <2>1 DEF Begin, NoRequest
  <2>3. Goto(w, r) /\ file' = [file EXCEPT !["pending"] = Torn] /\ made' = made
        /\ astray' = astray /\ UNCHANGED nodeVars /\ file["pending"] = NoKey
    BY <1>3, <2>1 DEF Create, MayCreate
  <2>4. /\ file'["pending"] = Torn /\ file'["private"] = file["private"]
        /\ file'["previous"] = file["previous"]
    BY <2>3, FileFacts
  <2>5. OneEach'
    BY <1>0, <2>3, <2>4, FileFacts DEF OneEach
  <2>6. RemovalsSpent'
    BY <1>0, <2>3, <2>4, FileFacts DEF RemovalsSpent, Spent
  <2>7. ReplacementReady'
    <3>1. ~(file["private"] = NoKey /\ file["previous"] # NoKey /\ ~astray)
      BY <1>0, <2>3, FileFacts, KeysAssumption DEF KeysAssumption, ReplacementReady, Accepts
    <3> QED BY <2>3, <2>4, <3>1 DEF ReplacementReady
  <2>8. Installing(r)' /\ Revoking(w, r)'
    BY <2>2 DEF Installing, Revoking
  <2>9. Steady /\ made' \in Nat
    BY <2>3, <2>4, FileFacts DEF Steady, Spent
  <2> QED BY <1>0, <2>3, <2>5, <2>6, <2>7, <2>8, <2>9, OnlyRequest DEF SharedInv, StoreInv
<1>4. CASE Write(w)
  <2>1. PICK r : r = [req[w] EXCEPT !.pc = "line"]
    OBVIOUS
  <2>2. /\ r.pc = "line" /\ r.path \in {"private", "pending"}
        /\ \A n \in Node : r.task[n] = "todo"
    BY <1>0, <1>4, <2>1 DEF Write, Installing, Request
  <2>3. Goto(w, r) /\ file' = [file EXCEPT !["pending"] = made + 1] /\ made' = made + 1
        /\ astray' = astray /\ UNCHANGED nodeVars /\ file["pending"] = Torn
    BY <1>4, <2>1 DEF Write, KeysInv, DiskInv, WritingHolds
  <2>4. /\ file'["pending"] = made + 1 /\ file'["private"] = file["private"]
        /\ file'["previous"] = file["previous"]
    BY <2>3, FileFacts
  <2>5. OneEach'
    BY <1>0, <2>3, <2>4, FileFacts DEF OneEach
  <2>6. RemovalsSpent'
    BY <1>0, <2>3, <2>4, FileFacts DEF RemovalsSpent, Spent
  <2>7. ReplacementReady'
    <3>1. ~(file["private"] = NoKey /\ file["previous"] # NoKey /\ ~astray)
      BY <1>0, <2>3, FileFacts, KeysAssumption DEF KeysAssumption, ReplacementReady, Accepts
    <3> QED BY <2>3, <2>4, <3>1 DEF ReplacementReady
  <2>8. Installing(r)' /\ Revoking(w, r)'
    BY <2>2 DEF Installing, Revoking
  <2>9. Steady /\ made' \in Nat
    BY <2>3, <2>4, FileFacts DEF Steady, Spent
  <2> QED BY <1>0, <2>3, <2>5, <2>6, <2>7, <2>8, <2>9, OnlyRequest DEF SharedInv, StoreInv
<1>5. CASE Retire(w)
  <2>0. req[w].key <= made /\ (file["pending"] = req[w].key => Everywhere)
    BY <1>0, <1>5 DEF Retire, Installing
  <2>1. CASE Exists("pending")
    <3>1. PICK r : r = [req[w] EXCEPT !.pc = "swap"]
      OBVIOUS
    <3>2. r.pc = "swap" /\ r.key = req[w].key
      BY <1>0, <3>1 DEF Request
    <3>3. /\ Goto(w, r) /\ made' = made /\ UNCHANGED nodeVars
          /\ astray' = IF Exists("private") THEN file["pending"] # req[w].key ELSE astray
          /\ file' = IF Exists("private")
               THEN [file EXCEPT !["previous"] = file["private"], !["private"] = NoKey]
               ELSE file
      BY <1>5, <2>1, <3>1 DEF Retire
    <3>4. /\ file'["pending"] = file["pending"]
          /\ \/ /\ file'["private"] = NoKey /\ file'["previous"] = file["private"]
                /\ ~astray' => file["pending"] = req[w].key
             \/ file' = file /\ astray' = astray
      BY <3>3, FileFacts
    <3>5. OneEach'
      BY <1>0, <3>3, <3>4, FileFacts DEF OneEach
    <3>6. RemovalsSpent'
      BY <1>0, <3>3, <3>4, FileFacts DEF RemovalsSpent, Spent
    <3>7. Everywhere => Everywhere'
      BY <3>3, <3>4 DEF Everywhere, Accepts
    <3>8. Installing(r)' /\ Revoking(w, r)'
      BY <2>0, <3>2, <3>3, <3>4, <3>7 DEF Installing, Revoking
    <3>9. ReplacementReady'
      <4>1. CASE file' = file /\ astray' = astray
        BY <1>0, <3>3, <4>1 DEF ReplacementReady, Accepts
      <4>2. CASE ~astray' => file["pending"] = req[w].key
        BY <2>0, <3>7, <4>2 DEF ReplacementReady, Everywhere
      <4> QED BY <3>4, <4>1, <4>2
    <3>10. Steady /\ made' \in Nat
      BY <3>3, <3>4, FileFacts DEF Steady, Spent
    <3> QED BY <1>0, <3>3, <3>5, <3>6, <3>8, <3>9, <3>10, OnlyRequest DEF SharedInv, StoreInv
  <2>2. CASE ~Exists("pending")
    <3>1. UNCHANGED <<file, made, astray>> /\ UNCHANGED nodeVars /\ Done(w)
      BY <1>5, <2>2 DEF Retire
    <3> QED BY <1>0, <1>1, <3>1, IdleFits, OnlyMoves
  <2> QED BY <2>1, <2>2
<1>6. CASE Promote(w)
  <2>1. /\ file' = [file EXCEPT !["private"] = file["pending"], !["pending"] = NoKey]
        /\ made' = made /\ UNCHANGED nodeVars /\ Done(w) /\ file["pending"] # NoKey
    BY <1>6 DEF Promote, KeysInv, DiskInv, SwapHolds
  <2>2. /\ file'["private"] = file["pending"] /\ file'["pending"] = NoKey
        /\ file'["previous"] = file["previous"]
    BY <2>1, FileFacts
  <2>3. OneEach'
    BY <1>0, <2>1, <2>2, FileFacts DEF OneEach
  <2>4. RemovalsSpent'
    BY <1>0, <2>1, <2>2, FileFacts DEF RemovalsSpent, Spent
  <2>5. ReplacementReady'
    BY <2>1, <2>2 DEF ReplacementReady
  <2>6. Steady /\ made' \in Nat
    BY <2>1, <2>2, FileFacts DEF Steady, Spent
  <2> QED BY <1>2, <2>1, <2>3, <2>4, <2>5, <2>6 DEF StoreInv
<1>7. CASE Unlink(w)
  <2>1. /\ file' = [file EXCEPT !["previous"] = NoKey]
        /\ made' = made /\ UNCHANGED nodeVars /\ Done(w)
    BY <1>7 DEF Unlink
  <2>2. /\ file'["private"] = file["private"] /\ file'["pending"] = file["pending"]
        /\ file'["previous"] = NoKey
    BY <2>1, FileFacts
  <2>3. OneEach'
    BY <1>0, <2>1, <2>2, FileFacts DEF OneEach
  <2>4. RemovalsSpent'
    BY <1>0, <2>1, <2>2, FileFacts DEF RemovalsSpent, Spent
  <2>5. ReplacementReady'
    BY <2>2 DEF ReplacementReady
  <2>6. Steady /\ made' \in Nat
    BY <2>1, <2>2, FileFacts DEF Steady, Spent
  <2> QED BY <1>2, <2>1, <2>3, <2>4, <2>5, <2>6 DEF StoreInv
<1> QED BY <1>3, <1>4, <1>5, <1>6, <1>7

(* The node threads of a request.                                          *)
LEMMA NodeShared ==
  ASSUME KeysInv, SharedInv, NEW w \in Worker, NEW n \in Node, NodeStep(w, n)
  PROVE  SharedInv'
<1> USE DEF nodeVars, diskVars
<1>0. /\ req[w] \in Request /\ TypeOK /\ Installing(req[w]) /\ Revoking(w, req[w])
      /\ OneEach /\ RemovalsSpent /\ ReplacementReady /\ RequestInv
      /\ made \in Nat
  BY KeysAssumption DEF KeysAssumption, KeysInv, TypeOK, SharedInv, StoreInv, RequestInv
<1>1. ASSUME NEW s, Task(w, n, s)
      PROVE  \E r : /\ Goto(w, r) /\ r.pc = req[w].pc /\ r.path = req[w].path
                    /\ r.key = req[w].key /\ r.task[n] = s
                    /\ \A m \in Node : m # n => r.task[m] = req[w].task[m]
  <2> DEFINE r == [req[w] EXCEPT !.task[n] = s]
  <2>1. /\ r.pc = req[w].pc /\ r.path = req[w].path /\ r.key = req[w].key /\ r.task[n] = s
        /\ \A m \in Node : m # n => r.task[m] = req[w].task[m]
    BY <1>0 DEF Request
  <2>2. Goto(w, r)
    BY <1>1 DEF Task
  <2> HIDE DEF r
  <2> QED BY <2>1, <2>2
<1>2. CASE SendInstall(w, n)
  <2>1. Task(w, n, "sent") /\ req[w].pc = "install" /\ file' = file /\ made' = made
        /\ known \subseteq known' /\ auth' = auth /\ removed' = removed
        /\ astray' = astray
    BY <1>2 DEF SendInstall
  <2>2. PICK r : /\ Goto(w, r) /\ r.pc = req[w].pc /\ r.path = req[w].path
                 /\ r.key = req[w].key /\ r.task[n] = "sent"
                 /\ \A m \in Node : m # n => r.task[m] = req[w].task[m]
    BY <1>1, <2>1
  <2>3. \A m \in Node : \A c \in remote'[m] : c.kind = "remove" => c \in remote[m]
    BY <1>0, <1>2 DEF SendInstall, Order, TypeOK
  <2>4. StoreInv'
    BY <1>0, <2>1, <2>3 DEF StoreInv, OneEach, RemovalsSpent, Spent, ReplacementReady, Accepts
  <2>5. Installing(r)' /\ Revoking(w, r)'
    BY <1>0, <2>1, <2>2 DEF Installing, Revoking, Accepts
  <2>6. \A m \in Node : remote[m] \subseteq remote'[m]
    BY <1>0, <1>2 DEF SendInstall, Order, TypeOK
  <2>7. Steady /\ made' \in Nat
    BY <1>0, <2>1, <2>6 DEF Steady, Spent
  <2> QED BY <1>0, <2>2, <2>4, <2>5, <2>7, OnlyRequest DEF SharedInv
<1>3. CASE SendRevoke(w, n)
  <2>1. Task(w, n, "sent") /\ req[w].pc = "revoke" /\ file' = file /\ made' = made
        /\ known' = known /\ auth' = auth /\ removed' = removed /\ Order(w, n, "remove")
        /\ astray' = astray
    BY <1>3 DEF SendRevoke
  <2>2. PICK r : /\ Goto(w, r) /\ r.pc = req[w].pc /\ r.path = req[w].path
                 /\ r.key = req[w].key /\ r.task[n] = "sent"
                 /\ \A m \in Node : m # n => r.task[m] = req[w].task[m]
    BY <1>1, <2>1
  <2>3. PICK c : c = [by |-> w, kind |-> "remove", key |-> req[w].key]
    OBVIOUS
  <2>4. /\ remote'[n] = remote[n] \cup {c}
        /\ \A m \in Node : m # n => remote'[m] = remote[m]
    BY <1>0, <2>1, <2>3 DEF Order, TypeOK
  <2>5. Spent(req[w].key)
    BY <1>0, <2>1 DEF Revoking
  <2>6. RemovalsSpent'
    BY <1>0, <2>1, <2>3, <2>4, <2>5 DEF RemovalsSpent, Spent
  <2>7. StoreInv'
    BY <1>0, <2>1, <2>6 DEF StoreInv, OneEach, ReplacementReady, Accepts
  <2>8. Installing(r)' /\ Revoking(w, r)'
    <3>1. Installing(r)'
      BY <2>1, <2>2 DEF Installing
    <3>2. [by |-> w, kind |-> "remove", key |-> r.key] \in remote'[n]
      BY <2>2, <2>3, <2>4
    <3>3. Spent(r.key)'
      BY <2>1, <2>2, <2>5 DEF Spent
    <3>4. \A m \in Node : remote[m] \subseteq remote'[m]
      BY <2>4
    <3> QED BY <1>0, <2>1, <2>2, <3>1, <3>2, <3>3, <3>4 DEF Revoking, Revoked
  <2>9. Steady /\ made' \in Nat
    <3>1. \A m \in Node : remote[m] \subseteq remote'[m]
      BY <2>4
    <3> QED BY <1>0, <2>1, <3>1 DEF Steady, Spent
  <2> QED BY <1>0, <2>2, <2>7, <2>8, <2>9, OnlyRequest DEF SharedInv
<1>4. ASSUME NEW s, Task(w, n, s), UNCHANGED <<diskVars, nodeVars>>,
             req[w].pc = "install" /\ s = "ok" => Accepts(n, req[w].path),
             req[w].pc = "revoke" => s # "sent" /\ (s = "ok" => Revoked(n, req[w].key)),
             req[w].pc \in {"install", "revoke"}
      PROVE  SharedInv'
  <2>1. PICK r : /\ Goto(w, r) /\ r.pc = req[w].pc /\ r.path = req[w].path
                 /\ r.key = req[w].key /\ r.task[n] = s
                 /\ \A m \in Node : m # n => r.task[m] = req[w].task[m]
    BY <1>1, <1>4
  <2>2. Installing(r)
    BY <1>0, <1>4, <2>1 DEF Installing
  <2>3. Revoking(w, r)
    BY <1>0, <1>4, <2>1 DEF Revoking
  <2> QED BY <1>4, <2>1, <2>2, <2>3, OnlyMoves
<1>5. CASE Choose(w, n)
  BY <1>4, <1>5 DEF Choose
<1>6. CASE VerifyNode(w, n)
  BY <1>4, <1>6 DEF VerifyNode, MayVerify, Verified
<1>7. CASE FailNode(w, n)
  BY <1>4, <1>7 DEF FailNode
<1>8. CASE RevokedNode(w, n)
  <2>1. Revoked(n, req[w].key)
    BY <1>0, <1>8 DEF RevokedNode, HasRun, Ordered, Revoking
  <2> QED BY <1>4, <1>8, <2>1 DEF RevokedNode
<1> QED BY <1>2, <1>3, <1>5, <1>6, <1>7, <1>8 DEF NodeStep

(* A late command adds a key, or removes one that nobody counts on.        *)
LEMMA RunShared ==
  ASSUME KeysInv, SharedInv, NEW n \in Node, NEW c \in remote[n], Run(n, c)
  PROVE  SharedInv'
<1>0. /\ TypeOK /\ OneEach /\ RemovalsSpent /\ ReplacementReady
      /\ UNCHANGED <<file, made, astray, req, known>> /\ made \in Nat
      /\ removed \subseteq removed'
      /\ \A m \in Node : m # n => remote'[m] = remote[m] /\ auth'[m] = auth[m]
      /\ remote'[n] = remote[n] \ {c}
  BY KeysAssumption DEF KeysAssumption, Run, diskVars, KeysInv, TypeOK, SharedInv, StoreInv
<1>1. \A k : k \in {file["private"], file["pending"]} =>
        \A m \in Node : k \in auth[m] => k \in auth'[m]
  <2>1. c.kind = "add" => auth[n] \subseteq auth'[n]
    BY <1>0 DEF Run, TypeOK
  <2>2. c.kind # "add" => auth'[n] = auth[n] \ {c.key} /\ Spent(c.key)
    BY <1>0 DEF Run, TypeOK, Command, RemovalsSpent
  <2> QED BY <1>0, <2>1, <2>2 DEF Spent
<1>2. c.kind = "remove" => <<n, c.key>> \in removed'
  BY <1>0 DEF Run, TypeOK, Command
<1>3. \A m \in Node, p \in {"private", "pending"} : Accepts(m, p) => Accepts(m, p)'
  BY <1>0, <1>1 DEF Accepts
<1>4. StoreInv'
  BY <1>0, <1>3 DEF StoreInv, OneEach, RemovalsSpent, Spent, ReplacementReady
<1>5. Steady
  <2>1. \A m \in Node : \A d \in remote[m] :
          d.kind = "remove" => d \in remote'[m] \/ <<m, d.key>> \in removed'
    BY <1>0, <1>2
  <2>2. \A m \in Node : file["pending"] \in auth[m] => file["pending"] \in auth'[m]
    BY <1>1
  <2> QED BY <1>0, <2>1, <2>2 DEF Steady, Spent
<1>6. ASSUME NEW w \in Worker PROVE Installing(req[w])' /\ Revoking(w, req[w])'
  <2>1. PICK x : x = req[w]
    OBVIOUS
  <2>2. Installing(x) /\ Revoking(w, x)
    BY <2>1 DEF SharedInv, RequestInv
  <2>3. x.pc \in {"install", "activate", "swap", "revoke", "unlink"} => x.key \in Key
    BY <2>1 DEF KeysInv, HasKey
  <2>4. Installing(x)' /\ Revoking(w, x)'
    BY <1>0, <1>5, <2>2, <2>3, Stable
  <2> QED BY <1>0, <2>1, <2>4 DEF Installing, Revoking, Accepts, Everywhere, Revoked, Spent
<1> QED BY <1>4, <1>6 DEF SharedInv, RequestInv

(***************************************************************************)
(* What requests keep, however they overlap, whatever requests were        *)
(* abandoned before and whenever their commands run.                       *)
(***************************************************************************)
LEMMA SharedAlways == Spec => [](KeysInv /\ SharedInv)
<1>1. Init => SharedInv
  <2> SUFFICES ASSUME Init PROVE SharedInv
    OBVIOUS
  <2>1. \A w \in Worker : req[w].pc = "idle"
    BY DEF Init, NoRequest
  <2>2. RequestInv
    BY <2>1, IdleFits DEF RequestInv
  <2>3. OneEach
    BY DEF Init, OneEach, NoKey, Key
  <2>4. RemovalsSpent /\ ReplacementReady
    BY DEF Init, RemovalsSpent, ReplacementReady, Path
  <2> QED BY <2>2, <2>3, <2>4 DEF SharedInv, StoreInv
<1>2. KeysInv /\ SharedInv /\ [Next]_vars => SharedInv'
  <2> SUFFICES ASSUME KeysInv, SharedInv, [Next]_vars PROVE SharedInv'
    OBVIOUS
  <2>1. ASSUME NEW w \in Worker, WorkerStep(w) PROVE SharedInv'
    BY <2>1, ReadingKeeps, DiskKeeps, NodeShared DEF WorkerStep
  <2>2. ASSUME NEW n \in Node, NEW c \in remote[n], Run(n, c) PROVE SharedInv'
    BY <2>2, RunShared
  <2>3. CASE UNCHANGED vars
    BY <2>3 DEF vars, SharedInv, StoreInv, RequestInv, OneEach, RemovalsSpent, Spent,
         ReplacementReady, Installing, Revoking, Revoked, Accepts, Everywhere
  <2> QED BY <2>1, <2>2, <2>3 DEF Next
<1> QED BY <1>1, <1>2, Inductive, PTL DEF Spec

(***************************************************************************)
(* A worker killed between the two renames of activate leaves a pending    *)
(* key that every node accepts, for any number of overlapping requests,    *)
(* unless the activation had taken another key than the one it verified.   *)
(***************************************************************************)
THEOREM ResumeSafe == Spec => []ReplacementReady
<1>1. SharedInv => ReplacementReady
  BY DEF SharedInv, StoreInv
<1> QED BY <1>1, SharedAlways, PTL

(***************************************************************************)
(* The key a request has verified becomes active only when every node      *)
(* accepts it, on any number of nodes, whatever requests overlap and       *)
(* however late commands run.                                              *)
(***************************************************************************)
THEOREM ActivationSafe == Spec => ActiveAccepted
<1> DEFINE Safe == \A w \in Worker : Promote(w) /\ file["pending"] = req[w].key =>
             \A n \in Node : file'["private"] \in auth[n]
<1>1. KeysInv /\ SharedInv => [Safe]_vars
  <2> SUFFICES ASSUME KeysInv, SharedInv, NEW w \in Worker, Promote(w),
                      file["pending"] = req[w].key, NEW n \in Node
               PROVE  file'["private"] \in auth[n]
    OBVIOUS
  <2>1. file'["private"] = file["pending"]
    BY FileFacts DEF Promote
  <2>2. Everywhere
    BY DEF Promote, SharedInv, RequestInv, Installing
  <2> QED BY <2>1, <2>2 DEF Everywhere, Accepts
<1> QED BY <1>1, SharedAlways, PTL DEF ActiveAccepted

(***************************************************************************)
(* The key a request set out to revoke is deleted only when its revocation *)
(* has run on every node, whatever requests overlap.                       *)
(***************************************************************************)
THEOREM DeletionSafe == Spec => DeletedAfterRevocation
<1> DEFINE Safe == \A w \in Worker : Unlink(w) /\ file["previous"] = req[w].key =>
             \A n \in Node : <<n, file["previous"]>> \in removed
<1>1. KeysInv /\ SharedInv => [Safe]_vars
  <2> SUFFICES ASSUME SharedInv, NEW w \in Worker, Unlink(w),
                      file["previous"] = req[w].key, NEW n \in Node
               PROVE  <<n, file["previous"]>> \in removed
    OBVIOUS
  <2> QED BY DEF Unlink, SharedInv, RequestInv, Revoking, Revoked
<1> QED BY <1>1, SharedAlways, PTL DEF DeletedAfterRevocation
=============================================================================
