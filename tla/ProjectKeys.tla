---------------------------- MODULE ProjectKeys ----------------------------
(***************************************************************************)
(* The SSH key of one project: creation, installation on the cluster       *)
(* nodes, activation, rotation and revocation, by requests that several    *)
(* worker processes serve at the same time, and the authorized_keys that   *)
(* their remote commands change, possibly after the request gave up.       *)
(*                                                                         *)
(* Source: core/services/project_ssh.py, its caller                        *)
(* web/routes/ssh_access.py and _connect in core/services/ssh_bootstrap.py.*)
(***************************************************************************)
EXTENDS Integers, FiniteSets

CONSTANTS
  Node,     \* the project's nodes
  Worker,   \* worker processes that may serve a key request at the same time
  Nobody,   \* the holder of a free lock
  MaxKeys,  \* bound: keys generated in a behaviour
  MaxRemote \* bound: commands sent to a node that have not run yet

ASSUME KeysAssumption ==
  Nobody \notin Worker /\ MaxKeys \in Nat /\ Node # {} /\ MaxRemote \in Nat

Key == 1 .. MaxKeys  \* key k is the k-th one generated
NoKey == 0           \* no such file
Torn == -1           \* a key file created and not yet, or never, written
Path == {"private", "pending", "previous"}

VARIABLES
  file,     \* file[p]: the key stored under a path of the key directory
  made,     \* number of keys generated
  lock,     \* the worker that holds flock on .lock
  req,      \* req[w]: the key request worker w is serving
  auth,     \* auth[n]: the project keys in authorized_keys of node n
  known,    \* the nodes enrolled in known_hosts
  remote,   \* remote[n]: commands sent to n that have not run yet
  removed,  \* history: <<n, k>> when a revocation of k has run on n
  astray    \* history: the last activation retired the active key for a
            \* pending one other than the one its request had verified

diskVars == <<file, made, lock, astray>>
nodeVars == <<auth, known, remote, removed>>
vars == <<file, made, lock, req, auth, known, remote, removed, astray>>

Pc == {"idle", "writing", "line", "install", "activate", "swap", "revoke", "unlink"}

TaskState == {"todo", "bare", "sent", "ok", "fail"}

(* path: the candidate, the file a new connection has to succeed with;     *)
(* key: the key put into, or removed from, authorized_keys; secret: the    *)
(* nodes whose current root password was entered; task: the node threads   *)
(* ("bare": it has no credentials to install with, and only verifies).     *)
Request == [pc : Pc, path : Path, key : Key \cup {NoKey}, secret : SUBSET Node,
            task : [Node -> TaskState]]
Command == [by : Worker, kind : {"add", "remove"}, key : Key]

NoRequest == [pc |-> "idle", path |-> "private", key |-> NoKey, secret |-> {},
              task |-> [n \in Node |-> "todo"]]

TypeOK ==
  /\ file \in [Path -> Key \cup {NoKey, Torn}]
  /\ made \in 0 .. MaxKeys
  /\ lock \in Worker \cup {Nobody}
  /\ req \in [Worker -> Request]
  /\ auth \in [Node -> SUBSET Key]
  /\ known \in SUBSET Node
  /\ remote \in [Node -> SUBSET Command]
  /\ removed \in SUBSET (Node \X Key)
  /\ astray \in BOOLEAN

Init ==
  /\ file = [p \in Path |-> NoKey]
  /\ made = 0
  /\ lock = Nobody
  /\ req = [w \in Worker |-> NoRequest]
  /\ auth = [n \in Node |-> {}]
  /\ known = {}
  /\ remote = [n \in Node |-> {}]
  /\ removed = {}
  /\ astray = FALSE

At(w, p) == req[w].pc = p
Goto(w, r) == req' = [req EXCEPT ![w] = r]
Done(w) == Goto(w, NoRequest)
Exists(p) == file[p] # NoKey

(* key(): the file holds a private key.                                    *)
Readable(p) == file[p] \in Key

-----------------------------------------------------------------------------
(* install_project_key                                                     *)

Begin(path, secret, pc) ==
  [NoRequest EXCEPT !.pc = pc, !.path = path, !.secret = secret]

(* prepare: the pending key is reused, then the active one unless it is to *)
(* be rotated.  A file that is not a key refuses the request.              *)
Reuse(w, rotate, secret) ==
  LET path == IF Exists("pending") THEN "pending" ELSE "private" IN
  /\ At(w, "idle")
  /\ lock = Nobody
  /\ Exists("pending") \/ (Exists("private") /\ ~rotate)
  /\ Readable(path)
  /\ Goto(w, Begin(path, secret, "line"))
  /\ UNCHANGED <<diskVars, nodeVars>>

(* Otherwise a key is generated, unless the previous one still waits for   *)
(* its revocation: the file is created, then written, under the lock.      *)
MayCreateAny(rotate) == ~Exists("pending") /\ (Exists("private") => rotate)  \* mutant
MayCreate(rotate) ==
  /\ ~Exists("pending")
  /\ Exists("private") => rotate
  /\ rotate => ~Exists("previous")

Create(w, rotate, secret) ==
  /\ At(w, "idle")
  /\ lock = Nobody
  /\ made < MaxKeys
  /\ MayCreate(rotate)
  /\ file' = [file EXCEPT !["pending"] = Torn]
  /\ lock' = w
  /\ Goto(w, Begin("pending", secret, "writing"))
  /\ UNCHANGED <<made, astray, nodeVars>>

Write(w) ==
  /\ At(w, "writing")
  /\ made' = made + 1
  /\ file' = [file EXCEPT !["pending"] = made + 1]
  /\ lock' = Nobody
  /\ Goto(w, [req[w] EXCEPT !.pc = "line"])
  /\ UNCHANGED <<astray, nodeVars>>

(* authorized_key_line reads the candidate again, without the lock.        *)
ReadLine(w) ==
  /\ At(w, "line")
  /\ IF Readable(req[w].path)
       THEN Goto(w, [req[w] EXCEPT !.pc = "install", !.key = file[req[w].path]])
       ELSE Done(w)
  /\ UNCHANGED <<diskVars, nodeVars>>

(* A connection with the key stored under path p.                          *)
Accepts(n, p) == n \in known /\ file[p] \in auth[n]

Task(w, n, s) == Goto(w, [req[w] EXCEPT !.task[n] = s])
Room(n) == Cardinality(remote[n]) < MaxRemote
Order(w, n, kind) ==
  remote' = [remote EXCEPT ![n] = @ \cup {[by |-> w, kind |-> kind, key |-> req[w].key]}]

(* A node thread connects with the password, which enrols the host, or     *)
(* with the active key, and sends the installation script.                 *)
SendInstall(w, n) ==
  /\ At(w, "install")
  /\ req[w].task[n] = "todo"
  /\ \/ n \in req[w].secret /\ known' = known \cup {n}
     \/ n \notin req[w].secret /\ Accepts(n, "private") /\ known' = known
  /\ Room(n)
  /\ Order(w, n, "add")
  /\ Task(w, n, "sent")
  /\ UNCHANGED <<diskVars, auth, removed>>

Ordered(w, n) == \E c \in remote[n] : c.by = w /\ c.key = req[w].key

(* Without a password or an active key only the candidate is tried.        *)
Choose(w, n) ==
  /\ At(w, "install")
  /\ req[w].task[n] = "todo"
  /\ n \notin req[w].secret
  /\ ~Exists("private")
  /\ Task(w, n, "bare")
  /\ UNCHANGED <<diskVars, nodeVars>>

(* The new connection that verifies the candidate, as stored by then.      *)
MayVerify(w, n) ==
  /\ At(w, "install")
  /\ \/ req[w].task[n] = "sent" /\ ~Ordered(w, n)
     \/ req[w].task[n] = "bare"

VerifyUnread(w, n) == n \in known  \* mutant
Verified(w, n) == Accepts(n, req[w].path)

VerifyNode(w, n) ==
  /\ MayVerify(w, n)
  /\ Verified(w, n)
  /\ Task(w, n, "ok")
  /\ UNCHANGED <<diskVars, nodeVars>>

(* A node fails at any point, also by the 90 s budget; a command already   *)
(* sent is not recalled.                                                   *)
FailNode(w, n) ==
  /\ At(w, "install") \/ At(w, "revoke")
  /\ req[w].task[n] \in {"todo", "bare", "sent"}
  /\ Task(w, n, "fail")
  /\ UNCHANGED <<diskVars, nodeVars>>

PassedAny(w) == \E n \in Node : req[w].task[n] = "ok"  \* mutant
Passed(w) == \A n \in Node : req[w].task[n] = "ok"
Failed(w) == /\ \A n \in Node : req[w].task[n] \in {"ok", "fail"}
             /\ ~Passed(w)

(* The results are in: a candidate other than the active key is activated. *)
Conclude(w) ==
  /\ At(w, "install")
  /\ Passed(w) \/ Failed(w)
  /\ IF Passed(w) /\ req[w].path = "pending"
       THEN Goto(w, [req[w] EXCEPT !.pc = "activate"])
       ELSE Done(w)
  /\ UNCHANGED <<diskVars, nodeVars>>

(* activate: under the lock, the active key becomes the previous one ...   *)
Retire(w) ==
  /\ At(w, "activate")
  /\ lock = Nobody
  /\ IF Exists("pending")
       THEN /\ lock' = w
            /\ file' = IF Exists("private")
                 THEN [file EXCEPT !["previous"] = file["private"], !["private"] = NoKey]
                 ELSE file
            /\ astray' = IF Exists("private") THEN file["pending"] # req[w].key ELSE astray
            /\ Goto(w, [req[w] EXCEPT !.pc = "swap"])
       ELSE Done(w) /\ UNCHANGED <<file, lock, astray>>
  /\ UNCHANGED <<made, nodeVars>>

(* ... and the pending key the active one.                                 *)
Promote(w) ==
  /\ At(w, "swap")
  /\ file' = [file EXCEPT !["private"] = file["pending"], !["pending"] = NoKey]
  /\ lock' = Nobody
  /\ Done(w)
  /\ UNCHANGED <<made, astray, nodeVars>>

-----------------------------------------------------------------------------
(* revoke_previous_key                                                     *)

StartRevoke(w) ==
  /\ At(w, "idle")
  /\ Readable("previous")
  /\ Goto(w, [NoRequest EXCEPT !.pc = "revoke", !.path = "previous",
                               !.key = file["previous"]])
  /\ UNCHANGED <<diskVars, nodeVars>>

SendRevoke(w, n) ==
  /\ At(w, "revoke")
  /\ req[w].task[n] = "todo"
  /\ Accepts(n, "private")
  /\ Room(n)
  /\ Order(w, n, "remove")
  /\ Task(w, n, "sent")
  /\ UNCHANGED <<diskVars, auth, known, removed>>

UntilSent(w, n) == req[w].task[n] = "sent"  \* mutant
HasRun(w, n) == req[w].task[n] = "sent" /\ ~Ordered(w, n)

RevokedNode(w, n) ==
  /\ At(w, "revoke")
  /\ HasRun(w, n)
  /\ Task(w, n, "ok")
  /\ UNCHANGED <<diskVars, nodeVars>>

ConcludeRevoke(w) ==
  /\ At(w, "revoke")
  /\ Passed(w) \/ Failed(w)
  /\ IF Passed(w) THEN Goto(w, [req[w] EXCEPT !.pc = "unlink"]) ELSE Done(w)
  /\ UNCHANGED <<diskVars, nodeVars>>

Unlink(w) ==
  /\ At(w, "unlink")
  /\ lock = Nobody
  /\ file' = [file EXCEPT !["previous"] = NoKey]
  /\ Done(w)
  /\ UNCHANGED <<made, lock, astray, nodeVars>>

-----------------------------------------------------------------------------
(* A command runs on its node, one at a time under the node's own flock.   *)
Run(n, c) ==
  /\ c \in remote[n]
  /\ remote' = [remote EXCEPT ![n] = @ \ {c}]
  /\ IF c.kind = "add"
       THEN /\ auth' = [auth EXCEPT ![n] = @ \cup {c.key}]
            /\ removed' = removed
       ELSE /\ auth' = [auth EXCEPT ![n] = @ \ {c.key}]
            /\ removed' = removed \cup {<<n, c.key>>}
  /\ UNCHANGED <<diskVars, req, known>>

(* A worker is killed: its request and its lock are gone, the files and    *)
(* the commands it sent are not.                                           *)
Crash(w) ==
  /\ Done(w)
  /\ lock' = IF lock = w THEN Nobody ELSE lock
  /\ UNCHANGED <<file, made, astray, nodeVars>>

NodeStep(w, n) ==
  \/ SendInstall(w, n) \/ Choose(w, n) \/ VerifyNode(w, n) \/ FailNode(w, n)
  \/ SendRevoke(w, n) \/ RevokedNode(w, n)

WorkerStep(w) ==
  \/ \E rotate \in BOOLEAN, secret \in SUBSET Node :
       Reuse(w, rotate, secret) \/ Create(w, rotate, secret)
  \/ Write(w) \/ ReadLine(w) \/ Conclude(w) \/ Retire(w) \/ Promote(w)
  \/ StartRevoke(w) \/ ConcludeRevoke(w) \/ Unlink(w)
  \/ Crash(w)
  \/ \E n \in Node : NodeStep(w, n)

Next ==
  \/ \E w \in Worker : WorkerStep(w)
  \/ \E n \in Node : \E c \in remote[n] : Run(n, c)

Spec == Init /\ [][Next]_vars

-----------------------------------------------------------------------------
(* Properties                                                              *)

(* "No key is overwritten" (prepare's comment): whatever requests overlap  *)
(* and wherever a worker is killed, a key on disk stays on disk, except    *)
(* the previous key when its revocation unlinks it.                        *)
OnDisk == {file[p] : p \in Path} \cap Key
NoKeyOverwritten ==
  [][OnDisk \ OnDisk' # {} =>
       OnDisk \ OnDisk' = {file["previous"]} /\ file'["previous"] = NoKey]_vars

(* README: "The key becomes active only after all current nodes pass": the *)
(* key a request has installed and verified becomes active only when every *)
(* node accepts it, whatever other requests and late commands have done.   *)
(* (Another key that is pending by then is activated too.)                 *)
ActiveAccepted ==
  [][\A w \in Worker : Promote(w) /\ file["pending"] = req[w].key =>
       \A n \in Node : file'["private"] \in auth[n]]_vars

(* README: revocation "deletes the previous local private key only after   *)
(* every current node succeeds": the key a request set out to revoke is    *)
(* unlinked only when it has been removed from every node.  (Another one   *)
(* that is the previous key by then is unlinked too.)                      *)
DeletedAfterRevocation ==
  [][\A w \in Worker : Unlink(w) /\ file["previous"] = req[w].key =>
       \A n \in Node : <<n, file["previous"]>> \in removed]_vars

(* A worker killed between the two renames of activate leaves a pending    *)
(* key that every node accepts: no password is needed to resume, unless    *)
(* the key pending by then was not the one that had been verified.         *)
ReplacementReady ==
  file["private"] = NoKey /\ file["previous"] # NoKey /\ ~astray =>
    \A n \in Node : Accepts(n, "pending")
=============================================================================
