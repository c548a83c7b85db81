--------------------------- MODULE ProjectRecords ---------------------------
(***************************************************************************)
(* The rows of one project (nodes, STONITH profiles) and the evidence of   *)
(* its workflow steps.  A request reads the rows, runs its step on the     *)
(* nodes for up to minutes and only then saves the evidence; meanwhile     *)
(* other requests may edit the rows, or delete the project.                *)
(*                                                                         *)
(* Of the rows, hostnames are kept (results are matched by hostname); of   *)
(* everything else only whether it has changed since a step was started or *)
(* its evidence saved.                                                     *)
(*                                                                         *)
(* Source: web/routes/projects.py, ssh_access.py and stonith.py, and       *)
(* persistence/repositories/projects.py.                                   *)
(***************************************************************************)
EXTENDS Integers

CONSTANTS
  Worker,   \* worker processes
  NodeId,   \* primary keys of node rows
  Host,     \* hostnames
  NoHost,   \* no such node row
  Step      \* the steps users run, a subset of Steps closed under Needs

Chain == <<"00a", "00b", "00c", "01", "02", "03", "04", "05", "06", "07">>
InChain == {Chain[i] : i \in 1 .. 10}
Steps == InChain \cup {"00k", "00kr", "08a", "08a-fa"}

(* The steps that must be complete before a step is run.                   *)
Needs(s) ==
  CASE s = "00b" -> {"00a"}
    [] s = "00c" -> {"00a", "00b"}
    [] s = "01"  -> {"00a", "00b", "00c"}
    [] s = "02"  -> {"01"}
    [] s = "03"  -> {"02"}
    [] s = "04"  -> {"03"}
    [] s = "05"  -> {"00a", "00b", "00c", "01", "02", "03", "04"}
    [] s = "06"  -> {"05"}
    [] s = "07"  -> {"06"}
    [] OTHER     -> {}

ASSUME RecordsAssumption ==
  /\ NoHost \notin Host
  /\ Step \subseteq Steps
  /\ \A s \in Step : Needs(s) \subseteq Step

VARIABLES
  exists,    \* the project row
  host,      \* host[n]: the hostname of node row n
  profiles,  \* whether STONITH profiles are defined
  ev,        \* ev[n][s]: the evidence row of step s for node row n
  passed,    \* history: the steps that have passed on the node of row n
  mistaken,  \* history: the rows that were given the result of another node
  run        \* run[w]: the request worker w is serving

rows == <<exists, host, profiles>>
history == <<passed, mistaken>>
vars == <<rows, ev, history, run>>

Hosts == [NodeId -> Host \cup {NoHost}]
Nobody == [n \in NodeId |-> NoHost]

(* History: whether something the result depends on has changed since its  *)
(* step began: before it had saved its result, or by the new SSH endpoint  *)
(* of a later network_apply (overtaken), or by an edit since (outdated).   *)
Evidence == [ok : {"none", "pass", "fail"},
             age : {"current", "overtaken", "outdated"}]
NoEvidence == [ok |-> "none", age |-> "current"]

(* view: the hostnames the request has loaded.  History: the nodes for     *)
(* which nothing its step depends on has changed since (sure), and whether *)
(* the project it speaks of has been deleted (gone).                       *)
Edits == {"node", "verify"}
Request == [kind : Edits \cup {"none", "step"}, remote : BOOLEAN, step : Steps,
            view : Hosts, sure : SUBSET NodeId, gone : BOOLEAN]
NoRequest == [kind |-> "none", remote |-> FALSE, step |-> "00a", view |-> Nobody,
              sure |-> {}, gone |-> FALSE]

TypeOK ==
  /\ exists \in BOOLEAN
  /\ host \in Hosts
  /\ profiles \in BOOLEAN
  /\ ev \in [NodeId -> [Step -> Evidence]]
  /\ passed \in [NodeId -> SUBSET Steps]
  /\ mistaken \in SUBSET NodeId
  /\ run \in [Worker -> Request]

Init ==
  /\ exists = FALSE
  /\ host = Nobody
  /\ profiles = FALSE
  /\ ev = [n \in NodeId |-> [s \in Step |-> NoEvidence]]
  /\ passed = [n \in NodeId |-> {}]
  /\ mistaken = {}
  /\ run = [w \in Worker |-> NoRequest]

-----------------------------------------------------------------------------
(* Rows and evidence                                                       *)

Rows(h) == {n \in NodeId : h[n] # NoHost}
Nodes == Rows(host)

(* workflow_step_complete: exactly the project's nodes have passed.        *)
SomePass(s) == \E n \in Nodes : ev[n][s].ok = "pass"  \* mutant
Complete(s) == Nodes # {} /\ {n \in NodeId : ev[n][s].ok = "pass"} = Nodes

(* What the result of a step depends on, as far as a document says so.     *)
Depends(s) ==
  CASE s = "08a"             -> {"hostname", "profiles"}
    [] s = "08a-fa"          -> {"hostname", "endpoint", "profiles"}
    [] s \in {"00k", "00kr"} -> {"hostname", "endpoint"}
    [] OTHER                 -> {}
Affected(s, changes) == Depends(s) \cap changes # {}

(* History: evidence left in place, and steps on their way, at the nodes S *)
(* after a change.                                                         *)
Aged(e, S, changes, age) ==
  [n \in NodeId |-> [s \in Step |->
     IF n \in S /\ Affected(s, changes) /\ e[n][s].ok # "none" /\ e[n][s].age # "outdated"
       THEN [e[n][s] EXCEPT !.age = age] ELSE e[n][s]]]
Doubted(w, r, S, changes) ==
  [v \in Worker |->
     IF v = w THEN r
     ELSE [run[v] EXCEPT !.sure = IF Affected(run[v].step, changes) THEN @ \ S ELSE @]]

(* The evidence an edit of a node, or of the profiles, deletes.            *)
ClearedMoveOnly(renamed, moved) ==  \* mutant
  IF moved THEN {"08a-fa", "00k", "00kr"} ELSE {}

ClearedByEdit(renamed, moved) ==
  (IF renamed THEN {"08a", "08a-fa", "00k", "00kr"} ELSE {})
    \cup (IF moved THEN {"08a-fa", "00k", "00kr"} ELSE {})

ClearedByProfiles == {"08a", "08a-fa"}

Cleared(e, S, steps) ==
  [n \in NodeId |-> [s \in Step |->
     IF n \in S /\ s \in steps THEN NoEvidence ELSE e[n][s]]]

-----------------------------------------------------------------------------
(* Requests                                                                *)

Idle(w) == run[w].kind = "none"
Serving(w, k) == run[w].kind = k /\ ~run[w].remote
Continue(w, r) == run' = [run EXCEPT ![w] = r]

(* The rows a request loads when it begins.  One that is refused changes   *)
(* nothing and is not a step.                                              *)
Loaded(k, s, remote) ==
  [kind |-> k, remote |-> remote, step |-> s, view |-> host, sure |-> Nodes,
   gone |-> FALSE]

(* edit_node, and the profiles form (verify: Save and verify).  A handler  *)
(* that changes nothing by what it has loaded (the creation of a project   *)
(* or node, the profiles form saved only, the deletion) is one step, its   *)
(* commit.                                                                 *)
Open(w, k) ==
  /\ Idle(w)
  /\ Nodes # {}
  /\ k = "verify" => "08a" \in Step
  /\ Continue(w, Loaded(k, IF k = "verify" THEN "08a" ELSE "00a", FALSE))
  /\ UNCHANGED <<rows, ev, history>>

(* A step begins: its gate is checked and it works on the nodes over SSH   *)
(* (00c is network_apply; 08a is part of the profiles form).               *)
Gate(s) ==
  /\ Nodes # {}
  /\ \A r \in Needs(s) : Complete(r)
  /\ s = "00b" => \E m, n \in Nodes : m # n
  /\ s = "08a-fa" => profiles

Start(w, s) ==
  /\ Idle(w)
  /\ exists
  /\ s # "08a"
  /\ Gate(s)
  /\ Continue(w, Loaded("step", s, TRUE))
  /\ UNCHANGED <<rows, ev, history>>

(* The id of a deleted project is free again and given to the next one     *)
(* (SQLite reuses the highest row id), as are those of its nodes.          *)
Create(w) ==
  /\ Idle(w)
  /\ ~exists
  /\ exists' = TRUE
  /\ host' \in Hosts
  /\ \A m, n \in Rows(host') : host'[m] = host'[n] => m = n
  /\ profiles' \in IF host' = Nobody THEN {FALSE} ELSE BOOLEAN
  /\ UNCHANGED <<ev, history, run>>

(* UNIQUE(project_id, hostname), and node_conflicts before it.             *)
Free(h, n, hosts) == \A m \in NodeId \ {n} : hosts[m] # h

AddNode(w) ==
  /\ Idle(w)
  /\ exists
  /\ \E n \in NodeId \ Nodes, h \in Host :
       Free(h, n, host) /\ host' = [host EXCEPT ![n] = h]
  /\ UNCHANGED <<exists, profiles, ev, history, run>>

(* The form is compared with the row the request has loaded.               *)
EditNode(w) ==
  /\ Serving(w, "node")
  /\ \E n \in Nodes \cap Rows(run[w].view), h \in Host, moved \in BOOLEAN :
       LET renamed == h # run[w].view[n]
           changes == (IF renamed /\ h # host[n] THEN {"hostname"} ELSE {})
                        \cup (IF moved THEN {"endpoint"} ELSE {})
       IN
       /\ Free(h, n, run[w].view)
       /\ renamed => Free(h, n, host)
       /\ host' = IF renamed THEN [host EXCEPT ![n] = h] ELSE host
       /\ ev' = Aged(Cleared(ev, {n}, ClearedByEdit(renamed, moved)), {n}, changes, "outdated")
       /\ run' = Doubted(w, NoRequest, {n}, changes)
  /\ UNCHANGED <<exists, profiles, history>>

(* The profiles are saved; with "verify" the controllers are asked next.   *)
Define(w) ==
  LET next == IF run[w].kind = "verify" THEN [run[w] EXCEPT !.remote = TRUE]
              ELSE NoRequest IN
  /\ (Idle(w) /\ Nodes # {}) \/ Serving(w, "verify")
  /\ exists
  /\ profiles' = TRUE
  /\ \/ /\ ev' = Aged(Cleared(ev, NodeId, ClearedByProfiles), NodeId, {"profiles"}, "outdated")
        /\ run' = Doubted(w, next, NodeId, {"profiles"})
     \/ /\ profiles
        /\ Continue(w, next)
        /\ UNCHANGED ev
  /\ UNCHANGED <<exists, host, history>>

(* Everything that belongs to the project goes with it.                    *)
Delete(w) ==
  /\ Idle(w)
  /\ exists
  /\ exists' = FALSE
  /\ host' = Nobody
  /\ profiles' = FALSE
  /\ ev' = Cleared(ev, NodeId, Step)
  /\ passed' = [n \in NodeId |-> {}]
  /\ mistaken' = {}
  /\ run' = [v \in Worker |->
       IF run[v].kind \in {"step", "verify"} THEN [run[v] EXCEPT !.gone = TRUE] ELSE run[v]]

(* A commit finds its rows gone, a hostname taken or the database locked,  *)
(* the step raises, the worker is killed.                                  *)
Abandon(w) ==
  /\ ~Idle(w)
  /\ Continue(w, NoRequest)
  /\ UNCHANGED <<rows, ev, history>>

-----------------------------------------------------------------------------
(* save_step_results                                                       *)

(* The node rows to which the result for row v of the view is saved: by    *)
(* hostname, among the rows the session still holds (kept), which are      *)
(* those of the view, or among those it reads again.                       *)
Target(w, kept, v) ==
  IF kept THEN {v} ELSE {n \in Nodes : host[n] = run[w].view[v]}

Result(w, v, good) ==
  [ok  |-> IF v \in good THEN "pass" ELSE "fail",
   age |-> IF v \in run[w].sure THEN "current" ELSE "overtaken"]

(* The row of the view whose result is saved for row n, if there is one.   *)
From(w, kept, tried, n) == {v \in tried : n \in Target(w, kept, v)}
Source(w, kept, tried, n) == CHOOSE v \in From(w, kept, tried, n) : TRUE

Saved(w, kept, tried, good) ==
  [n \in NodeId |->
     IF From(w, kept, tried, n) = {} THEN ev[n]
     ELSE [ev[n] EXCEPT ![run[w].step] =
             Result(w, Source(w, kept, tried, n), good)]]

(* History: a result belongs to row n if the step ran on the node of row n *)
(* of this project, not of a deleted one that had its ids.                 *)
Record(w, kept, tried, good) ==
  LET given == {n \in NodeId : From(w, kept, tried, n) # {}}
      own   == {n \in given : Source(w, kept, tried, n) = n /\ ~run[w].gone}
  IN
  /\ mistaken' = mistaken \cup (given \ own)
  /\ passed' = [n \in NodeId |->
       IF n \in mistaken' THEN {}
       ELSE IF n \in own \cap good THEN passed[n] \cup {run[w].step}
       ELSE passed[n]]

(* A step has run on every node of the view, network_apply on one of them. *)
(* The profiles and network_apply handlers hold on to the rows they have   *)
(* loaded; in the others the session may have dropped them.  Foreign keys  *)
(* are not enforced: rows kept are saved also when the project is gone.    *)
Tried(w) ==
  IF run[w].step = "00c" THEN {{n} : n \in Rows(run[w].view)}
  ELSE {Rows(run[w].view)}

(* A PASS of network_apply replaces the SSH endpoint of its node, which    *)
(* has to exist for that, by another one if the management address differs *)
(* from the address used before.                                           *)
Save(w) ==
  /\ run[w].remote
  /\ \E kept \in BOOLEAN, tried \in Tried(w), good \in SUBSET Rows(run[w].view),
        moved \in SUBSET NodeId :
       /\ good \subseteq tried
       /\ moved \subseteq IF run[w].step = "00c" THEN good ELSE {}
       /\ run[w].step \in {"00c", "08a"} => kept
       /\ run[w].step = "00c" => good \subseteq Nodes
       /\ IF kept \/ exists
            THEN /\ ev' = Aged(Saved(w, kept, tried, good), moved, {"endpoint"}, "overtaken")
                 /\ Record(w, kept, tried, good)
            ELSE UNCHANGED <<ev, history>>
       /\ run' = Doubted(w, NoRequest, moved, {"endpoint"})
  /\ UNCHANGED rows

WorkerStep(w) ==
  \/ \E k \in Edits : Open(w, k)
  \/ \E s \in Step : Start(w, s)
  \/ Create(w) \/ AddNode(w) \/ EditNode(w) \/ Define(w) \/ Delete(w)
  \/ Save(w) \/ Abandon(w)

Next == \E w \in Worker : WorkerStep(w)

Spec == Init /\ [][Next]_vars

-----------------------------------------------------------------------------
(* Properties                                                              *)

(* README: "Definition changes invalidate earlier 08a results"; agent      *)
(* results are "invalidated after profile or node identity/SSH endpoint    *)
(* changes", and so is the evidence that the SSH key works.  Whatever      *)
(* requests overlap, no edit of a node or of the profiles leaves evidence  *)
(* in place that it outdates.  (A step that was on its way saves its       *)
(* evidence afterwards, and network_apply moves the endpoint.)             *)
EvidenceCurrent == \A n \in NodeId, s \in Step : ev[n][s].age # "outdated"

(* The steps come in order on every node: evidence of a step, passed or    *)
(* failed, exists only where every step before it in the chain has passed, *)
(* also on nodes that were added or renamed in between, and while other    *)
(* requests edit the project or delete it and create the next one.  (Not   *)
(* on a row that was given the result of another node by a step overtaken  *)
(* by a rename or a deletion.)                                             *)
Before(s) == {Chain[i] : i \in {i \in 1 .. 10 : \E j \in 1 .. 10 : i < j /\ Chain[j] = s}}
StepsInOrder ==
  \A n \in NodeId \ mistaken, s \in Step :
    ev[n][s].ok # "none" => Before(s) \subseteq passed[n]
=============================================================================
