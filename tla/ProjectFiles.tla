---------------------------- MODULE ProjectFiles ----------------------------
(***************************************************************************)
(* One project slug: its rows in the database, its YAML file, and the      *)
(* state of that file in the index and in HEAD of the Git repository.  A   *)
(* request commits to the database, writes the file and runs git one after *)
(* the other; it may be cut off between any two of them, and requests of   *)
(* two worker processes may overlap.                                       *)
(*                                                                         *)
(* A definition is kept as the numbers of the edits its parts come from:   *)
(* the columns of the project, its nodes and profiles, and updated_at,     *)
(* which every edit sets.                                                  *)
(*                                                                         *)
(* Source: core/services/projects.py and git.py, write_project_yaml in     *)
(* core/serializers/yaml_project.py, persist_files and its callers in      *)
(* web/routes/projects.py and stonith.py.  Git is modelled from how        *)
(* git.py calls it.                                                        *)
(***************************************************************************)
EXTENDS Naturals

CONSTANTS
  Worker,    \* worker processes
  MaxEdits   \* bound on edits, counted over all projects that had the slug

ASSUME FilesAssumption == MaxEdits \in Nat

VARIABLES
  row,    \* the definition in the database
  file,   \* the definition in project.yaml
  index,  \* what the Git index has for it
  head,   \* what HEAD has for it
  edits,  \* number of edits committed so far
  req,    \* req[w]: the request worker w serves
  cut,    \* history: a request has been cut off half way, and no save has
          \* been served alone and to its end since
  raced   \* history: another request has overlapped the last deletion

vars == <<row, file, index, head, edits, req, cut, raced>>

Version == 0 .. MaxEdits
Content == [project : Version, nodes : Version, stamp : Version]

(* No row, no file, no entry.                                              *)
Absent == [project |-> 0, nodes |-> 0, stamp |-> 0]

(* alone is history: no other request has overlapped this one.             *)
Kinds == {"none", "create", "project", "node", "delete"}
Steps == {"load", "commit", "reread", "write", "rmtree", "add", "gitcommit",
          "drop", "done", "refused"}
Request == [kind : Kinds, at : Steps, view : Content, alone : BOOLEAN]
NoRequest == [kind |-> "none", at |-> "load", view |-> Absent, alone |-> FALSE]

TypeOK ==
  /\ row \in Content
  /\ file \in Content
  /\ index \in Content
  /\ head \in Content
  /\ edits \in Version
  /\ req \in [Worker -> Request]
  /\ cut \in BOOLEAN
  /\ raced \in BOOLEAN

Init ==
  /\ row = Absent
  /\ file = Absent
  /\ index = Absent
  /\ head = Absent
  /\ edits = 0
  /\ req = [w \in Worker |-> NoRequest]
  /\ cut = FALSE
  /\ raced = FALSE

-----------------------------------------------------------------------------
(* Requests                                                                *)

Idle(w) == req[w].kind = "none"
At(w, K, s) == req[w].kind \in K /\ req[w].at = s
Goto(w, s) == req' = [req EXCEPT ![w].at = s]

Alone(w) == \A v \in Worker \ {w} : Idle(v)
Begin(w, k) ==
  /\ Idle(w)
  /\ (row = Absent) = (k = "create")
  /\ req' = [v \in Worker |->
       IF v = w THEN [kind |-> k, at |-> IF k = "delete" THEN "rmtree" ELSE "commit",
                      view |-> row, alone |-> Alone(w)]
       ELSE [req[v] EXCEPT !.alone = FALSE]]
  /\ UNCHANGED <<row, file, index, head, edits, cut, raced>>

(* The request ends: done, or with the error of a git command; or it is    *)
(* cut off: git finds its lock held, the row is gone, the worker is        *)
(* killed.                                                                 *)
Respond(w) ==
  /\ At(w, Kinds, "done") \/ At(w, Kinds, "refused")
  /\ req' = [req EXCEPT ![w] = NoRequest]
  /\ cut' = ((cut /\ ~(req[w].alone /\ req[w].at = "done")) \/ req[w].at = "refused")
  /\ UNCHANGED <<row, file, index, head, edits, raced>>

CutOff(w) ==
  /\ ~Idle(w)
  /\ req[w].at \notin {"done", "refused"}
  /\ req' = [req EXCEPT ![w] = NoRequest]
  /\ cut' = (cut \/ req[w].at # "commit")
  /\ UNCHANGED <<row, file, index, head, edits, raced>>

-----------------------------------------------------------------------------
(* Saving                                                                  *)

(* Only the columns that were set are written.                             *)
Edited(c, k, n) ==
  CASE k = "create"  -> [project |-> n, nodes |-> n, stamp |-> n]
    [] k = "project" -> [c EXCEPT !.project = n, !.stamp = n]
    [] OTHER         -> [c EXCEPT !.nodes = n, !.stamp = n]

CommitRow(w) ==
  /\ At(w, {"create", "project", "node"}, "commit")
  /\ (row = Absent) = (req[w].kind = "create")
  /\ edits < MaxEdits
  /\ edits' = edits + 1
  /\ row' = Edited(row, req[w].kind, edits')
  /\ req' = [req EXCEPT ![w].at = "reread",
                        ![w].view = Edited(req[w].view, req[w].kind, edits')]
  /\ UNCHANGED <<file, index, head, cut, raced>>

(* persist_files reads the project again, but the session holds on to the  *)
(* project row it has edited, and to the nodes if the handler has read     *)
(* them (edit_node, clone_node, network_apply, profiles).                  *)
Reread(w) ==
  /\ At(w, {"create", "project", "node"}, "reread")
  /\ row # Absent
  /\ \E nodes \in {row.nodes} \cup (IF req[w].kind = "node" THEN {req[w].view.nodes} ELSE {}) :
       req' = [req EXCEPT ![w].at = "write", ![w].view.nodes = nodes]
  /\ UNCHANGED <<row, file, index, head, edits, cut, raced>>

(* write_project_yaml: a file with the same content is left alone, and     *)
(* nothing is committed then; another one is replaced in one step.         *)
SameProject(c) == file.project = c.project  \* mutant
SameFile(c) == file = c

WriteFile(w) ==
  /\ At(w, {"create", "project", "node"}, "write")
  /\ IF SameFile(req[w].view) THEN Goto(w, "done") /\ UNCHANGED file
     ELSE Goto(w, "add") /\ file' = req[w].view
  /\ UNCHANGED <<row, index, head, edits, cut, raced>>

-----------------------------------------------------------------------------
(* Deleting                                                                *)

AfterRmtreeKept == file  \* mutant
AfterRmtree == Absent

RemoveFiles(w) ==
  /\ At(w, {"delete"}, "rmtree")
  /\ file' = AfterRmtree
  /\ Goto(w, "add")
  /\ UNCHANGED <<row, index, head, edits, cut, raced>>

(* The row is deleted whatever it holds by now; if there is none any more, *)
(* the request fails (CutOff).                                             *)
DropRow(w) ==
  /\ At(w, {"delete"}, "drop")
  /\ row # Absent
  /\ row' = Absent
  /\ raced' = ~req[w].alone
  /\ Goto(w, "done")
  /\ UNCHANGED <<file, index, head, edits, cut>>

-----------------------------------------------------------------------------
(* commit_path: git add, git diff --cached, git commit                     *)

Finish(w) == Goto(w, IF req[w].kind = "delete" THEN "drop" ELSE "done")

(* "git add" stages what the directory has, a deletion included; a path    *)
(* that is neither in the directory nor in the index is an error.          *)
Unknown == file = Absent /\ index = Absent
StagedNever == index  \* mutant
Staged == file

GitAdd(w) ==
  /\ At(w, Kinds, "add")
  /\ IF Unknown THEN Goto(w, "refused") /\ UNCHANGED index
     ELSE /\ index' = Staged
          /\ IF index' = head THEN Finish(w) ELSE Goto(w, "gitcommit")
  /\ UNCHANGED <<row, file, head, edits, cut, raced>>

(* "git commit -- path" takes what the directory has by now; without a     *)
(* difference it is an error.                                              *)
GitCommit(w) ==
  /\ At(w, Kinds, "gitcommit")
  /\ IF file = head THEN Goto(w, "refused") /\ UNCHANGED <<index, head>>
     ELSE Finish(w) /\ index' = file /\ head' = file
  /\ UNCHANGED <<row, file, edits, cut, raced>>

WorkerStep(w) ==
  \/ \E k \in Kinds \ {"none"} : Begin(w, k)
  \/ CommitRow(w) \/ Reread(w) \/ WriteFile(w)
  \/ RemoveFiles(w) \/ GitAdd(w) \/ GitCommit(w) \/ DropRow(w)
  \/ Respond(w) \/ CutOff(w)

Next == \E w \in Worker : WorkerStep(w)

Spec == Init /\ [][Next]_vars

-----------------------------------------------------------------------------
(* Properties                                                              *)

(* A request that nobody overlaps and that is served to its end leaves the *)
(* database, the file and HEAD in agreement, whatever requests that were   *)
(* cut off or overlapped have left behind before.                          *)
SavedTogether ==
  \A w \in Worker :
    req[w].at = "done" /\ req[w].alone => row = file /\ file = head

(* Files and their entry in HEAD do not outlive the row of their project:  *)
(* delete_project removes them first, and a request cut off half way       *)
(* leaves the row, so that deletion can be asked for again.  Only a        *)
(* request that overlaps the deletion may write or commit them again after *)
(* the row is gone; the next deletion nobody overlaps removes those too.   *)
NothingLeftBehind ==
  row = Absent /\ ~raced => /\ file = Absent
                            /\ head = Absent

(* "Meaningful YAML changes create commits": also when saves overlap and   *)
(* commit each other's content, no change is left out of HEAD once they    *)
(* have all been served.                                                   *)
ChangesCommitted == (\A w \in Worker : Idle(w)) /\ ~cut => file = head

(* "Project deletion ... cascades database state, and versions the YAML    *)
(* removal": a deletion nobody overlaps is not turned down.                *)
DeletionServed ==
  \A w \in Worker : ~(At(w, {"delete"}, "refused") /\ req[w].alone)
=============================================================================
