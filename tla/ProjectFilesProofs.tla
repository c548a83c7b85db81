------------------------- MODULE ProjectFilesProofs -------------------------
(***************************************************************************)
(* Proofs about ProjectFiles: type correctness; that a request nobody      *)
(* overlaps leaves database, file and HEAD in agreement; that no change is *)
(* left out of HEAD; and that nothing outlives its row, unless a request   *)
(* overlapped its deletion.                                                *)
(***************************************************************************)
EXTENDS ProjectFiles, TLAPS

-----------------------------------------------------------------------------
(* Types                                                                   *)

Savers == {"create", "project", "node"}

LEMMA AbsentTyped == Absent \in Content /\ NoRequest \in Request
  BY FilesAssumption
  DEF FilesAssumption, Absent, NoRequest, Content, Version, Request, Kinds, Steps

LEMMA EditedTyped ==
  ASSUME NEW c \in Content, NEW k, NEW n \in Version
  PROVE  Edited(c, k, n) \in Content
  BY DEF Edited, Content

LEMMA TypeInit == Init => TypeOK
<1>1. 0 \in Version
  BY FilesAssumption DEF FilesAssumption, Version
<1>2. [w \in Worker |-> NoRequest] \in [Worker -> Request]
  BY AbsentTyped
<1> QED
  BY <1>1, <1>2, AbsentTyped DEF Init, TypeOK

LEMMA TypeNext == TypeOK /\ [Next]_vars => TypeOK'
<1> SUFFICES ASSUME TypeOK, [Next]_vars PROVE TypeOK'
  OBVIOUS
<1>1. CASE UNCHANGED vars
  BY <1>1 DEF vars, TypeOK
<1>2. ASSUME NEW w \in Worker, WorkerStep(w) PROVE TypeOK'
  <2>0. /\ req \in [Worker -> Request] /\ req[w] \in Request
        /\ Absent \in Content /\ NoRequest \in Request
    BY AbsentTyped DEF TypeOK
  <2>1. ASSUME NEW s \in Steps, Goto(w, s) PROVE req' \in [Worker -> Request]
    BY <2>0, <2>1 DEF Goto, Request
  <2>2. ASSUME NEW k \in Kinds \ {"none"}, Begin(w, k) PROVE TypeOK'
    <3> DEFINE begun == [kind |-> k, at |-> IF k = "delete" THEN "rmtree" ELSE "commit",
                         view |-> row, alone |-> Alone(w)]
    <3>1. Alone(w) \in BOOLEAN /\ row \in Content
      BY DEF Alone, TypeOK
    <3>2. begun \in Request
      BY <3>1 DEF Request, Steps
    <3>3. \A v \in Worker : [req[v] EXCEPT !.alone = FALSE] \in Request
      BY <2>0 DEF Request
    <3> HIDE DEF begun
    <3>4. [v \in Worker |-> IF v = w THEN begun ELSE [req[v] EXCEPT !.alone = FALSE]]
            \in [Worker -> Request]
      BY <3>2, <3>3
    <3>5. req' = [v \in Worker |-> IF v = w THEN begun ELSE [req[v] EXCEPT !.alone = FALSE]]
      BY <2>2 DEF Begin, begun
    <3> QED
      BY <2>2, <3>4, <3>5 DEF Begin, TypeOK
  <2>3. CASE CommitRow(w)
    <3>1. edits' \in Version
      BY <2>3, FilesAssumption DEF CommitRow, TypeOK, Version, FilesAssumption
    <3>2. /\ Edited(row, req[w].kind, edits') \in Content
          /\ Edited(req[w].view, req[w].kind, edits') \in Content
      BY <2>0, <3>1, EditedTyped DEF TypeOK, Request
    <3>3. req' \in [Worker -> Request]
      BY <2>0, <2>3, <3>2 DEF CommitRow, Request, Steps
    <3> QED
      BY <2>3, <3>1, <3>2, <3>3 DEF CommitRow, TypeOK
  <2>4. CASE Reread(w)
    <3>1. PICK nodes \in {row.nodes} \cup (IF req[w].kind = "node" THEN {req[w].view.nodes} ELSE {}) :
            req' = [req EXCEPT ![w].at = "write", ![w].view.nodes = nodes]
      BY <2>4 DEF Reread
    <3>2. nodes \in Version
      BY <2>0, <3>1 DEF TypeOK, Request, Content
    <3>3. req' \in [Worker -> Request]
      BY <2>0, <3>1, <3>2 DEF Request, Content, Steps
    <3> QED
      BY <2>4, <3>3 DEF Reread, TypeOK
  <2>5. CASE WriteFile(w)
    BY <2>0, <2>1, <2>5 DEF WriteFile, TypeOK, Request, Steps
  <2>6. CASE RemoveFiles(w)
    BY <2>0, <2>1, <2>6 DEF RemoveFiles, AfterRmtree, TypeOK, Steps
  <2>7. CASE GitAdd(w) \/ GitCommit(w)
    <3>1. /\ index' \in Content /\ head' \in Content
          /\ UNCHANGED <<row, file, edits, cut, raced>>
      BY <2>7 DEF GitAdd, GitCommit, Staged, TypeOK
    <3>2. \E s \in Steps : Goto(w, s)
      BY <2>7 DEF GitAdd, GitCommit, Finish, Steps
    <3> QED
      BY <2>1, <3>1, <3>2 DEF TypeOK
  <2>8. CASE DropRow(w)
    <3>1. raced' \in BOOLEAN
      BY <2>0, <2>8 DEF DropRow, Request
    <3> QED
      BY <2>0, <2>1, <2>8, <3>1 DEF DropRow, TypeOK, Steps
  <2>9. CASE Respond(w) \/ CutOff(w)
    <3>1. /\ req' = [req EXCEPT ![w] = NoRequest] /\ cut' \in BOOLEAN
          /\ UNCHANGED <<row, file, index, head, edits, raced>>
      BY <2>0, <2>9 DEF Respond, CutOff, TypeOK, Request
    <3> QED
      BY <2>0, <3>1 DEF TypeOK
  <2> QED
    BY <1>2, <2>2, <2>3, <2>4, <2>5, <2>6, <2>7, <2>8, <2>9 DEF WorkerStep
<1> QED
  BY <1>1, <1>2 DEF Next

(* Rows, files, index and requests have the declared shapes, for any       *)
(* workers and any number of edits.                                        *)
THEOREM TypeCorrect == Spec => []TypeOK
  BY TypeInit, TypeNext, PTL DEF Spec

-----------------------------------------------------------------------------
(* Requests that nobody overlaps                                           *)

(* What a request knows that has been alone so far: the other workers are  *)
(* idle, its view is the row, and between its commit and its write the     *)
(* file is older than the row.                                             *)
AloneInv(w) ==
  ~Idle(w) /\ req[w].alone =>
    /\ \A v \in Worker \ {w} : Idle(v)
    /\ req[w].kind \in Savers /\ req[w].at \in {"commit", "reread", "write"} => req[w].view = row
    /\ req[w].at \in {"reread", "write"} => file.stamp < row.stamp
    /\ req[w].kind \in Savers /\ req[w].at \in {"add", "gitcommit"} => row = file
    /\ req[w].kind = "delete" /\ req[w].at \in {"add", "gitcommit"} => file = Absent
    /\ req[w].kind = "delete" /\ req[w].at = "drop" => file = Absent /\ head = Absent
    /\ req[w].at = "done" => row = file /\ file = head

(* Nothing is stamped later than the last edit.                            *)
Stamped(c) == c.stamp <= edits

(* A request takes only the steps of its kind.                             *)
Course(w) ==
  /\ req[w].at \in {"commit", "reread", "write"} => req[w].kind \in Savers
  /\ req[w].at \in {"rmtree", "drop"} => req[w].kind = "delete"
  /\ Idle(w) => req[w].at = "load"

SavedInv ==
  /\ TypeOK
  /\ Stamped(row)
  /\ Stamped(file)
  /\ \A w \in Worker : Stamped(req[w].view) /\ Course(w)
  /\ \A w \in Worker : AloneInv(w)

(* A request under way moves on: if another one is alone, there is none.   *)
LEMMA SavedMoves ==
  ASSUME SavedInv, TypeOK', NEW w \in Worker, ~Idle(w),
         \A v \in Worker \ {w} : req'[v] = req[v],
         edits <= edits', Stamped(row)', Stamped(file)',
         Stamped(req[w].view)', Course(w)',
         AloneInv(w)'
  PROVE  SavedInv'
<1>1. ASSUME NEW v \in Worker \ {w} PROVE AloneInv(v)'
  <2>1. ~(~Idle(v) /\ req[v].alone)
    BY DEF SavedInv, AloneInv
  <2> QED
    BY <2>1 DEF AloneInv, Idle
<1>2. ASSUME NEW v \in Worker \ {w} PROVE Stamped(req[v].view)' /\ Course(v)'
  <2>1. req[v] \in Request /\ edits \in Nat /\ edits' \in Nat
    BY FilesAssumption DEF SavedInv, TypeOK, Version, FilesAssumption
  <2>2. Stamped(req[v].view) /\ Course(v) /\ req[v].view.stamp \in Nat
    BY <2>1, FilesAssumption DEF SavedInv, Request, Content, Version, FilesAssumption
  <2> QED
    BY <2>1, <2>2 DEF Stamped, Course, Idle
<1> QED
  BY <1>1, <1>2 DEF SavedInv

LEMMA EditedStamp ==
  ASSUME NEW c \in Content, NEW k, NEW n \in Version
  PROVE  Edited(c, k, n).stamp = n
  BY DEF Edited, Content

LEMMA SavedBegin ==
  ASSUME SavedInv, TypeOK', NEW w \in Worker, NEW k \in Kinds \ {"none"}, Begin(w, k)
  PROVE  SavedInv'
<1>1. /\ req'[w].kind = k
      /\ req'[w].at = IF k = "delete" THEN "rmtree" ELSE "commit"
      /\ req'[w].view = row
      /\ req'[w].alone = Alone(w)
  BY DEF Begin
<1>2. ASSUME NEW v \in Worker \ {w}
      PROVE  /\ ~req'[v].alone /\ req'[v].kind = req[v].kind
             /\ req'[v].at = req[v].at /\ req'[v].view = req[v].view
  <2>1. req'[v] = [req[v] EXCEPT !.alone = FALSE] /\ req[v] \in Request
    BY DEF Begin, SavedInv, TypeOK
  <2> QED
    BY <2>1 DEF Request
<1>3. UNCHANGED <<row, file, head, edits>>
  BY DEF Begin
<1>4. AloneInv(w)'
  BY <1>1, <1>2, <1>3 DEF AloneInv, Idle, Alone, Savers
<1>5. \A v \in Worker \ {w} : AloneInv(v)'
  BY <1>2 DEF AloneInv
<1>6. \A v \in Worker : Stamped(req[v].view)' /\ Course(v)'
  <2>1. Stamped(row) /\ (k \in Savers \/ k = "delete")
    BY DEF SavedInv, Savers, Kinds
  <2> QED
    BY <1>1, <1>2, <1>3, <2>1 DEF SavedInv, Stamped, Course, Idle, Savers
<1> QED
  BY <1>3, <1>4, <1>5, <1>6 DEF SavedInv, Stamped

LEMMA SavedCommitRow ==
  ASSUME SavedInv, TypeOK', NEW w \in Worker, CommitRow(w)
  PROVE  SavedInv'
<1> DEFINE kind == req[w].kind
           view == req[w].view
<1>0. /\ row \in Content /\ file \in Content /\ view \in Content
      /\ edits \in Nat /\ edits' = edits + 1 /\ edits' \in Version
      /\ req \in [Worker -> Request] /\ req[w] \in Request
  BY FilesAssumption DEF CommitRow, SavedInv, TypeOK, Request, Version, FilesAssumption
<1>1. row' = Edited(row, kind, edits') /\ UNCHANGED <<file, head>> /\ kind \in Savers
  BY DEF CommitRow, At, Savers
<1>2. /\ req'[w].at = "reread" /\ req'[w].kind = kind /\ req'[w].alone = req[w].alone
      /\ req'[w].view = Edited(view, kind, edits')
      /\ \A v \in Worker \ {w} : req'[v] = req[v]
  BY <1>0 DEF CommitRow, Request
<1>3. row'.stamp = edits' /\ req'[w].view.stamp = edits'
  BY <1>0, <1>1, <1>2, EditedStamp
<1>4. file.stamp \in Nat /\ file.stamp <= edits
  BY <1>0, FilesAssumption DEF SavedInv, Stamped, Content, Version, FilesAssumption
<1>5. file.stamp < row'.stamp /\ file.stamp <= edits'
  BY <1>0, <1>3, <1>4
<1>6. ~Idle(w) /\ req[w].at = "commit"
  BY DEF CommitRow, At, Idle
<1>7. AloneInv(w)'
  <2>1. kind # "delete"
    BY <1>1 DEF Savers
  <2>2. req[w].alone => view = row
    BY <1>1, <1>6 DEF SavedInv, AloneInv
  <2> QED
    BY <1>1, <1>2, <1>5, <1>6, <2>1, <2>2 DEF SavedInv, AloneInv, Idle
<1>8. Stamped(row)' /\ Stamped(file)' /\ Stamped(req[w].view)' /\ edits <= edits'
  BY <1>0, <1>1, <1>3, <1>5 DEF Stamped
<1>9. Course(w)'
  BY <1>1, <1>2 DEF Course, Idle, Savers
<1> QED
  BY <1>2, <1>6, <1>7, <1>8, <1>9, SavedMoves

LEMMA SavedReread ==
  ASSUME SavedInv, TypeOK', NEW w \in Worker, Reread(w)
  PROVE  SavedInv'
<1>0. /\ row \in Content /\ req[w].view \in Content
      /\ req \in [Worker -> Request] /\ req[w] \in Request
  BY DEF SavedInv, TypeOK, Request
<1>1. PICK nodes \in {row.nodes} \cup (IF req[w].kind = "node" THEN {req[w].view.nodes} ELSE {}) :
        req' = [req EXCEPT ![w].at = "write", ![w].view.nodes = nodes]
  BY DEF Reread
<1>2. UNCHANGED <<row, file, head, edits>> /\ req[w].kind \in Savers /\ ~Idle(w) /\ req[w].at = "reread"
  BY DEF Reread, At, Savers, Idle
<1>3. /\ req'[w].at = "write" /\ req'[w].kind = req[w].kind /\ req'[w].alone = req[w].alone
      /\ req'[w].view = [req[w].view EXCEPT !.nodes = nodes]
      /\ \A v \in Worker \ {w} : req'[v] = req[v]
  BY <1>0, <1>1 DEF Request
<1>4. req'[w].view.stamp = req[w].view.stamp
  BY <1>0, <1>3 DEF Content
<1>5. ASSUME req[w].alone PROVE req'[w].view = row
  <2>1. req[w].view = row
    BY <1>2, <1>5 DEF SavedInv, AloneInv
  <2>2. nodes = row.nodes
    BY <2>1, <1>1
  <2>3. [row EXCEPT !.nodes = row.nodes] = row
    BY <1>0 DEF Content
  <2> QED
    BY <1>3, <2>1, <2>2, <2>3
<1>6. AloneInv(w)'
  <2> SUFFICES ASSUME req[w].alone PROVE AloneInv(w)'
    BY <1>3 DEF AloneInv
  <2>1. (\A v \in Worker \ {w} : Idle(v)) /\ file.stamp < row.stamp
    BY <1>2 DEF SavedInv, AloneInv
  <2>2. (\A v \in Worker \ {w} : Idle(v)') /\ req'[w].view = row' /\ file'.stamp < row'.stamp
    BY <1>2, <1>3, <1>5, <2>1 DEF Idle
  <2> QED
    BY <1>2, <1>3, <2>2 DEF AloneInv
<1>7. Stamped(req[w].view)' /\ Stamped(row)' /\ Stamped(file)' /\ Course(w)'
  BY <1>2, <1>3, <1>4 DEF SavedInv, Stamped, Course, Idle, Savers
<1>8. edits <= edits'
  <2>1. edits \in Nat /\ edits' = edits
    BY <1>2, FilesAssumption DEF SavedInv, TypeOK, Version, FilesAssumption
  <2> QED
    BY <2>1
<1> QED
  BY <1>2, <1>3, <1>6, <1>7, <1>8, SavedMoves

(* The steps that change neither the edits nor what the request has read.  *)
LEMMA SavedOther ==
  ASSUME SavedInv, TypeOK', NEW w \in Worker,
         WriteFile(w) \/ RemoveFiles(w) \/ GitAdd(w) \/ GitCommit(w) \/ DropRow(w)
  PROVE  SavedInv'
<1>0. /\ req \in [Worker -> Request] /\ req[w] \in Request
      /\ edits \in Nat /\ Stamped(Absent) /\ edits' = edits
      /\ req[w].view.stamp \in Nat /\ file.stamp \in Nat /\ row.stamp \in Nat
      /\ ~Idle(w)
  <2>1. edits \in Nat /\ req \in [Worker -> Request] /\ req[w] \in Request
    BY FilesAssumption DEF SavedInv, TypeOK, Version, FilesAssumption
  <2>2. Stamped(Absent)
    BY <2>1 DEF Stamped, Absent
  <2>3. edits' = edits
    BY DEF WriteFile, RemoveFiles, GitAdd, GitCommit, DropRow
  <2>4. req[w].view \in Content /\ file \in Content /\ row \in Content
    BY <2>1 DEF SavedInv, TypeOK, Request
  <2>5. req[w].view.stamp \in Nat /\ file.stamp \in Nat /\ row.stamp \in Nat
    BY <2>4, FilesAssumption DEF Content, Version, FilesAssumption
  <2>6. ~Idle(w)
    <3>1. req[w].at # "load"
      BY DEF WriteFile, RemoveFiles, GitAdd, GitCommit, DropRow, At
    <3> QED
      BY <3>1 DEF SavedInv, Course
  <2> QED
    BY <2>1, <2>2, <2>3, <2>5, <2>6
<1>1. ASSUME NEW s, Goto(w, s)
      PROVE  /\ req'[w].at = s /\ req'[w].kind = req[w].kind
             /\ req'[w].alone = req[w].alone /\ req'[w].view = req[w].view
             /\ \A v \in Worker \ {w} : req'[v] = req[v]
  BY <1>0, <1>1 DEF Goto, Request
<1>2. \E s \in {"add", "done", "gitcommit", "refused", "drop"} :
        Goto(w, s) /\ (s = "drop" => req[w].kind = "delete")
  BY DEF WriteFile, RemoveFiles, GitAdd, GitCommit, DropRow, Finish
<1>3. /\ \A v \in Worker \ {w} : req'[v] = req[v]
      /\ req'[w].view = req[w].view /\ Course(w)'
  BY <1>0, <1>1, <1>2 DEF Course, Idle
<1>4. /\ row' = row \/ row' = Absent
      /\ file' = file \/ file' = Absent \/ file' = req[w].view
  BY DEF WriteFile, RemoveFiles, GitAdd, GitCommit, DropRow, AfterRmtree
<1>5. Stamped(row)' /\ Stamped(file)' /\ Stamped(req[w].view)'
  BY <1>0, <1>3, <1>4 DEF SavedInv, Stamped
<1>6. AloneInv(w)'
  <2> SUFFICES ASSUME req[w].alone PROVE AloneInv(w)'
    BY <1>1, <1>2 DEF AloneInv
  <2>1. /\ AloneInv(w) /\ req[w].alone /\ Course(w)
        /\ \A v \in Worker \ {w} : Idle(v)'
    BY <1>0, <1>3 DEF SavedInv, AloneInv, Idle
  <2>2. CASE WriteFile(w)
    <3>1. req[w].kind \in Savers /\ req[w].view = row /\ file.stamp < row.stamp
      BY <1>0, <2>1, <2>2 DEF WriteFile, At, AloneInv, Savers
    <3>2. ~SameFile(req[w].view)
      BY <1>0, <3>1 DEF SameFile
    <3>3. Goto(w, "add") /\ file' = row /\ row' = row
      BY <2>2, <3>1, <3>2 DEF WriteFile
    <3> QED
      BY <1>1, <2>1, <3>1, <3>3 DEF AloneInv, Savers
  <2>3. CASE RemoveFiles(w)
    <3>1. Goto(w, "add") /\ file' = Absent /\ req[w].kind = "delete"
      BY <2>3 DEF RemoveFiles, AfterRmtree, At
    <3> QED
      BY <1>1, <2>1, <3>1 DEF AloneInv, Savers
  <2>4. CASE GitAdd(w)
    <3>1. /\ req[w].at = "add" /\ UNCHANGED <<row, file, head>>
          /\ \/ Goto(w, "refused")
             \/ Goto(w, "gitcommit")
             \/ file = head /\ Finish(w)
      BY <2>4 DEF GitAdd, At, Staged
    <3>2. req[w].kind = "delete" => file = Absent
      BY <1>0, <2>1, <3>1 DEF AloneInv
    <3>3. req[w].kind \in Savers => row = file
      BY <1>0, <2>1, <3>1 DEF AloneInv
    <3>4. req[w].kind \in Savers \/ req[w].kind = "delete"
      BY <1>0 DEF Request, Kinds, Savers, Idle
    <3>5. CASE Goto(w, "refused") \/ Goto(w, "gitcommit")
      BY <1>1, <2>1, <3>1, <3>2, <3>3, <3>5 DEF AloneInv
    <3>6. CASE file = head /\ Finish(w)
      BY <1>1, <2>1, <3>1, <3>2, <3>3, <3>4, <3>6 DEF AloneInv, Finish, Savers
    <3> QED
      BY <3>1, <3>5, <3>6
  <2>5. CASE GitCommit(w)
    <3>1. /\ req[w].at = "gitcommit" /\ UNCHANGED <<row, file>>
          /\ \/ Goto(w, "refused")
             \/ head' = file /\ Finish(w)
      BY <2>5 DEF GitCommit, At
    <3>2. req[w].kind = "delete" => file = Absent
      BY <1>0, <2>1, <3>1 DEF AloneInv
    <3>3. req[w].kind \in Savers => row = file
      BY <1>0, <2>1, <3>1 DEF AloneInv
    <3>4. req[w].kind \in Savers \/ req[w].kind = "delete"
      BY <1>0 DEF Request, Kinds, Savers, Idle
    <3>5. CASE Goto(w, "refused")
      BY <1>1, <2>1, <3>5 DEF AloneInv
    <3>6. CASE head' = file /\ Finish(w)
      BY <1>1, <2>1, <3>1, <3>2, <3>3, <3>4, <3>6 DEF AloneInv, Finish, Savers
    <3> QED
      BY <3>1, <3>5, <3>6
  <2>6. CASE DropRow(w)
    <3>1. Goto(w, "done") /\ row' = Absent /\ UNCHANGED <<file, head>>
      BY <2>6 DEF DropRow
    <3>2. file = Absent /\ head = Absent
      BY <1>0, <2>1, <2>6 DEF DropRow, At, AloneInv
    <3> QED
      BY <1>1, <2>1, <3>1, <3>2 DEF AloneInv
  <2> QED
    BY <2>2, <2>3, <2>4, <2>5, <2>6
<1>7. edits <= edits'
  BY <1>0
<1> QED
  BY <1>0, <1>3, <1>5, <1>6, <1>7, SavedMoves

LEMMA SavedEnds ==
  ASSUME SavedInv, TypeOK', NEW w \in Worker, Respond(w) \/ CutOff(w)
  PROVE  SavedInv'
<1>1. /\ req' = [req EXCEPT ![w] = NoRequest] /\ UNCHANGED <<row, file, index, head, edits>>
  BY DEF Respond, CutOff
<1>2. req'[w] = NoRequest /\ \A v \in Worker \ {w} : req'[v] = req[v]
  BY <1>1 DEF SavedInv, TypeOK
<1>3. \A v \in Worker : Idle(v) => Idle(v)'
  BY <1>2 DEF Idle, NoRequest
<1>4. \A v \in Worker : AloneInv(v)'
  BY <1>1, <1>2, <1>3 DEF SavedInv, AloneInv, NoRequest
<1>5. \A v \in Worker : Stamped(req[v].view)' /\ Course(v)'
  <2>1. edits \in Nat
    BY FilesAssumption DEF SavedInv, TypeOK, Version, FilesAssumption
  <2> QED
    BY <1>1, <1>2, <2>1 DEF SavedInv, Idle, Stamped, Course, NoRequest, Absent
<1> QED
  BY <1>1, <1>4, <1>5 DEF SavedInv, Stamped

LEMMA SavedInit == Init => SavedInv
<1> SUFFICES ASSUME Init PROVE SavedInv
  OBVIOUS
<1>1. \A w \in Worker : Idle(w) /\ Course(w) /\ req[w].view = Absent
  BY DEF Init, Idle, NoRequest, Course
<1> QED
  BY <1>1, TypeInit DEF Init, SavedInv, AloneInv, Stamped, Absent

LEMMA SavedNext == SavedInv /\ [Next]_vars => SavedInv'
<1> SUFFICES ASSUME SavedInv, [Next]_vars PROVE SavedInv'
  OBVIOUS
<1>0. TypeOK'
  BY TypeNext DEF SavedInv
<1>1. CASE UNCHANGED vars
  BY <1>0, <1>1 DEF vars, SavedInv, AloneInv, Idle, Stamped, Course
<1>2. ASSUME NEW w \in Worker, WorkerStep(w) PROVE SavedInv'
  BY <1>0, <1>2, SavedBegin, SavedCommitRow, SavedReread, SavedOther, SavedEnds DEF WorkerStep
<1> QED
  BY <1>1, <1>2 DEF Next

(* For any number of workers and edits, whatever overlapped or was cut off *)
(* before: a request that is alone and reaches its end leaves database,    *)
(* file and HEAD in agreement.  The stamp of the edit makes its content    *)
(* differ from any file left behind, so that it is written and committed.  *)
THEOREM SavedSafe == Spec => []SavedTogether
<1>1. SavedInv => SavedTogether
  <2> SUFFICES ASSUME SavedInv, NEW w \in Worker, req[w].at = "done", req[w].alone
               PROVE  row = file /\ file = head
    BY DEF SavedTogether
  <2>1. ~Idle(w)
    BY DEF SavedInv, Course
  <2> QED
    BY <2>1 DEF SavedInv, AloneInv
<1> QED
  BY <1>1, SavedInit, SavedNext, PTL DEF Spec

-----------------------------------------------------------------------------
(* Changes and commits                                                     *)

Pending(w) == req[w].at \in {"add", "gitcommit", "refused"}

(* A difference between file and HEAD is either left by a request that was *)
(* cut off, or somebody is about to commit it, or to fail in doing so.     *)
ChangesInv ==
  /\ SavedInv
  /\ ~cut /\ file # head => \E w \in Worker : Pending(w)

LEMMA ChangesStep ==
  ASSUME ChangesInv, NEW w \in Worker, WorkerStep(w), ~cut', file' # head'
  PROVE  (\E v \in Worker : Pending(v))'
<1>0. req \in [Worker -> Request] /\ req[w] \in Request /\ cut \in BOOLEAN
  BY DEF ChangesInv, SavedInv, TypeOK
<1>1. ASSUME NEW s, Goto(w, s) PROVE req'[w].at = s
  BY <1>0, <1>1 DEF Goto, Request
<1>2. ASSUME \A v \in Worker \ {w} : req'[v].at = req[v].at,
             ~Pending(w), UNCHANGED <<file, head, cut>>
      PROVE  (\E v \in Worker : Pending(v))'
  <2>1. PICK v \in Worker : Pending(v)
    BY <1>2 DEF ChangesInv
  <2>2. v # w
    BY <1>2, <2>1
  <2> QED
    BY <1>2, <2>1, <2>2 DEF Pending
<1>3. ASSUME NEW k \in Kinds \ {"none"}, Begin(w, k) PROVE (\E v \in Worker : Pending(v))'
  <2>1. ASSUME NEW v \in Worker \ {w} PROVE req'[v].at = req[v].at
    <3>1. req'[v] = [req[v] EXCEPT !.alone = FALSE] /\ req[v] \in Request
      BY <1>0, <1>3 DEF Begin
    <3> QED
      BY <3>1 DEF Request
  <2>2. ~Pending(w) /\ UNCHANGED <<file, head, cut>>
    BY <1>3 DEF Begin, Pending, ChangesInv, SavedInv, Course
  <2> QED
    BY <1>2, <2>1, <2>2
<1>4. CASE CommitRow(w) \/ Reread(w) \/ DropRow(w)
  <2>1. /\ req[w].at \in {"commit", "reread", "drop"}
        /\ UNCHANGED <<file, head, cut>>
        /\ \A v \in Worker \ {w} : req'[v] = req[v]
    BY <1>0, <1>4 DEF CommitRow, Reread, DropRow, Goto, At
  <2> QED
    BY <1>2, <2>1 DEF Pending
<1>5. CASE WriteFile(w)
  <2>1. CASE Goto(w, "done") /\ UNCHANGED file
    <3>1. req[w].at = "write" /\ UNCHANGED <<file, head, cut>>
      BY <1>5, <2>1 DEF WriteFile, At
    <3>2. \A v \in Worker \ {w} : req'[v] = req[v]
      BY <1>0, <2>1 DEF Goto
    <3> QED
      BY <1>2, <3>1, <3>2 DEF Pending
  <2>2. CASE Goto(w, "add")
    BY <1>1, <2>2 DEF Pending
  <2> QED
    BY <1>5, <2>1, <2>2 DEF WriteFile
<1>6. CASE RemoveFiles(w)
  BY <1>1, <1>6 DEF RemoveFiles, Pending
<1>7. CASE GitAdd(w)
  <2>1. Goto(w, "refused") \/ Goto(w, "gitcommit") \/ file' = head'
    BY <1>7 DEF GitAdd, Staged
  <2> QED
    BY <1>1, <2>1 DEF Pending
<1>8. CASE GitCommit(w)
  <2>1. Goto(w, "refused") \/ file' = head'
    BY <1>8 DEF GitCommit
  <2> QED
    BY <1>1, <2>1 DEF Pending
<1>9. CASE Respond(w)
  <2>1. /\ req[w].at # "refused" /\ ~(cut /\ ~(req[w].alone /\ req[w].at = "done"))
        /\ req[w].at = "done" /\ ~Idle(w)
    BY <1>9 DEF Respond, At, ChangesInv, SavedInv, Course
  <2>2. UNCHANGED <<file, head>> /\ \A v \in Worker \ {w} : req'[v] = req[v]
    BY <1>0, <1>9 DEF Respond
  <2>3. ~req[w].alone
    BY <2>1, <2>2 DEF ChangesInv, SavedInv, AloneInv
  <2>4. cut' = cut
    BY <1>0, <1>9, <2>1, <2>3 DEF Respond
  <2> QED
    BY <1>2, <2>1, <2>2, <2>4 DEF Pending
<1>10. CASE CutOff(w)
  <2>1. req[w].at = "commit" /\ cut' = cut
    BY <1>0, <1>10 DEF CutOff
  <2>2. UNCHANGED <<file, head>> /\ \A v \in Worker \ {w} : req'[v] = req[v]
    BY <1>0, <1>10 DEF CutOff
  <2> QED
    BY <1>2, <2>1, <2>2 DEF Pending
<1> QED
  BY <1>3, <1>4, <1>5, <1>6, <1>7, <1>8, <1>9, <1>10 DEF WorkerStep

LEMMA ChangesNext == ChangesInv /\ [Next]_vars => ChangesInv'
<1> SUFFICES ASSUME ChangesInv, [Next]_vars PROVE ChangesInv'
  OBVIOUS
<1>0. SavedInv'
  BY SavedNext DEF ChangesInv
<1>1. CASE UNCHANGED vars
  BY <1>0, <1>1 DEF vars, ChangesInv, Pending
<1>2. ASSUME NEW w \in Worker, WorkerStep(w) PROVE ChangesInv'
  BY <1>0, <1>2, ChangesStep DEF ChangesInv
<1> QED
  BY <1>1, <1>2 DEF Next

(* For any number of overlapping saves and deletions: once all have been   *)
(* served, none of them cut off, HEAD has what the file has.               *)
THEOREM ChangesSafe == Spec => []ChangesCommitted
<1>1. Init => ChangesInv
  BY SavedInit DEF Init, ChangesInv
<1>2. ChangesInv => ChangesCommitted
  BY DEF ChangesInv, ChangesCommitted, SavedInv, Course, Pending
<1> QED
  BY <1>1, <1>2, ChangesNext, PTL DEF Spec

-----------------------------------------------------------------------------
(* What outlives a row                                                     *)

(* After a deletion that nobody overlapped there is nothing, and nobody    *)
(* who could write or commit it again.                                     *)
Gone ==
  /\ file = Absent /\ head = Absent
  /\ \A w \in Worker :
       /\ req[w].at \in {"load", "commit", "done"}
       /\ req[w].at = "commit" => req[w].kind = "create"

LeftInv == SavedInv /\ (row = Absent /\ ~raced => Gone)

LEMMA LeftStep ==
  ASSUME LeftInv, NEW w \in Worker, WorkerStep(w), row' = Absent, ~raced'
  PROVE  Gone'
<1>0. /\ req \in [Worker -> Request] /\ req[w] \in Request
      /\ SavedInv /\ row \in Content
  BY DEF LeftInv, SavedInv, TypeOK
<1>1. ASSUME NEW k \in Kinds \ {"none"}, Begin(w, k) PROVE Gone'
  <2>1. UNCHANGED <<row, file, head, raced>> /\ k = "create"
    BY <1>1 DEF Begin
  <2>2. req'[w].kind = k /\ req'[w].at = "commit"
    BY <1>1, <2>1 DEF Begin
  <2>3. ASSUME NEW v \in Worker \ {w}
        PROVE  req'[v].at = req[v].at /\ req'[v].kind = req[v].kind
    <3>1. req'[v] = [req[v] EXCEPT !.alone = FALSE] /\ req[v] \in Request
      BY <1>0, <1>1 DEF Begin
    <3> QED
      BY <3>1 DEF Request
  <2> QED
    BY <2>1, <2>2, <2>3 DEF LeftInv, Gone
<1>2. CASE CommitRow(w)
  <2>1. edits \in Nat /\ edits' = edits + 1 /\ edits' \in Version
    <3>1. edits' \in Version
      BY <1>0, <1>2, FilesAssumption DEF CommitRow, SavedInv, TypeOK, Version, FilesAssumption
    <3> QED
      BY <1>0, <1>2, <3>1, FilesAssumption DEF CommitRow, SavedInv, TypeOK, Version, FilesAssumption
  <2>2. row'.stamp = edits'
    BY <1>0, <1>2, <2>1, EditedStamp DEF CommitRow
  <2>3. Absent.stamp = 0
    BY DEF Absent
  <2> QED
    BY <2>1, <2>2, <2>3
<1>3. CASE Reread(w) \/ WriteFile(w) \/ RemoveFiles(w) \/ GitAdd(w) \/ GitCommit(w)
  <2>1. /\ req[w].at \in {"reread", "write", "rmtree", "add", "gitcommit"}
        /\ UNCHANGED <<row, raced>>
    BY <1>3 DEF Reread, WriteFile, RemoveFiles, GitAdd, GitCommit, At
  <2> QED
    BY <2>1 DEF LeftInv, Gone
<1>4. CASE DropRow(w)
  <2>1. /\ req[w].kind = "delete" /\ req[w].at = "drop" /\ req[w].alone
        /\ Goto(w, "done") /\ UNCHANGED <<file, head>>
    BY <1>0, <1>4 DEF DropRow, At, Request
  <2>2. file = Absent /\ head = Absent /\ \A v \in Worker \ {w} : Idle(v)
    BY <1>0, <2>1 DEF SavedInv, AloneInv, Idle
  <2>3. \A v \in Worker \ {w} : req[v].at = "load"
    BY <1>0, <2>2 DEF SavedInv, Course
  <2>4. req'[w].at = "done" /\ \A v \in Worker \ {w} : req'[v] = req[v]
    BY <1>0, <2>1 DEF Goto, Request
  <2> QED
    BY <2>1, <2>2, <2>3, <2>4 DEF Gone
<1>5. CASE Respond(w) \/ CutOff(w)
  <2>1. UNCHANGED <<row, file, head, raced>> /\ req' = [req EXCEPT ![w] = NoRequest]
    BY <1>5 DEF Respond, CutOff
  <2> QED
    BY <1>0, <2>1 DEF LeftInv, Gone, NoRequest
<1> QED
  BY <1>1, <1>2, <1>3, <1>4, <1>5 DEF WorkerStep

(* Neither files nor an entry in HEAD outlive their row, unless another    *)
(* request overlapped its deletion, however many saves overlap before and  *)
(* wherever requests are cut off.                                          *)
THEOREM LeftSafe == Spec => []NothingLeftBehind
<1>1. Init => LeftInv
  <2> SUFFICES ASSUME Init PROVE LeftInv
    OBVIOUS
  <2>1. \A w \in Worker : req[w].at = "load"
    BY DEF Init, NoRequest
  <2> QED
    BY <2>1, SavedInit DEF Init, LeftInv, Gone
<1>2. LeftInv /\ [Next]_vars => LeftInv'
  <2> SUFFICES ASSUME LeftInv, [Next]_vars PROVE LeftInv'
    OBVIOUS
  <2>0. SavedInv'
    BY SavedNext DEF LeftInv
  <2>1. CASE UNCHANGED vars
    BY <2>0, <2>1 DEF vars, LeftInv, Gone
  <2>2. ASSUME NEW w \in Worker, WorkerStep(w) PROVE LeftInv'
    BY <2>0, <2>2, LeftStep DEF LeftInv
  <2> QED
    BY <2>1, <2>2 DEF Next
<1>3. LeftInv => NothingLeftBehind
  BY DEF LeftInv, Gone, NothingLeftBehind
<1> QED
  BY <1>1, <1>2, <1>3, PTL DEF Spec

=============================================================================
