----------------------- MODULE ProjectTransferProofs -----------------------
(***************************************************************************)
(* Proofs about ProjectTransfer: type correctness; that an import makes    *)
(* the definition that was exported; that names and addresses only         *)
(* conflict between rows of which one was saved by a form checked before   *)
(* the other one; and that every other unspoiled export can be imported.   *)
(***************************************************************************)
EXTENDS ProjectTransfer, FunctionTheorems, FiniteSetTheorems, TLAPS

(* A definition whose profiles belong to its nodes and have distinct names *)
Kept(p) ==
  /\ p \in Project
  /\ \A n \in Node : p.profile[n] # Nothing => p.node[n] # Absent
  /\ DistinctProfiles(p.profile)

(* The archive carries the checksums of what was exported.                 *)
ArchiveKept ==
  archive # NoArchive =>
    /\ archive \in Archive
    /\ archive.checksum = ToDocument(project)

(* A form edits a node of the project.                                     *)
FormsKept ==
  /\ form \in [Worker -> Form]
  /\ \A w \in Worker : form[w].open =>
       /\ form[w].entered \in NodeData
       /\ form[w].row # Nothing =>
            /\ form[w].loaded \in NodeData
            /\ project.node[form[w].row] # Absent

KInv == Kept(project) /\ ArchiveKept /\ FormsKept /\ raced \subseteq Pair

-----------------------------------------------------------------------------
(* The operators of the model                                              *)

LEMMA AbsentTyped == Absent \notin NodeData /\ NoForm \in Form
  BY TransferAssumption DEF TransferAssumption, Absent, NodeData, NoForm, Form

LEMMA UpdatedTyped ==
  ASSUME NEW row \in NodeData, NEW loaded \in NodeData, NEW entered \in NodeData
  PROVE  /\ Updated(row, loaded, entered) \in NodeData
         /\ row = loaded => Updated(row, loaded, entered) = entered
  BY DEF Updated, NodeData

LEMMA DocumentTyped ==
  ASSUME NEW p, Kept(p)
  PROVE  ToDocument(p) \in Document
<1>1. p \in Project
  BY DEF Kept
<1>2. \A n \in Present(p.node) : p.node[n].host \in Name
  BY <1>1 DEF Project, Present, NodeData
<1>3. \A n \in Node : p.profile[n] # Nothing => p.profile[n] \in Name
  BY <1>1 DEF Project
<1>4. {<<p.node[n].host, p.profile[n]>> :
         n \in {m \in Present(p.node) : p.profile[m] # Nothing}} \subseteq Name \X Name
  BY <1>2, <1>3 DEF Present
<1> QED
  BY <1>1, <1>4 DEF ToDocument, Document, Project

(* The definition read back from a document with distinct hostnames is the *)
(* one it was made of.                                                     *)
LEMMA ReadBack ==
  ASSUME NEW p, Kept(p), Accepted(ToDocument(p))
  PROVE  FromDocument(ToDocument(p)) = p
<1> DEFINE d == ToDocument(p)
           Of(n) == IF \E q \in d.profiles : q[1] = d.node[n].host
                    THEN (CHOOSE q \in d.profiles : q[1] = d.node[n].host)[2]
                    ELSE Nothing
<1>1. p \in Project
  BY DEF Kept
<1>2. /\ d.count = p.count /\ d.node = p.node
      /\ d.profiles = {<<p.node[n].host, p.profile[n]>> :
                         n \in {m \in Present(p.node) : p.profile[m] # Nothing}}
  BY DEF ToDocument
<1>3. \A m, n \in Present(p.node) : m # n => p.node[m].host # p.node[n].host
  BY <1>2 DEF Accepted
<1>4. ASSUME NEW n \in Node PROVE Of(n) = p.profile[n]
  <2>1. CASE p.node[n] = Absent
    <3>1. p.profile[n] = Nothing
      BY <2>1 DEF Kept
    <3>2. \A m \in Present(p.node) : p.node[m].host # Nothing
      BY <1>1, TransferAssumption DEF Project, Present, NodeData, TransferAssumption
    <3>3. d.node[n].host = Nothing
      BY <1>2, <2>1 DEF Absent
    <3>4. ~ \E q \in d.profiles : q[1] = d.node[n].host
      BY <1>2, <3>2, <3>3
    <3> QED
      BY <3>1, <3>4
  <2>2. CASE p.node[n] # Absent /\ p.profile[n] = Nothing
    <3>1. ~ \E q \in d.profiles : q[1] = d.node[n].host
      BY <1>2, <1>3, <2>2 DEF Present
    <3> QED
      BY <3>1, <2>2
  <2>3. CASE p.node[n] # Absent /\ p.profile[n] # Nothing
    <3>1. <<p.node[n].host, p.profile[n]>> \in d.profiles
      BY <1>2, <2>3 DEF Present
    <3>2. \A q \in d.profiles : q[1] = d.node[n].host => q[2] = p.profile[n]
      BY <1>2, <1>3, <2>3 DEF Present
    <3>3. \E q \in d.profiles : q[1] = d.node[n].host
      BY <3>1, <1>2
    <3> HIDE DEF d
    <3> QED
      BY <3>2, <3>3
  <2> QED
    BY <2>1, <2>2, <2>3
<1>5. FromDocument(d) = [count |-> d.count, node |-> d.node, profile |-> [n \in Node |-> Of(n)]]
  BY DEF FromDocument
<1>6. [n \in Node |-> Of(n)] = p.profile
  <2> HIDE DEF Of
  <2> QED
    BY <1>1, <1>4 DEF Project
<1> QED
  <2> HIDE DEF Of, d
  <2>1. FromDocument(d) = [count |-> p.count, node |-> p.node, profile |-> p.profile]
    BY <1>2, <1>5, <1>6
  <2> QED
    BY <1>1, <2>1 DEF Project, d

-----------------------------------------------------------------------------
(* Each step keeps the definition and the archive.                         *)

LEMMA KeptInit == Init => KInv
<1> SUFFICES ASSUME Init PROVE KInv
  OBVIOUS
<1>1. Kept(project)
  BY DEF Init, Kept, Project, NoNodes, NoProfiles, DistinctProfiles
<1>2. FormsKept
  BY AbsentTyped DEF Init, FormsKept, NoForm
<1> QED
  BY <1>1, <1>2 DEF Init, KInv, ArchiveKept

(* What a commit leaves: the row, the other forms, and the pairs.          *)
LEMMA Committed ==
  ASSUME KInv, NEW w \in Worker, NEW n \in Node, NEW data \in NodeData, Commit(w, n, data)
  PROVE  /\ project' \in Project
         /\ project'.node = [project.node EXCEPT ![n] = data]
         /\ project'.profile = project.profile /\ project'.count = project.count
         /\ \A v \in Worker :
              form'[v] = IF v = w \/ ~form[v].open THEN NoForm
                         ELSE [form[v] EXCEPT !.since = @ \cup {n}]
         /\ raced' \subseteq Pair
<1>1. project \in Project /\ form \in [Worker -> Form] /\ raced \subseteq Pair
  BY DEF KInv, Kept, FormsKept
<1>2. form[w].since \subseteq Node
  BY <1>1 DEF Form
<1>3. raced' \subseteq Pair
  BY <1>1, <1>2 DEF Commit, Pair
<1> QED
  BY <1>1, <1>3 DEF Commit, Project

LEMMA CommitKept ==
  ASSUME KInv, archive = NoArchive,
         NEW w \in Worker, NEW n \in Node, NEW data \in NodeData, Commit(w, n, data)
  PROVE  KInv'
<1>1. /\ project' \in Project
      /\ project'.node = [project.node EXCEPT ![n] = data]
      /\ project'.profile = project.profile
      /\ \A v \in Worker :
           form'[v] = IF v = w \/ ~form[v].open THEN NoForm
                      ELSE [form[v] EXCEPT !.since = @ \cup {n}]
      /\ raced' \subseteq Pair
  BY Committed
<1>2. project.node \in [Node -> NodeData \cup {Absent}] /\ data # Absent
  BY AbsentTyped DEF KInv, Kept, Project
<1>3. \A m \in Node : project.node[m] # Absent => project'.node[m] # Absent
  BY <1>1, <1>2
<1>4. Kept(project')
  BY <1>1, <1>3 DEF KInv, Kept
<1>5. FormsKept'
  <2>1. NoForm \in Form /\ ~NoForm.open
    BY AbsentTyped DEF NoForm
  <2>2. ASSUME NEW v \in Worker
        PROVE  /\ form'[v] \in Form
               /\ form'[v].open =>
                    /\ form'[v].entered \in NodeData
                    /\ form'[v].row # Nothing =>
                         /\ form'[v].loaded \in NodeData
                         /\ project'.node[form'[v].row] # Absent
    <3>1. CASE v = w \/ ~form[v].open
      BY <1>1, <2>1, <3>1
    <3>2. CASE v # w /\ form[v].open
      <4>1. form[v] \in Form /\ form'[v] = [form[v] EXCEPT !.since = @ \cup {n}]
        BY <1>1, <3>2 DEF KInv, FormsKept
      <4>2. /\ form'[v] \in Form /\ form'[v].row = form[v].row
            /\ form'[v].entered = form[v].entered /\ form'[v].loaded = form[v].loaded
        BY <4>1 DEF Form
      <4> QED
        BY <1>3, <3>2, <4>1, <4>2 DEF KInv, FormsKept, Form
    <3> QED
      BY <3>1, <3>2
  <2>3. form' \in [Worker -> Form]
    BY <2>2 DEF Commit
  <2> QED
    BY <2>2, <2>3 DEF FormsKept
<1> QED
  BY <1>1, <1>4, <1>5 DEF KInv, Commit, ArchiveKept

LEMMA CheckNodeKept ==
  ASSUME KInv, NEW w \in Worker, CheckNode(w)
  PROVE  KInv'
<1>1. PICK n \in Present(project.node) \cup {Nothing}, data \in NodeData :
        form' = [form EXCEPT ![w] =
          [open |-> TRUE, row |-> n, entered |-> data, since |-> {},
           loaded |-> IF n = Nothing THEN Absent ELSE project.node[n]]]
  BY DEF CheckNode
<1> DEFINE new == [open |-> TRUE, row |-> n, entered |-> data, since |-> {},
                   loaded |-> IF n = Nothing THEN Absent ELSE project.node[n]]
<1>2. /\ n # Nothing => n \in Node /\ project.node[n] # Absent
                        /\ project.node[n] \in NodeData
  BY DEF KInv, Kept, Project, Present
<1>3. new \in Form
  BY <1>2 DEF Form
<1>4. UNCHANGED <<project, archive, raced>>
  BY DEF CheckNode
<1>5. FormsKept'
  BY <1>1, <1>2, <1>3, <1>4 DEF KInv, FormsKept
<1> QED
  BY <1>4, <1>5 DEF KInv, ArchiveKept

LEMMA AddNodeKept ==
  ASSUME KInv, archive = NoArchive, NEW w \in Worker, AddNode(w)
  PROVE  KInv'
<1>1. PICK n \in Node \ Present(project.node) : Commit(w, n, form[w].entered)
  BY DEF AddNode
<1>2. form[w].entered \in NodeData
  BY DEF KInv, FormsKept, AddNode
<1> QED
  BY <1>1, <1>2, CommitKept

LEMMA EditNodeKept ==
  ASSUME KInv, archive = NoArchive, NEW w \in Worker, EditNode(w)
  PROVE  KInv'
<1> DEFINE n == form[w].row
           data == Updated(project.node[n], form[w].loaded, form[w].entered)
<1>1. Commit(w, n, data) /\ form[w].open /\ n # Nothing
  BY DEF EditNode
<1>2. /\ form[w].entered \in NodeData /\ form[w].loaded \in NodeData
      /\ n \in Node /\ project.node[n] # Absent
  BY <1>1 DEF KInv, FormsKept, Form
<1>3. project.node[n] \in NodeData
  BY <1>2 DEF KInv, Kept, Project
<1>4. data \in NodeData
  BY <1>2, <1>3, UpdatedTyped
<1> HIDE DEF data, n
<1> QED
  BY <1>1, <1>2, <1>4, CommitKept

LEMMA LeaveKept ==
  ASSUME KInv, NEW w \in Worker, Leave(w)
  PROVE  KInv'
<1>1. NoForm \in Form /\ ~NoForm.open
  BY AbsentTyped DEF NoForm
<1>2. form' = [form EXCEPT ![w] = NoForm] /\ UNCHANGED <<project, archive, raced>>
  BY DEF Leave
<1>3. FormsKept'
  BY <1>1, <1>2 DEF KInv, FormsKept
<1> QED
  BY <1>2, <1>3 DEF KInv, ArchiveKept

LEMMA EditProjectKept == KInv /\ archive = NoArchive /\ EditProject => KInv'
<1> SUFFICES ASSUME KInv, archive = NoArchive, EditProject PROVE KInv'
  OBVIOUS
<1>1. project' \in Project /\ project'.profile = project.profile
        /\ project'.node = project.node
  BY DEF EditProject, KInv, Kept, Project
<1>2. UNCHANGED <<form, archive, raced>>
  BY DEF EditProject
<1>3. FormsKept'
  BY <1>1, <1>2 DEF KInv, FormsKept
<1> QED
  BY <1>1, <1>2, <1>3 DEF KInv, Kept, ArchiveKept

LEMMA SaveProfilesKept == KInv /\ archive = NoArchive /\ SaveProfiles => KInv'
<1> SUFFICES ASSUME KInv, archive = NoArchive, SaveProfiles PROVE KInv'
  OBVIOUS
<1>1. PICK profile \in [Node -> Name \cup {Nothing}] :
        /\ {n \in Node : profile[n] # Nothing} = Present(project.node)
        /\ DistinctProfiles(profile)
        /\ project' = [project EXCEPT !.profile = profile]
  BY DEF SaveProfiles
<1>2. project' \in Project /\ project'.profile = profile
        /\ project'.node = project.node
  BY <1>1 DEF KInv, Kept, Project
<1>3. UNCHANGED <<form, archive, raced>>
  BY DEF SaveProfiles
<1>4. FormsKept'
  BY <1>2, <1>3 DEF KInv, FormsKept
<1>5. Kept(project')
  BY <1>1, <1>2 DEF Kept, Present
<1> QED
  BY <1>3, <1>4, <1>5 DEF KInv, ArchiveKept

LEMMA ExportKept == KInv /\ Export => KInv'
<1> SUFFICES ASSUME KInv, Export PROVE KInv'
  OBVIOUS
<1>1. Kept(project) /\ ToDocument(project) \in Document
  BY DocumentTyped DEF KInv
<1>2. project \in Project
  BY <1>1 DEF Kept
<1>3. archive' = [document |-> ToDocument(project), checksum |-> ToDocument(project),
                  whole |-> TRUE]
      /\ UNCHANGED <<project, form, raced>>
  BY DEF Export
<1>4. archive' \in Archive
  BY <1>1, <1>2, <1>3 DEF Archive
<1>5. ArchiveKept'
  BY <1>1, <1>3, <1>4 DEF ArchiveKept
<1> QED
  BY <1>1, <1>3, <1>5 DEF KInv, FormsKept

LEMMA DamageKept == KInv /\ Damage => KInv'
<1> SUFFICES ASSUME KInv, Damage PROVE KInv'
  OBVIOUS
<1>1. archive \in Archive /\ archive.checksum = ToDocument(project)
  BY DEF KInv, ArchiveKept, Damage
<1> DEFINE Same == archive' \in Archive /\ archive'.checksum = archive.checksum
<1>2. Same
  <2>1. CASE archive' = [archive EXCEPT !.whole = FALSE]
    BY <2>1, <1>1 DEF Archive
  <2>2. ASSUME NEW c \in Count, archive' = [archive EXCEPT !.document.count = c]
        PROVE Same
    BY <2>2, <1>1 DEF Archive, Document
  <2>3. ASSUME NEW n \in Present(archive.document.node),
               archive' = [archive EXCEPT !.document.node[n] = Absent]
        PROVE Same
    <3>1. [archive.document.node EXCEPT ![n] = Absent] \in [Node -> NodeData \cup {Absent}]
      BY <1>1 DEF Archive, Document
    <3> QED
      BY <2>3, <3>1, <1>1 DEF Archive, Document
  <2> QED
    BY <2>1, <2>2, <2>3 DEF Damage
<1>3. UNCHANGED <<project, form, raced>>
  BY DEF Damage
<1> QED
  BY <1>1, <1>2, <1>3 DEF KInv, ArchiveKept, FormsKept

(* What the import makes of an archive                                     *)
LEMMA Imported == KInv /\ Import => project' = project
  BY ReadBack DEF KInv, ArchiveKept, Import, Verified

LEMMA ImportKept == KInv /\ (Import \/ Discard) => KInv'
<1> SUFFICES ASSUME KInv, Import \/ Discard PROVE KInv'
  OBVIOUS
<1>1. project' = project /\ raced' = raced /\ archive' = NoArchive
  BY Imported DEF Import, Discard
<1>2. NoForm \in Form /\ ~NoForm.open
  BY AbsentTyped DEF NoForm
<1>3. FormsKept'
  BY <1>1, <1>2 DEF KInv, FormsKept, Import, Discard
<1> QED
  BY <1>1, <1>3 DEF KInv, ArchiveKept

LEMMA KeptNext == KInv /\ [Next]_vars => KInv'
<1> SUFFICES ASSUME KInv, [Next]_vars PROVE KInv'
  OBVIOUS
<1>1. ASSUME archive = NoArchive,
             NEW w \in Worker, CheckNode(w) \/ AddNode(w) \/ EditNode(w) \/ Leave(w)
      PROVE  KInv'
  BY <1>1, CheckNodeKept, AddNodeKept, EditNodeKept, LeaveKept
<1>2. CASE archive = NoArchive /\ (EditProject \/ SaveProfiles \/ Export)
  BY <1>2, EditProjectKept, SaveProfilesKept, ExportKept
<1>3. CASE Damage \/ Discard \/ Import
  BY <1>3, DamageKept, ImportKept
<1>4. CASE UNCHANGED vars
  BY <1>4 DEF vars, KInv, ArchiveKept, FormsKept
<1> QED
  BY <1>1, <1>2, <1>3, <1>4 DEF Next

LEMMA KeptAlways == Spec => []KInv
  BY KeptInit, KeptNext, PTL DEF Spec

(* Project, forms and archive keep their declared shapes, for any nodes,   *)
(* names, addresses and workers, also when forms overlap.                  *)
THEOREM TypeCorrect == Spec => []TypeOK
<1>1. KInv => TypeOK
  BY DEF KInv, Kept, ArchiveKept, FormsKept, TypeOK, Archive, Document
<1> QED
  BY KeptAlways, <1>1, PTL

(* An archive, damaged or not, becomes the definition that was exported or *)
(* nothing, for any nodes, names and addresses, also when forms overlap.   *)
THEOREM ImportsCorrect == Spec => ImportsAreExports
<1>1. KInv /\ [Next]_vars => [Import => project' = project]_vars
  BY Imported
<1> QED
  BY KeptAlways, <1>1, PTL DEF Spec, ImportsAreExports

-----------------------------------------------------------------------------
(* Forms that overlap                                                      *)

(* Two rows, or a row and what a form has entered, share nothing.          *)
Apart(d, e) == d.host # e.host /\ Addresses(d) \cap Addresses(e) = {}

(* What a form was checked for still holds of the rows not saved since.    *)
Checked(f) ==
  /\ f.since \subseteq Present(project.node)
  /\ f.entered.management # f.entered.cluster
  /\ \A m \in Present(project.node) \ ({f.row} \cup f.since) :
       Apart(project.node[m], f.entered)
  /\ f.row # Nothing /\ f.row \notin f.since => f.loaded = project.node[f.row]

SInv ==
  /\ KInv
  /\ NoConflict
  /\ \A w \in Worker : form[w].open => Checked(form[w])

(* A row saved by its form conflicts with none but those saved since the   *)
(* form was checked.                                                       *)
LEMMA CommitSafe ==
  ASSUME KInv, NoConflict, NEW w \in Worker, NEW n \in Node, NEW data \in NodeData,
         Commit(w, n, data),
         n \notin form[w].since =>
           /\ data.management # data.cluster
           /\ \A m \in Present(project.node) \ ({n} \cup form[w].since) :
                Apart(project.node[m], data)
  PROVE  NoConflict'
<1> DEFINE new == project'.node
           old == project.node
           Over == IF n \in form[w].since THEN Node ELSE form[w].since
<1>1. /\ old \in [Node -> NodeData \cup {Absent}]
      /\ new = [old EXCEPT ![n] = data]
      /\ raced' = {p \in raced : n \notin p} \cup {{m, n} : m \in Over}
  BY Committed DEF Commit, KInv, Kept, Project
<1>2. /\ new[n] = data
      /\ \A m \in Node : m # n => new[m] = old[m]
      /\ \A m \in Present(new) : m \in Node /\ (m = n \/ m \in Present(old))
  BY <1>1 DEF Present
<1>3. \A p \in raced : n \notin p => p \in raced'
  BY <1>1
<1>4. \A m \in Over : {m, n} \in raced' /\ {n, m} \in raced'
  BY <1>1
<1>5. /\ n \in form[w].since => \A m \in Node : m \in Over
      /\ n \notin form[w].since => \A m \in form[w].since : m \in Over
  OBVIOUS
<1> HIDE DEF new, old, Over
<1>6. ASSUME NEW a \in Present(new)
      PROVE  {a} \in raced' \/ new[a].management # new[a].cluster
  <2>1. CASE a = n
    <3>1. CASE n \in form[w].since
      <4>1. {n, n} \in raced'
        BY <1>4, <1>5, <3>1
      <4>2. {n, n} = {a}
        BY <2>1
      <4> QED
        BY <4>1, <4>2
    <3>2. CASE n \notin form[w].since
      BY <1>2, <2>1, <3>2
    <3> QED
      BY <3>1, <3>2
  <2>2. CASE a # n
    <3>1. a \in Present(old) /\ new[a] = old[a]
      BY <1>2, <2>2
    <3>2. {a} \in raced \/ old[a].management # old[a].cluster
      BY <3>1 DEF NoConflict, old
    <3> QED
      BY <1>3, <2>2, <3>1, <3>2
  <2> QED
    BY <2>1, <2>2
<1>7. ASSUME NEW a \in Present(new), NEW b \in Present(new) \ {a}
      PROVE  {b, a} \in raced' \/ Apart(new[b], new[a])
  <2>0. ASSUME NEW m \in Present(new), m # n
        PROVE  ({m, n} \in raced' /\ {n, m} \in raced') \/ Apart(old[m], data)
    <3>1. m \in Present(old) /\ m \in Node
      BY <1>2, <2>0
    <3> QED
      BY <1>4, <1>5, <2>0, <3>1 DEF old
  <2>1. CASE a = n
    BY <1>2, <2>0, <2>1
  <2>2. CASE b = n
    <3>1. ({a, n} \in raced' /\ {n, a} \in raced') \/ Apart(old[a], data)
      BY <2>0, <2>2
    <3>2. Apart(old[a], data) => Apart(data, old[a])
      BY DEF Apart
    <3> QED
      BY <1>2, <2>2, <3>1, <3>2
  <2>3. CASE a # n /\ b # n
    <3>1. /\ a \in Present(old) /\ b \in Present(old) \ {a}
          /\ new[a] = old[a] /\ new[b] = old[b]
      BY <1>2, <2>3
    <3>2. {b, a} \in raced \/ Apart(old[b], old[a])
      BY <3>1 DEF NoConflict, Apart, old
    <3> QED
      BY <1>3, <2>3, <3>1, <3>2
  <2> QED
    BY <2>1, <2>2, <2>3
<1> QED
  BY <1>6, <1>7 DEF NoConflict, Apart, new

(* The other forms know of it.                                             *)
LEMMA CommitChecked ==
  ASSUME SInv, NEW w \in Worker, NEW n \in Node, NEW data \in NodeData, Commit(w, n, data)
  PROVE  \A v \in Worker : form'[v].open => Checked(form[v])'
<1> TAKE v \in Worker
<1> SUFFICES ASSUME form'[v].open PROVE Checked(form[v])'
  OBVIOUS
<1>1. /\ project'.node = [project.node EXCEPT ![n] = data]
      /\ form'[v] = IF v = w \/ ~form[v].open THEN NoForm
                    ELSE [form[v] EXCEPT !.since = @ \cup {n}]
      /\ project.node \in [Node -> NodeData \cup {Absent}]
      /\ form[v] \in Form /\ data # Absent
  <2>1. KInv /\ data # Absent
    BY AbsentTyped DEF SInv
  <2>2. project.node \in [Node -> NodeData \cup {Absent}] /\ form[v] \in Form
    BY <2>1 DEF KInv, Kept, Project, FormsKept
  <2> QED
    BY <2>1, <2>2, Committed
<1>2. v # w /\ form[v].open
  BY <1>1 DEF NoForm
<1>3. /\ form'[v].since = form[v].since \cup {n}
      /\ form'[v].row = form[v].row /\ form'[v].entered = form[v].entered
      /\ form'[v].loaded = form[v].loaded
  BY <1>1, <1>2 DEF Form
<1>4. Checked(form[v])
  BY <1>2 DEF SInv
<1>5. Present(project'.node) = Present(project.node) \cup {n}
        /\ \A m \in Node : m # n => project'.node[m] = project.node[m]
  BY <1>1 DEF Present
<1>6. form[v].row # Nothing => form[v].row \in Node
  BY <1>1 DEF Form
<1> QED
  BY <1>3, <1>4, <1>5, <1>6 DEF Checked, Present

LEMMA OverlapInit == Init => SInv
<1> SUFFICES ASSUME Init PROVE SInv
  OBVIOUS
<1>1. Present(project.node) = {}
  BY DEF Init, Present, NoNodes
<1>2. \A w \in Worker : ~form[w].open
  BY DEF Init, NoForm
<1> QED
  BY <1>1, <1>2, KeptInit DEF SInv, NoConflict

LEMMA OverlapNext == SInv /\ [Next]_vars => SInv'
<1> SUFFICES ASSUME SInv, [Next]_vars PROVE SInv'
  OBVIOUS
<1>0. KInv /\ KInv' /\ NoConflict /\ form \in [Worker -> Form]
  BY KeptNext DEF SInv, KInv, FormsKept
<1>1. ASSUME NEW w \in Worker, CheckNode(w) PROVE SInv'
  <2>1. PICK n \in Present(project.node) \cup {Nothing}, data \in NodeData :
          /\ ~Conflicts(project.node, n, data)
          /\ form' = [form EXCEPT ![w] =
               [open |-> TRUE, row |-> n, entered |-> data, since |-> {},
                loaded |-> IF n = Nothing THEN Absent ELSE project.node[n]]]
    BY <1>1 DEF CheckNode
  <2>2. UNCHANGED <<project, archive, raced>>
    BY <1>1 DEF CheckNode
  <2>3. \A v \in Worker : form'[v].open => Checked(form[v])'
    BY <1>0, <2>1, <2>2 DEF SInv, Checked, Conflicts, Apart
  <2> QED
    BY <1>0, <2>2, <2>3 DEF SInv, NoConflict
<1>2. ASSUME NEW w \in Worker, AddNode(w) PROVE SInv'
  <2>1. PICK n \in Node \ Present(project.node) : Commit(w, n, form[w].entered)
    BY <1>2 DEF AddNode
  <2>2. /\ form[w].open /\ form[w].row = Nothing /\ form[w].entered \in NodeData
        /\ Checked(form[w]) /\ Nothing \notin Node
    BY <1>0, <1>2, TransferAssumption DEF KInv, FormsKept, AddNode, SInv, TransferAssumption
  <2>3. NoConflict'
    <3>1. /\ form[w].entered.management # form[w].entered.cluster
          /\ \A m \in Present(project.node) \ ({n} \cup form[w].since) :
               Apart(project.node[m], form[w].entered)
      BY <2>2 DEF Checked, Present
    <3> QED
      BY <1>0, <2>1, <2>2, <3>1, CommitSafe
  <2> QED
    BY <1>0, <2>1, <2>2, <2>3, CommitChecked DEF SInv
<1>3. ASSUME NEW w \in Worker, EditNode(w) PROVE SInv'
  <2> DEFINE n == form[w].row
             data == Updated(project.node[n], form[w].loaded, form[w].entered)
  <2>1. /\ Commit(w, n, data) /\ n \in Node
        /\ form[w].entered \in NodeData /\ form[w].loaded \in NodeData
        /\ project.node[n] \in NodeData
        /\ Checked(form[w])
    BY <1>0, <1>3 DEF KInv, FormsKept, Form, EditNode, Kept, Project, SInv
  <2>2. data \in NodeData
    BY <2>1, UpdatedTyped
  <2>3. n \notin form[w].since =>
          /\ data.management # data.cluster
          /\ \A m \in Present(project.node) \ ({n} \cup form[w].since) :
               Apart(project.node[m], data)
    <3> SUFFICES ASSUME n \notin form[w].since
                 PROVE  /\ data.management # data.cluster
                        /\ \A m \in Present(project.node) \ ({n} \cup form[w].since) :
                             Apart(project.node[m], data)
      OBVIOUS
    <3>1. form[w].loaded = project.node[n]
      BY <2>1, TransferAssumption DEF Checked, TransferAssumption
    <3>2. data = form[w].entered
      BY <2>1, <3>1, UpdatedTyped
    <3> QED
      BY <2>1, <3>2 DEF Checked
  <2> HIDE DEF n, data
  <2>4. NoConflict'
    BY <1>0, <2>1, <2>2, <2>3, CommitSafe
  <2> QED
    BY <1>0, <2>1, <2>2, <2>4, CommitChecked DEF SInv
<1>4. ASSUME NEW w \in Worker, Leave(w) PROVE SInv'
  <2>1. /\ UNCHANGED <<project, archive, raced>>
        /\ \A v \in Worker : form'[v].open => form'[v] = form[v]
    BY <1>0, <1>4 DEF Leave, NoForm
  <2> QED
    BY <1>0, <2>1 DEF SInv, NoConflict, Checked
<1>5. CASE EditProject \/ SaveProfiles
  <2>1. /\ UNCHANGED <<form, archive, raced>>
        /\ project'.node = project.node
    BY <1>0, <1>5 DEF EditProject, SaveProfiles, KInv, Kept, Project
  <2> QED
    BY <1>0, <2>1 DEF SInv, NoConflict, Checked
<1>6. CASE Export \/ Damage \/ Discard \/ UNCHANGED vars
  <2>1. UNCHANGED <<project, form, raced>>
    BY <1>6 DEF Export, Damage, Discard, vars
  <2> QED
    BY <1>0, <2>1 DEF SInv, NoConflict, Checked
<1>7. CASE Import
  <2>1. project' = project /\ raced' = raced /\ \A w \in Worker : ~form'[w].open
    BY <1>0, <1>7, Imported DEF Import, NoForm
  <2> QED
    BY <1>0, <2>1 DEF SInv, NoConflict
<1> QED
  BY <1>1, <1>2, <1>3, <1>4, <1>5, <1>6, <1>7 DEF Next

LEMMA OverlapAlways == Spec => []SInv
  BY OverlapInit, OverlapNext, PTL DEF Spec

(* However forms overlap and nodes are added, edited, exported and         *)
(* imported, names and addresses only conflict between two rows of which   *)
(* one was saved by a form checked before the other one.                   *)
THEOREM ConflictSafe == Spec => []NoConflict
<1>1. SInv => NoConflict
  BY DEF SInv
<1> QED
  BY OverlapAlways, <1>1, PTL

-----------------------------------------------------------------------------
(* What the forms let through, the import accepts.                         *)

LEMMA ExportAccepted ==
  ASSUME NEW p, Kept(p), FitsCount(ToDocument(p)),
         \A m, n \in Present(p.node) : m # n => Apart(p.node[m], p.node[n])
  PROVE  Accepted(ToDocument(p))
<1> DEFINE d == ToDocument(p)
           nodes == Present(p.node)
           with == {m \in nodes : p.profile[m] # Nothing}
           line == [n \in with |-> <<p.node[n].host, p.profile[n]>>]
<1>1. /\ d.node = p.node
      /\ d.profiles = {<<p.node[n].host, p.profile[n]>> : n \in with}
  BY DEF ToDocument
<1>2. \A m, n \in nodes : m # n =>
        /\ d.node[m].host # d.node[n].host
        /\ Addresses(d.node[m]) \cap Addresses(d.node[n]) = {}
  BY <1>1 DEF Apart
<1>3. Cardinality(d.profiles) <= Cardinality(nodes)
  <2>1. IsFiniteSet(nodes) /\ IsFiniteSet(with)
    BY TransferAssumption, FS_Subset DEF TransferAssumption, Present
  <2>2. Cardinality(with) <= Cardinality(nodes)
    BY <2>1, FS_Subset
  <2>3. line \in Surjection(with, d.profiles)
    <3>1. /\ line \in [with -> d.profiles]
          /\ \A q \in d.profiles : \E n \in with : line[n] = q
      BY <1>1
    <3> HIDE DEF line, with, d
    <3> QED
      BY <3>1, Fun_IsSurj
  <2>4. Cardinality(d.profiles) <= Cardinality(with)
    BY <2>1, <2>3, FS_Surjection
  <2>5. /\ Cardinality(d.profiles) \in Nat /\ Cardinality(with) \in Nat
        /\ Cardinality(nodes) \in Nat
    BY <2>1, <2>3, FS_Surjection, FS_CardinalityType
  <2> QED
    BY <2>2, <2>4, <2>5
<1>4. \A q \in d.profiles : \E n \in nodes : d.node[n].host = q[1]
  BY <1>1
<1>5. \A q, r \in d.profiles : q # r => q[1] # r[1] /\ q[2] # r[2]
  BY <1>1, <1>2 DEF Kept, DistinctProfiles, Present
<1> QED
  BY <1>1, <1>2, <1>3, <1>4, <1>5 DEF Accepted

(* An archive that has kept its content is accepted, whatever definition   *)
(* it holds, if no two of its rows were saved by overlapping forms and its *)
(* nodes fit the count.                                                    *)
THEOREM ReturnSafe == Spec => []ExportsCanReturn
<1>1. SInv => ExportsCanReturn
  <2> SUFFICES ASSUME SInv, archive # NoArchive, raced = {}, Verified(archive),
                      FitsCount(archive.document)
               PROVE  Accepted(archive.document)
    BY DEF ExportsCanReturn
  <2>1. archive.document = ToDocument(project) /\ Kept(project)
    BY DEF SInv, KInv, ArchiveKept, Verified
  <2>2. \A m, n \in Present(project.node) : m # n => Apart(project.node[m], project.node[n])
    BY DEF SInv, NoConflict, Apart
  <2> QED
    BY <2>1, <2>2, ExportAccepted
<1> QED
  BY OverlapAlways, <1>1, PTL
=============================================================================
