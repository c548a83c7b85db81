-------------------------- MODULE ProjectTransfer --------------------------
(***************************************************************************)
(* The definition of one project as forms build it, the .cwp archive it is *)
(* exported to, and the import that makes a new project of the archive,    *)
(* here or in another installation.  The model follows the definition:     *)
(* into the archive, and out of it with the import; what becomes of the    *)
(* exported project meanwhile cannot reach the archive.                    *)
(*                                                                         *)
(* Forms and import have each their own validation: node_conflicts and the *)
(* profiles form check what is entered against the rows they have read,    *)
(* _validate_project_document checks a whole document, and only equal      *)
(* hostnames are excluded by a constraint of the database.                 *)
(*                                                                         *)
(* Of a node, what one validation relates to another is kept: its hostname *)
(* (the class of its spellings in upper and lower case), its management    *)
(* and cluster address, and the name of its STONITH profile.               *)
(*                                                                         *)
(* Source: core/services/project_transfer.py, persistence/repositories/    *)
(* projects.py, and the handlers in web/routes/projects.py and stonith.py. *)
(***************************************************************************)
EXTENDS FiniteSets, Naturals

CONSTANTS
  Worker,    \* worker processes
  Node,      \* node rows of the project
  Name,      \* hostnames; names of STONITH profiles
  Address,   \* IP addresses
  Nothing,   \* no address, no profile, no node, no archive
  MaxCount   \* bound on the expected node count (64 in the forms)

ASSUME TransferAssumption ==
  /\ IsFiniteSet(Node)
  /\ MaxCount \in Nat \ {0}
  /\ Nothing \notin Node \cup Name \cup Address

VARIABLES
  project,  \* the definition in the database
  form,     \* form[w]: the node form that worker w has checked
  archive,  \* the archive on its way; project is then what was exported
  raced     \* history: the pairs of rows of which one was saved by a form
            \* checked before the other one was ({n}: before n itself was)

vars == <<project, form, archive, raced>>

NodeData == [host : Name, management : Address, cluster : Address \cup {Nothing}]
Absent == [host |-> Nothing, management |-> Nothing, cluster |-> Nothing]

Count == 1 .. MaxCount
Project == [count : Count, node : [Node -> NodeData \cup {Absent}],
            profile : [Node -> Name \cup {Nothing}]]

(* A form to save; row is Nothing when it adds a node.  since: from        *)
(* history, the rows saved since it was checked.                           *)
Form == [open : BOOLEAN, row : Node \cup {Nothing}, loaded : NodeData \cup {Absent},
         entered : NodeData \cup {Absent}, since : SUBSET Node]
NoForm == [open |-> FALSE, row |-> Nothing, loaded |-> Absent, entered |-> Absent,
           since |-> {}]

Pair == {{m, n} : m, n \in Node}

(* project.yaml names the node of a profile by its hostname.  whole: the   *)
(* members are those that an archive may and must have, each of them once; *)
(* checksum is the document CHECKSUMS.sha256 was made of.                  *)
Document == [count : Count, node : [Node -> NodeData \cup {Absent}],
             profiles : SUBSET (Name \X Name)]
Archive == [document : Document, checksum : Document, whole : BOOLEAN]
NoArchive == Nothing

TypeOK ==
  /\ project \in Project
  /\ form \in [Worker -> Form]
  /\ archive # NoArchive =>
       /\ DOMAIN archive = {"document", "checksum", "whole"}
       /\ archive.document.count \in Count
       /\ archive.document.profiles \subseteq Name \X Name
  /\ raced \subseteq Pair

NoNodes == [n \in Node |-> Absent]
NoProfiles == [n \in Node |-> Nothing]

(* create_project                                                          *)
Init ==
  /\ \E c \in Count : project = [count |-> c, node |-> NoNodes, profile |-> NoProfiles]
  /\ form = [w \in Worker |-> NoForm]
  /\ archive = NoArchive
  /\ raced = {}

Present(node) == {n \in Node : node[n] # Absent}
Addresses(data) == {data.management, data.cluster} \ {Nothing}

-----------------------------------------------------------------------------
(* Forms                                                                   *)

(* node_conflicts: data against every other node and against itself.       *)
ConflictsByField(node, n, data) ==  \* mutant
  \/ \E m \in Present(node) \ {n} :
       \/ node[m].host = data.host
       \/ node[m].management = data.management
       \/ data.cluster # Nothing /\ node[m].cluster = data.cluster
  \/ data.management = data.cluster

Conflicts(node, n, data) ==
  \/ \E m \in Present(node) \ {n} :
       \/ node[m].host = data.host
       \/ Addresses(node[m]) \cap Addresses(data) # {}
  \/ data.management = data.cluster

CheckNode(w) ==
  /\ ~form[w].open
  /\ \E n \in Present(project.node) \cup {Nothing}, data \in NodeData :
       /\ ~Conflicts(project.node, n, data)
       /\ form' = [form EXCEPT ![w] =
            [open |-> TRUE, row |-> n, entered |-> data, since |-> {},
             loaded |-> IF n = Nothing THEN Absent ELSE project.node[n]]]
  /\ UNCHANGED <<project, archive, raced>>

(* Row n is committed by the form of w, and the other forms stay as they   *)
(* were checked.                                                           *)
Commit(w, n, data) ==
  /\ project' = [project EXCEPT !.node[n] = data]
  /\ form' = [v \in Worker |->
                IF v = w \/ ~form[v].open THEN NoForm
                ELSE [form[v] EXCEPT !.since = @ \cup {n}]]
  /\ raced' = {p \in raced : n \notin p} \cup
                {{m, n} : m \in IF n \in form[w].since THEN Node ELSE form[w].since}
  /\ UNCHANGED archive

(* UNIQUE(project_id, hostname) sees only equal spellings: with another    *)
(* spelling the commit succeeds, with the same one it is given up (Leave). *)
AddNode(w) ==
  /\ form[w].open
  /\ form[w].row = Nothing
  /\ \E n \in Node \ Present(project.node) : Commit(w, n, form[w].entered)

(* An UPDATE writes the columns that differ from the row loaded.           *)
Updated(row, loaded, entered) ==
  [c \in DOMAIN row |-> IF entered[c] = loaded[c] THEN row[c] ELSE entered[c]]

EditNode(w) ==
  LET n == form[w].row IN
  /\ form[w].open
  /\ n # Nothing
  /\ Commit(w, n, Updated(project.node[n], form[w].loaded, form[w].entered))

Leave(w) ==
  /\ form[w].open
  /\ form' = [form EXCEPT ![w] = NoForm]
  /\ UNCHANGED <<project, archive, raced>>

(* edit_project: the expected count is not compared with the nodes.        *)
EditProject ==
  /\ \E c \in Count : project' = [project EXCEPT !.count = c]
  /\ UNCHANGED <<form, archive, raced>>

(* The profiles form: one profile for every node, under distinct names.    *)
DistinctProfilesAny(profile) == TRUE  \* mutant
DistinctProfiles(profile) ==
  \A m, n \in Node : m # n /\ profile[m] # Nothing => profile[m] # profile[n]

SaveProfiles ==
  /\ Present(project.node) # {}
  /\ \E profile \in [Node -> Name \cup {Nothing}] :
       /\ {n \in Node : profile[n] # Nothing} = Present(project.node)
       /\ DistinctProfiles(profile)
       /\ project' = [project EXCEPT !.profile = profile]
  /\ UNCHANGED <<form, archive, raced>>

-----------------------------------------------------------------------------
(* Export and import                                                       *)

(* project_to_dict                                                         *)
ToDocument(p) ==
  [count |-> p.count, node |-> p.node,
   profiles |-> {<<p.node[n].host, p.profile[n]>> :
                   n \in {m \in Present(p.node) : p.profile[m] # Nothing}}]

Export ==
  /\ archive' = [document |-> ToDocument(project), checksum |-> ToDocument(project),
                 whole |-> TRUE]
  /\ UNCHANGED <<project, form, raced>>

(* On its way the archive loses a member or gains one, or project.yaml is  *)
(* changed by hand.                                                        *)
Damage ==
  /\ archive # NoArchive
  /\ \/ archive' = [archive EXCEPT !.whole = FALSE]
     \/ \E c \in Count : archive' = [archive EXCEPT !.document.count = c]
     \/ \E n \in Present(archive.document.node) :
          archive' = [archive EXCEPT !.document.node[n] = Absent]
  /\ archive' # archive
  /\ UNCHANGED <<project, form, raced>>

(* The archive is given up, or another one made.                           *)
Discard ==
  /\ archive # NoArchive
  /\ archive' = NoArchive
  /\ UNCHANGED <<project, form, raced>>

(* read_project_archive up to the checksums                                *)
VerifiedMembers(a) == a.whole  \* mutant
Verified(a) == a.whole /\ a.document = a.checksum

(* _validate_project_document                                              *)
FitsCount(d) == Cardinality(Present(d.node)) <= d.count

AcceptedBelow(d) == Cardinality(Present(d.node)) < d.count  \* mutant
Accepted(d) ==
  LET nodes == Present(d.node) IN
  /\ FitsCount(d)
  /\ \A m, n \in nodes : m # n =>
       /\ d.node[m].host # d.node[n].host
       /\ Addresses(d.node[m]) \cap Addresses(d.node[n]) = {}
  /\ Cardinality(d.profiles) <= Cardinality(nodes)
  /\ \A p \in d.profiles : \E n \in nodes : d.node[n].host = p[1]
  /\ \A p, q \in d.profiles : p # q => p[1] # q[1] /\ p[2] # q[2]

(* create_imported_project commits all rows in one transaction; profiles   *)
(* find their node by its hostname.                                        *)
FromDocument(d) ==
  [count |-> d.count, node |-> d.node,
   profile |-> [n \in Node |->
     IF \E p \in d.profiles : p[1] = d.node[n].host
     THEN (CHOOSE p \in d.profiles : p[1] = d.node[n].host)[2] ELSE Nothing]]

Import ==
  /\ archive # NoArchive
  /\ Verified(archive)
  /\ Accepted(archive.document)
  /\ project' = FromDocument(archive.document)
  /\ form' = [w \in Worker |-> NoForm]
  /\ archive' = NoArchive
  /\ UNCHANGED raced

Next ==
  \/ /\ archive = NoArchive
     /\ \/ \E w \in Worker : CheckNode(w) \/ AddNode(w) \/ EditNode(w) \/ Leave(w)
        \/ EditProject \/ SaveProfiles \/ Export
  \/ Damage \/ Discard \/ Import

Spec == Init /\ [][Next]_vars

-----------------------------------------------------------------------------
(* Properties                                                              *)

(* However nodes are added, edited, exported and imported, every address   *)
(* and every hostname belongs to one node, and to one of its networks;     *)
(* only two rows of which one was saved by a form checked before the other *)
(* one can share any.                                                      *)
NoConflict ==
  \A n \in Present(project.node) :
    /\ {n} \in raced \/ project.node[n].management # project.node[n].cluster
    /\ \A m \in Present(project.node) \ {n} :
         {m, n} \in raced \/
           /\ project.node[m].host # project.node[n].host
           /\ Addresses(project.node[m]) \cap Addresses(project.node[n]) = {}

(* "Each project can be exported ... and imported into another instance":  *)
(* the import takes every archive that has kept its content, of every      *)
(* definition the forms let through unless two of them overlapped, if its  *)
(* nodes fit the expected count.                                           *)
ExportsCanReturn ==
  archive # NoArchive /\ raced = {} /\ Verified(archive)
    /\ FitsCount(archive.document) => Accepted(archive.document)

(* An import makes the definition that was exported, profiles on the nodes *)
(* they had, whatever has happened to the archive; and no project if it    *)
(* cannot.                                                                 *)
ImportsAreExports == [][Import => project' = project]_vars
=============================================================================
