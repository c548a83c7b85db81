------------------------ MODULE ProjectRecordsProofs ------------------------
(***************************************************************************)
(* Proofs about ProjectRecords, for any nodes, hostnames, workers and      *)
(* steps, and whatever requests overlap: type correctness, that an edit    *)
(* leaves no evidence it outdates, and that the steps came in order on     *)
(* every row that was given results of its own node only.                  *)
(***************************************************************************)
EXTENDS ProjectRecords, TLAPS

-----------------------------------------------------------------------------
(* Types                                                                   *)

LEMMA NoRequestTyped == NoRequest \in Request
  BY DEF NoRequest, Request, Nobody, Hosts, Edits, Steps, InChain, Chain

LEMMA AgedTyped ==
  ASSUME NEW e \in [NodeId -> [Step -> Evidence]], NEW S, NEW changes,
         NEW age \in {"overtaken", "outdated"}
  PROVE  Aged(e, S, changes, age) \in [NodeId -> [Step -> Evidence]]
<1>1. ASSUME NEW n \in NodeId, NEW s \in Step
      PROVE  [e[n][s] EXCEPT !.age = age] \in Evidence
  <2>1. e[n][s] \in Evidence
    OBVIOUS
  <2> QED
    BY <2>1 DEF Evidence
<1> QED
  BY <1>1 DEF Aged

LEMMA ClearedTyped ==
  ASSUME NEW e \in [NodeId -> [Step -> Evidence]], NEW S, NEW steps
  PROVE  Cleared(e, S, steps) \in [NodeId -> [Step -> Evidence]]
  BY DEF Cleared, NoEvidence, Evidence

LEMMA DoubtedTyped ==
  ASSUME run \in [Worker -> Request], NEW w \in Worker, NEW r \in Request,
         NEW S, NEW changes
  PROVE  Doubted(w, r, S, changes) \in [Worker -> Request]
<1>1. ASSUME NEW v \in Worker PROVE Doubted(w, r, S, changes)[v] \in Request
  <2>1. run[v] \in Request
    OBVIOUS
  <2>2. [run[v] EXCEPT !.sure = IF Affected(run[v].step, changes) THEN @ \ S ELSE @] \in Request
    BY <2>1 DEF Request
  <2> QED
    BY <2>2 DEF Doubted
<1> QED
  BY <1>1 DEF Doubted

LEMMA SavedTyped ==
  ASSUME TypeOK, NEW w \in Worker, NEW kept \in BOOLEAN, NEW tried, NEW good
  PROVE  Saved(w, kept, tried, good) \in [NodeId -> [Step -> Evidence]]
<1>1. \A v : Result(w, v, good) \in Evidence
  BY DEF Result, Evidence
<1>2. ASSUME NEW n \in NodeId PROVE Saved(w, kept, tried, good)[n] \in [Step -> Evidence]
  BY <1>1 DEF Saved, TypeOK
<1> QED
  BY <1>2 DEF Saved

LEMMA NoEvidenceTyped == NoEvidence \in Evidence
  BY DEF NoEvidence, Evidence

LEMMA TypeInit == Init => TypeOK
<1>1. Nobody \in Hosts
  BY DEF Nobody, Hosts
<1>2. [w \in Worker |-> NoRequest] \in [Worker -> Request]
  BY NoRequestTyped
<1>3. [n \in NodeId |-> [s \in Step |-> NoEvidence]] \in [NodeId -> [Step -> Evidence]]
  BY NoEvidenceTyped
<1>4. [n \in NodeId |-> {}] \in [NodeId -> SUBSET Steps]
  OBVIOUS
<1> QED
  BY <1>1, <1>2, <1>3, <1>4 DEF Init, TypeOK

-----------------------------------------------------------------------------
(* Every step keeps the types.                                             *)

LEMMA TypeNext == TypeOK /\ [Next]_vars => TypeOK'
<1> SUFFICES ASSUME TypeOK, [Next]_vars PROVE TypeOK'
  OBVIOUS
<1>0. CASE UNCHANGED vars
  BY <1>0 DEF vars, rows, history, TypeOK
<1>1. ASSUME NEW w \in Worker, WorkerStep(w) PROVE TypeOK'
  <2>0. /\ NoRequest \in Request
        /\ run[w] \in Request
        /\ \A r \in Request : [run EXCEPT ![w] = r] \in [Worker -> Request]
    BY NoRequestTyped DEF TypeOK
  <2>1. ASSUME NEW k \in Edits, Open(w, k) PROVE TypeOK'
    <3>1. \A s \in {"00a", "08a"} : Loaded(k, s, FALSE) \in Request
      BY DEF Loaded, Request, Nodes, Rows, TypeOK, Steps, InChain, Chain
    <3> QED
      BY <2>0, <2>1, <3>1 DEF Open, Continue, TypeOK, rows, history
  <2>2. ASSUME NEW s \in Step, Start(w, s) PROVE TypeOK'
    <3>1. Loaded("step", s, TRUE) \in Request
      BY RecordsAssumption DEF RecordsAssumption, Loaded, Request, Nodes, Rows, TypeOK
    <3> QED
      BY <2>0, <2>2, <3>1 DEF Start, Continue, TypeOK, rows, history
  <2>3. CASE Create(w)
    BY <2>3 DEF Create, TypeOK, history
  <2>4. CASE AddNode(w)
    BY <2>4 DEF AddNode, TypeOK, Hosts, history
  <2>5. CASE EditNode(w)
    <3>1. PICK n \in Nodes \cap Rows(run[w].view), h \in Host, moved \in BOOLEAN,
          changes \in SUBSET {"hostname", "endpoint"} :
            /\ host' = host \/ host' = [host EXCEPT ![n] = h]
            /\ ev' = Aged(Cleared(ev, {n}, ClearedByEdit(h # run[w].view[n], moved)), {n}, changes, "outdated")
            /\ run' = Doubted(w, NoRequest, {n}, changes)
      BY <2>5 DEF EditNode
    <3>2. host' \in Hosts
      BY <3>1 DEF TypeOK, Hosts
    <3>3. ev' \in [NodeId -> [Step -> Evidence]]
      BY <3>1, ClearedTyped, AgedTyped DEF TypeOK
    <3>4. run' \in [Worker -> Request]
      BY <2>0, <3>1, DoubtedTyped DEF TypeOK
    <3> QED
      BY <2>5, <3>2, <3>3, <3>4 DEF EditNode, TypeOK, history
  <2>6. CASE Define(w)
    <3> DEFINE next == IF run[w].kind = "verify" THEN [run[w] EXCEPT !.remote = TRUE]
                       ELSE NoRequest
    <3>1. next \in Request
      BY <2>0 DEF Request
    <3> HIDE DEF next
    <3>2. CASE /\ ev' = Aged(Cleared(ev, NodeId, ClearedByProfiles), NodeId, {"profiles"}, "outdated")
               /\ run' = Doubted(w, next, NodeId, {"profiles"})
      <4>1. ev' \in [NodeId -> [Step -> Evidence]]
        BY <3>2, ClearedTyped, AgedTyped DEF TypeOK
      <4>2. run' \in [Worker -> Request]
        BY <3>1, <3>2, DoubtedTyped DEF TypeOK
      <4> QED
        BY <2>6, <4>1, <4>2 DEF Define, TypeOK, history
    <3>3. CASE Continue(w, next) /\ UNCHANGED ev
      BY <2>0, <2>6, <3>1, <3>3 DEF Define, TypeOK, Continue, history
    <3> QED
      BY <2>6, <3>2, <3>3 DEF Define, next
  <2>7. CASE Delete(w)
    <3>1. ev' \in [NodeId -> [Step -> Evidence]]
      BY <2>7, ClearedTyped DEF Delete, TypeOK
    <3>2. \A v \in Worker : [run[v] EXCEPT !.gone = TRUE] \in Request
      BY DEF TypeOK, Request
    <3>3. run' \in [Worker -> Request]
      BY <2>0, <2>7, <3>2 DEF Delete
    <3>4. Nobody \in Hosts /\ [n \in NodeId |-> {}] \in [NodeId -> SUBSET Steps]
      BY DEF Nobody, Hosts
    <3> QED
      BY <2>7, <3>1, <3>3, <3>4 DEF Delete, TypeOK
  <2>8. CASE Save(w)
    <3>1. PICK kept \in BOOLEAN, tried \in Tried(w), good \in SUBSET Rows(run[w].view),
               moved \in SUBSET NodeId :
            /\ IF kept \/ exists
                 THEN /\ ev' = Aged(Saved(w, kept, tried, good), moved, {"endpoint"}, "overtaken")
                      /\ Record(w, kept, tried, good)
                 ELSE UNCHANGED <<ev, history>>
            /\ run' = Doubted(w, NoRequest, moved, {"endpoint"})
      BY <2>8 DEF Save
    <3>2. ev' \in [NodeId -> [Step -> Evidence]]
      BY <3>1, SavedTyped, AgedTyped DEF TypeOK
    <3>3. run' \in [Worker -> Request]
      BY <2>0, <3>1, DoubtedTyped DEF TypeOK
    <3>4. run[w].step \in Steps
      BY <2>0 DEF Request
    <3>5. passed' \in [NodeId -> SUBSET Steps] /\ mistaken' \in SUBSET NodeId
      BY <3>1, <3>4 DEF Record, history, TypeOK
    <3> QED
      BY <2>8, <3>2, <3>3, <3>5 DEF Save, TypeOK, rows
  <2>9. CASE Abandon(w)
    BY <2>0, <2>9 DEF Abandon, Continue, TypeOK, rows, history
  <2> QED
    BY <1>1, <2>1, <2>2, <2>3, <2>4, <2>5, <2>6, <2>7, <2>8, <2>9 DEF WorkerStep
<1> QED
  BY <1>0, <1>1 DEF Next

(* Rows, evidence and requests keep their declared shapes, for any nodes,  *)
(* hostnames, workers and steps.                                           *)
THEOREM TypeCorrect == Spec => []TypeOK
  BY TypeInit, TypeNext, PTL DEF Spec

-----------------------------------------------------------------------------
(* Evidence about things as they are                                       *)

(* Only the changes of an edit outdate.                                    *)
LEMMA AgedOutdates ==
  ASSUME NEW e \in [NodeId -> [Step -> Evidence]], NEW S, NEW changes,
         NEW age \in {"overtaken", "outdated"}, NEW n \in NodeId, NEW s \in Step,
         e[n][s].age # "outdated",
         age = "outdated" => ~(n \in S /\ Affected(s, changes) /\ e[n][s].ok # "none")
  PROVE  Aged(e, S, changes, age)[n][s].age # "outdated"
<1>1. e[n][s] \in Evidence
  OBVIOUS
<1> QED
  BY <1>1 DEF Aged, Evidence

(* An edit deletes every piece of evidence it outdates.                    *)
LEMMA ClearedCovers ==
  ASSUME EvidenceCurrent, ev \in [NodeId -> [Step -> Evidence]], NEW S,
         NEW steps, NEW changes, \A s \in Step : Affected(s, changes) => s \in steps,
         ev' = Aged(Cleared(ev, S, steps), S, changes, "outdated")
  PROVE  EvidenceCurrent'
<1>1. Cleared(ev, S, steps) \in [NodeId -> [Step -> Evidence]]
  BY ClearedTyped
<1>2. NoEvidence.ok = "none" /\ NoEvidence.age # "outdated"
  BY DEF NoEvidence
<1>3. ASSUME NEW n \in NodeId, NEW s \in Step
      PROVE  /\ Cleared(ev, S, steps)[n][s].age # "outdated"
             /\ n \in S /\ Affected(s, changes) => Cleared(ev, S, steps)[n][s].ok = "none"
  BY <1>2 DEF Cleared, EvidenceCurrent
<1> QED
  BY <1>1, <1>3, AgedOutdates DEF EvidenceCurrent

LEMMA CurrentSave ==
  ASSUME TypeOK, EvidenceCurrent, NEW w \in Worker, Save(w)
  PROVE  EvidenceCurrent'
<1>1. PICK kept \in BOOLEAN, tried \in Tried(w), good \in SUBSET Rows(run[w].view),
           moved \in SUBSET NodeId :
        IF kept \/ exists
          THEN /\ ev' = Aged(Saved(w, kept, tried, good), moved, {"endpoint"}, "overtaken")
               /\ Record(w, kept, tried, good)
          ELSE UNCHANGED <<ev, history>>
  BY DEF Save
<1>2. Saved(w, kept, tried, good) \in [NodeId -> [Step -> Evidence]]
  BY SavedTyped
<1>3. \A v : Result(w, v, good).age # "outdated"
  BY DEF Result
<1>4. ASSUME NEW n \in NodeId, NEW s \in Step
      PROVE  Saved(w, kept, tried, good)[n][s].age # "outdated"
  BY <1>3 DEF Saved, TypeOK, EvidenceCurrent
<1> QED
  BY <1>1, <1>2, <1>4, AgedOutdates DEF EvidenceCurrent

LEMMA CurrentEdit ==
  ASSUME TypeOK, EvidenceCurrent, NEW w \in Worker, EditNode(w)
  PROVE  EvidenceCurrent'
<1>1. PICK n \in Nodes \cap Rows(run[w].view), h \in Host, moved \in BOOLEAN,
           changes \in SUBSET {"hostname", "endpoint"} :
        /\ changes = (IF h # run[w].view[n] /\ h # host[n] THEN {"hostname"} ELSE {})
                       \cup (IF moved THEN {"endpoint"} ELSE {})
        /\ ev' = Aged(Cleared(ev, {n}, ClearedByEdit(h # run[w].view[n], moved)),
                      {n}, changes, "outdated")
  BY DEF EditNode
<1>2. ASSUME NEW s \in Step, Affected(s, changes)
      PROVE  s \in ClearedByEdit(h # run[w].view[n], moved)
  <2>1. s \in Steps
    BY RecordsAssumption DEF RecordsAssumption
  <2>2. \/ "hostname" \in Depends(s) /\ h # run[w].view[n]
        \/ "endpoint" \in Depends(s) /\ moved
    BY <1>1, <1>2 DEF Affected
  <2>3. /\ "hostname" \in Depends(s) => s \in {"08a", "08a-fa", "00k", "00kr"}
        /\ "endpoint" \in Depends(s) => s \in {"08a-fa", "00k", "00kr"}
    BY DEF Depends
  <2> QED
    BY <2>2, <2>3 DEF ClearedByEdit
<1> QED
  BY <1>1, <1>2, ClearedCovers DEF TypeOK

LEMMA CurrentDefine ==
  ASSUME TypeOK, EvidenceCurrent, NEW w \in Worker, Define(w)
  PROVE  EvidenceCurrent'
<1>1. CASE ev' = Aged(Cleared(ev, NodeId, ClearedByProfiles), NodeId, {"profiles"}, "outdated")
  <2>1. \A s \in Step : Affected(s, {"profiles"}) => s \in ClearedByProfiles
    BY DEF Affected, Depends, ClearedByProfiles
  <2> QED
    BY <1>1, <2>1, ClearedCovers DEF TypeOK
<1>2. CASE UNCHANGED ev
  BY <1>2 DEF EvidenceCurrent
<1> QED
  BY <1>1, <1>2 DEF Define

LEMMA CurrentNext == TypeOK /\ EvidenceCurrent /\ [Next]_vars => EvidenceCurrent'
<1> SUFFICES ASSUME TypeOK, EvidenceCurrent, [Next]_vars PROVE EvidenceCurrent'
  OBVIOUS
<1>1. CASE UNCHANGED vars
  BY <1>1 DEF vars, EvidenceCurrent
<1>2. ASSUME NEW w \in Worker, WorkerStep(w) PROVE EvidenceCurrent'
  <2>1. ASSUME UNCHANGED ev PROVE EvidenceCurrent'
    BY <2>1 DEF EvidenceCurrent
  <2>2. CASE (\E k \in Edits : Open(w, k)) \/ (\E s \in Step : Start(w, s))
             \/ Create(w) \/ AddNode(w) \/ Abandon(w)
    BY <2>1, <2>2 DEF Open, Start, Create, AddNode, Abandon
  <2>3. CASE Delete(w)
    <3>1. \A n \in NodeId, s \in Step : ev'[n][s] = NoEvidence
      BY <2>3 DEF Delete, Cleared
    <3> QED
      BY <3>1 DEF EvidenceCurrent, NoEvidence
  <2> QED
    BY <1>2, <2>2, <2>3, CurrentEdit, CurrentDefine, CurrentSave DEF WorkerStep
<1> QED
  BY <1>1, <1>2 DEF Next

(* Whatever requests overlap, no edit and no redefinition leaves evidence  *)
(* of the key, the controllers or the agents in place that it outdates.    *)
THEOREM CurrentSafe == Spec => []EvidenceCurrent
<1>1. Init => EvidenceCurrent
  BY DEF Init, EvidenceCurrent, NoEvidence
<1> QED
  BY <1>1, CurrentNext, TypeInit, TypeNext, PTL DEF Spec

-----------------------------------------------------------------------------
(* The order of the steps                                                  *)

(* A step works on nodes that have passed every step before it, as long as *)
(* the project is the one it has started in; the controllers are checked   *)
(* at any time.                                                            *)
Ready(r) ==
  /\ r.remote => r.kind \in {"step", "verify"}
  /\ r.kind = "verify" => r.step = "08a"
  /\ r.kind = "step" /\ ~r.gone =>
       \A n \in Rows(r.view) \ mistaken : Before(r.step) \subseteq passed[n]

PassRecorded ==
  \A n \in NodeId \ mistaken, s \in Step : ev[n][s].ok = "pass" => s \in passed[n]

OrderInv == PassRecorded /\ StepsInOrder /\ \A w \in Worker : Ready(run[w])

(* The gates reach back to the beginning of the chain.                     *)
LEMMA ChainOrder ==
  /\ Before("08a") = {}
  /\ \A s \in Steps : \A r \in Before(s) : r \in Needs(s) \/ \E q \in Needs(s) : r \in Before(q)
<1>1. /\ Chain[1] = "00a" /\ Chain[2] = "00b" /\ Chain[3] = "00c" /\ Chain[4] = "01"
      /\ Chain[5] = "02" /\ Chain[6] = "03" /\ Chain[7] = "04" /\ Chain[8] = "05"
      /\ Chain[9] = "06" /\ Chain[10] = "07"
  BY DEF Chain
<1>2. \A i \in 1 .. 10 : i = 1 \/ i = 2 \/ i = 3 \/ i = 4 \/ i = 5 \/ i = 6 \/ i = 7
                         \/ i = 8 \/ i = 9 \/ i = 10
  OBVIOUS
<1>3. \A s, r : r \in Before(s) <=>
        \E i, j \in 1 .. 10 : i < j /\ Chain[j] = s /\ r = Chain[i]
  BY DEF Before
<1>4. /\ \A s \in {"00a", "00k", "00kr", "08a", "08a-fa"} : Before(s) = {}
      /\ Before("00b") = {"00a"}
      /\ Before("00c") = {"00a", "00b"}
      /\ Before("01") = {"00a", "00b", "00c"}
      /\ Before("02") = {"00a", "00b", "00c", "01"}
      /\ Before("03") = {"00a", "00b", "00c", "01", "02"}
      /\ Before("04") = {"00a", "00b", "00c", "01", "02", "03"}
      /\ Before("05") = {"00a", "00b", "00c", "01", "02", "03", "04"}
      /\ Before("06") = {"00a", "00b", "00c", "01", "02", "03", "04", "05"}
      /\ Before("07") = {"00a", "00b", "00c", "01", "02", "03", "04", "05", "06"}
  BY <1>1, <1>2, <1>3, SMTT(60)
<1>5. \A s \in Steps : s \in {"00a", "00b", "00c", "01", "02", "03", "04", "05", "06", "07",
                              "00k", "00kr", "08a", "08a-fa"}
  BY <1>1, <1>2 DEF Steps, InChain
<1> QED
  BY <1>4, <1>5, SMTT(60) DEF Needs

(* Before a step starts, its gate looks at every node there is.            *)
LEMMA GateOrder ==
  ASSUME PassRecorded, StepsInOrder, NEW s \in Step, Gate(s), NEW n \in Nodes \ mistaken
  PROVE  Before(s) \subseteq passed[n]
<1> n \in NodeId \ mistaken
  BY DEF Nodes, Rows
<1>1. SUFFICES ASSUME NEW r \in Before(s) PROVE r \in passed[n]
  OBVIOUS
<1>2. s \in Steps /\ Needs(s) \subseteq Step
  BY RecordsAssumption DEF RecordsAssumption
<1>3. ASSUME NEW q \in Needs(s) PROVE ev[n][q].ok = "pass"
  BY DEF Gate, Complete
<1>4. CASE r \in Needs(s)
  BY <1>2, <1>3, <1>4 DEF PassRecorded
<1>5. CASE \E q \in Needs(s) : r \in Before(q)
  <2>1. PICK q \in Needs(s) : r \in Before(q)
    BY <1>5
  <2> QED
    BY <1>2, <1>3, <2>1 DEF StepsInOrder
<1> QED
  BY <1>2, <1>4, <1>5, ChainOrder

(* Evidence that is only deleted or marked stays in order, and so do the   *)
(* requests that have not begun in this step.                              *)
LEMMA NothingSavedKeeps ==
  ASSUME OrderInv, UNCHANGED history,
         \A n \in NodeId, s \in Step : ev'[n][s].ok \in {"none", ev[n][s].ok},
         \A w \in Worker :
           \/ Ready(run'[w])
           \/ /\ run'[w].kind = run[w].kind /\ run'[w].step = run[w].step
              /\ run'[w].view = run[w].view /\ run'[w].gone = run[w].gone
              /\ run'[w].remote => run[w].remote \/ run[w].kind = "verify"
  PROVE  OrderInv'
<1>1. PassRecorded' /\ StepsInOrder'
  BY DEF OrderInv, PassRecorded, StepsInOrder, history
<1>2. ASSUME NEW w \in Worker PROVE Ready(run[w])'
  <2>1. CASE Ready(run'[w])
    BY <2>1 DEF Ready, Rows, history
  <2>2. CASE /\ run'[w].kind = run[w].kind /\ run'[w].step = run[w].step
             /\ run'[w].view = run[w].view /\ run'[w].gone = run[w].gone
             /\ run'[w].remote => run[w].remote \/ run[w].kind = "verify"
    <3>1. Ready(run[w])
      BY DEF OrderInv
    <3> QED
      BY <2>2, <3>1 DEF Ready, Rows, history
  <2> QED
    BY <2>1, <2>2
<1> QED
  BY <1>1, <1>2 DEF OrderInv

LEMMA NoRequestReady == Ready(NoRequest)
  BY DEF Ready, NoRequest

LEMMA AgedOk ==
  ASSUME NEW e \in [NodeId -> [Step -> Evidence]], NEW S, NEW changes, NEW age,
         NEW n \in NodeId, NEW s \in Step
  PROVE  Aged(e, S, changes, age)[n][s].ok = e[n][s].ok
<1>1. e[n][s] \in Evidence
  OBVIOUS
<1> QED
  BY <1>1 DEF Aged, Evidence

LEMMA ClearedAgedOk ==
  ASSUME NEW e \in [NodeId -> [Step -> Evidence]], NEW S, NEW steps, NEW changes,
         NEW T, NEW n \in NodeId, NEW s \in Step
  PROVE  Aged(Cleared(e, S, steps), T, changes, "outdated")[n][s].ok \in {"none", e[n][s].ok}
<1>1. Cleared(e, S, steps)[n][s].ok \in {"none", e[n][s].ok}
  BY DEF Cleared, NoEvidence
<1> QED
  BY <1>1, ClearedTyped, AgedOk

LEMMA DoubtedKeeps ==
  ASSUME run \in [Worker -> Request], NEW w \in Worker, NEW r, NEW S, NEW changes
  PROVE  /\ Doubted(w, r, S, changes)[w] = r
         /\ \A v \in Worker \ {w} :
              LET d == Doubted(w, r, S, changes)[v] IN
              /\ d.kind = run[v].kind /\ d.remote = run[v].remote
              /\ d.step = run[v].step /\ d.view = run[v].view /\ d.gone = run[v].gone
<1>1. \A v \in Worker : run[v] \in Request
  OBVIOUS
<1> QED
  BY <1>1 DEF Doubted, Request

(* A result saved for a row that still has results of its own node only is *)
(* that of the node, which was ready for the step.                         *)
LEMMA SaveOrder ==
  ASSUME TypeOK, OrderInv, NEW w \in Worker, Save(w)
  PROVE  OrderInv'
<1>1. PICK kept \in BOOLEAN, tried \in Tried(w), good \in SUBSET Rows(run[w].view),
           moved \in SUBSET NodeId :
        /\ IF kept \/ exists
             THEN /\ ev' = Aged(Saved(w, kept, tried, good), moved, {"endpoint"}, "overtaken")
                  /\ Record(w, kept, tried, good)
             ELSE UNCHANGED <<ev, history>>
        /\ run' = Doubted(w, NoRequest, moved, {"endpoint"})
  BY DEF Save
<1>2. run \in [Worker -> Request] /\ ev \in [NodeId -> [Step -> Evidence]]
  BY DEF TypeOK
<1>3. /\ run'[w] = NoRequest
      /\ \A v \in Worker \ {w} :
           /\ run'[v].kind = run[v].kind /\ run'[v].remote = run[v].remote
           /\ run'[v].step = run[v].step /\ run'[v].view = run[v].view
           /\ run'[v].gone = run[v].gone
  BY <1>1, <1>2, DoubtedKeeps
<1>4. CASE UNCHANGED <<ev, history>>
  BY <1>3, <1>4, NoRequestReady, NothingSavedKeeps
<1>5. CASE /\ ev' = Aged(Saved(w, kept, tried, good), moved, {"endpoint"}, "overtaken")
           /\ Record(w, kept, tried, good)
  <2> DEFINE src(n) == Source(w, kept, tried, n)
             from(n) == From(w, kept, tried, n)
  <2>1. mistaken \subseteq mistaken'
    BY <1>5 DEF Record
  <2>2. \A n \in NodeId \ mistaken' : passed[n] \subseteq passed'[n]
    BY <1>5 DEF Record
  <2>3. ASSUME NEW n \in NodeId \ mistaken', from(n) # {}
        PROVE  /\ src(n) = n /\ ~run[w].gone /\ n \in Rows(run[w].view)
               /\ n \in good => run[w].step \in passed'[n]
    <3>1. src(n) \in from(n)
      BY <2>3 DEF Source
    <3>2. src(n) \in Rows(run[w].view)
      BY <3>1 DEF From, Tried
    <3>3. src(n) = n /\ ~run[w].gone
      BY <1>5, <2>3 DEF Record
    <3> QED
      BY <1>5, <2>3, <3>2, <3>3 DEF Record
  <2>4. ASSUME NEW n \in NodeId \ mistaken', NEW s \in Step
        PROVE  \/ ev'[n][s].ok = ev[n][s].ok
               \/ /\ s = run[w].step /\ ~run[w].gone /\ n \in Rows(run[w].view)
                  /\ ev'[n][s].ok = "pass" => s \in passed'[n]
    <3>1. ev'[n][s].ok = Saved(w, kept, tried, good)[n][s].ok
      BY <1>5, SavedTyped, AgedOk
    <3>2. ev[n] \in [Step -> Evidence]
      BY <1>2
    <3>3. CASE from(n) = {} \/ s # run[w].step
      <4>1. Saved(w, kept, tried, good)[n][s] = ev[n][s]
        BY <3>2, <3>3 DEF Saved
      <4> QED
        BY <3>1, <4>1
    <3>4. CASE from(n) # {} /\ s = run[w].step
      <4>1. Saved(w, kept, tried, good)[n][s] = Result(w, src(n), good)
        BY <3>2, <3>4 DEF Saved
      <4>2. ev'[n][s].ok = "pass" => src(n) \in good
        BY <3>1, <4>1 DEF Result
      <4> QED
        BY <2>3, <3>4, <4>2
    <3> QED
      BY <3>3, <3>4
  <2> HIDE DEF src, from
  <2>5. PassRecorded'
    BY <2>1, <2>2, <2>4 DEF OrderInv, PassRecorded
  <2>6. ASSUME NEW n \in NodeId \ mistaken', ~run[w].gone, n \in Rows(run[w].view)
        PROVE  Before(run[w].step) \subseteq passed[n]
    <3>1. run[w].remote /\ Ready(run[w])
      BY DEF Save, OrderInv
    <3> QED
      BY <2>1, <2>6, <3>1, ChainOrder DEF Ready
  <2>7. StepsInOrder'
    <3> SUFFICES ASSUME NEW n \in NodeId \ mistaken', NEW s \in Step, ev'[n][s].ok # "none"
                 PROVE  Before(s) \subseteq passed'[n]
      BY DEF StepsInOrder
    <3>1. CASE ev'[n][s].ok = ev[n][s].ok
      BY <2>1, <2>2, <3>1 DEF OrderInv, StepsInOrder
    <3>2. CASE s = run[w].step /\ ~run[w].gone /\ n \in Rows(run[w].view)
      BY <2>2, <2>6, <3>2
    <3> QED
      BY <2>4, <3>1, <3>2
  <2>8. ASSUME NEW v \in Worker PROVE Ready(run[v])'
    <3>1. CASE v = w
      BY <1>3, <3>1 DEF Ready, NoRequest
    <3>2. CASE v # w
      <4>1. Ready(run[v])
        BY DEF OrderInv
      <4>2. Rows(run'[v].view) \subseteq NodeId
        BY DEF Rows
      <4> QED
        BY <1>3, <2>1, <2>2, <3>2, <4>1, <4>2 DEF Ready, Rows
    <3> QED
      BY <3>1, <3>2
  <2> QED
    BY <2>5, <2>7, <2>8 DEF OrderInv
<1> QED
  BY <1>1, <1>4, <1>5

LEMMA DeleteOrder ==
  ASSUME TypeOK, OrderInv, NEW w \in Worker, Delete(w)
  PROVE  OrderInv'
<1>1. \A n \in NodeId, s \in Step : ev'[n][s] = NoEvidence
  BY DEF Delete, Cleared
<1>2. PassRecorded' /\ StepsInOrder'
  BY <1>1 DEF PassRecorded, StepsInOrder, NoEvidence
<1>3. ASSUME NEW v \in Worker PROVE Ready(run[v])'
  <2>1. Ready(run[v]) /\ run[v] \in Request
    BY DEF OrderInv, TypeOK
  <2>2. /\ run'[v].kind = run[v].kind /\ run'[v].remote = run[v].remote
        /\ run'[v].step = run[v].step
        /\ run[v].kind = "step" => run'[v].gone
    BY <2>1 DEF Delete, Request
  <2> QED
    BY <2>1, <2>2 DEF Ready
<1> QED
  BY <1>2, <1>3 DEF OrderInv

LEMMA EditOrder ==
  ASSUME TypeOK, OrderInv, NEW w \in Worker, EditNode(w)
  PROVE  OrderInv'
<1>1. PICK n \in NodeId, h \in Host, moved \in BOOLEAN,
           changes \in SUBSET {"hostname", "endpoint"} :
        /\ ev' = Aged(Cleared(ev, {n}, ClearedByEdit(h # run[w].view[n], moved)),
                      {n}, changes, "outdated")
        /\ run' = Doubted(w, NoRequest, {n}, changes)
  BY DEF EditNode, Nodes, Rows
<1>2. \A m \in NodeId, s \in Step : ev'[m][s].ok \in {"none", ev[m][s].ok}
  BY <1>1, ClearedAgedOk DEF TypeOK
<1>3. /\ run'[w] = NoRequest
      /\ \A v \in Worker \ {w} :
           /\ run'[v].kind = run[v].kind /\ run'[v].remote = run[v].remote
           /\ run'[v].step = run[v].step /\ run'[v].view = run[v].view
           /\ run'[v].gone = run[v].gone
  BY <1>1, DoubtedKeeps DEF TypeOK
<1> QED
  BY <1>2, <1>3, NoRequestReady, NothingSavedKeeps DEF EditNode

LEMMA DefineOrder ==
  ASSUME TypeOK, OrderInv, NEW w \in Worker, Define(w)
  PROVE  OrderInv'
<1> DEFINE next == IF run[w].kind = "verify" THEN [run[w] EXCEPT !.remote = TRUE]
                   ELSE NoRequest
<1>1. run \in [Worker -> Request] /\ run[w] \in Request
  BY DEF TypeOK
<1>2. \/ next = NoRequest
      \/ /\ next.kind = run[w].kind /\ next.step = run[w].step
         /\ next.view = run[w].view /\ next.gone = run[w].gone
         /\ run[w].kind = "verify"
  BY <1>1 DEF Request
<1> HIDE DEF next
<1>3. /\ run'[w] = next
      /\ \A v \in Worker \ {w} :
           /\ run'[v].kind = run[v].kind /\ run'[v].remote = run[v].remote
           /\ run'[v].step = run[v].step /\ run'[v].view = run[v].view
           /\ run'[v].gone = run[v].gone
  <2>1. CASE run' = Doubted(w, next, NodeId, {"profiles"})
    BY <1>1, <2>1, DoubtedKeeps
  <2>2. CASE Continue(w, next)
    BY <1>1, <2>2 DEF Continue
  <2> QED
    BY <2>1, <2>2 DEF Define, next
<1>4. \A n \in NodeId, s \in Step : ev'[n][s].ok \in {"none", ev[n][s].ok}
  <2>1. CASE ev' = Aged(Cleared(ev, NodeId, ClearedByProfiles), NodeId, {"profiles"}, "outdated")
    BY <2>1, ClearedAgedOk DEF TypeOK
  <2>2. CASE UNCHANGED ev
    BY <2>2
  <2> QED
    BY <2>1, <2>2 DEF Define
<1> QED
  BY <1>2, <1>3, <1>4, NoRequestReady, NothingSavedKeeps DEF Define

LEMMA OrderNext == TypeOK /\ OrderInv /\ [Next]_vars => OrderInv'
<1> SUFFICES ASSUME TypeOK, OrderInv, [Next]_vars PROVE OrderInv'
  OBVIOUS
<1>0. run \in [Worker -> Request]
  BY DEF TypeOK
<1>1. CASE UNCHANGED vars
  BY <1>1, NothingSavedKeeps DEF vars, history
<1>2. ASSUME NEW w \in Worker, WorkerStep(w) PROVE OrderInv'
  <2>1. ASSUME NEW r, Ready(r), Continue(w, r), UNCHANGED <<ev, history>>
        PROVE  OrderInv'
    <3>1. run'[w] = r /\ \A v \in Worker \ {w} : run'[v] = run[v]
      BY <1>0, <2>1 DEF Continue
    <3> QED
      BY <2>1, <3>1, NothingSavedKeeps
  <2>2. ASSUME NEW k \in Edits, Open(w, k) PROVE OrderInv'
    <3>1. Ready(Loaded(k, IF k = "verify" THEN "08a" ELSE "00a", FALSE))
      BY DEF Ready, Loaded, Edits
    <3> QED
      BY <2>1, <2>2, <3>1 DEF Open
  <2>3. ASSUME NEW s \in Step, Start(w, s) PROVE OrderInv'
    <3>1. \A n \in Nodes \ mistaken : Before(s) \subseteq passed[n]
      BY <2>3, GateOrder DEF Start, OrderInv
    <3>2. Ready(Loaded("step", s, TRUE))
      BY <3>1 DEF Ready, Loaded, Nodes
    <3> QED
      BY <2>1, <2>3, <3>2 DEF Start
  <2>4. CASE Create(w) \/ AddNode(w)
    BY <2>4, NothingSavedKeeps DEF Create, AddNode
  <2>5. CASE Abandon(w)
    BY <2>1, <2>5, NoRequestReady DEF Abandon
  <2> QED
    BY <1>2, <2>2, <2>3, <2>4, <2>5, EditOrder, DefineOrder, DeleteOrder, SaveOrder
       DEF WorkerStep
<1> QED
  BY <1>1, <1>2 DEF Next

LEMMA OrderInit == Init => OrderInv
<1> SUFFICES ASSUME Init PROVE OrderInv
  OBVIOUS
<1>1. PassRecorded /\ StepsInOrder
  BY DEF Init, PassRecorded, StepsInOrder, NoEvidence
<1>2. \A w \in Worker : Ready(run[w])
  BY NoRequestReady DEF Init
<1> QED
  BY <1>1, <1>2 DEF OrderInv

(* Evidence of a step exists only where every step before it in the chain  *)
(* has passed, whatever requests overlap, on every row that was given      *)
(* results of its own node only.                                           *)
THEOREM OrderSafe == Spec => []StepsInOrder
<1>1. OrderInv => StepsInOrder
  BY DEF OrderInv
<1> QED
  BY <1>1, OrderInit, OrderNext, TypeInit, TypeNext, PTL DEF Spec
=============================================================================
