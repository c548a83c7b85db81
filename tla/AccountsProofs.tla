--------------------------- MODULE AccountsProofs ---------------------------
(***************************************************************************)
(* Proofs about Accounts, for any accounts, browsers and workers and       *)
(* whatever requests overlap: type correctness; that a session opened with *)
(* the bootstrap password is admitted to nothing but its change; that an   *)
(* administrator remains until one who has lost the role changes accounts  *)
(* all the same; and that the bootstrap administrator is not inserted      *)
(* again, but for such a change or by a login page older than the first.   *)
(***************************************************************************)
EXTENDS Accounts, TLAPS

-----------------------------------------------------------------------------
(* Types                                                                   *)

LEMMA NoRequestTyped == NoRequest \in Request
<1>1. (CHOOSE b \in Browser : TRUE) \in Browser
  BY AccountsAssumption DEF AccountsAssumption
<1> QED
  BY <1>1 DEF NoRequest, Request, Kinds, AdminKinds, Roles

LEMMA TypeInit == Init => TypeOK
<1>1. [w \in Worker |-> NoRequest] \in [Worker -> Request]
  BY NoRequestTyped
<1>2. Root \in Account
  BY AccountsAssumption DEF AccountsAssumption
<1>3. ASSUME Init PROVE initial \in [Account -> BOOLEAN] /\ must \in [Account -> BOOLEAN]
  BY <1>3 DEF Init
<1>4. ASSUME Init
      PROVE  /\ role \in [Account -> Roles \cup {"absent"}]
             /\ cookie \in [Browser -> Account \cup {Nobody}]
             /\ founded \in BOOLEAN /\ crossed \in BOOLEAN
             /\ old \in SUBSET Browser
  BY <1>2, <1>4 DEF Init, Roles
<1> QED
  BY <1>1, <1>3, <1>4 DEF Init, TypeOK

(* Every step of a worker keeps the types.                                 *)
LEMMA TypeStep == ASSUME TypeOK, NEW w \in Worker, WorkerStep(w) PROVE TypeOK'
<1>0. /\ NoRequest \in Request
      /\ req[w] \in Request
      /\ \A r \in Request : Continue(w, r) => req' \in [Worker -> Request]
  BY NoRequestTyped DEF TypeOK, Continue
<1>1. ASSUME NEW b \in Browser, OpenLogin(w, b) PROVE TypeOK'
  <2>1. Empty \in BOOLEAN
    BY DEF Empty
  <2>2. [NoRequest EXCEPT !.kind = "login", !.browser = b, !.fresh = Empty] \in Request
    BY <1>0, <2>1 DEF Request, Kinds
  <2> QED
    BY <1>0, <1>1, <2>2 DEF OpenLogin, TypeOK, rows, history
<1>2. ASSUME NEW b \in Browser, NEW k \in Kinds, Enter(w, b, k) PROVE TypeOK'
  <2>1. /\ cookie[b] \in Account
        /\ must[cookie[b]] \in BOOLEAN
        /\ (k \in {"create", "password"}) \in BOOLEAN
    BY <1>2 DEF Enter, TypeOK
  <2>2. [NoRequest EXCEPT !.kind = k, !.by = cookie[b],
           !.ready = k \in {"create", "password"}, !.flag = must[cookie[b]]] \in Request
    BY <1>0, <2>1 DEF Request
  <2> QED
    BY <1>0, <1>2, <2>2 DEF Enter, TypeOK, rows, history
<1>3. CASE Found(w)
  <2>1. [req[w] EXCEPT !.fresh = FALSE, !.late = FALSE] \in Request
    BY <1>0 DEF Request
  <2>2. \A v \in Worker : [req[v] EXCEPT !.late = req[v].fresh] \in Request
    BY DEF TypeOK, Request
  <2>3. req' \in [Worker -> Request]
    BY <1>3, <2>1, <2>2 DEF Found
  <2> QED
    BY <1>3, <2>3 DEF Found, TypeOK, Roles
<1>4. CASE Authenticate(w)
  <2>1. PICK a \in Users :
          Continue(w, [req[w] EXCEPT !.ready = TRUE, !.target = a, !.flag = initial[a] /\ ~must[a]])
    BY <1>4 DEF Authenticate
  <2>2. a \in Account /\ (initial[a] /\ ~must[a]) \in BOOLEAN
    BY DEF Users
  <2>3. [req[w] EXCEPT !.ready = TRUE, !.target = a, !.flag = initial[a] /\ ~must[a]] \in Request
    BY <1>0, <2>2 DEF Request
  <2> QED
    BY <1>0, <1>4, <2>1, <2>3 DEF Authenticate, TypeOK, rows, history
<1>5. CASE SignIn(w)
  <2>1. req[w].browser \in Browser /\ req[w].target \in Account \cup {Nobody}
    BY <1>0 DEF Request
  <2>2. must' \in [Account -> BOOLEAN]
    BY <1>5 DEF SignIn, Mark, TypeOK
  <2> QED
    BY <1>0, <1>5, <2>1, <2>2 DEF SignIn, TypeOK
<1>6. CASE ChangePassword(w)
  <2>1. /\ initial' \in [Account -> BOOLEAN]
        /\ must' \in [Account -> BOOLEAN]
    BY <1>6 DEF ChangePassword, TypeOK
  <2> QED
    BY <1>0, <1>6, <2>1 DEF ChangePassword, TypeOK, history
<1>7. CASE Check(w)
  <2>1. PICK t \in Users, r \in Roles :
          Continue(w, [req[w] EXCEPT !.ready = TRUE, !.target = t, !.form = r,
                         !.seen = IF t = req[w].by THEN "administrator" ELSE role[t]])
    BY <1>7 DEF Check
  <2>2. t \in Account /\ role[t] \in Roles /\ "administrator" \in Roles
    BY DEF Users, TypeOK, Roles
  <2>3. [req[w] EXCEPT !.ready = TRUE, !.target = t, !.form = r,
           !.seen = IF t = req[w].by THEN "administrator" ELSE role[t]] \in Request
    BY <1>0, <2>2 DEF Request
  <2> QED
    BY <1>0, <1>7, <2>1, <2>3 DEF Check, TypeOK, rows, history
<1>8. CASE AccountChange(w)
  <2>1. /\ role' \in [Account -> Roles \cup {"absent"}]
        /\ initial' \in [Account -> BOOLEAN] /\ must' \in [Account -> BOOLEAN]
    <3>1. CASE CreateUser(w)
      BY <3>1 DEF CreateUser, TypeOK
    <3>2. CASE UpdateUser(w)
      <4>1. req[w].form \in Roles
        BY <1>0 DEF Request
      <4>2. role' \in [Account -> Roles \cup {"absent"}]
        BY <3>2, <4>1 DEF UpdateUser, TypeOK
      <4>3. initial' \in [Account -> BOOLEAN]
        BY <3>2 DEF UpdateUser, TypeOK
      <4> QED
        BY <3>2, <4>2, <4>3 DEF UpdateUser, TypeOK
    <3>3. CASE DeleteUser(w)
      BY <3>3 DEF DeleteUser, TypeOK
    <3> QED
      BY <1>8, <3>1, <3>2, <3>3 DEF AccountChange
  <2>2. req' \in [Worker -> Request] /\ crossed' \in BOOLEAN
    BY <1>0, <1>8 DEF AccountChange, TypeOK
  <2>3. UNCHANGED <<cookie, founded, old>>
    BY <1>8 DEF AccountChange
  <2> QED
    BY <2>1, <2>2, <2>3 DEF TypeOK
<1>9. CASE Abandon(w)
  BY <1>0, <1>9 DEF Abandon, TypeOK, rows, history
<1> QED
  BY <1>1, <1>2, <1>3, <1>4, <1>5, <1>6, <1>7, <1>8, <1>9
  DEF WorkerStep

LEMMA TypeNext == TypeOK /\ [Next]_vars => TypeOK'
<1> SUFFICES ASSUME TypeOK, [Next]_vars PROVE TypeOK'
  OBVIOUS
<1>1. CASE UNCHANGED vars
  BY <1>1 DEF vars, rows, history, TypeOK
<1>2. ASSUME NEW b \in Browser, SignOut(b) PROVE TypeOK'
  BY <1>2 DEF SignOut, TypeOK, rows, history
<1> QED
  BY <1>1, <1>2, TypeStep DEF Next

(* The rows, sessions and requests have the declared shapes, for any       *)
(* workers, browsers and accounts, also when administrators overlap.       *)
THEOREM TypeCorrect == Spec => []TypeOK
  BY TypeInit, TypeNext, PTL DEF Spec

-----------------------------------------------------------------------------
(* The bootstrap password                                                  *)

Marked(a) == initial[a] => must[a]

InitialInv ==
  /\ TypeOK
  /\ \A b \in Browser \ old : cookie[b] \in Account => Marked(cookie[b])
  /\ \A w \in Worker : Ready(w, "login") =>
       /\ req[w].target \in Account
       /\ req[w].flag \/ Marked(req[w].target)

(* Whoever writes to an account, it does not get the bootstrap password    *)
(* without the mark, nor loses the mark while it has that password.        *)
LEMMA MarkedStable ==
  ASSUME TypeOK, NEW w \in Worker, WorkerStep(w), NEW a \in Account, Marked(a)
  PROVE  Marked(a)'
<1>0. must[a] \in BOOLEAN /\ initial[a] \in BOOLEAN
  BY DEF TypeOK
<1>1. CASE UNCHANGED <<initial, must>>
  BY <1>1 DEF Marked
<1>2. CASE Found(w)
  BY <1>2, AccountsAssumption DEF Found, Marked, TypeOK, AccountsAssumption
<1>3. CASE SignIn(w)
  BY <1>3 DEF SignIn, Mark, Marked, TypeOK
<1>4. CASE ChangePassword(w)
  BY <1>4 DEF ChangePassword, Marked, TypeOK
<1>5. CASE UpdateUser(w)
  BY <1>5 DEF UpdateUser, Marked, TypeOK
<1>6. CASE DeleteUser(w)
  BY <1>6 DEF DeleteUser, Marked, TypeOK
<1>7. CASE CreateUser(w)
  BY <1>1, <1>7 DEF CreateUser
<1> QED
  BY <1>1, <1>2, <1>3, <1>4, <1>5, <1>6, <1>7
  DEF WorkerStep, AccountChange, OpenLogin, Enter, Authenticate, Check, Abandon, rows

LEMMA InitialStep ==
  ASSUME InitialInv, NEW w \in Worker, WorkerStep(w)
  PROVE  InitialInv'
<1>0. TypeOK /\ TypeOK' /\ req[w] \in Request
  BY TypeStep DEF InitialInv, TypeOK
<1>1. ASSUME cookie' = cookie, old' = old,
             NEW r, Continue(w, r),
             r.kind = "login" /\ r.ready =>
               r.target \in Account /\ (r.flag \/ Marked(r.target))
      PROVE  InitialInv'
  <2>1. req'[w] = r /\ \A v \in Worker \ {w} : req'[v] = req[v]
    BY <1>0, <1>1 DEF Continue, TypeOK
  <2>2. \A b \in Browser \ old : cookie[b] \in Account => Marked(cookie[b])'
    BY <1>0, <1>1, MarkedStable DEF InitialInv
  <2>3. \A b \in Browser \ old' : cookie'[b] \in Account => (initial'[cookie'[b]] => must'[cookie'[b]])
    BY <1>1, <2>2 DEF Marked
  <2>4. ASSUME NEW v \in Worker, req'[v].kind = "login" /\ req'[v].ready
        PROVE  /\ req'[v].target \in Account
               /\ req'[v].flag \/ (initial'[req'[v].target] => must'[req'[v].target])
    <3>1. req'[v].target \in Account /\ (req'[v].flag \/ Marked(req'[v].target))
      BY <1>1, <2>1, <2>4 DEF InitialInv, Ready
    <3>2. CASE req'[v].flag
      BY <3>1, <3>2
    <3>3. CASE Marked(req'[v].target)
      <4> DEFINE a == req'[v].target
      <4>1. a \in Account /\ Marked(a)
        BY <3>1, <3>3
      <4> HIDE DEF a
      <4>2. initial'[a] => must'[a]
        BY <1>0, <4>1, MarkedStable DEF Marked
      <4> QED
        BY <3>1, <4>2 DEF a
    <3> QED
      BY <3>1, <3>2, <3>3
  <2> QED
    BY <1>0, <2>3, <2>4 DEF InitialInv, Marked, Ready
<1>2. CASE SignIn(w)
  <2> DEFINE a == req[w].target
             c == req[w].browser
  <2>1. a \in Account /\ c \in Browser /\ (req[w].flag \/ Marked(a))
    BY <1>0, <1>2 DEF SignIn, InitialInv, Ready, Request
  <2>2. cookie' = [cookie EXCEPT ![c] = a] /\ old' = old \ {c}
    BY <1>2 DEF SignIn
  <2>3. initial' = initial /\ must' = Mark(a, req[w].flag)
    BY <1>2 DEF SignIn
  <2> HIDE DEF a, c
  <2>4. initial'[a] => must'[a]
    BY <1>0, <2>1, <2>3 DEF Mark, Marked, TypeOK
  <2>5. \A d \in Account : (initial[d] => must[d]) => (initial'[d] => must'[d])
    BY <1>0, MarkedStable DEF Marked
  <2>6. \A b \in Browser \ old' : cookie'[b] \in Account => (initial'[cookie'[b]] => must'[cookie'[b]])
    <3> SUFFICES ASSUME NEW b \in Browser \ old', cookie'[b] \in Account
                 PROVE  initial'[cookie'[b]] => must'[cookie'[b]]
      OBVIOUS
    <3>1. CASE b = c
      BY <1>0, <2>1, <2>2, <2>4, <3>1 DEF TypeOK
    <3>2. CASE b # c
      BY <1>0, <2>2, <2>5, <3>2 DEF TypeOK, InitialInv, Marked
    <3> QED
      BY <3>1, <3>2
  <2>7. req'[w] = NoRequest /\ \A v \in Worker \ {w} : req'[v] = req[v]
    BY <1>0, <1>2 DEF SignIn, Continue, TypeOK
  <2>8. \A v \in Worker : req'[v].kind = "login" /\ req'[v].ready =>
          /\ req'[v].target \in Account
          /\ req'[v].flag \/ (initial'[req'[v].target] => must'[req'[v].target])
    BY <2>5, <2>7 DEF InitialInv, Marked, Ready, NoRequest
  <2> QED
    BY <1>0, <2>6, <2>8 DEF InitialInv, Marked, Ready
<1>3. NoRequest.kind # "login"
  BY DEF NoRequest
<1>4. ASSUME NEW b \in Browser, OpenLogin(w, b) PROVE InitialInv'
  <2> DEFINE r == [NoRequest EXCEPT !.kind = "login", !.browser = b, !.fresh = Empty]
  <2>1. Continue(w, r) /\ ~r.ready /\ cookie' = cookie /\ old' = old
    BY <1>4 DEF OpenLogin, NoRequest, history
  <2> HIDE DEF r
  <2> QED
    BY <1>1, <2>1
<1>5. ASSUME NEW b \in Browser, NEW k \in Kinds, Enter(w, b, k) PROVE InitialInv'
  <2> DEFINE r == [NoRequest EXCEPT !.kind = k, !.by = cookie[b],
                     !.ready = k \in {"create", "password"}, !.flag = must[cookie[b]]]
  <2>1. Continue(w, r) /\ r.kind # "login" /\ cookie' = cookie /\ old' = old
    BY <1>5 DEF Enter, NoRequest, history, AdminKinds
  <2> HIDE DEF r
  <2> QED
    BY <1>1, <2>1
<1>6. CASE Found(w)
  <2>1. ASSUME NEW v \in Worker
        PROVE  /\ req'[v].kind = req[v].kind /\ req'[v].ready = req[v].ready
               /\ req'[v].target = req[v].target /\ req'[v].flag = req[v].flag
    <3>1. req[v] \in Request
      BY <1>0 DEF TypeOK
    <3>2. req'[v] = IF v = w THEN [req[w] EXCEPT !.fresh = FALSE, !.late = FALSE]
                    ELSE [req[v] EXCEPT !.late = req[v].fresh]
      BY <1>6 DEF Found
    <3> QED
      BY <3>1, <3>2 DEF Request
  <2>2. cookie' = cookie /\ old' = old
    BY <1>6 DEF Found
  <2>3. \A a \in Account : (initial[a] => must[a]) => (initial'[a] => must'[a])
    BY <1>0, MarkedStable DEF Marked
  <2>4. \A b \in Browser \ old' :
          cookie'[b] \in Account => (initial'[cookie'[b]] => must'[cookie'[b]])
    BY <2>2, <2>3 DEF InitialInv, Marked
  <2>5. \A v \in Worker : req'[v].kind = "login" /\ req'[v].ready =>
          /\ req'[v].target \in Account
          /\ req'[v].flag \/ (initial'[req'[v].target] => must'[req'[v].target])
    BY <2>1, <2>3 DEF InitialInv, Marked, Ready
  <2> QED
    BY <1>0, <2>4, <2>5 DEF InitialInv, Marked, Ready
<1>7. CASE Authenticate(w)
  <2>1. PICK a \in Users :
          Continue(w, [req[w] EXCEPT !.ready = TRUE, !.target = a, !.flag = initial[a] /\ ~must[a]])
    BY <1>7 DEF Authenticate
  <2> DEFINE flag == initial[a] /\ ~must[a]
             r == [req[w] EXCEPT !.ready = TRUE, !.target = a, !.flag = flag]
  <2>2. a \in Account /\ (flag \/ Marked(a)) /\ Continue(w, r)
    BY <2>1 DEF Users, Marked
  <2> HIDE DEF flag
  <2>3. r.target = a /\ r.flag = flag
    BY <1>0 DEF Request
  <2>4. cookie' = cookie /\ old' = old
    BY <1>7 DEF Authenticate, history
  <2> HIDE DEF r
  <2>5. r.target \in Account /\ (r.flag \/ Marked(r.target))
    BY <2>2, <2>3
  <2> QED
    BY <1>1, <2>2, <2>4, <2>5
<1>8. CASE Check(w)
  <2>1. PICK t \in Users, f \in Roles :
          Continue(w, [req[w] EXCEPT !.ready = TRUE, !.target = t, !.form = f,
                         !.seen = IF t = req[w].by THEN "administrator" ELSE role[t]])
    BY <1>8 DEF Check
  <2> DEFINE r == [req[w] EXCEPT !.ready = TRUE, !.target = t, !.form = f,
                     !.seen = IF t = req[w].by THEN "administrator" ELSE role[t]]
  <2>2. Continue(w, r) /\ r.kind # "login" /\ cookie' = cookie /\ old' = old
    BY <1>0, <1>8, <2>1 DEF Check, history, Request
  <2> HIDE DEF r
  <2> QED
    BY <1>1, <2>2
<1>9. CASE ChangePassword(w) \/ AccountChange(w) \/ Abandon(w)
  <2>1. Continue(w, NoRequest) /\ cookie' = cookie /\ old' = old
    BY <1>9 DEF ChangePassword, AccountChange, Abandon, history
  <2> QED
    BY <1>1, <1>3, <2>1
<1> QED
  BY <1>2, <1>4, <1>5, <1>6, <1>7, <1>8, <1>9 DEF WorkerStep

LEMMA InitialInit == Init => InitialInv
<1> SUFFICES ASSUME Init PROVE InitialInv
  OBVIOUS
<1>1. \A b \in Browser \ old : cookie[b] = Nobody
  BY DEF Init
<1>2. \A w \in Worker : req[w].kind = "none"
  BY DEF Init, NoRequest
<1> QED
  BY <1>1, <1>2, TypeInit, AccountsAssumption DEF InitialInv, Ready, AccountsAssumption

LEMMA InitialNext == InitialInv /\ [Next]_vars => InitialInv'
<1> SUFFICES ASSUME InitialInv, [Next]_vars PROVE InitialInv'
  OBVIOUS
<1>0. TypeOK'
  BY TypeNext DEF InitialInv
<1>1. CASE UNCHANGED vars
  BY <1>0, <1>1 DEF vars, rows, history, InitialInv, Marked, Ready
<1>2. ASSUME NEW c \in Browser, SignOut(c) PROVE InitialInv'
  <2>1. \A b \in Browser : cookie'[b] \in Account => cookie'[b] = cookie[b]
    BY <1>2, AccountsAssumption DEF SignOut, InitialInv, TypeOK, AccountsAssumption
  <2>2. UNCHANGED <<role, initial, must, req, old>>
    BY <1>2 DEF SignOut, rows, history
  <2> QED
    BY <1>0, <2>1, <2>2 DEF InitialInv, Marked, Ready
<1> QED
  BY <1>1, <1>2, InitialStep DEF Next

(* For any number of overlapping requests, a session opened with the       *)
(* bootstrap password is admitted to nothing but the change of it, unless  *)
(* the session is older than the column that says so.                      *)
THEOREM InitialSafe == Spec => []InitialBlocked
<1>1. InitialInv => InitialBlocked
  <2> SUFFICES ASSUME InitialInv, NEW b \in Browser \ old, NEW k \in AdminKinds,
                      cookie[b] \in Account, initial[cookie[b]]
               PROVE  ~Admitted(cookie[b], k)
    BY DEF InitialBlocked
  <2>1. must[cookie[b]] /\ k # "password"
    BY DEF InitialInv, Marked, AdminKinds
  <2> QED
    BY <2>1 DEF Admitted
<1> QED
  BY <1>1, InitialInit, InitialNext, PTL DEF Spec

-----------------------------------------------------------------------------
(* Administrators, and the first one                                       *)

Changing(w) == req[w].kind \in AdminKinds
Fresh(w) == req[w].kind = "login" /\ req[w].fresh

(* A request that changes accounts does not demote or delete its own.      *)
Changer(w) ==
  Changing(w) =>
    /\ founded
    /\ req[w].by \in Account
    /\ req[w].ready /\ req[w].kind = "update" /\ req[w].target = req[w].by =>
         req[w].form = req[w].seen
    /\ req[w].ready /\ req[w].kind = "delete" => req[w].target # req[w].by

(* A login page that found no account has been overtaken if there was one. *)
First(w) == Fresh(w) /\ founded => req[w].late \/ crossed

AdminInv ==
  /\ TypeOK
  /\ Users # {} => founded
  /\ AdminRemains
  /\ \A w \in Worker : Changer(w) /\ First(w)

(* A step that leaves the roles alone keeps the invariant if the request   *)
(* that it leaves behind is in order.                                      *)
LEMMA AdminContinues ==
  ASSUME AdminInv, NEW w \in Worker, WorkerStep(w), UNCHANGED <<role, founded, crossed>>,
         NEW r, Continue(w, r),
         r.kind \in AdminKinds =>
           /\ founded /\ r.by \in Account
           /\ r.ready /\ r.kind = "update" /\ r.target = r.by => r.form = r.seen
           /\ r.ready /\ r.kind = "delete" => r.target # r.by,
         r.kind = "login" /\ r.fresh => Users = {}
  PROVE  AdminInv'
<1>0. TypeOK /\ TypeOK'
  BY TypeStep DEF AdminInv
<1>1. req'[w] = r /\ \A v \in Worker \ {w} : req'[v] = req[v]
  BY <1>0 DEF Continue, TypeOK
<1>2. Users' = Users /\ Administrators' = Administrators
  BY DEF Users, Administrators
<1>3. Users = {} => ~founded \/ crossed
  <2>1. \A a \in Account : role[a] = "administrator" => a \in Users
    BY DEF Users
  <2> QED
    BY <2>1 DEF AdminInv, AdminRemains, Administrators
<1>4. ASSUME NEW v \in Worker PROVE Changer(v)' /\ First(v)'
  <2>1. CASE v = w
    BY <1>1, <1>3, <2>1 DEF Changer, Changing, First, Fresh
  <2>2. CASE v # w
    <3>1. Changer(v) /\ First(v)
      BY DEF AdminInv
    <3> QED
      BY <1>1, <2>2, <3>1 DEF Changer, Changing, First, Fresh
  <2> QED
    BY <2>1, <2>2
<1> QED
  BY <1>0, <1>2, <1>4 DEF AdminInv, AdminRemains

(* A change of accounts leaves its own account an administrator if it is   *)
(* still one, and ends.                                                    *)
LEMMA AdminChange ==
  ASSUME AdminInv, NEW w \in Worker, AccountChange(w)
  PROVE  AdminInv'
<1>0. TypeOK /\ TypeOK' /\ req[w] \in Request
  <2>1. WorkerStep(w)
    BY DEF WorkerStep
  <2> QED
    BY <2>1, TypeStep DEF AdminInv, TypeOK
<1> DEFINE by == req[w].by
<1>1. Changing(w) /\ Changer(w) /\ by \in Account /\ founded
  <2>1. Changing(w) /\ Changer(w)
    BY DEF AdminInv, AccountChange, CreateUser, UpdateUser, DeleteUser, Ready, Changing, AdminKinds
  <2> QED
    BY <2>1 DEF Changer
<1>2. founded' = founded /\ crossed' = (crossed \/ role[by] # "administrator")
  BY DEF AccountChange
<1>3. req'[w] = NoRequest /\ \A v \in Worker \ {w} : req'[v] = req[v]
  BY <1>0 DEF AccountChange, Continue, TypeOK
<1>4. role[by] = "administrator" => role'[by] = "administrator"
  <2> SUFFICES ASSUME role[by] = "administrator" PROVE role'[by] = "administrator"
    OBVIOUS
  <2>1. CASE CreateUser(w)
    <3>1. PICK a \in Account \ Users, r \in Roles : role' = [role EXCEPT ![a] = r]
      BY <2>1 DEF CreateUser
    <3>2. a # by
      BY <1>1 DEF Users
    <3> QED
      BY <1>0, <1>1, <3>1, <3>2 DEF TypeOK
  <2>2. CASE UpdateUser(w)
    BY <1>0, <1>1, <2>2 DEF UpdateUser, Ready, Changer, TypeOK
  <2>3. CASE DeleteUser(w)
    BY <1>0, <1>1, <2>3 DEF DeleteUser, Ready, Changer, TypeOK
  <2> QED
    BY <2>1, <2>2, <2>3 DEF AccountChange
<1>5. AdminRemains'
  BY <1>1, <1>2, <1>4 DEF AdminRemains, Administrators
<1>6. ASSUME NEW v \in Worker PROVE Changer(v)' /\ First(v)'
  <2>1. CASE v = w
    BY <1>3, <2>1 DEF Changer, Changing, First, Fresh, NoRequest, AdminKinds
  <2>2. CASE v # w
    <3>1. Changer(v) /\ First(v)
      BY DEF AdminInv
    <3> QED
      BY <1>2, <1>3, <2>2, <3>1 DEF Changer, Changing, First, Fresh
  <2> QED
    BY <2>1, <2>2
<1> QED
  BY <1>0, <1>1, <1>2, <1>5, <1>6 DEF AdminInv

(* Inserting the bootstrap administrator overtakes the other login pages.  *)
LEMMA AdminFound ==
  ASSUME AdminInv, NEW w \in Worker, Found(w)
  PROVE  AdminInv' /\ (~founded \/ req[w].late \/ crossed)
<1>0. TypeOK /\ TypeOK' /\ req[w] \in Request /\ Root \in Account
  <2>1. WorkerStep(w)
    BY DEF WorkerStep
  <2> QED
    BY <2>1, TypeStep, AccountsAssumption DEF AdminInv, TypeOK, AccountsAssumption
<1>1. ~founded \/ req[w].late \/ crossed
  BY DEF Found, Fresh, AdminInv, First
<1>2. role'[Root] = "administrator" /\ founded' /\ crossed' = crossed
  BY <1>0 DEF Found, TypeOK
<1>3. Root \in Administrators'
  BY <1>0, <1>2 DEF Administrators
<1>4. ASSUME NEW v \in Worker PROVE Changer(v)' /\ First(v)'
  <2>1. req[v] \in Request
    BY <1>0 DEF TypeOK
  <2>2. req'[v] = IF v = w THEN [req[w] EXCEPT !.fresh = FALSE, !.late = FALSE]
                  ELSE [req[v] EXCEPT !.late = req[v].fresh]
    BY DEF Found
  <2>3. /\ req'[v].kind = req[v].kind /\ req'[v].by = req[v].by
        /\ req'[v].ready = req[v].ready /\ req'[v].target = req[v].target
        /\ req'[v].form = req[v].form /\ req'[v].seen = req[v].seen
        /\ req'[v].fresh => req'[v].late
    BY <2>1, <2>2 DEF Request
  <2>4. Changer(v)
    BY DEF AdminInv
  <2> QED
    BY <1>2, <2>3, <2>4 DEF Changer, Changing, First, Fresh
<1> QED
  BY <1>0, <1>1, <1>2, <1>3, <1>4 DEF AdminInv, AdminRemains

LEMMA AdminInit == Init => AdminInv
<1> SUFFICES ASSUME Init PROVE AdminInv
  OBVIOUS
<1>1. \A w \in Worker : ~Changing(w) /\ ~Fresh(w)
  BY DEF Init, NoRequest, Changing, Fresh, AdminKinds
<1>2. CASE founded
  <2>1. Root \in Administrators
    BY <1>2, AccountsAssumption DEF Init, Administrators, AccountsAssumption
  <2> QED
    BY <1>1, <1>2, <2>1, TypeInit DEF AdminInv, AdminRemains, Changer, First
<1>3. CASE ~founded
  <2>1. Users = {}
    BY <1>3 DEF Init, Users
  <2> QED
    BY <1>1, <1>3, <2>1, TypeInit DEF AdminInv, AdminRemains, Changer, First
<1> QED
  BY <1>2, <1>3

LEMMA AdminStep ==
  ASSUME AdminInv, NEW w \in Worker, WorkerStep(w)
  PROVE  AdminInv'
<1>0. TypeOK /\ req[w] \in Request
  BY DEF AdminInv, TypeOK
<1>1. NoRequest.kind \notin AdminKinds /\ NoRequest.kind # "login" /\ ~NoRequest.fresh
  BY DEF NoRequest, AdminKinds
<1>2. ASSUME NEW b \in Browser, OpenLogin(w, b) PROVE AdminInv'
  <2> DEFINE r == [NoRequest EXCEPT !.kind = "login", !.browser = b, !.fresh = Empty]
  <2>1. /\ UNCHANGED <<role, founded, crossed>> /\ Continue(w, r)
        /\ r.kind \notin AdminKinds
        /\ r.fresh => Users = {}
    BY <1>2 DEF OpenLogin, NoRequest, AdminKinds, Empty, rows, history
  <2> HIDE DEF r
  <2> QED
    BY <2>1, AdminContinues
<1>3. ASSUME NEW b \in Browser, NEW k \in Kinds, Enter(w, b, k) PROVE AdminInv'
  <2> DEFINE r == [NoRequest EXCEPT !.kind = k, !.by = cookie[b],
                     !.ready = k \in {"create", "password"}, !.flag = must[cookie[b]]]
  <2>1. UNCHANGED <<role, founded, crossed>> /\ Continue(w, r)
    BY <1>3 DEF Enter, rows, history
  <2>2. /\ r.kind = k /\ r.by = cookie[b] /\ r.ready = (k \in {"create", "password"})
        /\ ~r.fresh
    BY DEF NoRequest
  <2>3. cookie[b] \in Account /\ role[cookie[b]] # "absent"
    BY <1>3 DEF Enter, Admitted
  <2>4. founded
    BY <2>3 DEF AdminInv, Users
  <2> HIDE DEF r
  <2> QED
    BY <2>1, <2>2, <2>3, <2>4, AdminContinues
<1>4. CASE Authenticate(w)
  <2>1. PICK a \in Users :
          Continue(w, [req[w] EXCEPT !.ready = TRUE, !.target = a, !.flag = initial[a] /\ ~must[a]])
    BY <1>4 DEF Authenticate
  <2> DEFINE r == [req[w] EXCEPT !.ready = TRUE, !.target = a, !.flag = initial[a] /\ ~must[a]]
  <2>2. UNCHANGED <<role, founded, crossed>> /\ Continue(w, r)
    BY <1>4, <2>1 DEF Authenticate, rows, history
  <2>3. r.kind = "login" /\ ~r.fresh
    BY <1>0, <1>4 DEF Authenticate, Request
  <2> HIDE DEF r
  <2> QED
    BY <2>2, <2>3, AdminContinues DEF AdminKinds
<1>5. CASE Check(w)
  <2>1. PICK t \in Users, f \in Roles :
          /\ IF req[w].kind = "update" THEN MayUpdate(req[w].by, t, f)
             ELSE MayDelete(req[w].by, t) /\ f = "user"
          /\ Continue(w, [req[w] EXCEPT !.ready = TRUE, !.target = t, !.form = f,
                            !.seen = IF t = req[w].by THEN "administrator" ELSE role[t]])
    BY <1>5 DEF Check
  <2> DEFINE seen == IF t = req[w].by THEN "administrator" ELSE role[t]
             r == [req[w] EXCEPT !.ready = TRUE, !.target = t, !.form = f, !.seen = seen]
  <2>2. UNCHANGED <<role, founded, crossed>> /\ Continue(w, r)
    BY <1>5, <2>1 DEF Check, rows, history
  <2>3. /\ r.kind = req[w].kind /\ r.by = req[w].by
        /\ r.target = t /\ r.form = f /\ r.seen = seen
    BY <1>0 DEF Request
  <2>4. Changing(w) /\ Changer(w) /\ req[w].kind # "login"
    BY <1>5 DEF Check, Changing, AdminKinds, AdminInv
  <2>5. r.kind = "update" /\ r.target = r.by => r.form = r.seen
    BY <2>1, <2>3 DEF MayUpdate
  <2>6. r.kind = "delete" => r.target # r.by
    BY <2>1, <2>3 DEF MayDelete
  <2> HIDE DEF r
  <2> QED
    BY <2>2, <2>3, <2>4, <2>5, <2>6, AdminContinues DEF Changer
<1>6. CASE SignIn(w) \/ ChangePassword(w) \/ Abandon(w)
  <2>1. UNCHANGED <<role, founded, crossed>> /\ Continue(w, NoRequest)
    BY <1>6 DEF SignIn, ChangePassword, Abandon, rows, history
  <2> QED
    BY <1>1, <2>1, AdminContinues
<1> QED
  BY <1>2, <1>3, <1>4, <1>5, <1>6, AdminFound, AdminChange DEF WorkerStep

LEMMA AdminNext == AdminInv /\ [Next]_vars => AdminInv'
<1> SUFFICES ASSUME AdminInv, [Next]_vars PROVE AdminInv'
  OBVIOUS
<1>1. CASE UNCHANGED vars \/ \E b \in Browser : SignOut(b)
  <2>1. TypeOK' /\ UNCHANGED <<role, req, founded, crossed>>
    BY <1>1, TypeNext DEF AdminInv, vars, rows, history, SignOut
  <2>2. Users' = Users /\ Administrators' = Administrators
    BY <2>1 DEF Users, Administrators
  <2> QED
    BY <2>1, <2>2 DEF AdminInv, AdminRemains, Changer, First, Changing, Fresh
<1> QED
  BY <1>1, AdminStep DEF Next

(* Somebody who can manage accounts remains, whatever requests overlap,    *)
(* until an administrator demoted or deleted meanwhile changes accounts:   *)
(* nobody can demote or delete himself, so the check on the last           *)
(* administrator is not even needed.                                       *)
THEOREM AdminSafe == Spec => []AdminRemains
<1>1. AdminInv => AdminRemains
  BY DEF AdminInv
<1> QED
  BY <1>1, AdminInit, AdminNext, PTL DEF Spec

(* The bootstrap administrator is inserted again only by a login page that *)
(* is older than the first account, or after such a change.                *)
THEOREM BootstrapSafe == Spec => BootstrapOnce
<1>1. AdminInv => \A w \in Worker : Found(w) => ~founded \/ req[w].late \/ crossed
  BY AdminFound
<1> QED
  BY <1>1, AdminInit, AdminNext, PTL DEF Spec, BootstrapOnce

=============================================================================
