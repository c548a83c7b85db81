------------------------------ MODULE Accounts ------------------------------
(***************************************************************************)
(* The user accounts, the sessions of browsers, and the requests that      *)
(* change them.  A request reads the rows it needs when it begins and      *)
(* while it checks them, and writes them when it commits; SQLite does not  *)
(* hold a lock in between, so another worker process may commit meanwhile. *)
(*                                                                         *)
(* Passwords are kept as one bit: whether an account still has the         *)
(* bootstrap password ("changeme"), which no form accepts as a new one     *)
(* (12 characters at least).  Nobody is locked out of an account here:     *)
(* who signs in knows the password that the row has.                       *)
(*                                                                         *)
(* Source: web/routes/auth.py, web/routes/settings.py, and require_login   *)
(* in web/__init__.py.                                                     *)
(***************************************************************************)
EXTENDS FiniteSets, Naturals

CONSTANTS
  Worker,   \* worker processes
  Browser,  \* browsers, each with its session cookie
  Account,  \* rows of the users table (an id may be given out again)
  Root,     \* the account of LOGIN_USERNAME
  Nobody    \* no account

ASSUME AccountsAssumption ==
  /\ Root \in Account
  /\ Nobody \notin Account
  /\ Browser # {}

Roles == {"user", "clusteradmin", "administrator"}
AdminKinds == {"create", "update", "delete"}
Kinds == {"none", "login", "password"} \cup AdminKinds

VARIABLES
  role,     \* role[a], or "absent" when there is no such row
  initial,  \* initial[a]: its password is the bootstrap password
  must,     \* must[a]: must_change_password
  cookie,   \* cookie[b]: the account whose session browser b has
  req,      \* req[w]: the request worker w serves
  founded,  \* history: the users table has had a row
  crossed,  \* history: accounts were changed by one that had lost the role of
            \* administrator since its request was admitted
  old       \* history: browsers whose session predates must_change_password

rows == <<role, initial, must>>
history == <<founded, crossed, old>>
vars == <<rows, cookie, req, history>>

(* browser: of a login; by: g.current_user; target, seen and flag: the row *)
(* the handler has loaded, its role and its must_change_password; fresh:   *)
(* the login page found the users table empty; late (history): the table   *)
(* has had a row since.                                                    *)
Request ==
  [kind : Kinds, ready : BOOLEAN, browser : Browser, by : Account \cup {Nobody},
   target : Account \cup {Nobody}, seen : Roles, form : Roles, flag : BOOLEAN,
   fresh : BOOLEAN, late : BOOLEAN]
NoRequest ==
  [kind |-> "none", ready |-> FALSE, browser |-> CHOOSE b \in Browser : TRUE,
   by |-> Nobody, target |-> Nobody, seen |-> "user", form |-> "user",
   flag |-> FALSE, fresh |-> FALSE, late |-> FALSE]

Users == {a \in Account : role[a] # "absent"}
Administrators == {a \in Account : role[a] = "administrator"}

TypeOK ==
  /\ role \in [Account -> Roles \cup {"absent"}]
  /\ initial \in [Account -> BOOLEAN]
  /\ must \in [Account -> BOOLEAN]
  /\ cookie \in [Browser -> Account \cup {Nobody}]
  /\ req \in [Worker -> Request]
  /\ founded \in BOOLEAN
  /\ crossed \in BOOLEAN
  /\ old \in SUBSET Browser

(* A new installation, or one whose administrator and sessions are older   *)
(* than the column must_change_password.                                   *)
Init ==
  /\ must = [a \in Account |-> FALSE]
  /\ req = [w \in Worker |-> NoRequest]
  /\ crossed = FALSE
  /\ \/ /\ role = [a \in Account |-> "absent"]
        /\ cookie = [b \in Browser |-> Nobody]
        /\ founded = FALSE
        /\ old = {}
     \/ /\ role = [a \in Account |-> IF a = Root THEN "administrator" ELSE "absent"]
        /\ old \in SUBSET Browser
        /\ cookie = [b \in Browser |-> IF b \in old THEN Root ELSE Nobody]
        /\ founded = TRUE
  /\ initial = [a \in Account |-> role[a] # "absent"]

-----------------------------------------------------------------------------
(* Requests                                                                *)

Idle(w) == req[w].kind = "none"
Continue(w, r) == req' = [req EXCEPT ![w] = r]
Ready(w, k) == req[w].kind = k /\ req[w].ready

(* require_login and administrator_required: what account a may ask for.   *)
Admitted(a, k) ==
  /\ role[a] # "absent"
  /\ must[a] => k = "password"
  /\ k \in AdminKinds => role[a] = "administrator"

Enter(w, b, k) ==
  /\ Idle(w)
  /\ cookie[b] \in Account
  /\ k \in AdminKinds \cup {"password"}
  /\ Admitted(cookie[b], k)
  /\ Continue(w, [NoRequest EXCEPT !.kind = k, !.by = cookie[b],
                    !.ready = k \in {"create", "password"}, !.flag = must[cookie[b]]])
  /\ UNCHANGED <<rows, cookie, history>>

(* The session is cleared: logout, or its account is gone.                 *)
SignOut(b) ==
  /\ cookie[b] # Nobody
  /\ cookie' = [cookie EXCEPT ![b] = Nobody]
  /\ UNCHANGED <<rows, req, history>>

(* The request is refused, a commit finds its row gone, the database is    *)
(* locked, the worker is killed.                                           *)
Abandon(w) ==
  /\ ~Idle(w)
  /\ Continue(w, NoRequest)
  /\ UNCHANGED <<rows, cookie, history>>

-----------------------------------------------------------------------------
(* The login page                                                          *)

EmptyNoRoot == Root \notin Users  \* mutant
Empty == Users = {}

(* _ensure_bootstrap_administrator reads the table and, if it is empty,    *)
(* inserts the first administrator: the user name is UNIQUE.               *)
OpenLogin(w, b) ==
  /\ Idle(w)
  /\ Continue(w, [NoRequest EXCEPT !.kind = "login", !.browser = b, !.fresh = Empty])
  /\ UNCHANGED <<rows, cookie, history>>

Found(w) ==
  /\ req[w].kind = "login" /\ req[w].fresh
  /\ role[Root] = "absent"
  /\ role' = [role EXCEPT ![Root] = "administrator"]
  /\ initial' = [initial EXCEPT ![Root] = TRUE]
  /\ must' = [must EXCEPT ![Root] = TRUE]
  /\ founded' = TRUE
  /\ req' = [v \in Worker |->
       IF v = w THEN [req[w] EXCEPT !.fresh = FALSE, !.late = FALSE]
       ELSE [req[v] EXCEPT !.late = req[v].fresh]]
  /\ UNCHANGED <<cookie, crossed, old>>

(* The password entered is the one of the row loaded.                      *)
Authenticate(w) ==
  /\ req[w].kind = "login" /\ ~req[w].fresh /\ ~req[w].ready
  /\ cookie[req[w].browser] = Nobody
  /\ \E a \in Users :
       Continue(w, [req[w] EXCEPT !.ready = TRUE, !.target = a, !.flag = initial[a] /\ ~must[a]])
  /\ UNCHANGED <<rows, cookie, history>>

(* flag: "changeme" was entered and the row loaded did not say that it     *)
(* must be changed.  An UPDATE needs its row.                              *)
MarkNever(a, flag) == must  \* mutant
Mark(a, flag) == IF flag THEN [must EXCEPT ![a] = TRUE] ELSE must

SignIn(w) ==
  LET a == req[w].target IN
  /\ Ready(w, "login")
  /\ req[w].flag => role[a] # "absent"
  /\ must' = Mark(a, req[w].flag)
  /\ cookie' = [cookie EXCEPT ![req[w].browser] = a]
  /\ old' = old \ {req[w].browser}
  /\ Continue(w, NoRequest)
  /\ UNCHANGED <<role, initial, founded, crossed>>

-----------------------------------------------------------------------------
(* The Configuration page                                                  *)

(* Only columns that differ from the row loaded are written.               *)
ChangePassword(w) ==
  LET a == req[w].by IN
  /\ Ready(w, "password")
  /\ role[a] # "absent"
  /\ initial' = [initial EXCEPT ![a] = FALSE]
  /\ must' = IF req[w].flag THEN [must EXCEPT ![a] = FALSE] ELSE must
  /\ Continue(w, NoRequest)
  /\ UNCHANGED <<role, cookie, history>>

CreateUser(w) ==
  /\ Ready(w, "create")
  /\ \E a \in Account \ Users, r \in Roles : role' = [role EXCEPT ![a] = r]
  /\ UNCHANGED <<initial, must>>

(* The row of the target is read, and checked.                             *)
MayUpdateAny(a, t, r) == TRUE  \* mutant
MayUpdate(a, t, r) == t = a => r = "administrator"
MayDelete(a, t) ==
  /\ t # a
  /\ role[t] = "administrator" => Cardinality(Administrators) > 1

Check(w) ==
  /\ req[w].kind \in {"update", "delete"} /\ ~req[w].ready
  /\ \E t \in Users, r \in Roles :
       /\ IF req[w].kind = "update" THEN MayUpdate(req[w].by, t, r)
          ELSE MayDelete(req[w].by, t) /\ r = "user"
       /\ Continue(w, [req[w] EXCEPT !.ready = TRUE, !.target = t, !.form = r,
                         !.seen = IF t = req[w].by THEN "administrator" ELSE role[t]])
  /\ UNCHANGED <<rows, cookie, history>>

UpdateUser(w) ==
  LET t == req[w].target IN
  /\ Ready(w, "update")
  /\ role[t] # "absent"
  /\ role' = IF req[w].form = req[w].seen THEN role
             ELSE [role EXCEPT ![t] = req[w].form]
  /\ initial' \in {initial, [initial EXCEPT ![t] = FALSE]}
  /\ UNCHANGED must

DeleteUser(w) ==
  LET t == req[w].target IN
  /\ Ready(w, "delete")
  /\ role' = [role EXCEPT ![t] = "absent"]
  /\ initial' = [initial EXCEPT ![t] = FALSE]
  /\ must' = [must EXCEPT ![t] = FALSE]

AccountChange(w) ==
  /\ CreateUser(w) \/ UpdateUser(w) \/ DeleteUser(w)
  /\ crossed' = (crossed \/ role[req[w].by] # "administrator")
  /\ Continue(w, NoRequest)
  /\ UNCHANGED <<cookie, founded, old>>

WorkerStep(w) ==
  \/ \E b \in Browser : OpenLogin(w, b) \/ \E k \in Kinds : Enter(w, b, k)
  \/ Found(w) \/ Authenticate(w) \/ SignIn(w)
  \/ ChangePassword(w) \/ Check(w) \/ AccountChange(w)
  \/ Abandon(w)

Next == (\E w \in Worker : WorkerStep(w)) \/ (\E b \in Browser : SignOut(b))

Spec == Init /\ [][Next]_vars

-----------------------------------------------------------------------------
(* Properties                                                              *)

(* "The last administrator cannot be deleted", nor demoted: whatever       *)
(* administrators do to each other, also at the same time, somebody who    *)
(* can manage accounts remains (with no administrator left only the        *)
(* database could be edited), until one who has been demoted or deleted    *)
(* after his own request was admitted gets it through all the same.        *)
AdminRemains == founded /\ ~crossed => Administrators # {}

(* "Create the first administrator once": the bootstrap credentials are    *)
(* used again only by a login page opened before any account existed, or   *)
(* after administrators have crossed each other.                           *)
BootstrapOnce ==
  [][\A w \in Worker : Found(w) => ~founded \/ req[w].late \/ crossed]_vars

(* "Project and administrative functions remain blocked until the password *)
(* is changed": a session opened with the bootstrap password is admitted   *)
(* to nothing else as long as its account has it, whatever is saved for    *)
(* the same row meanwhile.                                                 *)
InitialBlocked ==
  \A b \in Browser \ old, k \in AdminKinds :
    cookie[b] \in Account /\ initial[cookie[b]] => ~Admitted(cookie[b], k)
=============================================================================
