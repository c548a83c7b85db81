--------------------------- MODULE StonithSecrets ---------------------------
(***************************************************************************)
(* The STONITH profiles of several projects, the controller passwords they *)
(* keep encrypted, and the one key file all of them are encrypted with.    *)
(* Requests of two worker processes share the key through flock, and a     *)
(* worker may be killed at any point.                                      *)
(*                                                                         *)
(* A project is modelled with one node: the form saves the profiles of all *)
(* nodes in one commit, one after the other.  Passwords are not kept, only *)
(* what they were entered for.                                             *)
(*                                                                         *)
(* Source: profiles() in web/routes/stonith.py and web/stonith_secrets.py. *)
(* Fernet is modelled from how the latter uses it.                         *)
(***************************************************************************)
EXTENDS Naturals

CONSTANTS
  Worker,   \* worker processes
  Project,  \* projects
  Target,   \* mode and endpoint, the columns of the configuration row
  Login,    \* username with the controller (IPMI) or profile name (OEM) it
            \* is for, the columns of the profile row
  Nobody,   \* no worker, project, target or login
  MaxKeys   \* bound on keys generated

ASSUME SecretsAssumption ==
  /\ Nobody \notin Worker \cup Project \cup Target \cup Login
  /\ MaxKeys \in Nat \ {0}

(* The key file: missing, created and not written yet, or a key.           *)
Missing == 0
Empty == MaxKeys + 1
Key == 1 .. MaxKeys

VARIABLES
  row,   \* row[p]: configuration and profile in the database
  key,   \* the key file
  made,  \* number of keys generated
  lock,  \* the worker that holds the flock on it
  form,  \* form[w]: the request that worker w serves
  mixed  \* history: the projects whose rows may mix two overlapping forms

vars == <<row, key, made, lock, form, mixed>>

(* What a password is for, and a saved one: the key that encrypted it.     *)
Identity == [target : Target, login : Login]
NoIdentity == [target |-> Nobody, login |-> Nobody]
Token == [key : Key, for : Identity]
NoToken == [key |-> Missing, for |-> NoIdentity]

Row == [target : Target, login : Login, token : Token \cup {NoToken}]
Absent == [target |-> Nobody, login |-> Nobody, token |-> NoToken]

(* entered: what the form says; typed: with a password; token: what the    *)
(* row will keep; secret: what the password at hand was entered for.       *)
(* History: stale, another request has saved or deleted the rows since     *)
(* this one loaded them; mixed, the saved password it keeps or uses was    *)
(* read from rows that mix two forms.                                      *)
Steps == {"idle", "open", "read", "write", "decrypt", "commit", "send"}
Form == [at : Steps, project : Project \cup {Nobody}, loaded : Row \cup {Absent},
         entered : Identity \cup {NoIdentity}, verify : BOOLEAN,
         token : Token \cup {NoToken}, secret : Identity \cup {NoIdentity},
         stale : BOOLEAN, mixed : BOOLEAN]
NoForm == [at |-> "idle", project |-> Nobody, loaded |-> Absent, entered |-> NoIdentity,
           verify |-> FALSE, token |-> NoToken, secret |-> NoIdentity,
           stale |-> FALSE, mixed |-> FALSE]

TypeOK ==
  /\ row \in [Project -> Row \cup {Absent}]
  /\ key \in {Missing, Empty} \cup Key
  /\ made \in 0 .. MaxKeys
  /\ lock \in Worker \cup {Nobody}
  /\ form \in [Worker -> Form]
  /\ mixed \subseteq Project

Init ==
  /\ row = [p \in Project |-> Absent]
  /\ key = Missing
  /\ made = 0
  /\ lock = Nobody
  /\ form = [w \in Worker |-> NoForm]
  /\ mixed = {}

Now(w) == form[w].at
Ended(w) == form' = [form EXCEPT ![w] = NoForm]

-----------------------------------------------------------------------------
(* The form                                                                *)

SameLogin(loaded, entered) ==  \* mutant
  loaded # Absent /\ loaded.login = entered.login
SameIdentity(loaded, entered) ==
  /\ loaded # Absent
  /\ loaded.target = entered.target
  /\ loaded.login = entered.login

KeptToken(loaded, entered) == loaded.token  \* mutant
TokenLeft(loaded, entered) ==
  IF SameIdentity(loaded, entered) THEN loaded.token ELSE NoToken

(* The rows are loaded, and what to do about the password is decided.  A   *)
(* form that verifies needs one: entered, or saved for the same identity.  *)
Submit(w) ==
  /\ Now(w) = "idle"
  /\ \E p \in Project, entered \in Identity, typed, verify \in BOOLEAN :
       LET saved == SameIdentity(row[p], entered) /\ row[p].token # NoToken IN
       /\ verify => typed \/ saved
       /\ form' = [form EXCEPT ![w] =
            [at |-> IF typed THEN "open" ELSE IF verify THEN "decrypt" ELSE "commit",
             project |-> p, loaded |-> row[p], entered |-> entered, verify |-> verify,
             token |-> TokenLeft(row[p], entered),
             secret |-> IF typed THEN entered ELSE NoIdentity,
             stale |-> FALSE, mixed |-> ~typed /\ saved /\ p \in mixed]]
  /\ UNCHANGED <<row, key, made, lock, mixed>>

(* cipher(create=True): O_CREAT makes an empty file.                       *)
OpenKey(w) ==
  /\ Now(w) = "open"
  /\ key' = IF key = Missing THEN Empty ELSE key
  /\ form' = [form EXCEPT ![w].at = "read"]
  /\ UNCHANGED <<row, made, lock, mixed>>

Encrypted(k, entered) == [key |-> k, for |-> entered]

NeverWritten == FALSE  \* mutant
MustWrite == key = Empty

LockIgnored == TRUE  \* mutant
LockFree == lock = Nobody

(* Under the lock a key is read, or found missing and written.             *)
ReadKey(w) ==
  /\ Now(w) = "read"
  /\ LockFree
  /\ IF MustWrite
     THEN /\ lock' = w
          /\ form' = [form EXCEPT ![w].at = "write"]
     ELSE /\ lock' = lock
          /\ form' = [form EXCEPT ![w].at = "commit",
                                  ![w].token = Encrypted(key, form[w].entered)]
  /\ UNCHANGED <<row, key, made, mixed>>

WriteKey(w) ==
  /\ Now(w) = "write"
  /\ made < MaxKeys
  /\ made' = made + 1
  /\ key' = made + 1
  /\ lock' = Nobody
  /\ form' = [form EXCEPT ![w].at = "commit",
                          ![w].token = Encrypted(made + 1, form[w].entered)]
  /\ UNCHANGED <<row, mixed>>

(* decrypt_password: without its key the saved password is refused.        *)
Decrypt(w) ==
  /\ Now(w) = "decrypt"
  /\ LockFree
  /\ IF key = form[w].loaded.token.key
     THEN form' = [form EXCEPT ![w].at = "commit", ![w].secret = form[w].loaded.token.for]
     ELSE Ended(w)
  /\ UNCHANGED <<row, key, made, lock, mixed>>

(* INSERT is refused if there are rows by now (UNIQUE), UPDATE if there    *)
(* are none; it writes the columns that differ from the rows loaded.       *)
Column(now, loaded, new) == IF new = loaded THEN now ELSE new
Saved(now, loaded, entered, token) ==
  [target |-> Column(now.target, loaded.target, entered.target),
   login |-> Column(now.login, loaded.login, entered.login),
   token |-> Column(now.token, loaded.token, token)]

(* The rows of p have changed under the forms that loaded them (history).  *)
Outdated(p) ==
  [w \in Worker |-> [form[w] EXCEPT !.stale = @ \/ form[w].project = p]]

Commit(w) ==
  LET f == form[w]
      p == f.project
  IN
  /\ Now(w) = "commit"
  /\ IF (row[p] = Absent) = (f.loaded = Absent)
     THEN /\ row' = [row EXCEPT ![p] = Saved(row[p], f.loaded, f.entered, f.token)]
          /\ mixed' = IF f.stale \/ f.mixed THEN mixed \cup {p} ELSE mixed \ {p}
          /\ form' = [Outdated(p) EXCEPT
                        ![w] = IF f.verify THEN [f EXCEPT !.at = "send"] ELSE NoForm]
     ELSE UNCHANGED <<row, mixed>> /\ Ended(w)
  /\ UNCHANGED <<key, made, lock>>

(* verify_oem_profiles or verify_ipmi_profiles_on_nodes asks the target of *)
(* the form, with the login of the form and the password at hand.          *)
Send(w) ==
  /\ Now(w) = "send"
  /\ Ended(w)
  /\ UNCHANGED <<row, key, made, lock, mixed>>

(* A request fails or its worker is killed; the lock dies with it.         *)
Abandon(w) ==
  /\ Now(w) # "idle"
  /\ lock' = IF lock = w THEN Nobody ELSE lock
  /\ Ended(w)
  /\ UNCHANGED <<row, key, made, mixed>>

(* delete_project, and a new project may get the same row ids.             *)
Delete(p) ==
  /\ row[p] # Absent
  /\ row' = [row EXCEPT ![p] = Absent]
  /\ mixed' = mixed \ {p}
  /\ form' = Outdated(p)
  /\ UNCHANGED <<key, made, lock>>

Next ==
  \/ \E w \in Worker :
       \/ Submit(w) \/ OpenKey(w) \/ ReadKey(w) \/ WriteKey(w) \/ Decrypt(w)
       \/ Commit(w) \/ Send(w) \/ Abandon(w)
  \/ \E p \in Project : Delete(p)

Spec == Init /\ [][Next]_vars

-----------------------------------------------------------------------------
(* Properties                                                              *)

(* However workers race to create the key file, and wherever they are      *)
(* killed, every saved password was encrypted with the key that is there.  *)
TokensReadable ==
  \A p \in Project : row[p].token # NoToken => row[p].token.key = key

(* "Blank fields preserve stored credentials when the controller, mode and *)
(* userid are unchanged", and only then: through any sequence of edits, by *)
(* any number of workers, a saved password is the one entered for what the *)
(* rows now say.  Only a form that saves over rows that changed since it   *)
(* loaded them mixes them, until the next form that does not.              *)
PasswordBelongs ==
  \A p \in Project \ mixed : row[p].token # NoToken =>
    row[p].token.for = [target |-> row[p].target, login |-> row[p].login]

(* A verification sends a password, entered or saved, only where it was    *)
(* entered for, even if the rows have changed meanwhile; only a saved one  *)
(* read from mixed rows may go elsewhere.                                  *)
SentWhereMeant ==
  [][\A w \in Worker : Send(w) /\ ~form[w].mixed =>
       form[w].secret = form[w].entered]_vars
=============================================================================
