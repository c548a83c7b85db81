---------------------------- MODULE JobPromise -----------------------------
(***************************************************************************)
(* What the reservation of a project promises about its jobs, without      *)
(* requests, threads, saves, deadlines or clocks: one open job at a time,  *)
(* outcomes that never change, a command sent at most once per node and    *)
(* only while its job is open, and a PASS only over finished commands.     *)
(***************************************************************************)
CONSTANTS Node, Job

VARIABLES
  outcome,  \* outcome[j]: none, open, gone with its project, or the result
  may,      \* may[j]: the nodes job j may still command
  live      \* live[j]: the nodes a command of job j runs on

pvars == <<outcome, may, live>>

Result == {"pass", "fail", "unknown"}

PromiseInit ==
  /\ outcome = [j \in Job |-> "none"]
  /\ may = [j \in Job |-> {}]
  /\ live = [j \in Job |-> {}]

(* Commands end and jobs give up sending, several at once.                 *)
Settled == \A j \in Job : may'[j] \subseteq may[j] /\ live'[j] \subseteq live[j]

Accept(j) ==
  /\ outcome[j] = "none"
  /\ \A k \in Job : outcome[k] # "open"
  /\ outcome' = [outcome EXCEPT ![j] = "open"]
  /\ \E s \in SUBSET Node : may' = [may EXCEPT ![j] = s]
  /\ live' = live

Command(j, n) ==
  /\ outcome[j] \in {"open", "gone"}
  /\ n \in may[j]
  /\ may' = [may EXCEPT ![j] = @ \ {n}]
  /\ live' = [live EXCEPT ![j] = @ \cup {n}]
  /\ outcome' = outcome

Settle == Settled /\ outcome' = outcome

Close(j, r) ==
  /\ outcome[j] = "open"
  /\ r = "pass" => live[j] = {}
  /\ outcome' = [outcome EXCEPT ![j] = r]
  /\ Settled
  /\ may'[j] = {}

(* The project is deleted with its rows; a job already running is not      *)
(* stopped from sending what it had planned.                               *)
Vanish ==
  /\ outcome' = [j \in Job |-> IF outcome[j] = "none" THEN "none" ELSE "gone"]
  /\ UNCHANGED <<may, live>>

PromiseNext ==
  \/ \E j \in Job : Accept(j) \/ \E n \in Node : Command(j, n)
  \/ \E j \in Job, r \in Result : Close(j, r)
  \/ Settle
  \/ Vanish

PromiseSpec == PromiseInit /\ [][PromiseNext]_pvars
=============================================================================
