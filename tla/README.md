# ClusterWeaver in TLA+

ClusterWeaver is a Flask application, served by two gunicorn sync worker
processes, that prepares and operates Pacemaker clusters: it collects the
inventory of a cluster, generates scripts, runs them on the nodes over SSH and
keeps the evidence of every step in SQLite and in a Git tree. What is hard in it
is what happens between its parts: two worker processes that share only the
database and a key directory, a background thread that outlives its HTTP
request, remote commands that outlive the SSH session that sent them, and
results that are saved after the state they speak of has changed.

This directory holds TLA+ modules of those parts, TLC configurations that check
them on small instances, and TLAPS proofs of the results that matter most. File
names below are relative to `src/clusterweaver/` unless they start with `src/`.

## 1. The system

| component | state it keeps | operations | talks to | correct when |
|---|---|---|---|---|
| Cluster operation jobs (`web/routes/cluster_operations.py`, `core/services/cluster_operations.py`) | rows of `cluster_operations` with UNIQUE `active_project_id`; a daemon thread per job; commands left on nodes | start, history, protected-endpoint guard, stale release, `run_operation` | database, SSH, nodes' `pcs` | one open job per project; outcomes final; PASS means the state was reached; a lost command is never a PASS; reservations are always released |
| Project SSH keys (`core/services/project_ssh.py`, `web/routes/ssh_access.py`) | `id_rsa`, `id_rsa.pending`, `id_rsa.previous`, `known_hosts`, `.lock` in the key directory; `authorized_keys` of each node | install/resume, rotate, activate, verify, revoke | SSH, evidence of 00k | no key is lost; a key becomes active only when every node accepts it; the previous key is deleted only when no node accepts it |
| SSH transport (`core/services/ssh_bootstrap.py`) | none | connect, discover, exchange peer keys | nodes | never falls back from key to password; rejects changed host identities |
| Workflow steps and evidence (`web/routes/projects.py`, `persistence/repositories/projects.py`) | project, node and evidence rows | create/edit/clone nodes, run steps 00..07, save evidence | services, database | a step runs only on the evidence it asks for; an edit invalidates the evidence it outdates |
| Network configuration with rollback (`core/services/network_config.py`) | the node's connection, a transient systemd timer, an archive of the old state | preflight, activate, reconnect, cancel, roll back | SSH on the old, then the new address | a node is never left unreachable: the change is confirmed over the new address or undone |
| Standby guard (`parse_snapshot`, `standby_guard`, `desired_state`) | none | judge snapshots | jobs | standby never takes the last available host |
| Project files (`core/services/projects.py`, `core/services/git.py`, `core/serializers/`) | YAML tree under Git, next to the rows | save, delete, commit | database | rows and files agree |
| Portable import and export (`core/services/project_transfer.py`) | none | export, validate, import | database, files | an import is complete or absent; secrets never leave |
| STONITH (`web/routes/stonith.py`, `core/services/stonith.py`, `web/stonith_secrets.py`) | profiles, encrypted passwords, check results | edit, verify controllers, verify agents | SSH, controllers | a result is shown only for the profile it was obtained for |
| Accounts (`web/routes/settings.py`, `web/routes/auth.py`, `web/__init__.py`) | users, sessions | login, create, edit, delete | database | an active administrator always remains |
| Script generators (`core/generators/`) | none | render | templates | scripts match the inventory |
| Persistence (`persistence/`, `src/migrations/`) | SQLite | sessions, migrations | everything | constraints hold |
| Updater and installer (`src/setup/`) | code tree, virtual environment, database backup | stop, back up, migrate, restore, start | systemd | a failed update leaves the old version running |
| Web pages, forms, script | none | render, validate, poll | browser | presentation |

`PROJECT.json` gives the same list with a status, the hazards (one per line of
code where it bites) and the definition-to-source map. What is left out is in
section 7.

## 2. Modules

Each component has a module with its state, actions and properties, an `MC`
module with the symmetry of its runs, and a `Proofs` module that extends it.
The proofs about `UpdateLocal` and `StonithSecrets` share one that extends both,
which is why the former's definitions are called `UpdateInit`, `UpdateSpec` and so
on.

| module | what it is |
|---|---|
| `ClusterJobs`, `MCClusterJobs`, `ClusterJobsProofs` | the jobs of one project: requests, rows, threads, remote commands, time |
| `JobPromise` | the abstract specification of a job: open, commanding, closed |
| `ProjectKeys`, `MCProjectKeys`, `ProjectKeysProofs` | the key files, the key requests and the nodes' `authorized_keys` |
| `NetworkRollback`, `MCNetworkRollback`, `NetworkRollbackProofs` | the change of a node's management connection, over SSH, under a rollback timer |
| `ProjectRecords`, `MCProjectRecords`, `ProjectRecordsProofs` | the rows of a project and the evidence of its steps, saved after long requests |
| `ProjectFiles`, `MCProjectFiles`, `ProjectFilesProofs` | the rows, the YAML file, the Git index and HEAD of one project |
| `ProjectTransfer`, `MCProjectTransfer`, `ProjectTransferProofs` | a definition as forms build it, its archive, and the import |
| `Accounts`, `MCAccounts`, `AccountsProofs` | users, sessions and the requests that change them |
| `StonithSecrets`, `MCStonithSecrets`, `UpdateAndSecretsProofs` | saved controller passwords and the key they are encrypted with |
| `UpdateLocal`, `UpdateAndSecretsProofs` | one run of the updater of a native installation |

Components interact as follows. A request that edits or deletes a project
passes the guard of `ClusterJobs` (`Guard`, then `Edit` or `Delete`), commits
rows (`ProjectRecords`, `ProjectTransfer`) and then writes files
(`ProjectFiles`). Steps use keys (`ProjectKeys`) and save evidence
(`ProjectRecords!Save`); `network_apply` (`NetworkRollback!Conclude`) also
replaces an address. The profiles form changes evidence (`ProjectRecords!Define`)
and passwords (`StonithSecrets`). Each module has the steps of the others that
disturb its state as actions or choices of its own.

Definitions marked `mutant` are one bug each; no specification uses them. They
are there so that a property can be shown to notice the bug.

Requests of the two worker processes overlap in every module, as they do in the
deployed program; no module assumes that users or requests take turns. Where the
code gives no protection against an overlap, a history variable (`crossed`,
`raced`, `mixed`, `mistaken`, `astray`, `cut`, `late`) records the steps that
overtook each other, no guard reads it, and the property excepts what follows
from them. What then goes wrong is in section 5.

### 2.1 ClusterJobs

*State.* `job[j]` is the j-th inserted row (status, whether it holds
`active_project_id`, action, age since `created_at`). `web[w]` is the request
that worker process `w` serves; `start` is two transactions, so a request rests
between the uncertainty gate and the INSERT ("admitted") and between the INSERT
and `Thread.start` ("reserved"). `thr[j]` is the thread of `run_operation`: its
program counter, its deadline, the inventory it was started with, the futures it
has not consumed and the results it has. A result "closed" is that of a channel
or transport that closed before the exit status arrived: `_collect_channel`
(`core/services/ssh_bootstrap.py:165-166`) then returns -1 and raises nothing,
and the job counts it as a command that failed, though it may still run. `cmd[j][n]` and `lease[j][n]` are the
command that job `j` left on node `n` and the time in which its own `timeout`
kills it. `world` is the cluster as `snapshot_node` would see it. `foreign` is a
history variable: what somebody other than the open job has changed.

*Actions.* `Admit`, `Reserve`, `Conflict`, `Launch`, `LaunchFails`: the handler
`start`. `Poll`: `release_stale_jobs` as the history and project pages call it.
`Guard` followed by `Edit`, `Delete`, `Legacy` or `Respond`:
`protect_running_operation` and the endpoint it lets through. `Begin`,
`Observe`, the four `Decide...`, `Send`, `Return`, `Drain`, `Again`, `Judge`,
`Handler`: `run_operation`, each action ending in the `save()` that the code
calls there with its three outcomes (saved; `JobStopped`; exception).
`RemoteEnds` and `Tick` are the nodes and the clock. `Crash` kills a worker
process with its request and its daemon threads; commands already sent go on.

*Abstractions.* One project: rows of different projects share nothing. A
snapshot is kept as the three things later code asks of it (exists, shows the
requested state, active Pacemaker). The verification limit (180 s or 60 s) may
expire at any time before, and at the latest with, the job's deadline. What
`standby_guard` answers is a choice (`DecideRaise` is always possible). `enable`
and `disable` have the shape of `start` and `stop` and no boot state of their
own. A request that is refused before it changes anything is not a step.
Clocks of the two processes agree and do not jump. `Conflict` at
`created = MaxJobs` is there only for the bound.

*The abstract specification.* `JobPromise` knows for each job an outcome, the
nodes it may still command, and the nodes on which its command runs. It allows
one open job at a time, final outcomes, and at most one command per node, sent
only by a job that may still send. `Promise` in `ClusterJobs` is the refinement
mapping; `KeepsPromise` is checked as a property of the implementation.

### 2.2 ProjectKeys

*State.* `file[p]` for the three key paths (a key number, `NoKey`, or `Torn`: a
file created and not written), `lock` the `flock` holder, `req[w]` a key request
with its candidate path, its key, the passwords entered and one task per node
thread, `auth[n]` and `known` what the nodes accept, `remote[n]` commands sent
and not run yet. History: `removed`, the revocations that ran, and `astray`,
whether the last activation took another pending key than the one its request
had verified.

*Actions.* `Reuse`/`Create`/`Write` (`prepare`), `ReadLine`
(`authorized_key_line`, without the lock), `SendInstall`/`Choose`/`VerifyNode`/
`FailNode`/`Conclude` (the node threads and the 90 s budget), `Retire`/`Promote`
(the two renames of `activate`), `StartRevoke`/`SendRevoke`/`RevokedNode`/
`ConcludeRevoke`/`Unlink` (`revoke_previous_key`), `Run` (a command on its node,
at any later time) and `Crash` (between any two of them).

*Abstractions.* The node list is fixed. A connection and the command sent over
it are one step (the wait before the command runs is kept in `remote`). The
evidence that `verify_project_key` saves is left to the workflow. Commands that
one worker has waiting on a node with the same key are merged. Host identities
do not change. Appending to `authorized_keys` on the node is atomic, as its
script takes a lock there and renames.

### 2.3 NetworkRollback

*State.* On the node: `active` (the profile that is up), `old` (the old
profile: its autoconnect, whether it still has a candidate's name, or deleted),
`cand` (the new one: absent, under its candidate name, or under its final name),
`starting` (the activation left running by `nohup nmcli`), `rollback` (the
transient unit: off, armed, firing, or "loose": its timer stopped but its service
running on), `back` (the profile it restores), `private` (whether the other
interface is as desired). In the server: `run[w]`, one request with its program
counter, and `recorded`, the SSH address in the database. `route` says what that
address was when the change began: the old profile's (`"old"`), one that both
profiles have (`"same"`), or one of another interface (`"other"`). History:
`verified`, the new profile has answered over the new address; `crossed`, a
request has cleaned up during this change while another one was in progress;
`bared`, the cleanup has deleted the old profile while it was up. `steady` is
chosen at the start and never changes: whether the node is one that is not
rebooted.

*Actions.* `Connect`, `Inspect`, `ReadUuid`, `Cleanup`, `Add`, `Schedule`,
`Activate`, `Reconnect`, `Cancel`, `Archive`, `Rename`, `ChangePrivate`,
`Conclude`: the commands of `configure_node_network`
(`core/services/network_config.py:104-361`) in their order, each with the
failure that ends the request, and the recording of the address by
`network_apply`. `Abandon` (a connection or a command fails, a time is over) and
`Crash` (the worker is killed). `ActivationEnds`, `Fire`, `Restore` and `Reboot`
are the node's. `EditNode` is the edit of the desired configuration: another
management address is entered, and the profile that is up becomes the old one of
the next change, under the name it has. If the renaming at the end of the change
had failed (`core/services/network_config.py:324`), that is a candidate's name,
and the next `Cleanup` (line 242) deletes it while it is up.

*Abstractions.* There is no clock: the timer may elapse at any time, except
between its arming and the activation (at most 40 s of its 90 s). The
configuration is edited only between changes: with the new profile up, no
rollback pending and no request in progress (an edit before a change only chooses
its target; one during a change is not modelled). Of the profiles left by earlier
changes only the one that was up is kept; older ones, without autoconnect, are
forgotten. The read-only assessment of RHEL 7.9 changes nothing and is left out.
Candidates left by earlier requests of one change are one candidate: `Cleanup`
deletes all of them. A different host at the new address is a failed connection
(its host key differs).

### 2.4 ProjectRecords

*State.* `exists` (the project row), `host[n]` (the hostname of node row `n`),
`profiles` (STONITH profiles are defined), `ev[n][s]` (the evidence row of step
`s` for node `n`: none, pass or fail), `run[w]` (the request a worker serves with
the hostnames its session has loaded). History: in the evidence its `age`, whether
what its result depends on has changed while the step was on its way
("overtaken") or since it was saved ("outdated"); `passed[n]`, the steps that have
passed on the node of row `n`; `mistaken`, the rows that were given the result of
another node.

*Actions.* `Start` loads the rows and checks the gate (`workflow_step_complete`
over the steps of `Needs`); `Open` loads them for `edit_node` and for the profiles
form with "Save and verify". `EditNode` and `Define` (the profiles form) are the
commits of those requests. `Create` (`create_project` and import), `AddNode`
(`create_node`, `clone_node`), `Define` without verification and `Delete` change
nothing by what they have loaded and are one step, their commit. `Save` is
`save_step_results` of steps 00a to 07, 00k, 00kr, 08a and 08a-fa, with the
address that `network_apply` replaces; `Abandon` is any failure in between.

*How rows are found again.* Results carry hostnames, and `save_step_results`
looks for the node with that hostname among the project's rows. The session does
not expire its objects on commit (`persistence/database.py:12`) and holds them
weakly: a handler that keeps the rows (profiles, network_apply) saves under the
names it loaded, the others may read the rows again. Foreign keys are not
enforced in SQLite here, and the highest row id is given out again after a
deletion: the model lets `Save` reach the rows of a new project that has the ids
of the deleted one.

*Abstractions.* Of a node only the hostname is kept; addresses appear as
"the endpoint has changed". What a result depends on (`Depends`) is what
`src/README.md:222`, `src/README.md:230` and `src/CHANGELOG.md:47` say of 08a, 08a-fa and the key
checks; the other steps depend on nothing that invalidates them. YAML files and
Git, project fields and groups, and the guard of a running cluster operation
(in `ClusterJobs`) are left out. Every node has an SSH address.

### 2.5 ProjectFiles

*State.* `row`, `file`, `index`, `head`: the definition that the database, the
YAML file, the Git index and HEAD hold, each as the numbers of the edits its
parts come from. `req[w]`: the request of worker `w`, its next step and what its
session holds. History: `cut`, whether a request was cut off or refused by git
and none that was alone has been served to its end since; in a request whether
another one has overlapped it; and `raced`, whether one has overlapped the last
deletion.

*Actions.* `CommitRow`, `Reread` and `WriteFile` are the commit of a handler,
`persist_files` and `write_project_yaml`; `RemoveFiles` and `DropRow` the two
ends of `delete_project`; `GitAdd` and `GitCommit` are `commit_path`, with the
errors git gives for an unknown path and for a commit without a difference.
`Respond` and `CutOff` end a request.

*Abstractions.* One slug. Edits are numbered, not described: a column holds the
number of the last edit that set it, which is what two sessions can disagree on.

### 2.6 ProjectTransfer

*State.* `project` (count, nodes and profiles), `form[w]` (a node form that has
been checked and not committed), `archive` (the document in it, the one its
checksums were made of, whether its members are complete). History: `since`, in a
form the rows saved since it was checked, and `raced`, the pairs of rows of which
one was saved by a form checked before the other one was.

*Actions.* `CheckNode` (the form against `node_conflicts`), then `AddNode`,
`EditNode` or `Leave`; `EditProject`; `SaveProfiles`; `Export`; `Damage`: the
archive loses a member or its document changes; `Discard`; `Import`.

*Abstractions.* Of a node only what one validation relates to another: hostname
(the class of its spellings), addresses, profile name. Checks of one field are
left out, they are the same in forms and import. Checksums are the identity of
what they are made of. `Damage` keeps `CHECKSUMS.sha256`: an archive rewritten on
purpose together with its checksums is a different archive, which the import can
only judge by its content (`Accepted`). While an archive is on its way the project
it was made of does not change: nothing that becomes of it can reach the archive.

### 2.7 Accounts

*State.* Of each account its `role`, whether it still has the bootstrap password
(`initial`) and `must_change_password` (`must`); `cookie[b]`, the account in the
session of browser `b`; `req[w]`, a request with what it has loaded. History:
`founded` (there has been an account), `old` (sessions older than the column),
`crossed` (an account was changed by one who had lost the role of administrator
since the request was admitted), and in a login `late` (its page found the table
empty, and it has had a row since).

*Actions.* `OpenLogin`, `Found`, `Authenticate`, `SignIn`: the login page with
`_ensure_bootstrap_administrator`. `Enter`: `require_login` and
`administrator_required` admit a request. `ChangePassword`, `CreateUser`,
`Check` followed by `UpdateUser` or `DeleteUser`: the Configuration page, with
what the handler reads and what it writes as two steps. `SignOut`, `Abandon`.

*Abstractions.* Passwords are one bit. Who signs in knows the password.
Sessions older than `must_change_password` are
covered by `InitialBlocked` from their next login on.

### 2.8 UpdateLocal

*State.* `tree[p]`: the version in each of the six places of application and
environment; `unit`; `db` (schema, and the number of writes in it); `backup`;
`running`; the script's next command and its flags `ready` (`rollback_ready`),
`wasActive`, `changed`; how it ends. History: `written`, `found`.

*Actions.* One for each command of `src/setup/update-local.sh` that changes
something, and one for each command of its trap `finish`. `Fail`: the command
fails, perhaps half way. `Interrupt`: a signal ends the script. `Write`: the
service writes to its database.

*Abstractions.* Commands of the trap do not fail, the stop and the start that
end in `|| true` (`src/setup/update-local.sh:48` and `:69`) included: a service
that refuses to stop would run through the restoration. Nobody else starts or
stops the service meanwhile; in particular the machine is not rebooted, which
would start the service where an interrupted update left it, since the unit is
enabled (`src/setup/install.sh:81`). Files are there once the command that makes
them has ended: the backup (`src/setup/update-local.sh:103`) is not synced to
disk, and a loss of power may take it. Where `requirements.txt` is unchanged, the
old environment serves the new code.

### 2.9 StonithSecrets

*State.* `row[p]` (mode and endpoint, userid, encrypted password), `key` (the
key file: missing, empty, or the number of a key), `lock` (its `flock` holder),
`form[w]` (the profiles form that worker `w` serves). History: in a form `stale`
(another request has saved or deleted its rows since it loaded them) and `mixed`
(the saved password it uses was read from rows that mix two forms), and `mixed`,
the projects whose rows may.

*Actions.* `Submit` (the handler up to its decision about the password),
`OpenKey`, `ReadKey`, `WriteKey` (`cipher` with `create=True`), `Decrypt`
(`decrypt_password`), `Commit`, `Send` (the verification), `Abandon` (a failure,
or the worker is killed, which releases its lock), `Delete`.

*Abstractions.* A project has one node. A password is what it was entered for; a
token also the key that encrypted it. Forms of one project and of two overlap, and
all share the key file.

## 3. Runs

| run | instance | shows |
|---|---|---|
| `jobs_nodes` | 2 nodes, 1 worker, 2 jobs of status/stop/standby, deletions and legacy setup, database errors at every save | PASS leaves no command running (`PassMeansQuiet`) and is recorded over nodes in the requested state (`PassMeansAchieved`); a lost command is never recorded as certain but through a closed channel (`LostMeansUnknown`); `KeepsPromise`: the refinement of `JobPromise`; `TypeOK` |
| `jobs_live` | 1 node, 2 workers, 2 inventories, 1 job of start/unstandby, crashes, edits and database errors, times 6/10/2/2/4 (budget/stale/start/channel/command), fair | `StaleMeansQuiet`, `ReservationReleased`, `ThreadEnds`, and `KeepsPromise` over these times and workers |
| `jobs_lost` | 1 node, 1 worker, 2 jobs of status/stop, no database error | violation, section 5 |
| `keys` | 2 nodes, 2 workers, 2 keys, 1 command on its way to a node, crashes | only a key that all nodes accept becomes active (`ActiveAccepted`), only a revoked one is deleted (`DeletedAfterRevocation`), a crash leaves a key to go on with (`ReplacementReady`), none is overwritten (`NoKeyOverwritten`) |
| `net` | 2 workers, every route, with and without reboots, edits between changes, fair | the rollback stays armed until the new profile has answered (`ArmedUntilVerified`), the old one is deleted and the address recorded only after that (`OldProfileKept`, `AddressVerified`), some profile is up (`NeverDisconnected`), an unverified one is verified or gives way (`Recovers`) |
| `records` | 2 workers, 2 nodes, 2 hostnames, steps 00a, 00b, 08a | no edit leaves evidence it outdates (`EvidenceCurrent`), evidence is in the order of the steps (`StepsInOrder`) |
| `accounts` | 2 workers, 2 browsers, 3 accounts | an administrator remains (`AdminRemains`), the bootstrap credentials serve once (`BootstrapOnce`) and open nothing else (`InitialBlocked`) |
| `files` | 2 workers, 4 edits, cut-offs at every step | a request that was alone leaves row, file and HEAD equal (`SavedTogether`), no change stays out of HEAD (`ChangesCommitted`), no file outlives its row (`NothingLeftBehind`) |
| `files_delete` | 1 worker, 2 edits | violation, section 5 |
| `transfer` | 2 workers, 2 nodes, 2 names, 2 addresses, count up to 2 | addresses and names stay distinct (`NoConflict`), what the forms let through can be imported (`ExportsCanReturn`), an import is what was exported (`ImportsAreExports`) |
| `update` | 3 writes, environment changed or not, service running or not, fair | the service never runs on a mixture of versions (`NeverMixed`), a failure is undone (`FailureUndone`), a success keeps all data (`SuccessKeepsData`), nothing needed to go back is destroyed (`NothingDestroyed`), the service returns (`ServiceReturns`) |
| `secrets` | 2 workers, 2 projects, 2 targets, 1 login, room for 2 keys | saved passwords can be decrypted (`TokensReadable`), belong to what is saved beside them (`PasswordBelongs`), are sent nowhere else (`SentWhereMeant`); `TypeOK` |

*Bounds.* Two jobs are what every property about jobs speaks of (a job and the
one after it); three of one project would only repeat the pair, because the
UNIQUE column leaves one open. Two nodes are needed for a mixed result (one node
fails, the other is unknown) and for a command submitted but not sent when a
save fails; one node is enough for the races between workers, which are about
rows. Two nodes with two workers exceed what TLC can go through; `KeepsPromise` is
therefore checked on both instances, and section 4 proves it for all. In
`jobs_nodes` times are as small as `StaleAssumption` allows (budget 2, stale 3),
so that expiry can fall between any two steps; `jobs_live` keeps the proportions
of the code. Its actions are one on nodes and one on the standby attribute, and
the two inventories let an edit overtake a job.

In `ProjectKeys`, two keys are a first key and its replacement: installation,
rotation, revocation, and the next installation of either, by two workers that
overlap anywhere; `MaxRemote` lets a late command be overtaken by another request,
and a second one waits for it. `NetworkRollback` is about one node and needs no
bound: requests, changes and edits repeat for ever. `ProjectRecords` needs two
nodes for names to be exchanged and for 00b, two hostnames so that one is free to
be taken over, two workers for a step and a commit, and of the chain its first
two steps: the later ones have the same shape. 08a stands for the evidence that
edits delete; what depends on the SSH endpoint (00k, 00kr, 08a-fa, moved by 00c)
is not in the run and is covered by `CurrentSafe` and `OrderSafe` (section 4),
which hold for every set of steps. In `ProjectFiles`, four edits are a creation,
two overlapping edits, a deletion (which is none) and a second life of the slug.
`ProjectTransfer` needs a node to conflict with, and two addresses, which a node
uses up if it has a cluster address. `Accounts` needs a third account for one
administrator to act on while a second acts on him; the founding of a new
installation and the upgrade of an old one are both initial states. `UpdateLocal`
has one write before the stop, one on the new version and one after it. In
`StonithSecrets` two targets are enough to move a project away and back; the
second key is never made: that is what `TokensReadable` comes to, and why there
is room for it.

*Deadlock* is checked in all runs but `update`, where the script may be over
and the service may have written all it may.

*Symmetry.* Workers, nodes, inventories, hostnames, names, addresses, projects,
targets and logins are interchangeable in the safety runs, and accounts but for
the first administrator's; browsers are not used as a symmetry set. The fair runs
use no symmetry.

*Fairness.* In `ClusterJobs` (`FairSpec`): the clock advances; a worker process
serves a request to its end; threads are scheduled; the browser polls the
history of an unfinished job every two seconds (`web/static/js/app.js`), which
is what releases a stale reservation. In `NetworkRollback`: the timer of the
armed unit elapses and its service runs, and an activation follows the arming
(the code between them has only the server's own time limit, and either it
activates or the request is over). In `UpdateLocal`: the script is not suspended
and its commands return. Nothing is assumed of users, remote commands, crashes
or database errors. A crashed worker is replaced by gunicorn and serves again.

## 4. Proofs

Checked by TLAPS for all values of the constants that satisfy the assumptions:
every number of nodes, workers, jobs, keys, hostnames, steps, accounts,
addresses and writes.

* `TypeCorrect` in all eight proof modules, and `SecretsTyped`. The type
  invariants of `ProjectKeys`, `NetworkRollback`, `ProjectRecords`,
  `ProjectFiles`, `ProjectTransfer`, `Accounts` and `UpdateLocal` are proved and
  not run.
* `ClusterJobsProofs!StaleSafe`: `Spec => []StaleMeansQuiet`. The assumption is
  `StaleAssumption`: start delay + 360 + 130 + 5 - 5 <= 600, true for any start
  delay up to 110 s. `StaleMeansQuiet` is not inductive: it says nothing of a
  young job whose command has a long lease. The strengthening `StaleInv` relates
  three clocks: `LaunchInTime` (a reserved row is younger than the start delay),
  `WithinBudget` (age + time left of a running thread <= start delay + budget),
  `WithinLease` (age + lease of a running command <= stale limit + margin of the
  budget) and `NothingAhead` (a row without a thread or reservation can send
  nothing any more). Most steps neither extend a lease nor give time back; one
  lemma, `NothingGainedKeeps`, covers them, and only `Launch`, `Send`, `Reserve`
  and `Tick` need an argument of their own.
* `ClusterJobsProofs!JobsInvariant`: `Spec => []JobInv`, which the other results
  about jobs share. It says what row, thread, commands and request of a job may
  be together (`RowInv`, `ThreadInv`, `CmdInv`, `ReservedInv`): at most the last
  row is open; a reserved request has no thread and no command yet; a thread that
  has decided nothing has sent nothing; once every answer has been read, a
  command that still runs was lost and its node is marked; a row recorded PASS
  has no command. `PassQuiet` follows from it.
  `PassAchieved` needs `MetInv` as well: a facet a thread has seen as requested
  stays so while the job is open, because no other job is open and its own
  commands only move towards the requested state; what others change is
  `foreign`.
* `ClusterJobsProofs!LostIsUnknown`: `Spec => LostMeansUnknown`. When the
  verification records FAIL, a command that still runs was marked, and its mark is
  "closed": one marked lost makes the job UNKNOWN, and one that was answered has
  ended. It follows from `JobInv` (`CmdInv`) at the one step that records it.
* `ClusterJobsProofs!PromiseKept`: `Spec => KeepsPromise`, for any times,
  workers, nodes and jobs, with and without database errors. Every step of
  `ClusterJobs` is a step of `JobPromise` on the mapped variables or leaves them
  alone. It uses `JobInv`, `StaleInv`, and `UnknownInv`: a job recorded UNKNOWN
  has no request that could still launch it and no more than `Margin` seconds
  left, too few to send. This is where `Margin <= JOB_BUDGET` is assumed (6 and
  360 seconds in the code).
* `ProjectKeysProofs!KeysKept`: `Spec => NoKeyOverwritten`, for any number of
  overlapping requests. The inductive invariant says that a request in `swap`
  holds the lock with no active key on disk, that a request in `writing` holds
  it with a torn pending file, that keys on disk are distinct and were made, and
  that a pending key next to an active one excludes a previous one, so that the
  first rename of an activation never overwrites.
* `ProjectKeysProofs!ActivationSafe`, `DeletionSafe` and `ResumeSafe` hold for any
  number of overlapping requests; a worker may be killed at any point, and the
  commands of its abandoned requests may run at any later time. `SharedInv` says
  that the three files hold different keys (`OneEach`); that a removal still to
  run is of no key in use or to be used (`RemovalsSpent`), hence an acceptance,
  once reported, lasts while its key is pending or active; that what a request
  has been told of a node is true of it (`Installing`, `Revoking`), so that a
  request about to activate the key it has verified finds it accepted everywhere,
  and one about to unlink the key it has revoked finds the removal done
  everywhere. One lemma says which steps of others leave that knowledge alone.
  `ReplacementReady` is a part of the invariant: it is what a resumed rotation
  starts from.
* `NetworkRollbackProofs!NeverCut`: `[]NeverDisconnected`, for any number of
  overlapping requests and any edits between changes. `UpInv` follows the
  addresses of the sessions, which no other request can change: over the old
  profile's address a request that may delete a candidate finds the old profile
  up, one that may delete the old profile runs over the new profile's, and a
  deleted profile is not up, but for the cleanup that deletes the old profile
  itself (`bared`).
* `NetworkRollbackProofs!OldKept`, `AddressSafe` and `ArmedSafe` share `OrderInv`:
  while no request has cleaned up under another one, every session past the
  reconnection is over the new address and has verified it (`SessionOf`), and a
  deleted old profile is down (`KeptInv`, `BareInv`). `AloneInv` is what `crossed`
  buys: at most one request is past its cleanup. `ArmedInv` adds that an activation on its
  way and not verified has a rollback unit behind it that restores the old profile
  (`Coming`, `Arming`).
* `ProjectRecordsProofs!CurrentSafe` and `OrderSafe` hold whatever requests
  overlap. For the first, an edit that outdates evidence compares the form with
  the row it has loaded and may find another one in the database; the lemma
  `ClearedCovers` shows that whatever it then changes, what depends on it is
  included in what it deletes. For the second, a gate speaks of the rows it was
  checked on and the result is saved minutes later: `OrderInv` says that a step
  under way is `Ready`, that is, every step before its own has passed on each row
  it has loaded, unless its project was deleted or the row has been given the
  result of another node, and that a pass in the database is a pass of the node
  (`PassRecorded`). Gates look back one step, sometimes more; `StepsInOrder`
  itself carries them back to the first.
* `ProjectFilesProofs!SavedSafe`, `ChangesSafe` and `LeftSafe` hold however
  requests overlap and wherever they are cut off. `AloneInv` follows the request
  that is alone: what its session holds is the row, and between commit and write
  the file is older than the row. That is the point: the edit stamps the row
  (`Stamped`), so its content differs from any file left behind and is written and
  committed. The invariant of the second says that a file which HEAD does not have
  has a request on its way to git, or one that never got there. `LeftInv` adds
  that after a deletion that was alone there is neither file nor entry, and no
  request that could write or commit one before it has created a row (`Gone`).
* `ProjectTransferProofs!ImportsCorrect`: what has kept its checksums is the
  document that was exported (`ArchiveKept`), and reading it back gives the
  project it was written from if it is accepted, because hostnames are then
  distinct. `ConflictSafe` and `ReturnSafe`: a form that has been checked is clear
  of every row but those saved since (`Checked`), which is what `raced` remembers
  of it when it commits, so that an export of a project without such pairs meets
  every condition of the import but the count (the count of profiles follows from
  the map of nodes onto profiles).
* `AccountsProofs!InitialSafe`: whoever signs in while the account has the
  bootstrap password leaves its row marked. `AdminSafe` and `BootstrapSafe` follow
  from `AdminInv`: as long as nobody has changed accounts after losing the role,
  the one whose request commits is an administrator and still is one afterwards,
  because a form that would demote or delete its own author is refused and a role
  column is only written if it differs from the one loaded (`Changer`); and a
  login that found the table empty knows of every founding since (`First`).
* `UpdateAndSecretsProofs!MixedSafe`, `UndoneSafe`, `DestroyedSafe` and `SuccessSafe`
  follow from one invariant that goes through the script command by command:
  where each version's application, environment and unit file are (`AppPlaced`,
  `VenvPlaced`, `UnitPlaced`), what the flags remember (`Remembered`), that
  database and backup hold all writes (`DataKept`), when the service runs
  (`Standing`, `NeverMixed`) and what each end leaves (`Ends`).
* `UpdateAndSecretsProofs!ReadableAlways` holds however forms overlap: `KeyInv`
  says that whoever writes the key file has its lock and has found it empty, that
  whoever reads it has opened it, so that it exists, and that every token, in a
  row or in a form, was made with the key that is there. The type of a token
  rests on the same invariant. `BelongsSafe` and `SentSafe`: `BelongsInv` says of
  every form that is not `stale` that it still works on the rows it has loaded, and
  of every form that its token, and the password it is about to send, are for what
  it says, unless it took them from rows that mix two forms.

The theorems have no hypotheses but the named assumptions on constants
(`SetsAssumption`, `TimesAssumption` and `StaleAssumption` of `ClusterJobs`,
`KeysAssumption`, `RecordsAssumption` and so on), which TLC evaluates in the runs. Every invariant
and every action property of the passing runs is proved.

Out of the prover's reach, and only model-checked: liveness under fairness
(`ReservationReleased`, `ThreadEnds`, `Recovers`, `ServiceReturns`).

## 5. Where the code and its documents disagree

Shown by runs:

* `jobs_lost`, `CertainMeansQuiet`. "Command timeout or lost transport produces
  UNKNOWN" (`src/README.md:254`). When channel or transport close before the exit
  status of a command has arrived, `_collect_channel` returns
  `recv_exit_status()`, which is -1, and raises nothing
  (`core/services/ssh_bootstrap.py:165-166`). `run_operation` takes every code but
  0, 124 and 137 for `fail` (`core/services/cluster_operations.py:297-300`), so the
  job ends FAIL over a command that may still run, and the next mutation is
  admitted without a refresh. `PassMeansQuiet` still holds, and `LostMeansUnknown`
  says that this is the only way in which a verification records FAIL over a
  running command.
* `files_delete`, `DeletionServed`. A creation that is cut off between its database
  commit and its first `git add` (after `project.yaml` was removed again, or
  before it was written) leaves a row whose file neither directory nor index
  knows; `git add` ends with an error for such a path, and `delete_project` fails
  before it deletes the row. "Project deletion ... cascades database state, and
  versions the YAML removal" (`src/CHANGELOG.md:64`): this project cannot be
  deleted before an edit has written its file.

Requests that overlap. Each of these is excepted by a history variable; TLC
reports the property as violated when the conjunct with that variable is taken
out of it (in the run of the module, or where a bound is named, with that).

* `ActiveAccepted` without `file["pending"] = req[w].key`. "The key becomes active
  only after all current nodes pass" (`src/README.md:238`): `activate` takes
  whichever pending key exists, which after an overlapping installation and
  rotation is not the one verified. `ReplacementReady` without `astray`: a crash
  between its two renames then leaves a key that nodes do not know.
  `DeletedAfterRevocation` without `file["previous"] = req[w].key` (`MaxKeys = 3`):
  `revoke_previous_key` unlinks whichever previous key exists, not the one it
  revoked.
* `ArmedUntilVerified`, `OldProfileKept` and `AddressVerified` without `crossed`:
  requests for one node share the name of unit and candidate, so the second one's
  cleanup stops the first one's timer, and the candidate a request has verified
  may be another one's by the time it acts.
* `StepsInOrder` without `mistaken`: a step overtaken by a rename saves its result
  for the node that took the name, and one of a deleted project for a node of the
  next. `EvidenceCurrent` with "overtaken" for "outdated": a check that an edit has
  overtaken is saved as evidence of the present definition.
* `AdminRemains` without `crossed`: two administrators demote or delete each other,
  because the role of the author is checked when the request is admitted and not
  when it commits (`web/routes/settings.py:98`). `BootstrapOnce` without `late`: a
  login page that found no account inserts the first administrator again, after
  another worker has done so and the account was deleted; without `crossed`: a
  table that administrators have emptied between them is founded once more.
* `NoConflict` and `ExportsCanReturn` without `raced`: two additions are each
  checked before the other commits, and the import refuses what they make.
* `PasswordBelongs` and `SentWhereMeant` without `mixed`: an UPDATE writes the
  columns that differ from what its session loaded, so two overlapping forms can
  leave the endpoint of one with the password of the other, and the next
  verification sends it there.
* `NothingLeftBehind` without `raced`: an edit overlapping a deletion writes the
  file again.
* "A successful status refresh is required before further mutations"
  (`src/README.md:254`): the gate reads the rows in one transaction and the
  INSERT is another (`web/routes/cluster_operations.py:90`). A mutation admitted
  while a job still runs is reserved after that job ended UNKNOWN.
* The guard against "conflicting legacy mutations" is checked when the legacy
  request begins; a job reserved afterwards runs next to it.

One request at a time:

* Agent results are "invalidated after profile or node identity/SSH endpoint
  changes" (`src/README.md:230`): `network_apply` changes the endpoint
  (`web/routes/projects.py:610`) and invalidates nothing. `EvidenceCurrent` is about
  edits; what network_apply has moved counts as "overtaken".
* `NeverDisconnected` without `bared`. "The automatic rollback remains armed until
  SSH verification succeeds" (`web/static/js/app.js:161`), and before it is armed
  the step may cut the node off: when the renaming at the end of a change has
  failed, or its worker was killed before it
  (`core/services/network_config.py:324`), the profile that is up keeps the
  candidate's name. After another management address was entered, the cleanup of
  the next run (line 242) deletes it, with no rollback armed and the profile
  before it gone.
* `ArmedUntilVerified`, `OldProfileKept` and `AddressVerified` without
  `route = "old"`. When only prefix or gateway change ("same"), the old profile
  answers at the "new" address and the rollback is cancelled for a profile nobody
  has reached. "management network configuration is already compliant"
  (`core/services/network_config.py:196`): a second request over another interface
  ("other"), while the rollback of the first is armed, passes, its address is
  recorded, and the rollback then takes it away. `NeverDisconnected` without
  `route = "old"`: a request whose session does not depend on the old profile
  cleans up a candidate that is the profile that is up, after an earlier request
  has taken the old profile's autoconnect or deleted it.
* `CertainMeansQuiet` fails in one more way, with database errors: if the save of
  an UNKNOWN result fails, the exception handler records `fail`, which asks for no
  refresh, over a command that may still run.
* The candidate has autoconnect and the higher priority: a reboot brings it up,
  verified or not, and a later cleanup deletes the profile that is up. Hence
  `ArmedUntilVerified`, `NeverDisconnected` and `Recovers` speak of a node that
  is `steady`.
* Cancelling stops the timer, not the service it may just have started: a
  request may pass while the old profile is being restored ("loose").
* The expected node count is stored and not enforced by the forms; an over-full
  project exports to an archive that the import refuses
  (`core/services/project_transfer.py:143`, against `src/README.md:184`).
  `ExportsCanReturn` leaves it out.
* In OEM mode a saved password is cleared also when only the profile is renamed,
  although `src/README.md:256` names controller, mode and userid.
* "Users can select the light theme" (`src/README.md:72`); the allowed endpoints
  of the role `user` (`web/__init__.py:103-117`) name the theme among the
  requests and not among the endpoints, so it is refused.
* The count in `delete_user` is not what keeps the last administrator: the one who
  asks is an administrator and cannot delete himself, and among administrators
  that overlap the count is taken before the other one commits.
* "Rolls back application/database changes if verification fails"
  (`src/README.md:111`) is `FailureUndone`. A signal is no failure: the trap finds
  status 0 and restores nothing; between the two moves of the application no
  version is in its place (`NothingDestroyed` says that it can be put back by
  hand), and a reboot starts the service on what is there (section 2.8). A failure between the stop and `rollback_ready` leaves the service
  stopped; a check that fails after the start gives up what the service wrote
  meanwhile; after an interruption between the moves of application and
  environment, the next update finds the requirements unchanged and keeps the
  old environment.

## 6. Left to do

The plan was ordered by what a wrong result costs: jobs, keys, network changes,
evidence; then what is persisted next to the rows (files, archives, passwords),
accounts, and the updater. Each of these has its module. Left:

* Groups as a part of `ProjectRecords`, and the standby guard as an operator.

## 7. Not modelled

* *Standby guard, `parse_snapshot`, `desired_state`*: functions of the text of one
  `pcs` snapshot, without state. `ClusterJobs` lets every mutation be refused
  (`DecideRaise`) and every snapshot show or not show what was asked for, so its
  results hold whatever they decide. That the last available host can be lost by
  a standby issued outside ClusterWeaver after the snapshot follows from their
  reading only that snapshot, and no property claims otherwise.
* *What the STONITH checks decide* (`core/services/dell_oem.py`, `dell_ipmi.py`,
  `fence_agents.py`, `stonith.py`): they classify the answers of controllers and
  agents and change nothing; a result is pass or fail in `ProjectRecords`.
* *Script generators* (`core/generators/`): templates without state.
* *SSH transport* (`core/services/ssh_bootstrap.py`): where a connection decides
  something, that is modelled with the one who asks for it; discovery and peer
  trust only collect evidence.
* *Groups, project fields, the theme*: written by one UPDATE, and read by nothing
  that is modelled.
* *The first `git init`* of the projects directory, and `changelog.py`, which only
  reads.
* *`update.sh`, `install.sh`, `offline-container/update-code.sh`*: the last one
  has the order and the trap of `update-local.sh`, for the code mounted into a
  container. `update.sh` clones a release and runs `install.sh`, which stops the
  service, backs up the database, replaces application and environment in place
  and migrates; its trap (`src/setup/install.sh:14`) restores nothing and starts
  the service again wherever the script has failed, so after a failed migration
  new code runs on the old schema. No document promises more of it.
* *Pages, forms, browser script*: presentation and validation of single fields;
  the browser's polling is the fairness of `Poll`.
