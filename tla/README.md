# Formal models of chatgpt-dev-mcp

The wrapper in `src/src/chatgpt_dev_mcp` lets several chats work on one project
through MCP tools: each chat's child process keeps its own memory, all of them
share one SQLite store, and the working trees on disk are shared too. This
directory holds TLA+ models of the parts of it in which order, failure and
sharing matter, TLC runs over small instances, and proofs for every instance.

## 1. Inventory

Component | State it keeps | Operations | Hard behaviour | What makes it correct
--- | --- | --- | --- | ---
Writer leases (`director.py` WriterLeaseManager, `persistence.py` writer_leases, `server.py`) | leases in each runtime's memory with pinned revision and file hashes; rows with state and expiry; suspended leases of a fence | acquire, refresh, release, patch validate / write / finish, bootstrap, checkpoint and abort of a restart fence, start-up recovery or preservation, prune, cleanup, close | two memories and a store; expiry at any moment; crash between write and snapshot | never two conflicting live leases; no write beside another live lease; a dead lease ends
Task ledger (`director.py` TaskLedger, `persistence.py` task_ledger) | receipts in memory, rows | enqueue, start, transition, bind, roll back a claim, resume, reactivate, finish, hydrate, reconcile, correct, clean up | lost updates between runtimes; trimming; restart rules that rewrite statuses | one task per request; settled stays settled; evidence belongs to its attempt; owners do not swap
Request registry (`request_lifecycle.py`, `server.py` call_tool) | records by generation and id | accept, start, mark, retry, attach, end, disconnect, retire, reconcile | late answers, reused ids, stale heartbeats, capacity | one live request per operation; no live record lost; effects not understated
Git closeout (`git_write.py`, `git_workflow.py`, `git_hunks.py`) | preflight receipts, commit and push receipts, reservations | preflight, commit, push, publish, verify, recover | crash between command and receipt; head moves between preflight and commit | at most one commit per preflight; a receipt names what is on the branch
Integration (`director_integration.py`, `integration_queue.py`, `server.py`) | session worktree and checkout, approvals in memory, integration receipts, intents and recorded decisions in the store | preflight, confirm, integrate, by hand or through the gateway; read back | both trees are edited between any two looks at them; crash or timeout around `git apply`; one of seven records fails | only what was approved and verified is applied; a decision is carried out once; receipts and answers are true
Development sessions (`development*.py`, `server.py`) | worktree, sidecar file, row, object in memory, task and lease of each session | create, start, dispatch, edit, reclaim, integrate, close, abandon, attach, restore, resume, collect, start and end of a runtime | no two of the records change together; any effect may fail, any crash may come between two | work goes away only clean or archived; a dirty worktree keeps a handle; records tell the truth
HTTP sessions (`transport_http.py`) | sessions with their runtimes, stream state, drain flag | initialize, request, stream, delete, expire, drain | expiry against a running request, capacity, shutdown | no request on a closed runtime; capacity is respected
STDIO broker (`chatgpt_connector_compat.py`) | child generation, initialise handshake, pending request | forward, restart the child, replay | child dies between request and answer | a write is not replayed; answers match their requests
Capability gateway (`capability_*.py`, `stable_surface.py`) | preflight receipts shared by the runtimes of a process, with a limit and an expiry | preflight, execute | two runtimes execute one receipt; it expires, is pruned or bound to other arguments | a handler runs once, for what was preflighted
Workspace registry (`provisioning.py`, `project_policy.py`, `server.py`) | one JSON file with every workspace, its policy and its typed profiles; receipts | register, update, unregister, promote, create, relocate, trust, set the policy, register and remove profiles | two locks for one file, people who hold neither, failing writes and renames | no cooperating writer is overwritten; what is written was approved; trust is granted by a human; directory and registration move together
Maintenance and activation (`local_maintenance.py`, `runtime_activation.py`, `candidate_preparation.py`) | prepared artifacts and their receipts, wrapper and manifest, decisions | prepare, activate, roll back, repin, start, maintenance actions | two files and two renames with crashes in between; two controllers; a record that fails after the act | what starts was approved; a receipt has its artifact; a decision's record is true
Archive and reconciliation (`session_archive*.py`, `session_*reconciliation.py`, ...) | archives and their receipts, dispositions, reconciliation receipts, repaired identities | archive, dispose, reconcile, repair, adopt, import, restore, prune | a call is cut off between receipt, row and sidecar; the worktree is edited after it was observed | a terminal session is archived; a live one is not terminal; what was cut off can be repaired
Read-only roots (`readonly.py`) | handles | open, read, renew, close | expiry, changed directory identity | a handle reads the directory it was given for
Plans and dispatch (`director_dispatch.py`, `plan_*.py`) | plan graphs, claims | plan, claim, release | concurrent claims | each ready task is claimed once, after its dependencies
Verification (`director_verification.py`, `verification_cache.py`, ...) | receipts and cached results | plan, record, look up | tree changes after the run | a cached result is used for the same tree only
Host files and commands (`host_files.py`, `arbitrary_commands.py`, ...) | prepared operations, approvals, processes | prepare, apply, run, stop | file changes in between | apply does what was prepared

The remaining parts (GitHub, discovery, context and semantic
index, browser and desktop, cloud packaging, observability) call out to other
programs or derive data; PROJECT.json lists them with the reason they are left
out. PROJECT.json also lists the hazards, each at its line.

**Interaction.** `call_tool` (server.py:23527) reconciles and accepts a request
in the registry, runs the handler, and ends the request. Handlers change the
memory of the ledger and the lease manager and save the new rows through
`DirectorPersistence`; `save_task` refuses to settle a task with a live lease,
`save_lease` refuses a lease for a settled task or beside a conflicting live
row. A starting runtime rebuilds its memory from the rows
(`_restore_persisted_state`) and then reconciles sessions, tasks and leases.
A development session ties the components together: its handlers write a
worktree, a sidecar, rows, a task and a lease; integration takes its content to
the checkout, maintenance archives and retires what is left. Capabilities of the
gateway (workspaces, activation, maintenance, integration) are preflighted and
executed in two calls, with a receipt between them.

## 2. Modules

Module | Models | Extended by
--- | --- | ---
`WriterLeases` | both lease tables and every wrapper step on them | `MCWriterLeases`, `StoredRecords_proofs`
`TaskLedger` | both task tables and every transition | `MCTaskLedger`, `TaskLedger_proofs`
`RequestRegistry` | the registry and the callers' steps on it | `MCRequestRegistry`, `Requests_proofs`
`GitDelivery` | staging, commit and push of one task, and their recovery | `MCGitDelivery`, `GitDelivery_proofs`
`HttpSessions` | the HTTP session manager, its handler threads and its shutdown | `MCHttpSessions`, `Requests_proofs`
`SessionRecords` | what a session consists of and the single effects on it | `DevelopmentSessions`
`DevelopmentSessions` | the handlers of sessions as jobs of such effects | `MCSessions`, `DevelopmentSessions_proofs`
`KeptWork` | abstract: what a session promises about work in a worktree | instantiated by `DevelopmentSessions`
`ConfigRegistry` | the registry file, its locks and its replacement | `WorkspaceRegistry`
`WorkspaceRegistry` | the handlers of workspaces and their receipts | `CapabilityGateway`
`CapabilityGateway` | the gateway's receipts over those handlers | `MCGateway`, `CapabilityGateway_proofs`
`RuntimeArtifacts` | the preparation of candidates | `RuntimeDeployment`
`RuntimeDeployment` | wrapper, manifest, bootstrap check, repin | `RuntimeActivation`
`RuntimeActivation` | activation, rollback and maintenance decisions | `MCActivation`, `RuntimeActivation_proofs`
`SessionArchives` | capture, publication and verification of archives | `SessionEvidence`
`SessionEvidence` | what is concluded from the records of a retained session | `SessionMaintenance`
`SessionMaintenance` | the maintenance calls of a retained session | `MCMaintenance`, `StoredRecords_proofs`
`SessionIntegration` | the integration of a worktree into the checkout | `MCIntegration`, `SessionIntegration_proofs`

### WriterLeases

`rows` is the table writer_leases, `mem` the `_leases` of each runtime, `op`
what a runtime is in the middle of (a patch between its validation and its
snapshot, a fence between its checkpoint and the restart), `task` the rows of
the tasks leases are for, `files` and `head` the versions a lease pins. A step
is one transaction of the store together with the memory update under the
manager's lock; steps of a handler with a transaction, a file write or a
callback in between are separate actions (`PatchValidate`, `PatchWrite`,
`PatchSnapshot`, `PatchRefresh`: the last two are the two saves that follow a
patch). `StartFresh` is the start of a runtime with
`preserve_persistent_state=False`, `StartPreserving` with True; `Modes` says
which of them an instance has. Both entry
points pass True (server.py:23615, http_entrypoint.py:36), False is the default
of the constructor; with True the recovery of checkpointed sessions
(`_recover_restart_checkpointed_sessions`) does not run, which the comments at
server.py:2755-2758 and in `main` do not say. (The
two entry points import `production_runtime`, which is not in the repository
at this commit.)

### TaskLedger

`rows` is the table, `mem` the ledger of each runtime, `phase` how far its
start has got: hydration (`Boot`), the reconciliation of preserved sessions
(`BootStale`, one task at a time) and the end of the start (`BootDone`) are
steps of their own, since other runtimes run in between. A runtime starts in
one of the `Modes`, preserving or recovering. The field `tree` says whether a
task works in the canonical tree, in a session's or in none yet: enqueueing,
binding and rolling back a claim change it, and a restart treats the kinds
differently. Evidence fields are
the number of the attempt they were recorded in; `attempt` counts how often a
task has been taken up. `live` abstracts the lease table to what `save_task`
asks of it. Every transition computes the new receipt from the runtime's own
copy, saves the whole row and only then replaces the copy; a refused save
leaves both. Two history variables say what only a second runtime can do:
`overtaken` are the copies whose row another runtime has changed since they were
loaded or saved, `undone` the tasks of which such a copy has been saved, which the
code does not prevent (section 5). The properties are about all other copies and saves.

### RequestRegistry

`recs` is the table of records by generation and id, `order` its order of
insertion as a relation (which key came before which: eviction takes the
oldest), `stage` how far each caller has got,
`born` the generation it accepted in. Each step of a caller is one locked
operation of the registry, looked up by id and generation, whoever owns the
record by then; the history variable `strayed` holds the calls whose record another
call has so changed. Age is the time since the last heartbeat. `Reconcile` may run
at any time and need not run: `_begin_request_lifecycle` runs it for the next call
of the registry (server.py:3634). `retire_generation`,
`complete_key`, `mark_completing`, `cancel` and `timeout` have no caller in the
package at this commit, only in its tests; they are actions because the
registry offers them. Both transports serialise the requests of one connection
(a lock per HTTP session, a serial loop for STDIO), so that concurrent callers
of one registry are what its own contract ("thread-safe") promises to handle
rather than what every deployment does.

### GitDelivery

One working tree with its index, branch and remote (`work`, `index`, `log`,
`remote`); the tables git_preflight_authority (`auth`, `plan`),
git_mutation_outcomes (`receipts`) and git_closeout_receipts (`closeouts`); the
task's row as far as delivery reads it; `call`, what each runtime is doing. A
call goes through the steps of the code, and every transaction or Git command
is an action:

Action | Code
--- | ---
`Preflight` | `stage_preflight`, `stage_paths_preflight`, `commit_preflight`, `verified_commit_preflight`, `push_preflight`, when nothing blocks them
`Begin`, `Mismatch`, `RefuseBinding`, `Verify` | the handlers' bindings, and the checks of `stage`, `stage_paths`, `_verify_commit_target`, `verified_commit` and `push` up to the claim
`Claim` | `claim_git_preflight_authority`, with expiry and refused approvals as choices
`RunGit` | the next Git command: `git add`, `git commit` (of the whole index, or through a private index when others have staged something), `git push`; it succeeds, fails, or times out with or without its effect
`CheckAdded` | `verified_commit` compares the index with the candidate
`ReadBack` | `git restore --staged` after a scoped commit, and the comparison that decides the verdict
`Recover` | `_reconcile_executing_stage`, `_commit`, `_push`
`Record`, `Finish`, `Bind`, `CloseOut`, `CloseOutFailure`, `Retire` | receipt, authority, task, closeout, and the invalidation after an error
`Crash` | the process ends at any step
`Edit`, `PersonAdds`, `PersonCommits`, `PersonPushes` | people at the same tree

Git is external: a commit is a tree and a subject, known by its position in the
log. The branch only grows, so resets and non-fast-forward pushes are left out.
`runs`, `applied` and `overtaken` are history variables: how often a command
was run, whether a commit or push took place, and whether a recovery came
before its command. The task has no step that completes it (`TaskLedger` has).

### HttpSessions

`sessions`, `retired`, `created`, `last` and `closed` are the fields of one
`WrapperHTTPSessionManager` (`retired`, an ordered dictionary, as the set of its
ids with their reasons and ages, 0 the youngest); `rec` the records, which outlive their place in the
table while a thread still uses or closes them. `thread` says where each
handler of `do_POST` or `do_DELETE` is. A POST prunes (`Prune`), closes what it
has pruned (`CloseRecord`, which waits for the session's lock) and then creates
a session (`Create`, `Initialize` or `InitializeFails`, which dispatch into its
runtime without the session's lock, `RemoveFailed`, `Refuse`) or claims one (`Claim`, `Lock`, `Dispatched`, `Answer`, `Release`).
`Close` is `server_close`. Clients use the ids they were told (`told`) or ids of
an earlier server (`Strangers`). A runtime is open or closed; what a dispatch
does with it is the subject of the other modules, and what it does to the
session's request registry of `RequestRegistry`. The number of handlers is the
in-flight limit.

### SessionRecords, DevelopmentSessions and KeptWork

A session is a worktree (`tree`, with its content as a number, 0 where it is
clean), a sidecar, a row, an object per runtime, a task and a lease. No two of
them change together, so `SessionRecords` defines one effect per write and a
*job*: the sequence of effects a handler still has to make, what it undoes and
what it tolerates when one of them fails. `Progress` makes the next effect or
lets it fail, `Crash` drops the jobs. In `DevelopmentSessions` a handler checks
what the code checks at its beginning and starts a job (`Create`, `Start`,
`Dispatch`, `Edit`, `Reclaim`, `Integrate`, `Close`, `Abandon`, `AttachAgain`,
`Restore`, `Resume`, `CollectNext`, `Boot`, `CloseRuntime`, `ShutDown`). Effects on
private memory are part of the step before them. Paths of different sessions
are disjoint, so leases conflict on one worktree only; a replayed start request
is answered without an effect and left out; restarts are those of the HTTP
transport and of the broker, which preserve sessions.

`KeptWork` is the abstract specification: a worktree may be opened, written and
kept, and is discarded only clean or with its content kept. `WorkIsKept` says
that `DevelopmentSessions` implements it, with the worktrees as `disk` and the
contents that have an archive as `kept`.

### ConfigRegistry, WorkspaceRegistry and CapabilityGateway

`ConfigRegistry` has the file (`file`), the two locks and, for each runtime, the
mutation it is in: snapshot, comparison, replacement, read-back and restore are
steps. `RegistryMutationManager` and `ProjectPolicyManager` hold different locks;
an operator holds none. `lost` remembers who replaced whose bytes unread.
`WorkspaceRegistry` adds the handlers, each a preflight with a receipt kept by
its runtime and an execution; a relocation renames the directory, repairs Git's
metadata, rewrites the registry and takes back what it can when a step fails.
`CapabilityGateway` adds the receipts that all runtimes of a process share: they
expire, are pruned to a limit and are used up before the handler runs. A
capability whose authority is delegated needs no approval of the gateway. What
a handler asks of repositories, sessions, leases and tasks is not in the model:
a call refused for such a reason changes nothing and is not taken. Expiry is
found by the call that uses a receipt.

### RuntimeArtifacts, RuntimeDeployment and RuntimeActivation

An artifact is known by its role, the revision it was built from and the
database it snapshots; it and its state are moved into place by two renames.
The deployment is two files, `wrapper` and `manifest`, replaced one after the
other by activations and by `repin` without a lock, and read by the bootstrap
check of every `Start`. `RuntimeActivation` has the activation handler with its
read-backs and rollback, and `_local_maintenance_tool`, whose decision is recorded
before and after the action. `production_runtime.py` is not in the repository: the
readers and the executor it binds are taken to be the adapter's own operations.
The bootstrap check and the exec that follows are one step, and candidates
outside the managed roots are left out.

### SessionArchives, SessionEvidence and SessionMaintenance

`SessionArchives` is the pipeline of an archive (snapshot, publish, verify,
receipt), `SessionEvidence` what the runtime concludes from sidecar, row, object
and receipts (reconciliation snapshot, identity observation, evidence of a
disposition; digests are compared by comparing the values), `SessionMaintenance`
the calls: identity repair, disposition, archive, reconcile, adoption, import.
Each is a preflight and an execution whose writes are steps of their own; any
may fail and the runtime may stop between two. One runtime, whose calls follow
one another, with one plan at a time; the other handlers of a session are one
step each, and the time stamp of a sidecar is left out. `Absent` is what is not
there: no record, no archive, no worktree, no call.

### SessionIntegration

`work` is the content of a session's worktree, `canon` the checkout: its head and
a region of lines that holds nothing new, a content or somebody else's change.
Every look at a tree is a step, but for the checks right before `git apply`, which are
one step and are followed by Git's own: a call is a record with the steps it has still
to take (`todo`), what it saw and its approval. `Look` is the preflight (diff,
checkout, subsumption, evidence, conclusion), `Change` the second diff, the
checks and `git apply`, `Record` what is written after it. `receipts`, `intents` and
`grants` are the tables; `approvals` the one-time approvals of each runtime,
`pinned` the one inside a receipt of the gateway (`IntegrateTrusted`). Evidence
is the set of contents that were verified and audited (`proven`). An earlier
entry of the queue is what the rule tells apart: waited for, needed, sharing a
resource, overlapping, compatible. A write that fails leaves the runtime without
its store (`disabled`). The ghosts `raced`, `first`, `loose` and `applied` say
what a property must excuse or has to judge.

## 3. Runs

Run | Instance | Shows
--- | --- | ---
`MCLeaseShared` | 2 runtimes, canonical and session tree, 2 leases one of them workspace-wide, time to 3 with a ttl of 2 | two conflicting leases are never live together in the store (`StoreExclusive`) nor in one memory (`MemoryExclusive`)
`MCLeaseFair` | 2 runtimes that preserve their state or not, session tree, nested paths, fences and recovery, time to 2 with a ttl of 1 | two conflicting leases are never live in the store, and leases of crashed runtimes run out (`DeadLeasesRunOut`)
`MCLeasePatch` | as `MCLeaseShared`, nobody commits | the violation of `PatchesNeedAnActiveLease`, section 5
`MCLedgerShared` | 2 runtimes, 1 task of the canonical tree that may be bound to a session, 2 owners, taken up again once, both ways to start, evidence and a commit receipt | settled tasks, evidence and owners through restarts, recoveries and corrections; memory is not ahead of the store (`LedgerIsSound`); only the save of an overtaken copy is excused
`MCRegistryShared` | 3 calls sharing ids and an operation, one of them with a side effect, 1 record, 2 generations | one live request per operation; live records are kept; an effect is not understated (`RecordsAreSound`), also when ids are used again
`MCGitDelivery` | 2 runtimes, 1 preflight of any operation, a path of the task and one of others, 3 commits, 2 steps of people | the command runs at most once, receipts and authority agree with the repository (`OutcomeIsTrue`), the commit a task is bound to is in scope, what others staged stays
`MCHttpSessions` | 2 handlers and the shutdown, a table of 1 session, 2 sessions in all, time to 2 with a ttl of 1 | claims are counted on every path and the table is bounded (`TableIsSound`), only idle sessions are reaped, two requests are never in one runtime and no runtime is closed under a request (but under an initialize by the shutdown, section 5), every retired runtime is closed
`MCSessions` | 1 runtime, 2 sessions, 2 leases, 1 mishap (a crash, an expiry or a failing effect) | the work in worktrees is kept (`WorkIsKept`, the refinement); a dirty worktree stays known; running tasks, archives and integrated sessions have the trees their records say (`TreesAreSound`); a worktree is not removed under a live lease or a running task
`MCGateway` | 2 runtimes, 2 workspaces, 2 paths, 2 receipts, 1 edit by an operator, 1 failing step, every pair of handlers that meets in a registration or path | see section 1, workspace registry and gateway
`MCActivation` | 2 runtimes, 2 revisions of the source, 2 executions, 1 failing step, 1 crash, replaced database or edited source | what starts was approved; outside the excused cases the deployment starts; receipts are backed; decisions are true
`MCMaintenance` | 1 runtime, 1 session, contents 0 and 1, 2 dispositions, 3 receipts, 3 mishaps | receipts, row, sidecar, object and archives of a retained session agree (`EvidenceIsSound`, eight parts)
`MCIntegration` | 2 runtimes, a session of a head and one of a snapshot, 2 patches one of them structural, an entry ahead in the queue, 1 commit, 2 decisions, 5 events | only what was approved and verified is applied; receipts, records and answers are true and a decision is carried out once (`IntegrationIsSound`, five parts)

**Bounds.** A conflict needs two leases; a lost update or a stale copy two
runtimes; a third adds no new pair. Times: with a ttl of 2 a refreshed row
outlasts the copies made of it before, which another runtime may write back; with
a ttl of 1 a lease runs out and its scope is acquired again. `MaxAttempts` 1 (a
task is taken up again once) lets evidence of an attempt meet the one after it.
`MCLedgerShared` asks for two statuses only (`Asked`), has no receipt of a push
(`Arguments`) and enqueues in one kind of tree: the proofs of section 4 cover all
of them. `MaxAge` needs to pass both timeouts only. `MaxGeneration` 2 lets a late
answer meet a new generation.
One task never makes a ledger trim; what trimming could break is
`OneTaskPerRequest`, which is proved.
One preflight is enough for what happens to a preflight: the runtimes contend for
its authority, not for two; two contents and two outside steps let a path be
staged and committed by someone else between any two steps of a call. What ties
a push to an earlier commit (`PushBinding`) needs two preflights and is in the
model, not in a run. A table of one session is full with one and evicts
with two; two handlers are a request and what overtakes it, and the shutdown is
a third thread. Two sessions are the one that is replaced or restored and its
successor, and one mishap cuts one job off wherever it is; with two runtimes
`WorkIsKept` does not hold (section 5). In `MCGateway` a client uses the mixes of
operations named in `MCGateway.tla`; any one handler meets a policy update. Two
revisions and two executions make an activation follow, overtake or undo
another. Three mishaps let a call be cut off, its repair be cut off, and the
worktree be edited in between. Five events of an integration are, for example, two
calls, an edit, a failing step and a revert; `MaxHead` 1 lets the head move once.
Deadlock is not checked: a runtime that is idle, a clock at its bound, calls
that are all over or events that are used up may stop.

**Fairness.** `WriterLeases!FairSpec` asks that time passes and that a runtime that
has written a patch goes on to its two saves, or fails in them; a runtime may crash
for good. Of the registry no fairness is assumed: what ends a
request whose caller hangs is the reconciliation of the next call, which a connection
does not let begin while the earlier call hangs.
`HttpSessions!HttpFairSpec` asks that a thread that has begun goes on: dispatches
return and sends end with the socket's timeout (`get_request`). No request has to
arrive, and no lock is assumed to be fair beyond that. The other modules state
safety only: a job that fails or crashes is not taken up again by the code but
by the next call of a client, which nobody guarantees.

## 4. Proofs

Eight modules hold the proofs. Every theorem is about all values of the constants that
satisfy the named `ASSUME`s (evaluated by TLC in every run) and has an inductive
invariant of its own.

**`StoredRecords_proofs`** (`WriterLeases` and `SessionMaintenance`, two parts that share no
state). Of the leases: `TypeCorrect`; `StoreIsExclusive`, where
`TypeOK /\ StoreExclusive` is inductive. Steps fall in three classes, each with a
lemma: those that write a runtime's expired copies back (`PruneStep`), those that
make a row live through the checks of `save_lease` (`SaveStep`), and those after
which no row is live that was not before (`QuietStep`). `MemoryIsExclusive` is the
same for each memory; `RestoreRuleIsStricter` says why the rule of `restore` may
replace the one of `acquire` inside a workspace.

`OneLiveLeaseForAFile` is what this gives to whoever writes: no file is covered
by two live rows. `covers` compares exact paths in one tree and `save_lease` folded
paths, trees and workspaces; the lemma `BothCover` says that two leases that cover one
file conflict. `PathAssumption` (paths are sequences of segments that casefold maps) is
what lets a file under a nested scope be compared. Nothing is proved of the step
between the check of a patch and its write: the check goes by memory, and item 1 of
section 5 is what becomes of it.

`EvidenceTheorem` is `EvidenceIsSound`, all eight parts. `EvidenceInv` has those among
them that are inductive, and: the archives that have a receipt were verified
(`StoreFits`); no record is both active and stale, and one in use has an identity
(`RecordsFit`); a terminal receipt was made of eligible evidence and names the archive
it asks for, a reconciliation has the archive of the worktree it saw (`ReceiptsFit`); a
record that says cleanup_candidate has a decision, and the receipts that sidecar and row
name are of the kind they say (`DecidedFits`). `JobFits` is the longest: a call at work
has some suffix of its operation's steps to go (`StepsLeft`), the evidence it goes by is
what the preflight saw, and the step it has come to says which archive, receipt, row and
sidecar are there already (`ProgressFits`). `ActiveFits` says that a session which some
record calls active is active in all of them until a reconciliation has been recorded,
and that no archival is at work on it. That an archival cut off after its receipt can be
taken up (`CutOffIsRepairable`) is then a matter of comparing what the receipt matches
with what the invariant says of the records (`CutOffMatches`). Steps are grouped by what
they touch: handlers that leave records and receipts alone (`QuietHandlers`), executions
that begin, the steps of each operation in their order, and stops and boots. It assumes
that `Absent` is no record, content, disposition or age (`AbsentAssumption`,
`RecordAssumption`, `TaskAssumption`).

**`Requests_proofs`, the registry**: `OperationsAreExclusive` and
`LiveRequestsKeepTheirRecords`, with the types and `NoneAhead` (no record is of a
generation that has not begun). All operations but `accept` are *tame*: they add no
key, make nothing live that was not and leave a live record the record of its call.
`RecordsTheorem` says that no record understates an effect. Its invariant
(`SoundInv`) ties a record to the stage of its caller (`HonestRecord`): the effect is
marked before the tool runs, and the record of a call that is in its effect is over
only as OUTCOME_UNKNOWN. Time, pruning and reconciliation only let records *wane*.
Ids may be used again. Then one thing can go wrong, which the history variable
`strayed` excepts: a write ends as OUTCOME_UNKNOWN while its tool still
runs, another write is accepted under its id, and the end of the first tool ends the
record of the second as COMPLETED before its effect.

**`TaskLedger_proofs`**: `RequestsAreEnqueuedOnce` for any number of runtimes: a
row appears, or comes back after its deletion, only by a save that the unique index
admits (`SaveAdmits`); every other step leaves absent rows absent
(`NoneAppearsKeeps`). `LedgerTheorem`, `EvidenceTheorem`, `SettledTheorem` and
`OwnerTheorem` are the properties of `MCLedgerShared`, for any number of runtimes.
`LedgerInv` says of every copy that has not been overtaken (`CopyOK`) that it and
its row agree but where a boot has decided otherwise (`Agree`: stale in memory while
the row is in flight, review-ready while the row of a pushed task is stale), and that
the sweep of a recovering boot finds no session's task in flight in memory. A save by
one runtime overtakes the copies of the others, so that nothing has to be known of
them. Every save of a copy that is not overtaken then says what the row said, plus one
transition of the code's table, and the four properties are read off. What the save of
an overtaken copy does is item 2 of section 5.

**`GitDelivery_proofs`**: `TypeCorrect` with `Planned` (a preflight in use has a plan
whose head is still in the log); `CommandsRunOnce` with `ClaimedOnce` (nothing has
run before the claim, and at most one runtime is between claim and command);
`AuthorityIsSettledOnce`; `OthersAreLeftStaged` from `PathsInScope`.
`OutcomeTheorem` and `BoundCommitTheorem` rest on `OutcomeInv`, which follows a fact
from Git to the task: a call that ran a commit has its subject after the pinned head
(`CallKnows`); one with a verdict of success has seen on the branch, or at the remote,
what it will record (`SaysDone`); one with a failure knows that nothing was done and
that nobody is about to do it (`NothingDone`, where only a holder of the claim can, or
that a recovery overtook the command); the receipts, the authority and the task's
binding repeat what a call knew (`KeptOf`, `TaskKnows`). All of these outlast every
step, since the branch and the remote only grow and receipts are only added. A
recovery finds a push provably not done because the remote it sees is the pinned one,
which is not ahead of the pinned head (the first conjunct of `KeptOf`).

**`Requests_proofs`, the sessions of the HTTP transport** (they share no state with the registry):
`TableTheorem`, `ReapingTheorem` and `DispatchTheorem`. The
invariant `IInv` has the two checked invariants (claims are counted on every path, only
idle sessions were reaped), what a thread is about at each step (`ThreadOK`), that
whoever dispatches a request holds the lock (`LocksAreHeld`), and `Private`: nobody else
has a claim of a session that is still being created. Without it the second release of a
creation that is refused after a lost `Initialize` might take away another's claim; it is
also why `initialize`, which takes no lock, is alone in its runtime. `Spared` says
that nobody but the shutdown has a session to close that is still being created.

**`DevelopmentSessions_proofs`**: `KeptWorkTheorem`, the refinement: every step of a job is a
step that `KeptWork` allows, or a stutter, for any number of runtimes. It excludes one
thing (`Undisturbed`): that a runtime puts changes into a worktree that another has just
compared with its archive and removes next, which is item 10 of section 5. That both
remove it, or that the other touches any other worktree, is covered (`OthersFit`). A job is a sequence of effects that the handlers
join and flatten from parts whose number depends on the data, and any effect may fail.
Only the removal of an archived worktree (`prune`) can take work away. `WorkInv` says of
the list of every job: each effect is `Proper`, the answer to a failure is `Meek` (it
fills no archive, and removes a worktree only if it is clean), a `prune` comes right
after the comparison with the archive (`PrunesChecked`), and no try entered before a
comparison lets its failure be skipped (`ChecksGuarded`); where the comparison has just
been made, the worktree is as archived. `ContinueFits` shows that this outlasts an
effect, a failure and its answer, from what is left of the list; `OnlyJob` that the other
runtimes' lists outlast it too, since archives stay (`Grown`). All handlers but the collection list only `Gentle`
effects, one lemma each. Joins, tails and `FlattenSeq` get lemmas about their elements.
The last needs an induction over the parts, which is done by the least number for which
the claim fails (`Least`), since the library's induction theorems cannot be instantiated.

**`SessionIntegration_proofs`**: `OnlyApprovedTheorem` and `IntegrationTheorem`. How many
of its twelve steps a call has left says what it has established (`CallOK`): from the
look at the tree on that the patch is the approved one and proven, or the tree was
edited under it (`Backed`); after the apply that the change is in the checkout; after
each record that the record is there. `UsesOK` says that a decision that has been used
and would be found again belongs to the call that has still to mark it: this is why a
decision is carried out once.

**`CapabilityGateway_proofs`**: `ReceiptsTheorem`, `LocksTheorem`, `OnceTheorem`,
`ApprovedTheorem`, `TrustTheorem` and `RelocationTheorem`, about the registry's file, its handlers and the
gateway together. `GatewayInv` has four parts. `CallKnows` ties a call to the receipt it
is about: its change is the receipt's (or takes a relocation back), the digest it pins
is the receipt's, and what it is about to write is a result of that change on the
document it has read. `Once` says what a receipt may still be used for: one that is
fresh has not been started, one that could begin a call has had no success, and the
call that works on a receipt is alone with it; a receipt of a registration stays open
while it is worked on, so there the call is one of the runtime that owns it.
`Exclusive` and `ReadFits` are the locks: of two calls between snapshot and read-back
one is a policy update, and what is about to be replaced has been read, or was written
under the other lock. `TrustFits` follows a grant of trust from the confirmation to the
file, with a lemma for each kind of change (`ResultsFit`). Nearly every handler only
changes its call, a receipt and the counts; `EffectKeeps` is the step of those, by what
becomes of the receipt (`Rests`, `Starts`, `Reports`). `PrunedFits` counts the receipts
that pruning leaves. `DocumentAssumption`, that None is no document, says that a digest
that is not pinned is no digest. `RelocationTheorem` goes through the ways out of a
relocation that has renamed its directory (`MovingAt`): it reports success only where the
directory and the entry are (`RelocationEnds`), it gives up and says so, or its process
ends, which leaves the two `apart`; no other handler ends it (`MovingElsewhere`).

**`RuntimeActivation_proofs`**: `BackedTheorem`, `ApprovedTheorem`, `DeploymentTheorem` and
`DecisionTheorem`, each with an invariant of its own over the types (`TypeInv`, where a
job has the plan and the snapshot that its step needs). `BackedInv` follows an artifact
through its two renames (`Moved`), `DecisionInv` an action from its pending row to what
was done. `ApprovedInv` says that whatever names a committed content is approved: the
wrapper, the snapshot that a rollback would restore, the plan that is being carried
out; the difference that `repin` writes is no source's content, so nothing starts from
it. `DeployInv` is the longest: as long as nobody is excused, one activation is under
way at most; at each of its steps it is known what the two files are (`Stage`: the files
agree, or the wrapper is the plan's, or it is the snapshot's), and files and snapshots
that agree are `Sound`, their patch not ahead of their head nor that of their source.
Two facts about plans carry it: what a plan names is there and does not go back
(`Grounded`), and a plan that is still fresh was made of the deployment that is there
(`Before`), since the events of every other call make it stale. Steps that touch no
files go through `AsidePreserves`, `StillPreserves` and `OperatorPreserves`. That None is
no source (`ArtifactAssumption`) is the one assumption the proof added.

What the proofs changed in the models: two `CASE`s with overlapping guards (the verdict
of `Conclude`, and `Classify` of the archives), whose value TLA+ leaves open, became
disjoint; `Edited` is a union of sets over one bound each; `order`, `retired`, the
records of calls and those of a retained session got types that can be reasoned about.
`FinishRelocate` was weaker than the code: it looks the repository up at the destination
again (server.py:9205), without which a directory that an operator takes away in between
would end registered and gone. With that, `RelocatedTogether` holds of every relocation
that ends, not only of the last of several. `SessionMaintenance` and the modules below it
have names of their own (`MaintenanceNext`, `LiveSession`, `RuntimeStops`, `Absent`), so
that one module of proofs can extend them and the leases; `HttpSessions` has too
(`HttpNext`, `ClockTick`, `Nobody`), for the registry. In the sessions the guard in force
is the last one entered (`InForce`), found by its position, and the worktrees that are
collected are listed one by one (`CollectSteps`, `OrphanTrees`), so that each can be spoken of.

**Model-checked only**: liveness (`DeadLeasesRunOut` and `RetiredRuntimesAreClosed`), which is out of the prover's reach; and three properties of
`DevelopmentSessions`: `TreesAreSound`, `DirtyTreesAreKnown` and `RemovedOnlyWhenUnused`.
`KeptWorkTheorem` needs of a list only what stands directly before a removal. These three
need, of every job and wherever a failure or a crash cuts it off, which of its effects
are already done: an invariant per handler, position by position, which is not written.

## 5. Disagreements with the documentation, and what the models met

These are behaviours of the code that the models have. Where a document or a
comment says otherwise it is quoted. The first is shown by a run, `MCLeasePatch`; for
the others, where a property would state the contrary, its excuse is named.

**Leases and tasks.**
1. `apply_patch` goes by the memory of its runtime alone (server.py:16060,
   director.py:817). README.md:463 says "`apply_patch` and `patch_preflight` require a
   covering active lease." `MCLeasePatch` finds this: r1 acquires a lease of the
   canonical tree, r2 is asked to use it and restores it (`BootstrapCanonical`), r1
   releases it, r2 begins a patch under it. The save after the patch tells (it makes the
   row active again, or is refused when another lease has the scope), but the file is
   written by then. After a preserving start a refused
   `bootstrap_session` does the same with one runtime: the restored copy of a stale
   lease stays in memory beside the live lease that refused it.
2. Start-up reconciliation saves a whole row from its own copy (`save_task`,
   persistence.py:3391) and overwrites a transition another runtime made
   meanwhile; the comment at server.py:5538 says that the concurrent
   transition wins. So does every other transition of an overtaken copy:
   `SettledStaysSettled`, `OwnerIsGivenUpFirst` (`SavesOvertaken`) and
   `EvidenceIsOfThisAttempt` (`undone`) excuse it.
3. A pushed task that was explicitly made stale comes back as review-ready
   (director.py:1426), and a full ledger can be loaded without an active task
   (director.py:1442).
4. `_reconcile_orphaned_writer_tasks` takes a session for absent unless this
   runtime has attached it. Its docstring (server.py:18780) says "Release orphan
   session leases and stale tasks whose session is durably absent."; after a
   preserving restart the next `director_development_start` makes the running
   task of a kept session stale and releases its lease.

**Requests.**
5. An id whose outcome is not known, used again for another tool and then for the
   first one, is accepted (request_lifecycle.py:535), against the comment at
   request_lifecycle.py:525.
6. `mark_side_effect_started` asks nothing of the record's state; after
   `retire_generation`, which has no caller, an effect may happen under a record
   that says DISCONNECTED. `EffectIsNotUnderstated` is about the current
   generation. A write without a side effect whose caller dies is never settled
   (request_lifecycle.py:731).
   The caller of an earlier request takes the record of a later one with
   its id for its own (`strayed` in `EffectIsNotUnderstated`).
7. A request that has claimed its HTTP session and waits for the lock is
   dispatched after a DELETE has closed the runtime (transport_http.py:1050). An
   initialize is dispatched without that lock (transport_http.py:1004), so that the
   shutdown of the server closes the runtime under it (transport_http.py:488);
   `DispatchIsAlone` excuses this.

**Git delivery.**
8. A recovery reports a commit or push as provably unchanged (git_write.py:1241)
   while the runtime that claimed it is still about to run it.
   `OutcomeIsTrue` excuses what was `overtaken`.
9. The recovery of a push is bound to its task without `_git_push_task_binding`
   (server.py:17672): a push of the head before a commit, recovered after
   it, gives the task a push receipt for a commit that is not at the remote.

**Sessions.**
10. The collection of a worktree compares it with its archive and removes it in
    two steps; with two runtimes an edit in between is lost, which is why
    `MCSessions` has one, and what the hypothesis of `KeptWorkTheorem` excludes.
11. Preflight refuses to attach a finished session (server.py:11178: "An integrated
    session is eligible for review or cleanup, not reattach"), the execution does
    not ask again.

**Registry and gateway.**
12. Registrations and policy updates hold different locks, so that one may
    replace the other's bytes unread between comparison and rename, although
    provisioning.py:506-508 says that an edit without the lock "cannot be silently
    overwritten" and server.py:9243 "never overwrite an unrelated operator edit".
    `LocksSerialize` is about writers of the same lock.
13. A workspace registered at the destination of a relocation while it is under
    way is left without a directory when the relocation is taken back.

**Activation.**
14. A crash between the two file writes leaves a torn deployment that no call
    repairs; it does not start, and `OnlyApprovedRuns` holds. A preparation
    cut off between its two renames leaves an artifact that no later one accepts
    or replaces.
15. An activation refused with CURRENT_RUNTIME_DRIFT is answered by a rollback to
    the snapshot of an earlier activation (local_maintenance.py:894).
16. `repin` pins the hash of the uncommitted diff and leaves source_head, while the
    bootstrap check compares the commit: after a repin of a clean source the tool
    reports a restart and the runtime refuses to start. Activations that overlap
    or are overlapped by a repin have no lock. `DeploymentStarts` excuses these,
    and activations that were cut off or whose outcome is unknown.
17. A toolchain installation recorded as failed may have been carried out in part.

**Maintenance.**
18. A reconciled session that also has a disposition has two receipts that are not
    compatible, is BLOCKED from then on, and a reconcile that was cut off cannot be
    repaired, although server.py:15151 keeps the old bytes "for a later explicit
    repair attempt". The same happens after a second archive of another content,
    which, cut off in the middle, leaves row and sidecar naming different receipts.
19. The repair of a cut-off decision writes the sidecar only. An identity repair
    drops the recorded disposition from the sidecar, even when it fails.
    `write_session_sidecar` is not atomic: a crash in it can lose a session that
    has no row, whose worktree can then be adopted.
20. With two runtimes a reconcile in one and an attach in the other would make a
    live session terminal.

**Integration.**
21. `save_integration` upserts under an id made of the patch hash alone: a
    preflight that looked before the apply and records after it turns the
    receipt "applied" back into "preflight", and sessions with the same patch
    share a receipt. `ReceiptsAreTrue` is therefore one-sided.
22. A worktree cleaned between the first diff and the subsumption check gets an
    "already_subsumed" receipt for a patch that never was in the checkout.
23. Evidence bound to a task is compared with the worktree of the moment and not
    with the patch, and the gateway's route makes the approval again with the
    second diff: an edit inside a call can let an unverified patch through
    (`raced` in `OnlyApprovedIsApplied`).
24. A `git apply` that times out is answered as a conflict though it may have been
    carried out. After INTEGRATION_OUTCOME_UNKNOWN or a lost mark the decision
    stays active, and a patch that a person reverts can be applied again without
    a new confirmation (`loose` in `DecidedOnce`). After a crash between apply and
    receipt the next preflight says already_subsumed, and the session is not
    called integrated.
25. Intents are written and never read.

**Sessions, two failures in one call.**
26. The rollback of a failed `director_development_start` swallows a release of the lease
    that fails too (server.py:19641) and goes on to remove the worktree: it is gone under
    an active lease row until that runs out. `RemovedOnlyWhenUnused` excuses a clean
    worktree whose release was tried (`ReleaseTried`).

## 6. Not modelled

SQL transactions are atomic steps. Text, hashes and receipts are versions or
members of small sets. Case folding of paths is an operator (`Fold`) that no
instance makes interesting. A start of a runtime is a few steps, not one per
row. `_reconcile_persisted_workspace` (server.py:6071) and
`DirectorPersistence.reconcile` (persistence.py:4976) have no caller at this
commit and are left out. In the registry the heartbeat (no caller), annotations
and the event sink are left out. In `GitDelivery`: `git_stage_hunks`, preflights
that are blocked, and a store that refuses a write. In `HttpSessions`: framing,
health answers, the diagnostic store and the deferred actions (a request that is
done runs the restart another one has just queued, transport_http.py:1079). In the
evidence, whether a session is the active one or has an attached runtime
(server.py:14664-14670), which is taken as given. In the
sessions: restarts that do not preserve sessions, which only tests use, and a
collection that is disabled by a failed store. In the archives: their format,
and `classify_session_inventory`, which nothing calls. In integration: the
patch arithmetic of Git, which is external. The control plane package is used by
its tests and its own command line only. The STDIO broker, read-only roots,
plans, verification caches, host files and commands have state of their own and
are not modelled yet; the rest calls out to other programs or derives data
(PROJECT.json, components).

## 7. Plan

1. The STDIO broker and the deferred actions it shares with HTTP; the broker
   refines "at most once".
2. Git delivery, continued: two preflights (commit, then push), hunks, the
   delivery orchestrator; abstract specification: a branch to which a commit is
   added once.
3. Read-only roots, verification cache, host files, plan dispatch.
4. Pure algorithms: parallel facts, queue classification, hunk selection,
   against reference definitions.

Proofs to follow: `DirtyTreesAreKnown`, `TreesAreSound` and `RemovedOnlyWhenUnused` of the
sessions, on the lemmas about lists of effects in `DevelopmentSessions_proofs`.
