---------------------------- MODULE WriterLeases ----------------------------
(***************************************************************************)
(* Writer leases: one SQLite store shared by several runtimes, each with   *)
(* an in-memory WriterLeaseManager of its own.                             *)
(*                                                                         *)
(* A lease is acquired against the manager's own memory first and then     *)
(* against the store, in one write transaction; it lives until it is       *)
(* released, suspended, expired or marked stale.  A runtime that starts,   *)
(* and one that is asked to use a lease it does not hold, copies the row   *)
(* into its memory, whoever acquired it.  A patch is admitted on the       *)
(* memory copy alone.                                                      *)
(*                                                                         *)
(* A member of Leases is one lease identity (a fresh uuid) together with   *)
(* the scope it is requested with; file contents and revisions are version *)
(* numbers, 0 standing for a file that does not exist.                     *)
(***************************************************************************)
EXTENDS Integers, FiniteSets, Sequences

CONSTANTS
    Runtimes,        \* WrapperRuntime instances sharing one store
    Leases,          \* lease identities
    Trees,           \* working trees
    SessionTrees,    \* the trees whose identifier starts with "session:"
    Files,           \* files of the trees
    Tasks,           \* task ids
    None,            \* "no lease", "no copy"
    Fold,            \* str.casefold on path segments
    TreeWorkspace,   \* the logical workspace of a tree
    FileTree, FilePath,
    LeaseTree, LeaseTask, LeasePaths, LeaseResources,
    WideLeases,      \* leases requested with workspace_wide=true
    Modes,           \* preserve_persistent_state of the runtimes: TRUE from both entry
                     \* points, FALSE for one that is constructed without it
    Ttl,             \* lease time to live
    MaxTime,         \* bound: the clock stops here
    MaxVersion,      \* bound: versions a file may take
    MaxHead          \* bound: revisions each tree may take

\* What a lease pins: its expiry, the base revision and the file hashes.
Pins == [exp : Nat, rev : Nat, snap : [Files -> Nat]]

ASSUME ScopeAssumption ==
    /\ SessionTrees \subseteq Trees
    /\ WideLeases \subseteq Leases
    /\ FileTree \in [Files -> Trees]
    /\ LeaseTree \in [Leases -> Trees]
    /\ LeaseTask \in [Leases -> Tasks]
    /\ None \notin Leases \cup Trees
    /\ None \notin Pins

\* A path is a sequence of segments, each of which casefold maps.
ASSUME PathAssumption ==
    /\ \A f \in Files : FilePath[f] \in Seq(DOMAIN Fold)
    /\ \A l \in Leases : LeasePaths[l] \subseteq Seq(DOMAIN Fold)

ASSUME BoundAssumption ==
    /\ Ttl \in Nat /\ Ttl > 0
    /\ Modes \subseteq BOOLEAN
    /\ MaxTime \in Nat
    /\ MaxVersion \in Nat
    /\ MaxHead \in [Trees -> Nat]

VARIABLES
    now,        \* time.time()
    rows,       \* writer_leases, by lease_id
    mem,        \* WriterLeaseManager._leases of each runtime
    op,         \* the multi-step request each runtime is in the middle of
    ckpt,       \* leases named by a restart checkpoint in a session record
    task,       \* task_ledger: lease_id and working tree of a task row, and whether its
                \* state binds the task to the lease
    content,    \* version of each file
    head        \* HEAD revision of each tree

vars == <<now, rows, mem, op, ckpt, task, content, head>>

-----------------------------------------------------------------------------
(* Scopes.                                                                 *)

Workspace(l) == TreeWorkspace[LeaseTree[l]]

Under(p, q) == Len(q) <= Len(p) /\ SubSeq(p, 1, Len(q)) = q

Folded(p) == [i \in DOMAIN p |-> Fold[p[i]]]

PathsOverlap(p, q) == Under(Folded(p), Folded(q)) \/ Under(Folded(q), Folded(p))

PathConflict(a, b) ==
    \E p \in LeasePaths[a], q \in LeasePaths[b] : PathsOverlap(p, q)

ResourceConflict(a, b) == LeaseResources[a] \cap LeaseResources[b] # {}

\* WriterLeaseManager.acquire and DirectorPersistence.save_lease.
Conflict(a, b) ==
    \/ ResourceConflict(a, b)
    \/ /\ Workspace(a) = Workspace(b)
       /\ \/ a \in WideLeases \/ b \in WideLeases
          \/ LeaseTree[a] = LeaseTree[b] /\ PathConflict(a, b)

\* WriterLeaseManager.restore: paths are compared across trees, resources only
\* inside one workspace.
RestoreConflict(a, b) ==
    /\ Workspace(a) = Workspace(b)
    /\ \/ a \in WideLeases \/ b \in WideLeases
       \/ PathConflict(a, b)
       \/ ResourceConflict(a, b)

InScope(l, f) ==
    /\ FileTree[f] = LeaseTree[l]
    /\ \E p \in LeasePaths[l] : Under(FilePath[f], p)

\* WriterLeaseManager.covers together with the working-tree check before it.
Covers(l, f) ==
    /\ FileTree[f] = LeaseTree[l]
    /\ l \in WideLeases \/ InScope(l, f)

\* The scoped file hashes a lease pins, out of a given state of the files.
ScopeOf(l, files) == [f \in Files |-> IF InScope(l, f) THEN files[f] ELSE 0]

RefreshedScope(l) ==
    IF l \in WideLeases THEN [f \in Files |-> 0] ELSE ScopeOf(l, content)

-----------------------------------------------------------------------------
(* The two copies of a lease and what each of them admits.                 *)

TerminalStates == {"released", "expired", "stale"}

RowStates == {"unissued", "deleted", "active"} \cup TerminalStates

NoPin == [exp |-> 0, rev |-> 0, snap |-> [f \in Files |-> 0]]

Holds(r, l) == mem[r][l] # None

\* Mutant: the expiry of an active row is not looked at.
LiveAtWhateverTime(rs, t, l) == rs[l].state = "active"

LiveAt(rs, t, l) == rs[l].state = "active" /\ rs[l].pin.exp > t

Live(l) == LiveAt(rows, now, l)

\* An in-memory lease whose time has run out is expired before anything else
\* is looked up: the store is told first, then the copy is dropped.
Expired(r) == {l \in Leases : Holds(r, l) /\ mem[r][l].exp <= now}

PrunedMem(r) == [l \in Leases |-> IF l \in Expired(r) THEN None ELSE mem[r][l]]

PrunedRows(r) ==
    [l \in Leases |-> IF l \in Expired(r)
                      THEN [state |-> "expired", pin |-> mem[r][l]]
                      ELSE rows[l]]

MemAdmits(m, l) == \A k \in Leases : m[k] # None => ~Conflict(k, l)

\* The checks of save_lease(state="active"), inside its write transaction.
TaskAdmits(l) ==
    LET row == task[LeaseTask[l]]
    IN  row.tree = LeaseTree[l] /\ row.state = "binding" => row.lease \in {None, l}

StoreAdmits(rs, l) ==
    /\ TaskAdmits(l)
    /\ \A k \in Leases \ {l} : LiveAt(rs, now, k) => ~Conflict(k, l)

Extended(pin) == [exp |-> now + Ttl, rev |-> pin.rev, snap |-> pin.snap]

Marked(row, s) == [state |-> s, pin |-> row.pin]

\* Mutant: a released lease is stored under a state of the manager's own.
SavedAsSuspended(rs, l, s, pin) ==
    [rs EXCEPT ![l] = [state |-> IF s = "released" THEN "suspended" ELSE s, pin |-> pin]]

Saved(rs, l, s, pin) == [rs EXCEPT ![l] = [state |-> s, pin |-> pin]]

\* What a runtime can be in the middle of.
Idle == [kind |-> "idle"]

Down == [kind |-> "down"]

PatchOps == [kind : {"patch"}, lease : Leases, file : Files]

WroteOps == [kind : {"wrote", "snapped"}, lease : Leases]

FenceOps == [kind : {"fenced"}, leases : SUBSET Leases]

Ops == {Idle, Down} \cup PatchOps \cup WroteOps \cup FenceOps

Versions == 0..MaxVersion

\* A task row, and a task nobody has claimed yet: it may be enqueued with a
\* working tree or without one.
TaskRows ==
    [lease : Leases \cup {None}, state : {"loose", "binding"}, tree : Trees \cup {None}]

FreshTasks == [lease : {None}, state : {"loose"}, tree : Trees \cup {None}]

-----------------------------------------------------------------------------
Init ==
    /\ now = 0
    /\ rows = [l \in Leases |-> [state |-> "unissued", pin |-> NoPin]]
    /\ mem = [r \in Runtimes |-> [l \in Leases |-> None]]
    /\ op = [r \in Runtimes |-> Idle]
    /\ ckpt = {}
    /\ task \in [Tasks -> FreshTasks]
    /\ content = [f \in Files |-> 0]
    /\ head = [t \in Trees |-> 0]

\* Every request that reaches the manager starts by pruning; one that goes no
\* further (status, get, active, a refused acquire) leaves only this behind.
Prune(r) ==
    /\ op[r] = Idle
    /\ Expired(r) # {}
    /\ mem' = [mem EXCEPT ![r] = PrunedMem(r)]
    /\ rows' = PrunedRows(r)
    /\ UNCHANGED <<now, op, ckpt, task, content, head>>

\* director_writer_lease acquire: the lease binds the task row when the task
\* was still queued or ready.
Acquire(r, l) ==
    /\ op[r] = Idle
    /\ rows[l].state = "unissued"
    /\ now + Ttl <= MaxTime
    /\ MemAdmits(PrunedMem(r), l)
    /\ StoreAdmits(PrunedRows(r), l)
    /\ LET pin == [exp |-> now + Ttl, rev |-> head[LeaseTree[l]],
                   snap |-> ScopeOf(l, content)]
       IN  /\ rows' = Saved(PrunedRows(r), l, "active", pin)
           /\ mem' = [mem EXCEPT ![r] = [PrunedMem(r) EXCEPT ![l] = pin]]
    /\ \/ UNCHANGED task
       \/ /\ task[LeaseTask[l]].state = "loose"
          /\ task' = [task EXCEPT ![LeaseTask[l]].lease = l, ![LeaseTask[l]].state = "binding"]
    /\ UNCHANGED <<now, op, ckpt, content, head>>

\* Mutant: the copy is written back without the checks of an activation.
RefreshUnchecked(r, l) ==
    /\ op[r] = Idle
    /\ now + Ttl <= MaxTime
    /\ PrunedMem(r)[l] # None
    /\ LET pin == Extended(mem[r][l])
       IN  /\ rows' = Saved(PrunedRows(r), l, "active", pin)
           /\ mem' = [mem EXCEPT ![r] = [PrunedMem(r) EXCEPT ![l] = pin]]
    /\ UNCHANGED <<now, op, ckpt, task, content, head>>

\* Extend the memory copy and write it back as active, whatever the row says.
Refresh(r, l) ==
    /\ op[r] = Idle
    /\ now + Ttl <= MaxTime
    /\ PrunedMem(r)[l] # None
    /\ StoreAdmits(PrunedRows(r), l)
    /\ LET pin == Extended(mem[r][l])
       IN  /\ rows' = Saved(PrunedRows(r), l, "active", pin)
           /\ mem' = [mem EXCEPT ![r] = [PrunedMem(r) EXCEPT ![l] = pin]]
    /\ UNCHANGED <<now, op, ckpt, task, content, head>>

\* The handler looks the lease up with get (which prunes), then releases it.
Release(r, l) ==
    /\ op[r] = Idle
    /\ PrunedMem(r)[l] # None
    /\ rows' = Saved(PrunedRows(r), l, "released", mem[r][l])
    /\ mem' = [mem EXCEPT ![r] = [PrunedMem(r) EXCEPT ![l] = None]]
    /\ UNCHANGED <<now, op, ckpt, task, content, head>>

-----------------------------------------------------------------------------
(* Applying a patch to one file under a lease.                             *)

PatchValidate(r, l, f) ==
    /\ op[r] = Idle
    /\ PrunedMem(r)[l] # None
    /\ Covers(l, f)
    /\ mem[r][l].rev = head[LeaseTree[l]]
    /\ l \in WideLeases \/ mem[r][l].snap[f] = content[f]
    /\ mem' = [mem EXCEPT ![r] = PrunedMem(r)]
    /\ rows' = PrunedRows(r)
    /\ op' = [op EXCEPT ![r] = [kind |-> "patch", lease |-> l, file |-> f]]
    /\ UNCHANGED <<now, ckpt, task, content, head>>

PatchWrite(r) ==
    /\ op[r].kind = "patch"
    /\ now + Ttl <= MaxTime
    /\ \E v \in Versions \ {content[op[r].file]} :
          content' = [content EXCEPT ![op[r].file] = v]
    /\ op' = [op EXCEPT ![r] = [kind |-> "wrote", lease |-> op[r].lease]]
    /\ UNCHANGED <<now, rows, mem, ckpt, task, head>>

\* The patch is rejected by the upstream tool: nothing is written.
PatchRejected(r) ==
    /\ op[r].kind = "patch"
    /\ op' = [op EXCEPT ![r] = Idle]
    /\ UNCHANGED <<now, rows, mem, ckpt, task, content, head>>

\* _director_refresh_lease_snapshot is two calls of the manager, each with a save
\* of its own.  The first, update_snapshot, pins the files as they are now and
\* leaves the expiry alone.
PatchSnapshot(r) ==
    /\ op[r].kind = "wrote"
    /\ LET l == op[r].lease
           pin == [exp |-> mem[r][l].exp, rev |-> head[LeaseTree[l]],
                   snap |-> RefreshedScope(l)]
       IN  /\ PrunedMem(r)[l] # None
           /\ StoreAdmits(PrunedRows(r), l)
           /\ rows' = Saved(PrunedRows(r), l, "active", pin)
           /\ mem' = [mem EXCEPT ![r] = [PrunedMem(r) EXCEPT ![l] = pin]]
           /\ op' = [op EXCEPT ![r] = [kind |-> "snapped", lease |-> l]]
    /\ UNCHANGED <<now, ckpt, task, content, head>>

\* The second, refresh, extends what is in memory by then.
PatchRefresh(r) ==
    /\ op[r].kind = "snapped"
    /\ LET l == op[r].lease
           pin == Extended(mem[r][l])
       IN  /\ PrunedMem(r)[l] # None
           /\ StoreAdmits(PrunedRows(r), l)
           /\ rows' = Saved(PrunedRows(r), l, "active", pin)
           /\ mem' = [mem EXCEPT ![r] = [PrunedMem(r) EXCEPT ![l] = pin]]
    /\ op' = [op EXCEPT ![r] = Idle]
    /\ UNCHANGED <<now, ckpt, task, content, head>>

\* Either call when the lease is gone from memory or the store refuses it: the
\* file stays written and the copy keeps what the call before it has pinned.
PatchFinishRefused(r) ==
    /\ op[r].kind \in {"wrote", "snapped"}
    /\ LET l == op[r].lease
       IN  \/ PrunedMem(r)[l] = None
           \/ ~StoreAdmits(PrunedRows(r), l)
    /\ mem' = [mem EXCEPT ![r] = PrunedMem(r)]
    /\ rows' = PrunedRows(r)
    /\ op' = [op EXCEPT ![r] = Idle]
    /\ UNCHANGED <<now, ckpt, task, content, head>>

-----------------------------------------------------------------------------
(* Copying rows back into memory.                                          *)

\* Mutant: a row is copied whatever the memory holds.
RestorableUnchecked(m, ls) == {l \in ls : rows[l].pin.exp > now}

\* The leases restore keeps out of a list: it goes through the list in load
\* order and skips an expired one and one that conflicts with what is already
\* there (with its own copy too, so a lease that is present keeps its copy).
Restorable(m, ls) == {l \in ls : rows[l].pin.exp > now /\ \A k \in Leases : m[k] # None => ~RestoreConflict(k, l)}

RestoredSets(m, ls) ==
    LET fit == Restorable(m, ls)
        apart(S) == \A a, b \in S : a # b => ~RestoreConflict(a, b)
    IN  {S \in SUBSET fit : /\ apart(S)
                            /\ \A l \in fit \ S : ~apart(S \cup {l})}

RestoredMem(m, S) == [l \in Leases |-> IF l \in S THEN rows[l].pin ELSE m[l]]

-----------------------------------------------------------------------------
(* _bootstrap_persisted_lease: a request names a lease this runtime does    *)
(* not hold.                                                               *)

BootstrapGuard(r, l) ==
    /\ op[r] = Idle
    /\ PrunedMem(r)[l] = None
    /\ PrunedRows(r)[l].state \in {"active", "stale"}
    /\ rows[l].pin.exp > now
    /\ task[LeaseTask[l]].lease \in {None, l}
    /\ task[LeaseTask[l]].tree \in {None, LeaseTree[l]}
    /\ l \notin WideLeases
    /\ rows[l].pin.rev = head[LeaseTree[l]]
    /\ rows[l].pin.snap = ScopeOf(l, content)
    /\ l \in Restorable(PrunedMem(r), {l})

\* A lease of a canonical tree is copied as it is, stale or active.
BootstrapCanonical(r, l) ==
    /\ LeaseTree[l] \notin SessionTrees
    /\ BootstrapGuard(r, l)
    /\ mem' = [mem EXCEPT ![r] = RestoredMem(PrunedMem(r), {l})]
    /\ rows' = PrunedRows(r)
    /\ UNCHANGED <<now, op, ckpt, task, content, head>>

\* Mutant: the stale row becomes active again without the checks of an activation.
BootstrapUnchecked(r, l) ==
    /\ LeaseTree[l] \in SessionTrees
    /\ BootstrapGuard(r, l)
    /\ rows[l].state = "stale"
    /\ now + Ttl <= MaxTime
    /\ rows' = Saved(PrunedRows(r), l, "active", Extended(rows[l].pin))
    /\ mem' = [mem EXCEPT ![r] = [RestoredMem(PrunedMem(r), {l}) EXCEPT ![l] = Extended(rows[l].pin)]]
    /\ task' = [task EXCEPT ![LeaseTask[l]].state = "binding"]
    /\ UNCHANGED <<now, op, ckpt, content, head>>

\* A stale lease of a session tree is copied and then refreshed.  When the
\* store refuses the refresh the handler gives up, but the copy stays.
BootstrapSession(r, l) ==
    /\ LeaseTree[l] \in SessionTrees
    /\ BootstrapGuard(r, l)
    /\ rows[l].state = "stale"
    /\ task[LeaseTask[l]].lease = l /\ task[LeaseTask[l]].state = "loose"
    /\ now + Ttl <= MaxTime
    /\ LET m == RestoredMem(PrunedMem(r), {l})
           pin == Extended(rows[l].pin)
       IN  \/ /\ StoreAdmits(PrunedRows(r), l)
              /\ rows' = Saved(PrunedRows(r), l, "active", pin)
              /\ mem' = [mem EXCEPT ![r] = [m EXCEPT ![l] = pin]]
              /\ task' = [task EXCEPT ![LeaseTask[l]].state = "binding"]
           \/ /\ ~StoreAdmits(PrunedRows(r), l)
              /\ rows' = PrunedRows(r)
              /\ mem' = [mem EXCEPT ![r] = m]
              /\ UNCHANGED task
    /\ UNCHANGED <<now, op, ckpt, content, head>>

-----------------------------------------------------------------------------
(* The end of a runtime, and everything outside the runtimes.              *)

\* _checkpoint_restart_sessions: when every lease this runtime holds is the one
\* lease of a session, still matches the files and has a task in flight, the
\* leases are written into the session records and new mutations are fenced off.
Checkpointable(r, l) ==
    /\ LeaseTree[l] \in SessionTrees
    /\ l \notin WideLeases
    /\ task[LeaseTask[l]].state = "binding"
    /\ task[LeaseTask[l]].tree = LeaseTree[l]
    /\ mem[r][l].snap = ScopeOf(l, content)

Fence(r) ==
    /\ op[r] = Idle
    /\ LET held == {l \in Leases : PrunedMem(r)[l] # None}
       IN  /\ \A l \in held : Checkpointable(r, l)
           /\ \A a, b \in held : a # b => LeaseTree[a] # LeaseTree[b]
           /\ op' = [op EXCEPT ![r] = [kind |-> "fenced", leases |-> held]]
           /\ ckpt' = ckpt \cup held
    /\ mem' = [mem EXCEPT ![r] = PrunedMem(r)]
    /\ rows' = PrunedRows(r)
    /\ UNCHANGED <<now, task, content, head>>

\* _abort_restart_fence: the restart could not be scheduled.
AbortFence(r) ==
    /\ op[r].kind = "fenced"
    /\ ckpt' = ckpt \ op[r].leases
    /\ op' = [op EXCEPT ![r] = Idle]
    /\ UNCHANGED <<now, rows, mem, task, content, head>>

\* Orderly shutdown: leases of session trees go stale, except the ones of a
\* restart checkpoint and of the trees (handed) whose session record a newer
\* runtime has written; canonical rows wait for their TTL.
Close(r) ==
    /\ op[r] = Idle \/ op[r].kind = "fenced"
    /\ \E handed \in SUBSET SessionTrees :
          rows' = [l \in Leases |->
                     IF /\ PrunedMem(r)[l] # None
                        /\ LeaseTree[l] \in SessionTrees \ handed
                        /\ op[r].kind = "fenced" => l \notin op[r].leases
                     THEN [state |-> "stale", pin |-> mem[r][l]]
                     ELSE PrunedRows(r)[l]]
    /\ mem' = [mem EXCEPT ![r] = [l \in Leases |-> None]]
    /\ op' = [op EXCEPT ![r] = Down]
    /\ UNCHANGED <<now, ckpt, task, content, head>>

\* The process dies in the middle of whatever it was doing.
Crash(r) ==
    /\ op[r] # Down
    /\ mem' = [mem EXCEPT ![r] = [l \in Leases |-> None]]
    /\ op' = [op EXCEPT ![r] = Down]
    /\ UNCHANGED <<now, rows, ckpt, task, content, head>>

\* _recover_restart_checkpointed_sessions: the checkpoints that still agree
\* with the rows and the files.
Recoverable ==
    {l \in ckpt : /\ Live(l)
                  /\ task[LeaseTask[l]]
                        = [lease |-> l, state |-> "binding", tree |-> LeaseTree[l]]
                  /\ rows[l].pin.snap = ScopeOf(l, content)}

\* _reconcile_restart_stale_sessions, on the rows of the trees given.
SweptRows(trees) ==
    [l \in Leases |-> IF LeaseTree[l] \in trees /\ rows[l].state = "active"
                      THEN Marked(rows[l], "stale") ELSE rows[l]]

SweptTasks(trees) ==
    [t \in Tasks |-> IF task[t].tree \in trees THEN [task[t] EXCEPT !.state = "loose"] ELSE task[t]]

\* Start-up without preserve_persistent_state: the leases of checkpointed
\* sessions (recovered) are copied into memory; every other session whose record
\* could be read (known) is restored as stale, and the active rows and binding
\* tasks of its tree go stale with it.
StartFresh(r) ==
    /\ op[r] = Down
    /\ FALSE \in Modes
    /\ \E S \in SUBSET Recoverable, known \in SUBSET SessionTrees :
       \E recovered \in RestoredSets(mem[r], S) :
          LET swept == known \ {LeaseTree[l] : l \in recovered}
          IN  /\ mem' = [mem EXCEPT ![r] = RestoredMem(mem[r], recovered)]
              /\ rows' = SweptRows(swept)
              /\ task' = SweptTasks(swept)
    /\ ckpt' = {}
    /\ op' = [op EXCEPT ![r] = Idle]
    /\ UNCHANGED <<now, content, head>>

\* The only live leases of the sessions' tasks (of) in the trees of the active
\* sessions.
SoleLeases(active, of) ==
    {l \in Leases : /\ LeaseTree[l] \in active
                    /\ {k \in Leases : /\ LeaseTree[k] = LeaseTree[l] /\ Live(k)
                                        /\ LeaseTask[k] = of[LeaseTree[k]]} = {l}}

\* Start-up with preserve_persistent_state: the one live lease of a session
\* that is still active is copied into memory, whoever holds it.
StartPreserving(r) ==
    /\ op[r] = Down
    /\ TRUE \in Modes
    /\ \E active \in SUBSET SessionTrees, of \in [SessionTrees -> Tasks] :
       \E S \in RestoredSets(mem[r], SoleLeases(active, of)) :
          mem' = [mem EXCEPT ![r] = RestoredMem(mem[r], S)]
    /\ op' = [op EXCEPT ![r] = Idle]
    /\ UNCHANGED <<now, rows, ckpt, task, content, head>>

\* release_expired_lease: the operator's compare-and-set.
ReleaseExpired(l) ==
    /\ rows[l].state = "active"
    /\ rows[l].pin.exp <= now
    /\ rows' = [rows EXCEPT ![l] = Marked(@, "released")]
    /\ UNCHANGED <<now, mem, op, ckpt, task, content, head>>

\* cleanup deletes terminal rows by age or by count.
Cleanup(l) ==
    /\ rows[l].state \in TerminalStates
    /\ rows' = [rows EXCEPT ![l] = [state |-> "deleted", pin |-> NoPin]]
    /\ UNCHANGED <<now, mem, op, ckpt, task, content, head>>

\* A task row goes stale and keeps its lease_id; resume makes it ready again and
\* clears the lease_id, and rollback_claim clears the tree as well.
TaskUnbound(t) ==
    /\ task[t].lease # None
    /\ \/ task' = [task EXCEPT ![t].state = "loose"]
       \/ task' = [task EXCEPT ![t].state = "loose", ![t].lease = None]
       \/ task' = [task EXCEPT ![t] = [lease |-> None, state |-> "loose", tree |-> None]]
    /\ UNCHANGED <<now, rows, mem, op, ckpt, content, head>>

\* bind_execution: a new session's task gets the session's tree before it is
\* leased.
TaskBound(t) ==
    /\ task[t].lease = None
    /\ \E w \in SessionTrees : task' = [task EXCEPT ![t].tree = w]
    /\ UNCHANGED <<now, rows, mem, op, ckpt, content, head>>

\* Whoever else works in the tree: an editor, a checkout that brings an old
\* version back, a commit.
ExternalEdit(f) ==
    /\ \E v \in Versions \ {content[f]} : content' = [content EXCEPT ![f] = v]
    /\ UNCHANGED <<now, rows, mem, op, ckpt, task, head>>

ExternalCommit(t) ==
    /\ head[t] < MaxHead[t]
    /\ head' = [head EXCEPT ![t] = @ + 1]
    /\ UNCHANGED <<now, rows, mem, op, ckpt, task, content>>

Tick ==
    /\ now < MaxTime
    /\ now + Ttl >= MaxTime => \A r \in Runtimes : op[r].kind \notin {"wrote", "snapped"}
    /\ now' = now + 1
    /\ UNCHANGED <<rows, mem, op, ckpt, task, content, head>>

RuntimeStep(r) ==
    \/ Prune(r)
    \/ \E l \in Leases :
          \/ Acquire(r, l) \/ Refresh(r, l) \/ Release(r, l)
          \/ \E f \in Files : PatchValidate(r, l, f)
          \/ BootstrapCanonical(r, l) \/ BootstrapSession(r, l)
    \/ PatchWrite(r) \/ PatchRejected(r)
    \/ PatchSnapshot(r) \/ PatchRefresh(r) \/ PatchFinishRefused(r)
    \/ Fence(r) \/ AbortFence(r)
    \/ Close(r) \/ Crash(r) \/ StartFresh(r) \/ StartPreserving(r)

OutsideStep ==
    \/ \E l \in Leases : ReleaseExpired(l) \/ Cleanup(l)
    \/ \E t \in Tasks : TaskUnbound(t) \/ TaskBound(t)
    \/ \E f \in Files : ExternalEdit(f)
    \/ \E t \in Trees : ExternalCommit(t)
    \/ Tick

Next == (\E r \in Runtimes : RuntimeStep(r)) \/ OutsideStep

Spec == Init /\ [][Next]_vars

\* A runtime finishes the request it is in, and wall-clock time passes.
Fairness ==
    /\ WF_vars(Tick)
    /\ \A r \in Runtimes :
          WF_vars(PatchSnapshot(r) \/ PatchRefresh(r) \/ PatchFinishRefused(r))

FairSpec == Spec /\ Fairness

-----------------------------------------------------------------------------
(* Properties.                                                             *)

\* Every variable has its type: a row is a lease state of the schema with what
\* it pins, a copy is a pin or absent.
TypeOK ==
    /\ now \in Nat
    /\ rows \in [Leases -> [state : RowStates, pin : Pins]]
    /\ mem \in [Runtimes -> [Leases -> Pins \cup {None}]]
    /\ op \in [Runtimes -> Ops]
    /\ ckpt \in SUBSET Leases
    /\ task \in [Tasks -> TaskRows]
    /\ content \in [Files -> Nat]
    /\ head \in [Trees -> Nat]

ExclusiveAt(rs, t) ==
    \A a, b \in Leases :
        a # b /\ LiveAt(rs, t, a) /\ LiveAt(rs, t, b) => ~Conflict(a, b)

\* However the runtimes interleave, crash, restore each other's leases and
\* write old copies back, two rows that are active and unexpired never
\* conflict: each activation re-checks the other rows in its transaction.
StoreExclusive == ExclusiveAt(rows, now)

\* A patch is only begun under a lease that is active in the store, as the
\* documentation of the tools says.  The code asks the memory copy alone.
PatchesNeedAnActiveLease ==
    [][\A r \in Runtimes : op[r].kind # "patch" /\ op'[r].kind = "patch" => Live(op'[r].lease)]_vars

MemExclusive(m) ==
    \A a, b \in Leases :
        a # b /\ m[a] # None /\ m[b] # None /\ Workspace(a) = Workspace(b)
        => ~Conflict(a, b)

\* One runtime never holds copies of two conflicting leases of one workspace,
\* whichever of acquire, restore and bootstrap put them there: the two
\* different conflict rules agree inside a workspace.
MemoryExclusive == \A r \in Runtimes : MemExclusive(mem[r])

\* Once no runtime holds a lease any more, the store does not keep refusing
\* one: what a crashed runtime left behind runs out by itself.
DeadLeasesRunOut ==
    \A l \in Leases :
        <>[](\A r \in Runtimes, k \in Leases : ~Holds(r, k))
           /\ <>[](\A t \in Tasks : task[t].state = "loose")
        => []<>StoreAdmits(rows, l)
=============================================================================
