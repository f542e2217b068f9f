------------------------- MODULE DevelopmentSessions -------------------------
(* The handlers of managed development sessions (server.py): provisioning,  *)
(* dispatch, edits, integration, close, reattach, restore from an archive,  *)
(* resume, abandonment, the collection of terminal worktrees, and the start *)
(* and the end of a runtime that preserves sessions (the HTTP transport and *)
(* the connection broker). A handler checks what it checks when it begins,   *)
(* and is then a job of SessionRecords; the process may crash before every   *)
(* effect of it. All sessions belong to one workspace and ask for disjoint   *)
(* paths, so a lease conflicts only with a lease on the same worktree.       *)
EXTENDS SessionRecords

Begin(r, todo) ==
    /\ Continue(r, [todo |-> todo, undo |-> <<>>, safe |-> FALSE], mem[r])
    /\ UNCHANGED <<records, leases, task, work, lapsed, up, mishaps>>

\* A handler that issues the next session id, and one that issues none.
BeginWithId(r, todo) == born < MaxSessions /\ born' = born + 1 /\ Begin(r, todo)
BeginPlain(r, todo) == UNCHANGED born /\ Begin(r, todo)

Next1 == born + 1

KeepApprovals == UNCHANGED approved
ConsumeApproval(r, s) == s \in approved[r] /\ approved' = [approved EXCEPT ![r] = @ \ {s}]

\* Assigning to a session that is not in memory changes only the handler's copy.
ObjectOf(r, s, v) == IF mem[r][s] = None THEN <<>> ELSE <<Object(s, v)>>
SaveOf(r, s, v) == ObjectOf(r, s, v) \o Store(s, v)

Dirty(w) == tree[w] # None /\ tree[w] # 0
Subsumed(w) == Dirty(w) /\ <<w, tree[w]>> \in canon

\* _active_development_session, without what it writes: the selected session.
Selected(r) == IF chosen[r] # None /\ Live(r, chosen[r]) THEN chosen[r] ELSE None

-----------------------------------------------------------------------------
(* Sessions whose task can no longer own a writer.                          *)

LiveTree(r, w) == HeldOn(r, w) # {} \/ ActiveRows(w) # {}

\* _reconcile_inactive_task_sessions: the sessions it suspends.
Inactive(r) ==
    {s \in Sessions :
        LET v == mem[r][s]
        IN  /\ v # None /\ ~v.stale /\ ~Expired(s, v) /\ v.life = "active" /\ v.task # None
            /\ task[v.task].state # "ready" /\ ~LiveTree(r, v.tree)}

Reconciled(r) == Inactive(r) = {}

\* One of them: its task first, then the session; a failed write is taken back.
SuspendSteps(r, s) ==
    LET v == mem[r][s]
    IN  (IF task[v.task].state = "running" THEN <<Move(v.task, "stale")>> ELSE <<>>)
        \o <<Object(s, Marked(v, "suspended")), OnFailure(Save(s, v))>>
        \o Store(s, Marked(v, "suspended")) \o <<OnFailure(<<>>), Detach(s)>>

SuspendAll(r) == FlattenSeq([i \in 1..Cardinality(Inactive(r)) |->
                    SuspendSteps(r, SetToSortSeq(Inactive(r), LAMBDA a, b : a < b)[i])])

ReconcileInactive(r) ==
    /\ Idle(r) /\ ~Reconciled(r)
    /\ BeginPlain(r, SuspendAll(r)) /\ KeepApprovals

-----------------------------------------------------------------------------
(* Provisioning.                                                            *)

\* workspace_create_development_session: a session without a task.
Create(r) ==
    /\ Idle(r)
    /\ LET s == Next1
           v == Fresh(s, None)
       IN  BeginWithId(r, <<OnFailure(<<NoSidecar(s), DropTree(s)>>), MakeTree(s)>> \o Store(s, v)
                              \o <<Attach(s, v, "first")>>)
    /\ KeepApprovals

\* director_development_start: the task first, then what provision finds. A retry
\* of the same request is answered from the start request.
Start(r) ==
    /\ Idle(r)
    /\ BeginWithId(r, <<Enqueue(Next1, None, None), Provision(Next1)>>) /\ KeepApprovals

\* director_task_enqueue, as far as sessions are concerned.
PlanTask(r) == Idle(r) /\ BeginWithId(r, <<Enqueue(Next1, None, None)>>) /\ KeepApprovals

\* The objects after every sidecar has been read (setdefault).
Merged(r) == [s \in Sessions |-> View(r, s)]

\* _director_current_session_bindings: the sessions that count as current work.
Current(r) ==
    {s \in Sessions :
        LET v == Merged(r)[s]
        IN  /\ v # None /\ tree[v.tree] # None
            /\ \/ v.life = "active" /\ Live(r, s)
               \/ v.life = "integrated" /\ tree[v.tree] = 0
               \/ v.life = "cleanup_candidate"}

\* _reconcile_orphaned_writer_tasks: the session-bound tasks it makes stale.
OrphanTasks(r) ==
    {t \in Tasks :
        /\ task[t].state \in {"ready", "running"} /\ task[t].session # None
        /\ task[t].session \notin Current(r)
        /\ task[t].tree \notin {Merged(r)[s].tree : s \in Current(r)}}

OrphanTrees(r) ==
    {w \in Trees : HeldOn(r, w) # {}} \ {Merged(r)[s].tree : s \in Current(r)}

InOrder(S) == SetToSortSeq(S, LAMBDA a, b : a < b)
ForEach(S, Step(_)) == [i \in 1..Cardinality(S) |-> Step(InOrder(S)[i])]

\* The head of a start after its task: reconcile, release what is orphaned, count.
ProvisionSteps(r) ==
    /\ At(r, {"provision"})
    /\ LET t == Effect(r).task
       IN  IF ~Reconciled(r)
           THEN Expand(r, SuspendAll(r) \o <<Provision(t)>>)
           ELSE Continue(r, [todo |-> ForEach(OrphanTrees(r), Release)
                                      \o ForEach(OrphanTasks(r), LAMBDA u : Move(u, "stale"))
                                      \o <<Limit(t)>>,
                             undo |-> <<>>, safe |-> FALSE], Merged(r))
    /\ UNCHANGED <<records, leases, task, work, world>>

\* The sessions that use a parallel slot: those in memory and those with a lease.
Slots(r) ==
    {s \in Sessions :
        LET v == mem[r][s]
        IN  v # None /\ ~v.stale /\ ~Expired(s, v)
            /\ v.life \notin {"integrated", "cleanup_candidate", "closed"}}
    \cup {lease[n].tree : n \in {m \in Leases : lease[m].state = "active"}}

\* A plausible mistake for UndoStart: the lease is given back last.
UndoStartLeaseLast(s) ==
    <<Forget(s), NoSidecar(s), DropTree(s), RowState(s, "closed", TRUE), Release(s)>>

\* What a start undoes when a step of it fails, and its steps.
UndoStart(s) == <<Release(s), Forget(s), NoSidecar(s), DropTree(s), RowState(s, "closed", TRUE)>>

\* A plausible mistake for StartSteps: the task runs before the session is recorded.
StartStepsRunningFirst(t) ==
    <<OnFailure(UndoStart(t) \o <<Move(t, "stale")>>), MakeTree(t), Bind(t, t, t), Acquire(t, t),
      Move(t, "running")>> \o Store(t, Fresh(t, t)) \o <<Attach(t, Fresh(t, t), "first")>>

StartSteps(t) ==
    <<OnFailure(UndoStart(t) \o <<Move(t, "stale")>>), MakeTree(t)>> \o Store(t, Fresh(t, t))
    \o <<Attach(t, Fresh(t, t), "first"), Bind(t, t, t), Acquire(t, t), Move(t, "running")>>

LimitSteps(r) ==
    /\ At(r, {"limit"})
    /\ LET t == Effect(r).task
       IN  Expand(r, IF Cardinality(Slots(r)) >= MaxParallel THEN <<Move(t, "blocked")>>
                     ELSE StartSteps(t))
    /\ UNCHANGED <<records, leases, task, work, world>>

\* director_dispatch_task: the same for a planned task, which it binds last and
\* leaves as it is when it compensates.
Dispatch(r) == \E t \in Tasks :
    /\ Idle(r) /\ Reconciled(r)
    /\ task[t].state = "ready" /\ task[t].session = None
    /\ Cardinality(Slots(r)) < MaxParallel
    /\ LET s == Next1
       IN  BeginWithId(r, <<OnFailure(UndoStart(s)), MakeTree(s)>> \o Store(s, Fresh(s, t))
                          \o <<Attach(s, Fresh(s, t), "never"), Acquire(s, t), Bind(t, s, s),
                               Move(t, "running")>>)
    /\ KeepApprovals

-----------------------------------------------------------------------------
(* Work in a session.                                                       *)

\* The one active lease a running task of this session is written under.
Exact(r, s, v) ==
    /\ v.task # None /\ task[v.task].state = "running"
    /\ task[v.task].session = s /\ task[v.task].tree = v.tree
    /\ {n \in HeldOn(r, v.tree) : lease[n].task = v.task} = {task[v.task].lease}

\* A write in the worktree of a live session, and of one without a task.
Edit(r) == \E s \in Sessions : \E c \in Contents :
    /\ Idle(r) /\ Live(r, s) /\ mem[r][s].life = "active"
    /\ mem[r][s].task = None \/ Exact(r, s, mem[r][s])
    /\ tree[mem[r][s].tree] # c
    /\ tree' = [tree EXCEPT ![mem[r][s].tree] = c]
    /\ UNCHANGED <<records, objects, leases, task, archive, canon, job, world>>

\* _session_binding: a preserved session with its exact lease is attached again.
Reclaim(r) == \E s \in Sessions :
    /\ Idle(r) /\ s \notin attached[r]
    /\ LET v == mem[r][s]
       IN  /\ v # None /\ ~v.stale /\ ~Expired(s, v) /\ v.life = "active"
           /\ tree[v.tree] # None /\ Exact(r, s, v)
           /\ BeginPlain(r, <<Attach(s, v, "never"), OnFailure(<<Detach(s)>>), Row(s, v)>>)
    /\ KeepApprovals

\* _synchronize_active_session: the selected session is no longer live.
Synchronize(r) ==
    /\ Idle(r) /\ chosen[r] # None /\ ~Live(r, chosen[r])
    /\ LET s == chosen[r]
           v == mem[r][s]
           gone == v = None \/ v.life \in {"integrated", "cleanup_candidate"}
           u == IF gone THEN v ELSE [v EXCEPT !.stale = TRUE]
       IN  Continue(r, [todo |-> <<Deselect(s)>> \o IF gone THEN <<>>
                                 ELSE <<Object(s, u), LastSidecar(s, u)>>,
                        undo |-> <<>>, safe |-> TRUE], mem[r])
    /\ UNCHANGED <<records, leases, task, work, world>>

\* director_integrate_apply: the canonical tree first, then each record.
Integrate(r) == \E s \in Sessions :
    /\ Idle(r) /\ Live(r, s) /\ Exact(r, s, mem[r][s]) /\ Dirty(mem[r][s].tree)
    /\ LET v == [mem[r][s] EXCEPT !.life = "integrated"]
       IN  BeginPlain(r, <<Apply(v.tree), Object(s, v), Sidecar(s, v), Release(v.tree),
                           RowState(s, "integrated", FALSE), Move(v.task, "settled")>>)
    /\ KeepApprovals

-----------------------------------------------------------------------------
(* Close and abandonment.                                                   *)

\* A plausible mistake for Close: whatever is closed counts as integrated.
CloseAsIntegrated(r) == \E s \in Known(r) :
    /\ Idle(r) /\ tree[View(r, s).tree] # None
    /\ LET v == View(r, s)
       IN  BeginPlain(r, <<Release(v.tree)>> \o SaveOf(r, s, Marked(v, "integrated"))
                         \o <<Detach(s), Collect({})>>)
    /\ KeepApprovals

\* workspace_close_development_session. Unreviewed changes keep the worktree and
\* the task; changes the canonical tree has make the session integrated.
Close(r) == \E s \in Known(r) :
    /\ Idle(r) /\ tree[View(r, s).tree] # None
    /\ LET v == View(r, s)
           retained == v.task # None /\ Dirty(v.tree) /\ ~Subsumed(v.tree)
           settle == IF v.task # None /\ task[v.task].state = "running"
                     THEN <<Move(v.task, "stale")>> ELSE <<>>
       IN  BeginPlain(r, <<Release(v.tree)>> \o
             CASE v.life \in {"integrated", "abandoned"} ->
                    SaveOf(r, s, Marked(v, v.life)) \o <<Detach(s), Collect({})>>
               [] OTHER -> IF v.task # None /\ Subsumed(v.tree)
                    THEN settle \o SaveOf(r, s, Marked(v, "integrated")) \o <<Detach(s), Collect({})>>
                    ELSE (IF retained THEN <<>> ELSE settle)
                         \o SaveOf(r, s, Marked(v, "suspended")) \o <<Detach(s)>>)
    /\ KeepApprovals

\* development.session.abandon: the session's running tasks become stale.
Abandon(r) == \E s \in Known(r) :
    /\ Idle(r) /\ tree[View(r, s).tree] # None
    /\ View(r, s).life \notin {"integrated", "cleanup_candidate", "closed"}
    /\ LET v == View(r, s)
           its == {t \in Tasks : task[t].state = "running" /\ task[t].tree = v.tree
                                 /\ task[t].session \in {None, s}}
       IN  BeginPlain(r, <<Release(v.tree)>> \o ForEach(its, LAMBDA t : Move(t, "stale"))
                         \o SaveOf(r, s, Marked(v, "abandoned")) \o <<Detach(s), Collect({})>>)
    /\ KeepApprovals

-----------------------------------------------------------------------------
(* The way back to a retained session.                                      *)

\* find_session_archive_by_session_id: of the archives that name a session, exactly one.
Archived(s) == {a \in archive : s \in a.aliases}
Restorable(r, s) == View(r, s) = None /\ \E a \in archive : Archived(s) = {a} /\ a.pruned

\* _archived_restore_task: the only stale task of the session or its worktree.
RestoreTasks(s) ==
    {t \in Tasks : /\ task[t].state = "stale"
                   /\ \/ task[t].session = s
                      \/ \E a \in Archived(s) : task[t].tree = a.tree}

\* workspace_request_development_session_attach.
RequestAttach(r) == \E s \in Sessions :
    /\ Idle(r) /\ s \notin approved[r]
    /\ \/ Restorable(r, s) /\ Cardinality(RestoreTasks(s)) = 1 /\ Selected(r) = None
       \/ /\ s \in Known(r) /\ ~Live(r, s) /\ View(r, s).life \notin Finished
          /\ tree[View(r, s).tree] # None
    /\ approved' = [approved EXCEPT ![r] = @ \cup {s}]
    /\ UNCHANGED <<records, objects, leases, task, work, job, lapsed, born, up, mishaps>>

\* The tasks a reattach pins to the new session, and the one it writes for.
Rebound(s, v) == {t \in Tasks : /\ task[t].state # "none" /\ task[t].tree = v.tree
                                /\ task[t].session = s \/ t = v.task}
WritesFor(s, v) ==
    IF v.task # None /\ task[v.task].state # "none" THEN v.task
    ELSE IF Cardinality(Rebound(s, v)) = 1 THEN CHOOSE t \in Rebound(s, v) : TRUE ELSE None

\* A plausible mistake for AttachSteps: the old handle goes before the new one is there.
AttachStepsOldFirst(s, v, k) ==
    <<Release(v.tree), NoSidecar(s), RowState(s, "closed", TRUE), Forget(s)>>
    \o Store(k, Fresh(v.tree, v.task)) \o <<Attach(k, Fresh(v.tree, v.task), "always")>>

\* workspace_attach_development_session: the session goes on under a new id.
AttachSteps(s, v, k) ==
    LET t == WritesFor(s, v)
        new == Fresh(v.tree, v.task)
        named == Fresh(v.tree, t)
    IN  <<Release(v.tree), OnFailure(<<NoSidecar(k)>>)>> \o Store(k, new)
        \o ForEach(Rebound(s, v), LAMBDA u : Bind(u, k, v.tree))
        \o (IF t # v.task THEN Store(k, named) ELSE <<>>)
        \o (IF t # None /\ task[t].state = "stale"
            THEN <<Acquire(v.tree, t), OnFailure(<<Release(v.tree), NoSidecar(k)>>), Reactivate(t)>>
            ELSE <<>>)
        \o <<RowState(s, "stale", TRUE), NoSidecar(s), Forget(s), Attach(k, named, "always")>>

AttachAgain(r) == \E s \in Known(r) :
    /\ Idle(r) /\ Reconciled(r) /\ Selected(r) = None
    /\ ~Live(r, s) /\ tree[View(r, s).tree] # None
    /\ ConsumeApproval(r, s)
    /\ BeginWithId(r, AttachSteps(s, View(r, s), Next1))

\* A restore that fails: what has been filled stays, named by a stale session.
RestoreRecord(k) == [Fresh(k, k) EXCEPT !.life = "stale", !.stale = TRUE]

RestoreSteps(a, k) ==
    <<OnFailure(<<Salvage(k, [RestoreRecord(k) EXCEPT !.task = None])>>),
      MakeTree(k), Fill(k, a.content), Enqueue(k, k, k),
      OnFailure(<<Move(k, "stale")>> \o Store(k, RestoreRecord(k)) \o <<Object(k, RestoreRecord(k))>>)>>
    \o Store(k, RestoreRecord(k))
    \o <<Acquire(k, k),
         OnFailure(<<Release(k), Move(k, "stale")>> \o Store(k, RestoreRecord(k))
                   \o <<Object(k, RestoreRecord(k))>>),
         Move(k, "running")>>
    \o Store(k, Fresh(k, k)) \o <<Attach(k, Fresh(k, k), "always")>>

\* _restore_archived_development_session: a new session, worktree and task.
Restore(r) == \E s \in Sessions : \E a \in Archived(s) :
    /\ Idle(r) /\ Reconciled(r) /\ Selected(r) = None
    /\ Restorable(r, s) /\ Cardinality(RestoreTasks(s)) = 1
    /\ \A t \in RestoreTasks(s) : \A n \in held[r] : lease[n].task # t
    /\ ConsumeApproval(r, s)
    /\ BeginWithId(r, RestoreSteps(a, Next1))

\* The end of a failed restore: a dirty worktree is kept under a stale session.
SalvageSteps(r) ==
    /\ At(r, {"salvage"})
    /\ LET e == Effect(r)
       IN  Expand(r, CASE tree[e.session] = None -> <<>>
                       [] Dirty(e.session) -> Store(e.session, e.rec) \o <<Object(e.session, e.rec)>>
                       [] OTHER -> <<DropTree(e.session)>>)
    /\ UNCHANGED <<records, leases, task, work, world>>

\* Another, newer session of the same task that is not finished.
Superseded(r, s) ==
    \E k \in Known(r) : /\ k > s /\ View(r, k).task = View(r, s).task
                        /\ View(r, k).life \notin {"integrated", "cleanup_candidate", "closed"}
                        /\ tree[View(r, k).tree] # None

Resumable(r, s) ==
    LET v == View(r, s)
    IN  /\ v.life \notin Finished /\ v.task # None /\ tree[v.tree] # None
        /\ task[v.task].state = "stale"
        /\ task[v.task].session = s /\ task[v.task].tree = v.tree
        /\ ~Superseded(r, s)
        /\ \A n \in HeldOn(r, v.tree) : lease[n].task # v.task

\* What a resume does after its checks.
ResumeSteps(r, s) ==
    LET v == View(r, s)
        again == [Fresh(v.tree, v.task) EXCEPT !.until = lapsed[s] + 1]
    IN  <<Acquire(v.tree, v.task), OnFailure(<<Release(v.tree)>>), Reactivate(v.task),
          OnFailure(<<Release(v.tree), Move(v.task, "stale")>>)>>
        \o ObjectOf(r, s, again) \o Store(s, again) \o <<Attach(s, again, "first")>>

\* workspace_resume_development_session, and an attach beside a selected session.
Resume(r) == \E s \in Known(r) :
    /\ Idle(r) /\ Resumable(r, s)
    /\ BeginPlain(r, ResumeSteps(r, s)) /\ KeepApprovals

AttachBeside(r) == \E s \in Known(r) :
    /\ Idle(r) /\ Reconciled(r) /\ Selected(r) \notin {None, s} /\ ~Live(r, s)
    /\ Resumable(r, s)
    /\ ConsumeApproval(r, s) /\ BeginPlain(r, ResumeSteps(r, s))

-----------------------------------------------------------------------------
(* Collection of the worktrees of terminal sessions.                        *)

Aliases(r, w) == {s \in Known(r) : View(r, s).tree = w}

\* _gc_expired_clean_sessions: every session of the worktree is terminal and done
\* with it, and nothing writes there.
Collectable(r, w) ==
    /\ Aliases(r, w) # {} /\ tree[w] # None
    /\ \A s \in Aliases(r, w) : View(r, s).life \in {"integrated", "abandoned"}
    /\ \/ \A s \in Aliases(r, w) : Expired(s, View(r, s))
       \/ \A s \in Aliases(r, w) : View(r, s).stale
    /\ ~LiveTree(r, w)
    /\ \A t \in Tasks : ~(task[t].state = "running" /\ task[t].tree = w)

\* Plausible mistakes for CollectSteps: an archive only of a worktree without changes,
\* and the receipt before the removal.
CollectStepsUnarchived(r, w, done) ==
    LET rest == <<Collect(done \cup {w})>>
    IN  <<OnFailure(rest), Prune(w), Tolerant>>
        \o FlattenSeq(ForEach(Aliases(r, w), Retire)) \o rest

CollectStepsReceiptFirst(r, w, done) ==
    LET rest == <<Collect(done \cup {w})>>
    IN  <<OnFailure(rest), Publish(w, tree[w], Aliases(r, w)), MarkPruned(w, tree[w]), Prune(w),
          Tolerant>>
        \o FlattenSeq(ForEach(Aliases(r, w), Retire)) \o rest

\* One worktree: archived, marked in every record, checked once more, removed,
\* and only then closed. The archive is published before anything is touched.
CollectSteps(r, w, done) ==
    LET its == Aliases(r, w)
        rest == <<Collect(done \cup {w})>>
        marking(s, v) == ObjectOf(r, s, v) \o <<Sidecar(s, v), RowState(s, v.life, v.stale)>>
        marks == FlattenSeq(ForEach(its, LAMBDA s :
                                marking(s, Marked(View(r, s), "cleanup_candidate"))))
        back == FlattenSeq(ForEach(its, LAMBDA s : marking(s, View(r, s))))
    IN  <<OnFailure(rest), Publish(w, tree[w], its), OnFailure(back \o rest)>> \o marks
        \o <<Revalidate(w, tree[w]), Prune(w), Tolerant, MarkPruned(w, tree[w])>>
        \o FlattenSeq(ForEach(its, Retire)) \o rest

CollectNext(r) ==
    /\ At(r, {"collect"})
    /\ LET done == Effect(r).done
           todo == {w \in Trees \ done : Collectable(r, w)}
       IN  IF todo = {} THEN GoOn(r)
           ELSE Expand(r, CollectSteps(r, CHOOSE w \in todo : \A u \in todo : w <= u, done))
    /\ UNCHANGED <<records, leases, task, work, world>>

-----------------------------------------------------------------------------
(* Runtimes.                                                                *)

\* _reconcile_preserved_active_sessions: a session keeps its life only with its task
\* and exactly one active lease row, which the runtime takes over.
KeptAtBoot(s, v) ==
    /\ v # None /\ ~v.stale /\ ~Expired(s, v) /\ v.life = "active"
    /\ v.task # None /\ task[v.task].state = "running"
    /\ Cardinality({n \in ActiveRows(v.tree) : lease[n].task = v.task}) = 1

LostAtBoot(s, v) ==
    /\ v # None /\ ~v.stale /\ ~Expired(s, v) /\ v.life = "active" /\ ~KeptAtBoot(s, v)

\* _reconcile_preserved_stale_sessions: the task of a stale session that is bound to
\* it and has lost its lease.
SettledAtBoot(s, v) ==
    /\ v # None /\ (v.stale \/ LostAtBoot(s, v)) /\ v.task # None
    /\ LET t == task[v.task]
       IN  /\ t.state \in {"ready", "running"} /\ t.session = s /\ t.tree = v.tree
           /\ t.lease # None /\ lease[t.lease].state # "active"

\* _restore_session_sidecars: rows that are not closed, and sidecars before rows.
Loaded == [s \in Sessions |->
              IF side[s] # None THEN side[s]
              ELSE IF row[s] # None /\ row[s].life # "closed" THEN row[s] ELSE None]

Boot(r) ==
    /\ r \notin up /\ up' = up \cup {r}
    /\ held' = [held EXCEPT ![r] = {n \in Leases : lease[n].state = "active"}]
    /\ LET claims == ForEach({s \in Sessions : KeptAtBoot(s, Loaded[s])},
                             LAMBDA s : Claim(s, Loaded[s]))
           lost == {s \in Sessions : LostAtBoot(s, Loaded[s])}
           settled == {s \in Sessions : SettledAtBoot(s, Loaded[s])}
       IN  Continue(r, [todo |-> claims
             \o FlattenSeq(ForEach(lost, LAMBDA s : Save(s, Marked(Loaded[s], "stale"))))
             \o FlattenSeq(ForEach(settled, LAMBDA s :
                    <<Settle(Loaded[s].task), RowState(s, "stale", TRUE)>>)),
                        undo |-> <<>>, safe |-> TRUE], Loaded)
    /\ UNCHANGED <<records, lease, task, work, lapsed, born, approved, mishaps>>

\* Another runtime has saved the session since: it is not this runtime's to end.
HandedOff(r, s) == row[s] # None /\ owner[s] # r

\* WrapperRuntime.close: sessions become stale and their leases end, except those
\* another runtime has taken over.
CloseRuntime(r) ==
    /\ Idle(r) /\ Mishap
    /\ LET open == {s \in Sessions : mem[r][s] # None /\ ~mem[r][s].stale}
           done == {s \in open : mem[r][s].life \in {"integrated", "cleanup_candidate"}}
           gone == {s \in open \ done : HandedOff(r, s)}
           End(s) == LET v == Marked(mem[r][s], "stale")
                     IN  <<Object(s, v), LastSidecar(s, v), RowState(s, "stale", TRUE)>>
           steps == FlattenSeq(ForEach(open, LAMBDA s :
                        IF s \in done THEN <<LastSidecar(s, mem[r][s])>>
                        ELSE IF s \in gone THEN <<>> ELSE End(s)))
       IN  Continue(r, [todo |-> steps \o <<Suspend(Trees \ {mem[r][s].tree : s \in gone}), Shut>>,
                        undo |-> <<>>, safe |-> TRUE], mem[r])
    /\ UNCHANGED <<records, leases, task, work, lapsed, born, approved, up>>

\* A plausible mistake for NothingInMemory: a job outlives its runtime.
NothingButJobs(rs) ==
    /\ mem' = [r \in Runtimes |-> IF r \in rs THEN NoObjects ELSE mem[r]]
    /\ attached' = [r \in Runtimes |-> IF r \in rs THEN {} ELSE attached[r]]
    /\ chosen' = [r \in Runtimes |-> IF r \in rs THEN None ELSE chosen[r]]
    /\ held' = [r \in Runtimes |-> IF r \in rs THEN {} ELSE held[r]]
    /\ up' = up \ rs /\ UNCHANGED <<approved, job>>

NothingInMemory(rs) ==
    /\ mem' = [r \in Runtimes |-> IF r \in rs THEN NoObjects ELSE mem[r]]
    /\ attached' = [r \in Runtimes |-> IF r \in rs THEN {} ELSE attached[r]]
    /\ chosen' = [r \in Runtimes |-> IF r \in rs THEN None ELSE chosen[r]]
    /\ held' = [r \in Runtimes |-> IF r \in rs THEN {} ELSE held[r]]
    /\ approved' = [r \in Runtimes |-> IF r \in rs THEN {} ELSE approved[r]]
    /\ job' = [r \in Runtimes |-> IF r \in rs THEN Free ELSE job[r]]
    /\ up' = up \ rs

ShutDown(r) ==
    /\ At(r, {"shut"}) /\ NothingInMemory({r})
    /\ UNCHANGED <<records, lease, task, work, lapsed, born, mishaps>>

\* The process dies, perhaps in the middle of writing a sidecar.
Crash ==
    /\ Mishap
    /\ up # {} /\ NothingInMemory(Runtimes)
    /\ UNCHANGED side \/ \E r \in up : Torn(r)
    /\ UNCHANGED <<row, owner, lease, task, work, lapsed, born>>

\* Time passes between two handlers: the connection of a session, and a lease,
\* reach their expiry.
Quiet == \A r \in up : job[r].todo = <<>>

Lapse == \E s \in Sessions :
    /\ Quiet /\ Mishap
    /\ \E r \in Runtimes : mem[r][s] # None /\ mem[r][s].until > lapsed[s]
    /\ lapsed' = [lapsed EXCEPT ![s] = @ + 1]
    /\ UNCHANGED <<records, objects, leases, task, work, job, born, approved, up>>

LeaseLapses == \E n \in Leases :
    /\ Quiet /\ Mishap /\ lease[n].state = "active"
    /\ lease' = [lease EXCEPT ![n].state = "ended"]
    /\ held' = [r \in Runtimes |-> held[r] \ {n}]
    /\ UNCHANGED <<records, objects, task, work, job, lapsed, born, approved, up>>

-----------------------------------------------------------------------------
Handler(r) ==
    \/ ReconcileInactive(r) \/ Create(r) \/ Start(r) \/ PlanTask(r) \/ Dispatch(r)
    \/ Edit(r) \/ Reclaim(r) \/ Synchronize(r) \/ Integrate(r) \/ Close(r) \/ Abandon(r)
    \/ RequestAttach(r) \/ AttachAgain(r) \/ AttachBeside(r) \/ Restore(r) \/ Resume(r)
    \/ Boot(r) \/ CloseRuntime(r)

Progress(r) ==
    \/ EffectStep(r) \/ ProvisionSteps(r) \/ LimitSteps(r) \/ SalvageSteps(r)
    \/ CollectNext(r) \/ ShutDown(r)

Next ==
    \/ \E r \in Runtimes : Handler(r) \/ Progress(r)
    \/ Crash \/ Lapse \/ LeaseLapses

Spec == Init /\ [][Next]_vars
-----------------------------------------------------------------------------
(* Properties.                                                             *)

\* Every variable has its type, and a job exists only in a runtime that runs.
TypeOK ==
    /\ row \in [Sessions -> Records \cup {None}] /\ side \in [Sessions -> Records \cup {None}]
    /\ owner \in [Sessions -> Runtimes \cup {None}]
    /\ mem \in [Runtimes -> [Sessions -> Records \cup {None}]]
    /\ attached \in [Runtimes -> SUBSET Sessions]
    /\ chosen \in [Runtimes -> Sessions \cup {None}]
    /\ held \in [Runtimes -> SUBSET Leases]
    /\ tree \in [Trees -> Contents \cup {None}]
    /\ \A t \in Tasks : /\ task[t].state \in {"none", "ready", "running", "stale", "blocked", "settled"}
                        /\ {task[t].session, task[t].tree} \subseteq Sessions \cup {None}
                        /\ task[t].lease \in Leases \cup {None}
    /\ \A n \in Leases : lease[n].state \in {"active", "ended"}
    /\ \A a \in archive : a.tree \in Trees /\ a.content \in Contents /\ a.aliases \subseteq Sessions
    /\ canon \subseteq Trees \X Contents
    /\ lapsed \in [Sessions -> 0..MaxMishaps] /\ born \in 0..MaxSessions
    /\ \A r \in Runtimes \ up : job[r] = Free /\ approved[r] = {}

\* What sessions promise about work: unreviewed changes leave the disk only when
\* their exact content has been archived (_gc_expired_clean_sessions: "every
\* physical removal requires a verified durable recovery archive first").
Work == INSTANCE KeptWork WITH Clean <- 0, disk <- tree,
                               kept <- {<<a.tree, a.content>> : a \in archive}
WorkIsKept == Work!Spec

Named(w) ==
    \/ \E s \in Sessions : \/ side[s] # None /\ side[s].tree = w
                           \/ row[s] # None /\ row[s].life # "closed" /\ row[s].tree = w
    \/ \E a \in archive : a.content = tree[w]

\* Between two jobs a worktree with changes is named by a record that the next
\* runtime loads and by one that the present runtime finds, or its content is
\* archived: no failure and no crash leaves changes on disk that no session can
\* be reattached to, closed or abandoned for.
DirtyTreesAreKnown ==
    Quiet => \A w \in Trees : Dirty(w) =>
        /\ Named(w)
        /\ \A r \in up : \/ Aliases(r, w) # {}
                         \/ \E a \in archive : a.content = tree[w]

\* The runtime undoes a start and its release of the lease is behind it, done or failed.
ReleaseTried(r) == job[r].safe /\ \A i \in DOMAIN job[r].todo : job[r].todo[i].op # "release"

\* A worktree is removed only when nothing is running in it and no lease row
\* protects it (_gc_expired_clean_sessions). The cleanup of a failed start goes on
\* when it could not release the lease, and removes the clean worktree all the same;
\* then it has at least tried.
RemovedOnlyWhenUnused ==
    [][\A w \in Trees : tree[w] # None /\ tree'[w] = None =>
          /\ ActiveRows(w) = {} \/ (tree[w] = 0 /\ \E r \in up : ReleaseTried(r))
          /\ \A t \in Tasks : ~(task[t].state = "running" /\ task[t].tree = w)]_vars

\* A task never runs without its worktree: whatever removes one has taken the task
\* out of running before, and a provisioning that fails has not yet put it there.
RunningTaskHasTree ==
    \A t \in Tasks : task[t].state = "running" =>
        task[t].tree # None /\ tree[task[t].tree] # None

\* A session counts as integrated, and its worktree as removable, only after the
\* canonical tree has taken a content of that worktree over.
IntegratedIsApplied ==
    \A s \in Sessions : \A v \in {row[s], side[s]} :
        v # None /\ v.life = "integrated" => \E c \in Contents : <<v.tree, c>> \in canon

\* An archive receipt says pruned only of a worktree that is gone: a restore never
\* runs beside the worktree it restores (mark_session_archive_pruned).
PrunedIsGone == \A a \in archive : a.pruned => tree[a.tree] = None

\* Tasks, archive receipts, lives and worktrees fit together after every step of every
\* job.
TreesAreSound == TypeOK /\ RunningTaskHasTree /\ IntegratedIsApplied /\ PrunedIsGone
=============================================================================
