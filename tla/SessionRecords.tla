--------------------------- MODULE SessionRecords ---------------------------
(* What a managed development session consists of, and the single effects   *)
(* its handlers are made of. A session has a worktree, a sidecar file, a     *)
(* row in the store, an object in the memory of each runtime that knows it,  *)
(* a task and a writer lease; none of these changes together with another.   *)
(* A handler therefore runs a job: a sequence of effects, one step each, and *)
(* what it does when one of them fails. A crash drops the jobs.              *)
(*                                                                           *)
(* A session id also names the worktree and the task made together with the  *)
(* session. The content of a worktree is a number, 0 where it is clean.      *)
EXTENDS Integers, FiniteSets, Sequences, SequencesExt

CONSTANTS
    None,         \* no record, no worktree, no task, no lease
    Runtimes,     \* WrapperRuntime objects of the process
    MaxSessions,  \* bound: session ids ever issued
    MaxLeases,    \* bound: lease ids in use at a time
    MaxContent,   \* bound: contents of a worktree
    MaxMishaps,   \* bound: what befalls the runtimes: crashes, restarts, expiries,
                  \* and effects that fail for a reason of their own
    MaxParallel   \* isolated_development.max_parallel_sessions

ASSUME NumbersAssumption ==
    {MaxSessions, MaxLeases, MaxContent, MaxMishaps, MaxParallel}
        \subseteq Nat

ASSUME NoneAssumption == None \notin Runtimes /\ None \notin Int

VARIABLES
    row,       \* development_sessions in the store
    owner,     \* the runtime_generation of each row: the runtime that saved it last
    side,      \* the sidecar files
    mem,       \* development_sessions of each runtime
    attached,  \* _development_runtimes of each runtime
    chosen,    \* active_development_session_id of each runtime
    held,      \* the leases active in each runtime's WriterLeaseManager
    tree,      \* the worktrees on disk
    task,      \* the task ledger
    lease,     \* the rows of writer leases
    archive,   \* published archives with their receipts
    canon,     \* the contents the canonical tree has taken over
    lapsed,    \* how often each session has expired
    born,      \* session ids issued
    approved,  \* attach approvals of each runtime
    job,       \* what each runtime is in the middle of
    up,        \* the runtimes that run
    mishaps

records == <<row, owner, side>>
objects == <<mem, attached, chosen>>
leases == <<lease, held>>
work == <<tree, archive, canon>>
world == <<lapsed, born, approved, up, mishaps>>
vars == <<records, objects, leases, task, work, job, world>>

Sessions == 1..MaxSessions
Trees == Sessions
Tasks == Sessions
Leases == 1..MaxLeases
Contents == 0..MaxContent

Lives == {"active", "suspended", "stale", "integrated", "abandoned",
          "cleanup_candidate", "closed"}
Finished == {"integrated", "abandoned", "cleanup_candidate", "closed"}

\* DevelopmentSession: lifecycle_state, stale, worktree_id, task_id, expires_at.
Records == [life : Lives, stale : BOOLEAN, tree : Trees, task : Tasks \cup {None},
            until : 1..MaxMishaps + 1]

Fresh(w, t) == [life |-> "active", stale |-> FALSE, tree |-> w, task |-> t, until |-> 1]
Marked(v, life) == [v EXCEPT !.life = life, !.stale = TRUE]

Unbound == [state |-> "none", session |-> None, tree |-> None, lease |-> None]
Unleased == [state |-> "ended", tree |-> None, task |-> None]
Free == [todo |-> <<>>, undo |-> <<>>, safe |-> TRUE]

NoObjects == [s \in Sessions |-> None]

Init ==
    /\ row = NoObjects /\ side = NoObjects /\ owner = NoObjects
    /\ mem = [r \in Runtimes |-> NoObjects]
    /\ chosen = [r \in Runtimes |-> None]
    /\ attached = [r \in Runtimes |-> {}] /\ held = [r \in Runtimes |-> {}]
    /\ tree = [w \in Trees |-> None]
    /\ task = [t \in Tasks |-> Unbound]
    /\ lease = [n \in Leases |-> Unleased]
    /\ archive = {} /\ canon = {} /\ born = 0
    /\ lapsed = [s \in Sessions |-> 0]
    /\ approved = [r \in Runtimes |-> {}]
    /\ job = [r \in Runtimes |-> Free] /\ up = {}
    /\ mishaps = 0

-----------------------------------------------------------------------------
(* What a runtime sees.                                                    *)

\* One more of what befalls the runtimes.
Mishap == mishaps < MaxMishaps /\ mishaps' = mishaps + 1

Idle(r) == r \in up /\ job[r].todo = <<>>

Expired(s, v) == v.until <= lapsed[s]

\* read_session_sidecars: outside a preserving start every session is stale.
OnDisk(s) == IF side[s] = None THEN None ELSE [side[s] EXCEPT !.stale = TRUE]

\* _session_by_id: the object in memory, else the sidecar.
View(r, s) == IF mem[r][s] # None THEN mem[r][s] ELSE OnDisk(s)
Known(r) == {s \in Sessions : View(r, s) # None}

\* _session_state(...).active, for a session this runtime has attached.
Live(r, s) ==
    /\ mem[r][s] # None /\ s \in attached[r]
    /\ ~mem[r][s].stale /\ ~Expired(s, mem[r][s])
    /\ mem[r][s].life \notin {"integrated", "cleanup_candidate"}
    /\ tree[mem[r][s].tree] # None

ActiveRows(w) == {n \in Leases : lease[n].state = "active" /\ lease[n].tree = w}
HeldOn(r, w) == {n \in held[r] : lease[n].tree = w}

\* The lease ids that no row, memory or task still means.
FreeLeases == {n \in Leases : /\ lease[n].state = "ended"
                              /\ \A r \in Runtimes : n \notin held[r]
                              /\ \A t \in Tasks : task[t].lease # n}

-----------------------------------------------------------------------------
(* Effects, as a job lists them.                                           *)

MakeTree(w) == [op |-> "make", tree |-> w]
DropTree(w) == [op |-> "drop", tree |-> w]
Fill(w, c) == [op |-> "fill", tree |-> w, content |-> c]
Prune(w) == [op |-> "prune", tree |-> w]
Sidecar(s, v) == [op |-> "sidecar", session |-> s, rec |-> v]
LastSidecar(s, v) == [op |-> "closing", session |-> s, rec |-> v]
NoSidecar(s) == [op |-> "unlink", session |-> s]
Row(s, v) == [op |-> "row", session |-> s, rec |-> v]
RowState(s, life, stale) == [op |-> "state", session |-> s, life |-> life, stale |-> stale]
Object(s, v) == [op |-> "object", session |-> s, rec |-> v]
Attach(s, v, choose) == [op |-> "attach", session |-> s, rec |-> v, choose |-> choose]
Detach(s) == [op |-> "detach", session |-> s]
Deselect(s) == [op |-> "deselect", session |-> s]
Forget(s) == [op |-> "forget", session |-> s]
Acquire(w, t) == [op |-> "acquire", tree |-> w, task |-> t]
Release(w) == [op |-> "release", tree |-> w]
Enqueue(t, s, w) == [op |-> "enqueue", task |-> t, session |-> s, tree |-> w]
Bind(t, s, w) == [op |-> "bind", task |-> t, session |-> s, tree |-> w]
Move(t, state) == [op |-> "move", task |-> t, state |-> state]
Reactivate(t) == [op |-> "reactivate", task |-> t]
Publish(w, c, aliases) == [op |-> "publish", tree |-> w, content |-> c, aliases |-> aliases]
Revalidate(w, c) == [op |-> "revalidate", tree |-> w, content |-> c]
MarkPruned(w, c) == [op |-> "pruned", tree |-> w, content |-> c]
Retire(s) == <<[op |-> "close", session |-> s], [op |-> "clear", session |-> s], Forget(s)>>
Claim(s, v) == [op |-> "claim", session |-> s, rec |-> v]
Settle(t) == [op |-> "settle", task |-> t, state |-> "stale"]
Salvage(s, v) == [op |-> "salvage", session |-> s, rec |-> v]
Apply(w) == [op |-> "apply", tree |-> w]
Suspend(ws) == [op |-> "suspend", trees |-> ws]
Shut == [op |-> "shut"]
Limit(t) == [op |-> "limit", task |-> t]
Collect(done) == [op |-> "collect", done |-> done]
Provision(t) == [op |-> "provision", task |-> t]

\* From here on a failure is answered with undo; safe skips what fails.
OnFailure(undo) == [op |-> "guard", undo |-> undo, safe |-> FALSE]
Tolerant == [op |-> "guard", undo |-> <<>>, safe |-> TRUE]

\* write_session_sidecar and _persist_development_session, as handlers call them.
Store(s, v) == <<Sidecar(s, v), Row(s, v)>>
Save(s, v) == <<Object(s, v)>> \o Store(s, v)

\* TaskLedger.transition, as far as sessions use it.
Moves == {<<"ready", "running">>, <<"ready", "stale">>, <<"ready", "blocked">>,
          <<"running", "stale">>, <<"running", "settled">>}

\* Whether an effect can take place at all; otherwise it raises.
Possible(r, e) ==
    CASE e.op = "make" -> tree[e.tree] = None
      [] e.op \in {"fill", "drop"} -> tree[e.tree] = 0   \* git removes only a clean worktree
      [] e.op = "acquire" -> HeldOn(r, e.tree) = {} /\ ActiveRows(e.tree) = {} /\ FreeLeases # {}
      [] e.op \in {"move", "settle"} ->
            /\ <<task[e.task].state, e.state>> \in Moves
            /\ e.state = "running" => HeldOn(r, task[e.task].tree) # {}
      [] e.op = "bind" -> task[e.task].state # "none"
      [] e.op = "reactivate" -> task[e.task].state = "stale" /\ HeldOn(r, task[e.task].tree) # {}
      [] e.op = "publish" -> tree[e.tree] = e.content
      [] e.op = "revalidate" ->
            /\ tree[e.tree] = e.content
            /\ \E a \in archive : a.tree = e.tree /\ a.content = e.content /\ ~a.pruned
      [] e.op = "prune" -> tree[e.tree] # None
      [] OTHER -> TRUE

\* Effects on the runtime's own memory, which nothing else reads: they take effect
\* together with the step before them.
Private == {"object", "attach", "detach", "deselect", "forget", "guard"}
Silent == {"collect", "provision", "limit", "salvage", "shut"}

Leading(todo) == {i \in DOMAIN todo : \A k \in 1..i : todo[k].op \in Private}

Enact(st, e) ==
    CASE e.op = "guard" -> st
      [] e.op = "object" -> [st EXCEPT !.mem[e.session] = e.rec]
      [] e.op = "attach" ->
            [st EXCEPT !.mem[e.session] = e.rec, !.attached = @ \cup {e.session},
                       !.chosen = IF e.choose = "always" \/ (e.choose = "first" /\ @ = None)
                                  THEN e.session ELSE @]
      [] OTHER ->
            [st EXCEPT !.mem[e.session] = IF e.op = "forget" THEN None ELSE @,
                       !.attached = IF e.op = "deselect" THEN @ ELSE @ \ {e.session},
                       !.chosen = IF @ = e.session THEN None ELSE @]

\* The objects after the first n of these effects.
Enacted(st, todo, n) ==
    LET after[i \in 0..n] == IF i = 0 THEN st ELSE Enact(after[i - 1], todo[i])
    IN  after[n]

\* The guard in force after these effects: the last of them, else the job's own.
InForce(j, done) ==
    LET guards == {i \in done : j.todo[i].op = "guard"}
    IN  IF guards = {} THEN j ELSE j.todo[CHOOSE i \in guards : \A k \in guards : k <= i]

\* The runtime goes on with these effects, from the objects it has now.
Continue(r, j, objs) ==
    LET n == Cardinality(Leading(j.todo))
        on == InForce(j, Leading(j.todo))
        st == Enacted([mem |-> objs, attached |-> attached[r], chosen |-> chosen[r]], j.todo, n)
        rest == SubSeq(j.todo, n + 1, Len(j.todo))
    IN  /\ mem' = [mem EXCEPT ![r] = st.mem]
        /\ attached' = [attached EXCEPT ![r] = st.attached]
        /\ chosen' = [chosen EXCEPT ![r] = st.chosen]
        /\ job' = [job EXCEPT ![r] = IF rest = <<>> THEN Free
                                     ELSE [todo |-> rest, undo |-> on.undo, safe |-> on.safe]]

Effect(r) == Head(job[r].todo)
At(r, ops) == r \in up /\ job[r].todo # <<>> /\ Effect(r).op \in ops
Does(r, ops) == At(r, ops) /\ Possible(r, Effect(r))
GoOn(r) == Continue(r, [job[r] EXCEPT !.todo = Tail(@)], mem[r])
Expand(r, steps) == Continue(r, [job[r] EXCEPT !.todo = steps], mem[r])

\* create_detached_worktree, remove_detached_worktree and the forced removal of an
\* archived worktree.
ChangeWorktree(r) ==
    /\ Does(r, {"make", "drop", "prune"})
    /\ tree' = [tree EXCEPT ![Effect(r).tree] = IF Effect(r).op = "make" THEN 0 ELSE None]
    /\ GoOn(r) /\ UNCHANGED <<records, leases, task, archive, canon, world>>

\* SessionArchiveRestorer.restore: patch and files of the verified archive, into a
\* clean worktree at its base.
FillWorktree(r) ==
    /\ Does(r, {"fill"})
    /\ tree' = [tree EXCEPT ![Effect(r).tree] = Effect(r).content]
    /\ GoOn(r) /\ UNCHANGED <<records, leases, task, archive, canon, world>>

\* write_session_sidecar and delete_session_sidecar.
ChangeSidecar(r) ==
    /\ Does(r, {"sidecar", "closing", "unlink", "clear"})
    /\ side' = [side EXCEPT ![Effect(r).session] =
                   IF Effect(r).op \in {"unlink", "clear"} THEN None ELSE Effect(r).rec]
    /\ GoOn(r) /\ UNCHANGED <<row, owner, leases, task, work, world>>

\* _persist_development_session: the row names the runtime that saved it.
SaveRow(r) ==
    /\ Does(r, {"row", "claim"})
    /\ row' = [row EXCEPT ![Effect(r).session] = Effect(r).rec]
    /\ owner' = [owner EXCEPT ![Effect(r).session] = r]
    /\ GoOn(r) /\ UNCHANGED <<side, leases, task, work, world>>

\* update_development_session_state: an UPDATE, without effect where no row is.
SetRowState(r) ==
    /\ Does(r, {"state", "close"})
    /\ LET e == Effect(r)
           v == IF e.op = "close" THEN [life |-> "closed", stale |-> TRUE] ELSE e
       IN  row' = [row EXCEPT ![e.session] =
                      IF @ = None THEN None ELSE [@ EXCEPT !.life = v.life, !.stale = v.stale]]
    /\ GoOn(r) /\ UNCHANGED <<owner, side, leases, task, work, world>>

AcquireLease(r) ==
    /\ Does(r, {"acquire"})
    /\ LET n == CHOOSE m \in FreeLeases : \A k \in FreeLeases : m <= k
       IN  /\ lease' = [lease EXCEPT ![n] = [state |-> "active", tree |-> Effect(r).tree,
                                             task |-> Effect(r).task]]
           /\ held' = [held EXCEPT ![r] = @ \cup {n}]
    /\ GoOn(r) /\ UNCHANGED <<records, task, work, world>>

\* _release_session_leases and close: the leases this runtime has in memory,
\* and no others.
EndLeases(r) ==
    /\ Does(r, {"release", "suspend"})
    /\ LET trees == IF Effect(r).op = "release" THEN {Effect(r).tree} ELSE Effect(r).trees
           ended == UNION {HeldOn(r, w) : w \in trees}
       IN  /\ lease' = [n \in Leases |-> IF n \in ended THEN [lease[n] EXCEPT !.state = "ended"]
                                         ELSE lease[n]]
           /\ held' = [held EXCEPT ![r] = @ \ ended]
    /\ GoOn(r) /\ UNCHANGED <<records, task, work, world>>

TaskAfter(r, e) ==
    LET now == task[e.task]
        its == IF HeldOn(r, now.tree) = {} THEN None ELSE CHOOSE n \in HeldOn(r, now.tree) : TRUE
    IN  CASE e.op = "enqueue" -> [Unbound EXCEPT !.state = "ready", !.session = e.session,
                                              !.tree = e.tree]
          [] e.op = "bind" -> [now EXCEPT !.session = e.session, !.tree = e.tree]
          [] e.op = "reactivate" -> [now EXCEPT !.state = "running", !.lease = its]
          [] OTHER -> [now EXCEPT !.state = e.state,
                                  !.lease = IF e.state = "running" THEN its ELSE @]

\* enqueue, bind_execution, transition and reactivate of the ledger.
ChangeTask(r) ==
    /\ Does(r, {"enqueue", "bind", "move", "settle", "reactivate"})
    /\ task' = [task EXCEPT ![Effect(r).task] = TaskAfter(r, Effect(r))]
    /\ GoOn(r) /\ UNCHANGED <<records, leases, work, world>>

\* prepare_archive_for_prune: snapshot, publication and receipt; published again,
\* the same content is the same archive.
PublishArchive(r) ==
    /\ Does(r, {"publish"})
    /\ archive' = archive \cup {[tree |-> Effect(r).tree, content |-> Effect(r).content,
                                 aliases |-> Effect(r).aliases, pruned |-> FALSE]}
    /\ GoOn(r) /\ UNCHANGED <<records, leases, task, tree, canon, world>>

\* revalidate_archive_prune_source_state and the receipt read again.
RevalidateArchive(r) ==
    /\ Does(r, {"revalidate"})
    /\ GoOn(r) /\ UNCHANGED <<records, leases, task, work, world>>

MarkArchivePruned(r) ==
    /\ Does(r, {"pruned"})
    /\ archive' = {IF a.tree = Effect(r).tree /\ a.content = Effect(r).content
                   THEN [a EXCEPT !.pruned = TRUE] ELSE a : a \in archive}
    /\ GoOn(r) /\ UNCHANGED <<records, leases, task, tree, canon, world>>

\* The canonical tree takes over the content of a worktree.
ApplyToCanonical(r) ==
    /\ Does(r, {"apply"})
    /\ canon' = canon \cup {<<Effect(r).tree, tree[Effect(r).tree]>>}
    /\ GoOn(r) /\ UNCHANGED <<records, leases, task, tree, archive, world>>

\* The effects on the records of one session are one attempt: the first that
\* fails ends it.
Attempt(seq, s) ==
    LET its == {i \in DOMAIN seq : seq[i].op \in {"row", "state", "object"} /\ seq[i].session = s}
    IN  {i \in its : \A k \in 1..i : k \in its}

\* What a job goes on with after the effect at its head has failed.
AfterFailure(r) ==
    LET e == Effect(r)
        rest == Tail(job[r].todo)
        from(k) == SubSeq(rest, k, Len(rest))
    IN  IF ~job[r].safe THEN [todo |-> job[r].undo, undo |-> <<>>, safe |-> TRUE]
        ELSE [job[r] EXCEPT !.todo =
                CASE e.op = "close" -> from(3)    \* the sidecar and the object stay
                  [] e.op = "clear" -> <<RowState(e.session, "cleanup_candidate", TRUE)>> \o from(2)
                  [] e.op = "claim" -> Save(e.session, Marked(e.rec, "stale")) \o rest
                  [] e.op = "settle" -> from(2)   \* the row stays as it is
                  [] e.op \in {"sidecar", "row"} ->
                         from(Cardinality(Attempt(rest, e.session)) + 1)
                  [] OTHER -> rest]

\* write_text truncates first: a write that is cut short leaves a sidecar that no
\* reader accepts.
Torn(r) == At(r, {"sidecar", "closing"}) /\ side' = [side EXCEPT ![Effect(r).session] = None]

\* An effect raises: because it cannot take place, or for a reason of its own.
EffectFails(r) ==
    /\ r \in up /\ job[r].todo # <<>> /\ Effect(r).op \notin Silent
    /\ \/ ~Possible(r, Effect(r)) /\ UNCHANGED <<mishaps, side>>
       \/ Mishap /\ (UNCHANGED side \/ Torn(r))
    /\ Continue(r, AfterFailure(r), mem[r])
    /\ UNCHANGED <<row, owner, leases, task, work, lapsed, born, approved, up>>

EffectStep(r) ==
    \/ ChangeWorktree(r) \/ FillWorktree(r) \/ ChangeSidecar(r) \/ SaveRow(r) \/ SetRowState(r)
    \/ AcquireLease(r) \/ EndLeases(r) \/ ChangeTask(r)
    \/ PublishArchive(r) \/ RevalidateArchive(r) \/ MarkArchivePruned(r)
    \/ ApplyToCanonical(r) \/ EffectFails(r)
=============================================================================
