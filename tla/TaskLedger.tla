----------------------------- MODULE TaskLedger -----------------------------
(***************************************************************************)
(* The Task Ledger: the in-memory ledger of each runtime over the          *)
(* task_ledger table of the shared store.                                  *)
(*                                                                         *)
(* Every operation computes the new receipt from the runtime's own copy,   *)
(* saves the whole row (save_task, an unconditional upsert but for two     *)
(* refusals) and only then replaces the copy.  A runtime that starts       *)
(* rebuilds its ledger from the table.                                     *)
(*                                                                         *)
(* Evidence (patch, verification, audit, integration, result) is the       *)
(* number of the attempt it was recorded in, 0 when the fields are empty.  *)
(***************************************************************************)
EXTENDS Integers, FiniteSets

CONSTANTS
    Runtimes,
    Tasks,          \* task ids; each is generated at most once
    Owners,
    Leases,
    None,
    RequestOf,      \* the (request_id, workspace_id) a task is enqueued with
    Arguments,      \* what callers of the transition tool attach: evidence, a Git receipt,
                    \* a detail
    MaxRecords,     \* max_records of the in-memory ledger
    Asked,          \* the statuses callers of the transition tool ask for
    Trees,          \* the trees tasks are enqueued for
    Modes,          \* preserve_persistent_state of the runtimes that start: TRUE
                    \* from both entry points ("preserving"), FALSE by default ("recovering")
    MaxAttempts     \* bound: how often a task is taken up again

Settled == {"succeeded", "failed", "cancelled", "blocked"}

Terminal == Settled \cup {"stale"}

InFlight == {"leased", "running", "verifying", "review_ready"}

Statuses == {"queued", "ready"} \cup InFlight \cup Terminal

ASSUME LedgerAssumption ==
    /\ MaxRecords \in Nat /\ MaxRecords > 0
    /\ MaxAttempts \in Nat
    /\ Modes \subseteq {"preserving", "recovering"}
    /\ Trees \subseteq {"none", "canonical", "session"}
    /\ Arguments \subseteq [evidence : BOOLEAN, git : {{}, {"commit"}, {"push"}},
                            detail : {"", "text", "pushed"}]
    /\ Asked \subseteq Statuses
    /\ None \notin Owners \cup Leases

VARIABLES
    rows,      \* task_ledger, by task_id
    mem,       \* TaskLedger._records of each runtime
    phase,     \* "up", "down", or the mode it is starting in, for each runtime
    live,      \* the tasks with an active, unexpired lease in writer_leases
    attempt,   \* how often each task has been taken up (history)
    overtaken, \* the copies <<r, t>> whose row another runtime has changed since r
               \* loaded or saved them (history)
    undone     \* the tasks of which such a copy has been saved (history)

vars == <<rows, mem, phase, live, attempt, overtaken, undone>>

-----------------------------------------------------------------------------
Transitions ==
    [queued       |-> {"ready", "running", "cancelled", "blocked", "stale"},
     ready        |-> {"leased", "running", "cancelled", "blocked", "stale"},
     leased       |-> {"running", "cancelled", "blocked", "stale"},
     running      |-> {"verifying", "review_ready"} \cup Terminal,
     verifying    |-> {"review_ready", "failed", "blocked", "stale"},
     review_ready |-> Terminal,
     succeeded    |-> {}, failed |-> {}, cancelled |-> {}, blocked |-> {}, stale |-> {}]

\* tree: the canonical tree, a development session's, or none.
\* git: the Git receipts bound to the task.  detail: "pushed" stands for the
\* text "push receipt recorded", the only one the code ever looks at.
Receipts == [status : Statuses \cup {"unborn", "deleted"},
             owner : Owners \cup {None}, lease : Leases \cup {None}, evidence : Nat,
             tree : {"none", "canonical", "session"},
             git : SUBSET {"commit", "push"}, detail : {"text", "pushed"}, born : Nat]

NewReceipt(status, tree, born) ==
    [status |-> status, tree |-> tree, owner |-> None, lease |-> None, evidence |-> 0,
     git |-> {}, detail |-> "text", born |-> born]

\* A row that is not in the table.
NoRow(why) == NewReceipt(why, "none", 0)

Absent(row) == row.status \in {"unborn", "deleted"}

Ledger(r) == {t \in Tasks : mem[r][t] # None}

\* save_task refuses a settled state while the task has a live lease, and
\* the unique index refuses a second task for one request.
SaveAdmits(t, rec) ==
    /\ rec.status \in Settled => t \notin live
    /\ \A u \in Tasks \ {t} : RequestOf[u] = RequestOf[t] => Absent(rows[u])

Saved(t, rec) == rows' = [rows EXCEPT ![t] = rec]

\* Runtime r has loaded or saved the tasks "fresh" and has changed the rows
\* "changed": the copies other runtimes hold of those are overtaken.
Overtake(r, fresh, changed) ==
    /\ overtaken' = (overtaken \cup {p \in Runtimes \X changed :
                                        p[1] # r /\ p[2] \in Ledger(p[1])})
                        \ ({r} \X fresh)
    /\ undone' = undone \cup {t \in fresh \cap changed : <<r, t>> \in overtaken}

\* Mutant: the copy is replaced whether or not the row was saved.
CommitMemoryFirst(r, t, rec) ==
    /\ mem' = [mem EXCEPT ![r][t] = rec]
    /\ IF SaveAdmits(t, rec) THEN Saved(t, rec) ELSE UNCHANGED rows
    /\ Overtake(r, {t}, {t})
    /\ UNCHANGED live

\* The common end of every ledger operation: notify, then replace the copy.
Commit(r, t, rec) ==
    /\ SaveAdmits(t, rec)
    /\ Saved(t, rec)
    /\ mem' = [mem EXCEPT ![r][t] = rec]
    /\ Overtake(r, {t}, {t})
    /\ UNCHANGED live

\* An argument that is not given leaves its field alone.
Moved(rec, status, o, l, evidence, git, detail) ==
    [rec EXCEPT !.status = status,
                !.owner = IF o # None THEN o ELSE @,
                !.lease = IF l # None THEN l ELSE @,
                !.evidence = IF evidence # 0 THEN evidence ELSE @,
                !.git = @ \cup git,
                !.detail = IF detail # "" THEN detail ELSE @]

\* Mutant: the owner is not compared.
MayMoveUnowned(rec, status, o, l) ==
    /\ l # None /\ rec.lease # None => l = rec.lease
    /\ rec.status # status => status \in Transitions[rec.status]

\* _transition_locked: the owner, the lease and the table of transitions.
MayMove(rec, status, o, l) ==
    /\ o # None /\ rec.owner # None => o = rec.owner
    /\ l # None /\ rec.lease # None => l = rec.lease
    /\ rec.status # status => status \in Transitions[rec.status]

-----------------------------------------------------------------------------
Init ==
    /\ rows = [t \in Tasks |-> NoRow("unborn")]
    /\ mem = [r \in Runtimes |-> [t \in Tasks |-> None]]
    /\ phase = [r \in Runtimes |-> "up"]
    /\ live = {}
    /\ attempt = [t \in Tasks |-> 1]
    /\ overtaken = {}
    /\ undone = {}

\* _trim_for_insert drops the oldest terminal receipts until one more fits.
Trimmed(m) ==
    LET held == {t \in Tasks : m[t] # None}
        spent == {t \in held : m[t].status \in Terminal}
        excess == Cardinality(held) - (MaxRecords - 1)
        dropped == CHOOSE S \in SUBSET spent :
                      /\ Cardinality(S) = IF excess > 0 THEN excess ELSE 0
                      /\ \A t \in S, u \in spent \ S : m[t].born <= m[u].born
    IN  [t \in Tasks |-> IF t \in dropped THEN None ELSE m[t]]

CanInsert(m) ==
    Cardinality({t \in Tasks : m[t] # None /\ m[t].status \notin Terminal}) < MaxRecords

\* A request the ledger already has is answered with its receipt and changes
\* nothing; the trim happens before the save and stays when the save fails, for the
\* unique index or for any other reason.
Enqueue(r, t) ==
    /\ phase[r] = "up"
    /\ rows[t].status = "unborn"
    /\ \A u \in Ledger(r) : RequestOf[u] # RequestOf[t]
    /\ CanInsert(mem[r])
    /\ \E tree \in Trees :
       LET rec == NewReceipt("queued", tree,
                             Cardinality({u \in Tasks : rows[u].status # "unborn"}))
       IN  \/ /\ SaveAdmits(t, rec)
              /\ Saved(t, rec)
              /\ mem' = [mem EXCEPT ![r] = [Trimmed(mem[r]) EXCEPT ![t] = rec]]
              /\ Overtake(r, {t}, {t})
           \/ /\ mem' = [mem EXCEPT ![r] = Trimmed(mem[r])]
              /\ UNCHANGED <<rows, overtaken, undone>>
    /\ UNCHANGED <<phase, live, attempt>>

\* A session and its tree are attached; the whole receipt is saved again.
BindExecution(r, t) ==
    /\ phase[r] = "up" /\ t \in Ledger(r)
    /\ Commit(r, t, [mem[r][t] EXCEPT !.tree = "session"])
    /\ UNCHANGED <<phase, attempt>>

\* The tool passes every argument through; _git_record_receipt is the case of
\* an unchanged status with a Git receipt and a detail, and the only writer of
\* the detail "pushed".
Transition(r, t, status, o, l, withEvidence, git, detail) ==
    /\ phase[r] = "up" /\ t \in Ledger(r)
    /\ MayMove(mem[r][t], status, o, l)
    /\ detail = "pushed" => git = {"push"} /\ status = mem[r][t].status
    /\ Commit(r, t, Moved(mem[r][t], status, o, l,
                          IF withEvidence THEN attempt[t] ELSE 0, git, detail))
    /\ UNCHANGED <<phase, attempt>>

Start(r, t, o) ==
    /\ phase[r] = "up" /\ t \in Ledger(r)
    /\ mem[r][t].status \in {"queued", "ready", "leased"}
    /\ MayMove(mem[r][t], "running", o, None)
    /\ Commit(r, t, Moved(mem[r][t], "running", o, None, 0, {}, ""))
    /\ UNCHANGED <<phase, attempt>>

\* Mutant: a rolled-back claim gets a status of its own.
RollbackClaimUnclaimed(r, t) ==
    /\ phase[r] = "up" /\ t \in Ledger(r)
    /\ mem[r][t].status \in {"leased", "running"}
    /\ Commit(r, t, [mem[r][t] EXCEPT !.status = "unclaimed", !.owner = None, !.lease = None,
                                      !.tree = "none"])
    /\ UNCHANGED <<phase, attempt>>

\* The claim's compensation unbinds owner, lease and tree.
RollbackClaim(r, t) ==
    /\ phase[r] = "up" /\ t \in Ledger(r)
    /\ mem[r][t].status \in {"leased", "running"}
    /\ Commit(r, t, [mem[r][t] EXCEPT !.status = "ready", !.owner = None, !.lease = None,
                                      !.tree = "none"])
    /\ UNCHANGED <<phase, attempt>>

\* Mutant: only status, owner and lease are set again.
TakenUpAsItWas(rec, status, o, l) ==
    [rec EXCEPT !.status = status, !.owner = o, !.lease = l]

\* A task that is taken up again keeps its identity and no evidence.
TakenUp(rec, status, o, l) ==
    [NewReceipt(status, rec.tree, rec.born) EXCEPT !.owner = o, !.lease = l]

\* A stale task is taken up again by its owner: resume makes it ready, the
\* reactivation by a lease makes it running.  Resume also asks the runtime's
\* lease manager that the task has no active lease, which is not modelled here.
Resume(r, t, o) ==
    /\ phase[r] = "up" /\ t \in Ledger(r)
    /\ attempt[t] <= MaxAttempts
    /\ mem[r][t].status = "stale" /\ mem[r][t].owner = o
    /\ Commit(r, t, TakenUp(mem[r][t], "ready", None, None))
    /\ attempt' = [attempt EXCEPT ![t] = @ + 1]
    /\ UNCHANGED phase

Reactivate(r, t, o, l) ==
    /\ phase[r] = "up" /\ t \in Ledger(r)
    /\ attempt[t] <= MaxAttempts
    /\ mem[r][t].status = "stale" /\ mem[r][t].owner = o
    /\ Commit(r, t, TakenUp(mem[r][t], "running", o, l))
    /\ attempt' = [attempt EXCEPT ![t] = @ + 1]
    /\ UNCHANGED phase

\* finish always overwrites the detail.
Finish(r, t, status, o) ==
    /\ phase[r] = "up" /\ t \in Ledger(r)
    /\ mem[r][t].status \in {"running", "verifying", "review_ready"}
    /\ mem[r][t].owner = o
    /\ MayMove(mem[r][t], status, None, None)
    /\ Commit(r, t, Moved(mem[r][t], status, None, None, 0, {}, "text"))
    /\ UNCHANGED <<phase, attempt>>

-----------------------------------------------------------------------------
(* Rebuilding the ledger from the table.                                   *)

\* Mutant: the corrected task is sent back to review.
CorrectionsReopen(t) ==
    IF rows[t].status = "succeeded" /\ rows[t].git # {}
    THEN {rows[t], [rows[t] EXCEPT !.status = "review_ready", !.detail = "text"]}
    ELSE {rows[t]}

\* What becomes of a task one of whose Git receipts is withdrawn.
Withdrawn(t) ==
    {[rows[t] EXCEPT !.status = o.status, !.git = @ \ {o.receipt}, !.detail = "text"] :
        o \in [status : {"failed", "blocked"}, receipt : rows[t].git]}

\* reconcile_terminal_git_outcomes: a succeeded task whose bound Git receipt
\* says the operation failed, or that its outcome is unknown, is corrected and
\* loses that receipt.
Corrections(t) ==
    {rows[t]} \cup (IF rows[t].status = "succeeded" THEN Withdrawn(t) ELSE {})

\* _task_from_persisted, TaskLedger.restore and the re-proof of canonical
\* review-ready tasks.  A review-ready task stays so only when its commit is
\* the head of the tree (matches) or, uncommitted, its evidence still matches;
\* a canonical task that is stale after that but whose detail says it has been
\* pushed is review-ready again.
Hydrated(rec, mode, matches) ==
    LET canonical == rec.tree = "canonical"
        kept == /\ rec.status = "review_ready" /\ canonical /\ matches
                /\ \/ rec.git = {"commit"}
                   \/ "commit" \notin rec.git /\ rec.evidence # 0
        lost == \/ rec.status = "review_ready" /\ ~kept
                \/ rec.status \in InFlight \ {"review_ready"} /\ mode = "recovering"
        pushed == /\ rec.status \in {"review_ready", "stale"} /\ ~kept
                  /\ canonical /\ rec.git = {"commit", "push"} /\ rec.detail = "pushed"
    IN  IF pushed THEN [rec EXCEPT !.status = "review_ready"]
        ELSE IF lost THEN [rec EXCEPT !.status = "stale"] ELSE rec

\* restore keeps the newest MaxRecords rows, whatever their state.
Newest(ts) ==
    CHOOSE S \in SUBSET ts :
        /\ Cardinality(S) = IF Cardinality(ts) < MaxRecords THEN Cardinality(ts) ELSE MaxRecords
        /\ \A t \in S, u \in ts \ S : rows[t].born >= rows[u].born

Restored(rs, mode, matching) ==
    [t \in Tasks |-> IF t \in Newest({u \in Tasks : ~Absent(rows[u])})
                     THEN Hydrated(rs[t], mode, t \in matching) ELSE None]

Crash(r) ==
    /\ phase[r] # "down"
    /\ phase' = [phase EXCEPT ![r] = "down"]
    /\ mem' = [mem EXCEPT ![r] = [t \in Tasks |-> None]]
    /\ Overtake(r, Tasks, {})
    /\ UNCHANGED <<rows, live, attempt>>

\* _restore_persisted_state.
Boot(r, mode) ==
    /\ phase[r] = "down"
    /\ \E corrected \in [Tasks -> UNION {Corrections(t) : t \in Tasks}], matching \in SUBSET Tasks :
          /\ \A t \in Tasks : corrected[t] \in Corrections(t)
          /\ rows' = corrected
          /\ mem' = [mem EXCEPT ![r] = Restored(corrected, mode, matching)]
          /\ Overtake(r, Tasks, {t \in Tasks : corrected[t] # rows[t]})
    /\ phase' = [phase EXCEPT ![r] = mode]
    /\ UNCHANGED <<live, attempt>>

\* _reconcile_preserved_stale_sessions, for the task of a stale session: the
\* transition starts from the copy loaded at boot.
BootStale(r, t) ==
    /\ phase[r] = "preserving"
    /\ t \in Ledger(r) /\ mem[r][t].tree = "session"
    /\ mem[r][t].status \in {"ready"} \cup InFlight
    /\ mem[r][t].owner # None /\ mem[r][t].lease # None
    /\ t \notin live
    /\ Commit(r, t, Moved(mem[r][t], "stale", None, None, 0, {}, "text"))
    /\ UNCHANGED <<phase, attempt>>

BootDone(r) ==
    /\ phase[r] = "preserving"
    /\ phase' = [phase EXCEPT ![r] = "up"]
    /\ UNCHANGED <<rows, mem, live, attempt, overtaken, undone>>

\* _recover_restart_checkpointed_sessions takes up the tasks of checkpointed
\* sessions (recovered), then _reconcile_restart_stale_sessions stores the
\* in-flight tasks of every other session it knows as stale.
BootSweep(r) ==
    /\ phase[r] = "recovering"
    /\ \E known \in SUBSET {t \in Tasks : rows[t].tree = "session"} :
       \E recovered \in SUBSET {t \in known \cap live \cap Ledger(r) :
                                  /\ rows[t].status \in InFlight
                                  /\ rows[t].owner # None /\ rows[t].lease # None
                                  /\ mem[r][t].status = "stale"
                                  /\ attempt[t] <= MaxAttempts} :
          LET again(t) == TakenUp(mem[r][t], "running", rows[t].owner, rows[t].lease)
          IN  /\ rows' = [t \in Tasks |->
                            IF t \in recovered THEN again(t)
                            ELSE IF t \in known /\ rows[t].status \in InFlight
                            THEN [rows[t] EXCEPT !.status = "stale"] ELSE rows[t]]
              /\ mem' = [mem EXCEPT ![r] =
                            [t \in Tasks |-> IF t \in recovered THEN again(t) ELSE @[t]]]
              /\ attempt' = [t \in Tasks |-> IF t \in recovered THEN attempt[t] + 1 ELSE attempt[t]]
              /\ Overtake(r, recovered, {t \in known : rows[t].status \in InFlight})
    /\ phase' = [phase EXCEPT ![r] = "up"]
    /\ UNCHANGED live

\* cleanup deletes terminal rows by age or by count.
Cleanup(t) ==
    /\ rows[t].status \in Terminal
    /\ rows' = [rows EXCEPT ![t] = NoRow("deleted")]
    /\ UNCHANGED <<mem, phase, live, attempt, overtaken, undone>>

\* A lease of the task becomes live or stops being so (module WriterLeases).
LeaseChanges(t) ==
    /\ ~Absent(rows[t])
    /\ live' \in {live \cup {t}, live \ {t}}
    /\ UNCHANGED <<rows, mem, phase, attempt, overtaken, undone>>

LedgerStep(r, t) ==
    \/ Enqueue(r, t) \/ BindExecution(r, t) \/ RollbackClaim(r, t)
    \/ \E o \in Owners :
          \/ Start(r, t, o) \/ Resume(r, t, o)
          \/ \E l \in Leases : Reactivate(r, t, o, l)
          \/ \E s \in Asked \cap {"succeeded", "failed", "cancelled"} : Finish(r, t, s, o)
    \/ \E s \in Asked, o \in Owners \cup {None}, l \in Leases \cup {None}, a \in Arguments :
          Transition(r, t, s, o, l, a.evidence, a.git, a.detail)
    \/ BootStale(r, t)

Next ==
    \/ \E r \in Runtimes : \/ Crash(r) \/ BootDone(r) \/ BootSweep(r)
                           \/ \E mode \in Modes : Boot(r, mode)
                           \/ \E t \in Tasks : LedgerStep(r, t)
    \/ \E t \in Tasks : Cleanup(t) \/ LeaseChanges(t)

Spec == Init /\ [][Next]_vars

-----------------------------------------------------------------------------
(* Properties.                                                             *)

\* Every variable has its type: rows and copies are receipts.
TypeOK ==
    /\ rows \in [Tasks -> Receipts]
    /\ mem \in [Runtimes -> [Tasks -> Receipts \cup {None}]]
    /\ phase \in [Runtimes -> {"up", "down"} \cup Modes]
    /\ live \in SUBSET Tasks
    /\ attempt \in [Tasks -> Nat]
    /\ overtaken \in SUBSET (Runtimes \X Tasks)
    /\ undone \in SUBSET Tasks

\* One request has at most one task in the table, however many runtimes enqueue
\* it and whatever a runtime has forgotten by trimming or restarting
\* (TaskLedger.enqueue looks in its own memory only).
OneTaskPerRequest ==
    \A t, u \in Tasks :
        t # u /\ RequestOf[t] = RequestOf[u] => Absent(rows[t]) \/ Absent(rows[u])

\* A runtime saves its copy of t although another has changed the row since:
\* save_task compares nothing, and the other's change is gone.
SavesOvertaken(t) ==
    \E r \in Runtimes : <<r, t>> \in overtaken \ overtaken' /\ mem'[r][t] = rows'[t]

\* A settled task stays settled: no transition, restart, recovery or rebuild of
\* any runtime takes it up again, and only the start-up correction may turn a
\* success into a failure, never the reverse.  The one step that can is the save of
\* a copy that another runtime has overtaken.
SettledStaysSettled ==
    [][\A t \in Tasks :
          rows[t].status \in Settled =>
             \/ rows'[t].status \in {rows[t].status, "deleted"}
             \/ rows[t].status = "succeeded" /\ rows'[t].status \in {"failed", "blocked"}
             \/ SavesOvertaken(t)]_vars

\* A task that has been taken up again (resume, reactivate, checkpoint recovery)
\* carries no evidence of an earlier attempt, in the store or in a memory that has
\* not been overtaken, until the save of an overtaken copy brings such evidence back.
EvidenceIsOfThisAttempt ==
    \A t \in Tasks \ undone :
        /\ ~Absent(rows[t]) => rows[t].evidence \in {0, attempt[t]}
        /\ \A r \in Runtimes :
              t \in Ledger(r) /\ <<r, t>> \notin overtaken => mem[r][t].evidence \in {0, attempt[t]}

\* A task never passes from one owner to another directly: a resume or a
\* rolled-back claim makes it unowned in between, whichever runtimes take part,
\* unless the save of an overtaken copy hands it over.
OwnerIsGivenUpFirst ==
    [][\A t \in Tasks :
          ~Absent(rows[t]) /\ ~Absent(rows'[t]) /\ rows[t].owner # None
             => rows'[t].owner \in {rows[t].owner, None} \/ SavesOvertaken(t)]_vars

\* A copy in memory is never ahead of the store, whatever saves were refused and
\* whatever was restored: until another runtime changes the row it says what the row
\* says, or holds the task for stale, or for a pushed task that is review-ready.
MemoryNotAhead ==
    \A r \in Runtimes, t \in Tasks :
        t \in Ledger(r) /\ ~Absent(rows[t]) /\ <<r, t>> \notin overtaken =>
            \/ mem[r][t].status \in {rows[t].status, "stale"}
            \/ mem[r][t].git = {"commit", "push"} /\ mem[r][t].status = "review_ready"

\* Memories and table agree as far as each runtime can make them, on receipts that
\* are well formed.
LedgerIsSound == TypeOK /\ MemoryNotAhead
=============================================================================
