---------------------------- MODULE GitDelivery ----------------------------
(***************************************************************************)
(* GitDelivery: staging, committing and pushing the change of one task.    *)
(*                                                                         *)
(* A preflight pins what it saw of the working tree and becomes a row of   *)
(* git_preflight_authority.  Executing it is a sequence of steps, each a   *)
(* transaction of its own or a Git command: verify, claim, run Git, read   *)
(* back, record a receipt, finish the authority, tell the task, close out. *)
(* Between them other runtimes with the same store, people at the same     *)
(* working tree and crashes come in; a preflight found executing is        *)
(* recovered and not run again.                                            *)
(*                                                                         *)
(* Files are Paths with small numbers for contents.  Git itself is         *)
(* external: one branch that only grows, an index, a working tree and a    *)
(* remote branch, known by its position in the log.  A snapshot tells      *)
(* staged contents apart but of unstaged changes only the paths, as git    *)
(* status does.  Evidence, approvals and their expiry are choices.         *)
(***************************************************************************)
EXTENDS Naturals, Sequences, FiniteSets

CONSTANTS
    Runtimes,      \* wrapper runtimes that share the store and the tree
    Preflights,    \* preflight ids
    Paths,
    Scope,         \* allowed_paths of the task
    None,
    MaxContent,    \* bound: contents of a file
    MaxLog,        \* bound: commits on the branch
    MaxOutside     \* bound: steps of people at the working tree

Contents == 0..MaxContent

Trees == [Paths -> Contents]

Stages == {"stage", "stage_paths"}

Commits == {"commit", "verified_commit"}

Operations == Stages \cup Commits \cup {"push"}

Verdicts == {"succeeded", "failed", "outcome_unknown"}

\* The states in which a row of git_preflight_authority is over.
Over == Verdicts \cup {"invalidated", "expired"}

AuthorityStates == {"none", "ready", "executing"} \cup Over

Steps == {"idle", "begun", "recovering", "verified", "claimed", "added", "checked", "ran",
          "settled", "recorded", "finished", "bound", "rejected"}

Snapshots == [head : 1..MaxLog, index : Trees, unstaged : SUBSET Paths]

Plans == [op : Operations, snap : Snapshots, paths : SUBSET Paths, want : Trees,
          remote : 1..MaxLog]

Receipts == [status : Verdicts, head : 0..MaxLog]

ReceiptIds == Preflights \X Nat

Idle == [step |-> "idle", pre |-> None, verdict |-> None, at |-> 0, rid |-> 0]

ASSUME GitAssumption ==
    /\ Scope \subseteq Paths
    /\ None \notin Preflights /\ None \notin Plans /\ None \notin ReceiptIds
    /\ MaxContent \in Nat \ {0} /\ MaxLog \in Nat \ {0} /\ MaxOutside \in Nat

VARIABLES
    work, index,   \* the working tree and the index
    log,           \* the commits of the branch, the first one the task's base
    remote,        \* how many of them the remote branch has
    auth,          \* git_preflight_authority: the state of each row
    plan,          \* what each preflight pinned
    receipts,      \* git_mutation_outcomes of each preflight, the latest last
    closeouts,     \* git_closeout_receipts: ids of receipts
    task,          \* the task's row: status and bound receipts
    call,          \* what each runtime is doing
    outside,       \* how often people have touched the working tree
    runs,          \* how often each preflight's command was run (history)
    applied,       \* preflights whose commit or push took place (history)
    overtaken      \* preflights recovered while they were executing (history)

repo == <<work, index, log, remote>>
store == <<auth, plan, receipts, closeouts, task>>
history == <<runs, applied, overtaken>>
vars == <<repo, store, call, outside, history>>

-----------------------------------------------------------------------------
(* What Git shows.                                                         *)

Differ(t, u) == {q \in Paths : t[q] # u[q]}

HEAD == Len(log)

HeadTree == log[HEAD].tree

Staged == Differ(index, HeadTree)

Unstaged == Differ(work, index)

Snapshot == [head |-> HEAD, index |-> index, unstaged |-> Unstaged]

\* Of a snapshot, the paths whose staged content is not the head's.
StagedIn(snap) == Differ(snap.index, log[snap.head].tree)

Op(p) == plan[p].op

\* The subject of a verified commit is made from the task's title alone.
Subject(p) == IF Op(p) = "verified_commit" THEN "title" ELSE p

\* Staged paths outside the task's scope are left out of its commit.
Preserved(p) == StagedIn(plan[p].snap) \ Scope

\* git add of the candidate paths.
Added(paths) == [q \in Paths |-> IF q \in paths THEN work[q] ELSE index[q]]

\* What a commit must have changed since the pinned head.
ChangedSince(p) == Differ(log[plan[p].snap.head].tree, HeadTree)

-----------------------------------------------------------------------------
(* Preflights.                                                             *)

ReceiptOf(id) == receipts[id[1]][id[2]]

\* _git_push_task_binding: a task with a commit receipt is pushed only as the
\* closed-out commit of its base that is still the head.
PushBinding ==
    task.commit # None =>
        /\ task.commit \in closeouts
        /\ ReceiptOf(task.commit).status = "succeeded"
        /\ plan[task.commit[1]].snap.head = 1
        /\ ReceiptOf(task.commit).head = HEAD

Live == task.status = "review_ready"

\* The candidate paths a preflight of each kind may have, if it is ready.
Candidates(op) ==
    CASE op \in {"stage", "verified_commit"} ->
           {S \in {Unstaged} : Staged = {} /\ S # {} /\ S \subseteq Scope}
      [] op = "stage_paths" -> {S \in SUBSET (Unstaged \cap Scope) : S # {}}
      [] op = "commit" -> {S \in {Staged \cap Scope} : S # {} /\ S \cap Unstaged = {}}
      [] op = "push" -> {S \in {{}} : Staged = {} /\ PushBinding}

\* stage_preflight, stage_paths_preflight, commit_preflight,
\* verified_commit_preflight and push_preflight, when nothing blocks them.
Preflight(p, op) ==
    /\ auth[p] = "none" /\ Live
    /\ \E S \in Candidates(op) :
          plan' = [plan EXCEPT ![p] = [op |-> op, snap |-> Snapshot, paths |-> S,
                                       want |-> Added(S), remote |-> remote]]
    /\ auth' = [auth EXCEPT ![p] = "ready"]
    /\ UNCHANGED <<repo, receipts, closeouts, task, call, outside, history>>

-----------------------------------------------------------------------------
(* Execution.  One runtime's call moves from step to step.                 *)

Go(r, from, to) ==
    /\ call[r].step = from
    /\ call' = [call EXCEPT ![r].step = to]

\* The verdict is in, and for a success the head that was read back; a receipt
\* is recorded next, unless the code has none.
Decide(r, from, verdict, hasReceipt) ==
    /\ call[r].step = from
    /\ call' = [call EXCEPT ![r].step = IF hasReceipt THEN "settled" ELSE "recorded",
                            ![r].verdict = verdict,
                            ![r].at = IF verdict = "succeeded" THEN HEAD ELSE 0]

\* The handler of an operation looks at the authority first: an executing one
\* is for recovery, and a receipt that is there already settles it.
Begin(r, p) ==
    /\ call[r] = Idle
    /\ \/ /\ auth[p] = "ready"
          /\ call' = [call EXCEPT ![r] = [Idle EXCEPT !.step = "begun", !.pre = p]]
       \/ /\ auth[p] = "executing" /\ receipts[p] = <<>>
          /\ call' = [call EXCEPT ![r] = [Idle EXCEPT !.step = "recovering", !.pre = p]]
       \/ /\ auth[p] = "executing" /\ receipts[p] # <<>>
          /\ call' = [call EXCEPT ![r] = [Idle EXCEPT
                !.step = "recorded", !.pre = p, !.rid = Len(receipts[p]),
                !.verdict = receipts[p][Len(receipts[p])].status]]
    /\ UNCHANGED <<repo, store, outside, history>>

\* A call whose arguments do not match what the preflight pinned.
Mismatch(r, p) ==
    /\ call[r] = Idle /\ auth[p] \in {"ready", "executing"}
    /\ call' = [call EXCEPT ![r] = [Idle EXCEPT !.step = "rejected", !.pre = p]]
    /\ UNCHANGED <<repo, store, outside, history>>

\* The state is still the one that was pinned.
Unchanged(p) ==
    LET pl == plan[p]
    IN  CASE pl.op \in {"stage", "verified_commit"} ->
               /\ Staged = {} /\ HEAD = pl.snap.head
               /\ Unstaged = pl.paths /\ Added(pl.paths) = pl.want
          [] pl.op = "stage_paths" ->
               /\ HEAD = pl.snap.head /\ index = pl.snap.index
               /\ pl.paths \subseteq Unstaged /\ Added(pl.paths) = pl.want
          [] pl.op = "commit" -> Snapshot = pl.snap
          [] pl.op = "push" -> Snapshot = pl.snap /\ remote = pl.remote

\* A binding refuses with a ToolFailure, which leaves the authority as it is:
\* a push whose commit is no longer the head, or evidence that is stale for an
\* operation that asks for current evidence.
RefuseBinding(r) ==
    /\ call[r].step = "begun"
    /\ Op(call[r].pre) # "commit"
    /\ Op(call[r].pre) = "push" => ~PushBinding
    /\ call' = [call EXCEPT ![r] = Idle]
    /\ UNCHANGED <<repo, store, outside, history>>

\* Whatever else the controller finds, evidence included, rejects the call.
Verify(r) ==
    /\ call[r].step = "begun"
    /\ Op(call[r].pre) = "push" => PushBinding
    /\ \/ Go(r, "begun", "verified") /\ Live /\ Unchanged(call[r].pre)
       \/ Go(r, "begun", "rejected")
    /\ UNCHANGED <<repo, store, outside, history>>

\* Mutant: an executing authority can be claimed.
ClaimableAgain(p) == auth[p] \in {"ready", "executing"}

Claimable(p) == auth[p] = "ready"

\* claim_git_preflight_authority, one transaction.
Claim(r) ==
    LET p == call[r].pre
    IN  /\ call[r].step = "verified"
        /\ \/ /\ Claimable(p)
              /\ Go(r, "verified", "claimed")
              /\ auth' = [auth EXCEPT ![p] = "executing"]
           \/ /\ Claimable(p)
              /\ Go(r, "verified", "rejected")
              /\ auth' = [auth EXCEPT ![p] = "expired"]
           \/ /\ Go(r, "verified", "rejected")
              /\ UNCHANGED auth
        /\ UNCHANGED <<repo, plan, receipts, closeouts, task, outside, history>>

\* The tree of a commit: the whole index, or the pinned head with the staged
\* contents of the task's paths when others have to stay out of it.
CommittedTree(p) ==
    IF Preserved(p) = {} THEN index
    ELSE [q \in Paths |-> IF q \in plan[p].paths THEN index[q]
                          ELSE log[plan[p].snap.head].tree[q]]

\* git commit has something to commit, and the task's patch applies.
Committable(p) ==
    /\ HEAD < MaxLog
    /\ CommittedTree(p) # HeadTree
    /\ Preserved(p) # {} =>
          \A q \in plan[p].paths : HeadTree[q] = log[plan[p].snap.head].tree[q]

CommitEffect(p) ==
    /\ Committable(p)
    /\ log' = Append(log, [tree |-> CommittedTree(p), subject |-> Subject(p)])
    /\ UNCHANGED <<work, index, remote>>

AddEffect(p) == index' = Added(plan[p].paths) /\ UNCHANGED <<work, log, remote>>

\* Git pushes the branch as it is, not the pinned commit.
PushEffect == remote' = HEAD /\ UNCHANGED <<work, index, log>>

\* The command that carries the operation out, and is followed by a receipt
\* whatever becomes of it: git commit or git push, but not git add.
Decisive(p, step) == Op(p) = "push" \/ Op(p) = "commit" \/ step = "checked"

\* What the next Git command of a claimed call does.
Effect(p, step) ==
    \/ ~Decisive(p, step) /\ AddEffect(p) /\ UNCHANGED applied
    \/ /\ Decisive(p, step)
       /\ IF Op(p) = "push" THEN PushEffect ELSE CommitEffect(p)
       /\ applied' = applied \cup {p}

Counted(p, step) ==
    runs' = IF Op(p) = "verified_commit" /\ step = "claimed" THEN runs
            ELSE [runs EXCEPT ![p] = @ + 1]

\* The command ends well, fails, or runs into its timeout with or without
\* having had its effect.  A scoped commit whose private index cannot be made
\* is finished as failed without a receipt.
RunGit(r) ==
    LET p == call[r].pre
        step == call[r].step
    IN  /\ step \in {"claimed", "checked"}
        /\ \/ /\ Effect(p, step)
              /\ Go(r, step, IF Op(p) = "verified_commit" /\ step = "claimed"
                             THEN "added" ELSE "ran")
           \/ /\ UNCHANGED <<repo, applied>>
              /\ Decide(r, step, IF Decisive(p, step) THEN "failed" ELSE "outcome_unknown",
                        Decisive(p, step))
           \/ /\ Effect(p, step) \/ UNCHANGED <<repo, applied>>
              /\ Decide(r, step, "outcome_unknown", Decisive(p, step))
           \/ /\ Op(p) = "commit" /\ Preserved(p) # {}
              /\ UNCHANGED <<repo, applied>>
              /\ Decide(r, step, "failed", FALSE)
        /\ Counted(p, step)
        /\ UNCHANGED <<store, outside, overtaken>>

\* The index is exactly the candidate, and nothing it covers is dirty again.
StagedAsWanted(p) ==
    /\ HEAD = plan[p].snap.head /\ index = plan[p].want
    /\ Unstaged \cap (IF Op(p) = "stage_paths" THEN plan[p].paths ELSE Paths) = {}

\* verified_commit: the index must be exactly the candidate before the commit.
CheckAdded(r) ==
    LET p == call[r].pre
    IN  /\ call[r].step = "added"
        /\ \/ /\ StagedAsWanted(p)
              /\ Go(r, "added", "checked")
           \/ /\ ~StagedAsWanted(p)
              /\ Decide(r, "added", "outcome_unknown", FALSE)
        /\ UNCHANGED <<repo, store, outside, history>>

\* The rest of the tree is as it was when the commit was preflighted.
RestAsBefore(p, idx) ==
    /\ Differ(idx, HeadTree) = Preserved(p)
    /\ \A q \in Preserved(p) : idx[q] = plan[p].snap.index[q]
    /\ Differ(work, idx) = plan[p].snap.unstaged

VerifiedAsWanted(p) ==
    /\ HEAD = plan[p].snap.head + 1 /\ log[HEAD].subject = Subject(p)
    /\ ChangedSince(p) = plan[p].paths
    /\ Staged = {} /\ Unstaged = {}

\* Mutant: the read-back looks only for a new head.
ReadsAsCommittedAnyhow(p, idx) == HEAD # plan[p].snap.head

\* A plain commit is judged by its paths; its parent is not looked at.
ReadsAsCommitted(p, idx) ==
    /\ HEAD # plan[p].snap.head
    /\ ChangedSince(p) = plan[p].paths
    /\ RestAsBefore(p, idx)

\* Mutant: the whole index is restored to the new head.
RestoredWhole(p) == HeadTree

\* A scoped commit is followed by git restore --staged of the task's paths.
Restored(p) ==
    IF Op(p) # "commit" \/ Preserved(p) = {} \/ HEAD = plan[p].snap.head THEN index
    ELSE [q \in Paths |-> IF q \in plan[p].paths THEN HeadTree[q] ELSE index[q]]

Confirmed(p) ==
    CASE Op(p) \in Stages -> StagedAsWanted(p)
      [] Op(p) = "verified_commit" -> VerifiedAsWanted(p)
      [] Op(p) = "commit" -> ReadsAsCommitted(p, Restored(p))
      [] Op(p) = "push" -> remote = plan[p].snap.head

\* The restore and the reading may fail; an index that does not match has no receipt.
ReadBack(r) ==
    LET p == call[r].pre
    IN  /\ call[r].step = "ran"
        /\ \/ /\ index' = Restored(p)
              /\ Confirmed(p) /\ Decide(r, "ran", "succeeded", TRUE)
           \/ /\ index' \in {index, Restored(p)}
              /\ Decide(r, "ran", "outcome_unknown", Op(p) \notin Stages)
        /\ UNCHANGED <<work, log, remote, store, outside, history>>

-----------------------------------------------------------------------------
(* Recovery of an executing preflight without a receipt, from what the     *)
(* repository looks like now.                                              *)

\* Mutant: any change of the working tree is taken for the operation's.
RecoveredLocally(p) == IF Snapshot = plan[p].snap THEN "failed" ELSE "succeeded"

Recovered(p) ==
    LET pl == plan[p]
    IN  CASE pl.op = "push" ->
               IF remote = pl.snap.head THEN "succeeded"
               ELSE IF remote = pl.remote THEN "failed" ELSE "outcome_unknown"
          [] pl.op # "push" /\ Snapshot = pl.snap -> "failed"
          [] pl.op \in Stages /\ Snapshot # pl.snap ->
               IF StagedAsWanted(p) THEN "succeeded" ELSE "outcome_unknown"
          [] pl.op = "verified_commit" /\ Snapshot # pl.snap ->
               IF VerifiedAsWanted(p) THEN "succeeded" ELSE "outcome_unknown"
          [] pl.op = "commit" /\ Snapshot # pl.snap ->
               IF /\ HEAD = pl.snap.head + 1 /\ log[HEAD].subject = Subject(p)
                  /\ ReadsAsCommitted(p, index)
               THEN "succeeded" ELSE "outcome_unknown"

\* The commands of p that another runtime has under way or may still start.
UnderWay(r, p) ==
    \E s \in Runtimes \ {r} :
        call[s].pre = p /\ call[s].step \in {"claimed", "added", "checked"}

\* _reconcile_executing_stage, _commit and _push; they do not hold the lock.
Recover(r) ==
    LET p == call[r].pre
    IN  /\ call[r].step = "recovering"
        /\ Decide(r, "recovering", Recovered(p), TRUE)
        /\ overtaken' = IF UnderWay(r, p) THEN overtaken \cup {p} ELSE overtaken
        /\ UNCHANGED <<repo, store, outside, runs, applied>>

-----------------------------------------------------------------------------
(* What is kept of the outcome.                                            *)

\* Mutant: the receipt stays in memory.
RecordInMemory(r) ==
    /\ Go(r, "settled", "recorded")
    /\ UNCHANGED <<repo, store, outside, history>>

Record(r) ==
    LET p == call[r].pre
    IN  /\ call[r].step = "settled"
        /\ receipts' = [receipts EXCEPT
              ![p] = Append(@, [status |-> call[r].verdict, head |-> call[r].at])]
        /\ call' = [call EXCEPT ![r].step = "recorded", ![r].rid = Len(receipts[p]) + 1]
        /\ UNCHANGED <<repo, auth, plan, closeouts, task, outside, history>>

\* Mutants: the last one to finish has its way; a state of its own for what
\* is not known.
FinishedUnknown(p, state) ==
    [auth EXCEPT ![p] = IF @ \in {"ready", "executing"} THEN "unknown" ELSE @]

FinishedLast(p, state) == [auth EXCEPT ![p] = state]

\* finish_git_preflight_authority: only a row that is not over is changed.
Finished(p, state) ==
    [auth EXCEPT ![p] = IF @ \in {"ready", "executing"} THEN state ELSE @]

Finish(r) ==
    /\ Go(r, "recorded", "finished")
    /\ auth' = Finished(call[r].pre, call[r].verdict)
    /\ UNCHANGED <<repo, plan, receipts, closeouts, task, outside, history>>

ReceiptId(r) == <<call[r].pre, call[r].rid>>

\* A success of the two kinds of operation a task keeps the receipts of.
Binds(r) == call[r].verdict = "succeeded" /\ Op(call[r].pre) \notin Stages

\* _git_record_receipt: what the ledger refuses is let go.
Bind(r) ==
    /\ Go(r, "finished", "bound")
    /\ Binds(r)
    /\ \/ UNCHANGED task
       \/ task' = IF Op(call[r].pre) = "push" THEN [task EXCEPT !.push = ReceiptId(r)]
                  ELSE [task EXCEPT !.commit = ReceiptId(r)]
    /\ UNCHANGED <<repo, auth, plan, receipts, closeouts, outside, history>>

\* _persist_git_closeout after a success.
CloseOut(r) ==
    /\ call[r].step = "bound"
    /\ closeouts' = closeouts \cup {ReceiptId(r)}
    /\ call' = [call EXCEPT ![r] = Idle]
    /\ UNCHANGED <<repo, auth, plan, receipts, task, outside, history>>

\* After a failure with a receipt it is closed out first, then the task ends.
CloseOutFailure(r) ==
    /\ call[r].step = "finished" /\ ~Binds(r)
    /\ \/ /\ call[r].verdict = "succeeded" \* of a stage
          /\ call' = [call EXCEPT ![r] = Idle]
          /\ UNCHANGED <<closeouts, task>>
       \/ /\ call[r].verdict # "succeeded"
          /\ Go(r, "finished", "rejected")
          /\ IF call[r].rid = 0 \/ Op(call[r].pre) \in Stages THEN UNCHANGED <<closeouts, task>>
             ELSE /\ closeouts' = closeouts \cup {ReceiptId(r)}
                  /\ \/ UNCHANGED task
                     \/ task' = [task EXCEPT !.status =
                                    IF call[r].verdict = "failed" THEN "failed" ELSE "blocked"]
    /\ UNCHANGED <<repo, auth, plan, receipts, outside, history>>

\* Every GitWriteError ends with invalidate_preflight.
Retire(r) ==
    /\ call[r].step = "rejected"
    /\ auth' = Finished(call[r].pre, "invalidated")
    /\ call' = [call EXCEPT ![r] = Idle]
    /\ UNCHANGED <<repo, plan, receipts, closeouts, task, outside, history>>

Crash(r) ==
    /\ call[r] # Idle
    /\ call' = [call EXCEPT ![r] = Idle]
    /\ UNCHANGED <<repo, store, outside, history>>

-----------------------------------------------------------------------------
(* People at the working tree.                                             *)

Person ==
    /\ outside < MaxOutside /\ outside' = outside + 1
    /\ UNCHANGED <<store, call, history>>

Edit(q, c) ==
    /\ Person
    /\ work[q] # c /\ work' = [work EXCEPT ![q] = c]
    /\ UNCHANGED <<index, log, remote>>

PersonAdds(q) ==
    /\ Person
    /\ work[q] # index[q] /\ index' = Added({q})
    /\ UNCHANGED <<work, log, remote>>

PersonCommits ==
    /\ Person
    /\ Staged # {} /\ HEAD < MaxLog
    /\ log' = Append(log, [tree |-> index, subject |-> None])
    /\ UNCHANGED <<work, index, remote>>

PersonPushes ==
    /\ Person
    /\ remote < HEAD /\ remote' = HEAD
    /\ UNCHANGED <<work, index, log>>

-----------------------------------------------------------------------------
\* The task's change is made; it, and a change of someone else, may be staged.
Init ==
    /\ log = <<[tree |-> [q \in Paths |-> 0], subject |-> None]>>
    /\ work \in {t \in [Paths -> {0, 1}] : \A q \in Scope : t[q] = 1}
    /\ index \in {t \in [Paths -> {0, 1}] : \A q \in Paths : t[q] <= work[q]}
    /\ remote = 1
    /\ auth = [p \in Preflights |-> "none"]
    /\ plan = [p \in Preflights |-> None]
    /\ receipts = [p \in Preflights |-> <<>>]
    /\ closeouts = {}
    /\ task = [status |-> "review_ready", commit |-> None, push |-> None]
    /\ call = [r \in Runtimes |-> Idle]
    /\ outside = 0
    /\ runs = [p \in Preflights |-> 0]
    /\ applied = {} /\ overtaken = {}

CallStep(r) ==
    \/ RefuseBinding(r) \/ Verify(r) \/ Claim(r) \/ RunGit(r) \/ CheckAdded(r) \/ ReadBack(r)
    \/ Recover(r) \/ Record(r) \/ Finish(r) \/ Bind(r) \/ CloseOut(r)
    \/ CloseOutFailure(r) \/ Retire(r) \/ Crash(r)
    \/ \E p \in Preflights : Begin(r, p) \/ Mismatch(r, p)

PersonStep ==
    \/ \E q \in Paths : PersonAdds(q) \/ \E c \in Contents : Edit(q, c)
    \/ PersonCommits \/ PersonPushes

Next ==
    \/ \E p \in Preflights, op \in Operations : Preflight(p, op)
    \/ \E r \in Runtimes : CallStep(r)
    \/ PersonStep

Spec == Init /\ [][Next]_vars

-----------------------------------------------------------------------------
(* Properties.                                                             *)

\* Every variable has its type.
TypeOK ==
    /\ work \in Trees /\ index \in Trees
    /\ log \in Seq([tree : Trees, subject : Preflights \cup {"title", None}])
    /\ HEAD \in 1..MaxLog /\ remote \in 1..HEAD
    /\ auth \in [Preflights -> AuthorityStates]
    /\ plan \in [Preflights -> Plans \cup {None}]
    /\ receipts \in [Preflights -> Seq(Receipts)]
    /\ closeouts \subseteq ReceiptIds
    /\ task \in [status : {"review_ready", "failed", "blocked"},
                 commit : ReceiptIds \cup {None}, push : ReceiptIds \cup {None}]
    /\ call \in [Runtimes -> [step : Steps, pre : Preflights \cup {None},
                              verdict : Verdicts \cup {None}, at : 0..MaxLog,
                              rid : Nat]]
    /\ outside \in 0..MaxOutside
    /\ runs \in [Preflights -> Nat] /\ applied \subseteq Preflights
    /\ overtaken \subseteq Preflights

\* However often a call is repeated, by however many runtimes, and wherever
\* they crash, the command of a preflight is run at most once: claim consumes
\* the authority and recovery looks, but does not run it again.
RunAtMostOnce == \A p \in Preflights : runs[p] <= 1

\* The authority of a preflight is settled once: a recovery, a late finish and
\* the invalidation after an error do not overwrite each other.
SettledOnce ==
    [][\A p \in Preflights : auth[p] \in Over => auth'[p] = auth[p]]_vars

\* A receipt of success, of the call itself or of a recovery, has its commit
\* on the branch or its commits at the remote.
SucceededIsApplied ==
    \A p \in Preflights : \A i \in DOMAIN receipts[p] :
        receipts[p][i].status = "succeeded" =>
            /\ Op(p) \in Commits =>
                  \E k \in (plan[p].snap.head + 1)..HEAD : log[k].subject = Subject(p)
            /\ Op(p) = "push" => remote >= plan[p].snap.head

\* The commit a task is bound to changes, against the head its preflight
\* pinned, paths of the task only, whatever people had staged or committed
\* meanwhile.
BoundCommitIsInScope ==
    task.commit # None =>
        LET p == task.commit[1]
        IN  /\ ReceiptOf(task.commit).status = "succeeded"
            /\ Differ(log[plan[p].snap.head].tree, log[ReceiptOf(task.commit).head].tree)
                  \subseteq Scope

\* No operation of a task touches what others have staged outside its scope.
OthersStayStaged ==
    [][call' # call => \A q \in Paths \ Scope : index'[q] = index[q]]_vars

\* An authority that ended as succeeded or failed has a receipt that says so,
\* or nothing was done: the receipt is stored before the authority is closed.
EndedAsRecorded ==
    \A p \in Preflights :
        /\ auth[p] = "succeeded" =>
              \E i \in DOMAIN receipts[p] : receipts[p][i].status = "succeeded"
        /\ auth[p] = "failed" /\ p \in applied => p \in overtaken

\* A receipt of failure means that nothing was done, unless a recovery came
\* while the command was still under way.
FailedIsNotApplied ==
    \A p \in Preflights : \A i \in DOMAIN receipts[p] :
        receipts[p][i].status = "failed" => p \notin applied \/ p \in overtaken

\* What the receipts and the authority of a preflight say has happened: nothing
\* claims a success or a failure that the repository or the remote contradicts.
OutcomeIsTrue == SucceededIsApplied /\ EndedAsRecorded /\ FailedIsNotApplied
==============================================================================
