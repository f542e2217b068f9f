-------------------------- MODULE RuntimeActivation -------------------------
(* The activation of a prepared candidate (runtime_activation.py, the         *)
(* handlers of runtime.candidate.activate) over the deployment, and local      *)
(* maintenance (_local_maintenance_tool), which shares the database with it.   *)
(* The readers and executors that production_runtime.py binds are not part of  *)
(* the repository: the executor is the adapter's activate, the rollback its    *)
(* rollback, and the readers report what is there.                            *)
EXTENDS RuntimeDeployment

VARIABLES
    approved,  \* the contents of roots whose activation a human has approved
    busy,      \* work is under way that a restart of the tunnel would cut off
    decision,  \* the decision row of each runtime's last maintenance call
    performed, \* how much of the action of that call has been carried out
    queued     \* restarts of the tunnel that a detached helper may still make

maintenance == <<busy, decision, performed, queued>>
vars == <<artifacts, plan, job, budgets, deployment, approved, maintenance>>

-----------------------------------------------------------------------------
(* RuntimeActivationController.                                             *)

\* validate_prepared_candidate_for_activation: an artifact with a manifest has
\* the candidate role and its prepared bytes; one without has no such bytes.
Admitted(root) ==
    root # Old => root[1] = "candidate" /\ Clean(root) /\ Unmodified(root)

\* What the current-runtime reader reports, and _validate_current accepts: a
\* runtime that is up on a clean source.
Current == [root |-> running.root, at |-> tree[running.root].at,
            base |-> Base(running.root), db |-> DatabaseIdentity]

\* _validate_candidate: the source is there, at the expected head and clean.
ValidCandidate(root, at) == Exists(root) /\ tree[root].at = at /\ Clean(root)

ActivationPreflight(r, root) ==
    /\ job[r].at = "idle" /\ "activate" \in offered
    /\ running # None /\ Clean(running.root)
    /\ root # Main /\ Exists(root) /\ Admitted(root)
    /\ ValidCandidate(root, tree[root].at)
    /\ plan' = [plan EXCEPT ![r] =
                  [kind |-> "activate", root |-> root, at |-> tree[root].at,
                   db |-> DatabaseIdentity, fresh |-> TRUE, current |-> Current]]
    /\ UNCHANGED <<artifacts, job, budgets, deployment, approved, maintenance>>

\* The candidate is validated again and its fingerprint compared, database and
\* rows included; then the executor runs.
StillPinned(p) == ValidCandidate(p.root, p.at) /\ p.db = DatabaseIdentity /\ p.fresh

\* The steps of an activation that touches the files, before its answer.
Deploying == {"snapshot", "wrapper", "manifest", "readback", "restart", "postread",
              "restore wrapper", "restore manifest", "restored", "rollback", "rolled back", "unknown",
              "answered"}

ExecuteActivation(r) ==
    /\ job[r].at = "idle" /\ executes < MaxExecutes
    /\ plan[r] # None /\ plan[r].kind = "activate"
    /\ executes' = executes + 1
    /\ IF StillPinned(plan[r])
       THEN /\ approved' = approved \cup {<<plan[r].root, plan[r].at>>}
            /\ excused' = (excused \/ \E q \in Runtimes \ {r} : job[q].at \in Deploying)
            /\ Begin(r, "snapshot", plan[r].root) /\ UNCHANGED plan
       ELSE Finish(r) /\ UNCHANGED <<approved, excused>>
    /\ UNCHANGED <<artifacts, faults, mishaps, offered, wrapper, manifest, running, last, maintenance>>

\* The read-back after the executor: the head of what is running is the
\* candidate's and everything is healthy, or the rollback follows.
PostReadback(r) ==
    LET up == running # None /\ running = [root |-> plan[r].root, at |-> plan[r].at] IN
    /\ job[r].at = "postread"
    /\ \/ up /\ Goto(r, "answered") /\ UNCHANGED faults
       \/ ~up /\ Goto(r, "rollback") /\ UNCHANGED faults
       \/ up /\ Fault /\ Goto(r, "rollback")
    /\ UNCHANGED <<artifacts, plan, executes, mishaps, offered, deployment, approved, maintenance>>

\* ACTIVATED or ROLLED_BACK, and OUTCOME_UNKNOWN; the audit events come only now.
Answer(r) ==
    /\ job[r].at \in {"answered", "unknown"} /\ Finish(r)
    /\ excused' = (excused \/ job[r].at = "unknown")
    /\ UNCHANGED <<artifacts, budgets, wrapper, manifest, running, last, approved, maintenance>>

Deploys(r) ==
    /\ \/ ReadSnapshot(r) \/ WriteWrapper(r) \/ WriteManifest(r) \/ ReadBack(r)
       \/ Restart(r) \/ RestoreWrapper(r) \/ RestoreManifest(r) \/ RestoreReadBack(r)
       \/ Rollback(r) \/ RestartRolledBack(r)
    /\ UNCHANGED <<approved, maintenance>>

Prepares(r) ==
    /\ \/ \E role \in Roles : PreparePreflight(r, role)
       \/ ExecutePreparation(r) \/ StagingFails(r) \/ MoveArtifact(r)
       \/ MoveState(r) \/ Seal(r) \/ PersistReceipt(r)
    /\ UNCHANGED <<deployment, approved, maintenance>>

-----------------------------------------------------------------------------
(* _local_maintenance_tool.                                                 *)

Maintenances == {"restart", "shortcut", "toolchain"}

\* The policy and the grant are checked, for a restart the blockers too, and the
\* decision is saved before anything is done.
BeginMaintenance(r, action) ==
    /\ job[r].at = "idle" /\ "maintain" \in offered
    /\ executes < MaxExecutes /\ (action = "restart" => ~busy)
    /\ executes' = executes + 1
    /\ performed' = [performed EXCEPT ![r] = "not"]
    /\ \/ decision' = [decision EXCEPT ![r] = "authorized_pending"]
          /\ Begin(r, "recheck", action)
          /\ plan' = Stale(plan) /\ UNCHANGED faults
       \/ Fault /\ decision' = [decision EXCEPT ![r] = "none"] /\ UNCHANGED <<job, plan>>
    /\ UNCHANGED <<artifacts, mishaps, offered, deployment, approved, busy, queued>>

\* A later row of the decision, which may fail to be saved.
Save(r, outcome) ==
    \/ decision' = [decision EXCEPT ![r] = outcome] /\ UNCHANGED faults
    \/ Fault /\ UNCHANGED decision

Ends(r) == job' = [job EXCEPT ![r] = Idle] /\ plan' = Stale(plan)

Blocked(r) == job[r].root = "restart" /\ busy

\* For a restart the blockers are looked at again; the event is recorded, and for
\* a restart the sessions are checkpointed.
RecheckBlockers(r) ==
    /\ job[r].at = "recheck"
    /\ \/ Blocked(r) /\ Save(r, "blocked_active_work") /\ Ends(r)
       \/ ~Blocked(r) /\ Goto(r, "perform") /\ plan' = Stale(plan) /\ UNCHANGED <<decision, faults>>
       \/ ~Blocked(r) /\ Fault /\ Ends(r) /\ UNCHANGED decision
    /\ UNCHANGED <<artifacts, executes, mishaps, offered, deployment, approved, busy, queued, performed>>

\* A plausible mistake for FailureOutcome: every failure is one.
FailureOutcomeCertain(known) == "failed"

\* What a failing action is recorded as, by whether its outcome is known.
FailureOutcome(known) == IF known THEN "failed" ELSE "outcome_unknown"

\* LocalMaintenanceController.execute: the action is done and to be recorded; or it
\* fails with so much of it done.
Done(r) ==
    /\ performed' = [performed EXCEPT ![r] = "done"] /\ Goto(r, "record")
    /\ UNCHANGED <<decision, faults, plan>>
Fails(r, known, much) ==
    /\ performed' = [performed EXCEPT ![r] = much]
    /\ Save(r, FailureOutcome(known)) /\ Ends(r)

At(r, action) == job[r].at = "perform" /\ job[r].root = action

\* A helper is started that will restart the tunnel when the answer has gone out.
QueueRestart(r) ==
    /\ At(r, "restart")
    /\ \/ queued' = 3 /\ Done(r)
       \/ Fails(r, FALSE, "not") /\ UNCHANGED queued
    /\ UNCHANGED <<artifacts, executes, mishaps, offered, deployment, approved, busy>>

WriteShortcut(r) ==
    /\ At(r, "shortcut")
    /\ Done(r) \/ Fails(r, FALSE, "not")
    /\ UNCHANGED <<artifacts, executes, mishaps, offered, deployment, approved, busy, queued>>

\* Three commands and a verification: one that exits with an error is known to have
\* failed, one that times out is not, and those before it have been done.
InstallToolchain(r) ==
    /\ At(r, "toolchain")
    /\ \/ Done(r)
       \/ \E much \in {"not", "partly"} : Fails(r, TRUE, much)
       \/ \E much \in {"not", "partly", "done"} : Fails(r, FALSE, much)
    /\ UNCHANGED <<artifacts, executes, mishaps, offered, deployment, approved, busy, queued>>

RecordMaintenance(r) ==
    /\ job[r].at = "record" /\ Ends(r)
    /\ Save(r, IF job[r].root = "restart" THEN "recovering" ELSE "succeeded")
    /\ UNCHANGED <<artifacts, executes, mishaps, offered, deployment, approved, busy, queued, performed>>

Maintains(r) ==
    \/ \E action \in Maintenances : BeginMaintenance(r, action)
    \/ RecheckBlockers(r) \/ QueueRestart(r) \/ WriteShortcut(r) \/ InstallToolchain(r)
    \/ RecordMaintenance(r)

\* The processes of some runtimes die: plans, receipts and snapshots were in memory.
Die(some) ==
    /\ job' = [a \in Actors |-> IF a \in some THEN Idle ELSE job[a]]
    /\ plan' = [r \in Runtimes |-> IF r \in some THEN None ELSE plan[r]]
    /\ last' = [r \in Runtimes |-> IF r \in some THEN None ELSE last[r]]
    /\ excused' = (excused \/ \E r \in some : job[r].at \in Deploying)
    /\ UNCHANGED <<artifacts, executes, faults, offered, wrapper, manifest, running, approved,
                   busy, decision, performed>>

\* _run_detached_restart: launchctl kickstart -k of the tunnel, whose runtimes die,
\* until it is ready, three times at most.
DetachedRestart ==
    /\ queued > 0 /\ queued' \in {0, queued - 1}
    /\ Die(Runtimes) /\ UNCHANGED mishaps

Work == /\ "maintain" \in offered /\ busy' = ~busy
        /\ UNCHANGED <<artifacts, plan, job, budgets, deployment, approved, decision, performed, queued>>

-----------------------------------------------------------------------------
Crash(r) == Mishap /\ Die({r}) /\ UNCHANGED queued

People ==
    /\ NewRevision \/ ReplaceDatabase \/ (\E root \in Roots : Edit(root))
    /\ UNCHANGED <<deployment, approved, maintenance>>

Repin ==
    /\ (\E root \in Roots : BeginRepin(root)) \/ RepinWrapper \/ RepinManifest \/ RepinRestart
    /\ UNCHANGED <<approved, maintenance>>

\* The source deployed first is running; a candidate of the first revision may have
\* been prepared before.
Init ==
    /\ canonical = 1 /\ db = 0
    /\ offered \in Offers
    /\ receipts \in SUBSET {<<"candidate", 1, 0>>} /\ states = receipts
    /\ tree = [root \in Roots |-> IF root \in receipts \cup {Old, Main}
                                  THEN [at |-> 0, clean |-> TRUE] ELSE None]
    /\ plan = [r \in Runtimes |-> None] /\ job = [a \in Actors |-> Idle]
    /\ executes = 0 /\ faults = 0 /\ mishaps = 0
    /\ manifest = [root |-> Old, base |-> 1, patch |-> 0, head |-> 0, db |-> 0]
    /\ wrapper = Pins(manifest)
    /\ running = [root |-> Old, at |-> 0]
    /\ last = [r \in Runtimes |-> None] /\ excused = FALSE
    /\ approved = {<<Old, 0>>}
    /\ busy = FALSE /\ decision = [r \in Runtimes |-> "none"]
    /\ performed = [r \in Runtimes |-> "not"] /\ queued = 0

Next ==
    \/ \E r \in Runtimes :
          \/ Prepares(r) \/ Deploys(r) \/ Maintains(r)
          \/ \E root \in Roots : ActivationPreflight(r, root)
          \/ ExecuteActivation(r) \/ PostReadback(r) \/ Answer(r) \/ Crash(r)
    \/ Start /\ UNCHANGED <<approved, maintenance>>
    \/ Repin \/ People \/ Work \/ DetachedRestart

Spec == Init /\ [][Next]_vars

-----------------------------------------------------------------------------
(* Properties.                                                             *)

TypeOK ==
    /\ tree \in [Roots -> {None} \cup [at : Contents, clean : BOOLEAN]]
    /\ states \subseteq Identities /\ receipts \subseteq Identities
    /\ wrapper \in [root : Roots, base : 1..MaxRevision + 1, patch : Contents \cup {Diff}]
    /\ Pins(manifest) \in [root : Roots, base : 1..MaxRevision + 1, patch : Contents \cup {Diff}]
    /\ running # None => running \in [root : Roots, at : Contents]
    /\ \A r \in Runtimes : plan[r] # None => plan[r].kind \in {"prepare", "activate"}
    /\ \A a \in Actors : job[a].root \in Roots \cup Maintenances \cup {None}
    /\ approved \subseteq Roots \X Contents

\* Whatever two controllers, a repin, crashes, failing writes and edits of sources
\* make of the two files, the runtime that starts is one whose activation a human
\* approved, with the very content that was approved (or the one deployed first).
OnlyApprovedRuns == running # None => <<running.root, running.at>> \in approved

Touched(root) == ~Exists(root) \/ ~Clean(root) \/ tree[root].at # wrapper.patch

\* When no call is under way, and no activation has been cut off before its answer,
\* has answered OUTCOME_UNKNOWN or has overlapped another or a repin, the deployment is one that the bootstrap check
\* accepts, as long as nobody has touched its source or replaced the database: a
\* failed activation leaves no torn and no unstartable deployment.
DeploymentStarts ==
    (\A a \in Actors : job[a].at = "idle") /\ ~excused =>
        Touched(wrapper.root) \/ manifest.db # db \/ BootstrapAccepts

\* The types, and DeploymentStarts.
DeploymentIsSound == TypeOK /\ DeploymentStarts

\* What is recorded of a maintenance call is true: nothing is done without a
\* decision or after a refusal, nothing that was done is recorded as failed, and
\* nothing that was not done as a success, whatever of the records fails and
\* whenever the runtime dies.
DecisionIsTrue ==
    \A r \in Runtimes :
        /\ performed[r] = "done" =>
              decision[r] \in {"authorized_pending", "outcome_unknown", "recovering", "succeeded"}
        /\ decision[r] \in {"recovering", "succeeded"} => performed[r] = "done"
        /\ decision[r] \in {"none", "blocked_active_work"} => performed[r] = "not"
=============================================================================
