-------------------------- MODULE RuntimeDeployment -------------------------
(* The deployment of the runtime (local_maintenance.py): two files, the      *)
(* wrapper that says which source to run and the manifest that pins its      *)
(* identity, replaced one after the other by V26RuntimeDeployment and by     *)
(* repin-v26-runtime without a lock, and read by the bootstrap check that    *)
(* every start of the runtime makes first. A wrapper names a root, its base  *)
(* revision and the patch of a commit of it; the content number of the       *)
(* committed source stands for that commit and its patch.                    *)
EXTENDS RuntimeArtifacts

VARIABLES
    wrapper,   \* runtime-run: source root, base revision, patch
    manifest,  \* the same, with the source's head and the database
    running,   \* the source the runtime was started with, or None
    last,      \* _last_snapshot of each runtime's deployment adapter
    excused    \* someone has left the files in a state no call has to repair

deployment == <<wrapper, manifest, running, last, excused>>

\* The patch that repin computes: the uncommitted difference of a source.
Diff == MaxMishaps + 1

Pins(m) == [root |-> m.root, base |-> m.base, patch |-> m.patch]
Base(root) == IF root = Old THEN 1 ELSE root[2]

\* The head of a checkout: the canonical revision; of an artifact a commit of its
\* own, above its base.
HeadOf(root) == IF root = Main THEN canonical ELSE MaxRevision + 1

Agree == wrapper = Pins(manifest)

\* A plausible mistake for BootstrapAccepts: the root is enough of an identity.
BootstrapAcceptsAnyHead ==
    /\ wrapper.root = manifest.root /\ wrapper.root # Main
    /\ Exists(wrapper.root) /\ Clean(wrapper.root) /\ manifest.db = DatabaseIdentity

\* bootstrap-v26-runtime: the files agree, the source is one of the managed
\* roots, at the pinned head, clean and with the pinned patch, and the database
\* is the pinned one.
BootstrapAccepts ==
    LET root == wrapper.root IN
    /\ Agree
    /\ root # Main /\ Exists(root)
    /\ manifest.head = tree[root].at /\ Clean(root)
    /\ wrapper.patch = tree[root].at
    /\ manifest.db = DatabaseIdentity

\* launchd starts the wrapper, which runs the check and then the source.
Start ==
    /\ running = None /\ BootstrapAccepts
    /\ running' = [root |-> wrapper.root, at |-> tree[wrapper.root].at]
    /\ UNCHANGED <<artifacts, plan, job, budgets, wrapper, manifest, last, excused>>

-----------------------------------------------------------------------------
(* V26RuntimeDeployment. plan[r] is the activation plan, with the runtime     *)
(* that was running at its preflight.                                        *)

\* What activate writes for the candidate of a plan.
Target(p) == [root |-> p.root, base |-> Base(p.root), patch |-> p.at,
              head |-> p.at, db |-> p.current.db]

\* A plausible mistake for Portable: the wrapper to restore is the new one.
PortableNew(p) == [wrapper |-> Pins(Target(p)),
                   manifest |-> [manifest EXCEPT !.head = p.current.at, !.db = p.current.db]]

\* _portable_rollback_snapshot: the files as read, with the head and database of
\* the runtime that was running.
Portable(p) == [wrapper |-> wrapper,
                manifest |-> [manifest EXCEPT !.head = p.current.at, !.db = p.current.db]]

Drifted(p) == \/ manifest.root # p.current.root
              \/ manifest.base \notin {p.current.base, HeadOf(p.current.root)}

\* activate reads the files; when they disagree or are not those of the running
\* runtime it raises, with the snapshot of an earlier activation still in place.
ReadSnapshot(r) ==
    /\ job[r].at = "snapshot"
    /\ \/ Agree /\ ~Drifted(plan[r])
          /\ last' = [last EXCEPT ![r] = Portable(plan[r])] /\ Goto(r, "wrapper")
       \/ (~Agree \/ Drifted(plan[r])) /\ Goto(r, "rollback") /\ UNCHANGED last
    /\ UNCHANGED <<artifacts, plan, budgets, wrapper, manifest, running, excused>>

\* Any error from here on leads to a restoration, and that to the rollback.
Restoring(r, then) == job' = [job EXCEPT ![r].at = "restore wrapper", ![r].then = then]

WriteWrapper(r) ==
    /\ job[r].at = "wrapper"
    /\ \/ wrapper' = Pins(Target(plan[r])) /\ Goto(r, "manifest") /\ UNCHANGED faults
       \/ Fault /\ Restoring(r, "rollback") /\ UNCHANGED wrapper
    /\ UNCHANGED <<artifacts, plan, executes, mishaps, offered, manifest, running, last, excused>>

WriteManifest(r) ==
    /\ job[r].at = "manifest"
    /\ \/ manifest' = Target(plan[r]) /\ Goto(r, "readback") /\ UNCHANGED faults
       \/ Fault /\ Restoring(r, "rollback") /\ UNCHANGED manifest
    /\ UNCHANGED <<artifacts, plan, executes, mishaps, offered, wrapper, running, last, excused>>

ReadBack(r) ==
    /\ job[r].at = "readback"
    /\ IF manifest = Target(plan[r]) /\ Agree THEN Goto(r, "restart")
                                              ELSE Restoring(r, "rollback")
    /\ UNCHANGED <<artifacts, plan, budgets, deployment>>

\* launchctl kickstart -k: the runtime is killed, to be started again; the command
\* may fail, or time out after it has done so.
Kickstart(r, next) ==
    /\ \/ running' = None /\ next /\ UNCHANGED faults
       \/ /\ Fault /\ running' \in {None, running}
          /\ IF job[r].at = "restart" THEN Restoring(r, "rollback") ELSE Goto(r, "unknown")
    /\ UNCHANGED <<artifacts, plan, executes, mishaps, offered, wrapper, manifest, last, excused>>

Restart(r) == job[r].at = "restart" /\ Kickstart(r, Goto(r, "postread"))

\* _restore_snapshot, of activate itself and of the rollback after it: wrapper,
\* manifest, read-back.
RestoreWrapper(r) ==
    /\ job[r].at = "restore wrapper"
    /\ \/ wrapper' = last[r].wrapper /\ Goto(r, "restore manifest") /\ UNCHANGED faults
       \/ Fault /\ UNCHANGED wrapper
          /\ Goto(r, IF job[r].then = "rollback" THEN "rollback" ELSE "unknown")
    /\ UNCHANGED <<artifacts, plan, executes, mishaps, offered, manifest, running, last, excused>>

RestoreManifest(r) ==
    /\ job[r].at = "restore manifest"
    /\ \/ manifest' = last[r].manifest /\ Goto(r, "restored") /\ UNCHANGED faults
       \/ Fault /\ UNCHANGED manifest
          /\ Goto(r, IF job[r].then = "rollback" THEN "rollback" ELSE "unknown")
    /\ UNCHANGED <<artifacts, plan, executes, mishaps, offered, wrapper, running, last, excused>>

RestoreReadBack(r) ==
    /\ job[r].at = "restored"
    /\ Goto(r, IF \/ job[r].then = "rollback"
                  \/ wrapper = last[r].wrapper /\ manifest = last[r].manifest
               THEN job[r].then ELSE "unknown")
    /\ UNCHANGED <<artifacts, plan, budgets, deployment>>

\* rollback restores whatever snapshot the adapter has, and restarts.
Rollback(r) ==
    /\ job[r].at = "rollback"
    /\ IF last[r] = None THEN Goto(r, "unknown") ELSE Restoring(r, "rolled back")
    /\ UNCHANGED <<artifacts, plan, budgets, deployment>>

RestartRolledBack(r) == job[r].at = "rolled back" /\ Kickstart(r, Goto(r, "answered"))

-----------------------------------------------------------------------------
(* repin-v26-runtime, run by a person from some checkout.                    *)

\* The base that repin writes is the head of the checkout it is run from.
ParentOf(root) == IF root = Main THEN canonical - 1 ELSE Base(root)

\* The deployed base is the head of this checkout, or its parent when this
\* checkout is deployed.
BeginRepin(root) ==
    /\ job[Operator].at = "idle" /\ "repin" \in offered
    /\ executes < MaxExecutes /\ Exists(root)
    /\ wrapper.root = manifest.root /\ wrapper.base = manifest.base
    /\ \/ wrapper.base = HeadOf(root)
       \/ wrapper.base = ParentOf(root) /\ wrapper.root = root
    /\ executes' = executes + 1
    /\ job' = [job EXCEPT ![Operator] = [Idle EXCEPT !.at = "repin wrapper", !.root = root,
                                                     !.read = manifest]]
    /\ UNCHANGED <<artifacts, plan, faults, mishaps, offered, deployment>>

Repinned == LET root == job[Operator].root IN
    [job[Operator].read EXCEPT !.root = root, !.base = HeadOf(root), !.patch = Diff]

\* The wrapper, the manifest from what was read before, and the restart: a failure
\* is reported and nothing put back; the head and the database stay as pinned.
RepinWrapper ==
    /\ job[Operator].at = "repin wrapper"
    /\ excused' = TRUE
    /\ \/ wrapper' = Pins(Repinned)
          /\ Goto(Operator, "repin manifest") /\ UNCHANGED faults
       \/ Fault /\ job' = [job EXCEPT ![Operator] = Idle] /\ UNCHANGED wrapper
    /\ UNCHANGED <<artifacts, plan, executes, mishaps, offered, manifest, running, last>>

RepinManifest ==
    /\ job[Operator].at = "repin manifest"
    /\ \/ manifest' = Repinned
          /\ Goto(Operator, "repin restart") /\ UNCHANGED faults
       \/ Fault /\ job' = [job EXCEPT ![Operator] = Idle] /\ UNCHANGED manifest
    /\ UNCHANGED <<artifacts, plan, executes, mishaps, offered, wrapper, running, last, excused>>

RepinRestart ==
    /\ job[Operator].at = "repin restart"
    /\ job' = [job EXCEPT ![Operator] = Idle]
    /\ LET written == Pins(manifest) = Pins(Repinned) /\ Agree IN
       \/ written /\ running' = None /\ UNCHANGED faults
       \/ written /\ Fault /\ running' \in {None, running}
       \/ ~written /\ UNCHANGED <<running, faults>>
    /\ UNCHANGED <<artifacts, plan, executes, mishaps, offered, wrapper, manifest, last, excused>>
=============================================================================
