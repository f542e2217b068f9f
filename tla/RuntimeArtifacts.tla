-------------------------- MODULE RuntimeArtifacts --------------------------
(* The preparation of an immutable runtime artifact                         *)
(* (candidate_preparation.py and its two handlers in server.py): a private  *)
(* clone of the canonical source and a snapshot of the database are staged, *)
(* moved to the place their identity names, and recorded by a receipt. An   *)
(* identity is the role, the revision of the source (head and integrated    *)
(* patch) and the database file; what is built at it is content 0 of its    *)
(* root, and whoever changes and commits there makes content 1, 2, ...      *)
EXTENDS Naturals, FiniteSets

CONSTANTS
    None,         \* no root, no plan
    Runtimes,     \* runtimes with a preparation and an activation controller each
    Operator,     \* the person who runs repin-v26-runtime
    Old, Main,    \* the source deployed first, without a manifest; the canonical checkout
    Offers,       \* the sets of calls that people and clients use together
    MaxRevision,  \* bound: revisions of the canonical source
    MaxExecutes,  \* bound: executions, maintenance calls and repins
    MaxFaults,    \* bound: failing system calls
    MaxMishaps    \* bound: crashes, edits of a source, replacements of the database

ASSUME ArtifactAssumption ==
    /\ Operator \notin Runtimes /\ None \notin Runtimes \cup {Operator, Old, Main}
    /\ Old # Main /\ None \notin [at : 0..MaxMishaps, clean : BOOLEAN]
    /\ MaxRevision \in Nat \ {0} /\ MaxExecutes \in Nat
    /\ MaxFaults \in Nat /\ MaxMishaps \in Nat

VARIABLES
    canonical, \* the revision of the canonical source
    db,        \* which file the director database is
    tree,      \* what is at each root: its content, committed or not
    states,    \* the identities whose database snapshot is in place
    receipts,  \* the identities with a durable preparation receipt
    plan,      \* the preflight each runtime holds for its client
    job,       \* what each actor is doing
    offered,   \* the calls used in this behaviour
    executes, faults, mishaps

artifacts == <<canonical, db, tree, states, receipts>>
budgets == <<executes, faults, mishaps, offered>>

Actors == Runtimes \cup {Operator}
Roles == {"candidate", "recovery_baseline"}
Identities == Roles \X (1..MaxRevision) \X (0..MaxMishaps)
Roots == {Old, Main} \cup Identities
Contents == 0..MaxMishaps

\* A job of no one; root is what the call is about, then where a restoration
\* of the deployment leads, read the manifest that a repin has read.
Idle == [at |-> "idle", root |-> None, then |-> "idle", read |-> None]
Goto(r, step) == job' = [job EXCEPT ![r].at = step]
Begin(r, step, root) ==
    job' = [job EXCEPT ![r] = [Idle EXCEPT !.at = step, !.root = root]]

\* provisioning_events and readiness receipts are rows of the database whose
\* semantic digest an activation plan pins: any of them makes it stale.
Stale(plans) == [r \in Runtimes |->
    IF plans[r] # None /\ plans[r].kind = "activate"
    THEN [plans[r] EXCEPT !.fresh = FALSE] ELSE plans[r]]

\* The call of a runtime ends, and its outcome is recorded as an event.
Finish(r) ==
    /\ job' = [job EXCEPT ![r] = Idle]
    /\ plan' = Stale([plan EXCEPT ![r] = None])

Mishap == "mishap" \in offered /\ mishaps < MaxMishaps /\ mishaps' = mishaps + 1
Fault == faults < MaxFaults /\ faults' = faults + 1

-----------------------------------------------------------------------------
(* Preflight.                                                              *)

\* The source as the integration receipts and the patch of its paths give it.
SourceRevision == canonical

\* The identity of the database: its file, never its rows.
DatabaseIdentity == db

\* What preflight names the artifact after.
CandidateId(role) == <<role, SourceRevision, DatabaseIdentity>>

\* preflight reads everything and changes nothing.
PreparePreflight(r, role) ==
    /\ job[r].at = "idle" /\ "prepare" \in offered
    /\ plan' = [plan EXCEPT ![r] = [kind |-> "prepare", id |-> CandidateId(role)]]
    /\ UNCHANGED <<artifacts, job, budgets>>

-----------------------------------------------------------------------------
(* Execution.                                                              *)

Exists(root) == tree[root] # None
\* The bytes of an artifact are those its manifest has the digest of.
Unmodified(root) == tree[root].at = 0
Clean(root) == tree[root].clean

\* A plausible mistake for ReadsAsPrepared: the snapshot is taken to be there.
ReadsAsPreparedStateless(id) == Exists(id) /\ Clean(id) /\ Unmodified(id)

\* The artifact that is there is the one that was prepared, with its database.
ReadsAsPrepared(id) == Exists(id) /\ Clean(id) /\ Unmodified(id) /\ id \in states

\* The preflight is repeated: another source or database means refusal. What
\* exists already is recorded as it is; a state without its artifact refuses.
ExecutePreparation(r) ==
    /\ job[r].at = "idle" /\ executes < MaxExecutes
    /\ plan[r] # None /\ plan[r].kind = "prepare"
    /\ executes' = executes + 1
    /\ LET id == plan[r].id IN
       \/ /\ id = CandidateId(id[1])
          /\ \/ ReadsAsPrepared(id) /\ Begin(r, "persist", id)
             \/ ~Exists(id) /\ id \notin states /\ Begin(r, "artifact", id)
          /\ plan' = Stale(plan)
       \/ /\ \/ id # CandidateId(id[1])
             \/ Exists(id) /\ ~ReadsAsPrepared(id)
             \/ ~Exists(id) /\ id \in states
          /\ Finish(r)
    /\ UNCHANGED <<artifacts, faults, mishaps, offered>>

\* The clone, the patch, the synthetic commit, the bootstrap contract, the probe
\* of the staged runtime and the database snapshot are private until they are
\* moved: any failure of them leaves nothing.
StagingFails(r) ==
    /\ job[r].at = "artifact" /\ Fault /\ Finish(r)
    /\ UNCHANGED <<artifacts, executes, mishaps, offered>>

\* os.replace(staging_root, final_root): a directory that has come meanwhile is
\* not empty, and the move fails.
MoveArtifact(r) ==
    LET id == job[r].root IN
    /\ job[r].at = "artifact"
    /\ \/ ~Exists(id) /\ tree' = [tree EXCEPT ![id] = [at |-> 0, clean |-> TRUE]]
                      /\ Goto(r, "state") /\ UNCHANGED plan
       \/ Exists(id) /\ Finish(r) /\ UNCHANGED tree
    /\ UNCHANGED <<canonical, db, states, receipts, budgets>>

\* os.replace(state_stage, final_state); when it fails, only the staged state is
\* removed and the artifact stays behind.
MoveState(r) ==
    LET id == job[r].root IN
    /\ job[r].at = "state"
    /\ \/ id \notin states /\ states' = states \cup {id} /\ Goto(r, "seal")
          /\ UNCHANGED <<plan, faults>>
       \/ id \in states /\ Finish(r) /\ UNCHANGED <<states, faults>>
       \/ Fault /\ Finish(r) /\ UNCHANGED states
    /\ UNCHANGED <<canonical, db, tree, receipts, executes, mishaps, offered>>

\* The artifact is made read-only; nothing of the model needs the permission.
Seal(r) ==
    /\ job[r].at = "seal"
    /\ \/ Goto(r, "persist") /\ UNCHANGED <<plan, faults>>
       \/ Fault /\ Finish(r)
    /\ UNCHANGED <<artifacts, executes, mishaps, offered>>

\* The receipt is stored; the same receipt may be there already.
PersistReceipt(r) ==
    /\ job[r].at = "persist"
    /\ \/ receipts' = receipts \cup {job[r].root} /\ UNCHANGED faults
       \/ Fault /\ UNCHANGED receipts
    /\ Finish(r)
    /\ UNCHANGED <<canonical, db, tree, states, executes, mishaps, offered>>

\* What _set_read_only does not keep people from: editing a source, committing
\* the edit, going on with the canonical source, replacing the database.
Edit(root) ==
    /\ Exists(root) /\ root # Main /\ Mishap
    /\ \/ tree' = [tree EXCEPT ![root].clean = FALSE]
       \/ tree' = [tree EXCEPT ![root].at = @ + 1]
    /\ UNCHANGED <<canonical, db, states, receipts, plan, job, executes, faults, offered>>

NewRevision ==
    /\ "revise" \in offered
    /\ canonical < MaxRevision /\ canonical' = canonical + 1
    /\ UNCHANGED <<db, tree, states, receipts, plan, job, budgets>>

ReplaceDatabase ==
    /\ Mishap /\ db' = db + 1
    /\ UNCHANGED <<canonical, tree, states, receipts, plan, job, executes, faults, offered>>

\* A receipt stands for an artifact with its database snapshot, however often and
\* by however many runtimes the same source is prepared, and whatever fails
\* between the move of the one and of the other.
ReceiptIsBacked == \A id \in receipts : Exists(id) /\ id \in states
=============================================================================
