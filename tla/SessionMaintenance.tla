------------------------- MODULE SessionMaintenance -------------------------
(* The maintenance capabilities of a retained session (server.py): identity  *)
(* repair, semantic disposition, archival, reconciliation, the adoption of a *)
(* worktree nobody manages and the import of evidence of an older            *)
(* generation. Each is a preflight, which records what it saw, and an        *)
(* execution, which looks again and then changes the receipts, the row, the  *)
(* sidecar and the object one after the other. Any of these steps may fail   *)
(* and the runtime may stop between two of them; what is left behind is what *)
(* the next call has to make sense of.                                       *)
(*                                                                           *)
(* One runtime, whose calls follow one another; the other handlers of a      *)
(* session (DevelopmentSessions) are one step each here.                     *)
EXTENDS SessionEvidence

CONSTANTS
    Offers,      \* the sets of operations of which a behaviour uses one
    MaxReceipts  \* bound: reconciliation receipts of the session

ASSUME ReceiptsAssumption == MaxReceipts \in Nat \ {0}

ASSUME TaskAssumption == Absent # "older"

VARIABLES
    plan,      \* the latest preflight: operation, disposition and what it saw
    approved,  \* an attach has been requested and approved
    answered,  \* the receipt of the last decision answered and still in force
    adopted,   \* the contents accounted for by adoption receipts
    source,    \* the database of the older generation: whole, or changed since
    taskRow,   \* the row of the session's task: Absent, the older one, or another
    imports,   \* an import receipt is stored
    up,        \* the runtime runs
    offer

calls == <<plan, approved, answered>>
import == <<source, taskRow, imports>>
rest == <<adopted, import, up, offer>>
maintenanceVars == <<archives, job, mishaps, evidence, calls, rest>>

Retired == Session("suspended", TRUE, 1)
Old == RowOf(Session("stale", TRUE, 1))   \* the row the older generation holds

MaintenanceInit ==
    /\ tree \in Contents /\ origin \in Origins
    /\ filed = [a \in Contents |-> Absent] /\ booked = {}
    /\ offer \in Offers
    /\ \/ \* suspended, with or without a row
          /\ side = SidecarOf(Retired) /\ row \in {Absent, RowOf(Retired)}
          /\ object = Retired /\ busy = FALSE
       \/ \* in use
          /\ LET s == Session("active", FALSE, origin)
             IN  side = SidecarOf(s) /\ row = RowOf(s) /\ object = s
          /\ busy = TRUE
       \/ \* a worktree of which this generation knows nothing
          /\ side = Absent /\ row = Absent /\ object = Absent /\ busy = FALSE
    /\ expired = FALSE /\ heir = FALSE /\ receipts = <<>>
    /\ job = Absent /\ mishaps = 0
    /\ plan = Absent /\ approved = FALSE /\ answered = Absent
    /\ adopted = {} /\ source = "whole" /\ taskRow = Absent /\ imports = FALSE
    /\ up = TRUE

BetweenCalls == up /\ job = Absent
Offered(op) == op \in offer

-----------------------------------------------------------------------------
(* Preflights.                                                              *)

Observed(op, disp, seen) == [op |-> op, disp |-> disp, seen |-> seen]

RepairPlan == Observed("repair", Absent, Observation)
DispositionPlan(d) == Observed("disposition", d, DispositionState(d))
ArchivePlan == Observed("archive", Absent, RetainedState)
ReconcilePlan == Observed("reconcile", Absent, Snapshot)

PlanOf(op) ==
    CASE op = "repair" -> {RepairPlan}
      [] op = "disposition" -> {DispositionPlan(d) : d \in {d \in Dispositions : Disposable(d)}}
      [] op = "archive" -> {ArchivePlan}
      [] op = "reconcile" -> {ReconcilePlan}

Preflight(op) ==
    /\ BetweenCalls /\ Offered(op) /\ Known # Absent
    /\ plan' \in PlanOf(op) /\ plan' # plan
    /\ UNCHANGED <<archives, job, mishaps, evidence, approved, answered, rest>>

PreflightAdoption ==
    /\ BetweenCalls /\ Offered("adopt")
    /\ plan' = Observed("adopt", Absent, Adoption) /\ plan' # plan
    /\ UNCHANGED <<archives, job, mishaps, evidence, approved, answered, rest>>

\* _read_bundle: the session's row, its tasks and all they refer to, in one read of
\* the source; a source whose closure is not whole is refused.
Bundle == [source |-> source, session |-> Old, task |-> "older"]

\* EvidenceGenerationImporter.preflight.
PreflightImport ==
    /\ BetweenCalls /\ Offered("import") /\ source = "whole"
    /\ plan' = Observed("import", Absent, Bundle) /\ plan' # plan
    /\ UNCHANGED <<archives, job, mishaps, evidence, approved, answered, rest>>

Executes(op) == BetweenCalls /\ plan # Absent /\ plan.op = op

\* An execution begins: its plan is used up, its steps are to be taken, and a
\* decision before it is no longer the last.
Begin(j) ==
    /\ job' = j /\ plan' = Absent
    /\ answered' = (IF j.op = "disposition" THEN answered ELSE Absent)
    /\ UNCHANGED <<archives, mishaps, approved, rest>>

\* An answer without an effect.
Answer(id) ==
    /\ plan' = Absent /\ answered' = id
    /\ UNCHANGED <<archives, job, mishaps, evidence, approved, rest>>

-----------------------------------------------------------------------------
(* Executions. A refusal has no effect and is not a step.                   *)

\* _development_session_identity_repair_execute. The object is changed before
\* anything is written; a proof that is there already is reused or refused.
ExecuteRepair ==
    /\ Executes("repair") /\ plan.seen = Observation
    /\ Repairable(plan.seen)
    /\ object # Absent /\ object.proof = Absent /\ object.ident = plan.seen.stored
    /\ object' = [object EXCEPT !.ident = origin, !.proof = origin]
    /\ Begin(Doing("repair", object, <<"rewrite", "save">>))
    /\ UNCHANGED <<origin, side, row, standing, receipts>>

\* _development_session_set_disposition_execute, up to the sidecar: a receipt
\* with the id of this decision answers the call, or refuses it.
ExecuteDisposition ==
    /\ Executes("disposition") /\ Known # Absent /\ Disposable(plan.disp)
    /\ LET now == DispositionState(plan.disp)
           mine == DispositionIds(plan.disp)
       IN  /\ DispositionAllowed(now)
           /\ \/ /\ \E i \in mine : DispositionMatches(receipts[i], now)
                 /\ Answer(answered)
              \/ /\ mine = {} /\ now = plan.seen
                 /\ Begin(Doing("disposition", now, <<"dispose", "note">>))
                 /\ UNCHANGED evidence

\* A plausible mistake for ReuseSteps: the receipt answers the call by itself.
ReuseStepsNone == <<"object">>

\* _retained_evidence_result_from_receipt: row, sidecar and object once more.
ReuseSteps == <<"row", "side", "object">>

\* A plausible mistake for ArchiveSteps: the receipt goes first, so that a retry
\* finds it.
ArchiveStepsReceiptFirst == <<"receipt", "build", "publish", "book", "row", "side", "object">>

\* _development_session_archive_execute, past its checks.
ArchiveSteps == <<"build", "publish", "book", "receipt", "row", "side", "object">>

\* A receipt of this session that matches, the latest first, ends the call with
\* its own result; else the digest must be the one of the preflight.
ExecuteArchive ==
    /\ Executes("archive") /\ Known # Absent
    /\ LET now == RetainedState
           fits == {i \in Ids : TerminalMatches(receipts[i], now)}
       IN  \/ /\ fits # {}
              /\ Begin([Doing("reuse", now.snap, ReuseSteps) EXCEPT !.id = Latest(fits)])
           \/ /\ fits = {} /\ now = plan.seen /\ ArchiveEligible(now.obs)
              /\ WithDigest({"terminal"}, plan.seen) = {} /\ Len(receipts) < MaxReceipts
              /\ Begin(Doing("archive", now, ArchiveSteps))
    /\ UNCHANGED evidence

\* The receipt a reconciliation goes by: the one of its own digest, else the last.
Existing(seen) ==
    LET own == WithDigest({"reconciled"}, seen) IN IF own # {} THEN own ELSE Ids

Resumed(now) ==
    /\ Existing(plan.seen) # {}
    /\ Classify(now) \in {"already_terminal", "preserve", "missing"}
    /\ Transition(receipts[Latest(Existing(plan.seen))]) = CleanupCandidate

ReconcileSteps(s) ==
    (IF s.exists /\ s.tree # 0 THEN <<"build", "publish", "book">> ELSE <<>>)
    \o <<"receipt", "state", "side", "object">>

\* _development_session_reconcile_execute: an earlier decision is taken up where
\* its receipt still describes the evidence, which then is about the sidecar only.
ExecuteReconcile ==
    /\ Executes("reconcile") /\ Known # Absent
    /\ LET now == Snapshot
           id == Latest(Existing(plan.seen))
       IN  \/ /\ Resumed(now) /\ SidecarBound(now, id) /\ Answer(answered)
           \/ /\ Resumed(now) /\ ~SidecarBound(now, id) /\ SupportsRepair(receipts[id], now)
              /\ Begin([Doing("resume", now, <<"side">>) EXCEPT !.id = id])
              /\ UNCHANGED evidence
           \/ /\ ~Resumed(now) /\ now = plan.seen /\ Classify(now) = "already_terminal"
              /\ Answer(answered)
           \/ /\ ~Resumed(now) /\ now = plan.seen /\ Classify(now) \in {"preserve", "missing"}
              /\ Len(receipts) < MaxReceipts
              /\ Begin(Doing("reconcile", now, ReconcileSteps(now)))
              /\ UNCHANGED evidence

\* _legacy_worktree_adoption_execute: a worktree without a live lease and without
\* a session in memory; its receipt is all there is.
ExecuteAdoption ==
    /\ Executes("adopt") /\ plan.seen = Adoption
    /\ Adoptable(plan.seen)
    /\ adopted' = adopted \cup {tree} /\ plan' = Absent
    /\ UNCHANGED <<archives, job, mishaps, evidence, approved, answered, import, up, offer>>

\* A plausible mistake for Same: a row that exists is taken for the imported one.
SameKey(mine, theirs) == TRUE

\* An existing row must be the imported one, column by column.
Same(mine, theirs) == mine \in {Absent, theirs}

\* EvidenceGenerationImporter.execute: the source is still the one that was read.
SourceUnchanged == plan.seen = Bundle

\* import_evidence_generation: rows and receipt in one transaction, or
\* EVIDENCE_IDENTITY_CONFLICT and none of them. A change of the destination since
\* the preflight may go unnoticed.
ExecuteImport ==
    /\ Executes("import") /\ SourceUnchanged
    /\ Same(row, plan.seen.session) /\ Same(taskRow, plan.seen.task)
    /\ row' = (IF row = Absent THEN plan.seen.session ELSE row)
    /\ taskRow' = (IF taskRow = Absent THEN plan.seen.task ELSE taskRow)
    /\ imports' = TRUE /\ plan' = Absent
    /\ UNCHANGED <<archives, job, mishaps, origin, side, object, standing, receipts,
                   approved, answered, adopted, source, up, offer>>

-----------------------------------------------------------------------------
(* The steps of an execution.                                               *)

\* The archive of the pipeline must be the one the preview named; a
\* reconciliation takes what it gets.
Wanted == IF job.op = "archive" THEN {job.seen.preview} ELSE Contents

ArchiveStep ==
    /\ up
    /\ BuildSnapshot \/ PublishArchive \/ PublicationRefused \/ (At("book") /\ BookArchive(Wanted))
    /\ UNCHANGED <<evidence, calls, rest>>

\* save_session_reconciliation_receipt: a new id, or the same content again. The
\* disposition's receipt is best effort: the decision is in the sidecar already.
SaveReceipt ==
    /\ up /\ job # Absent /\ Head(job.todo) \in {"receipt", "note"}
    /\ receipts' = Append(receipts,
           CASE job.op = "archive" -> Receipt("terminal", Absent, job.seen, job.archive)
             [] job.op = "reconcile" -> Receipt("reconciled", Absent, job.seen, job.archive)
             [] OTHER -> Receipt("disposition", job.seen.disp, job.seen, Absent))
    /\ job' = (IF Rest(job) = Absent THEN Absent ELSE [Rest(job) EXCEPT !.id = Len(receipts')])
    /\ UNCHANGED <<archives, mishaps, origin, records, standing, calls, rest>>

\* The snapshot of a job, which both evidence-keeping operations carry.
SnapshotOf(j) == IF j.op = "archive" THEN j.seen.snap ELSE j.seen

\* _persist_retained_evidence_session_state: the row, or one made of the snapshot.
PersistRetained ==
    /\ up /\ At("row")
    /\ row' = (IF row = Absent
               THEN [RowOf(Session(CleanupCandidate, TRUE, SnapshotOf(job).ident))
                        EXCEPT !.kept = job.id]
               ELSE [row EXCEPT !.life = CleanupCandidate, !.stale = TRUE, !.kept = job.id])
    /\ job' = Rest(job)
    /\ UNCHANGED <<archives, mishaps, origin, side, object, standing, receipts, calls, rest>>

\* _persist_reconciled_session_state.
PersistReconciled ==
    /\ up /\ At("state")
    /\ row' = (IF row = Absent THEN RowOf(Session(CleanupCandidate, TRUE, job.seen.ident))
               ELSE [row EXCEPT !.life = CleanupCandidate, !.stale = TRUE])
    /\ job' = Rest(job)
    /\ UNCHANGED <<archives, mishaps, origin, side, object, standing, receipts, calls, rest>>

\* _retained_evidence_sidecar_update and _reconciliation_sidecar_tombstone: written
\* aside and moved into place.
Tombstone ==
    /\ up /\ At("side")
    /\ side' = SidecarPayload(SnapshotOf(job).side, job.id)
    /\ job' = Rest(job)
    /\ answered' = (IF Rest(job) = Absent THEN job.id ELSE answered)
    /\ UNCHANGED <<archives, mishaps, origin, row, object, standing, receipts,
                   plan, approved, rest>>

\* The object in memory follows, and the call is answered.
FollowInMemory ==
    /\ up /\ At("object")
    /\ object' = (IF object = Absent THEN Absent
                  ELSE [object EXCEPT !.life = CleanupCandidate, !.stale = TRUE])
    /\ job' = Rest(job) /\ answered' = job.id
    /\ UNCHANGED <<archives, mishaps, origin, side, row, standing, receipts,
                   plan, approved, rest>>

\* The sidecar is read again, compared, and moved into place with the decision.
Dispose ==
    /\ up /\ At("dispose") /\ side = job.seen.side
    /\ side' = [side EXCEPT !.disp = job.seen.disp]
    /\ job' = (IF Len(receipts) < MaxReceipts THEN Rest(job) ELSE Absent)
    /\ UNCHANGED <<archives, mishaps, origin, row, object, standing, receipts, calls, rest>>

\* write_session_sidecar, with the fields of the object and no others, and
\* _persist_development_session.
Rewrite ==
    /\ up /\ job # Absent /\ Head(job.todo) \in {"rewrite", "undo"}
    /\ side' = SidecarOf(object)
    /\ job' = Rest(job)
    /\ UNCHANGED <<archives, mishaps, origin, row, object, standing, receipts, calls, rest>>

SaveRepaired ==
    /\ up /\ At("save")
    /\ row' = RowOf(object)
    /\ job' = Rest(job)
    /\ UNCHANGED <<archives, mishaps, origin, side, object, standing, receipts, calls, rest>>

\* A step fails: the call ends there. Only an identity repair takes anything back:
\* the object, and then the sidecar, which is written from it.
StepFails ==
    /\ up /\ job # Absent /\ Head(job.todo) # "object" /\ Mishap
    /\ IF Head(job.todo) \in {"rewrite", "save"}
       THEN /\ object' = job.seen
            /\ job' = [job EXCEPT !.todo = <<"undo">>]
       ELSE /\ job' = Absent /\ UNCHANGED object
    /\ UNCHANGED <<archives, origin, side, row, standing, receipts, calls, rest>>

-----------------------------------------------------------------------------
(* The other handlers, and the world.                                       *)

\* The runtime stops. A sidecar that is being written in place is then cut off.
RuntimeStops ==
    /\ up /\ Mishap
    /\ up' = FALSE /\ job' = Absent /\ object' = Absent
    /\ plan' = Absent /\ approved' = FALSE /\ answered' = answered
    /\ side' \in {side} \cup (IF job # Absent /\ Head(job.todo) \in {"rewrite", "undo"}
                              THEN {Absent} ELSE {})
    /\ UNCHANGED <<archives, origin, row, standing, receipts, adopted, import, offer>>

\* _restore_session_sidecars and the reconciliation at boot: a session that looks
\* active and has lost its lease becomes stale in every record.
Boot ==
    /\ ~up /\ up' = TRUE
    /\ LET v == IF side # Absent THEN side ELSE row
           ident == IF v = Absent THEN Absent
                    ELSE IF v.ident # Absent THEN v.ident ELSE StoredIdentity
           lost == v # Absent /\ ~v.stale /\ v.life = "active" /\ ~expired /\ ~busy
           s == IF v = Absent \/ ident = Absent THEN Absent
                ELSE [ObjectOf(v) EXCEPT !.life = IF lost THEN "stale" ELSE @,
                                         !.stale = lost \/ @, !.ident = ident]
       IN  /\ object' = s
           /\ side' = (IF lost THEN SidecarOf(s) ELSE side)
           /\ row' = (IF lost THEN RowOf(s) ELSE row)
    /\ UNCHANGED <<archives, job, mishaps, origin, standing, receipts, calls, adopted, import, offer>>

\* workspace_request_development_session_attach.
RequestAttach ==
    /\ BetweenCalls /\ Offered("attach") /\ ~approved /\ object # Absent /\ ~LiveSession /\ tree # Absent
    /\ object.life # CleanupCandidate /\ ~busy
    /\ approved' = TRUE
    /\ UNCHANGED <<archives, job, mishaps, evidence, plan, answered, rest>>

\* workspace_attach_development_session: the worktree goes on under a new session,
\* the old one loses its sidecar and its object.
Attach ==
    /\ BetweenCalls /\ approved /\ object # Absent /\ ~LiveSession /\ tree # Absent
    /\ side' = Absent /\ object' = Absent
    /\ row' = (IF row = Absent THEN Absent ELSE [row EXCEPT !.life = "stale", !.stale = TRUE])
    /\ busy' = TRUE /\ heir' = TRUE /\ approved' = FALSE /\ answered' = Absent
    /\ UNCHANGED <<archives, job, mishaps, origin, expired, receipts, plan, rest>>

\* The work ends: lease and task with it, and the session if it is this one.
Suspend ==
    /\ BetweenCalls /\ busy /\ busy' = FALSE
    /\ LET s == [object EXCEPT !.life = "suspended", !.stale = TRUE]
       IN  IF heir THEN UNCHANGED records
           ELSE object # Absent /\ object' = s /\ side' = SidecarOf(s) /\ row' = RowOf(s)
    /\ UNCHANGED <<archives, job, mishaps, origin, expired, heir, receipts, calls, rest>>

\* The lease runs out, and the session's time with it.
Expire ==
    /\ ~expired /\ expired' = TRUE /\ Mishap
    /\ busy' = FALSE
    /\ UNCHANGED <<archives, job, origin, records, heir, receipts, calls, rest>>

\* The source is mounted or copied anew: another device, another inode.
Remount ==
    /\ Mishap /\ origin' \in Origins \ {origin}
    /\ UNCHANGED <<archives, job, records, standing, receipts, calls, rest>>

\* The older generation is still written to; another task takes the imported
\* one's identity.
SourceChanges ==
    /\ Offered("import") /\ source = "whole" /\ source' = "changed" /\ Mishap
    /\ UNCHANGED <<archives, job, evidence, calls, adopted, taskRow, imports, up, offer>>

TaskTaken ==
    /\ BetweenCalls /\ Offered("import") /\ taskRow = Absent /\ taskRow' = "another"
    /\ UNCHANGED <<archives, job, mishaps, evidence, calls, adopted, source, imports, up, offer>>

World ==
    \/ /\ \/ \E c \in Contents : Edit(c)
          \/ LoseTree
          \/ \E a \in Contents : SpoilArchive(a)
       /\ UNCHANGED <<evidence, calls, rest>>
    \/ RuntimeStops \/ Boot \/ Expire \/ Remount \/ SourceChanges \/ TaskTaken

Call ==
    \/ \E op \in {"repair", "disposition", "archive", "reconcile"} : Preflight(op)
    \/ PreflightAdoption \/ PreflightImport
    \/ ExecuteRepair \/ ExecuteDisposition \/ ExecuteArchive \/ ExecuteReconcile
    \/ ExecuteAdoption \/ ExecuteImport
    \/ RequestAttach \/ Attach \/ Suspend

Step ==
    \/ ArchiveStep \/ SaveReceipt \/ PersistRetained \/ PersistReconciled \/ Tombstone
    \/ FollowInMemory \/ Dispose \/ Rewrite \/ SaveRepaired \/ StepFails

MaintenanceNext == Call \/ Step \/ World

MaintenanceSpec == MaintenanceInit /\ [][MaintenanceNext]_maintenanceVars
-----------------------------------------------------------------------------
(* Properties.                                                              *)

\* Every variable has its type.
MaintenanceTypes ==
    /\ tree \in Contents \cup {Absent} /\ origin \in Origins
    /\ booked \subseteq Contents /\ adopted \subseteq Contents
    /\ {busy, expired, heir, approved, imports, up} \subseteq BOOLEAN
    /\ job # Absent => up /\ job.todo # <<>>
    /\ \A v \in {side, row, object} : v # Absent => v.life \in Lives /\ v.stale \in BOOLEAN
    /\ answered \in Ids \cup {Absent}

\* A terminal receipt promises that the dirty work of a session is kept: the
\* archive it names is booked and is the content its evidence shows; a
\* reconciliation of a dirty worktree has booked its archive too.
TerminalIsArchived ==
    \A i \in Ids :
        /\ receipts[i].kind = "terminal" =>
              receipts[i].archive = receipts[i].seen.obs.tree /\ receipts[i].archive \in booked
        /\ receipts[i].kind = "reconciled" /\ receipts[i].seen.tree \notin {Absent, 0} =>
              receipts[i].archive \in booked

\* A record that calls the session a cleanup candidate has a stored decision
\* behind it, the one it names if it names one.
CleanupIsDecided ==
    /\ \A v \in {side, row} : v # Absent /\ v.life = CleanupCandidate =>
          \E i \in Ids : Transition(receipts[i]) = CleanupCandidate
    /\ side # Absent /\ side.bound # Absent => Transition(receipts[side.bound]) = CleanupCandidate
    /\ row # Absent /\ row.kept # Absent => receipts[row.kept].kind = "terminal"

\* No record calls a session a cleanup candidate while its worktree is worked on.
LiveIsNotTerminal ==
    busy => \A v \in {side, row} : v # Absent => v.life # CleanupCandidate

\* What a call has answered is what the sidecar says, and after an archival the
\* row too, until the session is attached again or its identity repaired.
AnsweredIsRecorded ==
    answered # Absent =>
        /\ side # Absent /\ side.life = CleanupCandidate /\ side.bound = answered
        /\ receipts[answered].kind = "terminal" =>
              row # Absent /\ row.life = CleanupCandidate /\ row.kept = answered

\* An archival cut off after its receipt can be taken up: where nothing has changed
\* since, and the disposition and its receipt are all there is, the receipt
\* matches and a new call completes the row and the sidecar.
CutOffIsRepairable ==
    \A i \in Ids :
        LET c == receipts[i] IN
        /\ c.kind = "terminal" /\ job = Absent /\ object # Absent
        /\ \A k \in Ids \ {i} : receipts[k].kind = "disposition" /\ Anchor(receipts[k]) = Anchor(c)
        /\ Len(receipts) <= 2 /\ \A k \in Ids \ {i} : receipts[k].disp = c.seen.obs.disp
        /\ booked = {c.archive} /\ ~LiveSession
        /\ tree = c.seen.obs.tree /\ busy = c.seen.obs.busy /\ origin = c.seen.obs.current
        /\ side # Absent /\ side.disp = c.seen.obs.disp /\ object.ident = c.seen.obs.stored
        => TerminalMatches(c, RetainedState)

\* An import is recorded only with the rows it took over.
ImportIsWhole == imports => row # Absent /\ taskRow = "older"

\* Whatever maintenance calls are cut off, repeated or overtaken by edits, what
\* the receipts, the row and the sidecar of a session say of it agrees with the
\* archives and with one another.
EvidenceIsSound ==
    /\ MaintenanceTypes /\ ArchivesHold
    /\ TerminalIsArchived /\ CleanupIsDecided /\ LiveIsNotTerminal
    /\ AnsweredIsRecorded /\ CutOffIsRepairable /\ ImportIsWhole
=============================================================================
