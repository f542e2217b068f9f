--------------------------- MODULE SessionEvidence --------------------------
(* What the runtime holds about one retained session, and what it concludes  *)
(* from it: the sidecar file, the row of the store, the object in memory and *)
(* the immutable receipts of earlier decisions. The reconciliation snapshot, *)
(* the identity observation and the evidence of a disposition are functions  *)
(* of that state; a digest of one is compared by comparing the values.       *)
EXTENDS SessionArchives

CONSTANTS Dispositions  \* the accepted semantic dispositions

VARIABLES
    origin,    \* the device and inode the source has now
    side,      \* the sidecar, Absent where there is none that can be read
    row,       \* the row of development_sessions
    object,    \* the session in the runtime's memory
    busy,      \* a task of the worktree runs under a lease
    expired,   \* the session's time is over
    heir,      \* the session was attached again and goes on under another id
    receipts   \* session_reconciliation_receipts, in the order recorded

records == <<side, row, object>>
standing == <<busy, expired, heir>>
evidence == <<origin, records, standing, receipts>>

Origins == 1..2
CleanupCandidate == "cleanup_candidate"
Lives == {"active", "suspended", "stale", CleanupCandidate}

\* The fields of a DevelopmentSession that its records share, as
\* write_session_sidecar and _persist_development_session write them.
Session(life, stale, ident) == [life |-> life, stale |-> stale, ident |-> ident, proof |-> Absent]
SidecarOf(s) == [life |-> s.life, stale |-> s.stale, ident |-> s.ident, proof |-> s.proof,
                 disp |-> Absent, bound |-> Absent]
RowOf(s) == [life |-> s.life, stale |-> s.stale, ident |-> s.ident, kept |-> Absent]
ObjectOf(v) == [life |-> v.life, stale |-> v.stale, ident |-> v.ident,
                proof |-> IF "proof" \in DOMAIN v THEN v.proof ELSE Absent]

\* What they hold at all: no absent record or disposition is one that is there.
Identities == Origins \cup {Absent}
Sidecars ==
    [life : Lives, stale : BOOLEAN, ident : Identities, proof : Identities,
     disp : Dispositions \cup {Absent}, bound : Nat \cup {Absent}]
SessionRows == [life : Lives, stale : BOOLEAN, ident : Identities, kept : Nat \cup {Absent}]
Objects == [life : Lives, stale : BOOLEAN, ident : Identities, proof : Identities]

ASSUME RecordAssumption ==
    /\ Absent \notin Sidecars /\ Absent \notin SessionRows /\ Absent \notin Objects
    /\ Absent \notin Dispositions

\* Sidecar first, then the row, then the object.
First(a, b, c) == IF a # Absent THEN a ELSE IF b # Absent THEN b ELSE c
Known == First(side, row, object)

-----------------------------------------------------------------------------
(* Receipts. Each has its kind, the disposition or the class decided, what   *)
(* was seen, and its archive. The one with an id is receipts[id].            *)

Receipt(kind, disp, seen, archive) ==
    [kind |-> kind, disp |-> disp, seen |-> seen, archive |-> archive]

Ids == DOMAIN receipts
Latest(S) == CHOOSE i \in S : \A k \in S : k <= i
DispositionIds(d) == {i \in Ids : receipts[i].kind = "disposition" /\ receipts[i].disp = d}
WithDigest(kinds, seen) == {i \in Ids : receipts[i].kind \in kinds /\ receipts[i].seen = seen}

\* proposed_transition.
Transition(c) == IF c.kind = "disposition" THEN "none" ELSE CleanupCandidate

\* _retained_evidence_receipt_anchor: source, worktree and control plane, without
\* the lifecycle, which the decisions change.
Anchor(c) ==
    IF c.kind = "disposition" THEN [tree |-> c.seen.tree, ident |-> c.seen.ident, busy |-> c.seen.busy]
    ELSE [tree |-> c.seen.obs.tree, ident |-> c.seen.snap.ident, busy |-> c.seen.snap.busy]

\* A plausible mistake for Compatible: any second receipt is a conflict.
CompatibleNever(cs) == FALSE

\* _retained_evidence_receipts_compatible: a disposition and the terminal
\* receipt it led to.
Compatible(cs) ==
    /\ Len(cs) = 2
    /\ \E i, k \in 1..2 :
        /\ cs[i].kind = "disposition" /\ cs[k].kind = "terminal"
        /\ cs[i].disp \in Dispositions /\ cs[k].seen.obs.disp = cs[i].disp
        /\ Anchor(cs[i]) = Anchor(cs[k])
        /\ cs[k].archive = cs[k].seen.preview

\* evidence_conflicts, as far as archives and receipts cause them.
Conflicts ==
    \/ Cardinality(booked) > 1
    \/ Len(receipts) > 1 /\ ~Compatible(receipts)

\* _retained_evidence_sidecar_payload: the sidecar as observed, or one with nothing
\* but ids, with the lifecycle and the receipt.
SidecarPayload(was, id) ==
    LET base == IF was # Absent THEN was
                ELSE SidecarOf(Session(CleanupCandidate, TRUE, Absent))
    IN  [base EXCEPT !.life = CleanupCandidate, !.stale = TRUE, !.bound = id]

-----------------------------------------------------------------------------
(* Observations.                                                            *)

\* active_live_session. That this runtime has selected or attached a session that is
\* active in its memory is taken as given.
LiveSession == object # Absent /\ ~object.stale /\ object.life = "active" /\ ~expired

\* raw_identity: a sidecar that was made for a session without one has none.
StoredIdentity ==
    IF side # Absent /\ side.ident # Absent THEN side.ident
    ELSE IF row # Absent THEN row.ident ELSE Absent

\* source_identity_verified: the source is the one recorded.
SourceVerified == StoredIdentity = origin

\* Git is asked about the worktree only where the source is verified; else only
\* whether it exists.
WorktreeFacts == IF SourceVerified THEN tree ELSE Absent
PhysicalFacts == tree # Absent

\* _reconciliation_snapshot_for.
Snapshot ==
    [life |-> Known.life, stale |-> Known.stale, expired |-> expired,
     side |-> side, row |-> row, ident |-> StoredIdentity,
     verified |-> SourceVerified, exists |-> PhysicalFacts, tree |-> WorktreeFacts,
     busy |-> busy, live |-> LiveSession, booked |-> booked, conflicts |-> Conflicts]

\* The identity that _identity_repair_observation_for compares: it looks in the
\* metadata of the record, which a sidecar has only for its disposition.
ObservedIdentity ==
    CASE side # Absent /\ side.disp = Absent /\ side.ident # Absent -> side.ident
      [] side = Absent /\ row # Absent -> row.ident
      [] OTHER -> IF object # Absent THEN object.ident ELSE Absent

\* IdentityRepairObservation: git is asked whatever the recorded identity.
Observation ==
    [life |-> Known.life, stale |-> Known.stale, expired |-> expired,
     stored |-> ObservedIdentity, current |-> origin, tree |-> tree,
     busy |-> busy, live |-> LiveSession, conflicts |-> Conflicts,
     disp |-> IF side # Absent THEN side.disp ELSE Absent]

\* _retained_evidence_immutable_observation.
Immutable(obs) == [k \in DOMAIN obs \ {"life", "stale", "expired"} |-> obs[k]]

-----------------------------------------------------------------------------
(* Decisions.                                                               *)

Retainable == {"suspended", "stale", CleanupCandidate}

\* Not in use, over, and known without contradiction.
AtRest(o) ==
    /\ ~o.live /\ o.life \in Retainable /\ (o.stale \/ o.expired)
    /\ ~o.busy /\ ~o.conflicts

\* classify_identity_repair: VERIFIED_STALE_CLEAN.
Repairable(o) == AtRest(o) /\ o.stored # Absent /\ o.tree = 0

\* classify_retained_evidence: RETAINED_EVIDENCE_ELIGIBLE, whether or not the
\* source has changed its identity.
ArchiveEligible(o) ==
    /\ o.disp \in Dispositions
    /\ AtRest(o) /\ o.stored # Absent /\ o.tree # Absent

\* _retained_evidence_assessment and _archive_preview: the archive that would be made.
Preview(o) == IF ArchiveEligible(o) THEN o.tree ELSE Absent

\* _retained_evidence_state_for.
RetainedState == [snap |-> Snapshot, obs |-> Observation, preview |-> Preview(Observation)]

\* classify_reconciliation_snapshot.
Classify(s) ==
    IF s.live \/ s.busy \/ s.conflicts THEN "blocked"
    ELSE IF s.life = CleanupCandidate THEN "already_terminal"
    ELSE IF ~s.stale /\ ~s.expired THEN "blocked"
    ELSE IF ~s.verified THEN "unknown"
    ELSE IF s.exists THEN "preserve" ELSE "missing"

\* _development_session_set_disposition_state_for: what it refuses, and what its
\* digest covers.
Disposable(d) ==
    /\ ~Conflicts /\ side # Absent /\ side.disp \in {Absent, d}
    /\ StoredIdentity # Absent /\ tree # Absent
DispositionState(d) ==
    [side |-> side, disp |-> d, life |-> Known.life, ident |-> StoredIdentity,
     tree |-> tree, busy |-> busy, live |-> LiveSession]
DispositionAllowed(s) == ~s.live /\ s.life # "active" /\ ~s.busy

\* _retained_disposition_receipt_matches_state: everything but the sidecar's
\* content, the dispositions and the lifecycle.
DispositionMatches(c, s) ==
    /\ c.seen.ident = s.ident /\ c.seen.tree = s.tree
    /\ c.seen.busy = s.busy /\ c.seen.live = s.live

\* _legacy_worktree_adoption_observation_for and its classification: a worktree that
\* is there, without a live lease and without a session in memory.
Adoption == [tree |-> tree, object |-> object, heir |-> heir, busy |-> busy]
Adoptable(o) == o.tree # Absent /\ ~o.busy /\ o.object = Absent /\ ~o.heir

\* A plausible mistake for TerminalMatches: the archive alone identifies the
\* evidence.
TerminalMatchesArchive(c, s) ==
    /\ c.kind = "terminal" /\ c.archive = s.obs.tree
    /\ c.archive \in booked /\ filed[c.archive] # Absent

\* _retained_evidence_receipt_matches_state.
TerminalMatches(c, s) ==
    /\ c.kind = "terminal"
    /\ Immutable(c.seen.obs) = Immutable(s.obs)
    /\ s.preview # Absent /\ c.seen.preview = s.preview /\ c.archive = s.preview
    /\ c.archive \in booked /\ filed[c.archive] # Absent

\* _sidecar_matches_reconciliation.
SidecarBound(s, id) ==
    s.side # Absent /\ s.side.stale /\ s.side.life = CleanupCandidate /\ s.side.bound = id

\* _receipt_supports_sidecar_repair: the receipt of an archived session holds
\* its evidence elsewhere and never supports one.
SupportsRepair(c, s) ==
    /\ c.kind = "reconciled"
    /\ \A k \in {"side", "ident", "verified", "exists", "tree", "busy", "live", "conflicts"} :
          c.seen[k] = s[k]
=============================================================================
