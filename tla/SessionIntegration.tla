------------------------- MODULE SessionIntegration -------------------------
(* The integration of a session's worktree into the canonical checkout       *)
(* (server.py, director_integration.py): a preflight looks at both trees and *)
(* at the evidence and issues a one-shot approval; the integration that      *)
(* presents it looks at everything again, applies the patch and records what *)
(* it did, one record after the other. Worktree and checkout belong to       *)
(* people and to other sessions too, and every look at them is a step of its *)
(* own, but for the last ones, which are made right after one another before *)
(* git apply: they are one step, and git apply looks once more.              *)
(*                                                                           *)
(* A content is the session's change to some lines of the checkout, 0 where  *)
(* there is none. A region of the checkout holds nothing new (0), a content  *)
(* or somebody else's change to the same lines. A patch applies where the    *)
(* region holds 0 and reverses where it holds that content.                  *)
EXTENDS Naturals, Sequences, FiniteSets

CONSTANTS
    None,
    Runtimes,
    MaxPatch,     \* the contents are 0..MaxPatch
    Structural,   \* patches that are not changes of text only
    Starts,       \* the initial sessions: base ("head", or a "snapshot" of a dirty tree),
                  \* work, tasked and ahead
    MaxHead,      \* bound: commits in the checkout
    MaxGrants,    \* bound: recorded human decisions
    MaxEvents     \* bound: calls, changes by people and time, failing steps, crashes

ASSUME IntegrationAssumption ==
    /\ MaxPatch \in Nat \ {0} /\ Structural \subseteq 1..MaxPatch
    /\ {MaxHead, MaxGrants, MaxEvents} \subseteq Nat

Contents == 0..MaxPatch
Foreign == MaxPatch + 1

Operations == {"preflight", "trusted", "integrate"}
Steps == {"canonical", "subsumed", "evidence", "conclude", "rediff", "check", "apply",
          "receipt", "grant", "side", "row", "task"}
Approvals == [head : 0..MaxHead, patch : Contents, grant : Nat, raced : BOOLEAN, first : BOOLEAN]

\* What a runtime keeps of a call.
CallRecords ==
    [op : Operations, todo : Seq(Steps), patch : Contents, again : Contents,
     head : 0..MaxHead, ready : BOOLEAN, approval : Approvals \cup {None}, grant : Nat,
     raced : BOOLEAN, done : BOOLEAN]

ASSUME NamesAssumption ==
    /\ None \notin CallRecords
    /\ \A s \in Starts : s.work \in Contents /\ s.tasked \in BOOLEAN

VARIABLES
    base,       \* what the session started from
    work,       \* the content of the worktree
    canon,      \* the checkout: its head, the region in that commit and in the tree
    proven,     \* contents with a passed verification and its audit
    tasked,     \* whether that evidence is bound to a task of the worktree
    ahead,      \* an earlier entry of the queue, or None
    policy,     \* the digest of the workspace's policy
    receipts,   \* integration_receipts: the outcome under each patch hash
    intents,    \* integration_intents: the status for a head and a patch
    grants,     \* integration_approval_grants, in the order recorded
    side, row,  \* whether sidecar and row call the session integrated
    lease,      \* the session's writer lease is held
    task,       \* the status of the session's task
    approvals,  \* per runtime: the approval of the session
    pinned,     \* the approval in a preflight receipt of the gateway
    disabled,   \* runtimes that have lost their store
    calls,      \* per runtime: the call under way
    last,       \* how the last integration ended, and whether it had applied its patch
    applied,    \* ghost: the applications, with what was approved
    saved,      \* ghost: the patches whose application was recorded
    events

trees == <<base, work, canon>>
facts == <<proven, tasked, ahead, policy>>
stored == <<receipts, intents, grants>>
standing == <<side, row, lease, task>>
given == <<approvals, pinned, disabled>>
ghosts == <<applied, saved>>
vars == <<trees, facts, stored, standing, given, calls, last, ghosts, events>>

Init ==
    /\ \E s \in Starts : base = s.base /\ work = s.work /\ tasked = s.tasked /\ ahead = s.ahead
    /\ canon = [head |-> 0, commit |-> IF base = "head" THEN 0 ELSE Foreign, held |-> 0]
    /\ proven = {} /\ policy = 1
    /\ receipts = [c \in Contents |-> "none"]
    /\ intents = [k \in (0..MaxHead) \X Contents |-> "none"]
    /\ grants = <<>>
    /\ side = FALSE /\ row = FALSE /\ lease = TRUE /\ task = "review_ready"
    /\ approvals = [r \in Runtimes |-> None] /\ pinned = None /\ disabled = {}
    /\ calls = [r \in Runtimes |-> None] /\ last = None
    /\ applied = {} /\ saved = {} /\ events = 0

-----------------------------------------------------------------------------
(* What the two trees say.                                                  *)

\* git apply --check and git apply --reverse --check in the checkout.
Applies(p) == canon.held = 0
Reverses(p) == canon.held = p

\* The paths of the patch are dirty: against the head, or against the snapshot.
DirtyAtHead == canon.held # canon.commit
DirtySinceSnapshot == canon.held # 0

\* integration_preflight and integration_preflight_since_snapshot: changes of text
\* may meet a dirty file as long as the patch applies.
ReadyAtHead(p) == p # 0 /\ Applies(p) /\ ~(p \in Structural /\ DirtyAtHead)
ReadySinceSnapshot(p) == p # 0 /\ Applies(p) /\ ~(p \in Structural /\ DirtySinceSnapshot)

\* session_diff_subsumed_by_canonical and its variant for a snapshot.
Subsumed(p) == p = 0 \/ Reverses(p)

\* _patch_change_evidence: a session of a head needs its base in the head of now.
InHead(p) == canon.commit = 0

\* The checks of apply_integration_patch and of its variant for a snapshot.
ApplyChecksAtHead(p, head) ==
    /\ canon.head = head /\ InHead(p)
    /\ ~(p \in Structural /\ DirtyAtHead) /\ Applies(p)
ApplyChecksSinceSnapshot(p, head) ==
    /\ canon.head = head
    /\ ~(p \in Structural /\ DirtySinceSnapshot) /\ Applies(p)

\* The loop over the earlier entries of the queue: one that waits for this session
\* does not block it, one that it needs or that shares a resource does, and one on
\* the same paths does unless both patches apply in either order.
QueueBlocks(e) ==
    /\ e # None /\ ~e.follows
    /\ e.needed \/ e.shares \/ (e.overlaps /\ ~e.compatible)

\* _integration_evidence: the receipts of the worktree's tasks are compared with the
\* worktree as it is now, those of the history with the patch too.
Evidence(now, patch) == now \in proven /\ (tasked \/ now = patch)

-----------------------------------------------------------------------------
(* Approvals and grants.                                                    *)

\* Ghost: whether the worktree was edited meanwhile, and whether the patch is the
\* one of the first diff.
Approval(head, patch, grant, raced) ==
    [head |-> head, patch |-> patch, grant |-> grant, raced |-> raced, first |-> TRUE]

\* A plausible mistake for Matching: a decision that has been carried out still
\* counts.
MatchingCarriedOut(head, patch) ==
    LET S == {i \in DOMAIN grants :
                 /\ grants[i].state # "expired" /\ grants[i].head = head
                 /\ grants[i].patch = patch /\ grants[i].policy = policy}
    IN  IF S = {} THEN 0 ELSE CHOOSE i \in S : \A k \in S : k <= i

\* _matching_integration_approval_grant: the newest for exactly this state, 0 if none.
Matching(head, patch) ==
    LET S == {i \in DOMAIN grants :
                 /\ grants[i].state = "active" /\ grants[i].head = head
                 /\ grants[i].patch = patch /\ grants[i].policy = policy}
    IN  IF S = {} THEN 0 ELSE CHOOSE i \in S : \A k \in S : k <= i

\* Ghost: two calls rely on one decision at a time.
Shared(r, i) == \E q \in Runtimes \ {r} : calls[q] # None /\ calls[q].grant = i

NewGrant(a) ==
    [head |-> a.head, patch |-> a.patch, policy |-> policy, state |-> "active",
     uses |-> 0, loose |-> FALSE]

\* _persist_integration_approval_grant.
Persisted(a) ==
    IF Matching(a.head, a.patch) # 0 THEN grants ELSE Append(grants, NewGrant(a))

-----------------------------------------------------------------------------
(* Calls. Each begins with the diff of the session.                         *)

Call(op, todo, a, grant) ==
    [op |-> op, todo |-> todo, patch |-> work, again |-> 0, head |-> 0, ready |-> FALSE,
     approval |-> a, grant |-> grant, raced |-> FALSE, done |-> FALSE]

Look == <<"canonical", "subsumed", "evidence", "conclude">>

\* A plausible mistake for Record: the receipt is saved when the rest is done.
RecordLast == <<"grant", "side", "row", "task", "receipt">>

\* What follows the patch.
Record == <<"receipt", "grant", "side", "row", "task">>

Change == <<"rediff", "check", "apply">>

At(r, s) == calls[r] # None /\ Head(calls[r].todo) = s

Becomes(r, c) ==
    calls' = [calls EXCEPT ![r] = IF Tail(c.todo) = <<>> THEN None ELSE [c EXCEPT !.todo = Tail(@)]]

Event == events < MaxEvents /\ events' = events + 1

\* The call ends with an answer, which for an integration is remembered.
Ends(r, answer, c) ==
    /\ calls' = [calls EXCEPT ![r] = None]
    /\ last' = (IF c.op = "integrate" THEN [answer |-> answer, done |-> c.done] ELSE last)

\* _workspace_integration_preflight, by itself or for the gateway.
StartPreflight(r, op) ==
    /\ calls[r] = None /\ r \notin disabled /\ Event
    /\ calls' = [calls EXCEPT ![r] = Call(op, Look, None, 0)]
    /\ UNCHANGED <<trees, facts, stored, standing, given, last, ghosts>>

\* The diff once more, with the checkout.
LookCanonical(r) ==
    /\ At(r, "canonical")
    /\ Becomes(r, [calls[r] EXCEPT !.again = work, !.head = canon.head,
                                   !.ready = IF base = "head" THEN ReadyAtHead(work)
                                             ELSE ReadySinceSnapshot(work)])
    /\ UNCHANGED <<trees, facts, stored, standing, given, last, ghosts, events>>

\* Already in the checkout: recorded, and the preflight is not ready. It is the
\* first diff that must not be empty.
LookSubsumed(r) ==
    /\ At(r, "subsumed")
    /\ LET c == calls[r] IN
       IF c.patch # 0 /\ Subsumed(work)
       THEN /\ receipts' = [receipts EXCEPT ![c.patch] = "subsumed"]
            /\ Ends(r, "refused", c)
       ELSE /\ Becomes(r, c) /\ UNCHANGED <<receipts, last>>
    /\ UNCHANGED <<trees, facts, intents, grants, standing, given, ghosts, events>>

LookEvidence(r) ==
    /\ At(r, "evidence")
    /\ Becomes(r, [calls[r] EXCEPT !.ready = @ /\ calls[r].patch # 0 /\ Evidence(work, calls[r].patch)])
    /\ UNCHANGED <<trees, facts, stored, standing, given, last, ghosts, events>>

\* The preflight is recorded under its patch hash, whatever that said before; if it
\* is ready, so is the intent, and an approval replaces the session's older ones.
Conclude(r) ==
    /\ At(r, "conclude")
    /\ LET c == calls[r]
           found == IF c.ready THEN Matching(c.head, c.patch) ELSE 0
           a == Approval(c.head, c.patch, found, c.raced)
       IN  /\ receipts' = [receipts EXCEPT ![c.patch] = "preflight"]
           /\ intents' = (IF ~c.ready THEN intents
                          ELSE [intents EXCEPT ![<<c.head, c.patch>>] =
                                   IF found # 0 THEN "confirmed" ELSE "awaiting"])
           /\ IF c.op = "integrate" /\ c.ready THEN Becomes(r, c) /\ UNCHANGED last
              ELSE Ends(r, "refused", c)
           /\ approvals' = (IF ~c.ready \/ c.op = "integrate" THEN approvals
                            ELSE [approvals EXCEPT ![r] = IF c.op = "preflight" THEN a ELSE None])
           /\ pinned' = (IF c.ready /\ c.op = "trusted"
                         THEN [approval |-> a, again |-> c.again] ELSE pinned)
    /\ UNCHANGED <<trees, facts, grants, standing, disabled, ghosts, events>>

\* _already_integrated_readback: answers the call and changes nothing.
AlreadyIntegrated ==
    work # 0 /\ Subsumed(work) /\ receipts[work] \in {"applied", "subsumed"}

\* _workspace_integrate_development_session, up to its own preflight. An approval
\* that goes by a grant needs that grant to match still, another one leaves a grant
\* behind; then it is used up.
Enter(r, a) ==
    /\ calls[r] = None /\ r \notin disabled /\ ~AlreadyIntegrated /\ Event
    /\ a.grant # 0 => Matching(a.head, a.patch) = a.grant
    /\ Len(Persisted(a)) <= MaxGrants
    /\ LET i == IF Matching(a.head, a.patch) # 0 THEN Matching(a.head, a.patch)
                ELSE Len(Persisted(a))
       IN  /\ grants' = [Persisted(a) EXCEPT ![i].loose = @ \/ Shared(r, i)]
           /\ calls' = [calls EXCEPT ![r] = Call("integrate", Look \o Change \o Record, a, i)]
    /\ UNCHANGED <<trees, facts, receipts, intents, standing, last, ghosts>>

\* A human confirms the challenge of the preflight.
Integrate(r) ==
    /\ approvals[r] # None /\ Enter(r, approvals[r])
    /\ approvals' = [approvals EXCEPT ![r] = None]
    /\ UNCHANGED <<pinned, disabled>>

\* _trusted_integration_execute: the gateway lets its receipt be used once. In
\* another runtime the approval is made again, with the patch hash of the second diff.
IntegrateTrusted(r) ==
    /\ pinned # None
    /\ \E p \in {pinned.approval.patch, pinned.again} :
          Enter(r, [pinned.approval EXCEPT !.patch = p, !.first = (p = pinned.approval.patch)])
    /\ pinned' = None
    /\ UNCHANGED <<approvals, disabled>>

\* A grant that no longer matches uses the approval up.
ApprovalStale(r) ==
    /\ calls[r] = None /\ ~AlreadyIntegrated
    /\ approvals[r] # None /\ approvals[r].grant # 0
    /\ Matching(approvals[r].head, approvals[r].patch) # approvals[r].grant
    /\ approvals' = [approvals EXCEPT ![r] = None]
    /\ UNCHANGED <<trees, facts, stored, standing, pinned, disabled, calls, last, ghosts, events>>

\* A plausible mistake for StillApproved: the new preflight was ready, so its diff
\* may be applied.
StillApprovedByPreflight(c, now) == now # 0 /\ now = c.patch

\* The diff is taken again and is the approved one; the head that the preflight saw
\* is too.
StillApproved(c, now) == now = c.approval.patch /\ c.head = c.approval.head

\* Diff, queue and head; apply_integration_patch compares the patch with itself.
Rediff(r) ==
    /\ At(r, "rediff")
    /\ LET c == calls[r] IN
       IF StillApproved(c, work) /\ ~QueueBlocks(ahead)
       THEN Becomes(r, [c EXCEPT !.patch = work]) /\ UNCHANGED last
       ELSE Ends(r, "refused", c)
    /\ UNCHANGED <<trees, facts, stored, standing, given, ghosts, events>>

CheckCanonical(r) ==
    /\ At(r, "check")
    /\ LET c == calls[r] IN
       IF IF base = "head" THEN ApplyChecksAtHead(c.patch, c.approval.head)
          ELSE ApplyChecksSinceSnapshot(c.patch, c.approval.head)
       THEN Becomes(r, c) /\ UNCHANGED last
       ELSE Ends(r, "refused", c)
    /\ UNCHANGED <<trees, facts, stored, standing, given, ghosts, events>>

Application(c) ==
    [patch |-> c.patch, grant |-> c.grant, approved |-> c.approval.patch,
     raced |-> c.raced \/ c.approval.raced, first |-> c.approval.first]

\* git apply: all of the patch or nothing.
GitApply(r) ==
    /\ At(r, "apply")
    /\ LET c == calls[r] IN
       IF Applies(c.patch)
       THEN /\ canon' = [canon EXCEPT !.held = c.patch]
            /\ applied' = applied \cup {Application(c)}
            /\ grants' = [grants EXCEPT ![c.grant].uses = @ + 1]
            /\ Becomes(r, [c EXCEPT !.done = TRUE])
            /\ UNCHANGED last
       ELSE Ends(r, "refused", c) /\ UNCHANGED <<canon, applied, grants>>
    /\ UNCHANGED <<base, work, facts, receipts, intents, standing, given, saved, events>>

\* save_integration: the receipt of what was applied.
SaveApplied(r) ==
    /\ At(r, "receipt")
    /\ receipts' = [receipts EXCEPT ![calls[r].patch] = "applied"]
    /\ saved' = saved \cup {calls[r].patch}
    /\ Becomes(r, calls[r])
    /\ UNCHANGED <<trees, facts, intents, grants, standing, given, last, applied, events>>

\* Grant and intent follow as far as they can be written.
MarkIntegrated(r) ==
    /\ At(r, "grant")
    /\ LET c == calls[r] IN
       /\ grants' = [grants EXCEPT ![c.grant].state = "integrated"]
       /\ intents' = [intents EXCEPT ![<<c.head, c.approval.patch>>] = "integrated"]
       /\ Becomes(r, c)
    /\ UNCHANGED <<trees, facts, receipts, standing, given, last, ghosts, events>>

\* The sidecar of the session; then its leases are released and its row updated.
Settle(r) ==
    /\ \/ At(r, "side") /\ side' = TRUE /\ UNCHANGED <<lease, row>>
       \/ At(r, "row") /\ lease' = FALSE /\ row' = TRUE /\ UNCHANGED side
    /\ Becomes(r, calls[r])
    /\ UNCHANGED <<trees, facts, stored, task, given, last, ghosts, events>>

\* The review-ready tasks of the worktree succeed, and the call is answered.
CompleteTasks(r) ==
    /\ At(r, "task")
    /\ task' = "succeeded"
    /\ Ends(r, "integrated", calls[r])
    /\ UNCHANGED <<trees, facts, stored, side, row, lease, given, ghosts, events>>

-----------------------------------------------------------------------------
(* Failing steps, crashes, people and time.                                 *)

\* A plausible mistake for FailureAnswer: what fails is refused.
FailureAnswerRefused(s) == "refused"

\* The failure of a record after the patch leaves the outcome open.
FailureAnswer(s) ==
    IF s \in {"receipt", "side", "row", "task"} THEN "unknown" ELSE "refused"

\* What a step that is cut off in the middle leaves of the lease.
LeaseAfter(s) == {lease} \cup (IF s = "row" THEN {FALSE} ELSE {})

\* The steps that write to the store: a runtime whose write fails refuses what needs
\* the store until it is restarted (_persistence_error).
StoreSteps == {"subsumed", "conclude", "receipt", "grant", "side", "row"}

\* A write or a command fails. Grant and intent may be left as they are; a git apply
\* that is cut off by its timeout may have been carried out. Ghost: a decision whose
\* mark is lost is loose.
StepFails(r) ==
    /\ calls[r] # None /\ Event
    /\ LET c == calls[r]
           s == Head(c.todo)
       IN  /\ lease' \in LeaseAfter(s)
           /\ disabled' = (IF s \in StoreSteps THEN disabled \cup {r} ELSE disabled)
           /\ \/ /\ s \notin {"grant", "apply"}
                 /\ Ends(r, FailureAnswer(s), c)
                 /\ grants' = (IF s = "receipt" THEN [grants EXCEPT ![c.grant].loose = TRUE]
                               ELSE grants)
                 /\ UNCHANGED <<canon, applied>>
              \/ /\ s = "grant"
                 /\ grants' = [grants EXCEPT ![c.grant].loose = TRUE]
                 /\ Becomes(r, c)
                 /\ UNCHANGED <<canon, applied, last>>
              \/ /\ s = "apply" /\ Applies(c.patch)
                 /\ canon' = [canon EXCEPT !.held = c.patch]
                 /\ applied' = applied \cup {Application(c)}
                 /\ grants' = [grants EXCEPT ![c.grant].uses = @ + 1, ![c.grant].loose = TRUE]
                 /\ Ends(r, "timeout", [c EXCEPT !.done = TRUE])
    /\ UNCHANGED <<base, work, facts, receipts, intents, side, row, task, approvals, pinned,
                   saved>>

\* The runtime stops and starts again; its approvals are gone with its calls.
Crash(r) ==
    /\ Event /\ (calls[r] # None \/ approvals[r] # None \/ r \in disabled)
    /\ approvals' = [approvals EXCEPT ![r] = None]
    /\ calls' = [calls EXCEPT ![r] = None]
    /\ last' = None /\ disabled' = disabled \ {r}
    /\ grants' = (IF calls[r] # None /\ calls[r].done
                  THEN [grants EXCEPT ![calls[r].grant].loose = TRUE] ELSE grants)
    /\ lease' \in LeaseAfter(IF calls[r] = None THEN "none" ELSE Head(calls[r].todo))
    /\ UNCHANGED <<trees, facts, receipts, intents, side, row, task, pinned, ghosts>>

\* The worktree is edited. Ghost: the calls that are looking at it know.
Edit(c) ==
    /\ Event /\ c # work /\ work' = c
    /\ calls' = [r \in Runtimes |-> IF calls[r] = None THEN None ELSE [calls[r] EXCEPT !.raced = TRUE]]
    /\ UNCHANGED <<base, canon, facts, stored, standing, given, last, ghosts>>

\* Verification and audit of the worktree as it is.
Prove ==
    /\ work \notin proven \cup {0} /\ proven' = proven \cup {work}
    /\ UNCHANGED <<trees, tasked, ahead, policy, stored, standing, given, calls, last, ghosts, events>>

\* The checkout is edited, restored or committed.
EditCanonical ==
    /\ Event
    /\ \/ \E v \in {0, Foreign} \ {canon.held} : canon' = [canon EXCEPT !.held = v]
       \/ /\ canon.head < MaxHead
          /\ \E v \in {canon.commit, canon.held} :
                canon' = [canon EXCEPT !.head = @ + 1, !.commit = v]
    /\ UNCHANGED <<base, work, facts, stored, standing, given, calls, last, ghosts>>

\* The earlier entry is integrated, or withdrawn.
QueueMoves ==
    /\ Event /\ ahead # None /\ ahead' = None
    /\ canon' \in {canon} \cup (IF ahead.overlaps /\ canon.held = 0
                                THEN {[canon EXCEPT !.held = Foreign]} ELSE {})
    /\ UNCHANGED <<base, work, proven, tasked, policy, stored, standing, given, calls, last, ghosts>>

\* The workspace's policy changes; a decision or an approval expires.
TimePasses ==
    /\ Event
    /\ \/ policy = 1 /\ policy' = 2 /\ UNCHANGED <<grants, approvals, pinned>>
       \/ \E i \in DOMAIN grants :
             /\ grants[i].state = "active"
             /\ grants' = [grants EXCEPT ![i].state = "expired"]
             /\ UNCHANGED <<policy, approvals, pinned>>
       \/ /\ pinned # None /\ pinned' = None /\ UNCHANGED <<policy, grants, approvals>>
       \/ \E r \in Runtimes :
             /\ approvals[r] # None /\ approvals' = [approvals EXCEPT ![r] = None]
             /\ UNCHANGED <<policy, grants, pinned>>
    /\ UNCHANGED <<trees, proven, tasked, ahead, receipts, intents, standing, disabled,
                   calls, last, ghosts>>

Serve(r) ==
    \/ \E op \in {"preflight", "trusted"} : StartPreflight(r, op)
    \/ LookCanonical(r) \/ LookSubsumed(r) \/ LookEvidence(r) \/ Conclude(r)
    \/ Integrate(r) \/ IntegrateTrusted(r) \/ ApprovalStale(r)
    \/ Rediff(r) \/ CheckCanonical(r) \/ GitApply(r) \/ SaveApplied(r) \/ MarkIntegrated(r)
    \/ Settle(r) \/ CompleteTasks(r) \/ StepFails(r) \/ Crash(r)

World == (\E c \in Contents : Edit(c)) \/ Prove \/ EditCanonical \/ QueueMoves \/ TimePasses

Next == World \/ \E r \in Runtimes : Serve(r)

Spec == Init /\ [][Next]_vars

-----------------------------------------------------------------------------
(* Properties.                                                              *)

\* Every variable has its type.
TypeOK ==
    /\ work \in Contents /\ proven \subseteq Contents
    /\ canon.head \in 0..MaxHead /\ {canon.commit, canon.held} \subseteq 0..Foreign
    /\ \A c \in Contents : receipts[c] \in {"none", "preflight", "subsumed", "applied"}
    /\ \A i \in DOMAIN grants : grants[i].state \in {"active", "integrated", "expired"}
    /\ {side, row, lease} \subseteq BOOLEAN
    /\ \A r \in Runtimes : calls[r] # None => calls[r].todo # <<>>

\* Nothing is applied to the checkout but a patch that was approved, and that had
\* been verified and audited: whatever is edited between the preflight, the approval
\* and the integration. (The evidence of a task is not compared with the patch, and
\* an approval made again has the patch of the second diff; there this holds unless
\* the worktree is edited while a call looks at it.)
OnlyApprovedIsApplied ==
    \A a \in applied :
        /\ a.patch = a.approved
        /\ a.patch \in proven \/ (a.raced /\ (tasked \/ ~a.first))

\* A receipt of an application is one; an intent or a grant counts as integrated only
\* after the application of its patch was recorded.
ReceiptsAreTrue ==
    /\ saved \subseteq {a.patch : a \in applied}
    /\ \A c \in Contents : receipts[c] = "applied" => c \in saved
    /\ \A k \in DOMAIN intents : intents[k] = "integrated" => k[2] \in saved
    /\ \A i \in DOMAIN grants :
          grants[i].state = "integrated" => grants[i].uses > 0 /\ grants[i].patch \in saved

\* The records of a session are written in an order that a crash may cut off anywhere:
\* tasks that have succeeded have a session that is integrated and holds no lease,
\* and a session that is integrated has a receipt.
RecordedInOrder ==
    /\ task = "succeeded" => row
    /\ row => side /\ ~lease
    /\ side => saved # {}

\* An integration that was refused has not changed the checkout, one that was
\* answered has, and only an answer that leaves the outcome open leaves it open.
AnswerIsTrue ==
    last # None =>
        /\ last.answer = "refused" => ~last.done
        /\ last.answer = "integrated" => last.done /\ row

\* One human decision is carried out once, however often preflight finds it again:
\* the approval that is reused without a new confirmation goes by a grant not used
\* yet. (Unless its mark was lost to a failure, or two calls go by it at once.)
DecidedOnce == \A i \in DOMAIN grants : grants[i].uses > 1 => grants[i].loose

\* What the store and the answers say of integrations is what happened to the
\* checkout.
IntegrationIsSound ==
    TypeOK /\ ReceiptsAreTrue /\ RecordedInOrder /\ AnswerIsTrue /\ DecidedOnce
=============================================================================
