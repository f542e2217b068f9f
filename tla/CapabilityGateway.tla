-------------------------- MODULE CapabilityGateway --------------------------
(* The stable capability gateway: the bindings of capability_bindings.py,    *)
(* the receipts of StableCapabilityGateway (capability_gateway_mcp.py), and  *)
(* the handlers of server.py that they reach. The receipts of the gateway    *)
(* are shared by all runtimes of the process; a typed capability also has a   *)
(* receipt of its own kept by the runtime that made it.                       *)
(* A capability whose authority is delegated needs no approval of the         *)
(* gateway's: its handler is one of WorkspaceRegistry, or is elsewhere.       *)
EXTENDS WorkspaceRegistry

CONSTANTS MaxOpen  \* max_preflights

ASSUME GatewayAssumption == MaxOpen \in Nat \ {0}

VARIABLES
    world,   \* a version of all the state the other handlers pin and change
    started  \* how often the handler of each receipt has been started

gateway == <<world, started>>
vars == <<registry, job, edits, faults, places, receipts, calls, gateway>>

-----------------------------------------------------------------------------
(* The bindings. A specification is its risk and its approval policy,         *)
(* what its handler compares with the preflight, whether it changes anything  *)
(* and whether it is bound to a workspace. The session, lease or network some *)
(* need is there.                                                             *)

Spec4(risk, approval, pins, writes) ==
    [risk |-> risk, approval |-> approval, pins |-> pins, writes |-> writes,
     bound |-> TRUE]

Unbound(spec) == [spec EXCEPT !.bound = FALSE]

\* Handlers that take nothing from the preflight.
GithubRepository ==
    {Spec4("R0", "none", "nothing", FALSE), Spec4("R3", "delegated", "nothing", TRUE)}
AnalysisPack == Spec4("R0", "automatic", "nothing", FALSE)
SessionList == Spec4("R0", "none", "nothing", FALSE)
ContextRead == Spec4("R0", "none", "nothing", FALSE)
PerformanceSummary == Spec4("R0", "none", "nothing", FALSE)
ContextCheckpoint == Spec4("R1", "automatic", "nothing", TRUE)
ExternalInvoke == Spec4("R2", "workspace_trust", "nothing", TRUE)
LegacyTool(risk, kind) ==
    CASE kind = "read"   -> Spec4("R0", "none", "nothing", FALSE)
      [] kind = "direct" -> Spec4(risk, "human", "nothing", TRUE)
      [] kind = "typed"  -> Spec4(risk, "delegated", "nothing", TRUE)

\* Handlers that are given what the preflight saw and refuse when it has changed.
SessionAbandon == Spec4("R2", "human", "digest", TRUE)
SessionArchive == Spec4("R0", "none", "digest", TRUE)
EvidenceDisposition == Spec4("R1", "automatic", "digest", TRUE)
LegacyWorktreeAdoption == Spec4("R0", "none", "digest", TRUE)
SessionReconcile == Spec4("R1", "automatic", "digest", TRUE)
IdentityRepair == Spec4("R1", "automatic", "digest", TRUE)
CandidateActivation == Spec4("R3", "human", "digest", TRUE)
CandidatePreparation == Spec4("R1", "automatic", "digest", TRUE)
EvidenceImport == Spec4("R2", "human", "digest", TRUE)

\* Handlers that are given a plan and carry it out, or answer with it: what it was
\* made from is not compared again.
HybridRoute == Spec4("R0", "automatic", "nothing", FALSE)
FastStep == Spec4("R1", "automatic", "nothing", TRUE)
TrustedDelivery == Spec4("R2", "workspace_trust", "nothing", TRUE)
ExternalOpen == Spec4("R2", "workspace_trust", "nothing", TRUE)
MacosAppReplace == Spec4("R3", "human", "nothing", TRUE)
WorkspaceOrganization ==
    {Unbound(Spec4("R2", "human", "nothing", TRUE)), Unbound(Spec4("R0", "none", "nothing", FALSE)),
     Unbound(Spec4("R3", "delegated", "nothing", TRUE))}

\* Handlers that change the registry: the trust level at the digest the caller
\* gave, a typed profile by the receipt of its own service.
TrustBinding(level) ==
    IF level = "trusted" THEN Spec4("R3", "human", "trust", TRUE)
    ELSE Spec4("R1", "automatic", "trust", TRUE)
ProfileRegister(type) == Spec4("R3", "human", type, TRUE)
CredentialRegister == Spec4("R3", "human", "slot", TRUE)
CommandRegister == Spec4("R3", "human", "command", TRUE)
CommandUnregister == Spec4("R3", "human", "remove", TRUE)
CommandCleanup == Spec4("R3", "human", "cleanup", TRUE)

OnRegistry == {TrustBinding("trusted"), TrustBinding("standard"),
               ProfileRegister("browser"), ProfileRegister("desktop"),
               CredentialRegister, CommandRegister, CommandUnregister, CommandCleanup}
Elsewhere ==
    {AnalysisPack, SessionList, ContextRead, PerformanceSummary, ContextCheckpoint, ExternalInvoke,
     LegacyTool("R0", "read"), LegacyTool("R3", "direct"), LegacyTool("R3", "typed"), SessionAbandon, SessionArchive, EvidenceDisposition,
     LegacyWorktreeAdoption, SessionReconcile, IdentityRepair, CandidateActivation,
     CandidatePreparation, EvidenceImport, HybridRoute, FastStep, TrustedDelivery, ExternalOpen,
     MacosAppReplace} \cup GithubRepository \cup WorkspaceOrganization

-----------------------------------------------------------------------------
(* StableCapabilityGateway.                                                  *)

\* _approval_required and its override for delegated handlers: a risky
\* capability without an approval is none that can be used at all.
Admissible(spec) ==
    CASE spec.approval \in {"none", "automatic"} -> spec.risk \in {"R0", "R1"}
      [] spec.approval = "delegated" -> spec.risk # "R0"
      [] spec.approval = "workspace_trust" -> spec.risk \in {"R1", "R2"}
      [] OTHER -> TRUE

\* _approval_required_for_context.
ApprovalRequired(spec, trust) ==
    \/ spec.approval = "human"
    \/ spec.approval = "workspace_trust" /\ trust # "trusted"

\* _stable_capability_context: a capability bound to a workspace has the digest of
\* the whole registry for its policy, and the trust level of its workspace.
PolicyOf(spec) == IF spec.bound THEN file ELSE None
TrustOf(spec, w) == IF spec.bound THEN file[w].trust ELSE "standard"

\* A plausible mistake for Pruned: only a consumed receipt is dropped.
PrunedNever(table) == table

\* _prune_locked: the oldest receipts beyond max_preflights are dropped.
Pruned(table) ==
    LET open == {n \in DOMAIN table : table[n].outer = "fresh"}
        oldest == {n \in open : Cardinality({m \in open : m >= n}) > MaxOpen}
    IN  [n \in DOMAIN table |-> IF n \in oldest THEN [table[n] EXCEPT !.outer = "gone"] ELSE table[n]]

\* The change a capability of the registry asks for.
Asked(spec, w) ==
    CASE spec.pins = "trust" ->
            {Change("trust", w, IF spec = TrustBinding("trusted") THEN "trusted" ELSE "standard",
                    file[w].path)}
      [] spec.pins \in {"browser", "desktop", "slot", "command"} ->
            {Change(spec.pins, w, s, file[w].path) : s \in Specs}
      [] spec.pins \in {"remove", "cleanup"} ->
            {Change(spec.pins, w, s, file[w].path) : s \in Specs \cap {file[w].item}}
      [] OTHER -> {Change("other", w, None, None)}

\* The preflights of the typed services, which make a receipt of their own.
PrepareProfile(op) == op.kind \in {"browser", "desktop"} /\ Results(file, op) # {}
PrepareCredential(op) == op.kind = "slot" /\ Results(file, op) # {}
PrepareCommand(op) == op.kind = "command" /\ Results(file, op) # {}
PrepareUnregister(op) == op.kind = "remove" /\ Results(file, op) # {}
PrepareCleanup(op) == op.kind = "cleanup" /\ Results(file, op) # {}

Prepares(op) ==
    op.kind \notin {"other", "trust"} =>
        \/ PrepareProfile(op) \/ PrepareCredential(op) \/ PrepareCommand(op)
        \/ PrepareUnregister(op) \/ PrepareCleanup(op)

\* What a receipt keeps of the binding of its capability.
Bound(spec) == [pins |-> spec.pins, writes |-> spec.writes, bound |-> spec.bound]

\* preflight: the context, the handler's own preflight, and then the receipt. A
\* registry that changes in between makes a receipt that no execution accepts,
\* so the three are one step.
Preflight(r) ==
    \E spec \in OnRegistry \cup Elsewhere, w \in Registered(file) :
        /\ spec.pins \in offered
        /\ job[r] = Idle /\ Admissible(spec)
        /\ Len(rcpt) < MaxReceipts
        /\ \E op \in Asked(spec, w) :
            /\ Prepares(op)
            /\ rcpt' = Pruned(Append(rcpt,
                        [op |-> op, base |-> PolicyOf(spec), owner |-> r, kept |-> op.kind # "other",
                         outer |-> "fresh", spec |-> Bound(spec), trust |-> TrustOf(spec, w),
                         asks |-> ApprovalRequired(spec, TrustOf(spec, w)),
                         seen |-> IF spec.pins = "digest" THEN world ELSE 0]))
        /\ UNCHANGED <<registry, job, edits, faults, places, calls, succeeded, gateway>>

\* capability_execute reads its context first; any runtime may be asked.
ReadContext(r) ==
    /\ \E n \in DOMAIN rcpt, word \in BOOLEAN :
        /\ rcpt[n].outer # "none" /\ (rcpt[n].spec.bound => file[rcpt[n].op.ws] # None)
        /\ job[r] = Idle /\ calls < MaxCalls /\ calls' = calls + 1
        /\ job' = [job EXCEPT ![r] = [Idle EXCEPT !.at = "context", !.op = rcpt[n].op,
                    !.base = PolicyOf(rcpt[n].spec), !.rcpt = n, !.word = word,
                    !.before = IF rcpt[n].spec.bound THEN file[rcpt[n].op.ws].trust ELSE "standard"]]
    /\ UNCHANGED <<registry, edits, faults, places, receipts, gateway>>

\* What execute finds wrong with a receipt, the store's lock held. One that has
\* passed its time is dropped; the one of the typed service lives twice as long.
Accepted(r) ==
    LET receipt == rcpt[job[r].rcpt]
    IN  /\ receipt.outer = "fresh"
        /\ job[r].base = receipt.base /\ job[r].before = receipt.trust
        /\ receipt.asks => job[r].word

Grants(op) == op.kind = "trust" /\ op.arg = "trusted"

\* A plausible mistake for Consume: the receipt is consumed when its handler is done.
ConsumeLate(r) ==
    /\ job[r].at = "context"
    /\ IF Accepted(r)
       THEN /\ started' = [started EXCEPT ![job[r].rcpt] = @ + 1]
            /\ job' = [job EXCEPT ![r].at = "handler", ![r].before = None]
       ELSE Done(r) /\ UNCHANGED started
    /\ UNCHANGED <<registry, edits, faults, places, calls, rcpt, succeeded, world>>

\* execute: refused, or the receipt is consumed before its handler is called.
Consume(r) ==
    /\ job[r].at = "context"
    /\ LET n == job[r].rcpt
       IN  \/ /\ Accepted(r)
              /\ rcpt' = [rcpt EXCEPT ![n].outer = "spent"]
              /\ started' = [started EXCEPT ![n] = @ + 1]
              /\ job' = [job EXCEPT ![r].at = "handler", ![r].before = None]
              /\ granted' = (granted \/ (Grants(rcpt[n].op) /\ job[r].word))
           \/ ~Accepted(r) /\ Done(r) /\ UNCHANGED <<rcpt, started, granted>>
           \/ /\ rcpt[n].outer = "fresh" /\ rcpt' = [rcpt EXCEPT ![n].outer = "gone"]
              /\ Done(r) /\ UNCHANGED <<started, granted>>
    /\ UNCHANGED <<file, author, lost, edits, faults, places, calls, succeeded, world>>

-----------------------------------------------------------------------------
(* The handlers.                                                            *)

At(r, pins) == job[r].at = "handler" /\ rcpt[job[r].rcpt].spec.pins \in pins

\* _workspace_trust_execute goes by the digest of the preflight.
ExecuteTrust(r) ==
    /\ At(r, {"trust"})
    /\ job' = [job EXCEPT ![r].at = "lock", ![r].base = rcpt[job[r].rcpt].base]
    /\ UNCHANGED <<registry, edits, faults, places, calls, receipts, gateway>>

\* The typed services know only the receipts they have made themselves.
ApplyTyped(r, otherwise) ==
    LET receipt == rcpt[job[r].rcpt]
    IN  /\ IF receipt.owner = r /\ receipt.kept
           THEN job' = [job EXCEPT ![r].at = "lock", ![r].base = receipt.base]
           ELSE job' = otherwise
        /\ UNCHANGED <<registry, edits, faults, places, calls, receipts, gateway>>

Refused(r) == [job EXCEPT ![r] = Idle]

ExecuteProfile(r) == At(r, {"browser", "desktop"}) /\ ApplyTyped(r, Refused(r))
ExecuteCredential(r) == At(r, {"slot"}) /\ ApplyTyped(r, Refused(r))
ExecuteUnregister(r) == At(r, {"remove"}) /\ ApplyTyped(r, Refused(r))
ExecuteCleanup(r) == At(r, {"cleanup"}) /\ ApplyTyped(r, Refused(r))

\* A command profile that is not known is prepared again and applied at once, by
\* the registry as it is now.
ExecuteCommand(r) ==
    /\ At(r, {"command"})
    /\ ApplyTyped(r, IF PrepareCommand(job[r].op)
                     THEN [job EXCEPT ![r].at = "lock", ![r].base = file]
                     ELSE Refused(r))

\* The registry is loaded again after an apply, and the typed receipt dropped.
Finish(r, kinds) ==
    /\ Kind(r, kinds)
    /\ \/ /\ job[r].at = "written" /\ Drop(job[r].rcpt)
          /\ \/ NoFault /\ Report(r, job[r].rcpt)
             \/ Fault /\ UNCHANGED succeeded
       \/ job[r].at \in {"refused", "failed"} /\ NoFault /\ UNCHANGED receipts
    /\ Done(r)
    /\ UNCHANGED <<registry, edits, places, calls, gateway>>

FinishTrust(r) == Finish(r, {"trust"})
FinishProfile(r) == Finish(r, {"browser", "desktop"})
FinishCredential(r) == Finish(r, {"slot"})
FinishCommand(r) == Finish(r, {"command"})
FinishUnregister(r) == Finish(r, {"remove"})
FinishCleanup(r) == Finish(r, {"cleanup"})

\* The handlers whose state is elsewhere: one that pins a digest refuses a world
\* that has changed since, the others do what they are told.
ExecuteElsewhere(r) ==
    /\ At(r, {"nothing", "digest"})
    /\ LET receipt == rcpt[job[r].rcpt]
           stale == receipt.spec.pins = "digest" /\ world # receipt.seen
       IN  IF stale THEN UNCHANGED <<world, succeeded>>
           ELSE /\ world' = world + (IF receipt.spec.writes THEN 1 ELSE 0)
                /\ Report(r, job[r].rcpt)
    /\ Done(r)
    /\ UNCHANGED <<registry, edits, faults, places, calls, rcpt, started>>

\* Anything else that changes what the handlers pin.
WorldChanges ==
    /\ edits < MaxEdits /\ edits' = edits + 1 /\ world' = world + 1
    /\ UNCHANGED <<registry, job, faults, places, calls, receipts, started>>

-----------------------------------------------------------------------------

Init ==
    /\ file \in {[w \in Workspaces |-> IF w = v THEN NewEntry(p) ELSE None] :
                   v \in Workspaces, p \in Paths}
    /\ dirs = {file[w].path : w \in Registered(file)}
    /\ author = "operator" /\ lost = {} /\ granted = FALSE /\ apart = FALSE
    /\ job = [r \in Runtimes |-> Idle]
    /\ rcpt = <<>>
    /\ succeeded = [n \in Ids |-> 0] /\ started = [n \in Ids |-> 0]
    /\ edits = 0 /\ faults = 0 /\ calls = 0 /\ world = 0
    /\ offered \in Offers

Mutation ==
    \E r \in Runtimes : Snapshot(r) \/ Replace(r) \/ ReadBack(r)

Handler ==
    \E r \in Runtimes :
        \/ Expire(r) \/ RegisterPreflight(r) \/ UnregisterPreflight(r) \/ UpdatePreflight(r)
        \/ RelocatePreflight(r) \/ Register(r) \/ Unregister(r) \/ UpdateRegistration(r) \/ FinishApply(r)
        \/ Promote(r) \/ ProjectCreate(r) \/ GroupCreate(r) \/ PolicyUpdate(r) \/ FinishPlain(r)
        \/ Relocate(r) \/ RenameDirectory(r) \/ FinishRelocate(r)
        \/ Rollback(r) \/ FinishBack(r) \/ MoveBack(r)

Capability ==
    \/ WorldChanges
    \/ \E r \in Runtimes :
        \/ Preflight(r) \/ ReadContext(r) \/ Consume(r)
        \/ ExecuteTrust(r) \/ FinishTrust(r) \/ ExecuteProfile(r) \/ FinishProfile(r)
        \/ ExecuteCredential(r) \/ FinishCredential(r) \/ ExecuteCommand(r) \/ FinishCommand(r)
        \/ ExecuteUnregister(r) \/ FinishUnregister(r)
        \/ ExecuteCleanup(r) \/ FinishCleanup(r) \/ ExecuteElsewhere(r)

Next ==
    \/ (Mutation \/ OperatorEdits) /\ UNCHANGED <<places, receipts, calls, gateway>>
    \/ (Handler \/ Crash) /\ UNCHANGED gateway
    \/ Capability

Spec == Init /\ [][Next]_vars

-----------------------------------------------------------------------------

TypeOK ==
    /\ file \in Document /\ author \in {"registry", "policy", "operator"}
    /\ dirs \subseteq Paths /\ apart \in BOOLEAN
    /\ \A r \in Runtimes :
        /\ job[r].at \in {"idle", "lock", "replace", "readback", "written", "refused", "failed",
                          "rename", "rollback", "moveback", "context", "handler"}
        /\ job[r].rcpt \in 0..Len(rcpt)
        /\ job[r].at \in {"replace", "readback"} => job[r].after \in Document
    /\ \A n \in DOMAIN rcpt : rcpt[n].outer \in {"none", "fresh", "spent", "gone"}
    /\ Cardinality({n \in DOMAIN rcpt : rcpt[n].outer = "fresh"}) <= MaxOpen

\* The handler of a gateway receipt is started at most once, however many runtimes
\* are asked to execute it at the same time: StableCapabilityGateway.execute
\* consumes it under the store's lock before it calls the handler.
RunsOnce == \A n \in Ids : started[n] <= 1

\* The store of receipts stays within its limit, and none of them runs twice.
ReceiptsAreSound == TypeOK /\ RunsOnce

\* No workspace is trusted unless an operator has made one so, or workspace.trust
\* with a confirmation: no update of a registration or of the policy can, although
\* both set the trust level, and neither can a preflight whose trust was confirmed
\* for something else.
TrustIsGranted == Trusted(file) # {} => granted
=============================================================================
