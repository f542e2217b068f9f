-------------------------- MODULE WorkspaceRegistry --------------------------
(* The handlers that register, update, unregister, promote, create and       *)
(* relocate workspaces, and that set the project policy (server.py). A       *)
(* mutation is approved from a receipt that pins the registry's digest; the  *)
(* receipts are kept by the runtime that issued them. What a handler asks of *)
(* the repository, of sessions, leases and tasks is not in the model: such a *)
(* call is refused before it changes anything, and is not taken here.        *)
EXTENDS ConfigRegistry

CONSTANTS
    Offers,                 \* the sets of operations that clients use together
    MaxReceipts, MaxCalls   \* bounds: receipts issued, calls started

ASSUME ReceiptsAssumption == MaxReceipts \in Nat /\ MaxCalls \in Nat

VARIABLES
    dirs,       \* the directories that exist
    rcpt,       \* the receipts issued so far, oldest first
    calls,
    offered,    \* the operations that the clients of this behaviour use
    apart,      \* a relocation was given up, or cut off, where nothing is promised
    succeeded   \* how often each receipt has been reported as carried out

places == <<dirs, apart, offered>>
receipts == <<rcpt, succeeded>>

Ids == 1..MaxReceipts

\* A receipt: the change, the digest it pins, the runtime that keeps it, whether
\* it is still kept; and what the gateway has of it, of which more there.
Receipt(op, owner) ==
    [op |-> op, base |-> file, owner |-> owner, kept |-> TRUE,
     outer |-> "none", spec |-> None, trust |-> None, asks |-> FALSE, seen |-> 0]

Issue(receipt) ==
    /\ Len(rcpt) < MaxReceipts
    /\ rcpt' = Append(rcpt, receipt)
    /\ UNCHANGED <<registry, job, edits, faults, places, calls, succeeded>>

Drop(n) == rcpt' = [rcpt EXCEPT ![n].kept = FALSE]

\* The next step of a runtime's call on the mutation op.
Begin(r, step, op, base, n) ==
    /\ job[r] = Idle /\ calls < MaxCalls /\ calls' = calls + 1
    /\ job' = [job EXCEPT ![r] = [Idle EXCEPT !.at = step, !.op = op, !.base = base, !.rcpt = n]]

Kind(r, kinds) == job[r].op.kind \in kinds

-----------------------------------------------------------------------------
(* Preflights. They read the registry and store a receipt; one whose event   *)
(* cannot be recorded is taken back.                                         *)

\* _workspace_register_preflight: neither id nor path is registered, and there is
\* a repository at the path.
RegisterPreflight(r) ==
    /\ "register" \in offered
    /\ \E w \in Workspaces, p \in dirs :
           /\ job[r] = Idle /\ file[w] = None /\ ~Taken(file, p)
           /\ Issue(Receipt(Change("register", w, p, p), r))

\* _workspace_unregister_preflight.
UnregisterPreflight(r) ==
    /\ "unregister" \in offered
    /\ \E w \in Registered(file) :
           /\ job[r] = Idle /\ file[w].path \in dirs
           /\ Issue(Receipt(Change("unregister", w, None, file[w].path), r))

\* _workspace_registration_update_preflight: the same checks as the update.
UpdatePreflight(r) ==
    \E w \in Registered(file), arg \in Workspaces \cup Levels :
        LET op == Change(IF arg \in Levels THEN "patch" ELSE "rename", w, arg, file[w].path)
        IN  /\ op.kind \in offered /\ job[r] = Idle /\ file[w].path \in dirs
            /\ Results(file, op) # {}
            /\ Issue(Receipt(op, r))

\* _workspace_relocation_destination: the destination does not exist yet.
Vacant(p) == p \notin dirs

\* _workspace_relocate_preflight.
RelocatePreflight(r) ==
    /\ "relocate" \in offered
    /\ \E w \in Registered(file), p \in Paths :
           /\ job[r] = Idle /\ file[w].path \in dirs /\ Vacant(p)
           /\ Issue(Receipt(Change("relocate", w, p, file[w].path), r))

\* _provisioning_preflight_for: a call that finds its receipt out of time drops it.
Expire(r) ==
    /\ job[r] = Idle /\ calls < MaxCalls /\ calls' = calls + 1
    /\ \E n \in DOMAIN rcpt :
        rcpt[n].kept /\ rcpt[n].owner = r /\ rcpt[n].outer = "none" /\ Drop(n)
    /\ UNCHANGED <<registry, job, edits, faults, places, succeeded>>

-----------------------------------------------------------------------------
(* _workspace_register, _workspace_unregister, _workspace_registration_update: *)
(* the receipt is dropped once the mutation has been made.                     *)

Registrations == {"register", "unregister", "rename", "patch"}

ApplyReceipt(r, kinds) ==
    /\ \E n \in DOMAIN rcpt :
        /\ rcpt[n].op.kind \in kinds /\ rcpt[n].kept /\ rcpt[n].owner = r
        /\ Begin(r, "lock", rcpt[n].op, rcpt[n].base, n)
    /\ UNCHANGED <<registry, edits, faults, places, receipts>>

Register(r) == ApplyReceipt(r, {"register"})
Unregister(r) == ApplyReceipt(r, {"unregister"})
UpdateRegistration(r) == ApplyReceipt(r, {"rename", "patch"})

Report(r, n) == succeeded' = [succeeded EXCEPT ![n] = @ + 1]

\* A plausible mistake for FinishApply: the receipt outlives its mutation.
FinishApplyKept(r) ==
    /\ Kind(r, Registrations) /\ job[r].rcpt # 0 /\ job[r].at \in {"written", "refused", "failed"}
    /\ Done(r) /\ NoFault
    /\ IF job[r].at = "written" THEN Report(r, job[r].rcpt) ELSE UNCHANGED succeeded
    /\ UNCHANGED <<registry, edits, places, calls, rcpt>>

\* Its event may fail to be recorded: the outcome is then unknown to the caller.
FinishApply(r) ==
    /\ Kind(r, Registrations) /\ job[r].rcpt # 0
    /\ \/ /\ job[r].at = "written" /\ Drop(job[r].rcpt)
          /\ \/ NoFault /\ Report(r, job[r].rcpt)
             \/ Fault /\ UNCHANGED succeeded
       \/ job[r].at \in {"refused", "failed"} /\ NoFault /\ UNCHANGED receipts
    /\ Done(r)
    /\ UNCHANGED <<registry, edits, places, calls>>

-----------------------------------------------------------------------------
(* Calls without a receipt.                                                 *)

\* _promote_candidate: a directory found by discovery; its caller may pin a digest.
Promote(r) ==
    /\ "promote" \in offered
    /\ \E w \in Workspaces, p \in dirs, base \in {None, file} :
            Begin(r, "lock", Change("register", w, p, p), base, 0)
    /\ UNCHANGED <<registry, edits, faults, places, receipts>>

\* create_project_directory, create_project_group.
NewDirectory(p) == dirs' = dirs \cup {p}

\* _workspace_project_create: the directory first, and then the registration.
\* Whatever fails later, the directory stays.
ProjectCreate(r) ==
    /\ "create" \in offered
    /\ \E w \in Workspaces, p \in Paths \ dirs :
        /\ Begin(r, "lock", Change("register", w, p, p), None, 0)
        /\ NewDirectory(p)
    /\ UNCHANGED <<registry, edits, faults, apart, offered, receipts>>

\* _project_group_create: a plain directory that is registered nowhere.
GroupCreate(r) ==
    /\ "group" \in offered
    /\ job[r] = Idle /\ calls < MaxCalls /\ calls' = calls + 1
    /\ \E p \in Paths : NewDirectory(p)
    /\ UNCHANGED <<registry, job, edits, faults, apart, offered, receipts>>

\* _project_policy_update: its caller pins the digest that _project_policy_get told.
PolicyUpdate(r) ==
    /\ "policy" \in offered
    /\ \E w \in Registered(file), level \in Levels :
            Begin(r, "lock", Change("policy", w, level, file[w].path), file, 0)
    /\ UNCHANGED <<registry, edits, faults, places, receipts>>

\* The events and receipts they record at the end tell the caller, and no one else.
FinishPlain(r) ==
    /\ job[r].rcpt = 0 /\ job[r].at \in {"written", "refused", "failed"}
    /\ Done(r)
    /\ UNCHANGED <<registry, edits, faults, places, calls, receipts>>

-----------------------------------------------------------------------------
(* _workspace_relocate: the directory is renamed, Git's links are repaired,  *)
(* and the registry is changed; on any failure all of it is taken back.       *)

Moves == {"relocate", "back"}
Source(r) == rcpt[job[r].rcpt].op.path
Destination(r) == rcpt[job[r].rcpt].op.arg

\* _workspace_relocation_preflight_for drops the receipt before anything is
\* checked; a call that finds another registry or another place ends here.
Relocate(r) ==
    /\ \E n \in DOMAIN rcpt :
        LET op == rcpt[n].op
        IN  /\ op.kind = "relocate" /\ rcpt[n].kept /\ rcpt[n].owner = r
            /\ Drop(n)
            /\ IF file = rcpt[n].base /\ op.path \in dirs /\ Vacant(op.arg)
               THEN Begin(r, "rename", op, rcpt[n].base, n)
               ELSE job[r] = Idle /\ UNCHANGED <<job, calls>>
    /\ UNCHANGED <<registry, edits, faults, places, succeeded>>

Move(from, to) == dirs' = (dirs \ {from}) \cup {to}

\* _workspace_relocation_repair_and_validate: git worktree repair, and every linked
\* worktree is as it was; both may fail.
RepairLinks(r, then) ==
    \/ NoFault /\ Goto(r, then)
    \/ Fault /\ Goto(r, "rollback")

\* os.rename, and the repair of the links.
RenameDirectory(r) ==
    /\ job[r].at = "rename"
    /\ IF Source(r) \in dirs /\ Vacant(Destination(r))
       THEN /\ Move(Source(r), Destination(r))
            /\ RepairLinks(r, "lock")
       ELSE Done(r) /\ NoFault /\ UNCHANGED dirs
    /\ UNCHANGED <<registry, edits, apart, offered, calls, receipts>>

\* The registry is read again, the repository at the destination and its links are
\* checked again and the event recorded.
FinishRelocate(r) ==
    /\ Kind(r, {"relocate"})
    /\ LET moved == /\ file[job[r].op.ws] # None
                    /\ file[job[r].op.ws].path = Destination(r)
                    /\ Destination(r) \in dirs
       IN  \/ /\ job[r].at = "written" /\ moved /\ NoFault
              /\ Done(r) /\ Report(r, job[r].rcpt)
           \/ /\ job[r].at = "written" /\ moved /\ Fault
              /\ Goto(r, "rollback") /\ UNCHANGED succeeded
           \/ /\ \/ job[r].at = "written" /\ ~moved
                 \/ job[r].at \in {"refused", "failed"}
              /\ NoFault /\ Goto(r, "rollback") /\ UNCHANGED succeeded
    /\ UNCHANGED <<registry, edits, places, calls, rcpt>>

\* The live registry decides: the destination is taken back under the digest it
\* has now; the pinned document needs nothing; any other is left as it is.
Rollback(r) ==
    /\ job[r].at = "rollback"
    /\ LET e == file[job[r].op.ws]
       IN  IF e # None /\ e.path = Destination(r)
           THEN job' = [job EXCEPT ![r] = [@ EXCEPT !.at = "lock", !.base = file,
                        !.op = Change("back", job[r].op.ws, Source(r), Destination(r))]]
           ELSE job' = [job EXCEPT ![r] = [@ EXCEPT !.at = "moveback",
                        !.whole = (e # None /\ file = rcpt[job[r].rcpt].base)]]
    /\ UNCHANGED <<registry, edits, faults, places, calls, receipts>>

\* The reverse mutation is read back before it is believed.
FinishBack(r) ==
    /\ Kind(r, {"back"}) /\ job[r].at \in {"written", "refused", "failed"}
    /\ LET e == file[job[r].op.ws]
       IN  job' = [job EXCEPT ![r] = [@ EXCEPT !.at = "moveback",
                    !.whole = (job[r].at = "written" /\ e # None /\ e.path = Source(r))]]
    /\ UNCHANGED <<registry, edits, faults, places, calls, receipts>>

\* A plausible mistake for MoveBack: the registry is believed to be back as well.
MoveBackUnchecked(r) ==
    /\ job[r].at = "moveback"
    /\ Destination(r) \in dirs /\ Source(r) \notin dirs
    /\ Move(Destination(r), Source(r))
    /\ Done(r)
    /\ UNCHANGED <<registry, edits, faults, apart, offered, calls, receipts>>

\* The directory is renamed back, its links are repaired and the registry is read
\* once more; what cannot be shown to be whole is reported as unknown.
MoveBack(r) ==
    /\ job[r].at = "moveback"
    /\ LET e == file[job[r].op.ws]
           free == Destination(r) \in dirs /\ Source(r) \notin dirs
           whole == job[r].whole /\ e # None /\ e.path = Source(r)
       IN  \/ /\ free /\ Move(Destination(r), Source(r)) /\ NoFault
              /\ apart' = (apart \/ ~whole)
           \/ /\ free /\ Move(Destination(r), Source(r)) /\ Fault /\ apart' = TRUE
           \/ /\ Fault /\ UNCHANGED dirs /\ apart' = TRUE
           \/ /\ ~free /\ NoFault /\ UNCHANGED dirs /\ apart' = TRUE
    /\ Done(r)
    /\ UNCHANGED <<registry, edits, offered, calls, receipts>>

\* A relocation whose directory may be elsewhere than the registry says.
Moving(r) == Kind(r, Moves) /\ job[r].at # "rename"

\* The process dies and is started again: the receipts and the calls are gone.
\* Nothing looks for a relocation that was cut off.
Crash ==
    /\ Fault /\ \E r \in Runtimes : job[r] # Idle
    /\ job' = [r \in Runtimes |-> Idle]
    /\ rcpt' = [n \in DOMAIN rcpt |->
                  [rcpt[n] EXCEPT !.kept = FALSE, !.outer = IF @ = "none" THEN @ ELSE "gone"]]
    /\ apart' = (apart \/ \E r \in Runtimes : Moving(r))
    /\ UNCHANGED <<registry, edits, dirs, offered, calls, succeeded>>

-----------------------------------------------------------------------------

\* A relocation that ends leaves its workspace registered where its directory is,
\* whatever step of it failed and whoever else changed the registry or the
\* directories meanwhile: the handler takes the directory and the registry back
\* together, or says that it does not know. (Another workspace registered at the
\* destination meanwhile is left without a directory.)
RelocatedTogether ==
    [][\A r \in Runtimes :
        (Moving(r) /\ ~Moving(r)' /\ ~apart')
            => LET e == file'[job[r].op.ws] IN e # None => e.path \in dirs']_<<file, dirs, job>>

\* No receipt is reported as carried out twice, although a mutation that failed
\* leaves its receipt to be tried again.
CarriedOutOnce == \A n \in Ids : succeeded[n] <= 1

\* What a receipt-bound mutation replaces is the very document that its preflight
\* showed, and what it writes is the change it showed; only a relocation that is
\* taken back, and a command profile registered again by another runtime, go by
\* the registry of the day.
ApprovedIsWritten ==
    \A r \in Runtimes :
        (job[r].at \in {"replace", "readback"} /\ job[r].rcpt # 0 /\ ~Kind(r, {"back"}))
            => LET approved == rcpt[job[r].rcpt]
               IN  /\ job[r].after \in Results(job[r].before, approved.op)
                   /\ ~Kind(r, {"command"}) => job[r].before = approved.base
=============================================================================
