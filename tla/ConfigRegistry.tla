--------------------------- MODULE ConfigRegistry ---------------------------
(* The project registry: the JSON file that holds every workspace, its      *)
(* trust level and its typed profiles, and the mutations of it.             *)
(* RegistryMutationManager and its subclass for typed profiles              *)
(* (provisioning.py, platform_profile_registry.py) hold a lock per path and  *)
(* a lock file; ProjectPolicyManager (project_policy.py) holds a lock of its *)
(* own, so that a policy update and a registration do not exclude each       *)
(* other; an operator holds neither. The digest of a document is the         *)
(* document, so a file that is changed back is the same file.                *)
EXTENDS Integers, FiniteSets, Sequences

CONSTANTS
    None,          \* no entry, no profile, no digest
    Runtimes,      \* the runtimes of one process, one call at a time each
    Workspaces,    \* workspace ids
    Paths,         \* directories below the discovery root, none within another
    Specs,         \* specifications of a typed profile
    Ephemeral,     \* those of them that cleanup may remove
    MaxEdits, MaxFaults  \* bounds: operator edits, failing system calls

ASSUME RegistryAssumption ==
    /\ None \notin Workspaces \cup Paths \cup Specs
    /\ Ephemeral \subseteq Specs
    /\ MaxEdits \in Nat /\ MaxFaults \in Nat
    /\ IsFiniteSet(Workspaces) /\ IsFiniteSet(Runtimes)

VARIABLES
    file,    \* the document on disk
    author,  \* who replaced it last: "registry", "policy" or "operator"
    lost,    \* pairs <<whose bytes were replaced unread, by whom>>
    granted, \* a human has made a workspace trusted
    job,     \* what each runtime is doing
    edits, faults

registry == <<file, author, lost, granted>>

Levels == {"standard", "trusted"}
Entry == [path : Paths, trust : Levels, item : Specs \cup {None}]
Document == [Workspaces -> Entry \cup {None}]

\* A digest that is not pinned is the digest of no document.
ASSUME DocumentAssumption == None \notin Document

\* A change of the document: what is changed, where, to what, and the path
\* that the workspace must still have.
Change(kind, w, arg, path) == [kind |-> kind, ws |-> w, arg |-> arg, path |-> path]
NoChange == Change("none", None, None, None)

\* A call in progress. base is the pinned digest, or None where the caller pins
\* none; before and after are the bytes read and the bytes to write; rcpt is the
\* receipt the call is about, if any; whole says whether the registry has been
\* put back, and word whether the caller has returned a confirmation.
Idle == [at |-> "idle", op |-> NoChange, base |-> None, before |-> None,
         after |-> None, rcpt |-> 0, whole |-> TRUE, word |-> FALSE]

Goto(r, step) == job' = [job EXCEPT ![r].at = step]
Done(r) == job' = [job EXCEPT ![r] = Idle]

-----------------------------------------------------------------------------
(* What each mutation makes of a document: no document where it refuses, the *)
(* same one where it is idempotent.                                          *)

Registered(doc) == {w \in Workspaces : doc[w] # None}
Taken(doc, path) == \E w \in Registered(doc) : doc[w].path = path
NewEntry(path) == [path |-> path, trust |-> "standard", item |-> None]

\* The workspace is registered where the receipt saw it.
Pinned(doc, op) == doc[op.ws] # None /\ doc[op.ws].path = op.path

\* add_workspace: the id is free and the path overlaps no other workspace, or
\* the very registration exists.
AddWorkspace(doc, op) ==
    {doc : w \in {v \in {op.ws} : doc[v] # None /\ doc[v].path = op.arg}}
    \cup {[doc EXCEPT ![w] = NewEntry(op.arg)] :
            w \in {v \in {op.ws} : doc[v] = None /\ ~Taken(doc, op.arg)}}

\* remove_workspace.
RemoveWorkspace(doc, op) == {[doc EXCEPT ![w] = None] : w \in {v \in {op.ws} : Pinned(doc, op)}}

\* A plausible mistake for ExpandsTrust: any registered workspace may ask for it.
ExpandsTrustNever(entry, level) == FALSE

\* _apply_policy_patch and ProjectPolicyManager.update both deny this; only
\* set_trust_level may.
ExpandsTrust(entry, level) == entry.trust # "trusted" /\ level = "trusted"

\* update_workspace_registration: a rename moves the entry to a free id, a patch
\* sets the policy unless it expands the trust.
RenameWorkspace(doc, op) ==
    {[doc EXCEPT ![op.arg] = doc[op.ws], ![w] = None] :
        w \in {v \in {op.ws} : Pinned(doc, op) /\ doc[op.arg] = None}}

PatchWorkspace(doc, op) ==
    {[doc EXCEPT ![w].trust = op.arg] :
        w \in {v \in {op.ws} : Pinned(doc, op) /\ ~ExpandsTrust(doc[v], op.arg)}}

\* relocate_workspace_path changes the path alone, and asks nothing of the other
\* workspaces.
RelocatePath(doc, op) ==
    {[doc EXCEPT ![w].path = op.arg] : w \in {v \in {op.ws} : Pinned(doc, op)}}

\* A profile of the same id is the same or a conflict. A workspace has one profile
\* here, and clients register one type of profile.
WithItem(doc, op) ==
    {[doc EXCEPT ![w].item = op.arg] :
        w \in {v \in {op.ws} : Pinned(doc, op) /\ doc[v].item \in {None, op.arg}}}

RegisterBrowser(doc, op) == WithItem(doc, op)
RegisterDesktop(doc, op) == WithItem(doc, op)
RegisterCredentialSlot(doc, op) == WithItem(doc, op)
RegisterCommandProfile(doc, op) == WithItem(doc, op)

\* unregister_command_profile and cleanup_ephemeral_command_profiles: the pinned
\* specification is still the one registered; cleanup takes only ephemeral ones.
UnregisterCommandProfile(doc, op) ==
    {[doc EXCEPT ![w].item = None] :
        w \in {v \in {op.ws} : Pinned(doc, op) /\ doc[v].item = op.arg}}

CleanupCommandProfiles(doc, op) == {d \in UnregisterCommandProfile(doc, op) : op.arg \in Ephemeral}

\* ProjectPolicyManager.update without and with _allow_trust_expansion.
UpdatePolicy(doc, op) ==
    {[doc EXCEPT ![w].trust = op.arg] :
        w \in {v \in {op.ws} : doc[v] # None /\ ~ExpandsTrust(doc[v], op.arg)}}

SetTrustLevel(doc, op) ==
    {[doc EXCEPT ![w].trust = op.arg] : w \in {v \in {op.ws} : doc[v] # None}}

Results(doc, op) ==
    CASE op.kind = "register"   -> AddWorkspace(doc, op)
      [] op.kind = "unregister" -> RemoveWorkspace(doc, op)
      [] op.kind = "rename"     -> RenameWorkspace(doc, op)
      [] op.kind = "patch"      -> PatchWorkspace(doc, op)
      [] op.kind \in {"relocate", "back"} -> RelocatePath(doc, op)
      [] op.kind = "browser"    -> RegisterBrowser(doc, op)
      [] op.kind = "desktop"    -> RegisterDesktop(doc, op)
      [] op.kind = "slot"       -> RegisterCredentialSlot(doc, op)
      [] op.kind = "command"    -> RegisterCommandProfile(doc, op)
      [] op.kind = "remove"     -> UnregisterCommandProfile(doc, op)
      [] op.kind = "cleanup"    -> CleanupCommandProfiles(doc, op)
      [] op.kind = "policy"     -> UpdatePolicy(doc, op)
      [] op.kind = "trust"      -> SetTrustLevel(doc, op)

-----------------------------------------------------------------------------
(* One mutation: under its lock, the snapshot and the checks; the           *)
(* replacement; the read-back. The bytes are compared once more just before  *)
(* the replacement, which is the same as reading them then.                  *)

LockOf(op) == IF op.kind \in {"policy", "trust"} THEN "policy" ELSE "registry"

\* A plausible mistake for Free: the lock is not held until the read-back is over.
FreeEarly(r) ==
    \A s \in Runtimes \ {r} : job[s].at = "readback" => LockOf(job[s].op) # LockOf(job[r].op)

\* RegistryMutationManager._lock and _lock_file, ProjectPolicyManager._lock.
Free(r) ==
    \A s \in Runtimes \ {r} :
        job[s].at \in {"replace", "readback"} => LockOf(job[s].op) # LockOf(job[r].op)

Fault == faults < MaxFaults /\ faults' = faults + 1
NoFault == UNCHANGED faults

\* A plausible mistake for DigestHolds: the digest pinned by the receipt is not asked.
DigestIgnored(r) == TRUE

\* The registry is the one that was pinned; a promotion may pin none.
DigestHolds(r) == job[r].base \in {None, file}

\* The snapshot, and every check that is made of it.
Snapshot(r) ==
    /\ job[r].at = "lock" /\ Free(r)
    /\ LET docs == IF DigestHolds(r) THEN Results(file, job[r].op) ELSE {}
       IN  \/ docs = {} /\ Goto(r, "refused")
           \/ file \in docs /\ Goto(r, "written")
           \/ \E doc \in docs \ {file} :
                job' = [job EXCEPT ![r].at = "replace", ![r].before = file, ![r].after = doc]
    /\ UNCHANGED <<registry, edits, faults>>

Put(doc, by, read) ==
    /\ file' = doc /\ author' = by
    /\ lost' = IF file = read THEN lost ELSE lost \cup {<<author, by>>}

Trusted(doc) == {w \in Registered(doc) : doc[w].trust = "trusted"}

\* os.replace. The temporary file may fail to be written, and the directory may
\* fail to be synced once the file has been replaced: both are CONFIG_WRITE_FAILED.
Replace(r) ==
    /\ job[r].at = "replace"
    /\ LET write == Put(job[r].after, LockOf(job[r].op), job[r].before) /\ UNCHANGED granted
       IN  \/ write /\ NoFault /\ Goto(r, "readback")
           \/ write /\ Fault /\ Goto(r, "failed")
           \/ Fault /\ Goto(r, "failed") /\ UNCHANGED registry
    /\ UNCHANGED edits

\* What the read-back compares: the whole file, or the policy of the workspace.
ReadsBack(r) ==
    IF LockOf(job[r].op) = "registry" THEN file = job[r].after
    ELSE /\ file[job[r].op.ws] # None
         /\ file[job[r].op.ws].trust = job[r].op.arg

\* A registration that cannot read its own bytes back puts the old ones back,
\* never over other bytes; a policy update restores nothing.
ReadBack(r) ==
    /\ job[r].at = "readback"
    /\ \/ Goto(r, IF ReadsBack(r) THEN "written" ELSE "failed") /\ NoFault /\ UNCHANGED registry
       \/ /\ Fault /\ Goto(r, "failed")
          /\ IF LockOf(job[r].op) = "registry" /\ file = job[r].after
             THEN Put(job[r].before, "registry", file) /\ UNCHANGED granted
             ELSE UNCHANGED registry
    /\ UNCHANGED edits

\* What an operator may make of the file: another trust level, or a profile.
Edited ==
    UNION {{[file EXCEPT ![w].trust = level] : level \in Levels}
           \cup {[file EXCEPT ![w].item = spec] : spec \in Specs \cup {None}} : w \in Registered(file)}

OperatorEdits ==
    /\ edits < MaxEdits /\ edits' = edits + 1
    /\ \E doc \in Edited \ {file} :
        Put(doc, "operator", file) /\ granted' = (granted \/ Trusted(doc) # {})
    /\ UNCHANGED <<job, faults>>

-----------------------------------------------------------------------------

\* Two writers of the same lock never replace each other's bytes unread.
\* RegistryMutationManager holds its lock from the snapshot to the read-back, and
\* so does ProjectPolicyManager; the two locks are different ones, so a policy
\* update may still replace a registration, and either may replace an operator's
\* edit made after its last comparison.
LocksSerialize == lost \cap {<<"registry", "registry">>, <<"policy", "policy">>} = {}
=============================================================================
