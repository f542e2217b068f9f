--------------------------- MODULE SessionArchives --------------------------
(* The archive of a retained worktree (session_archive.py and               *)
(* session_archive_gc.py): a snapshot is taken of the worktree, published    *)
(* beside it under an id that is the hash of what it holds, verified, and    *)
(* only then given a receipt in the store. The content of a worktree is a    *)
(* number, 0 where it is clean; the id of an archive is the content it is    *)
(* the snapshot of. Whoever edits the worktree, or spoils an archive, asks   *)
(* nobody: each step of the pipeline meets the world as it then is.          *)
EXTENDS Integers, FiniteSets, Sequences

CONSTANTS
    Absent,      \* no worktree, no record, no archive, nothing to do
    MaxContent,  \* bound: contents of the worktree other than the clean one
    MaxMishaps   \* bound: edits, losses, failures and crashes together

ASSUME BoundsAssumption == MaxContent \in Nat /\ MaxMishaps \in Nat

ASSUME AbsentAssumption == Absent \notin Int

VARIABLES
    tree,     \* the content of the worktree, Absent where it is gone
    filed,    \* what the directory of each archive id holds, Absent where there is none
    booked,   \* the archive ids with a receipt in session_archives
    job,      \* what the runtime is in the middle of, or Absent
    mishaps

archives == <<tree, filed, booked>>

\* What normalized_state_hash tells apart: patch and untracked entries.
Contents == 0..MaxContent
Spoilt == MaxContent + 1

\* A job: the operation, what it has observed, the steps to go and its archive.
Doing(op, seen, todo) ==
    [op |-> op, seen |-> seen, todo |-> todo, archive |-> Absent, id |-> Absent]

At(step) == job # Absent /\ Head(job.todo) = step
Rest(j) == IF Len(j.todo) = 1 THEN Absent ELSE [j EXCEPT !.todo = Tail(@)]

Mishap == mishaps < MaxMishaps /\ mishaps' = mishaps + 1

-----------------------------------------------------------------------------
(* The worktree and the archive directory, as others change them.           *)

Edit(c) ==
    /\ tree # Absent /\ c # tree /\ Mishap
    /\ tree' = c
    /\ UNCHANGED <<filed, booked, job>>

LoseTree ==
    /\ tree # Absent /\ Mishap
    /\ tree' = Absent
    /\ UNCHANGED <<filed, booked, job>>

SpoilArchive(a) ==
    /\ filed[a] = a /\ Mishap
    /\ filed' = [filed EXCEPT ![a] = Spoilt]
    /\ UNCHANGED <<tree, booked, job>>

-----------------------------------------------------------------------------
(* prepare_archive_for_prune: snapshot, verify, publish, verify, receipt.    *)

\* SessionArchiveBuilder.build reads the patch and the untracked entries;
\* verify_snapshot applies the patch to the base in a private index.
BuildSnapshot ==
    /\ At("build") /\ tree # Absent
    /\ job' = [job EXCEPT !.archive = tree, !.todo = Tail(@)]
    /\ UNCHANGED <<archives, mishaps>>

\* The directory of the archive is in order: manifest, patch, files and the hash
\* of the whole.
VerifyPublished(a) == filed[a] = a

\* A plausible mistake for PublishArchive: the files are copied without comparing
\* them with the entries of the snapshot.
PublishUncompared ==
    /\ At("publish")
    /\ filed' = [filed EXCEPT ![job.archive] = tree]
    /\ job' = Rest(job)
    /\ UNCHANGED <<tree, booked, mishaps>>

\* SessionArchiveStore.publish: what is there already must verify; otherwise the
\* files are copied from the worktree, each compared with its entry, and moved
\* into place. Edits of tracked files do not stop the copy: the patch is kept.
PublishArchive ==
    /\ At("publish")
    /\ filed[job.archive] # Absent => VerifyPublished(job.archive)
    /\ filed' = [filed EXCEPT ![job.archive] = job.archive]
    /\ job' = Rest(job)
    /\ UNCHANGED <<tree, booked, mishaps>>

\* What publish or verify_published finds in place is not the archive.
PublicationRefused ==
    /\ job # Absent /\ Head(job.todo) \in {"publish", "book"}
    /\ filed[job.archive] # Absent /\ ~VerifyPublished(job.archive)
    /\ job' = Absent
    /\ UNCHANGED <<archives, mishaps>>

\* verify_published once more, save_session_archive_receipt, which accepts a
\* second time only what it holds, and the receipt read back. The caller goes on
\* only with an archive it wanted.
BookArchive(wanted) ==
    /\ At("book") /\ VerifyPublished(job.archive)
    /\ booked' = booked \cup {job.archive}
    /\ job' = IF job.archive \in wanted THEN Rest(job) ELSE Absent
    /\ UNCHANGED <<tree, filed, mishaps>>

\* No receipt names an archive that was never published, and what an archive
\* directory holds is what its id says unless someone has spoilt it.
ArchivesHold ==
    /\ \A a \in Contents : filed[a] \in {Absent, a, Spoilt}
    /\ \A a \in booked : filed[a] # Absent
=============================================================================
