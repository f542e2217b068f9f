------------------------------ MODULE KeptWork ------------------------------
(* What managed development sessions promise about the work in a worktree:  *)
(* it may be changed by its writer, and it goes away only when it is clean   *)
(* or its exact content has been kept in an archive. What has been kept      *)
(* stays kept.                                                               *)
CONSTANTS None,     \* no worktree
          Trees,
          Contents  \* of a worktree; Clean is one of them
CONSTANT Clean

VARIABLES disk,     \* the content of every worktree
          kept      \* the contents that archives hold, by worktree

Init == disk = [w \in Trees |-> None] /\ kept = {}

Open(w) == disk[w] = None /\ disk' = [disk EXCEPT ![w] = Clean] /\ UNCHANGED kept

Write(w) == \E c \in Contents :
    disk[w] # None /\ disk' = [disk EXCEPT ![w] = c] /\ UNCHANGED kept

Keep(w) ==
    disk[w] # None /\ kept' = kept \cup {<<w, disk[w]>>} /\ UNCHANGED disk

Discard(w) ==
    /\ disk[w] = Clean \/ <<w, disk[w]>> \in kept
    /\ disk' = [disk EXCEPT ![w] = None] /\ UNCHANGED kept

Next == \E w \in Trees : Open(w) \/ Write(w) \/ Keep(w) \/ Discard(w)

Spec == Init /\ [][Next]_<<disk, kept>>
=============================================================================
