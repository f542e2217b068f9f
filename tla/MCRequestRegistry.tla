-------------------------- MODULE MCRequestRegistry --------------------------
(* Small instances of RequestRegistry: poll and scan are reads, push and    *)
(* push2 calls of one tool with a side effect, note an evidence-only write. *)
EXTENDS RequestRegistry, TLC

CONSTANTS poll, scan, push, push2, note

\* scan and push share an id, poll and push an operation.
MCMixedIds == [c \in Calls |-> IF c = poll THEN 1 ELSE 2]
MCTools == [c \in Calls |-> IF c \in {push, push2} THEN "push" ELSE c]
MCOperations == [c \in Calls |-> IF c \in {poll, push} THEN "command" ELSE None]
==============================================================================
