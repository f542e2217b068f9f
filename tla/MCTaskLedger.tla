---------------------------- MODULE MCTaskLedger ----------------------------
(* A small instance of TaskLedger.                                          *)
EXTENDS TaskLedger, TLC

CONSTANTS r1, r2, t1, o1, o2, none

\* Each task answers a request of its own.
MCOwnRequests == [t \in Tasks |-> t]

\* Nothing, or evidence together with the receipt of a commit.
MCArguments == {[evidence |-> FALSE, git |-> {}, detail |-> ""],
                [evidence |-> TRUE, git |-> {"commit"}, detail |-> ""]}

\* The runtimes are alike, and so are the owners.
MCAlike == Permutations(Runtimes) \cup Permutations(Owners)
=============================================================================
