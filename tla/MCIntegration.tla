---------------------------- MODULE MCIntegration ---------------------------
(* SessionIntegration for model checking.                                   *)
EXTENDS SessionIntegration, TLC

CONSTANTS r1, r2

\* An entry that blocks the session.
Conflicting == [follows |-> FALSE, needed |-> FALSE, shares |-> FALSE, overlaps |-> TRUE,
                compatible |-> FALSE]
MCStarts == {[base |-> "head", work |-> 1, tasked |-> FALSE, ahead |-> None],
             [base |-> "snapshot", work |-> 2, tasked |-> TRUE, ahead |-> None],
             [base |-> "head", work |-> 2, tasked |-> TRUE, ahead |-> Conflicting]}
Symmetric == Permutations({r1, r2})
=============================================================================
