---------------------------- MODULE MCActivation ----------------------------
(* RuntimeActivation for model checking.                                    *)
EXTENDS RuntimeActivation, TLC

CONSTANTS r1, r2

\* Preparations while the source goes on; activations beside mishaps, a repin,
\* preparations or maintenance; maintenance and repins
\* beside mishaps.
Uses ==
    {{"prepare", "revise", "mishap"}, {"activate", "mishap"}, {"activate", "repin"},
     {"activate", "prepare"}, {"activate", "maintain"}, {"maintain", "mishap"}, {"repin", "mishap"}}
Symmetric == Permutations({r1, r2})
=============================================================================
