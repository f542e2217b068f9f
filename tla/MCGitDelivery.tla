---------------------------- MODULE MCGitDelivery ----------------------------
(* Small instances of GitDelivery: a file of the task and one of others.    *)
EXTENDS GitDelivery, TLC

CONSTANTS r1, r2, p1, own, other, none

MCRuntimeSymmetry == Permutations(Runtimes)
==============================================================================
