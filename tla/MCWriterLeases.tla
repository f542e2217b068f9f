--------------------------- MODULE MCWriterLeases ---------------------------
(* Small instances of WriterLeases: one project with a canonical tree      *)
(* (main) and a session tree (side), one task, and two leases that differ  *)
(* from instance to instance.                                              *)
EXTENDS WriterLeases, TLC

CONSTANTS r1, r2, main, side, none, l1, l2

MCLeases == {l1, l2}
MCTreeWorkspace == [t \in {main, side} |-> "proj"]
MCFold == [s \in {"src", "a", "b"} |-> s]
MCLeaseTask == [l \in MCLeases |-> "t"]
MCRuntimeSymmetry == Permutations(Runtimes)

\* One file below both leases, and a second one below l1 only.
MCFilePath == [f \in {"a", "b"} |-> <<"src", f>>]
MCFileInMain == [f \in Files |-> main]
MCFileInSide == [f \in Files |-> side]

\* Scopes that overlap by being nested.
MCNestedPaths == l1 :> {<<"src">>} @@ l2 :> {<<"src", "a">>}

MCBothSide == [l \in MCLeases |-> side]
MCSideMain == l1 :> side @@ l2 :> main

\* Nobody commits, or somebody commits to the session tree once.
MCNoCommits == [t \in Trees |-> 0]
MCCommitInSide == [t \in Trees |-> IF t = side THEN 1 ELSE 0]

MCNoResources == [l \in MCLeases |-> {}]
=============================================================================
