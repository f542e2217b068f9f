---------------------------- MODULE MCMaintenance ---------------------------
(* SessionMaintenance for model checking.                                   *)
EXTENDS SessionMaintenance, TLC

CONSTANTS d1, d2

Uses == {{"disposition", "archive"}, {"disposition", "archive", "attach"},
         {"reconcile", "disposition"}, {"reconcile", "attach"}, {"repair", "disposition", "archive"},
         {"repair", "reconcile"}, {"adopt", "import", "repair"}, {"import", "reconcile"}}
Symmetric == Permutations({d1, d2})
=============================================================================
