----------------------------- MODULE MCSessions -----------------------------
(* Small instances of DevelopmentSessions. *)
EXTENDS DevelopmentSessions

CONSTANTS none, r1, r2
=============================================================================
