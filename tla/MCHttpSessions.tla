--------------------------- MODULE MCHttpSessions ---------------------------
(* Small instances of HttpSessions. *)
EXTENDS HttpSessions

CONSTANTS none, h1, h2, main

MCStrangers == {-1}
=============================================================================
