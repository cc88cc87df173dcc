--------------------------- MODULE MCServiceProcess ---------------------------
(* ServiceProcess for TLC: two calls of each transport. *)
EXTENDS ServiceProcess, TLC

CONSTANTS c1, c2, h1, h2

MCCalls == {c1, c2}
MCHttpCalls == {h1, h2}
=============================================================================
