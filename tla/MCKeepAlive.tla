---------------------------- MODULE MCKeepAlive ----------------------------
(* The keep-alive engine with two descriptors.                             *)
EXTENDS KeepAlive

CONSTANTS f1, f2
=============================================================================
