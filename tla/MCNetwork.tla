----------------------------- MODULE MCNetwork -----------------------------
(* The network of one gateway with a short event queue.                      *)
EXTENDS Network, TLC
=============================================================================
