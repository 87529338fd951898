--------------------------- MODULE WatchedClients ---------------------------
(***************************************************************************)
(* What main.c expects of the keep-alive engine: an atomic set of watched  *)
(* clients. A session is watched from the moment it is accepted; it stops  *)
(* being watched when it ends or when the engine declares it dead. The     *)
(* engine may fail once, by losing a removal; from then on it promises     *)
(* nothing.                                                                *)
(***************************************************************************)
EXTENDS Naturals, FiniteSets

CONSTANTS Fds, MaxClients

VARIABLES
    open,     \* sessions that exist
    watched,  \* sessions the engine keeps an eye on
    failed    \* a removal was lost

vars == <<open, watched, failed>>

Init == open = {} /\ watched = {} /\ failed = FALSE

Accept(fd) ==
    /\ fd \notin open
    /\ Cardinality(open) < MaxClients
    /\ open' = open \cup {fd}
    /\ watched' = IF failed THEN {} ELSE watched \cup {fd}
    /\ UNCHANGED failed

Leave(fd) ==
    /\ fd \in open
    /\ open' = open \ {fd}
    /\ watched' = watched \ {fd}
    /\ UNCHANGED failed

DeclareDead(fd) ==
    /\ fd \in watched
    /\ watched' = watched \ {fd}
    /\ UNCHANGED <<open, failed>>

LoseRemoval(fd) ==
    /\ fd \in open
    /\ open' = open \ {fd}
    /\ watched' = {}
    /\ failed' = TRUE

Next == \E fd \in Fds : Accept(fd) \/ Leave(fd) \/ DeclareDead(fd) \/ LoseRemoval(fd)

Spec == Init /\ [][Next]_vars
=============================================================================
