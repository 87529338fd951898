---------------------------- MODULE MCEnc28j60 ----------------------------
(* The Ethernet driver with a small ring.                                   *)
EXTENDS Enc28j60, TLC

NothingSent == tx = "idle" /\ ~txrts /\ eir = {} /\ "TX" \notin eie /\ txReady
               /\ {"expired", "unheard"} \cap mishaps = {}
NothingReceived == faults = 0 /\ packets = <<>> /\ wr = Start

\* Packets and failures are looked at while nothing is sent, the sender's interplay
\* with the receive task and the link without them; and not what follows once the
\* driver is out of step or has sent again too late.
Followed == /\ NothingSent \/ NothingReceived
            /\ ~Astray /\ "late" \notin mishaps
=============================================================================
