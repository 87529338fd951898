------------------------- MODULE MdnsResponderProofs -------------------------
(***************************************************************************)
(* That the responder probes for each name before it tells of it, with one *)
(* probe at a time on each interface, and keeps nothing of a service that  *)
(* was removed, for any number of services and interfaces and every length *)
(* of the action queue.                                                    *)
(***************************************************************************)
EXTENDS MdnsResponder, TLAPS, SequenceTheorems, FiniteSetTheorems, WellFoundedInduction

\* The states of a pcb.
LEMMA PcbStates ==
    ASSUME NEW P, Whole(P)
    PROVE  /\ Probing(P) <=> P.state \in {"probe1", "probe2", "probe3"}
           /\ Announcing(P) <=> P.state \in {"announce1", "announce2", "announce3"}
           /\ ~(Probing(P) /\ Announcing(P))
  BY DEF Whole, Probing, Announcing, Probes, Announcements

\* A pcb Q that has started to probe, for the services A, and was P before.
FirstProbe(Q, P, A, ip) ==
    /\ Whole(Q) /\ Probing(Q)
    /\ Q.state = "probe1" /\ Q.ready = P.ready /\ Q.probeRunning = TRUE
    /\ Q.probing = A /\ Q.probeIp = ip
    /\ \E k \in Q.packets : /\ Q.packets = {k} /\ k.answers = {}
                            /\ k.asks = A \cup HostIf(ip) /\ k.others = A \cup HostIf(ip)
    /\ Q.probed = [s \in Services |-> IF s \in A THEN 0 ELSE P.probed[s]]
    /\ (P.stray \/ ~P.ready) => Q.stray

AlsoFor(P, S) == IF Probing(P) THEN S \cup P.probing ELSE S

\* A new probe: one packet, which asks for all that is probed for.
LEMMA InitProbeWhole ==
    ASSUME NEW P, Whole(P), NEW S \in SUBSET Services, NEW ip \in BOOLEAN
    PROVE  FirstProbe(InitProbe(P, S, ip), P, AlsoFor(P, S), P.probeIp \/ ip)
<1> DEFINE all == IF Probing(P) THEN S \cup P.probing ELSE S
           withIp == P.probeIp \/ ip
           Q == InitProbe(P, S, ip)
           names == all \cup HostIf(withIp)
           k == NewPacket({}, names, {}, names)
           counts == [s \in Services |-> IF s \in all THEN 0 ELSE P.probed[s]]
           odd == P.stray \/ ~P.ready
<1>1. /\ all \subseteq Services /\ withIp \in BOOLEAN /\ names \subseteq Services \cup {Host}
      /\ odd \in BOOLEAN
  BY DEF HostIf, Whole
<1>2. /\ k = [id |-> k.id, asks |-> k.asks, answers |-> k.answers,
              others |-> k.others, queued |-> k.queued]
      /\ k.asks = names /\ k.answers = {} /\ k.others = names
  BY DEF NewPacket
<1>3. counts \in [Services -> 0 .. 3]
  BY DEF Whole
<1>4. Q = [P EXCEPT !.packets = {k}, !.state = "probe1", !.probing = all, !.probeIp = withIp,
                    !.probeRunning = TRUE, !.probed = counts, !.stray = odd]
  BY DEF InitProbe, Whole
<1> HIDE DEF k, counts, odd, names, all, withIp, Q
<1>5. Q = [state |-> "probe1", ready |-> P.ready, probing |-> all, probeIp |-> withIp,
           probeRunning |-> TRUE, packets |-> {k}, probed |-> counts, stray |-> odd]
  BY <1>1, <1>4 DEF Whole
<1>6. /\ Q.state = "probe1" /\ Q.ready = P.ready /\ Q.probing = all /\ Q.probeIp = withIp
      /\ Q.probeRunning = TRUE /\ Q.packets = {k} /\ Q.probed = counts /\ Q.stray = odd
  BY <1>1, <1>5
<1>7. Probing(Q)
  BY <1>6 DEF Probing, Probes
<1>8. Whole(Q)
  BY <1>1, <1>2, <1>3, <1>5, <1>6 DEF Whole, Probes, Names
<1>9. \E j \in Q.packets : /\ Q.packets = {j} /\ j.answers = {}
                          /\ j.asks = names /\ j.others = names
  BY <1>2, <1>6
<1>10. (P.stray \/ ~P.ready) => Q.stray
  BY <1>6 DEF odd
<1>11. FirstProbe(Q, P, all, withIp)
  BY <1>6, <1>7, <1>8, <1>9, <1>10 DEF FirstProbe, counts, names
<1> QED  BY <1>11 DEF AlsoFor, all, withIp, Q

LEMMA InitProbeInv ==
    ASSUME NEW P, Whole(P), P.ready,
           NEW V \in SUBSET Services, NEW S \in SUBSET V, NEW ip \in BOOLEAN, S # {} \/ ip,
           Probing(P) => P.probing \subseteq V,
           AllAlike => \A s \in V \ S : P.probed[s] = 3 \/ (Probing(P) /\ s \in P.probing)
    PROVE  PcbInv(InitProbe(P, S, ip), V) /\ (P.stray => InitProbe(P, S, ip).stray)
<1> DEFINE all == IF Probing(P) THEN S \cup P.probing ELSE S
           withIp == P.probeIp \/ ip
           names == all \cup HostIf(withIp)
           counts == [s \in Services |-> IF s \in all THEN 0 ELSE P.probed[s]]
           Q == InitProbe(P, S, ip)
<1>0. Host \notin Services
  BY ResponderAssumption
<1>1. /\ all \subseteq V /\ withIp \in BOOLEAN /\ names # {}
      /\ names \cap Services \subseteq V
  BY <1>0 DEF HostIf, Whole
<1>2. counts \in [Services -> 0 .. 3]
  BY DEF Whole
<1>3. FirstProbe(Q, P, all, withIp)
  <2>1. S \in SUBSET Services
    OBVIOUS
  <2>2. FirstProbe(InitProbe(P, S, ip), P, AlsoFor(P, S), P.probeIp \/ ip)
    BY <2>1, InitProbeWhole
  <2> QED  BY <2>2 DEF AlsoFor
<1>4. AllAlike => \A s \in V : s \in all \/ counts[s] = 3
  BY <1>1
<1>5. \A s \in all : counts[s] >= 0
  BY <1>1, <1>2
<1> HIDE DEF Q, all, withIp
<1>6. Orderly(Q)
  BY <1>1, <1>3 DEF Orderly, FirstProbe
<1>7. Within(Q, V)
  BY <1>1, <1>3 DEF Within, FirstProbe
<1>8. Counted(Q, V)
  BY <1>3, <1>4, <1>5 DEF Counted, FirstProbe
<1> QED  BY <1>3, <1>6, <1>7, <1>8 DEF PcbInv, FirstProbe, Q

\* What a probe that was forgotten was for is no longer probed for.
LEMMA ForgetProbeWhole ==
    ASSUME NEW P, Whole(P)
    PROVE  /\ Whole(ForgetProbe(P))
           /\ ForgetProbe(P).probing = {} /\ ForgetProbe(P).ready = P.ready
           /\ ForgetProbe(P).probed = P.probed
<1> DEFINE Q == ForgetProbe(P)
<1>1. Q = [P EXCEPT !.probing = {}, !.probeRunning = FALSE, !.stray = FALSE]
  BY DEF ForgetProbe
<1> HIDE DEF Q
<1>2. Q = [state |-> P.state, ready |-> P.ready, probing |-> {}, probeIp |-> P.probeIp,
           probeRunning |-> FALSE, packets |-> P.packets, probed |-> P.probed, stray |-> FALSE]
  BY <1>1 DEF Whole
<1>3. Whole(Q)
  BY <1>2 DEF Whole
<1> QED  BY <1>2, <1>3 DEF Q

\* A pcb that is shut down is in order, whatever the services.
LEMMA DownInv ==
    ASSUME NEW p, NEW V, NEW st \in {"off", "dup"}
    PROVE  PcbInv([Down(p) EXCEPT !.state = st], V)
<1> DEFINE Q == [Down(p) EXCEPT !.state = st]
<1>1. Q = [state |-> st, ready |-> FALSE, probing |-> {}, probeIp |-> FALSE,
           probeRunning |-> FALSE, packets |-> {}, probed |-> [s \in Services |-> 0], stray |-> FALSE]
  <2> DEFINE zero == [s \in Services |-> 0]
             no == FALSE
             D == Down(p)
  <2>1. D = [state |-> "off", ready |-> no, probing |-> {}, probeIp |-> no,
             probeRunning |-> no, packets |-> {}, probed |-> zero, stray |-> no]
    BY DEF Down
  <2>2. no \in BOOLEAN
    OBVIOUS
  <2> HIDE DEF D, zero, no
  <2>3. [D EXCEPT !.state = st]
            = [state |-> st, ready |-> no, probing |-> {}, probeIp |-> no,
               probeRunning |-> no, packets |-> {}, probed |-> zero, stray |-> no]
    BY <2>1, <2>2
  <2> QED  BY <2>3 DEF D, zero, no
<1>2. ~Probing(Q)
  BY <1>1 DEF Probing, Probes
<1> HIDE DEF Q
<1>3. Whole(Q)
  BY <1>1 DEF Whole
<1>4. Orderly(Q) /\ Within(Q, V) /\ Counted(Q, V)
  BY <1>1, <1>2 DEF Orderly, Within, Counted
<1> QED  BY <1>3, <1>4 DEF PcbInv, Q

\* An announcement that is due next, or a new one, has more services in it; a
\* probe begins again with them.
LEMMA AnnounceInv ==
    ASSUME NEW V \in SUBSET Services, NEW P, PcbInv(P, V), NEW S \in SUBSET V, NEW ip \in BOOLEAN,
           S # {} \/ ip, NEW first
    PROVE  /\ PcbInv(Announce(P, S, ip, first), V)
           /\ P.stray => Announce(P, S, ip, first).stray
<1> USE DEF PcbInv
<1>0. Host \notin Services /\ Whole(P)
  BY ResponderAssumption
<1>1. CASE ~P.ready
  BY <1>1 DEF Announce
<1>2. CASE P.ready /\ Probing(P)
  <2>1. Announce(P, S, ip, first) = InitProbe(P, S, ip)
    BY <1>0, <1>2 DEF Announce, Whole, Probing, Probes, Announcing, Announcements
  <2>2. /\ Probing(P) => P.probing \subseteq V
        /\ AllAlike => \A s \in V \ S : P.probed[s] = 3 \/ (Probing(P) /\ s \in P.probing)
    BY <1>2 DEF Within, Counted
  <2>3. PcbInv(InitProbe(P, S, ip), V) /\ (P.stray => InitProbe(P, S, ip).stray)
    BY <1>0, <1>2, <2>2, InitProbeInv
  <2> QED  BY <1>2, <2>1, <2>3 DEF Whole
<1>3. CASE P.ready /\ Announcing(P) /\ first \in P.packets
  <2> DEFINE k == [first EXCEPT !.answers = @ \cup S \cup HostIf(ip)]
             Q == Announce(P, S, ip, first)
  <2>1. Q = [P EXCEPT !.state = "announce1", !.packets = (@ \ {first}) \cup {k}]
    BY <1>0, <1>3, PcbStates DEF Announce
  <2>2. /\ k = [id |-> k.id, asks |-> k.asks, answers |-> k.answers,
                others |-> k.others, queued |-> k.queued]
        /\ k.asks = first.asks /\ k.others = first.others
        /\ k.answers = first.answers \cup S \cup HostIf(ip)
    <3>1. first = [id |-> first.id, asks |-> first.asks, answers |-> first.answers,
                   others |-> first.others, queued |-> first.queued]
      BY <1>0, <1>3 DEF Whole
    <3>2. k = [id |-> first.id, asks |-> first.asks, answers |-> first.answers \cup S \cup HostIf(ip),
               others |-> first.others, queued |-> first.queued]
      BY <3>1
    <3> HIDE DEF k
    <3> QED  BY <3>2
  <2>3. first.asks = {} /\ ~Probing(P)
    BY <1>0, <1>3, PcbStates DEF Orderly
  <2>4. k.answers \subseteq Services \cup {Host} /\ k.answers \cap Services \subseteq V
    BY <1>0, <1>3, <2>2 DEF Whole, Within, HostIf, Names
  <2> HIDE DEF Q, k
  <2>5. Q = [state |-> "announce1", ready |-> P.ready, probing |-> P.probing,
             probeIp |-> P.probeIp, probeRunning |-> P.probeRunning,
             packets |-> (P.packets \ {first}) \cup {k}, probed |-> P.probed, stray |-> P.stray]
    BY <1>0, <2>1 DEF Whole
  <2>6. ~Probing(Q)
    BY <2>5 DEF Probing, Probes
  <2>7. Whole(Q)
    BY <1>0, <1>3, <2>2, <2>4, <2>5 DEF Whole, Names, Announcements
  <2>8. Orderly(Q)
    BY <1>3, <2>2, <2>3, <2>5, <2>6 DEF Orderly
  <2>9. Within(Q, V)
    BY <1>3, <2>2, <2>4, <2>5 DEF Within
  <2>10. Counted(Q, V)
    BY <2>3, <2>5, <2>6 DEF Counted
  <2> QED  BY <2>5, <2>7, <2>8, <2>9, <2>10 DEF Q
<1>4. CASE P.ready /\ P.state = "running"
  <2> DEFINE k == NewPacket(P.packets, {}, S, HostIf(ip))
             Q == Announce(P, S, ip, first)
  <2>0. ~Probing(P) /\ ~Announcing(P)
    BY <1>0, <1>4, PcbStates
  <2>1. Q = [P EXCEPT !.state = "announce1", !.packets = @ \cup {k}]
    BY <1>0, <1>4, <2>0 DEF Announce, Whole
  <2>2. /\ k = [id |-> k.id, asks |-> k.asks, answers |-> k.answers,
                others |-> k.others, queued |-> k.queued]
        /\ k.asks = {} /\ k.others = HostIf(ip) /\ k.answers = S
    BY DEF NewPacket
  <2>3. k.others \subseteq {Host}
    BY <2>2 DEF HostIf
  <2> HIDE DEF Q, k
  <2>5. Q = [state |-> "announce1", ready |-> P.ready, probing |-> P.probing,
             probeIp |-> P.probeIp, probeRunning |-> P.probeRunning,
             packets |-> P.packets \cup {k}, probed |-> P.probed, stray |-> P.stray]
    BY <1>0, <2>1 DEF Whole
  <2>6. ~Probing(Q)
    BY <2>5 DEF Probing, Probes
  <2>7. Whole(Q)
    BY <1>0, <2>2, <2>3, <2>5 DEF Whole, Names, Announcements
  <2>8. Orderly(Q)
    BY <1>4, <2>0, <2>2, <2>5, <2>6 DEF Orderly
  <2>9. Within(Q, V)
    BY <1>0, <2>2, <2>3, <2>5 DEF Within
  <2>10. Counted(Q, V)
    BY <2>0, <2>5, <2>6 DEF Counted
  <2> QED  BY <2>5, <2>7, <2>8, <2>9, <2>10 DEF Q
<1>5. CASE P.ready /\ Announcing(P) /\ first \notin P.packets
  <2>1. Announce(P, S, ip, first) = P
    BY <1>0, <1>5, PcbStates DEF Announce, Announcing, Announcements
  <2> QED  BY <2>1
<1> QED
  BY <1>0, <1>1, <1>2, <1>3, <1>4, <1>5, PcbStates DEF Orderly, Whole, Probes, Announcements

-----------------------------------------------------------------------------
(* What becomes of a pcb whose packets are sent, posted, added or removed.   *)

\* A packet is a record of its fields.
Packed(k) ==
    /\ k = [id |-> k.id, asks |-> k.asks, answers |-> k.answers,
            others |-> k.others, queued |-> k.queued]
    /\ k.asks \cup k.answers \cup k.others \subseteq Services \cup {Host}

\* Each service of V is being probed for or has been.
Known(V, A, counts) == AllAlike => \A s \in V : s \in A \/ counts[s] = 3

\* A pcb that is up and does not probe has packets without questions.
LEMMA QuietInv ==
    ASSUME NEW V \in SUBSET Services, NEW st \in {"running", "announce1", "announce2", "announce3"},
           NEW ip \in BOOLEAN, NEW yes, yes = TRUE, NEW no, no = FALSE,
           NEW K, NEW counts \in [Services -> 0 .. 3], NEW odd \in BOOLEAN,
           \A k \in K : Packed(k) /\ k.asks = {} /\ (k.answers \cup k.others) \cap Services \subseteq V,
           Known(V, {}, counts),
           NEW Q, Q = [state |-> st, ready |-> yes, probing |-> {}, probeIp |-> ip,
                       probeRunning |-> no, packets |-> K, probed |-> counts, stray |-> odd]
    PROVE  PcbInv(Q, V)
<1>1. /\ Q.state = st /\ Q.ready = TRUE /\ Q.probing = {} /\ Q.probeIp = ip
      /\ Q.probeRunning = FALSE /\ Q.packets = K /\ Q.probed = counts /\ Q.stray = odd
      /\ Q = [state |-> Q.state, ready |-> Q.ready, probing |-> Q.probing,
              probeIp |-> Q.probeIp, probeRunning |-> Q.probeRunning,
              packets |-> Q.packets, probed |-> Q.probed, stray |-> Q.stray]
  OBVIOUS
<1>2. ~Probing(Q)
  BY <1>1 DEF Probing, Probes
<1>3. Whole(Q)
  <2>1. Q.state \in {"off", "dup", "running"} \cup Probes \cup Announcements
    BY <1>1 DEF Announcements
  <2> QED  BY <1>1, <2>1 DEF Whole, Names, Packed
<1>4. Orderly(Q)
  BY <1>1, <1>2 DEF Orderly
<1>5. Within(Q, V)
  BY <1>1 DEF Within
<1>6. Counted(Q, V)
  BY <1>1, <1>2 DEF Counted, Known
<1> QED  BY <1>3, <1>4, <1>5, <1>6 DEF PcbInv

\* How many probes have been sent.
Sent(st) == CASE st = "probe1" -> 0 [] st = "probe2" -> 1 [] OTHER -> 2

\* A pcb that probes has one packet, which asks for what it probes for.
LEMMA BusyInv ==
    ASSUME NEW V \in SUBSET Services, NEW st \in {"probe1", "probe2", "probe3"},
           NEW ip \in BOOLEAN, NEW yes, yes = TRUE, NEW A \in SUBSET V, A \cup HostIf(ip) # {},
           NEW k, Packed(k), k.asks = A \cup HostIf(ip), k.others = A \cup HostIf(ip),
           k.answers = {}, NEW counts \in [Services -> 0 .. 3], NEW odd \in BOOLEAN,
           \A s \in A : counts[s] >= Sent(st),
           Known(V, A, counts),
           NEW Q, Q = [state |-> st, ready |-> yes, probing |-> A, probeIp |-> ip,
                       probeRunning |-> yes, packets |-> {k}, probed |-> counts, stray |-> odd]
    PROVE  PcbInv(Q, V)
<1>1. /\ Q.state = st /\ Q.ready = TRUE /\ Q.probing = A /\ Q.probeIp = ip
      /\ Q.probeRunning = TRUE /\ Q.packets = {k} /\ Q.probed = counts /\ Q.stray = odd
      /\ Q = [state |-> Q.state, ready |-> Q.ready, probing |-> Q.probing,
              probeIp |-> Q.probeIp, probeRunning |-> Q.probeRunning,
              packets |-> Q.packets, probed |-> Q.probed, stray |-> Q.stray]
  OBVIOUS
<1>2. Probing(Q)
  BY <1>1 DEF Probing, Probes
<1>3. Whole(Q)
  <2>1. Q.state \in {"off", "dup", "running"} \cup Probes \cup Announcements
    BY <1>1 DEF Probes
  <2> QED  BY <1>1, <2>1 DEF Whole, Names, Packed
<1>4. Orderly(Q)
  BY <1>1, <1>2 DEF Orderly
<1>5. Within(Q, V)
  BY <1>1, ResponderAssumption DEF Within, HostIf
<1>6. Counted(Q, V)
  BY <1>1, <1>2 DEF Counted, Sent, Known
<1> QED  BY <1>3, <1>4, <1>5, <1>6 DEF PcbInv

\* What PcbInv says of a pcb that probes, and of one that is up and does not.
LEMMA Busy ==
    ASSUME NEW V, NEW P, PcbInv(P, V), P.ready, Probing(P)
    PROVE  /\ P.state \in {"probe1", "probe2", "probe3"}
           /\ P.probeRunning = TRUE /\ P.probing \subseteq V
           /\ P.probing \cup HostIf(P.probeIp) # {}
           /\ \E k \in P.packets : /\ P.packets = {k} /\ Packed(k) /\ k.answers = {}
                                   /\ k.asks = P.probing \cup HostIf(P.probeIp)
                                   /\ k.others = P.probing \cup HostIf(P.probeIp)
           /\ \A s \in P.probing : P.probed[s] >= Sent(P.state)
           /\ Known(V, P.probing, P.probed)
<1>1. P.state \in {"probe1", "probe2", "probe3"} /\ P.probeRunning = TRUE
  BY DEF PcbInv, Probing, Probes, Orderly, Whole
<1>2. \A k \in P.packets : Packed(k)
  BY DEF PcbInv, Whole, Packed, Names
<1>3. /\ P.probing \cup HostIf(P.probeIp) # {}
      /\ \E k \in P.packets : /\ P.packets = {k} /\ k.answers = {}
                              /\ k.asks = P.probing \cup HostIf(P.probeIp)
                              /\ k.others = P.probing \cup HostIf(P.probeIp)
  BY DEF PcbInv, Orderly
<1>4. /\ P.probing \subseteq V
      /\ \A s \in P.probing : P.probed[s] >= Sent(P.state)
      /\ Known(V, P.probing, P.probed)
  BY DEF PcbInv, Within, Counted, Sent, Known
<1> QED  BY <1>1, <1>2, <1>3, <1>4

LEMMA Quiet ==
    ASSUME NEW V, NEW P, PcbInv(P, V), P.ready, ~Probing(P)
    PROVE  /\ P.state \in {"running", "announce1", "announce2", "announce3"}
           /\ P.probeRunning = FALSE /\ P.probing = {}
           /\ \A k \in P.packets : /\ Packed(k) /\ k.asks = {}
                                   /\ (k.answers \cup k.others) \cap Services \subseteq V
           /\ Known(V, {}, P.probed)
<1>1. P.state \in {"running", "announce1", "announce2", "announce3"}
  BY DEF PcbInv, Probing, Probes, Announcements, Orderly, Whole
<1>2. P.probeRunning = FALSE /\ P.probing = {} /\ \A k \in P.packets : k.asks = {}
  BY DEF PcbInv, Orderly, Whole
<1>3. \A k \in P.packets : Packed(k) /\ (k.answers \cup k.others) \cap Services \subseteq V
  BY DEF PcbInv, Whole, Within, Packed, Names
<1>4. Known(V, {}, P.probed)
  BY <1>2 DEF PcbInv, Counted, Known
<1> QED  BY <1>1, <1>2, <1>3, <1>4

\* The record a pcb is.
LEMMA Record ==
    ASSUME NEW V, NEW P, PcbInv(P, V)
    PROVE  /\ P = [state |-> P.state, ready |-> P.ready, probing |-> P.probing,
                   probeIp |-> P.probeIp, probeRunning |-> P.probeRunning,
                   packets |-> P.packets, probed |-> P.probed, stray |-> P.stray]
           /\ P.ready \in BOOLEAN /\ P.probeIp \in BOOLEAN /\ P.probeRunning \in BOOLEAN
           /\ P.probed \in [Services -> 0 .. 3] /\ P.stray \in BOOLEAN
           /\ ~P.ready => /\ P.packets = {} /\ P.probing = {} /\ P.probeRunning = FALSE
                          /\ P.state \in {"off", "dup"} /\ ~Probing(P) /\ ~Announcing(P)
<1>1. Whole(P)
  BY DEF PcbInv
<1>2. ASSUME ~P.ready
      PROVE  /\ P.packets = {} /\ P.probing = {} /\ P.probeRunning = FALSE
             /\ P.state \in {"off", "dup"} /\ ~Probing(P) /\ ~Announcing(P)
  <2>1. P.state \in {"off", "dup"} /\ P.packets = {}
    BY <1>2 DEF PcbInv, Orderly
  <2>2. ~Probing(P) /\ ~Announcing(P)
    BY <2>1 DEF Probing, Announcing, Probes, Announcements
  <2> QED  BY <1>1, <2>1, <2>2 DEF PcbInv, Orderly, Whole
<1> QED  BY <1>1, <1>2 DEF Whole

\* A packet that is marked, or no longer marked, as posted.
LEMMA Requeued ==
    ASSUME NEW k, Packed(k), NEW b
    PROVE  /\ Packed([k EXCEPT !.queued = b])
           /\ [k EXCEPT !.queued = b].asks = k.asks
           /\ [k EXCEPT !.queued = b].answers = k.answers
           /\ [k EXCEPT !.queued = b].others = k.others
<1> DEFINE j == [k EXCEPT !.queued = b]
<1>1. j = [id |-> k.id, asks |-> k.asks, answers |-> k.answers, others |-> k.others, queued |-> b]
  BY DEF Packed
<1> HIDE DEF j
<1> QED  BY <1>1 DEF Packed, j

\* What is done to the packets and counters of a pcb.
LEMMA WithPackets ==
    ASSUME NEW V, NEW P, PcbInv(P, V), NEW K
    PROVE  [P EXCEPT !.packets = K]
             = [state |-> P.state, ready |-> P.ready, probing |-> P.probing,
                probeIp |-> P.probeIp, probeRunning |-> P.probeRunning,
                packets |-> K, probed |-> P.probed, stray |-> P.stray]
<1>1. P = [state |-> P.state, ready |-> P.ready, probing |-> P.probing,
           probeIp |-> P.probeIp, probeRunning |-> P.probeRunning,
           packets |-> P.packets, probed |-> P.probed, stray |-> P.stray]
  BY Record
<1>2. P.probeIp \in BOOLEAN /\ P.ready \in BOOLEAN
  BY Record
<1> QED  BY <1>1, <1>2

\* Every packet of a pcb is a record; a pcb that has one is up.
LEMMA ItsPackets ==
    ASSUME NEW V, NEW P, PcbInv(P, V), NEW k \in P.packets
    PROVE  P.ready /\ Packed(k)
<1>1. P.ready
  <2>1. ~P.ready => P.packets = {}
    BY Record
  <2> QED  BY <2>1
<1>2. CASE ~Probing(P)
  BY <1>1, <1>2, Quiet
<1>3. CASE Probing(P)
  <2>1. PICK j \in P.packets : P.packets = {j} /\ Packed(j)
    BY <1>1, <1>3, Busy
  <2>2. k = j
    BY <2>1
  <2> QED  BY <1>1, <2>1, <2>2
<1> QED  BY <1>2, <1>3

\* A pcb that is up, whose packet k is replaced by one with the same names.
LEMMA RequeueInv ==
    ASSUME NEW V \in SUBSET Services, NEW P, PcbInv(P, V),
           NEW k \in P.packets, NEW b
    PROVE  LET Q == [P EXCEPT !.packets = (@ \ {k}) \cup {[k EXCEPT !.queued = b]}]
           IN  PcbInv(Q, V) /\ Q.stray = P.stray
<1> DEFINE j == [k EXCEPT !.queued = b]
           K == (P.packets \ {k}) \cup {j}
           Q == [P EXCEPT !.packets = K]
<1>0. P.ready /\ P.ready = TRUE /\ Packed(k)
  BY ItsPackets, Record
<1>1. Packed(j) /\ j.asks = k.asks /\ j.answers = k.answers /\ j.others = k.others
  BY <1>0, Requeued
<1> HIDE DEF j
<1>2. Q = [state |-> P.state, ready |-> P.ready, probing |-> P.probing,
           probeIp |-> P.probeIp, probeRunning |-> P.probeRunning,
           packets |-> K, probed |-> P.probed, stray |-> P.stray]
  BY WithPackets
<1>3. P.probeIp \in BOOLEAN /\ P.probed \in [Services -> 0 .. 3] /\ P.stray \in BOOLEAN
  BY Record
<1>4. CASE Probing(P)
  <2>1. PICK i \in P.packets : /\ P.packets = {i} /\ Packed(i) /\ i.answers = {}
                               /\ i.asks = P.probing \cup HostIf(P.probeIp)
                               /\ i.others = P.probing \cup HostIf(P.probeIp)
    BY <1>0, <1>4, Busy
  <2>2. i = k
    BY <2>1
  <2>3. K = {j} /\ j.answers = {} /\ j.asks = P.probing \cup HostIf(P.probeIp)
        /\ j.others = P.probing \cup HostIf(P.probeIp)
    BY <1>1, <2>1, <2>2
  <2>4. /\ P.state \in {"probe1", "probe2", "probe3"}
        /\ P.probeRunning = TRUE /\ P.probing \in SUBSET V
        /\ P.probing \cup HostIf(P.probeIp) # {}
        /\ \A s \in P.probing : P.probed[s] >= Sent(P.state)
        /\ Known(V, P.probing, P.probed)
    BY <1>0, <1>4, Busy
  <2>5. Q = [state |-> P.state, ready |-> P.ready, probing |-> P.probing,
             probeIp |-> P.probeIp, probeRunning |-> P.ready,
             packets |-> {j}, probed |-> P.probed, stray |-> P.stray]
    BY <1>0, <1>2, <2>3, <2>4
  <2> HIDE DEF K, Q
  <2>6. PcbInv(Q, V)
    BY <1>0, <1>1, <1>3, <2>3, <2>4, <2>5, BusyInv
  <2> QED  BY <1>2, <2>6 DEF Q, K, j
<1>5. CASE ~Probing(P)
  <2>1. /\ P.state \in {"running", "announce1", "announce2", "announce3"}
        /\ P.probeRunning = FALSE /\ P.probing = {}
        /\ \A i \in P.packets : /\ Packed(i) /\ i.asks = {}
                                /\ (i.answers \cup i.others) \cap Services \subseteq V
        /\ Known(V, {}, P.probed)
    BY <1>0, <1>5, Quiet
  <2>2. \A i \in K : /\ Packed(i) /\ i.asks = {}
                     /\ (i.answers \cup i.others) \cap Services \subseteq V
    BY <1>1, <2>1
  <2>3. Q = [state |-> P.state, ready |-> P.ready, probing |-> {},
             probeIp |-> P.probeIp, probeRunning |-> P.probeRunning,
             packets |-> K, probed |-> P.probed, stray |-> P.stray]
    BY <1>2, <2>1
  <2> HIDE DEF K, Q
  <2>4. PcbInv(Q, V)
    BY <1>0, <1>3, <2>1, <2>2, <2>3, QuietInv
  <2> QED  BY <1>2, <2>4 DEF Q, K, j
<1> QED  BY <1>4, <1>5

LEMMA WithPacketsAndState ==
    ASSUME NEW V, NEW P, PcbInv(P, V), NEW K, NEW st
    PROVE  [P EXCEPT !.packets = K, !.state = st]
             = [state |-> st, ready |-> P.ready, probing |-> P.probing,
                probeIp |-> P.probeIp, probeRunning |-> P.probeRunning,
                packets |-> K, probed |-> P.probed, stray |-> P.stray]
<1>1. P = [state |-> P.state, ready |-> P.ready, probing |-> P.probing,
           probeIp |-> P.probeIp, probeRunning |-> P.probeRunning,
           packets |-> P.packets, probed |-> P.probed, stray |-> P.stray]
  BY Record
<1>2. DOMAIN P = {"state", "ready", "probing", "probeIp", "probeRunning", "packets", "probed", "stray"}
  BY <1>1
<1> DEFINE Q == [P EXCEPT !.packets = K, !.state = st]
<1>3. Q = [f \in DOMAIN P |-> IF f = "state" THEN st ELSE IF f = "packets" THEN K ELSE P[f]]
  BY <1>2
<1> QED  BY <1>2, <1>3

\* A packet with new answers is added.
LEMMA AddedInv ==
    ASSUME NEW V \in SUBSET Services, NEW P, PcbInv(P, V), P.ready, ~Probing(P),
           NEW K \in SUBSET P.packets, NEW st \in {"running", "announce1", "announce2", "announce3"},
           NEW k, Packed(k), k.asks = {}, (k.answers \cup k.others) \cap Services \subseteq V
    PROVE  LET Q == [P EXCEPT !.packets = K \cup {k}, !.state = st]
           IN  PcbInv(Q, V) /\ Q.stray = P.stray
<1> DEFINE L == K \cup {k}
           Q == [P EXCEPT !.packets = L, !.state = st]
<1>0. /\ P.ready = TRUE /\ P.probeIp \in BOOLEAN /\ P.probed \in [Services -> 0 .. 3]
      /\ P.stray \in BOOLEAN
  BY Record
<1>1. /\ P.probeRunning = FALSE /\ P.probing = {}
      /\ \A i \in P.packets : /\ Packed(i) /\ i.asks = {}
                              /\ (i.answers \cup i.others) \cap Services \subseteq V
      /\ Known(V, {}, P.probed)
  BY Quiet
<1>2. \A i \in L : /\ Packed(i) /\ i.asks = {}
                   /\ (i.answers \cup i.others) \cap Services \subseteq V
  BY <1>1
<1> HIDE DEF L
<1>3. Q = [state |-> st, ready |-> P.ready, probing |-> {},
           probeIp |-> P.probeIp, probeRunning |-> P.probeRunning,
           packets |-> L, probed |-> P.probed, stray |-> P.stray]
  <2>3. Q = [state |-> st, ready |-> P.ready, probing |-> P.probing,
             probeIp |-> P.probeIp, probeRunning |-> P.probeRunning,
             packets |-> L, probed |-> P.probed, stray |-> P.stray]
    BY WithPacketsAndState
  <2> QED  BY <1>1, <2>3
<1> HIDE DEF Q
<1>4. PcbInv(Q, V)
  BY <1>0, <1>1, <1>2, <1>3, QuietInv
<1> QED  BY <1>3, <1>4 DEF Q, L

\* A pcb that is down is in order whatever the services.
LEMMA DownStays ==
    ASSUME NEW V, NEW W, NEW P, PcbInv(P, V), ~P.ready
    PROVE  PcbInv(P, W)
<1>1. P.packets = {} /\ P.probing = {} /\ ~Probing(P)
  BY Record
<1> QED  BY <1>1 DEF PcbInv, Within, Counted

\* What a packet still asks for when a service is taken out of it.
StillAsked(P, k, s) ==
    IF P.ready /\ Probing(P) /\ s \in P.probing THEN k.asks \ {s} ELSE k.asks

\* A packet from which a service is taken out.
LEMMA Stripped ==
    ASSUME NEW P, NEW s, NEW k, Packed(k)
    PROVE  LET j == Strip(P, k, s)
           IN  /\ Packed(j) /\ j.answers = k.answers \ {s} /\ j.others = k.others \ {s}
               /\ j.asks = StillAsked(P, k, s)
<1> DEFINE j == Strip(P, k, s)
           asks == StillAsked(P, k, s)
<1>1. j = [k EXCEPT !.answers = k.answers \ {s}, !.others = k.others \ {s}, !.asks = asks]
  BY DEF Strip, Packed, StillAsked
<1>2. asks \subseteq k.asks
  BY DEF StillAsked
<1> HIDE DEF j, asks
<1>3. j = [id |-> k.id, asks |-> asks, answers |-> k.answers \ {s},
           others |-> k.others \ {s}, queued |-> k.queued]
  BY <1>1 DEF Packed
<1>4. Packed(j) /\ j.answers = k.answers \ {s} /\ j.others = k.others \ {s} /\ j.asks = asks
  BY <1>2, <1>3 DEF Packed
<1> QED  BY <1>4 DEF j, asks

\* What is left of the packets of a pcb, and of its state, when a service is
\* taken out of them.
LEMMA RemoveScheduledInv ==
    ASSUME NEW V \in SUBSET Services, NEW P, PcbInv(P, V), NEW s \in Services
    PROVE  /\ PcbInv(RemoveScheduled(P, s), V \ {s})
           /\ RemoveScheduled(P, s).stray = P.stray
<1> DEFINE W == V \ {s}
           left == {k \in {Strip(P, j, s) : j \in P.packets} : ~Empty(k)}
           over == \/ Probing(P) /\ P.probing = {s} /\ ~P.probeIp
                   \/ Announcing(P) /\ \E k \in P.packets : k.answers = {s}
           touched == P.ready /\ P.packets # {}
           probing == IF touched /\ Probing(P) THEN P.probing \ {s} ELSE P.probing
           running == P.probeRunning /\ ~(touched /\ Probing(P) /\ over)
           st == IF touched /\ over THEN "running" ELSE P.state
           Q == RemoveScheduled(P, s)
<1>0. P = [state |-> P.state, ready |-> P.ready, probing |-> P.probing,
           probeIp |-> P.probeIp, probeRunning |-> P.probeRunning,
           packets |-> P.packets, probed |-> P.probed, stray |-> P.stray]
  BY Record
<1>1. /\ P.ready \in BOOLEAN /\ P.probeIp \in BOOLEAN /\ P.probeRunning \in BOOLEAN
      /\ P.probed \in [Services -> 0 .. 3] /\ P.stray \in BOOLEAN
      /\ ~P.ready => /\ P.packets = {} /\ P.probing = {} /\ P.probeRunning = FALSE
                     /\ P.state \in {"off", "dup"} /\ ~Probing(P) /\ ~Announcing(P)
  BY Record
<1>2. Q = [P EXCEPT !.packets = left, !.probing = probing, !.probeRunning = running, !.state = st]
  BY <1>0 DEF RemoveScheduled
<1>3. running \in BOOLEAN
  BY <1>1
<1>4. Q = [state |-> st, ready |-> P.ready, probing |-> probing, probeIp |-> P.probeIp,
           probeRunning |-> running, packets |-> left, probed |-> P.probed, stray |-> P.stray]
  <2> HIDE DEF Q, left, probing, running, st
  <2> QED  BY <1>0, <1>1, <1>2, <1>3
<1>5. CASE ~P.ready
  <2>1. left = {} /\ probing = P.probing /\ running = P.probeRunning /\ st = P.state
    BY <1>1, <1>5
  <2> HIDE DEF Q, left, probing, running, st
  <2>2. Q = P
    BY <1>0, <1>1, <1>4, <1>5, <2>1
  <2>3. PcbInv(P, W)
    BY <1>5, DownStays
  <2> QED  BY <2>2, <2>3 DEF Q
<1>6. CASE P.ready /\ Probing(P)
  <2>1. PICK k \in P.packets : /\ P.packets = {k} /\ Packed(k) /\ k.answers = {}
                               /\ k.asks = P.probing \cup HostIf(P.probeIp)
                               /\ k.others = P.probing \cup HostIf(P.probeIp)
    BY <1>6, Busy
  <2>2. /\ P.state \in {"probe1", "probe2", "probe3"}
        /\ P.probeRunning = TRUE /\ P.probing \in SUBSET V
        /\ P.probing \cup HostIf(P.probeIp) # {}
        /\ \A t \in P.probing : P.probed[t] >= Sent(P.state)
        /\ Known(V, P.probing, P.probed)
    BY <1>6, Busy
  <2> DEFINE j == Strip(P, k, s)
             A == P.probing \ {s}
  <2>3. Packed(j) /\ j.answers = {} /\ j.others = k.others \ {s}
        /\ j.asks = IF s \in P.probing THEN k.asks \ {s} ELSE k.asks
    <3>1. /\ Packed(j) /\ j.answers = k.answers \ {s} /\ j.others = k.others \ {s}
          /\ j.asks = StillAsked(P, k, s)
      BY <2>1, Stripped
    <3> HIDE DEF j
    <3> QED  BY <1>6, <2>1, <3>1 DEF StillAsked
  <2>4. Host # s /\ HostIf(P.probeIp) \subseteq {Host}
    BY ResponderAssumption DEF HostIf
  <2>5. j.asks = A \cup HostIf(P.probeIp) /\ j.others = A \cup HostIf(P.probeIp)
    BY <2>1, <2>3, <2>4
  <2>6. ~Announcing(P) /\ touched
    BY <1>6, <2>1 DEF Probing, Announcing, Probes, Announcements
  <2>7. probing = A /\ (over <=> P.probing = {s} /\ ~P.probeIp)
    BY <1>6, <2>6
  <2>8. Known(W, A, P.probed) /\ A \in SUBSET W
    BY <2>2 DEF Known
  <2>9. CASE P.probing = {s} /\ ~P.probeIp
    <3>1. A = {} /\ st = "running" /\ running = FALSE
      BY <1>6, <2>6, <2>7, <2>9
    <3>2. Empty(j)
      BY <2>3, <2>5, <2>9, <3>1 DEF Empty, HostIf
    <3>3. left = {}
      BY <2>1, <3>2
    <3> HIDE DEF Q, left, probing, running, st
    <3>4. Q = [state |-> "running", ready |-> P.ready, probing |-> {}, probeIp |-> P.probeIp,
               probeRunning |-> running, packets |-> {}, probed |-> P.probed, stray |-> P.stray]
      BY <1>4, <2>7, <3>1, <3>3
    <3>5. PcbInv(Q, W)
      <4>1. W \in SUBSET Services /\ P.ready = TRUE
        BY <1>1, <1>6
      <4> HIDE DEF W
      <4> QED  BY <1>1, <2>8, <3>1, <3>4, <4>1, QuietInv
    <3> QED  BY <1>4, <3>5 DEF Q
  <2>10. CASE ~(P.probing = {s} /\ ~P.probeIp)
    <3>1. st = P.state /\ running = TRUE
      BY <1>6, <2>2, <2>6, <2>7, <2>10
    <3>2. A \cup HostIf(P.probeIp) # {}
      BY <2>2, <2>10 DEF HostIf
    <3>3. left = {j}
      BY <2>1, <2>5, <3>2 DEF Empty
    <3> HIDE DEF Q, left, probing, running, st, j
    <3>4. Q = [state |-> P.state, ready |-> running, probing |-> A, probeIp |-> P.probeIp,
               probeRunning |-> running, packets |-> {j}, probed |-> P.probed, stray |-> P.stray]
      BY <1>1, <1>4, <1>6, <2>7, <3>1, <3>3
    <3>5. PcbInv(Q, W)
      <4>1. W \in SUBSET Services /\ \A t \in A : P.probed[t] >= Sent(P.state)
        BY <2>2
      <4> HIDE DEF W, A
      <4> QED  BY <1>1, <2>2, <2>3, <2>5, <2>8, <3>1, <3>2, <3>4, <4>1, BusyInv
    <3> QED  BY <1>4, <3>5 DEF Q
  <2> QED  BY <2>9, <2>10
<1>7. CASE P.ready /\ ~Probing(P)
  <2>1. /\ P.state \in {"running", "announce1", "announce2", "announce3"}
        /\ P.probeRunning = FALSE /\ P.probing = {}
        /\ \A i \in P.packets : /\ Packed(i) /\ i.asks = {}
                                /\ (i.answers \cup i.others) \cap Services \subseteq V
        /\ Known(V, {}, P.probed)
    BY <1>7, Quiet
  <2>2. \A i \in left : /\ Packed(i) /\ i.asks = {}
                        /\ (i.answers \cup i.others) \cap Services \subseteq W
    <3> SUFFICES ASSUME NEW k \in P.packets
                 PROVE  LET i == Strip(P, k, s)
                        IN  /\ Packed(i) /\ i.asks = {}
                            /\ (i.answers \cup i.others) \cap Services \subseteq W
      OBVIOUS
    <3> DEFINE i == Strip(P, k, s)
    <3>1. /\ Packed(i) /\ i.answers = k.answers \ {s} /\ i.others = k.others \ {s}
          /\ i.asks = StillAsked(P, k, s)
      BY <2>1, Stripped
    <3>2. k.asks = {} /\ (k.answers \cup k.others) \cap Services \subseteq V
      BY <2>1
    <3> HIDE DEF i
    <3>3. i.asks = {} /\ (i.answers \cup i.others) \cap Services \subseteq W
      BY <3>1, <3>2 DEF StillAsked
    <3> QED  BY <3>1, <3>3 DEF i
  <2>3. probing = {} /\ running = FALSE /\ st \in {"running", "announce1", "announce2", "announce3"}
    BY <1>7, <2>1
  <2>4. Known(W, {}, P.probed)
    BY <2>1 DEF Known
  <2>5. W \in SUBSET Services /\ P.ready = TRUE
    BY <1>1, <1>7
  <2> HIDE DEF Q, left, probing, running, st, W
  <2>6. PcbInv(Q, W)
    BY <1>1, <1>4, <2>2, <2>3, <2>4, <2>5, QuietInv
  <2> QED  BY <1>4, <2>6 DEF Q, W
<1> QED  BY <1>5, <1>6, <1>7

\* A packet that was sent: the next probe or announcement, the first
\* announcement after the third probe, or none.
LEMMA TxHandleInv ==
    ASSUME NEW V \in SUBSET Services, NEW P, PcbInv(P, V), NEW k \in P.packets
    PROVE  PcbInv(TxHandle(P, k), V) /\ TxHandle(P, k).stray = P.stray
<1> DEFINE counts == [s \in Services |->
               IF P.ready /\ s \in k.asks /\ P.probed[s] < 3 THEN P.probed[s] + 1 ELSE P.probed[s]]
           D == Dispatch(P, k)
           again == [k EXCEPT !.queued = FALSE]
           Q == TxHandle(P, k)
<1>0. P = [state |-> P.state, ready |-> P.ready, probing |-> P.probing,
           probeIp |-> P.probeIp, probeRunning |-> P.probeRunning,
           packets |-> P.packets, probed |-> P.probed, stray |-> P.stray]
  BY Record
<1>1. P.ready /\ P.ready = TRUE /\ Packed(k)
  BY ItsPackets, Record
<1>2. /\ P.probed \in [Services -> 0 .. 3] /\ P.probeIp \in BOOLEAN
      /\ P.probeRunning \in BOOLEAN /\ P.stray \in BOOLEAN
  BY Record
<1>3. counts \in [Services -> 0 .. 3]
  BY <1>2
<1>4. D = [state |-> P.state, ready |-> P.ready, probing |-> P.probing,
           probeIp |-> P.probeIp, probeRunning |-> P.probeRunning,
           packets |-> P.packets, probed |-> counts, stray |-> P.stray]
  <2>1. D = [P EXCEPT !.probed = counts]
    BY <1>0 DEF Dispatch
  <2>2. DOMAIN P = {"state", "ready", "probing", "probeIp", "probeRunning", "packets", "probed", "stray"}
    BY <1>0
  <2> HIDE DEF D, counts
  <2>3. D = [f \in DOMAIN P |-> IF f = "probed" THEN counts ELSE P[f]]
    BY <2>1, <2>2
  <2> QED  BY <2>2, <2>3
<1>5. Packed(again) /\ again.asks = k.asks /\ again.answers = k.answers /\ again.others = k.others
  BY <1>1, Requeued
<1>6. P.state # "off"
  BY <1>1, Busy, Quiet
<1>7. ASSUME NEW st, NEW K
      PROVE  [D EXCEPT !.packets = K, !.state = st]
               = [state |-> st, ready |-> P.ready, probing |-> P.probing,
                  probeIp |-> P.probeIp, probeRunning |-> P.probeRunning,
                  packets |-> K, probed |-> counts, stray |-> P.stray]
  <2> HIDE DEF D, counts
  <2>1. DOMAIN D = {"state", "ready", "probing", "probeIp", "probeRunning", "packets", "probed", "stray"}
    BY <1>4
  <2>2. [D EXCEPT !.packets = K, !.state = st]
          = [f \in DOMAIN D |-> IF f = "state" THEN st ELSE IF f = "packets" THEN K ELSE D[f]]
    BY <2>1
  <2> QED  BY <1>4, <2>1, <2>2
<1>8. D.packets = P.packets
  BY <1>4
<1>9. CASE Probing(P)
  <2>1. PICK j \in P.packets : /\ P.packets = {j} /\ j.answers = {}
                               /\ j.asks = P.probing \cup HostIf(P.probeIp)
                               /\ j.others = P.probing \cup HostIf(P.probeIp)
    BY <1>1, <1>9, Busy
  <2>2. /\ P.packets = {k} /\ k.answers = {}
        /\ k.asks = P.probing \cup HostIf(P.probeIp)
        /\ k.others = P.probing \cup HostIf(P.probeIp)
    BY <2>1
  <2>3. /\ P.state \in {"probe1", "probe2", "probe3"}
        /\ P.probeRunning = TRUE /\ P.probing \in SUBSET V
        /\ P.probing \cup HostIf(P.probeIp) # {}
        /\ \A s \in P.probing : P.probed[s] >= Sent(P.state)
        /\ Known(V, P.probing, P.probed)
    BY <1>1, <1>9, Busy
  <2>4. \A s \in P.probing : counts[s] >= Sent(P.state) + 1
    BY <1>1, <1>2, <2>2, <2>3 DEF Sent
  <2>5. Known(V, P.probing, counts)
    BY <1>2, <2>3 DEF Known
  <2>6. ASSUME NEW st \in {"probe2", "probe3"}, Sent(st) = Sent(P.state) + 1,
               Q = Again(D, k, st)
        PROVE  PcbInv(Q, V) /\ Q.stray = P.stray
    <3>1. Q = [state |-> st, ready |-> P.ready, probing |-> P.probing, probeIp |-> P.probeIp,
               probeRunning |-> P.ready, packets |-> {again}, probed |-> counts, stray |-> P.stray]
      <4>1. Q = [D EXCEPT !.packets = {again}, !.state = st]
        BY <1>8, <2>2, <2>6 DEF Again
      <4> HIDE DEF Q, D, counts, again
      <4>2. Q = [state |-> st, ready |-> P.ready, probing |-> P.probing,
                 probeIp |-> P.probeIp, probeRunning |-> P.probeRunning,
                 packets |-> {again}, probed |-> counts, stray |-> P.stray]
        BY <1>7, <4>1
      <4>3. P.probeRunning = P.ready
        BY <1>1, <2>3
      <4> QED  BY <4>2, <4>3
    <3>2. \A s \in P.probing : counts[s] >= Sent(st)
      BY <2>4, <2>6
    <3> HIDE DEF Q, D, counts, again
    <3>3. PcbInv(Q, V)
      BY <1>1, <1>2, <1>3, <1>5, <2>2, <2>3, <2>5, <3>1, <3>2, BusyInv
    <3> QED  BY <3>1, <3>3
  <2>7. CASE P.state = "probe1"
    <3>1. Q = Again(D, k, "probe2")
      BY <2>7 DEF TxHandle
    <3> QED  BY <2>6, <2>7, <3>1 DEF Sent
  <2>8. CASE P.state = "probe2"
    <3>1. Q = Again(D, k, "probe3")
      BY <2>8 DEF TxHandle
    <3> QED  BY <2>6, <2>8, <3>1 DEF Sent
  <2>9. CASE P.state = "probe3"
    <3> DEFINE names == k.others \cup HostIf(k.others \cap Services # {})
               new == NewPacket(P.packets, {}, names, {})
    <3>1. Q = [D EXCEPT !.packets = (P.packets \ {k}) \cup {new}, !.state = "announce1",
                        !.probing = {}, !.probeIp = FALSE, !.probeRunning = FALSE]
      <4>1. Q = AnnounceFromProbe(D, k)
        BY <2>9 DEF TxHandle
      <4> HIDE DEF Q
      <4> QED  BY <1>8, <4>1 DEF AnnounceFromProbe
    <3>2. (P.packets \ {k}) \cup {new} = {new}
      BY <2>2
    <3>3. /\ new = [id |-> new.id, asks |-> new.asks, answers |-> new.answers,
                    others |-> new.others, queued |-> new.queued]
          /\ new.asks = {} /\ new.answers = names /\ new.others = {}
      BY DEF NewPacket
    <3>4. names \subseteq P.probing \cup {Host}
      BY <2>2 DEF HostIf
    <3>5. Host \notin Services
      BY ResponderAssumption
    <3>6. Packed(new) /\ names \cap Services \subseteq V
      <4> HIDE DEF new, names
      <4> QED  BY <2>3, <3>3, <3>4, <3>5 DEF Packed
    <3>7. Known(V, {}, counts)
      <4>1. \A s \in P.probing : counts[s] >= 3
        BY <2>4, <2>9 DEF Sent
      <4>2. \A s \in V : counts[s] \in 0 .. 3
        BY <1>3
      <4> HIDE DEF counts
      <4> QED  BY <2>3, <2>5, <4>1, <4>2 DEF Known
    <3> DEFINE no == FALSE
    <3>8. no \in BOOLEAN /\ no = FALSE
      OBVIOUS
    <3> HIDE DEF Q, D, counts, new, names, no
    <3>9. Q = [state |-> "announce1", ready |-> P.ready, probing |-> {}, probeIp |-> no,
               probeRunning |-> no, packets |-> {new}, probed |-> counts, stray |-> P.stray]
      <4>1. Q = [D EXCEPT !.packets = {new}, !.state = "announce1",
                          !.probing = {}, !.probeIp = no, !.probeRunning = no]
        BY <3>1, <3>2 DEF no
      <4>2. DOMAIN D = {"state", "ready", "probing", "probeIp", "probeRunning", "packets", "probed", "stray"}
        BY <1>4
      <4>3. Q = [f \in DOMAIN D |->
                    CASE f = "packets" -> {new} [] f = "state" -> "announce1"
                      [] f = "probing" -> {} [] f = "probeIp" -> no
                      [] f = "probeRunning" -> no [] OTHER -> D[f]]
        BY <4>1, <4>2
      <4> QED  BY <1>4, <4>2, <4>3
    <3>10. PcbInv(Q, V)
      BY <1>1, <1>2, <1>3, <3>3, <3>6, <3>7, <3>8, <3>9, QuietInv
    <3> QED  BY <3>9, <3>10 DEF Q
  <2> QED  BY <2>3, <2>7, <2>8, <2>9
<1>10. CASE ~Probing(P)
  <2>1. /\ P.state \in {"running", "announce1", "announce2", "announce3"}
        /\ P.probeRunning = FALSE /\ P.probing = {}
        /\ \A i \in P.packets : /\ Packed(i) /\ i.asks = {}
                                /\ (i.answers \cup i.others) \cap Services \subseteq V
        /\ Known(V, {}, P.probed)
    BY <1>1, <1>10, Quiet
  <2>2. counts = P.probed
    BY <1>2, <2>1
  <2>3. ASSUME NEW st \in {"running", "announce2", "announce3"},
               NEW K \in SUBSET (P.packets \cup {again}),
               Q = [D EXCEPT !.packets = K, !.state = st]
        PROVE  PcbInv(Q, V) /\ Q.stray = P.stray
    <3>1. \A i \in K : /\ Packed(i) /\ i.asks = {}
                       /\ (i.answers \cup i.others) \cap Services \subseteq V
      BY <1>5, <2>1
    <3> HIDE DEF Q, D, counts, again
    <3>2. Q = [state |-> st, ready |-> P.ready, probing |-> {}, probeIp |-> P.probeIp,
               probeRunning |-> P.probeRunning, packets |-> K, probed |-> P.probed, stray |-> P.stray]
      BY <1>7, <2>1, <2>2, <2>3
    <3>3. PcbInv(Q, V)
      BY <1>1, <1>2, <2>1, <3>1, <3>2, QuietInv
    <3> QED  BY <3>2, <3>3
  <2>4. CASE P.state = "announce1"
    <3> DEFINE K == (P.packets \ {k}) \cup {again}
    <3>1. Q = [D EXCEPT !.packets = K, !.state = "announce2"]
      BY <1>8, <2>4 DEF TxHandle, Again
    <3>2. K \in SUBSET (P.packets \cup {again})
      OBVIOUS
    <3> HIDE DEF K, Q, D, again
    <3>9. PcbInv(Q, V) /\ Q.stray = P.stray
      BY <2>3, <3>1, <3>2
    <3> QED  BY <3>9 DEF Q
  <2>5. CASE P.state = "announce2"
    <3> DEFINE K == (P.packets \ {k}) \cup {again}
    <3>1. Q = [D EXCEPT !.packets = K, !.state = "announce3"]
      BY <1>8, <2>5 DEF TxHandle, Again
    <3>2. K \in SUBSET (P.packets \cup {again})
      OBVIOUS
    <3> HIDE DEF K, Q, D, again
    <3>9. PcbInv(Q, V) /\ Q.stray = P.stray
      BY <2>3, <3>1, <3>2
    <3> QED  BY <3>9 DEF Q
  <2>6. CASE P.state = "announce3"
    <3> DEFINE K == P.packets \ {k}
    <3>1. Q = [D EXCEPT !.packets = K, !.state = "running"]
      BY <1>8, <2>6 DEF TxHandle
    <3>2. K \in SUBSET (P.packets \cup {again})
      OBVIOUS
    <3> HIDE DEF K, Q, D, again
    <3>9. PcbInv(Q, V) /\ Q.stray = P.stray
      BY <2>3, <3>1, <3>2
    <3> QED  BY <3>9 DEF Q
  <2>7. CASE P.state = "running"
    <3> DEFINE K == P.packets \ {k}
    <3>1. Q = [D EXCEPT !.packets = K]
      BY <1>8, <2>7 DEF TxHandle
    <3>2. Q = [D EXCEPT !.packets = K, !.state = "running"]
      <4> HIDE DEF Q, D, counts, K
      <4>1. DOMAIN D = {"state", "ready", "probing", "probeIp", "probeRunning", "packets", "probed", "stray"}
        BY <1>4
      <4>2. D.state = "running"
        BY <1>4, <2>7
      <4> QED  BY <3>1, <4>1, <4>2
    <3>3. K \in SUBSET (P.packets \cup {again})
      OBVIOUS
    <3> HIDE DEF K, Q, D, again
    <3>9. PcbInv(Q, V) /\ Q.stray = P.stray
      BY <2>3, <3>2, <3>3
    <3> QED  BY <3>9 DEF Q
  <2> QED  BY <2>1, <2>4, <2>5, <2>6, <2>7
<1> QED  BY <1>9, <1>10

-----------------------------------------------------------------------------
(* A pcb that was started into a probe while it was down.                    *)

States == {"off", "dup", "running"} \cup Probes \cup Announcements

\* What is done to such a pcb changes neither that it is down nor how it came there.
LEMMA GhostStays ==
    ASSUME NEW P, Ghost(P), NEW st \in States, NEW A \in SUBSET Services, NEW ip \in BOOLEAN,
           NEW running \in BOOLEAN, NEW K, \A k \in K : Packed(k),
           NEW counts \in [Services -> 0 .. 3],
           NEW Q, Q = [state |-> st, ready |-> P.ready, probing |-> A, probeIp |-> ip,
                       probeRunning |-> running, packets |-> K, probed |-> counts,
                       stray |-> P.stray]
    PROVE  Ghost(Q)
<1>1. /\ Q.state = st /\ Q.ready = P.ready /\ Q.probing = A /\ Q.probeIp = ip
      /\ Q.probeRunning = running /\ Q.packets = K /\ Q.probed = counts /\ Q.stray = P.stray
      /\ Q = [state |-> Q.state, ready |-> Q.ready, probing |-> Q.probing,
              probeIp |-> Q.probeIp, probeRunning |-> Q.probeRunning,
              packets |-> Q.packets, probed |-> Q.probed, stray |-> Q.stray]
  OBVIOUS
<1>2. P.ready \in BOOLEAN /\ P.stray \in BOOLEAN
  BY DEF Ghost, Whole
<1>3. \A k \in Q.packets : /\ k = [id |-> k.id, asks |-> k.asks, answers |-> k.answers,
                                   others |-> k.others, queued |-> k.queued]
                           /\ k.asks \cup k.answers \cup k.others \subseteq Names
  BY <1>1 DEF Packed, Names
<1>4. Whole(Q)
  BY <1>1, <1>2, <1>3 DEF Whole, States
<1> QED  BY <1>1, <1>4 DEF Ghost

\* The record it is.
LEMMA GhostRecord ==
    ASSUME NEW P, Ghost(P)
    PROVE  /\ P = [state |-> P.state, ready |-> P.ready, probing |-> P.probing,
                   probeIp |-> P.probeIp, probeRunning |-> P.probeRunning,
                   packets |-> P.packets, probed |-> P.probed, stray |-> P.stray]
           /\ DOMAIN P = {"state", "ready", "probing", "probeIp", "probeRunning", "packets",
                          "probed", "stray"}
           /\ P.state \in States /\ P.probing \in SUBSET Services
           /\ P.ready \in BOOLEAN /\ P.probeIp \in BOOLEAN /\ P.probeRunning \in BOOLEAN
           /\ P.probed \in [Services -> 0 .. 3] /\ P.stray \in BOOLEAN
           /\ \A k \in P.packets : Packed(k)
           /\ ~P.ready /\ P.stray
<1>1. Whole(P) /\ ~P.ready /\ P.stray
  BY DEF Ghost
<1>2. P = [state |-> P.state, ready |-> P.ready, probing |-> P.probing,
           probeIp |-> P.probeIp, probeRunning |-> P.probeRunning,
           packets |-> P.packets, probed |-> P.probed, stray |-> P.stray]
  BY <1>1 DEF Whole
<1>3. \A k \in P.packets : Packed(k)
  BY <1>1 DEF Whole, Packed, Names
<1>4. DOMAIN P = {"state", "ready", "probing", "probeIp", "probeRunning", "packets",
                  "probed", "stray"}
  BY <1>2
<1> QED  BY <1>1, <1>2, <1>3, <1>4 DEF Whole, States

\* Its packets and its state change.
LEMMA GhostMoves ==
    ASSUME NEW P, Ghost(P), NEW st \in States, NEW K, \A k \in K : Packed(k)
    PROVE  Ghost([P EXCEPT !.packets = K, !.state = st])
<1> DEFINE Q == [P EXCEPT !.packets = K, !.state = st]
<1>1. /\ DOMAIN P = {"state", "ready", "probing", "probeIp", "probeRunning", "packets",
                     "probed", "stray"}
      /\ P.probing \in SUBSET Services
      /\ P.probeIp \in BOOLEAN /\ P.probeRunning \in BOOLEAN
      /\ P.probed \in [Services -> 0 .. 3]
  BY GhostRecord
<1>2. Q = [f \in DOMAIN P |-> IF f = "state" THEN st ELSE IF f = "packets" THEN K ELSE P[f]]
  BY <1>1
<1> HIDE DEF Q
<1>3. Q = [state |-> st, ready |-> P.ready, probing |-> P.probing, probeIp |-> P.probeIp,
           probeRunning |-> P.probeRunning, packets |-> K, probed |-> P.probed,
           stray |-> P.stray]
  BY <1>1, <1>2
<1>4. Ghost(Q)
  BY <1>1, <1>3, GhostStays
<1> QED  BY <1>4 DEF Q

LEMMA GhostsPackets ==
    ASSUME NEW P, Ghost(P), NEW K, \A k \in K : Packed(k)
    PROVE  Ghost([P EXCEPT !.packets = K])
<1> DEFINE Q == [P EXCEPT !.packets = K]
           R == [P EXCEPT !.packets = K, !.state = P.state]
<1>1. /\ DOMAIN P = {"state", "ready", "probing", "probeIp", "probeRunning", "packets",
                     "probed", "stray"}
      /\ P.state \in States
  BY GhostRecord
<1>2. Ghost(R)
  BY <1>1, GhostMoves
<1>3. Q = R
  BY <1>1
<1> QED  BY <1>2, <1>3

LEMMA GhostsState ==
    ASSUME NEW P, Ghost(P), NEW st \in States
    PROVE  Ghost([P EXCEPT !.state = st])
<1> DEFINE Q == [P EXCEPT !.state = st]
           R == [P EXCEPT !.packets = P.packets, !.state = st]
<1>1. /\ DOMAIN P = {"state", "ready", "probing", "probeIp", "probeRunning", "packets",
                     "probed", "stray"}
      /\ \A k \in P.packets : Packed(k)
  BY GhostRecord
<1>2. Ghost(R)
  BY <1>1, GhostMoves
<1>3. Q = R
  BY <1>1
<1> QED  BY <1>2, <1>3

\* A packet of its was sent, and does not count.
LEMMA GhostSends ==
    ASSUME NEW P, Ghost(P), NEW k \in P.packets
    PROVE  Ghost(TxHandle(P, k))
<1> DEFINE Q == TxHandle(P, k)
           again == [k EXCEPT !.queued = FALSE]
           names == k.others \cup HostIf(k.others \cap Services # {})
           new == NewPacket(P.packets, {}, names, {})
           less == P.packets \ {k}
<1>0. /\ P = [state |-> P.state, ready |-> P.ready, probing |-> P.probing,
              probeIp |-> P.probeIp, probeRunning |-> P.probeRunning,
              packets |-> P.packets, probed |-> P.probed, stray |-> P.stray]
      /\ DOMAIN P = {"state", "ready", "probing", "probeIp", "probeRunning", "packets",
                     "probed", "stray"}
      /\ P.state \in States /\ P.probed \in [Services -> 0 .. 3]
      /\ \A j \in P.packets : Packed(j)
      /\ ~P.ready
  BY GhostRecord
<1>1. Dispatch(P, k) = P
  <2> DEFINE counts == [s \in Services |->
                 IF P.ready /\ s \in k.asks /\ P.probed[s] < 3 THEN P.probed[s] + 1 ELSE P.probed[s]]
  <2>1. counts = P.probed
    BY <1>0
  <2>2. Dispatch(P, k) = [P EXCEPT !.probed = counts]
    BY <1>0 DEF Dispatch
  <2> HIDE DEF counts
  <2> QED  BY <1>0, <2>1, <2>2
<1>2. Packed(again)
  BY <1>0, Requeued
<1>3. Packed(new)
  <2>1. names \subseteq Services \cup {Host}
    BY <1>0 DEF Packed, HostIf
  <2>2. /\ new = [id |-> new.id, asks |-> new.asks, answers |-> new.answers,
                  others |-> new.others, queued |-> new.queued]
        /\ new.asks = {} /\ new.answers = names /\ new.others = {}
    BY DEF NewPacket
  <2> HIDE DEF new, names
  <2> QED  BY <2>1, <2>2 DEF Packed
<1>4. (\A j \in less : Packed(j)) /\ (\A j \in less \cup {again} : Packed(j))
      /\ (\A j \in less \cup {new} : Packed(j))
  BY <1>0, <1>2, <1>3
<1>5. ASSUME NEW st \in States, Q = Again(P, k, st) PROVE Ghost(Q)
  <2> HIDE DEF again, less
  <2>1. Ghost([P EXCEPT !.packets = less \cup {again}, !.state = st])
    BY <1>4, GhostMoves
  <2> QED  BY <1>5, <2>1 DEF Again, again, less
<1>6. CASE P.state = "probe1"
  BY <1>1, <1>5, <1>6 DEF TxHandle, States, Probes
<1>7. CASE P.state = "probe2"
  BY <1>1, <1>5, <1>7 DEF TxHandle, States, Probes
<1>8. CASE P.state = "announce1"
  BY <1>1, <1>5, <1>8 DEF TxHandle, States, Announcements
<1>9. CASE P.state = "announce2"
  BY <1>1, <1>5, <1>9 DEF TxHandle, States, Announcements
<1>10. CASE P.state \in {"off", "dup", "running"}
  <2>1. Q = [P EXCEPT !.packets = less]
    BY <1>1, <1>10 DEF TxHandle
  <2> HIDE DEF less, Q
  <2>2. Ghost(Q)
    BY <1>4, <2>1, GhostsPackets
  <2> QED  BY <2>2 DEF Q
<1>11. CASE P.state = "announce3"
  <2>1. Q = [P EXCEPT !.packets = less, !.state = "running"]
    BY <1>1, <1>11 DEF TxHandle
  <2>2. "running" \in States
    BY DEF States
  <2> HIDE DEF less, Q
  <2>3. Ghost(Q)
    BY <1>4, <2>1, <2>2, GhostMoves
  <2> QED  BY <2>3 DEF Q
<1>12. CASE P.state = "probe3"
  <2> DEFINE no == FALSE
             all == less \cup {new}
             R == [P EXCEPT !.packets = all, !.state = "announce1",
                            !.probing = {}, !.probeIp = no, !.probeRunning = no]
  <2>1. Q = AnnounceFromProbe(P, k)
    BY <1>1, <1>12 DEF TxHandle
  <2>2. AnnounceFromProbe(P, k) = R
    BY DEF AnnounceFromProbe
  <2>3. no \in BOOLEAN /\ "announce1" \in States
    BY DEF States, Announcements
  <2>4. \A j \in all : Packed(j)
    BY <1>4
  <2> HIDE DEF all, Q, no
  <2>5. R = [f \in DOMAIN P |->
                CASE f = "packets" -> all [] f = "state" -> "announce1"
                  [] f = "probing" -> {} [] f = "probeIp" -> no
                  [] f = "probeRunning" -> no [] OTHER -> P[f]]
    BY <1>0
  <2> HIDE DEF R
  <2>6. R = [state |-> "announce1", ready |-> P.ready, probing |-> {}, probeIp |-> no,
             probeRunning |-> no, packets |-> all, probed |-> P.probed, stray |-> P.stray]
    BY <1>0, <2>5
  <2>7. Ghost(R)
    BY <1>0, <2>3, <2>4, <2>6, GhostStays
  <2> QED  BY <2>1, <2>2, <2>7 DEF Q
<1>13. P.state \in {"off", "dup", "running", "probe1", "probe2", "probe3",
                    "announce1", "announce2", "announce3"}
  BY <1>0 DEF States, Probes, Announcements
<1> HIDE DEF Q
<1> QED  BY <1>6, <1>7, <1>8, <1>9, <1>10, <1>11, <1>12, <1>13 DEF Q

\* A service is taken out of its packets; what it probes for stays.
LEMMA GhostStripped ==
    ASSUME NEW P, Ghost(P), NEW s \in Services
    PROVE  Ghost(RemoveScheduled(P, s))
<1> DEFINE left == {k \in {Strip(P, j, s) : j \in P.packets} : ~Empty(k)}
           over == \/ Probing(P) /\ P.probing = {s} /\ ~P.probeIp
                   \/ Announcing(P) /\ \E k \in P.packets : k.answers = {s}
           touched == P.ready /\ P.packets # {}
           probing == IF touched /\ Probing(P) THEN P.probing \ {s} ELSE P.probing
           running == P.probeRunning /\ ~(touched /\ Probing(P) /\ over)
           st == IF touched /\ over THEN "running" ELSE P.state
           Q == RemoveScheduled(P, s)
<1>0. /\ P = [state |-> P.state, ready |-> P.ready, probing |-> P.probing,
              probeIp |-> P.probeIp, probeRunning |-> P.probeRunning,
              packets |-> P.packets, probed |-> P.probed, stray |-> P.stray]
      /\ DOMAIN P = {"state", "ready", "probing", "probeIp", "probeRunning", "packets",
                     "probed", "stray"}
      /\ P.probing \in SUBSET Services
      /\ P.probeIp \in BOOLEAN /\ P.probeRunning \in BOOLEAN
      /\ P.state \in States /\ P.probed \in [Services -> 0 .. 3]
      /\ \A j \in P.packets : Packed(j)
      /\ ~P.ready
  BY GhostRecord
<1>1. Q = [P EXCEPT !.packets = left, !.probing = probing, !.probeRunning = running, !.state = st]
  BY <1>0 DEF RemoveScheduled
<1>2. probing = P.probing /\ st = P.state /\ running \in BOOLEAN
  BY <1>0
<1>3. \A k \in left : Packed(k)
  <2> SUFFICES ASSUME NEW j \in P.packets PROVE Packed(Strip(P, j, s))
    OBVIOUS
  <2> QED  BY <1>0, Stripped
<1> HIDE DEF Q, left, probing, running, st
<1>4. Q = [f \in DOMAIN P |->
              CASE f = "packets" -> left [] f = "state" -> st [] f = "probing" -> probing
                [] f = "probeRunning" -> running [] OTHER -> P[f]]
  BY <1>0, <1>1
<1>5. Q = [state |-> P.state, ready |-> P.ready, probing |-> P.probing, probeIp |-> P.probeIp,
           probeRunning |-> running, packets |-> left, probed |-> P.probed, stray |-> P.stray]
  BY <1>0, <1>2, <1>4
<1>6. Ghost(Q)
  BY <1>0, <1>2, <1>3, <1>5, GhostStays
<1> QED  BY <1>6 DEF Q

\* A pcb that is down becomes one by a probe.
LEMMA GhostBorn ==
    ASSUME NEW P, Whole(P), ~P.ready, NEW S \in SUBSET Services, NEW ip \in BOOLEAN
    PROVE  Ghost(InitProbe(P, S, ip))
<1>1. FirstProbe(InitProbe(P, S, ip), P, AlsoFor(P, S), P.probeIp \/ ip)
  BY InitProbeWhole
<1> QED  BY <1>1 DEF FirstProbe, Ghost

-----------------------------------------------------------------------------
(* What is done to a pcb in either case.                                     *)

LEMMA PcbSound ==
    ASSUME NEW V \in SUBSET Services, NEW P, PcbInv(P, V)
    PROVE  Sound(P, V)
  BY DEF Sound, Regular

LEMMA SoundAnnounce ==
    ASSUME NEW V \in SUBSET Services, NEW P, Sound(P, V), NEW S \in SUBSET V, NEW ip \in BOOLEAN,
           S # {} \/ ip, NEW first
    PROVE  Sound(Announce(P, S, ip, first), V)
<1> DEFINE Q == Announce(P, S, ip, first)
<1>1. CASE Ghost(P)
  <2>1. Q = P
    BY <1>1 DEF Ghost, Announce
  <2> QED  BY <1>1, <2>1 DEF Sound
<1>2. CASE Regular(P, V)
  <2>1. PICK W \in SUBSET Services : V \subseteq W /\ (P.stray \/ W = V) /\ PcbInv(P, W)
    BY <1>2 DEF Regular
  <2>2. S \in SUBSET W
    BY <2>1
  <2>3. PcbInv(Q, W) /\ (P.stray => Q.stray)
    BY <2>1, <2>2, AnnounceInv
  <2> HIDE DEF Q
  <2>4. Sound(Q, V)
    BY <2>1, <2>3 DEF Sound, Regular
  <2> QED  BY <2>4 DEF Q
<1> QED  BY <1>1, <1>2 DEF Sound

LEMMA SoundRequeue ==
    ASSUME NEW V \in SUBSET Services, NEW P, Sound(P, V), NEW k \in P.packets, NEW b
    PROVE  Sound([P EXCEPT !.packets = (@ \ {k}) \cup {[k EXCEPT !.queued = b]}], V)
<1> DEFINE j == [k EXCEPT !.queued = b]
           K == (P.packets \ {k}) \cup {j}
           Q == [P EXCEPT !.packets = K]
<1>1. CASE Ghost(P)
  <2>1. \A i \in P.packets : Packed(i)
    BY <1>1, GhostRecord
  <2>2. Packed(j)
    BY <2>1, Requeued
  <2>3. \A i \in K : Packed(i)
    <3> HIDE DEF j
    <3> QED  BY <2>1, <2>2
  <2> HIDE DEF K
  <2>4. Ghost(Q)
    BY <1>1, <2>3, GhostsPackets
  <2> QED  BY <2>4 DEF Sound, K
<1>2. CASE Regular(P, V)
  <2>1. PICK W \in SUBSET Services : V \subseteq W /\ (P.stray \/ W = V) /\ PcbInv(P, W)
    BY <1>2 DEF Regular
  <2>2. PcbInv(Q, W) /\ Q.stray = P.stray
    BY <2>1, RequeueInv
  <2> HIDE DEF Q
  <2>3. Sound(Q, V)
    BY <2>1, <2>2 DEF Sound, Regular
  <2> QED  BY <2>3 DEF Q
<1> QED  BY <1>1, <1>2 DEF Sound

LEMMA SoundSend ==
    ASSUME NEW V \in SUBSET Services, NEW P, Sound(P, V), NEW k \in P.packets
    PROVE  Sound(TxHandle(P, k), V)
<1> DEFINE Q == TxHandle(P, k)
<1>1. CASE Ghost(P)
  BY <1>1, GhostSends DEF Sound
<1>2. CASE Regular(P, V)
  <2>1. PICK W \in SUBSET Services : V \subseteq W /\ (P.stray \/ W = V) /\ PcbInv(P, W)
    BY <1>2 DEF Regular
  <2>2. PcbInv(Q, W) /\ Q.stray = P.stray
    BY <2>1, TxHandleInv
  <2> HIDE DEF Q
  <2>3. Sound(Q, V)
    BY <2>1, <2>2 DEF Sound, Regular
  <2> QED  BY <2>3 DEF Q
<1> QED  BY <1>1, <1>2 DEF Sound

LEMMA SoundStripped ==
    ASSUME NEW V \in SUBSET Services, NEW P, Sound(P, V), NEW s \in Services
    PROVE  Sound(RemoveScheduled(P, s), V \ {s})
<1> DEFINE Q == RemoveScheduled(P, s)
<1>1. CASE Ghost(P)
  BY <1>1, GhostStripped DEF Sound
<1>2. CASE Regular(P, V)
  <2>1. PICK W \in SUBSET Services : V \subseteq W /\ (P.stray \/ W = V) /\ PcbInv(P, W)
    BY <1>2 DEF Regular
  <2>2. PcbInv(Q, W \ {s}) /\ Q.stray = P.stray
    BY <2>1, RemoveScheduledInv
  <2>3. W \ {s} \in SUBSET Services /\ V \ {s} \subseteq W \ {s} /\ (W = V => W \ {s} = V \ {s})
    BY <2>1
  <2> DEFINE X == W \ {s}
             Y == V \ {s}
  <2>4. PcbInv(Q, X) /\ X \in SUBSET Services /\ Y \subseteq X /\ (Q.stray \/ X = Y)
    BY <2>1, <2>2, <2>3
  <2> HIDE DEF Q, X, Y
  <2>5. Sound(Q, Y)
    BY <2>4 DEF Sound, Regular
  <2> QED  BY <2>5 DEF Q, Y
<1> QED  BY <1>1, <1>2 DEF Sound

\* A service's new answers are added, to a pcb that does not probe.
LEMMA SoundAdded ==
    ASSUME NEW V \in SUBSET Services, NEW P, Sound(P, V),
           P.state \in {"running", "announce1", "announce2", "announce3"},
           NEW k, Packed(k), k.asks = {}, (k.answers \cup k.others) \cap Services \subseteq V
    PROVE  Sound([P EXCEPT !.packets = @ \cup {k}], V)
<1> DEFINE K == P.packets \cup {k}
           Q == [P EXCEPT !.packets = K]
<1>1. CASE Ghost(P)
  <2>1. \A i \in K : Packed(i)
    BY <1>1, GhostRecord
  <2> HIDE DEF K
  <2>2. Ghost(Q)
    BY <1>1, <2>1, GhostsPackets
  <2> QED  BY <2>2 DEF Sound, K
<1>2. CASE Regular(P, V)
  <2>1. PICK W \in SUBSET Services : V \subseteq W /\ (P.stray \/ W = V) /\ PcbInv(P, W)
    BY <1>2 DEF Regular
  <2>2. ~Probing(P)
    BY DEF Probing, Probes
  <2>3. P.ready
    BY <2>1, Record
  <2>4. (k.answers \cup k.others) \cap Services \subseteq W
    BY <2>1
  <2> DEFINE L == P.packets
             R == [P EXCEPT !.packets = K, !.state = P.state]
  <2>5. PcbInv(R, W)
    <3>1. L \in SUBSET P.packets
      OBVIOUS
    <3> QED  BY <2>1, <2>2, <2>3, <2>4, <3>1, AddedInv
  <2> HIDE DEF K
  <2>8. R.stray = P.stray
    BY <2>1, WithPacketsAndState
  <2>6. R = Q
    BY <2>1, WithPackets, WithPacketsAndState
  <2> HIDE DEF Q, R
  <2>7. Sound(Q, V)
    BY <2>1, <2>5, <2>6, <2>8 DEF Sound, Regular
  <2> QED  BY <2>7 DEF Q, K
<1> QED  BY <1>1, <1>2 DEF Sound

-----------------------------------------------------------------------------
(* The services are taken out one after the other.                           *)

\* A set of naturals with an element has a least one.
LEMMA LeastNatural ==
    ASSUME NEW S, S \subseteq Nat, S # {}
    PROVE  \E x \in S : \A y \in S : x <= y
<1>1. PICK x \in S : \A y \in S : <<y, x>> \notin OpToRel(<, Nat)
  BY NatLessThanWellFounded, WFMin, Zenon
<1>2. \A y \in S : x <= y
  <2>1. TAKE y \in S
  <2>2. ~(y < x)
    BY <1>1 DEF OpToRel
  <2> QED  BY <2>2
<1> QED  BY <1>2

\* What is left of a pcb when the first n services of a list are taken out.
Stripping(P, list, n, f) ==
    f = [i \in 0 .. n |-> IF i = 0 THEN P ELSE RemoveScheduled(f[i - 1], list[i])]

Strips(P, list, n) ==
    CHOOSE f : f = [i \in 0 .. n |-> IF i = 0 THEN P ELSE RemoveScheduled(f[i - 1], list[i])]

LEMMA StripsIsDefined ==
    ASSUME NEW P, NEW list, NEW n \in Nat
    PROVE  LET f == Strips(P, list, n)
           IN  f[0] = P /\ \A i \in 1 .. n : f[i] = RemoveScheduled(f[i - 1], list[i])
<1> DEFINE Bad == {m \in Nat : ~ \E f : Stripping(P, list, m, f)}
<1>1. Bad = {}
  <2> SUFFICES ASSUME Bad # {} PROVE FALSE
    OBVIOUS
  <2>1. PICK m \in Bad : \A y \in Bad : m <= y
    <3>1. Bad \subseteq Nat
      OBVIOUS
    <3> HIDE DEF Bad
    <3> QED  BY <3>1, LeastNatural
  <2>2. CASE m = 0
    <3> DEFINE f == [i \in 0 .. 0 |-> P]
    <3>1. Stripping(P, list, 0, f)
      BY DEF Stripping
    <3> QED  BY <2>1, <2>2, <3>1
  <2>3. CASE m # 0
    <3>1. m \in Nat /\ m - 1 \in Nat /\ m - 1 \notin Bad
      BY <2>1, <2>3
    <3>2. PICK f : Stripping(P, list, m - 1, f)
      BY <3>1
    <3> DEFINE g == [i \in 0 .. m |-> IF i < m THEN f[i]
                                      ELSE RemoveScheduled(f[m - 1], list[m])]
    <3>3. \A i \in 0 .. m :
            g[i] = IF i = 0 THEN P ELSE RemoveScheduled(g[i - 1], list[i])
      <4>1. \A i \in 0 .. m - 1 :
              f[i] = IF i = 0 THEN P ELSE RemoveScheduled(f[i - 1], list[i])
        BY <3>1, <3>2 DEF Stripping
      <4> QED  BY <2>3, <3>1, <4>1
    <3>4. Stripping(P, list, m, g)
      BY <3>3 DEF Stripping
    <3> QED  BY <2>1, <3>4
  <2> QED  BY <2>2, <2>3
<1>2. PICK f : Stripping(P, list, n, f)
  BY <1>1
<1>3. Stripping(P, list, n, Strips(P, list, n))
  BY <1>2 DEF Stripping, Strips
<1> HIDE DEF Bad
<1> QED  BY <1>3 DEF Stripping

\* A set as a sequence has all of its elements.
LEMMA ListOfAll ==
    ASSUME NEW S, IsFiniteSet(S)
    PROVE  /\ Cardinality(S) \in Nat
           /\ \A i \in 1 .. Cardinality(S) : SetToSeq(S)[i] \in S
           /\ {SetToSeq(S)[i] : i \in 1 .. Cardinality(S)} = S
<1> DEFINE n == Cardinality(S)
           list == SetToSeq(S)
           D == 1 .. n
<1>1. n \in Nat /\ ExistsBijection(D, S)
  BY FS_CardinalityType
<1>2. IsFiniteSet(D) /\ Cardinality(D) = Cardinality(S)
  <2>1. IsFiniteSet(D) /\ Cardinality(D) = IF 1 > n THEN 0 ELSE n - 1 + 1
    <3>1. 1 \in Int /\ n \in Int
      BY <1>1
    <3> HIDE DEF n
    <3> QED  BY <3>1, FS_Interval
  <2> QED  BY <1>1, <2>1
<1>3. list \in [D -> S] /\ \A a, b \in D : list[a] = list[b] => a = b
  <2>1. PICK f \in Bijection(D, S) : TRUE
    BY <1>1 DEF ExistsBijection
  <2>2. f \in [D -> S] /\ IsInjective(f)
    BY <2>1 DEF Bijection, Injection, IsInjective
  <2>3. list = CHOOSE g \in [D -> S] : IsInjective(g)
    BY DEF SetToSeq
  <2>4. list \in [D -> S] /\ IsInjective(list)
    BY <2>2, <2>3
  <2> QED  BY <2>4 DEF IsInjective
<1>4. list \in Injection(D, S)
  BY <1>3 DEF Injection, IsInjective
<1>5. list \in Surjection(D, S)
  <2> HIDE DEF list, D
  <2> QED  BY <1>2, <1>4, FS_Injection
<1> QED  BY <1>1, <1>3, <1>5 DEF Surjection

\* No pcb has anything left of the services that were removed.
LEMMA RemoveAllInv ==
    ASSUME NEW V \in SUBSET Services, NEW all, NEW p \in Pcbs,
           Sound(all[p], V), NEW S \in SUBSET Services
    PROVE  Sound(RemoveAll(all, S)[p], V \ S)
<1> DEFINE n == Cardinality(S)
           list == SetToSeq(S)
           P == all[p]
           f == Strips(P, list, n)
           gone(i) == {list[j] : j \in 1 .. i}
           Bad == {i \in 0 .. n : ~Sound(f[i], V \ gone(i))}
<1>0. IsFiniteSet(S)
  BY ResponderAssumption, FS_Subset
<1>1. n \in Nat /\ (\A i \in 1 .. n : list[i] \in S) /\ gone(n) = S
  BY <1>0, ListOfAll
<1>2. f[0] = P /\ \A i \in 1 .. n : f[i] = RemoveScheduled(f[i - 1], list[i])
  BY <1>1, StripsIsDefined
<1>3. RemoveAll(all, S)[p] = f[n]
  BY DEF RemoveAll, Strips
<1>4. Bad = {}
  <2> SUFFICES ASSUME Bad # {} PROVE FALSE
    OBVIOUS
  <2>1. PICK m \in Bad : \A y \in Bad : m <= y
    <3>1. Bad \subseteq Nat
      BY <1>1
    <3> HIDE DEF Bad
    <3> QED  BY <3>1, LeastNatural
  <2>2. m \in 0 .. n /\ n \in Nat
    BY <1>1, <2>1
  <2>3. CASE m = 0
    <3>1. V \ gone(0) = V
      OBVIOUS
    <3> QED  BY <1>2, <2>1, <2>3, <3>1
  <2>4. CASE m # 0
    <3>1. m \in 1 .. n /\ m - 1 \in 0 .. n /\ m - 1 \notin Bad
      <4>1. m \in 1 .. n /\ m - 1 \in 0 .. n /\ ~(m <= m - 1)
        <5> HIDE DEF n
        <5> QED  BY <2>2, <2>4
      <4> HIDE DEF Bad
      <4> QED  BY <2>1, <4>1
    <3> DEFINE W == V \ gone(m - 1)
               X == f[m - 1]
               s == list[m]
    <3>2. Sound(X, W)
      BY <3>1
    <3>3. W \in SUBSET Services /\ s \in Services
      BY <1>1, <3>1
    <3>4. V \ gone(m) = W \ {s}
      BY <2>2, <3>1
    <3>5. f[m] = RemoveScheduled(X, s)
      BY <1>2, <3>1
    <3>6. Sound(RemoveScheduled(X, s), W \ {s})
      <4> HIDE DEF W, X, s
      <4> QED  BY <3>2, <3>3, SoundStripped
    <3>7. Sound(f[m], V \ gone(m))
      BY <3>4, <3>5, <3>6
    <3> QED  BY <2>1, <3>7
  <2> QED  BY <2>3, <2>4
<1>5. n \in 0 .. n /\ n \notin Bad
  <2> HIDE DEF n, Bad
  <2> QED  BY <1>1, <1>4
<1> QED  BY <1>1, <1>3, <1>5

-----------------------------------------------------------------------------
(* New names.                                                                *)

\* The services of N have new names, for which no probe was sent.
Fresh(P, N) == [P EXCEPT !.probed = [s \in Services |-> IF s \in N THEN 0 ELSE @[s]]]

LEMMA FreshWhole ==
    ASSUME NEW P, Whole(P), NEW N
    PROVE  LET Q == Fresh(P, N)
           IN  /\ Whole(Q)
               /\ Q.state = P.state /\ Q.ready = P.ready /\ Q.probing = P.probing
               /\ Q.probeIp = P.probeIp /\ Q.probeRunning = P.probeRunning
               /\ Q.packets = P.packets /\ Q.stray = P.stray
               /\ Q.probed = [s \in Services |-> IF s \in N THEN 0 ELSE P.probed[s]]
<1> DEFINE Q == Fresh(P, N)
           counts == [s \in Services |-> IF s \in N THEN 0 ELSE P.probed[s]]
<1>1. counts \in [Services -> 0 .. 3]
  BY DEF Whole
<1>2. Q = [P EXCEPT !.probed = counts]
  BY DEF Whole, Fresh
<1>3. DOMAIN P = {"state", "ready", "probing", "probeIp", "probeRunning", "packets", "probed", "stray"}
  BY DEF Whole
<1> HIDE DEF Q, counts
<1>4. Q = [f \in DOMAIN P |-> IF f = "probed" THEN counts ELSE P[f]]
  BY <1>2, <1>3
<1>5. Q = [state |-> P.state, ready |-> P.ready, probing |-> P.probing,
           probeIp |-> P.probeIp, probeRunning |-> P.probeRunning,
           packets |-> P.packets, probed |-> counts, stray |-> P.stray]
  BY <1>3, <1>4
<1>6. Whole(Q)
  BY <1>1, <1>5 DEF Whole
<1> QED  BY <1>5, <1>6 DEF Q, counts

\* That is no matter to a pcb that is down.
LEMMA FreshDown ==
    ASSUME NEW P, NEW V, NEW W, PcbInv(P, V), ~P.ready, NEW N
    PROVE  PcbInv(Fresh(P, N), W) /\ ~Fresh(P, N).ready
<1> DEFINE Q == Fresh(P, N)
<1>1. Whole(P) /\ P.packets = {} /\ P.probing = {} /\ P.probeRunning = FALSE
      /\ P.state \in {"off", "dup"}
  BY Record DEF PcbInv
<1>2. /\ Whole(Q)
      /\ Q.state = P.state /\ Q.ready = P.ready /\ Q.probing = P.probing
      /\ Q.probeIp = P.probeIp /\ Q.probeRunning = P.probeRunning
      /\ Q.packets = P.packets
      /\ Q.probed = [s \in Services |-> IF s \in N THEN 0 ELSE P.probed[s]]
  BY <1>1, FreshWhole
<1> HIDE DEF Q
<1>3. ~Probing(Q) /\ ~Q.ready /\ Q.probeRunning = FALSE /\ Q.probing = {} /\ Q.packets = {}
      /\ Q.state \in {"off", "dup"}
  BY <1>1, <1>2 DEF Probing, Probes
<1>4. Orderly(Q) /\ Within(Q, W) /\ Counted(Q, W)
  BY <1>3 DEF Orderly, Within, Counted
<1> QED  BY <1>2, <1>3, <1>4 DEF PcbInv, Q

LEMMA FreshGhost ==
    ASSUME NEW P, Ghost(P), NEW N
    PROVE  Ghost(Fresh(P, N))
  BY FreshWhole DEF Ghost

\* A service that is new, or has a new name, is probed for.
LEMMA NewNameInv ==
    ASSUME NEW V \in SUBSET Services, NEW P, PcbInv(P, V), NEW s \in Services,
           NEW Q, Q = Fresh(P, {s})
    PROVE  LET new == InitProbe(Q, {s}, FALSE)
           IN  P.ready => PcbInv(new, V \cup {s}) /\ (P.stray => new.stray)
<1> DEFINE no == FALSE
           W == V \cup {s}
<1>1. no \in BOOLEAN /\ {s} \in SUBSET W /\ W \in SUBSET Services /\ {s} # {}
  OBVIOUS
<1>2. /\ Whole(Q) /\ Q.state = P.state /\ Q.ready = P.ready /\ Q.probing = P.probing
      /\ Q.probed = [t \in Services |-> IF t \in {s} THEN 0 ELSE P.probed[t]]
      /\ Q.stray = P.stray
  <2>1. Whole(P)
    BY DEF PcbInv
  <2> DEFINE N == {s}
  <2>2. Q = Fresh(P, N)
    OBVIOUS
  <2> HIDE DEF N
  <2>3. /\ Whole(Q) /\ Q.state = P.state /\ Q.ready = P.ready /\ Q.probing = P.probing
        /\ Q.probed = [t \in Services |-> IF t \in N THEN 0 ELSE P.probed[t]]
        /\ Q.stray = P.stray
    BY <2>1, <2>2, FreshWhole
  <2> QED  BY <2>3 DEF N
<1> SUFFICES ASSUME P.ready
             PROVE  LET new == InitProbe(Q, {s}, FALSE)
                    IN  PcbInv(new, V \cup {s}) /\ (P.stray => new.stray)
  OBVIOUS
<1>3. (Probing(Q) <=> Probing(P)) /\ P.probing \subseteq V
  BY <1>2 DEF Probing, PcbInv, Within
<1>4. AllAlike => \A t \in W \ {s} : Q.probed[t] = 3 \/ (Probing(Q) /\ t \in Q.probing)
  <2>1. CASE Probing(P)
    <3>1. Known(V, P.probing, P.probed)
      BY <2>1, Busy
    <3> QED  BY <1>2, <1>3, <2>1, <3>1 DEF Known
  <2>2. CASE ~Probing(P)
    <3>1. Known(V, {}, P.probed)
      BY <2>2, Quiet
    <3> QED  BY <1>2, <3>1 DEF Known
  <2> QED  BY <2>1, <2>2
<1>5. (Probing(Q) => Q.probing \subseteq W) /\ Q.ready
  BY <1>2, <1>3
<1> HIDE DEF W, no
<1>6. PcbInv(InitProbe(Q, {s}, no), W) /\ (Q.stray => InitProbe(Q, {s}, no).stray)
  BY <1>1, <1>2, <1>4, <1>5, InitProbeInv
<1> QED  BY <1>2, <1>6 DEF W, no

LEMMA SoundNewName ==
    ASSUME NEW V \in SUBSET Services, NEW P, Sound(P, V), NEW s \in Services
    PROVE  LET Q == Fresh(P, {s})
           IN  Sound(IF Q.ready THEN InitProbe(Q, {s}, FALSE) ELSE Q, V \cup {s})
<1> DEFINE Q == Fresh(P, {s})
           new == InitProbe(Q, {s}, FALSE)
           Y == V \cup {s}
<1>1. CASE Ghost(P)
  <2>1. Ghost(Q)
    BY <1>1, FreshGhost
  <2> QED  BY <2>1 DEF Sound, Ghost
<1>2. CASE Regular(P, V)
  <2>1. PICK W \in SUBSET Services : V \subseteq W /\ (P.stray \/ W = V) /\ PcbInv(P, W)
    BY <1>2 DEF Regular
  <2>2. Q.ready = P.ready
    BY <2>1, FreshWhole DEF PcbInv
  <2>3. CASE ~P.ready
    <3>1. PcbInv(Q, Y) /\ ~Q.ready
      BY <2>1, <2>3, FreshDown
    <3>2. Y \in SUBSET Services
      OBVIOUS
    <3> HIDE DEF Q, Y
    <3>3. Sound(Q, Y)
      BY <3>1, <3>2, PcbSound
    <3> QED  BY <3>1, <3>3 DEF Q, Y
  <2>4. CASE P.ready
    <3> DEFINE X == W \cup {s}
    <3>1. PcbInv(new, X) /\ (P.stray => new.stray)
      <4> HIDE DEF Q
      <4> QED  BY <2>1, <2>4, NewNameInv DEF Q
    <3>2. X \in SUBSET Services /\ Y \subseteq X /\ (W = V => X = Y)
      BY <2>1
    <3> HIDE DEF new, X, Y, Q
    <3>3. Sound(new, Y)
      BY <2>1, <3>1, <3>2 DEF Sound, Regular
    <3> QED  BY <2>2, <2>4, <3>3 DEF new, Y, Q
  <2> QED  BY <2>3, <2>4
<1> QED  BY <1>1, <1>2 DEF Sound

\* A pcb whose probe and packets are forgotten, with new names for N.
LEMMA Forgotten ==
    ASSUME NEW V \in SUBSET Services, NEW S \in SUBSET V, NEW ip \in BOOLEAN,
           NEW Q, Whole(Q), Q.ready, S # {} \/ ip, AllAlike => S = V
    PROVE  PcbInv(InitProbe(ForgetProbe(Q), S, ip), V)
<1> DEFINE X == ForgetProbe(Q)
<1>1. Whole(X) /\ X.probing = {} /\ X.ready = Q.ready /\ X.probed = Q.probed
  BY ForgetProbeWhole
<1>2. Probing(X) => X.probing \subseteq V
  BY <1>1
<1>3. AllAlike => \A s \in V \ S : X.probed[s] = 3 \/ (Probing(X) /\ s \in X.probing)
  OBVIOUS
<1>4. X.ready
  BY <1>1
<1> HIDE DEF X
<1>5. PcbInv(InitProbe(X, S, ip), V)
  BY <1>1, <1>2, <1>3, <1>4, InitProbeInv
<1> QED  BY <1>5 DEF X

\* The probe of a pcb is forgotten, and it starts again, when services have new names.
LEMMA SoundForgotten ==
    ASSUME NEW V \in SUBSET Services, NEW Q, Whole(Q), Q.ready \/ Sound(Q, V),
           NEW S \in SUBSET V, NEW ip \in BOOLEAN, S # {} \/ ip, AllAlike => S = V
    PROVE  LET F == IF Q.ready THEN ForgetProbe(Q) ELSE Q
           IN  Sound(IF F.ready THEN InitProbe(F, S, ip) ELSE F, V)
<1>1. CASE ~Q.ready
  BY <1>1
<1>2. CASE Q.ready
  <2> DEFINE F == ForgetProbe(Q)
             Z == InitProbe(F, S, ip)
  <2>1. F.ready = Q.ready
    BY ForgetProbeWhole
  <2>2. PcbInv(Z, V)
    BY <1>2, Forgotten
  <2> HIDE DEF Z
  <2>3. Sound(Z, V)
    BY <2>2, PcbSound
  <2> HIDE DEF F
  <2> QED  BY <1>2, <2>1, <2>3 DEF F, Z
<1> QED  BY <1>1, <1>2

\* Nothing of a pcb changes when no service has a new name.
LEMMA FreshNone ==
    ASSUME NEW P, Whole(P)
    PROVE  Fresh(P, {}) = P
<1> DEFINE Q == Fresh(P, {})
           counts == [s \in Services |-> IF s \in {} THEN 0 ELSE P.probed[s]]
<1>1. /\ Whole(Q)
      /\ Q.state = P.state /\ Q.ready = P.ready /\ Q.probing = P.probing
      /\ Q.probeIp = P.probeIp /\ Q.probeRunning = P.probeRunning
      /\ Q.packets = P.packets /\ Q.probed = counts /\ Q.stray = P.stray
  BY FreshWhole
<1>2. counts = P.probed
  BY DEF Whole
<1> HIDE DEF Q, counts
<1>3. /\ P = [state |-> P.state, ready |-> P.ready, probing |-> P.probing,
              probeIp |-> P.probeIp, probeRunning |-> P.probeRunning,
              packets |-> P.packets, probed |-> P.probed, stray |-> P.stray]
      /\ Q = [state |-> Q.state, ready |-> Q.ready, probing |-> Q.probing,
              probeIp |-> Q.probeIp, probeRunning |-> Q.probeRunning,
              packets |-> Q.packets, probed |-> Q.probed, stray |-> Q.stray]
  BY <1>1 DEF Whole
<1> QED  BY <1>1, <1>2, <1>3 DEF Q

LEMMA SoundWhole ==
    ASSUME NEW V, NEW P, Sound(P, V)
    PROVE  Whole(P)
  BY DEF Sound, Ghost, Regular, PcbInv

LEMMA SoundFresh ==
    ASSUME NEW V \in SUBSET Services, NEW P, Sound(P, V), NEW N
    PROVE  Whole(Fresh(P, N)) /\ (Fresh(P, N).ready \/ Sound(Fresh(P, N), V))
<1> DEFINE Q == Fresh(P, N)
<1>1. Whole(Q) /\ Q.ready = P.ready
  BY FreshWhole, SoundWhole
<1>2. CASE Ghost(P)
  BY <1>1, <1>2, FreshGhost DEF Sound
<1>3. CASE Regular(P, V) /\ ~P.ready
  <2>1. PICK W \in SUBSET Services : PcbInv(P, W)
    BY <1>3 DEF Regular
  <2>2. PcbInv(Q, V)
    BY <1>3, <2>1, FreshDown
  <2> HIDE DEF Q
  <2>3. Sound(Q, V)
    BY <2>2, PcbSound
  <2> QED  BY <1>1, <2>3 DEF Q
<1>4. CASE P.ready
  BY <1>1, <1>4
<1> QED  BY <1>2, <1>3, <1>4 DEF Sound

\* The packets are forgotten as well.
LEMMA SoundBare ==
    ASSUME NEW V \in SUBSET Services, NEW P, Sound(P, V), NEW N,
           NEW R, R = [Fresh(P, N) EXCEPT !.packets = {}]
    PROVE  Whole(R) /\ (R.ready \/ Sound(R, V))
<1> DEFINE F == Fresh(P, N)
           Q == [F EXCEPT !.packets = {}]
<1>1. Whole(F) /\ (F.ready \/ Sound(F, V))
  BY SoundFresh
<1>0. R = Q
  OBVIOUS
<1> HIDE DEF F
<1>2. Q = [state |-> F.state, ready |-> F.ready, probing |-> F.probing,
           probeIp |-> F.probeIp, probeRunning |-> F.probeRunning,
           packets |-> {}, probed |-> F.probed, stray |-> F.stray]
  <2>1. DOMAIN F = {"state", "ready", "probing", "probeIp", "probeRunning", "packets",
                    "probed", "stray"}
    BY <1>1 DEF Whole
  <2>2. Q = [f \in DOMAIN F |-> IF f = "packets" THEN {} ELSE F[f]]
    BY <2>1
  <2> HIDE DEF Q
  <2> QED  BY <2>1, <2>2
<1> HIDE DEF Q
<1>3. Whole(Q) /\ Q.ready = F.ready /\ Q.stray = F.stray
  BY <1>1, <1>2 DEF Whole
<1>4. CASE F.ready
  BY <1>0, <1>3, <1>4
<1>5. CASE Ghost(F)
  <2>1. Ghost(Q)
    BY <1>3, <1>5 DEF Ghost
  <2> QED  BY <1>0, <1>3, <2>1 DEF Sound
<1>6. CASE Regular(F, V) /\ ~F.ready
  <2>1. PICK W \in SUBSET Services : PcbInv(F, W)
    BY <1>6 DEF Regular
  <2>2. F.packets = {}
    BY <1>6, <2>1, Record
  <2>3. Q = F
    <3>1. F = [state |-> F.state, ready |-> F.ready, probing |-> F.probing,
               probeIp |-> F.probeIp, probeRunning |-> F.probeRunning,
               packets |-> {}, probed |-> F.probed, stray |-> F.stray]
      BY <1>1, <2>2 DEF Whole
    <3> QED  BY <1>2, <3>1
  <2> QED  BY <1>0, <1>1, <2>3
<1> QED  BY <1>0, <1>1, <1>4, <1>5, <1>6 DEF Sound

-----------------------------------------------------------------------------
(* What is done to all pcbs.                                                 *)

AllInv(all, V) ==
    /\ all = [p \in Pcbs |-> all[p]]
    /\ \A p \in Pcbs : Sound(all[p], V)

LEMMA AllNewName ==
    ASSUME NEW V \in SUBSET Services, NEW all, AllInv(all, V), NEW s \in Services
    PROVE  AllInv(ProbeAll(Renamed(all, {s}), {s}, FALSE), V \cup {s})
<1> DEFINE mid == Renamed(all, {s})
           new == ProbeAll(mid, {s}, FALSE)
           W == V \cup {s}
<1>1. new = [p \in Pcbs |-> IF mid[p].ready THEN InitProbe(mid[p], {s}, FALSE) ELSE mid[p]]
  BY DEF ProbeAll
<1>2. \A p \in Pcbs : mid[p] = Fresh(all[p], {s})
  BY DEF Renamed, Fresh
<1>3. ASSUME NEW p \in Pcbs PROVE Sound(new[p], W)
  <2> DEFINE P == all[p]
             Q == Fresh(P, {s})
  <2>1. Sound(P, V)
    BY DEF AllInv
  <2>2. Sound(IF Q.ready THEN InitProbe(Q, {s}, FALSE) ELSE Q, W)
    <3> HIDE DEF P
    <3> QED  BY <2>1, SoundNewName
  <2> QED  BY <1>1, <1>2, <2>2
<1>4. new = [p \in Pcbs |-> new[p]]
  BY <1>1
<1> HIDE DEF new, W
<1> QED  BY <1>3, <1>4 DEF AllInv, new, W

\* The services without a name of their own have a new one.
LEMMA RestartUnnamedInv ==
    ASSUME services \in SUBSET Services, AllAlike => named \in {{}, Services},
           NEW all, AllInv(all, services)
    PROVE  AllInv(RestartUnnamed(Renamed(all, Unnamed)), services)
<1> DEFINE N == Unnamed
           mid == Renamed(all, N)
           new == RestartUnnamed(mid)
           no == FALSE
<1>1. mid = [p \in Pcbs |-> Fresh(all[p], N)]
  BY DEF Renamed, Fresh
<1>2. N \in SUBSET services /\ (AllAlike /\ N # {} => N = services)
  BY DEF Unnamed
<1>3. all = [p \in Pcbs |-> all[p]] /\ \A p \in Pcbs : Sound(all[p], services)
  BY DEF AllInv
<1>4. CASE N = {}
  <2>1. new = mid
    BY <1>4 DEF RestartUnnamed
  <2>2. \A p \in Pcbs : Fresh(all[p], {}) = all[p]
    BY <1>3, FreshNone, SoundWhole
  <2>3. mid = all
    <3> HIDE DEF mid, N
    <3> QED  BY <1>1, <1>3, <1>4, <2>2
  <2> QED  BY <2>1, <2>3
<1>5. CASE N # {}
  <2>1. new = [p \in Pcbs |-> IF ForgetAll(mid)[p].ready
                              THEN InitProbe(ForgetAll(mid)[p], N, no)
                              ELSE ForgetAll(mid)[p]]
    BY <1>5 DEF RestartUnnamed, ProbeAll
  <2>2. ASSUME NEW p \in Pcbs PROVE Sound(new[p], services)
    <3> DEFINE P == all[p]
               Q == Fresh(P, N)
               V == services
               F == IF Q.ready THEN ForgetProbe(Q) ELSE Q
    <3>1. Sound(P, V)
      BY <1>3
    <3>2. Whole(Q) /\ (Q.ready \/ Sound(Q, V))
      <4> HIDE DEF P, N, V
      <4> QED  BY <3>1, SoundFresh DEF V
    <3>3. ForgetAll(mid)[p] = F
      BY <1>1 DEF ForgetAll
    <3>4. V \in SUBSET Services /\ N \in SUBSET V /\ no \in BOOLEAN /\ (N # {} \/ no)
          /\ (AllAlike => N = V)
      BY <1>2, <1>5
    <3>5. Sound(IF F.ready THEN InitProbe(F, N, no) ELSE F, V)
      <4> HIDE DEF Q, N, no, V
      <4> QED  BY <3>2, <3>4, SoundForgotten
    <3> HIDE DEF F, mid
    <3> QED  BY <2>1, <3>3, <3>5
  <2>3. new = [p \in Pcbs |-> new[p]]
    BY <2>1
  <2> HIDE DEF new
  <2> QED  BY <2>2, <2>3 DEF AllInv, new
<1> QED  BY <1>4, <1>5

\* The host, and the services that go by its name, have a new one.
LEMMA RenameHostInv ==
    ASSUME services \in SUBSET Services, NEW all, AllInv(all, services)
    PROVE  AllInv(RenameHost(all), services)
<1> DEFINE N == IF instance THEN {} ELSE Unnamed
           bare == [p \in Pcbs |-> [Renamed(all, N)[p] EXCEPT !.packets = {}]]
           new == RenameHost(all)
           yes == TRUE
<1>1. new = [p \in Pcbs |-> IF ForgetAll(bare)[p].ready
                            THEN InitProbe(ForgetAll(bare)[p], services, yes)
                            ELSE ForgetAll(bare)[p]]
  BY DEF RenameHost, RestartAll, ProbeAll
<1>2. \A p \in Pcbs : bare[p] = [Fresh(all[p], N) EXCEPT !.packets = {}]
  BY DEF Renamed, Fresh
<1>3. \A p \in Pcbs : ForgetAll(bare)[p]
                        = IF bare[p].ready THEN ForgetProbe(bare[p]) ELSE bare[p]
  BY DEF ForgetAll
<1>4. \A p \in Pcbs : Sound(all[p], services)
  BY DEF AllInv
<1> HIDE DEF N, bare
<1>5. ASSUME NEW p \in Pcbs PROVE Sound(new[p], services)
  <2> DEFINE P == all[p]
             Q == bare[p]
             V == services
             F == IF Q.ready THEN ForgetProbe(Q) ELSE Q
  <2>1. Sound(P, V)
    BY <1>4
  <2>2. Q = [Fresh(P, N) EXCEPT !.packets = {}]
    BY <1>2
  <2>3. Whole(Q) /\ (Q.ready \/ Sound(Q, V))
    <3> HIDE DEF P, Q, V
    <3> QED  BY <2>1, <2>2, SoundBare DEF V
  <2>4. V \in SUBSET Services /\ V \in SUBSET V /\ yes \in BOOLEAN /\ yes
    OBVIOUS
  <2>5. Sound(IF F.ready THEN InitProbe(F, V, yes) ELSE F, V)
    <3> HIDE DEF Q, V, yes
    <3> QED  BY <2>3, <2>4, SoundForgotten
  <2>6. ForgetAll(bare)[p] = F
    BY <1>3
  <2> HIDE DEF F, Q, new
  <2> QED  BY <1>1, <2>5, <2>6
<1>6. new = [p \in Pcbs |-> new[p]]
  BY <1>1
<1> HIDE DEF new
<1> QED  BY <1>5, <1>6 DEF AllInv, new

\* One pcb is enabled.
LEMMA EnableInv ==
    ASSUME NEW V \in SUBSET Services, NEW P, Sound(P, V)
    PROVE  Sound(InitProbe([P EXCEPT !.ready = TRUE], V, TRUE), V)
<1> DEFINE yes == TRUE
           Q == [P EXCEPT !.ready = yes]
           W == AlsoFor(Q, V)
           Z == InitProbe(Q, V, yes)
<1>1. Whole(P)
  BY SoundWhole
<1>2. Q = [state |-> P.state, ready |-> yes, probing |-> P.probing, probeIp |-> P.probeIp,
           probeRunning |-> P.probeRunning, packets |-> P.packets, probed |-> P.probed,
           stray |-> P.stray]
  <2>1. DOMAIN P = {"state", "ready", "probing", "probeIp", "probeRunning", "packets",
                    "probed", "stray"}
    BY <1>1 DEF Whole
  <2> HIDE DEF yes
  <2>2. Q = [f \in DOMAIN P |-> IF f = "ready" THEN yes ELSE P[f]]
    BY <2>1
  <2> HIDE DEF Q
  <2> QED  BY <2>1, <2>2
<1>3. yes \in BOOLEAN /\ yes
  OBVIOUS
<1> HIDE DEF Q, yes
<1>4. /\ Whole(Q) /\ Q.ready /\ Q.stray = P.stray /\ Q.probing = P.probing
      /\ (Probing(Q) <=> Probing(P)) /\ Q.probing \subseteq Services
  BY <1>1, <1>2, <1>3 DEF Whole, Probing
<1>5. W \in SUBSET Services /\ V \in SUBSET W /\ (Probing(Q) => Q.probing \subseteq W)
      /\ (\A s \in W \ V : Probing(Q) /\ s \in Q.probing)
  BY <1>4 DEF AlsoFor
<1>6. PcbInv(Z, W) /\ (P.stray => Z.stray)
  <2> HIDE DEF W
  <2>1. PcbInv(InitProbe(Q, V, yes), W) /\ (Q.stray => InitProbe(Q, V, yes).stray)
    BY <1>3, <1>4, <1>5, InitProbeInv
  <2> QED  BY <1>4, <2>1
<1>7. P.stray \/ W = V
  <2>1. CASE Ghost(P)
    BY <2>1 DEF Ghost
  <2>2. CASE Regular(P, V) /\ ~P.stray
    <3>1. PcbInv(P, V)
      BY <2>2 DEF Regular
    <3>2. P.probing \subseteq V
      BY <3>1 DEF PcbInv, Within
    <3> QED  BY <1>4, <3>2 DEF AlsoFor
  <2> QED  BY <2>1, <2>2 DEF Sound
<1> HIDE DEF W, Z
<1>8. Sound(Z, V)
  BY <1>5, <1>6, <1>7 DEF Sound, Regular
<1> QED  BY <1>8 DEF Z, Q, yes

\* A pcb that does not probe starts to.
LEMMA SoundProbe ==
    ASSUME NEW V \in SUBSET Services, NEW P, Sound(P, V), ~P.probeRunning,
           NEW S \in SUBSET V, NEW ip \in BOOLEAN, S # {} \/ ip
    PROVE  Sound(InitProbe(P, S, ip), V)
<1> DEFINE Q == InitProbe(P, S, ip)
<1>1. Whole(P)
  BY SoundWhole
<1>2. CASE ~P.ready
  <2>1. S \in SUBSET Services
    OBVIOUS
  <2>2. Ghost(Q)
    BY <1>1, <1>2, <2>1, GhostBorn
  <2> QED  BY <2>2 DEF Sound
<1>3. CASE P.ready
  <2>1. Regular(P, V)
    BY <1>3 DEF Sound, Ghost
  <2>2. PICK W \in SUBSET Services : V \subseteq W /\ (P.stray \/ W = V) /\ PcbInv(P, W)
    BY <2>1 DEF Regular
  <2>3. ~Probing(P)
    BY <1>1, <2>2 DEF PcbInv, Orderly
  <2>4. Known(W, {}, P.probed)
    BY <1>3, <2>2, <2>3, Quiet
  <2>5. AllAlike => \A t \in W \ S : P.probed[t] = 3 \/ (Probing(P) /\ t \in P.probing)
    BY <2>4 DEF Known
  <2>6. (Probing(P) => P.probing \subseteq W) /\ S \in SUBSET W
    BY <2>2, <2>3
  <2>7. PcbInv(Q, W) /\ (P.stray => Q.stray)
    BY <1>1, <1>3, <2>2, <2>5, <2>6, InitProbeInv
  <2> HIDE DEF Q
  <2>8. Sound(Q, V)
    BY <2>2, <2>7 DEF Sound, Regular
  <2> QED  BY <2>8 DEF Q
<1> QED  BY <1>2, <1>3

\* A pcb that is down may be marked as another's duplicate, or no longer.
LEMMA MarkedInv ==
    ASSUME NEW V, NEW P, PcbInv(P, V), ~P.ready, NEW st \in {"off", "dup"}
    PROVE  PcbInv([P EXCEPT !.state = st], V)
<1> DEFINE Q == [P EXCEPT !.state = st]
<1>1. /\ P.packets = {} /\ P.probing = {} /\ P.probeRunning = FALSE /\ P.ready = FALSE
      /\ Whole(P)
  BY Record DEF PcbInv
<1>2. DOMAIN P = {"state", "ready", "probing", "probeIp", "probeRunning", "packets", "probed", "stray"}
  BY <1>1 DEF Whole
<1>3. Q = [f \in DOMAIN P |-> IF f = "state" THEN st ELSE P[f]]
  BY <1>2
<1> HIDE DEF Q
<1>4. Q = [state |-> st, ready |-> P.ready, probing |-> P.probing, probeIp |-> P.probeIp,
           probeRunning |-> P.probeRunning, packets |-> P.packets, probed |-> P.probed, stray |-> P.stray]
  BY <1>2, <1>3
<1>5. ~Probing(Q)
  BY <1>4 DEF Probing, Probes
<1>6. Whole(Q)
  BY <1>1, <1>4 DEF Whole
<1>7. Orderly(Q) /\ Within(Q, V) /\ Counted(Q, V)
  BY <1>1, <1>4, <1>5 DEF Orderly, Within, Counted
<1> QED  BY <1>6, <1>7 DEF PcbInv, Q

LEMMA SoundMarked ==
    ASSUME NEW V \in SUBSET Services, NEW P, Sound(P, V), ~P.ready, NEW st \in {"off", "dup"}
    PROVE  Sound([P EXCEPT !.state = st], V)
<1> DEFINE Q == [P EXCEPT !.state = st]
<1>1. CASE Ghost(P)
  <2>1. st \in States
    BY DEF States
  <2>2. Ghost(Q)
    BY <1>1, <2>1, GhostsState
  <2> QED  BY <2>2 DEF Sound
<1>2. CASE Regular(P, V)
  <2>1. PICK W \in SUBSET Services : PcbInv(P, W)
    BY <1>2 DEF Regular
  <2>2. PcbInv(P, V)
    BY <2>1, DownStays
  <2>3. PcbInv(Q, V)
    BY <2>2, MarkedInv
  <2> HIDE DEF Q
  <2>4. Sound(Q, V)
    BY <2>3, PcbSound
  <2> QED  BY <2>4 DEF Q
<1> QED  BY <1>1, <1>2 DEF Sound

\* One pcb changes.
LEMMA OneChanges ==
    ASSUME NEW all, NEW V, AllInv(all, V), NEW p \in Pcbs, NEW P, Sound(P, V)
    PROVE  /\ AllInv([all EXCEPT ![p] = P], V)
           /\ [all EXCEPT ![p] = P][p] = P
           /\ \A q \in Pcbs \ {p} : [all EXCEPT ![p] = P][q] = all[q]
<1> DEFINE new == [all EXCEPT ![p] = P]
<1>1. all = [q \in Pcbs |-> all[q]] /\ \A q \in Pcbs : Sound(all[q], V)
  BY DEF AllInv
<1>2. new = [q \in Pcbs |-> IF q = p THEN P ELSE all[q]]
  BY <1>1
<1> HIDE DEF new
<1>3. \A q \in Pcbs : Sound(new[q], V)
  BY <1>1, <1>2
<1>4. new = [q \in Pcbs |-> new[q]]
  BY <1>2
<1>5. AllInv(new, V)
  BY <1>3, <1>4 DEF AllInv
<1> QED  BY <1>2, <1>5 DEF new

-----------------------------------------------------------------------------
(* The action queue.                                                         *)

Queued == \E T : queue \in Seq(T)

\* The tail of a queue, and the queue with one more action.
LEMMA TailShape ==
    ASSUME NEW T, NEW q \in Seq(T), q # <<>>
    PROVE  /\ Len(q) \in Nat \ {0} /\ DOMAIN q = 1 .. Len(q) /\ Head(q) = q[1]
           /\ Tail(q) \in Seq(T) /\ DOMAIN Tail(q) = 1 .. Len(q) - 1
           /\ \A i \in 1 .. Len(q) - 1 : Tail(q)[i] = q[i + 1]
<1>1. /\ Len(q) \in Nat \ {0} /\ DOMAIN q = 1 .. Len(q) /\ Head(q) = q[1]
      /\ Tail(q) \in Seq(T) /\ Len(Tail(q)) = Len(q) - 1
      /\ \A i \in 1 .. Len(Tail(q)) : Tail(q)[i] = q[i + 1]
  BY HeadTailProperties, LenProperties, EmptySeq
<1> QED  BY <1>1, LenProperties

LEMMA AppendShape ==
    ASSUME NEW T, NEW q \in Seq(T), NEW x
    PROVE  /\ Len(q) \in Nat /\ DOMAIN q = 1 .. Len(q)
           /\ Append(q, x) \in Seq(T \cup {x}) /\ DOMAIN Append(q, x) = 1 .. Len(q) + 1
           /\ \A i \in 1 .. Len(q) : Append(q, x)[i] = q[i]
           /\ Append(q, x)[Len(q) + 1] = x
<1>1. Len(q) \in Nat /\ DOMAIN q = 1 .. Len(q)
  BY LenProperties
<1>2. q \in Seq(T \cup {x})
  BY <1>1, SeqDef
<1>3. /\ Append(q, x) \in Seq(T \cup {x}) /\ Len(Append(q, x)) = Len(q) + 1
      /\ \A i \in 1 .. Len(q) : Append(q, x)[i] = q[i]
      /\ Append(q, x)[Len(q) + 1] = x
  BY <1>2, AppendProperties
<1> QED  BY <1>1, <1>3, LenProperties

\* What is at i of the tail was at i + 1.
LEMMA Shifted ==
    ASSUME NEW n \in Nat, NEW i \in 1 .. n - 1
    PROVE  /\ i + 1 \in 1 .. n /\ (i + 1) - 1 = i /\ 1 \in 1 .. i
           /\ \A j \in 1 .. i - 1 : j \in 1 .. n - 1 /\ j + 1 \in 1 .. i
  OBVIOUS

\* What is taken leaves the rest in order, if it was what had to come first.
LEMMA TakeInv ==
    ASSUME Queued, QueueInv, queue # <<>>, queue' = Tail(queue),
           \A s \in services : \/ s \in services'
                               \/ Head(queue) = Act("service del", <<s>>)
                               \/ Head(queue) = Act("services clear", <<>>)
    PROVE  Queued' /\ QueueInv'
<1> DEFINE n == Len(queue)
<1>1. PICK T : queue \in Seq(T)
  BY DEF Queued
<1>2. /\ n \in Nat \ {0} /\ DOMAIN queue = 1 .. n /\ Head(queue) = queue[1]
      /\ Tail(queue) \in Seq(T) /\ DOMAIN Tail(queue) = 1 .. n - 1
      /\ \A i \in 1 .. n - 1 : Tail(queue)[i] = queue[i + 1]
  BY <1>1, TailShape
<1> HIDE DEF n
<1>3. DOMAIN queue' = 1 .. n - 1 /\ \A i \in 1 .. n - 1 : queue'[i] = queue[i + 1]
  BY <1>2
<1>4. \A i \in 1 .. n - 1 : /\ i + 1 \in 1 .. n /\ (i + 1) - 1 = i /\ 1 \in 1 .. i
                           /\ \A j \in 1 .. i - 1 : j \in 1 .. n - 1 /\ j + 1 \in 1 .. i
  BY <1>2, Shifted
<1>5. ASSUME NEW i \in 1 .. n - 1, NEW type, NEW of, Ahead(i, type, of)'
      PROVE  Ahead(i + 1, type, of)
  <2>1. PICK j \in 1 .. i - 1 : queue'[j] = Act(type, of)
    BY <1>5 DEF Ahead, Act
  <2>2. j \in 1 .. n - 1 /\ j + 1 \in 1 .. (i + 1) - 1 /\ queue[j + 1] = Act(type, of)
    BY <1>3, <1>4, <2>1
  <2> QED  BY <2>2 DEF Ahead
<1>6. ASSUME NEW i \in 1 .. n - 1, NEW type, NEW of, ~Ahead(i + 1, type, of)
      PROVE  Head(queue) # Act(type, of)
  <2>1. 1 \in 1 .. (i + 1) - 1
    BY <1>4
  <2> QED  BY <1>2, <1>6, <2>1 DEF Ahead
<1>7. ASSUME NEW i \in 1 .. n - 1, NEW a, a = queue[i + 1]
      PROVE  Fits(a, i)'
  <2>1. Fits(a, i + 1)
    BY <1>2, <1>4, <1>7 DEF QueueInv
  <2>2. ASSUME a.type \in OfCall
        PROVE  /\ a.of[1] \in services'
               /\ ~Ahead(i, "service del", <<a.of[1]>>)' /\ ~Ahead(i, "services clear", <<>>)'
    <3> DEFINE s == a.of[1]
    <3>1. s \in services /\ ~Ahead(i + 1, "service del", <<s>>)
          /\ ~Ahead(i + 1, "services clear", <<>>)
      BY <2>1, <2>2 DEF Fits
    <3>2. Head(queue) # Act("service del", <<s>>) /\ Head(queue) # Act("services clear", <<>>)
      BY <1>6, <3>1
    <3>3. ~Ahead(i, "service del", <<s>>)' /\ ~Ahead(i, "services clear", <<>>)'
      BY <1>5, <3>1
    <3> HIDE DEF s
    <3>4. s \in services'
      BY <3>1, <3>2
    <3> QED  BY <3>3, <3>4 DEF s
  <2> QED  BY <2>1, <2>2 DEF Fits, Act, OfPcb, OfService, OfCall
<1>8. QueueInv'
  BY <1>3, <1>7 DEF QueueInv
<1>9. Queued'
  BY <1>2 DEF Queued
<1> QED  BY <1>8, <1>9

\* What is posted comes last.
LEMMA PostInv ==
    ASSUME Queued, QueueInv, NEW type, NEW of, queue' = Append(queue, Act(type, of)),
           services' = services,
           Fits(Act(type, of), Len(queue) + 1)
    PROVE  Queued' /\ QueueInv'
<1> DEFINE last == Act(type, of)
<1>1. PICK T : queue \in Seq(T)
  BY DEF Queued
<1>2. Len(queue) \in Nat /\ DOMAIN queue = 1 .. Len(queue)
  BY <1>1, LenProperties
<1>4. /\ Append(queue, last) \in Seq(T \cup {last})
      /\ DOMAIN Append(queue, last) = 1 .. Len(queue) + 1
      /\ \A i \in 1 .. Len(queue) : Append(queue, last)[i] = queue[i]
      /\ Append(queue, last)[Len(queue) + 1] = last
  BY <1>1, AppendShape
<1>5. DOMAIN queue' = 1 .. Len(queue) + 1
  BY <1>4
<1>6. ASSUME NEW i \in 1 .. Len(queue) + 1, NEW t, NEW o, Ahead(i, t, o)'
      PROVE  Ahead(i, t, o)
  <2>1. PICK j \in 1 .. i - 1 : queue'[j] = Act(t, o)
    BY <1>6 DEF Ahead, Act
  <2>2. j \in 1 .. Len(queue)
    BY <1>2, <2>1
  <2> QED  BY <1>4, <2>1, <2>2 DEF Ahead
<1>7. ASSUME NEW i \in 1 .. Len(queue) + 1, NEW a, Fits(a, i)
      PROVE  Fits(a, i)'
  <2>1. ASSUME a.type \in OfCall
        PROVE  /\ a.of[1] \in services'
               /\ ~Ahead(i, "service del", <<a.of[1]>>)' /\ ~Ahead(i, "services clear", <<>>)'
    <3> DEFINE s == a.of[1]
    <3>1. s \in services /\ ~Ahead(i, "service del", <<s>>)
          /\ ~Ahead(i, "services clear", <<>>)
      BY <1>7, <2>1 DEF Fits
    <3>2. ~Ahead(i, "service del", <<s>>)' /\ ~Ahead(i, "services clear", <<>>)'
      BY <1>6, <3>1
    <3> QED  BY <3>1, <3>2
  <2> QED  BY <1>7, <2>1 DEF Fits, Act, OfPcb, OfService, OfCall
<1>8. ASSUME NEW i \in 1 .. Len(queue) + 1, NEW a, a = queue'[i] PROVE Fits(a, i)'
  <2>1. CASE i \in 1 .. Len(queue)
    <3>1. Fits(a, i)
      BY <1>2, <1>4, <1>8, <2>1 DEF QueueInv
    <3> QED  BY <1>7, <3>1
  <2>2. CASE i = Len(queue) + 1
    <3>1. a = last
      BY <1>4, <1>8, <2>2
    <3>2. Fits(a, i)
      BY <2>2, <3>1
    <3> QED  BY <1>7, <3>2
  <2> QED  BY <1>2, <2>1, <2>2
<1>9. QueueInv'
  BY <1>5, <1>8 DEF QueueInv
<1>10. Queued'
  BY <1>4 DEF Queued
<1> QED  BY <1>9, <1>10

-----------------------------------------------------------------------------
(* The mdns task takes an action.                                            *)

MInv == RespondInv /\ QueueInv /\ Queued

LEMMA Held ==
    ASSUME MInv
    PROVE  /\ services \in SUBSET Services /\ AllInv(pcb, services)
           /\ AllAlike => named \in {{}, Services}
           /\ \A p \in Pcbs : Sound(pcb[p], services)
  BY DEF MInv, RespondInv, AllInv

\* What is taken is in order.
LEMMA HeadFits ==
    ASSUME MInv, NEW type, Take(type)
    PROVE  /\ queue # <<>> /\ queue' = Tail(queue)
           /\ Head(queue).type = type /\ Fits(Head(queue), 1)
<1>1. queue # <<>> /\ queue' = Tail(queue) /\ Head(queue).type = type
  BY DEF Take
<1>2. PICK T : queue \in Seq(T)
  BY DEF MInv, Queued
<1>3. Len(queue) \in Nat \ {0} /\ DOMAIN queue = 1 .. Len(queue) /\ Head(queue) = queue[1]
  BY <1>1, <1>2, TailShape
<1>4. Fits(queue[1], 1)
  BY <1>3 DEF MInv, QueueInv
<1> QED  BY <1>1, <1>3, <1>4

\* What an action of the task leaves as it should be.
Done ==
    /\ queue # <<>> /\ queue' = Tail(queue) /\ named' = named
    /\ services' \subseteq Services
    /\ AllInv(pcb', services')
    /\ \A s \in services : \/ s \in services'
                           \/ Head(queue) = Act("service del", <<s>>)
                           \/ Head(queue) = Act("services clear", <<>>)

LEMMA DoneInv ==
    ASSUME MInv, Done
    PROVE  MInv'
<1>1. Queued' /\ QueueInv'
  BY TakeInv DEF MInv, Done
<1>2. RespondInv'
  BY DEF MInv, RespondInv, Done, AllInv
<1> QED  BY <1>1, <1>2 DEF MInv

\* It is enough that no service is removed.
LEMMA AllStay ==
    ASSUME MInv, NEW type, Take(type), named' = named, services' = services,
           AllInv(pcb', services)
    PROVE  Done
  BY Held, HeadFits DEF Done

LEMMA Renaming ==
    ASSUME MInv, HostnameSet \/ InstanceSet
    PROVE  Done
<1>1. CASE HostnameSet
  <2>1. /\ Take("hostname set") /\ named' = named /\ services' = services
        /\ pcb' = RenameHost(pcb)
    BY <1>1 DEF HostnameSet
  <2>2. AllInv(pcb', services)
    BY <2>1, Held, RenameHostInv
  <2> QED  BY <2>1, <2>2, AllStay
<1>2. CASE InstanceSet
  <2>1. /\ Take("instance set") /\ named' = named /\ services' = services
        /\ pcb' = RestartUnnamed(Renamed(pcb, Unnamed))
    BY <1>2 DEF InstanceSet
  <2>2. AllInv(pcb', services)
    BY <2>1, Held, RestartUnnamedInv
  <2> QED  BY <2>1, <2>2, AllStay
<1> QED  BY <1>1, <1>2

LEMMA Registering ==
    ASSUME MInv, ServiceAdd \/ ServiceInstanceSet
    PROVE  Done
<1> DEFINE s == Subject
<1>1. CASE ServiceAdd
  <2>1. /\ Take("service add") /\ named' = named /\ services' = services \cup {s}
        /\ pcb' = ProbeAll(Renamed(pcb, {s}), {s}, FALSE)
    BY <1>1 DEF ServiceAdd
  <2>2. queue # <<>> /\ queue' = Tail(queue) /\ s \in Services
    BY <2>1, HeadFits DEF Fits, OfService, Subject
  <2> HIDE DEF s
  <2>3. AllInv(pcb', services \cup {s})
    BY <2>1, <2>2, Held, AllNewName
  <2> QED  BY <2>1, <2>2, <2>3, Held DEF Done
<1>2. CASE ServiceInstanceSet
  <2>1. /\ Take("service instance set") /\ named' = named /\ services' = services
        /\ pcb' = ProbeAll(Renamed(pcb, {s}), {s}, FALSE)
    BY <1>2 DEF ServiceInstanceSet
  <2>2. s \in services
    BY <2>1, HeadFits DEF Fits, OfCall, Subject
  <2> HIDE DEF s
  <2>3. s \in Services /\ services \cup {s} = services
    BY <2>2, Held
  <2>4. AllInv(pcb', services \cup {s})
    BY <2>1, <2>3, Held, AllNewName
  <2> QED  BY <2>1, <2>3, <2>4, AllStay
<1> QED  BY <1>1, <1>2

LEMMA Changing ==
    ASSUME MInv, ServiceChange
    PROVE  Done
<1> DEFINE s == Subject
           ip == Head(queue).type = "port set"
<1>1. /\ Take("port set") \/ Take("txt set")
      /\ named' = named /\ services' = services
      /\ \E first \in Firsts :
           pcb' = [p \in Pcbs |-> Announce(pcb[p], {s}, ip, first[p])]
  BY DEF ServiceChange
<1>2. PICK first : pcb' = [p \in Pcbs |-> Announce(pcb[p], {s}, ip, first[p])]
  BY <1>1
<1>3. s \in services
  <2>1. CASE Take("port set")
    BY <2>1, HeadFits DEF Fits, OfCall, Subject
  <2>2. CASE Take("txt set")
    BY <2>2, HeadFits DEF Fits, OfCall, Subject
  <2> QED  BY <1>1, <2>1, <2>2
<1>4. ip \in BOOLEAN /\ {s} \in SUBSET services /\ {s} # {}
  BY <1>3
<1> HIDE DEF s, ip
<1>5. ASSUME NEW p \in Pcbs
      PROVE  Sound(pcb'[p], services)
  <2> DEFINE P == pcb[p]
             f == first[p]
  <2>1. Sound(P, services) /\ services \in SUBSET Services
    BY Held
  <2>2. pcb'[p] = Announce(P, {s}, ip, f)
    BY <1>2
  <2> HIDE DEF P, f
  <2> DEFINE V == services
             S == {s}
  <2>3. V \in SUBSET Services /\ S \in SUBSET V /\ Sound(P, V) /\ S # {}
    BY <1>4, <2>1
  <2> HIDE DEF V, S
  <2>4. Sound(Announce(P, S, ip, f), V)
    BY <1>4, <2>3, SoundAnnounce
  <2> QED  BY <2>2, <2>4 DEF V, S
<1>6. AllInv(pcb', services)
  BY <1>2, <1>5 DEF AllInv
<1> QED  BY <1>1, <1>6, AllStay

LEMMA Removing ==
    ASSUME MInv, ServiceDel \/ ServicesClear
    PROVE  Done
<1>1. ASSUME NEW S \in SUBSET Services, pcb' = RemoveAll(pcb, S)
      PROVE  AllInv(pcb', services \ S)
  <2>1. ASSUME NEW p \in Pcbs
        PROVE  Sound(pcb'[p], services \ S)
    <3>1. services \in SUBSET Services /\ Sound(pcb[p], services)
      BY Held
    <3> DEFINE all == pcb
               V == services
    <3>2. V \in SUBSET Services /\ Sound(all[p], V)
      BY <3>1
    <3> HIDE DEF all, V
    <3>3. Sound(RemoveAll(all, S)[p], V \ S)
      BY <3>2, RemoveAllInv
    <3> QED  BY <1>1, <3>3 DEF all, V
  <2>2. pcb' = [p \in Pcbs |-> pcb'[p]]
    BY <1>1 DEF RemoveAll
  <2> QED  BY <2>1, <2>2 DEF AllInv
<1>2. CASE ServiceDel
  <2> DEFINE s == Subject
  <2>1. /\ Take("service del") /\ named' = named /\ services' = services \ {s}
        /\ pcb' = RemoveAll(pcb, {s})
    BY <1>2 DEF ServiceDel
  <2>2. queue # <<>> /\ queue' = Tail(queue) /\ s \in Services
        /\ Head(queue) = Act("service del", <<s>>)
    <3>1. Fits(Head(queue), 1) /\ Head(queue).type = "service del"
          /\ queue # <<>> /\ queue' = Tail(queue)
      BY <2>1, HeadFits
    <3>2. Head(queue) = Act("service del", Head(queue).of) /\ Head(queue).of = <<s>>
          /\ s \in Services
      BY <3>1 DEF Fits, Subject, OfService
    <3> QED  BY <3>1, <3>2
  <2> HIDE DEF s
  <2>3. {s} \in SUBSET Services
    BY <2>2
  <2>4. AllInv(pcb', services \ {s})
    BY <1>1, <2>1, <2>3
  <2> QED  BY <2>1, <2>2, <2>4, Held DEF Done
<1>3. CASE ServicesClear
  <2>1. /\ Take("services clear") /\ named' = named /\ services' = {}
        /\ pcb' = RemoveAll(pcb, services)
    BY <1>3 DEF ServicesClear
  <2>2. queue # <<>> /\ queue' = Tail(queue) /\ Head(queue) = Act("services clear", <<>>)
    <3>1. Fits(Head(queue), 1) /\ Head(queue).type = "services clear"
          /\ queue # <<>> /\ queue' = Tail(queue)
      BY <2>1, HeadFits
    <3> QED  BY <3>1 DEF Fits
  <2>3. AllInv(pcb', services \ services)
    BY <1>1, <2>1, Held
  <2>4. services \ services = {}
    OBVIOUS
  <2> QED  BY <2>1, <2>2, <2>3, <2>4 DEF Done
<1> QED  BY <1>2, <1>3

\* One pcb changes.
LEMMA OneStep ==
    ASSUME MInv, NEW p \in Pcbs, NEW Q, Sound(Q, services), pcb' = [pcb EXCEPT ![p] = Q]
    PROVE  AllInv(pcb', services)
<1> DEFINE all == pcb
           V == services
<1>1. AllInv(all, V) /\ Sound(Q, V)
  BY Held
<1> HIDE DEF all, V
<1>2. AllInv([all EXCEPT ![p] = Q], V)
  BY <1>1, OneChanges
<1> QED  BY <1>2 DEF all, V

LEMMA AnnounceAddressInv ==
    ASSUME MInv, AnnounceAddress
    PROVE  Done
<1> DEFINE p == Subject
           yes == TRUE
<1>1. /\ Take("announce") /\ named' = named /\ services' = services
      /\ \E first \in Firsts : pcb' = [pcb EXCEPT ![p] = Announce(pcb[p], {}, yes, first[p])]
  BY DEF AnnounceAddress
<1>2. PICK first : pcb' = [pcb EXCEPT ![p] = Announce(pcb[p], {}, yes, first[p])]
  BY <1>1
<1>3. p \in Pcbs
  BY <1>1, HeadFits DEF Fits, OfPcb, Subject
<1>4. yes \in BOOLEAN /\ yes
  OBVIOUS
<1> DEFINE P == pcb[p]
           f == first[p]
           none == {}
           Q == Announce(P, none, yes, f)
<1> HIDE DEF p, yes
<1>5. Sound(P, services) /\ services \in SUBSET Services
  BY <1>3, Held
<1>6. Sound(Q, services)
  <2>1. none \in SUBSET services
    OBVIOUS
  <2> DEFINE V == services
  <2>2. V \in SUBSET Services /\ Sound(P, V) /\ none \in SUBSET V
    BY <1>5
  <2>4. none # {} \/ yes
    BY <1>4
  <2> HIDE DEF P, f, none, V
  <2>3. Sound(Q, V)
    BY <1>4, <2>2, <2>4, SoundAnnounce
  <2> QED  BY <2>3 DEF V
<1>7. pcb' = [pcb EXCEPT ![p] = Q]
  BY <1>2
<1> HIDE DEF Q
<1>8. AllInv(pcb', services)
  BY <1>3, <1>6, <1>7, OneStep DEF P
<1> QED  BY <1>1, <1>8, AllStay

LEMMA Sending ==
    ASSUME MInv, TxPacket
    PROVE  Done
<1> DEFINE p == Subject
           due == {k \in pcb[p].packets : k.id = Second /\ k.queued}
           k == CHOOSE j \in due : TRUE
           P == pcb[p]
           Q == TxHandle(P, k)
<1>1. /\ Take("tx") /\ named' = named /\ services' = services
      /\ pcb' = IF due = {} THEN pcb ELSE [pcb EXCEPT ![p] = Q]
  BY DEF TxPacket
<1>2. p \in Pcbs
  BY <1>1, HeadFits DEF Fits, OfPcb, Subject
<1>3. CASE due = {}
  BY <1>1, <1>3, Held, AllStay
<1>4. CASE due # {}
  <2>1. k \in P.packets
    BY <1>4
  <2>2. Sound(P, services) /\ services \in SUBSET Services
    BY <1>2, Held
  <2> HIDE DEF p, P, k
  <2>3. Sound(Q, services)
    BY <2>1, <2>2, SoundSend
  <2>4. pcb' = [pcb EXCEPT ![p] = Q]
    BY <1>1, <1>4
  <2> HIDE DEF Q
  <2>5. AllInv(pcb', services)
    BY <1>2, <2>3, <2>4, OneStep DEF P
  <2> HIDE DEF due
  <2> QED  BY <1>1, <2>5, AllStay
<1> QED  BY <1>3, <1>4

LEMMA Answering ==
    ASSUME MInv, RxQuery
    PROVE  Done
<1> DEFINE p == Subject
           P == pcb[p]
           asked == {Second} \cap services
           k == NewPacket(P.packets, {}, asked, {Host})
           K == P.packets \cup {k}
           Q == [P EXCEPT !.packets = K]
<1>1. /\ Take("query") /\ named' = named /\ services' = services
      /\ pcb' = IF asked # {} /\ (Announcing(P) \/ P.state = "running")
                THEN [pcb EXCEPT ![p].packets = pcb[p].packets \cup {k}] ELSE pcb
  BY DEF RxQuery
<1>2. p \in Pcbs
  BY <1>1, HeadFits DEF Fits, OfPcb, Subject
<1>3. CASE ~(asked # {} /\ (Announcing(P) \/ P.state = "running"))
  BY <1>1, <1>3, Held, AllStay
<1>4. CASE asked # {} /\ (Announcing(P) \/ P.state = "running")
  <2>1. Sound(P, services) /\ services \in SUBSET Services
    BY <1>2, Held
  <2>2. pcb' = [pcb EXCEPT ![p] = Q]
    BY <1>1, <1>4
  <2>3. P.state \in {"running", "announce1", "announce2", "announce3"}
    BY <1>4 DEF Announcing, Announcements
  <2>4. /\ k = [id |-> k.id, asks |-> k.asks, answers |-> k.answers,
                others |-> k.others, queued |-> k.queued]
        /\ k.asks = {} /\ k.answers = asked /\ k.others = {Host}
    BY DEF NewPacket
  <2>5. asked \subseteq services /\ Host \notin Services
    BY ResponderAssumption
  <2> HIDE DEF p, P, k, asked
  <2>6. Packed(k) /\ k.asks = {} /\ (k.answers \cup k.others) \cap Services \subseteq services
    BY <2>1, <2>4, <2>5 DEF Packed
  <2>7. Sound(Q, services)
    <3> DEFINE V == services
    <3>1. V \in SUBSET Services /\ Sound(P, V) /\ (k.answers \cup k.others) \cap Services \subseteq V
      BY <2>1, <2>6
    <3> HIDE DEF V
    <3>2. Sound([P EXCEPT !.packets = @ \cup {k}], V)
      BY <2>3, <2>6, <3>1, SoundAdded
    <3> QED  BY <3>2 DEF V
  <2> HIDE DEF Q
  <2>8. AllInv(pcb', services)
    BY <1>2, <2>2, <2>7, OneStep DEF P
  <2> QED  BY <1>1, <2>8, AllStay
<1> QED  BY <1>3, <1>4

\* A name is lost to another host.
LEMMA Colliding ==
    ASSUME MInv, RxServiceCollision \/ RxAddressCollision
    PROVE  Done
<1> DEFINE p == Subject
           s == Second
           P == pcb[p]
<1>1. ASSUME p \in Pcbs, ~P.probeRunning, NEW S \in SUBSET services, NEW ip \in BOOLEAN,
             S # {} \/ ip, pcb' = [pcb EXCEPT ![p] = InitProbe(P, S, ip)]
      PROVE  AllInv(pcb', services)
  <2> DEFINE Q == InitProbe(P, S, ip)
             V == services
  <2>1. Sound(P, V) /\ V \in SUBSET Services /\ S \in SUBSET V
    BY <1>1, Held
  <2>2. Sound(Q, services)
    <3> HIDE DEF P, V
    <3>1. Sound(InitProbe(P, S, ip), V)
      BY <1>1, <2>1, SoundProbe
    <3> QED  BY <3>1 DEF V
  <2>3. pcb' = [pcb EXCEPT ![p] = Q]
    BY <1>1
  <2> HIDE DEF Q, p
  <2> QED  BY <1>1, <2>2, <2>3, OneStep
<1>2. CASE RxServiceCollision
  <2>1. PICK withIp \in BOOLEAN :
          /\ Take("service collision") /\ named' = named /\ services' = services
          /\ pcb' =
               CASE s \notin services -> pcb
                 [] s \in services /\ ~P.probeRunning ->
                      [pcb EXCEPT ![p] = InitProbe(P, {s}, withIp)]
                 [] s \in services /\ P.probeRunning /\ s \in named ->
                      ProbeAll(Renamed(pcb, {s}), {s}, FALSE)
                 [] s \in services /\ P.probeRunning /\ s \notin named /\ instance ->
                      RestartUnnamed(Renamed(pcb, Unnamed))
                 [] OTHER -> RenameHost(pcb)
    BY <1>2 DEF RxServiceCollision
  <2>2. p \in Pcbs /\ s \in Services
    BY <2>1, HeadFits DEF Fits, OfPcb, Subject, Second
  <2>3. /\ services \in SUBSET Services /\ AllInv(pcb, services)
        /\ AllAlike => named \in {{}, Services}
    BY Held
  <2>4. CASE s \notin services
    <3>1. pcb' = pcb
      BY <2>1, <2>4
    <3> QED  BY <2>1, <2>3, <3>1, AllStay
  <2>5. CASE s \in services /\ ~P.probeRunning
    <3>1. pcb' = [pcb EXCEPT ![p] = InitProbe(P, {s}, withIp)]
      BY <2>1, <2>5
    <3>2. {s} \in SUBSET services /\ {s} # {}
      BY <2>5
    <3>3. AllInv(pcb', services)
      BY <1>1, <2>2, <2>5, <3>1, <3>2
    <3> QED  BY <2>1, <3>3, AllStay
  <2>6. CASE s \in services /\ P.probeRunning /\ s \in named
    <3>1. pcb' = ProbeAll(Renamed(pcb, {s}), {s}, FALSE)
      BY <2>1, <2>6
    <3>2. services \cup {s} = services
      BY <2>6
    <3> HIDE DEF s
    <3>3. AllInv(pcb', services \cup {s})
      BY <2>2, <2>3, <3>1, AllNewName
    <3> QED  BY <2>1, <3>2, <3>3, AllStay
  <2>7. CASE s \in services /\ P.probeRunning /\ s \notin named /\ instance
    <3>1. pcb' = RestartUnnamed(Renamed(pcb, Unnamed))
      BY <2>1, <2>7
    <3>2. AllInv(pcb', services)
      BY <2>3, <3>1, RestartUnnamedInv
    <3> QED  BY <2>1, <3>2, AllStay
  <2>8. CASE s \in services /\ P.probeRunning /\ s \notin named /\ ~instance
    <3>1. pcb' = RenameHost(pcb)
      BY <2>1, <2>8
    <3>2. AllInv(pcb', services)
      BY <2>3, <3>1, RenameHostInv
    <3> QED  BY <2>1, <3>2, AllStay
  <2> HIDE DEF s, P
  <2> QED  BY <2>4, <2>5, <2>6, <2>7, <2>8
<1>3. CASE RxAddressCollision
  <2>1. /\ Take("address collision") /\ named' = named /\ services' = services
        /\ pcb' = IF P.probeRunning THEN RenameHost(pcb)
                  ELSE [pcb EXCEPT ![p] = InitProbe(P, {}, TRUE)]
    BY <1>3 DEF RxAddressCollision
  <2>2. p \in Pcbs
    BY <2>1, HeadFits DEF Fits, OfPcb, Subject
  <2>3. CASE P.probeRunning
    <3>1. AllInv(pcb', services)
      BY <2>1, <2>3, Held, RenameHostInv
    <3> QED  BY <2>1, <3>1, AllStay
  <2>4. CASE ~P.probeRunning
    <3> DEFINE yes == TRUE
    <3>1. pcb' = [pcb EXCEPT ![p] = InitProbe(P, {}, yes)]
      BY <2>1, <2>4
    <3>2. yes \in BOOLEAN /\ yes /\ {} \in SUBSET services
      OBVIOUS
    <3> HIDE DEF yes
    <3>3. AllInv(pcb', services)
      BY <1>1, <2>2, <2>4, <3>1, <3>2
    <3> QED  BY <2>1, <3>3, AllStay
  <2> QED  BY <2>3, <2>4
<1> QED  BY <1>2, <1>3

LEMMA DownItself ==
    ASSUME NEW p, NEW V
    PROVE  PcbInv(Down(p), V) /\ ~Down(p).ready
<1> DEFINE D == Down(p)
           no == FALSE
           zero == [s \in Services |-> 0]
<1>1. D = [state |-> "off", ready |-> no, probing |-> {}, probeIp |-> no,
           probeRunning |-> no, packets |-> {}, probed |-> zero, stray |-> no]
  BY DEF Down
<1>2. ~no
  OBVIOUS
<1> HIDE DEF D, no, zero
<1>3. PcbInv([D EXCEPT !.state = "off"], V)
  BY DownInv DEF D
<1>4. DOMAIN D = {"state", "ready", "probing", "probeIp", "probeRunning", "packets", "probed", "stray"}
      /\ D.state = "off" /\ ~D.ready
  BY <1>1, <1>2
<1>5. D = [f \in DOMAIN D |-> D[f]]
  BY <1>1
<1>6. [D EXCEPT !.state = "off"] = D
  BY <1>4, <1>5
<1> QED  BY <1>3, <1>4, <1>6 DEF D

\* One pcb is enabled, if the network is there.
LEMMA EnablePcbInv ==
    ASSUME services \in SUBSET Services, NEW all, AllInv(all, services),
           NEW p \in Pcbs, NEW up
    PROVE  AllInv(EnablePcb(all, p, up), services)
<1> DEFINE new == EnablePcb(all, p, up)
           Q == InitProbe([all[p] EXCEPT !.ready = TRUE], services, TRUE)
<1>1. new = IF ~all[p].ready /\ ~up THEN all ELSE [all EXCEPT ![p] = Q]
  BY DEF EnablePcb
<1>2. Sound(Q, services)
  <2> DEFINE P == all[p]
             V == services
  <2>1. Sound(P, V) /\ V \in SUBSET Services
    BY DEF AllInv
  <2> HIDE DEF P, V
  <2>2. Sound(InitProbe([P EXCEPT !.ready = TRUE], V, TRUE), V)
    BY <2>1, EnableInv
  <2> QED  BY <2>2 DEF P, V
<1> HIDE DEF Q, new
<1>3. AllInv([all EXCEPT ![p] = Q], services)
  BY <1>2, OneChanges
<1> QED  BY <1>1, <1>3 DEF new

LEMMA Enabling ==
    ASSUME MInv, Enable
    PROVE  Done
<1> DEFINE p == Subject
<1>1. /\ Take("enable") /\ named' = named /\ services' = services
      /\ \E up \in BOOLEAN : pcb' = EnablePcb(pcb, p, up)
  BY DEF Enable
<1>2. PICK up \in BOOLEAN : pcb' = EnablePcb(pcb, p, up)
  BY <1>1
<1>3. p \in Pcbs
  BY <1>1, HeadFits DEF Fits, OfPcb, Subject
<1> HIDE DEF p
<1>4. AllInv(pcb', services)
  BY <1>2, <1>3, Held, EnablePcbInv
<1> QED  BY <1>1, <1>4, AllStay

LEMMA Disabling ==
    ASSUME MInv, Disable
    PROVE  Done
<1> DEFINE p == Subject
           twin == Twin[p]
           down == [pcb EXCEPT ![p] = Down(p)]
           off == [down[twin] EXCEPT !.state = "off"]
           woken == [down EXCEPT ![twin] = off]
           marked == [pcb[p] EXCEPT !.state = "off"]
<1>1. /\ Take("disable") /\ named' = named /\ services' = services
      /\ IF pcb[p].ready /\ pcb[twin].state = "dup"
         THEN \E up \in BOOLEAN : pcb' = EnablePcb(woken, twin, up)
         ELSE pcb' = IF pcb[p].ready THEN down ELSE [pcb EXCEPT ![p] = marked]
  BY DEF Disable
<1>2. /\ p \in Pcbs /\ queue # <<>> /\ queue' = Tail(queue)
      /\ Head(queue) = Act("disable", <<p>>)
  <2>1. Fits(Head(queue), 1) /\ Head(queue).type = "disable"
        /\ queue # <<>> /\ queue' = Tail(queue)
    BY <1>1, HeadFits
  <2>2. Head(queue) = Act("disable", Head(queue).of) /\ Head(queue).of = <<p>> /\ p \in Pcbs
    BY <2>1 DEF Fits, Subject, OfPcb
  <2> QED  BY <2>1, <2>2
<1>3. twin \in Pcbs /\ twin # p
  BY <1>2, ResponderAssumption
<1>4. ASSUME AllInv(pcb', services)
      PROVE  Done
  <2> HIDE DEF p
  <2> QED  BY <1>1, <1>2, <1>4, Held DEF Done
<1>5. services \in SUBSET Services /\ AllInv(pcb, services)
      /\ \A q \in Pcbs : Sound(pcb[q], services)
  BY Held
<1>6. /\ AllInv(down, services) /\ down[p] = Down(p)
      /\ \A q \in Pcbs \ {p} : down[q] = pcb[q]
  <2> DEFINE D == Down(p)
             all == pcb
             V == services
  <2>1. Sound(D, V) /\ AllInv(all, V)
    BY <1>5, DownItself, PcbSound
  <2> HIDE DEF D, p, all, V
  <2>2. /\ AllInv([all EXCEPT ![p] = D], V) /\ [all EXCEPT ![p] = D][p] = D
        /\ \A q \in Pcbs \ {p} : [all EXCEPT ![p] = D][q] = all[q]
    BY <1>2, <2>1, OneChanges
  <2> QED  BY <2>2 DEF D, all, V
<1> HIDE DEF down, p, twin
<1>7. CASE pcb[p].ready /\ pcb[twin].state = "dup"
  <2>1. PICK up \in BOOLEAN : pcb' = EnablePcb(woken, twin, up)
    BY <1>1, <1>7
  <2>2. down[twin] = pcb[twin] /\ Sound(down[twin], services)
    BY <1>3, <1>5, <1>6
  <2>3. ~down[twin].ready
    <3>1. down[twin].state = "dup"
      BY <1>7, <2>2
    <3> QED  BY <2>2, <3>1 DEF Sound, Ghost, Regular, PcbInv, Orderly
  <2>4. Sound(off, services)
    <3> DEFINE P == down[twin]
               V == services
    <3>1. V \in SUBSET Services /\ Sound(P, V) /\ ~P.ready
      BY <1>5, <2>2, <2>3
    <3> HIDE DEF P, V
    <3>2. Sound([P EXCEPT !.state = "off"], V)
      BY <3>1, SoundMarked
    <3> QED  BY <3>2 DEF P, V
  <2> HIDE DEF off
  <2>5. AllInv(woken, services)
    BY <1>3, <1>6, <2>4, OneChanges
  <2> HIDE DEF woken
  <2>6. AllInv(pcb', services)
    BY <1>3, <1>5, <2>1, <2>5, EnablePcbInv
  <2> QED  BY <1>4, <2>6
<1>8. CASE pcb[p].ready /\ pcb[twin].state # "dup"
  <2>1. pcb' = down
    BY <1>1, <1>8
  <2> QED  BY <1>4, <1>6, <2>1
<1>9. CASE ~pcb[p].ready
  <2>1. pcb' = [pcb EXCEPT ![p] = marked]
    BY <1>1, <1>9
  <2>2. Sound(marked, services)
    <3> DEFINE P == pcb[p]
               V == services
    <3>1. V \in SUBSET Services /\ Sound(P, V) /\ ~P.ready
      BY <1>2, <1>5, <1>9
    <3> HIDE DEF P, V
    <3>2. Sound([P EXCEPT !.state = "off"], V)
      BY <3>1, SoundMarked
    <3> QED  BY <3>2 DEF P, V
  <2> HIDE DEF marked
  <2>3. AllInv(pcb', services)
    BY <1>2, <2>1, <2>2, OneStep
  <2> QED  BY <1>4, <2>3
<1> QED  BY <1>7, <1>8, <1>9

\* An interface falls silent, and the other one announces the host's address.
LEMMA Duplicated ==
    ASSUME MInv, RxTwin
    PROVE  Done
<1> DEFINE p == Subject
           twin == Twin[p]
           dup == [(IF pcb[p].ready THEN Down(p) ELSE pcb[p]) EXCEPT !.state = "dup"]
           yes == TRUE
           told(first) == Announce(pcb[twin], {}, yes, first[twin])
<1>1. /\ Take("twin") /\ named' = named /\ services' = services
      /\ IF ~pcb[twin].ready THEN pcb' = pcb
         ELSE \E first \in Firsts :
                pcb' = [pcb EXCEPT ![p] = dup, ![twin] = Announce(@, {}, yes, first[twin])]
  BY DEF RxTwin
<1>2. /\ p \in Pcbs /\ queue # <<>> /\ queue' = Tail(queue)
      /\ Head(queue) = Act("twin", <<p>>)
  <2>1. Fits(Head(queue), 1) /\ Head(queue).type = "twin"
        /\ queue # <<>> /\ queue' = Tail(queue)
    BY <1>1, HeadFits
  <2>2. Head(queue) = Act("twin", Head(queue).of) /\ Head(queue).of = <<p>> /\ p \in Pcbs
    BY <2>1 DEF Fits, Subject, OfPcb
  <2> QED  BY <2>1, <2>2
<1>3. twin \in Pcbs /\ twin # p
  BY <1>2, ResponderAssumption
<1>4. ASSUME AllInv(pcb', services)
      PROVE  Done
  <2> HIDE DEF p
  <2> QED  BY <1>1, <1>2, <1>4, Held DEF Done
<1>5. services \in SUBSET Services /\ AllInv(pcb, services)
      /\ \A q \in Pcbs : Sound(pcb[q], services)
  BY Held
<1>6. Sound(dup, services)
  <2>1. CASE pcb[p].ready
    <3> DEFINE D == [Down(p) EXCEPT !.state = "dup"]
    <3>1. PcbInv(D, services)
      BY DownInv
    <3> HIDE DEF D
    <3>2. Sound(D, services)
      BY <1>5, <3>1, PcbSound
    <3> QED  BY <2>1, <3>2 DEF D
  <2>2. CASE ~pcb[p].ready
    <3> DEFINE P == pcb[p]
               V == services
    <3>1. V \in SUBSET Services /\ Sound(P, V) /\ ~P.ready
      BY <1>2, <1>5, <2>2
    <3> HIDE DEF P, V
    <3>2. Sound([P EXCEPT !.state = "dup"], V)
      BY <3>1, SoundMarked
    <3> QED  BY <2>2, <3>2 DEF P, V
  <2> QED  BY <2>1, <2>2
<1>7. CASE ~pcb[twin].ready
  <2>1. pcb' = pcb
    BY <1>1, <1>7
  <2> QED  BY <1>4, <1>5, <2>1
<1>8. CASE pcb[twin].ready
  <2>1. PICK first \in Firsts :
          pcb' = [pcb EXCEPT ![p] = dup, ![twin] = Announce(@, {}, yes, first[twin])]
    BY <1>1, <1>8
  <2> HIDE DEF dup, p, twin
  <2> DEFINE T == told(first)
             mid == [pcb EXCEPT ![p] = dup]
  <2>2. Sound(T, services)
    <3> DEFINE P == pcb[twin]
               f == first[twin]
               none == {}
               V == services
    <3>1. V \in SUBSET Services /\ Sound(P, V) /\ none \in SUBSET V
      BY <1>3, <1>5
    <3>2. yes \in BOOLEAN /\ (none # {} \/ yes)
      OBVIOUS
    <3> HIDE DEF P, f, none, V, yes
    <3>3. Sound(Announce(P, none, yes, f), V)
      BY <3>1, <3>2, SoundAnnounce
    <3> QED  BY <3>3 DEF P, f, none, V
  <2>3. pcb' = [mid EXCEPT ![twin] = T]
    <3>1. mid[twin] = pcb[twin]
      BY <1>2, <1>3, <1>5 DEF AllInv
    <3> QED  BY <2>1, <3>1
  <2> HIDE DEF T
  <2>4. AllInv(mid, services) /\ \A q \in Pcbs \ {p} : mid[q] = pcb[q]
    <3> DEFINE all == pcb
               V == services
    <3>1. AllInv(all, V) /\ Sound(dup, V)
      BY <1>5, <1>6
    <3> HIDE DEF all, V
    <3>2. AllInv([all EXCEPT ![p] = dup], V) /\ \A q \in Pcbs \ {p} : [all EXCEPT ![p] = dup][q] = all[q]
      BY <1>2, <3>1, OneChanges
    <3> QED  BY <3>2 DEF all, V
  <2> HIDE DEF mid
  <2>5. AllInv([mid EXCEPT ![twin] = T], services)
    <3> DEFINE V == services
    <3>1. AllInv(mid, V) /\ Sound(T, V)
      BY <2>2, <2>4
    <3> HIDE DEF V
    <3>2. AllInv([mid EXCEPT ![twin] = T], V)
      BY <1>3, <3>1, OneChanges
    <3> QED  BY <3>2 DEF V
  <2> QED  BY <1>4, <2>3, <2>5
<1> QED  BY <1>7, <1>8

-----------------------------------------------------------------------------
(* The timer and what is posted.                                             *)

LEMMA SchedulerInv ==
    ASSUME MInv, NEW p \in Pcbs, SchedulerRun(p)
    PROVE  MInv'
<1>1. PICK k \in pcb[p].packets :
        /\ queue' = Append(queue, Act("tx", <<p, k.id>>))
        /\ pcb' = [pcb EXCEPT ![p].packets
                                = (pcb[p].packets \ {k}) \cup {[k EXCEPT !.queued = TRUE]}]
  BY DEF SchedulerRun
<1>2. services' = services /\ named' = named
  BY DEF SchedulerRun
<1> DEFINE P == pcb[p]
           Q == [P EXCEPT !.packets = (P.packets \ {k}) \cup {[k EXCEPT !.queued = TRUE]}]
<1>3. Sound(Q, services)
  <2> DEFINE V == services
  <2>1. Sound(P, V) /\ V \in SUBSET Services /\ k \in P.packets
    BY Held
  <2> HIDE DEF P, V
  <2> QED  BY <2>1, SoundRequeue DEF V
<1>4. pcb' = [pcb EXCEPT ![p] = Q]
  BY <1>1
<1> HIDE DEF Q
<1>5. AllInv(pcb', services)
  BY <1>3, <1>4, OneStep
<1>6. Fits(Act("tx", <<p, k.id>>), Len(queue) + 1)
  BY DEF Fits, Act, OfPcb, OfService, OfCall
<1>7. Queued' /\ QueueInv'
  BY <1>1, <1>2, <1>5, <1>6, PostInv DEF MInv
<1>8. RespondInv'
  BY <1>2, <1>5 DEF MInv, RespondInv, AllInv
<1> QED  BY <1>7, <1>8 DEF MInv

\* What is posted fits where it comes.
LEMMA PostedInv ==
    ASSUME MInv, NEW type, NEW of, Post(type, of), Fits(Act(type, of), Len(queue) + 1)
    PROVE  MInv'
<1>1. queue' = Append(queue, Act(type, of)) /\ pcb' = pcb /\ services' = services /\ named' = named
  BY DEF Post
<1>2. Queued' /\ QueueInv'
  BY <1>1, PostInv DEF MInv
<1>3. AllInv(pcb', services)
  BY <1>1, Held
<1>4. RespondInv'
  BY <1>1, <1>3 DEF MInv, RespondInv, AllInv
<1> QED  BY <1>2, <1>4 DEF MInv

\* What does not wait is not in front of what is posted next.
LEMMA NotAhead ==
    ASSUME MInv, NEW type, NEW of, ~Pending(type, of)
    PROVE  ~Ahead(Len(queue) + 1, type, of)
<1>1. PICK T : queue \in Seq(T)
  BY DEF MInv, Queued
<1>2. Len(queue) \in Nat /\ DOMAIN queue = 1 .. Len(queue)
  BY <1>1, LenProperties
<1>3. 1 .. (Len(queue) + 1) - 1 = DOMAIN queue
  BY <1>2
<1> QED  BY <1>3 DEF Ahead, Pending

LEMMA CallInv ==
    ASSUME MInv, CallApi
    PROVE  MInv'
<1> USE DEF Fits, Act, OfPcb, OfService, OfCall
<1>1. CASE Post("hostname set", <<>>)
  <2>1. Fits(Act("hostname set", <<>>), Len(queue) + 1)
    OBVIOUS
  <2> HIDE DEF Fits, Act
  <2> QED  BY <1>1, <2>1, PostedInv
<1>2. CASE Post("instance set", <<>>)
  <2>1. Fits(Act("instance set", <<>>), Len(queue) + 1)
    OBVIOUS
  <2> HIDE DEF Fits, Act
  <2> QED  BY <1>2, <2>1, PostedInv
<1>3. CASE Post("services clear", <<>>)
  <2>1. Fits(Act("services clear", <<>>), Len(queue) + 1)
    OBVIOUS
  <2> HIDE DEF Fits, Act
  <2> QED  BY <1>3, <2>1, PostedInv
<1>4. ASSUME NEW s \in Services, Post("service add", <<s>>) PROVE MInv'
  <2>1. Fits(Act("service add", <<s>>), Len(queue) + 1)
    OBVIOUS
  <2> HIDE DEF Fits, Act
  <2> QED  BY <1>4, <2>1, PostedInv
<1>5. ASSUME NEW s \in Services, Post("service del", <<s>>) PROVE MInv'
  <2>1. Fits(Act("service del", <<s>>), Len(queue) + 1)
    OBVIOUS
  <2> HIDE DEF Fits, Act
  <2> QED  BY <1>5, <2>1, PostedInv
<1>6. ASSUME NEW s \in Services, Registered(s),
             NEW type \in {"port set", "txt set", "service instance set"},
             Post(type, <<s>>)
      PROVE  MInv'
  <2>1. /\ s \in services
        /\ ~Ahead(Len(queue) + 1, "service del", <<s>>)
        /\ ~Ahead(Len(queue) + 1, "services clear", <<>>)
    <3> HIDE DEF Act
    <3> QED  BY <1>6, NotAhead DEF Registered
  <2>2. Fits(Act(type, <<s>>), Len(queue) + 1)
    BY <2>1
  <2> HIDE DEF Fits, Act
  <2> QED  BY <1>6, <2>2, PostedInv
<1> HIDE DEF Fits, Act
<1> QED  BY <1>1, <1>2, <1>3, <1>4, <1>5, <1>6 DEF CallApi

LEMMA EventInv ==
    ASSUME MInv, SystemEvent
    PROVE  MInv'
<1>1. PICK p \in Pcbs, event \in {"enable", "disable", "announce"} : Post(event, <<p>>)
  BY DEF SystemEvent
<1>2. Fits(Act(event, <<p>>), Len(queue) + 1)
  BY DEF Fits, Act, OfPcb, OfService, OfCall
<1> QED  BY <1>1, <1>2, PostedInv

LEMMA HearInv ==
    ASSUME MInv, Receive
    PROVE  MInv'
<1>1. PICK p \in Pcbs :
        /\ Hears(p)
        /\ \/ \E s \in services :
                Post("query", <<p, s>>) \/ Post("service collision", <<p, s>>)
           \/ Post("address collision", <<p>>)
           \/ Post("twin", <<p>>)
  BY DEF Receive
<1>2. ASSUME NEW s \in services, NEW type \in {"query", "service collision"},
             Post(type, <<p, s>>)
      PROVE  MInv'
  <2>1. s \in Services
    BY Held
  <2>2. Fits(Act(type, <<p, s>>), Len(queue) + 1)
    BY <2>1 DEF Fits, Act, OfPcb, OfService, OfCall
  <2> QED  BY <1>2, <2>2, PostedInv
<1>3. ASSUME NEW type \in {"address collision", "twin"}, Post(type, <<p>>)
      PROVE  MInv'
  <2>1. Fits(Act(type, <<p>>), Len(queue) + 1)
    BY DEF Fits, Act, OfPcb, OfService, OfCall
  <2> QED  BY <1>3, <2>1, PostedInv
<1> QED  BY <1>1, <1>2, <1>3

-----------------------------------------------------------------------------
(* The invariant of the responder.                                           *)

LEMMA InitMInv ==
    ASSUME Init
    PROVE  MInv
<1>1. PICK up \in SUBSET Pcbs :
        /\ pcb = [p \in Pcbs |-> IF p \notin up THEN Down(p)
                                 ELSE InitProbe([Down(p) EXCEPT !.ready = TRUE], {}, TRUE)]
        /\ services \in IF up = {} THEN SUBSET Services ELSE {{}}
  BY DEF Init
<1>2. /\ named \in IF AllAlike THEN {{}, Services} ELSE SUBSET Services
      /\ queue = <<>>
  BY DEF Init
<1>3. services \subseteq Services /\ (up # {} => services = {})
  BY <1>1
<1>4. ASSUME NEW p \in Pcbs PROVE Sound(pcb[p], services)
  <2>1. CASE p \notin up
    BY <1>1, <1>3, <2>1, DownItself, PcbSound
  <2>2. CASE p \in up
    <3> DEFINE D == Down(p)
    <3>1. {} \in SUBSET Services
      OBVIOUS
    <3>2. Sound(D, {})
      BY <3>1, DownItself, PcbSound
    <3> HIDE DEF D
    <3>3. Sound(InitProbe([D EXCEPT !.ready = TRUE], {}, TRUE), {})
      BY <3>1, <3>2, EnableInv
    <3> QED  BY <1>1, <1>3, <2>2, <3>3 DEF D
  <2> QED  BY <2>1, <2>2
<1>5. RespondInv
  BY <1>1, <1>2, <1>3, <1>4 DEF RespondInv
<1>6. queue \in Seq({}) /\ DOMAIN queue = {}
  BY <1>2, EmptySeq
<1> QED  BY <1>5, <1>6 DEF MInv, QueueInv, Queued

LEMMA NextMInv ==
    ASSUME MInv, [Next]_vars
    PROVE  MInv'
<1>1. ASSUME TaskRuns PROVE MInv'
  <2>1. Done
    BY <1>1, Renaming, Registering, Changing, Removing, AnnounceAddressInv, Sending, Answering,
       Colliding, Enabling, Disabling, Duplicated DEF TaskRuns
  <2> QED  BY <2>1, DoneInv
<1>2. ASSUME NEW p \in Pcbs, SchedulerRun(p) PROVE MInv'
  BY <1>2, SchedulerInv
<1>3. ASSUME CallApi \/ SystemEvent \/ Receive PROVE MInv'
  BY <1>3, CallInv, EventInv, HearInv
<1>4. ASSUME UNCHANGED vars PROVE MInv'
  <2>1. /\ pcb' = pcb /\ services' = services /\ named' = named /\ queue' = queue
    BY <1>4 DEF vars
  <2>2. RespondInv'
    <3>1. AllInv(pcb', services)
      BY <2>1, Held
    <3> QED  BY <2>1, <3>1 DEF MInv, RespondInv, AllInv
  <2>3. QueueInv' /\ Queued'
    BY <2>1 DEF MInv, QueueInv, Fits, Ahead, Queued
  <2> QED  BY <2>2, <2>3 DEF MInv
<1> QED  BY <1>1, <1>2, <1>3, <1>4 DEF Next

LEMMA Responds ==
    Spec => []MInv
<1>1. Init => MInv
  BY InitMInv
<1>2. MInv /\ [Next]_vars => MInv'
  BY NextMInv
<1> QED  BY <1>1, <1>2, PTL DEF Spec

(* The fate of a packet is decided by the state of its interface; so while an *)
(* interface that is up probes, nothing but its one probe may wait there, and *)
(* no probe may wait when it does not, whatever came in while it went down    *)
(* (_mdns_init_pcb_probe, _mdns_tx_handle_packet).                            *)
THEOREM OneProbeAtATime ==
    Spec => []ProbeOnItsWay
<1>1. MInv => ProbeOnItsWay
  <2> SUFFICES ASSUME MInv, NEW p \in Pcbs, pcb[p].ready
               PROVE  LET P == pcb[p]
                      IN  IF Probing(P)
                          THEN /\ P.probeRunning
                               /\ \E k \in P.packets : P.packets = {k} /\ k.asks \cap Services = P.probing
                          ELSE /\ ~P.probeRunning /\ P.probing = {}
                               /\ \A k \in P.packets : k.asks = {}
    BY DEF ProbeOnItsWay
  <2> DEFINE P == pcb[p]
  <2>1. Orderly(P) /\ Whole(P)
    BY Held DEF Sound, Ghost, Regular, PcbInv
  <2>2. Host \notin Services
    BY ResponderAssumption
  <2>3. P.probing \subseteq Services /\ HostIf(P.probeIp) \subseteq {Host}
    BY <2>1 DEF Whole, HostIf
  <2> HIDE DEF P
  <2>4. (P.probing \cup HostIf(P.probeIp)) \cap Services = P.probing
    BY <2>2, <2>3
  <2> QED  BY <2>1, <2>4 DEF Orderly, P
<1> QED  BY <1>1, Responds, PTL

(* No packet and no probe names a service that was removed: their pointers    *)
(* into its memory are gone with it (_mdns_remove_scheduled_service_packets); *)
(* only what a probe started on a pcb that was down has left may name one,    *)
(* until that pcb is cleaned up.                                              *)
THEOREM PacketsNameServices ==
    Spec => []NothingDangles
<1>1. MInv => NothingDangles
  <2> SUFFICES ASSUME MInv, NEW p \in Pcbs, ~pcb[p].stray
               PROVE  Within(pcb[p], services)
    BY DEF NothingDangles, Within
  <2>1. Sound(pcb[p], services)
    BY Held
  <2> QED  BY <2>1 DEF Sound, Ghost, Regular, PcbInv
<1> QED  BY <1>1, Responds, PTL

(* On an interface that is up, a service is announced and answered for only   *)
(* where its name was probed for three times, provided that all services go   *)
(* by the default instance name or none does, whatever was started while the  *)
(* interface was down (RFC 6762, 8.1; _mdns_tx_handle_packet).                *)
THEOREM ProbedBeforeTold ==
    ASSUME AllAlike
    PROVE  Spec => []OnlyProbedIsTold
<1>1. MInv => OnlyProbedIsTold
  <2> SUFFICES ASSUME MInv, NEW p \in Pcbs, pcb[p].ready, NEW k \in pcb[p].packets, k.asks = {},
                      NEW s \in (k.answers \cup k.others) \cap Services
               PROVE  pcb[p].probed[s] = 3
    BY DEF OnlyProbedIsTold
  <2> DEFINE P == pcb[p]
  <2>1. P.ready /\ k \in P.packets /\ \E W \in SUBSET Services : PcbInv(P, W)
    BY Held DEF Sound, Ghost, Regular
  <2> HIDE DEF P
  <2>2. PICK W \in SUBSET Services : PcbInv(P, W)
    BY <2>1
  <2>3. ~Probing(P)
    <3> SUFFICES ASSUME Probing(P) PROVE FALSE
      OBVIOUS
    <3>1. PICK i \in P.packets : /\ P.packets = {i}
                                 /\ i.asks = P.probing \cup HostIf(P.probeIp)
      BY <2>2 DEF PcbInv, Orderly
    <3>2. P.probing \cup HostIf(P.probeIp) # {}
      BY <2>1, <2>2, Busy
    <3>3. i = k
      BY <2>1, <3>1
    <3> QED  BY <3>1, <3>2, <3>3
  <2>4. s \in W /\ Known(W, {}, P.probed)
    BY <2>1, <2>2, <2>3, Quiet
  <2> QED  BY <2>4 DEF Known, P
<1> QED  BY <1>1, Responds, PTL

=============================================================================
