---------------------------- MODULE MdnsResponder ----------------------------
(***************************************************************************)
(* The responder of the mDNS component (mdns.c): on every interface a pcb  *)
(* probes for the names of the host and its services, announces them and   *)
(* answers for them, while services come and go, interfaces go up and down *)
(* and other hosts claim the same names.                                   *)
(*                                                                         *)
(* Everything is done by the mdns task, one action of its queue at a time  *)
(* and under the service lock; callers, system events and the network post *)
(* actions, the timer posts the packets that are due.                      *)
(*                                                                         *)
(* Times are left open: any packet that waits may be the next that is due. *)
(* Packets are sets of names, a service's or the host's; the host name is  *)
(* set (mdns_hostname_set), memory is always found, and no two services    *)
(* share a type.  Only IPv4 pcbs are modelled, one for each interface, and *)
(* goodbyes, which are sent at once and wait in no queue, are left out.    *)
(***************************************************************************)
EXTENDS Integers, FiniteSets, Sequences, SequencesExt

CONSTANTS
    Services,    \* services that may be registered
    Pcbs,        \* the interfaces
    Twin,        \* [Pcbs -> the interface that may serve the same network]
    Host,        \* the host's own name
    QueueSize,   \* MDNS_ACTION_QUEUE_LEN
    AllAlike,    \* all services have an instance name of their own, or none has
    MaxCalls     \* calls, events and packets from outside: a bound of the model

ASSUME ResponderAssumption ==
    /\ Twin \in [Pcbs -> Pcbs]
    /\ \A p \in Pcbs : Twin[p] # p
    /\ Host \notin Services
    /\ IsFiniteSet(Services)
    /\ QueueSize \in Nat \ {0}
    /\ AllAlike \in BOOLEAN
    /\ MaxCalls \in Nat

VARIABLES
    pcb,        \* [Pcbs -> the state of the interface's pcb]
    services,   \* _mdns_server->services
    named,      \* the services with an instance name of their own
    instance,   \* a default instance name has been set
    queue,      \* the action queue
    calls       \* calls, events and packets so far

vars == <<pcb, services, named, instance, queue, calls>>

Names == Services \cup {Host}

PacketIds == 1 .. MaxCalls + 2

\* A packet of the transmit queue: what it asks, its answers, and the records
\* of its other sections; whether the timer has posted it already.
Packet == [id : PacketIds, asks : SUBSET Names, answers : SUBSET Names,
           others : SUBSET Names, queued : BOOLEAN]

Probes == {"probe1", "probe2", "probe3"}

Announcements == {"announce1", "announce2", "announce3"}

\* Two fields are not the program's.  probed: how many probes for a service were
\* sent since it got its name or lost a claim to it.  stray: a probe was started
\* while the pcb was not ready, and the pcb has not been cleaned up since.
Pcb == [state : {"off", "dup", "running"} \cup Probes \cup Announcements,
        ready : BOOLEAN, probing : SUBSET Services, probeIp : BOOLEAN,
        probeRunning : BOOLEAN, packets : SUBSET Packet,
        probed : [Services -> 0 .. 3], stray : BOOLEAN]

Act(type, of) == [type |-> type, of |-> of]

TypeOK ==
    /\ pcb \in [Pcbs -> Pcb]
    /\ services \subseteq Services
    /\ named \in SUBSET Services
    /\ instance \in BOOLEAN
    /\ calls \in 0 .. MaxCalls

Down(p) == [state |-> "off", ready |-> FALSE, probing |-> {}, probeIp |-> FALSE,
            probeRunning |-> FALSE, packets |-> {},
            probed |-> [s \in Services |-> 0], stray |-> FALSE]

Probing(P) == P.state \in Probes

Announcing(P) == P.state \in Announcements

\* Memory that was freed last is handed out first.
NewId(K) == CHOOSE i \in PacketIds :
    /\ \A k \in K : k.id # i
    /\ \A j \in PacketIds : j < i => \E k \in K : k.id = j

NewPacket(K, asks, answers, others) ==
    [id |-> NewId(K), asks |-> asks, answers |-> answers, others |-> others,
     queued |-> FALSE]

HostIf(ip) == IF ip THEN {Host} ELSE {}

-----------------------------------------------------------------------------
(* What is done to one pcb *)

\* Variant: what waited to be sent is kept.
InitProbeKeepsPackets(P, S, ip) ==
    LET all == IF Probing(P) THEN S \cup P.probing ELSE S
        names == all \cup HostIf(P.probeIp \/ ip)
    IN  [P EXCEPT !.packets = @ \cup {NewPacket(@, names, {}, names)},
                  !.state = "probe1",
                  !.probing = all,
                  !.probeIp = @ \/ ip,
                  !.probeRunning = TRUE,
                  !.probed = [s \in Services |-> IF s \in all THEN 0 ELSE @[s]],
                  !.stray = @ \/ ~P.ready]

\* _mdns_init_pcb_probe: whatever waited to be sent is dropped; the services
\* that were being probed for start again together with the new ones.  Whether the
\* pcb is ready is not asked.  (A pcb that kept services from a probe without being
\* in one makes the code copy them behind the end of its array; what lies there is
\* left out.)
InitProbe(P, S, ip) ==
    LET all == IF Probing(P) THEN S \cup P.probing ELSE S
        withIp == P.probeIp \/ ip
        names == all \cup HostIf(withIp)
    IN  [P EXCEPT !.packets = {NewPacket({}, names, {}, names)},
                  !.state = "probe1",
                  !.probing = all,
                  !.probeIp = withIp,
                  !.probeRunning = TRUE,
                  !.probed = [s \in Services |-> IF s \in all THEN 0 ELSE @[s]],
                  !.stray = @ \/ ~P.ready]

\* The old probe is forgotten first: the services it was for are not in the
\* new one unless they are named again.
ForgetProbe(P) == [P EXCEPT !.probing = {}, !.probeRunning = FALSE, !.stray = FALSE]

\* _mdns_announce_pcb; first is the packet of the pcb that is due next.
Announce(P, S, ip, first) ==
    CASE ~P.ready -> P
      [] P.ready /\ Probing(P) -> InitProbe(P, S, ip)
      [] P.ready /\ Announcing(P) /\ first \in P.packets ->
           [P EXCEPT !.state = "announce1",
                     !.packets = (@ \ {first}) \cup
                         {[first EXCEPT !.answers = @ \cup S \cup HostIf(ip)]}]
      [] P.ready /\ P.state = "running" ->
           [P EXCEPT !.state = "announce1",
                     !.packets = @ \cup {NewPacket(@, {}, S, HostIf(ip))}]
      [] OTHER -> P

\* Any packet of a pcb may be the one that is due next.
NoPacket == [id |-> 0, asks |-> {}, answers |-> {}, others |-> {}, queued |-> FALSE]

Firsts == {f \in [Pcbs -> {NoPacket} \cup UNION {pcb[p].packets : p \in Pcbs}] :
              \A p \in Pcbs : f[p] \in IF pcb[p].packets = {} THEN {NoPacket}
                                       ELSE pcb[p].packets}

\* Variant: the records of the other sections are forgotten.
StripAnswersOnly(P, k, s) ==
    [k EXCEPT !.answers = @ \ {s},
              !.asks = IF P.ready /\ Probing(P) /\ s \in P.probing THEN @ \ {s} ELSE @]

\* What remains of a packet when service s is gone.
Strip(P, k, s) ==
    [k EXCEPT !.answers = @ \ {s},
              !.others = @ \ {s},
              !.asks = IF P.ready /\ Probing(P) /\ s \in P.probing THEN @ \ {s} ELSE @]

Empty(k) == k.asks = {} /\ k.answers = {} /\ k.others = {}

\* _mdns_remove_scheduled_service_packets visits the packets of the pcb; the
\* rest of its state is touched from there only.
RemoveScheduled(P, s) ==
    LET left == {k \in {Strip(P, j, s) : j \in P.packets} : ~Empty(k)}
        over == \/ Probing(P) /\ P.probing = {s} /\ ~P.probeIp
                \/ Announcing(P) /\ \E k \in P.packets : k.answers = {s}
        touched == P.ready /\ P.packets # {}
    IN  [P EXCEPT !.packets = left,
                  !.probing = IF touched /\ Probing(P) THEN @ \ {s} ELSE @,
                  !.probeRunning = @ /\ ~(touched /\ Probing(P) /\ over),
                  !.state = IF touched /\ over THEN "running" ELSE @]

\* Packet k is sent; if it is a probe it counts.
Dispatch(P, k) ==
    [P EXCEPT !.probed = [s \in Services |->
        IF P.ready /\ s \in k.asks /\ @[s] < 3 THEN @[s] + 1 ELSE @[s]]]

\* Variant: a packet that is sent again stays marked as posted.
AgainKept(P, k, state) == [P EXCEPT !.state = state]

Again(P, k, state) ==
    [P EXCEPT !.packets = (@ \ {k}) \cup {[k EXCEPT !.queued = FALSE]},
              !.state = state]

\* The announcement of what packet k probed for; a service brings the host's
\* address with it.
AnnounceFromProbe(P, k) ==
    LET names == k.others \cup HostIf(k.others \cap Services # {})
    IN  [P EXCEPT !.packets = (@ \ {k}) \cup {NewPacket(@, {}, names, {})},
                  !.state = "announce1",
                  !.probing = {},
                  !.probeIp = FALSE,
                  !.probeRunning = FALSE]

\* Variant: two probes are enough.
TxHandleTwoProbes(P, k) ==
    LET Q == Dispatch(P, k)
    IN  CASE P.state = "off" -> [P EXCEPT !.packets = @ \ {k}]
          [] P.state = "probe1" -> Again(Q, k, "probe2")
          [] P.state \in {"probe2", "probe3"} -> AnnounceFromProbe(Q, k)
          [] P.state = "announce1" -> Again(Q, k, "announce2")
          [] P.state = "announce2" -> Again(Q, k, "announce3")
          [] OTHER -> [Q EXCEPT !.packets = @ \ {k}, !.state = "running"]

\* _mdns_tx_handle_packet: what becomes of a packet that was sent depends on
\* the state of its pcb, not on what it is.
TxHandle(P, k) ==
    LET Q == Dispatch(P, k)
    IN  CASE P.state = "off" -> [P EXCEPT !.packets = @ \ {k}]
          [] P.state = "probe1" -> Again(Q, k, "probe2")
          [] P.state = "probe2" -> Again(Q, k, "probe3")
          [] P.state = "probe3" -> AnnounceFromProbe(Q, k)
          [] P.state = "announce1" -> Again(Q, k, "announce2")
          [] P.state = "announce2" -> Again(Q, k, "announce3")
          [] P.state = "announce3" -> [Q EXCEPT !.packets = @ \ {k}, !.state = "running"]
          [] OTHER -> [Q EXCEPT !.packets = @ \ {k}]

-----------------------------------------------------------------------------
\* The host got its name when mdns_init had enabled the interface that was up,
\* with no service yet; a service added when none is up needs no packet.
Init ==
    /\ \E up \in {u \in SUBSET Pcbs : Cardinality(u) <= 1} :
         /\ pcb = [p \in Pcbs |-> IF p \notin up THEN Down(p)
                                  ELSE InitProbe([Down(p) EXCEPT !.ready = TRUE], {}, TRUE)]
         /\ services \in IF up = {} THEN SUBSET Services ELSE {{}}
    /\ named \in IF AllAlike THEN {{}, Services} ELSE SUBSET Services
    /\ instance \in BOOLEAN
    /\ queue = <<>>
    /\ calls = 0

-----------------------------------------------------------------------------
(* What is done to all of them *)

ProbeAll(all, S, ip) ==
    [p \in Pcbs |-> IF all[p].ready THEN InitProbe(all[p], S, ip) ELSE all[p]]

ForgetAll(all) ==
    [p \in Pcbs |-> IF all[p].ready THEN ForgetProbe(all[p]) ELSE all[p]]

\* The services are removed one after the other.
RemoveAll(all, S) ==
    [p \in Pcbs |->
        LET list == SetToSeq(S)
            strip[n \in 0 .. Cardinality(S)] ==
                IF n = 0 THEN all[p] ELSE RemoveScheduled(strip[n - 1], list[n])
        IN  strip[Cardinality(S)]]

\* What was probed for are names the services of N no longer have.
Renamed(all, N) ==
    [p \in Pcbs |-> [all[p] EXCEPT !.probed = [s \in Services |-> IF s \in N THEN 0 ELSE @[s]]]]

Unnamed == services \ named

\* _mdns_restart_all_pcbs
RestartAll(all) ==
    ProbeAll(ForgetAll([p \in Pcbs |-> [all[p] EXCEPT !.packets = {}]]), services, TRUE)

\* _mdns_restart_all_pcbs_no_instance
RestartUnnamed(all) ==
    IF Unnamed = {} THEN all ELSE ProbeAll(ForgetAll(all), Unnamed, FALSE)

\* A new name for the host, and for the services that go by it.
RenameHost(all) == RestartAll(Renamed(all, IF instance THEN {} ELSE Unnamed))

-----------------------------------------------------------------------------
(* The mdns task *)

Take(type) ==
    /\ queue # <<>>
    /\ Head(queue).type = type
    /\ queue' = Tail(queue)

\* The service, or the interface, it is about.
Subject == Head(queue).of[1]

Second == Head(queue).of[2]

HostnameSet ==
    /\ Take("hostname set")
    /\ pcb' = RenameHost(pcb)
    /\ UNCHANGED <<services, named, instance, calls>>

InstanceSet ==
    /\ Take("instance set")
    /\ instance' = TRUE
    /\ pcb' = RestartUnnamed(Renamed(pcb, Unnamed))
    /\ UNCHANGED <<services, named, calls>>

ServiceAdd ==
    /\ Take("service add")
    /\ services' = services \cup {Subject}
    /\ pcb' = ProbeAll(Renamed(pcb, {Subject}), {Subject}, FALSE)
    /\ UNCHANGED <<named, instance, calls>>

ServiceInstanceSet ==
    /\ Take("service instance set")
    /\ pcb' = ProbeAll(Renamed(pcb, {Subject}), {Subject}, FALSE)
    /\ UNCHANGED <<services, named, instance, calls>>

\* A new port, or a new text.
ServiceChange ==
    /\ \/ Take("port set")
       \/ Take("txt set")
    /\ \E first \in Firsts :
         pcb' = [p \in Pcbs |->
                   Announce(pcb[p], {Subject}, Head(queue).type = "port set", first[p])]
    /\ UNCHANGED <<services, named, instance, calls>>

ServiceDel ==
    /\ Take("service del")
    /\ services' = services \ {Subject}
    /\ pcb' = RemoveAll(pcb, {Subject})
    /\ UNCHANGED <<named, instance, calls>>

ServicesClear ==
    /\ Take("services clear")
    /\ services' = {}
    /\ pcb' = RemoveAll(pcb, services)
    /\ UNCHANGED <<named, instance, calls>>

\* The network may have gone before the event is handled: init then fails.
EnablePcb(all, p, up) ==
    IF ~all[p].ready /\ ~up THEN all
    ELSE [all EXCEPT ![p] = InitProbe([@ EXCEPT !.ready = TRUE], services, TRUE)]

Enable ==
    /\ Take("enable")
    /\ \E up \in BOOLEAN : pcb' = EnablePcb(pcb, Subject, up)
    /\ UNCHANGED <<services, named, instance, calls>>

\* _mdns_disable_pcb: an interface that was silent as its duplicate wakes up.
Disable ==
    /\ Take("disable")
    /\ LET p == Subject
           twin == Twin[p]
           down == [pcb EXCEPT ![p] = Down(p)]
           woken == [down EXCEPT ![twin].state = "off"]
       IN  IF pcb[p].ready /\ pcb[twin].state = "dup"
           THEN \E up \in BOOLEAN : pcb' = EnablePcb(woken, twin, up)
           ELSE pcb' = IF pcb[p].ready THEN down ELSE [pcb EXCEPT ![p].state = "off"]
    /\ UNCHANGED <<services, named, instance, calls>>

AnnounceAddress ==
    /\ Take("announce")
    /\ \E first \in Firsts :
         pcb' = [pcb EXCEPT ![Subject] = Announce(@, {}, TRUE, first[Subject])]
    /\ UNCHANGED <<services, named, instance, calls>>

\* The packet must still be the one that was posted.
TxPacket ==
    /\ Take("tx")
    /\ LET p == Subject
           due == {k \in pcb[p].packets : k.id = Second /\ k.queued}
       IN  pcb' = IF due = {} THEN pcb
                  ELSE [pcb EXCEPT ![p] = TxHandle(@, CHOOSE k \in due : TRUE)]
    /\ UNCHANGED <<services, named, instance, calls>>

\* A question for services of a type: the answer is scheduled, once the names
\* are known to be the host's own.
RxQuery ==
    /\ Take("query")
    /\ LET p == Subject
           asked == {Second} \cap services
       IN  pcb' = IF asked # {} /\ (Announcing(pcb[p]) \/ pcb[p].state = "running")
                  THEN [pcb EXCEPT ![p].packets =
                          @ \cup {NewPacket(@, {}, asked, {Host})}]
                  ELSE pcb
    /\ UNCHANGED <<services, named, instance, calls>>

\* Another host claims the name of a service and wins the comparison; by its
\* text, the address is probed for as well.
RxServiceCollision ==
    /\ Take("service collision")
    /\ \E withIp \in BOOLEAN :
       LET p == Subject
           s == Second
       IN  pcb' =
             CASE s \notin services -> pcb
               [] s \in services /\ ~pcb[p].probeRunning ->
                    [pcb EXCEPT ![p] = InitProbe(@, {s}, withIp)]
               [] s \in services /\ pcb[p].probeRunning /\ s \in named ->
                    ProbeAll(Renamed(pcb, {s}), {s}, FALSE)
               [] s \in services /\ pcb[p].probeRunning /\ s \notin named /\ instance ->
                    RestartUnnamed(Renamed(pcb, Unnamed))
               [] OTHER -> RenameHost(pcb)
    /\ UNCHANGED <<services, named, instance, calls>>

\* Another host has an address for the host's name and wins the comparison.
RxAddressCollision ==
    /\ Take("address collision")
    /\ LET p == Subject
       IN  pcb' = IF pcb[p].probeRunning THEN RenameHost(pcb)
                  ELSE [pcb EXCEPT ![p] = InitProbe(@, {}, TRUE)]
    /\ UNCHANGED <<services, named, instance, calls>>

\* _mdns_dup_interface: the address is that of the host's other interface, so
\* both serve the same network and this one falls silent.
RxTwin ==
    /\ Take("twin")
    /\ LET p == Subject
           twin == Twin[p]
       IN  IF ~pcb[twin].ready THEN pcb' = pcb
           ELSE \E first \in Firsts :
                  pcb' = [pcb EXCEPT
                    ![p] = [(IF @.ready THEN Down(p) ELSE @) EXCEPT !.state = "dup"],
                    ![twin] = Announce(@, {}, TRUE, first[twin])]
    /\ UNCHANGED <<services, named, instance, calls>>

TaskRuns ==
    \/ HostnameSet \/ InstanceSet
    \/ ServiceAdd \/ ServiceInstanceSet \/ ServiceChange \/ ServiceDel \/ ServicesClear
    \/ Enable \/ Disable \/ AnnounceAddress
    \/ TxPacket
    \/ RxQuery \/ RxServiceCollision \/ RxAddressCollision \/ RxTwin

-----------------------------------------------------------------------------
(* The timer, the callers, the events and the network *)

\* _mdns_scheduler_run: the first packet not yet posted is due.
SchedulerRun(p) ==
    /\ Len(queue) < QueueSize
    /\ \E k \in pcb[p].packets :
         /\ ~k.queued
         /\ queue' = Append(queue, Act("tx", <<p, k.id>>))
         /\ pcb' = [pcb EXCEPT ![p].packets = (@ \ {k}) \cup {[k EXCEPT !.queued = TRUE]}]
    /\ UNCHANGED <<services, named, instance, calls>>

Post(type, of) ==
    /\ Len(queue) < QueueSize
    /\ calls < MaxCalls
    /\ queue' = Append(queue, Act(type, of))
    /\ calls' = calls + 1
    /\ UNCHANGED <<pcb, services, named, instance>>

Pending(type, of) == \E i \in DOMAIN queue : queue[i] = Act(type, of)

\* The lookup of the API finds the service; a careful caller does not use one
\* whose removal it has asked for.
Registered(s) ==
    /\ s \in services
    /\ ~Pending("service del", <<s>>)
    /\ ~Pending("services clear", <<>>)

CallApi ==
    \/ Post("hostname set", <<>>)
    \/ Post("instance set", <<>>)
    \/ services # {} /\ Post("services clear", <<>>)
    \/ \E s \in Services :
         \/ s \notin services /\ ~Pending("service add", <<s>>) /\ Post("service add", <<s>>)
         \/ /\ Registered(s)
            /\ \/ Post("service del", <<s>>)
               \/ Post("port set", <<s>>)
               \/ Post("txt set", <<s>>)
               \/ s \in named /\ Post("service instance set", <<s>>)

SystemEvent ==
    \E p \in Pcbs : \E event \in {"enable", "disable", "announce"} : Post(event, <<p>>)

\* _udp_recv: packets come in through a pcb that is up, also when what will shut it
\* down waits in the queue; they are handled after it.
Hears(p) == pcb[p].ready

Receive ==
    \E p \in Pcbs :
        /\ Hears(p)
        /\ \/ \E s \in services :
                Post("query", <<p, s>>) \/ Post("service collision", <<p, s>>)
           \/ Post("address collision", <<p>>)
           \/ Post("twin", <<p>>)

Next ==
    \/ TaskRuns
    \/ \E p \in Pcbs : SchedulerRun(p)
    \/ CallApi
    \/ SystemEvent
    \/ Receive

Spec == Init /\ [][Next]_vars

\* The task runs when an action waits, and the timer fires every 100 ms: a
\* packet is due in the end, and the queue has room for it again and again.
FairSpec == Spec /\ WF_vars(TaskRuns) /\ \A p \in Pcbs : SF_vars(SchedulerRun(p))
-----------------------------------------------------------------------------
(* Properties *)

\* While the names of an interface are being probed for, exactly one packet of
\* it waits, the probe, and it asks for every service that is being probed for;
\* otherwise no probe waits.  The state decides what a packet becomes when it
\* was sent, so a second packet would be counted as a probe, and a lost one
\* would leave the interface silent for good; and the next probe has room for
\* the services of this one only while the state says that one is under way
\* (_mdns_init_pcb_probe clears the pcb's packets, _mdns_tx_handle_packet keeps
\* the probe).  A pcb that is down may be left in a probe without a packet, by a
\* collision that was queued behind what shut it down; nothing of it is sent.
ProbeOnItsWay ==
    \A p \in Pcbs :
        LET P == pcb[p]
        IN  P.ready =>
              IF Probing(P)
              THEN /\ P.probeRunning
                   /\ \E k \in P.packets : P.packets = {k} /\ k.asks \cap Services = P.probing
              ELSE /\ ~P.probeRunning /\ P.probing = {}
                   /\ \A k \in P.packets : k.asks = {}

\* No packet and no probe names a service that is gone: they hold pointers into
\* its memory, and _mdns_remove_scheduled_service_packets must find them all.  It
\* skips what a pcb that is not ready asks for: one that a late collision has
\* started into a probe is the exception, until it is cleaned up.
NothingDangles ==
    \A p \in Pcbs :
        \/ pcb[p].stray
        \/ /\ pcb[p].probing \subseteq services
           /\ \A k \in pcb[p].packets :
                (k.asks \cup k.answers \cup k.others) \cap Services \subseteq services

\* Whatever is about to be announced or answered was probed for three times on
\* that interface since it got its name or lost a claim to it (RFC 6762, 8.1),
\* however often names and services change in between, and whatever a probe that
\* was started while the interface was down has left (_mdns_tx_handle_packet).
OnlyProbedIsTold ==
    \A p \in Pcbs : pcb[p].ready =>
        \A k \in pcb[p].packets :
            k.asks = {} => \A s \in (k.answers \cup k.others) \cap Services :
                               pcb[p].probed[s] = 3

\* Once calls, events and packets cease, every interface that is up has its
\* names probed for and announced: no order of them leaves one half way.
Settles ==
    \A p \in Pcbs : <>[](pcb[p].ready => pcb[p].state = "running")

-----------------------------------------------------------------------------
(* The inductive strengthenings                                              *)

\* A pcb is a record of its fields, its packets are records of theirs.
Whole(P) ==
    /\ P = [state |-> P.state, ready |-> P.ready, probing |-> P.probing,
            probeIp |-> P.probeIp, probeRunning |-> P.probeRunning,
            packets |-> P.packets, probed |-> P.probed, stray |-> P.stray]
    /\ P.state \in {"off", "dup", "running"} \cup Probes \cup Announcements
    /\ P.ready \in BOOLEAN /\ P.probeIp \in BOOLEAN /\ P.probeRunning \in BOOLEAN
    /\ P.stray \in BOOLEAN
    /\ P.probing \subseteq Services
    /\ P.probed \in [Services -> 0 .. 3]
    /\ \A k \in P.packets :
         /\ k = [id |-> k.id, asks |-> k.asks, answers |-> k.answers,
                 others |-> k.others, queued |-> k.queued]
         /\ k.asks \cup k.answers \cup k.others \subseteq Names

\* What a pcb that is up, probes or announces has to do with its state; its probe
\* asks for just those names, and for one at least.
Orderly(P) ==
    /\ P.ready <=> P.state \notin {"off", "dup"}
    /\ ~P.ready => P.packets = {}
    /\ P.probeRunning <=> Probing(P)
    /\ IF Probing(P)
       THEN LET asked == P.probing \cup HostIf(P.probeIp)
            IN  /\ asked # {}
                /\ \E k \in P.packets : /\ P.packets = {k}
                                        /\ k.asks = asked /\ k.others = asked /\ k.answers = {}
       ELSE /\ P.probing = {}
            /\ \A k \in P.packets : k.asks = {}

\* Only the services of V are named.
Within(P, V) ==
    /\ P.probing \subseteq V
    /\ \A k \in P.packets : (k.asks \cup k.answers \cup k.others) \cap Services \subseteq V

\* The state counts the probes sent, and each service is being probed for or has
\* been; the latter if none of them is forgotten when the default instance
\* name changes.
Counted(P, V) ==
    /\ Probing(P) => \A s \in P.probing :
         P.probed[s] >= CASE P.state = "probe1" -> 0 [] P.state = "probe2" -> 1 [] OTHER -> 2
    /\ AllAlike /\ P.ready => \A s \in V : s \in P.probing \/ P.probed[s] = 3

PcbInv(P, V) == Whole(P) /\ Orderly(P) /\ Within(P, V) /\ Counted(P, V)

\* A probe was started while the pcb was down; it is down still.
Ghost(P) == Whole(P) /\ ~P.ready /\ P.stray

\* What the pcb knows are the services of V, and what such a probe has left.
Regular(P, V) ==
    \E W \in SUBSET Services :
        /\ V \subseteq W
        /\ P.stray \/ W = V
        /\ PcbInv(P, W)

Sound(P, V) == Ghost(P) \/ Regular(P, V)

RespondInv ==
    /\ services \subseteq Services
    /\ AllAlike => named \in {{}, Services}
    /\ pcb = [p \in Pcbs |-> pcb[p]]
    /\ \A p \in Pcbs : Sound(pcb[p], services)

OfPcb == {"enable", "disable", "announce", "tx", "query", "service collision",
          "address collision", "twin"}
OfService == {"service add", "service del", "service instance set", "port set", "txt set"}
OfCall == {"service instance set", "port set", "txt set"}

\* An action of that kind is in front of the i-th.
Ahead(i, type, of) == \E j \in 1 .. i - 1 : queue[j] = Act(type, of)

\* What is posted about a service that is there is taken before the service is
\* removed: a may be the i-th.
Fits(a, i) ==
    /\ a = Act(a.type, a.of)
    /\ a.type \in {"disable", "twin", "service del"} => a.of = <<a.of[1]>>
    /\ a.type = "services clear" => a.of = <<>>
    /\ a.type \in OfPcb => a.of[1] \in Pcbs
    /\ a.type \in OfService => a.of[1] \in Services
    /\ a.type \in {"query", "service collision"} => a.of[2] \in Services
    /\ a.type \in OfCall => /\ a.of[1] \in services
                            /\ ~Ahead(i, "service del", <<a.of[1]>>)
                            /\ ~Ahead(i, "services clear", <<>>)

QueueInv == \A i \in DOMAIN queue : Fits(queue[i], i)
=============================================================================
