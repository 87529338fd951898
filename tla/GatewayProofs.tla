--------------------------- MODULE GatewayProofs ---------------------------
(***************************************************************************)
(* Proofs about the small devices and about the network, two parts of the     *)
(* gateway that have nothing but its restarts in common.                      *)
(***************************************************************************)
EXTENDS Devices, Network, SequenceTheorems, TLAPS

(***************************************************************************)
(* The devices. Their tasks do not touch each other's variables, so each       *)
(* invariant needs the steps of its own device and the restart only.          *)
(***************************************************************************)

(* Every variable of the relay and the trigger stays in its domain.          *)
SwitchTypes == R!TypeOK /\ T!TypeOK

LEMMA SwitchTypesHold == DevicesSpec => []SwitchTypes
<1>1. DevicesInit => SwitchTypes
  BY DevicesAssumption DEF DevicesInit, SwitchTypes, R!Init, R!TypeOK, R!LevelFor, T!Init, T!TypeOK
<1>2. SwitchTypes /\ [DevicesNext]_devicesVars => SwitchTypes'
  <2> SUFFICES ASSUME SwitchTypes, [DevicesNext]_devicesVars PROVE SwitchTypes'
    OBVIOUS
  <2> USE DevicesAssumption DEF SwitchTypes, R!TypeOK, T!TypeOK
  <2>1. CASE RelayStep
    BY <2>1 DEF RelayStep, triggerVars, R!Next, R!SetState, R!SetPin,
                R!WatchdogResetsPin, R!LevelFor
  <2>2. CASE TriggerTask
    BY <2>2 DEF TriggerTask, relayVars, T!Task, T!DelayEnds, T!Report, T!FirstRead, T!SecondRead
  <2>3. CASE TriggerInput
    BY <2>3 DEF TriggerInput, relayVars, T!InputChanges
  <2>4. CASE ScannerStep
    BY <2>4 DEF ScannerStep, relayVars, triggerVars
  <2>5. CASE RestartAll
    BY <2>5 DEF RestartAll, R!Reset, R!LevelFor, T!Reset
  <2>6. CASE UNCHANGED devicesVars
    BY <2>6 DEF devicesVars, relayVars, triggerVars
  <2> QED
    BY <2>1, <2>2, <2>3, <2>4, <2>5, <2>6 DEF DevicesNext
<1> QED
  BY <1>1, <1>2, PTL DEF DevicesSpec

(* The contact of the relay is closed only while GET_STATUS says so, or for    *)
(* the moment in which a command to open it is being carried out, whatever     *)
(* the polarity of the pin and whenever the watchdog resets it.               *)
THEOREM RelayIsReported == DevicesSpec => []ClosedIsReported
<1>1. DevicesInit => ClosedIsReported
  BY DevicesAssumption DEF DevicesInit, R!Init, ClosedIsReported, R!ClosedIsReported, R!Energised, R!LevelFor
<1>2. SwitchTypes /\ ClosedIsReported /\ [DevicesNext]_devicesVars => ClosedIsReported'
  <2> SUFFICES ASSUME SwitchTypes, ClosedIsReported, [DevicesNext]_devicesVars PROVE ClosedIsReported'
    OBVIOUS
  <2> USE DevicesAssumption
      DEF ClosedIsReported, R!ClosedIsReported, R!Energised, R!LevelFor, SwitchTypes, R!TypeOK
  <2>1. CASE RelayStep
    <3>1. CASE \E on \in BOOLEAN : R!SetState(on)
      BY <3>1 DEF R!SetState
    <3>2. CASE R!SetPin
      BY <3>2 DEF R!SetPin
    <3>3. CASE R!WatchdogResetsPin
      BY <3>3 DEF R!WatchdogResetsPin
    <3> QED
      BY <2>1, <3>1, <3>2, <3>3 DEF RelayStep, R!Next
  <2>2. CASE RestartAll
    BY <2>2 DEF RestartAll, R!Reset
  <2>3. CASE UNCHANGED relayVars
    BY <2>3 DEF relayVars
  <2> QED
    BY <2>1, <2>2, <2>3 DEF DevicesNext, TriggerTask, TriggerInput, ScannerStep, devicesVars
<1> QED
  BY <1>1, <1>2, SwitchTypesHold, PTL DEF DevicesSpec

(* That the task is ready only after a release follows from what a high level  *)
(* means: the input has been released since the last report.                  *)
ReleaseInv == (high => released) /\ (~stat => released)

(* triggerTask reports an impulse once: when it is ready to report, the input   *)
(* was released after the last report, however the level changes between the  *)
(* two reads of a round.                                                      *)
THEOREM ImpulseReportedOnce == DevicesSpec => []ReadyMeansReleased
<1>1. DevicesInit => ReleaseInv
  BY DEF DevicesInit, T!Init, ReleaseInv
<1>2. SwitchTypes /\ ReleaseInv /\ [DevicesNext]_devicesVars => ReleaseInv'
  <2> SUFFICES ASSUME SwitchTypes, ReleaseInv, [DevicesNext]_devicesVars PROVE ReleaseInv'
    OBVIOUS
  <2> USE DEF ReleaseInv, SwitchTypes, T!TypeOK
  <2>1. CASE TriggerTask
    <3>1. CASE T!Report
      BY <3>1 DEF T!Report
    <3>2. CASE T!SecondRead
      BY <3>2 DEF T!SecondRead
    <3>3. CASE T!DelayEnds \/ T!FirstRead
      BY <3>3 DEF T!DelayEnds, T!FirstRead
    <3> QED
      BY <2>1, <3>1, <3>2, <3>3 DEF TriggerTask, T!Task
  <2>2. CASE TriggerInput
    BY <2>2 DEF TriggerInput, T!InputChanges
  <2>3. CASE RestartAll
    BY <2>3 DEF RestartAll, T!Reset
  <2>4. CASE UNCHANGED triggerVars
    BY <2>4 DEF triggerVars
  <2> QED
    BY <2>1, <2>2, <2>3, <2>4 DEF DevicesNext, RelayStep, ScannerStep, devicesVars
<1>3. ReleaseInv => ReadyMeansReleased
  BY DEF ReleaseInv, ReadyMeansReleased, T!ReadyMeansReleased
<1> QED
  BY <1>1, <1>2, <1>3, SwitchTypesHold, PTL DEF DevicesSpec

(* The bytes on their way to the clients, from the first that was broadcast to  *)
(* the last received, are numbers already given out, in rising order, and all  *)
(* of them while the driver's buffer never overflowed.                        *)
BytesInv == /\ arrived \in Nat
            /\ rx \in Seq(Nat) /\ data \in Seq(Nat) /\ sent \in Seq(Nat)
            /\ \A n \in 1..Len(S!OnTheWay) : S!OnTheWay[n] <= arrived
            /\ NothingLostOrSwapped

\* What is on its way is a sequence of numbers.
LEMMA OnTheWayType ==
    ASSUME BytesInv
    PROVE  S!OnTheWay \in Seq(Nat)
BY ConcatProperties DEF BytesInv, S!OnTheWay

\* A step that leaves what is on its way as it is keeps the invariant.
LEMMA SameOnTheWay ==
    ASSUME BytesInv, S!OnTheWay' = S!OnTheWay, UNCHANGED <<arrived, overrun>>,
           rx' \in Seq(Nat), data' \in Seq(Nat), sent' \in Seq(Nat)
    PROVE  BytesInv'
BY DEF BytesInv, NothingLostOrSwapped, S!NothingLostOrSwapped

(* A byte is received: it is numbered higher than all before it, and either it  *)
(* is the last on its way or the overflow is remembered.                      *)
LEMMA ByteArrivesInv ==
    ASSUME BytesInv, S!ByteArrives
    PROVE  BytesInv'
<1> DEFINE Way == S!OnTheWay
<1>1. arrived' = arrived + 1 /\ data' = data /\ sent' = sent /\ arrived \in Nat
  BY DEF BytesInv, S!ByteArrives
<1>2. CASE rx' = Append(rx, arrived') /\ overrun' = overrun
  <2>1. S!OnTheWay' = Append(Way, arrived + 1)
    <3>1. sent \o data \in Seq(Nat) /\ rx \in Seq(Nat) /\ arrived + 1 \in Nat
      BY <1>1, ConcatProperties DEF BytesInv
    <3>2. (sent \o data) \o (rx \o <<arrived + 1>>) = ((sent \o data) \o rx) \o <<arrived + 1>>
      BY <3>1, ConcatAssociative
    <3> QED
      BY <1>1, <1>2, <3>1, <3>2, OnTheWayType, AppendIsConcat DEF S!OnTheWay
  <2>2. /\ Way \in Seq(Nat)
        /\ Len(S!OnTheWay') = Len(Way) + 1
        /\ \A n \in 1..Len(Way) : S!OnTheWay'[n] = Way[n]
        /\ S!OnTheWay'[Len(Way) + 1] = arrived + 1
    BY <1>1, <2>1, OnTheWayType, AppendProperties
  <2>3. \A n \in 1..Len(Way) : Way[n] \in Nat /\ Way[n] <= arrived
    BY <2>2 DEF BytesInv
  <2>4. \A n \in 1..Len(S!OnTheWay') : S!OnTheWay'[n] <= arrived'
    BY <1>1, <2>2, <2>3
  <2>5. \A m, n \in 1..Len(S!OnTheWay') : m < n => S!OnTheWay'[m] < S!OnTheWay'[n]
    <3>1. \A m, n \in 1..Len(Way) : m < n => Way[m] < Way[n]
      BY DEF BytesInv, NothingLostOrSwapped, S!NothingLostOrSwapped
    <3> QED
      BY <1>1, <2>2, <2>3, <3>1
  <2>6. ~overrun' => Len(S!OnTheWay') = arrived'
    BY <1>1, <1>2, <2>2 DEF BytesInv, NothingLostOrSwapped, S!NothingLostOrSwapped
  <2>7. arrived' \in Nat /\ rx' \in Seq(Nat) /\ data' \in Seq(Nat) /\ sent' \in Seq(Nat)
    BY <1>1, <1>2, AppendProperties DEF BytesInv
  <2> QED
    BY <2>4, <2>5, <2>6, <2>7 DEF BytesInv, NothingLostOrSwapped, S!NothingLostOrSwapped
<1>3. CASE rx' = rx /\ overrun' = TRUE
  <2>1. S!OnTheWay' = Way /\ Way \in Seq(Nat)
    BY <1>1, <1>3, OnTheWayType DEF S!OnTheWay
  <2>2. \A n \in 1..Len(Way) : Way[n] \in Nat /\ Way[n] <= arrived
    BY <2>1 DEF BytesInv
  <2>3. \A n \in 1..Len(S!OnTheWay') : S!OnTheWay'[n] <= arrived'
    BY <1>1, <2>1, <2>2
  <2> QED
    BY <1>1, <1>3, <2>1, <2>3 DEF BytesInv, NothingLostOrSwapped, S!NothingLostOrSwapped
<1> QED
  BY <1>2, <1>3 DEF S!ByteArrives

\* uart_read_bytes cuts the driver's buffer in two.
LEMMA ReadInv ==
    ASSUME BytesInv, S!Read
    PROVE  BytesInv'
<1>1. rx \in Seq(Nat) /\ sent \in Seq(Nat)
  BY DEF BytesInv
<1>2. S!Taken \in 0..Len(rx)
  BY <1>1, DevicesAssumption, LenProperties DEF S!Taken
<1> DEFINE front == SubSeq(rx, 1, S!Taken)
           rest == SubSeq(rx, S!Taken + 1, Len(rx))
<1>3. front \in Seq(Nat) /\ rest \in Seq(Nat)
  BY <1>1, <1>2
<1>4. front \o rest = rx
  <2>1. Len(rx) \in Nat /\ SubSeq(rx, 1, Len(rx)) = rx
    BY <1>1, SubSeqFull, LenProperties
  <2>2. 1 \in 1..Len(rx) + 1 /\ S!Taken \in (1 - 1)..Len(rx) /\ Len(rx) \in S!Taken..Len(rx)
    BY <2>1, <1>2
  <2> QED
    BY <1>1, <2>1, <2>2, ConcatAdjacentSubSeq
<1>5. (sent \o front) \o rest = (sent \o <<>>) \o rx
  <2> HIDE DEF front, rest
  <2>1. (sent \o front) \o rest = sent \o (front \o rest)
    BY <1>1, <1>3, ConcatAssociative
  <2>2. sent \o <<>> = sent
    BY <1>1, ConcatEmptySeq
  <2> QED
    BY <1>4, <2>1, <2>2
<1>6. S!OnTheWay' = S!OnTheWay
  BY <1>5 DEF S!Read, S!OnTheWay
<1> QED
  BY <1>1, <1>3, <1>6, SameOnTheWay DEF S!Read

\* A broadcast moves what was read to what was sent.
LEMMA BroadcastInv ==
    ASSUME BytesInv, S!Broadcast
    PROVE  BytesInv'
<1>1. rx \in Seq(Nat) /\ sent \in Seq(Nat) /\ data \in Seq(Nat)
  BY DEF BytesInv
<1>2. sent \o data \in Seq(Nat) /\ (sent \o data) \o <<>> = sent \o data
  BY <1>1, ConcatProperties, ConcatEmptySeq
<1>3. S!OnTheWay' = S!OnTheWay
  BY <1>2 DEF S!Broadcast, S!OnTheWay
<1> QED
  BY <1>1, <1>2, <1>3, SameOnTheWay DEF S!Broadcast

(* Clients hear the bytes that were scanned, each once and in order, and all of *)
(* them unless the driver's buffer overflowed, however its filling, the reads  *)
(* and the broadcasts interleave and whatever the sizes of the buffers.       *)
THEOREM ScansArrive == DevicesSpec => []NothingLostOrSwapped
<1>1. ASSUME arrived = 0, rx = <<>>, data = <<>>, sent = <<>> PROVE BytesInv
  <2>1. <<>> \in Seq(Nat) /\ S!OnTheWay = <<>>
    BY <1>1, ConcatEmptySeq, EmptySeq DEF S!OnTheWay
  <2> QED
    BY <1>1, <2>1 DEF BytesInv, NothingLostOrSwapped, S!NothingLostOrSwapped
<1>2. DevicesInit => BytesInv
  BY <1>1 DEF DevicesInit, S!Init
<1>3. BytesInv /\ [DevicesNext]_devicesVars => BytesInv'
  <2> SUFFICES ASSUME BytesInv, [DevicesNext]_devicesVars PROVE BytesInv'
    OBVIOUS
  <2>1. CASE ScannerStep
    BY <2>1, ByteArrivesInv, ReadInv, BroadcastInv DEF ScannerStep, S!Next
  <2>2. CASE RestartAll
    <3>1. arrived' = 0 /\ rx' = <<>> /\ data' = <<>> /\ sent' = <<>>
      BY <2>2 DEF RestartAll, S!Reset
    <3>2. <<>> \in Seq(Nat) /\ S!OnTheWay' = <<>>
      BY <3>1, ConcatEmptySeq, EmptySeq DEF S!OnTheWay
    <3> QED
      BY <3>1, <3>2 DEF BytesInv, NothingLostOrSwapped, S!NothingLostOrSwapped
  <2>3. CASE UNCHANGED scannerVars
    <3>1. S!OnTheWay' = S!OnTheWay
      BY <2>3 DEF scannerVars, S!OnTheWay
    <3> QED
      BY <2>3, <3>1, SameOnTheWay DEF scannerVars, BytesInv
  <2> QED
    BY <2>1, <2>2, <2>3 DEF DevicesNext, RelayStep, TriggerTask, TriggerInput, devicesVars
<1>4. BytesInv => NothingLostOrSwapped
  BY DEF BytesInv
<1> QED
  BY <1>2, <1>3, <1>4, PTL DEF DevicesSpec

-----------------------------------------------------------------------------
(***************************************************************************)
(* What holds of the network however app_main, the event loop, the watchdog   *)
(* and the daily restart interleave in example_connect and example_disconnect, *)
(* for every length of the event loop's queue.                                *)
(***************************************************************************)

USE NetworkAssumption

\* An event is queued only while there is room.
LEMMA PostedType ==
    ASSUME NEW q \in Seq(Events), Len(q) <= MaxEvents, NEW e \in Events
    PROVE  Posted(q, e) \in Seq(Events) /\ Len(Posted(q, e)) <= MaxEvents
  BY AppendProperties, LenProperties DEF Posted

\* Taking the first event off leaves a shorter queue of events.
LEMMA TailType ==
    ASSUME NEW q \in Seq(Events), Len(q) <= MaxEvents, q # <<>>
    PROVE  Tail(q) \in Seq(Events) /\ Len(Tail(q)) <= MaxEvents
  BY HeadTailProperties, LenProperties

(* Every variable stays in its domain. The provers see Booleans, strings and     *)
(* sequences differently, so the domains are proved in four parts.             *)
Flags == {up, cable, link, bus, shutdown, server, clients, address} \subseteq BOOLEAN

Stages == /\ sem \in {"null", "empty", "given", "freed"}
          /\ driver \in {"none", "started", "stopped"}
          /\ handles \subseteq {"got_ip", "disconnect"}

Queue == events \in Seq(Events) /\ Len(events) <= MaxEvents

\* No step makes anything but a Boolean of a flag.
LEMMA FlagsStep == ASSUME Flags, [Next]_vars PROVE Flags'
  BY ZenonT(60)
     DEF Flags, Next, MainTask, EventLoop, WatchdogTask, DailyTask, Connect, Disconnect, Abort,
         Boot, CreateSem, EthStart, TakeSem, SemTaken, RegisterShutdown, TestSem, DeleteSem,
         ClearSem, EthStop, Uninstall, UnregisterShutdown, RegisterHandlers, StartServer,
         OnConnected, OnGotIp, OnDisconnected, AnswerLink, DelayEnds, StopServer, WatchdogLooks,
         DayEnds, Restart, LinkCheck, CableChanges, ClientComes, ClientsLeave,
         vars, ethVars, restVars

\* The semaphore and the driver pass from one of their stages to another.
LEMMA StagesStep == ASSUME Stages, [Next]_vars PROVE Stages'
  BY ZenonT(60)
     DEF Stages, Next, MainTask, EventLoop, WatchdogTask, DailyTask, Connect, Disconnect, Abort,
         Boot, CreateSem, EthStart, TakeSem, SemTaken, RegisterShutdown, TestSem, DeleteSem,
         ClearSem, EthStop, Uninstall, UnregisterShutdown, RegisterHandlers, StartServer,
         OnConnected, OnGotIp, OnDisconnected, AnswerLink, DelayEnds, StopServer, WatchdogLooks,
         DayEnds, Restart, LinkCheck, CableChanges, ClientComes, ClientsLeave,
         vars, ethVars, restVars

\* Tasks go to places only.
LEMMA PlacesStep ==
    ASSUME pc \in [Tasks -> Places], [Next]_vars
    PROVE  pc' \in [Tasks -> Places]
  BY SMTT(30)
     DEF Next, MainTask, EventLoop, WatchdogTask, DailyTask, Connect, Disconnect, Abort,
         Boot, CreateSem, EthStart, TakeSem, SemTaken, RegisterShutdown, TestSem, DeleteSem,
         ClearSem, EthStop, Uninstall, UnregisterShutdown, RegisterHandlers, StartServer,
         OnConnected, OnGotIp, OnDisconnected, AnswerLink, DelayEnds, StopServer, WatchdogLooks,
         DayEnds, Restart, LinkCheck, CableChanges, ClientComes, ClientsLeave,
         vars, ethVars, restVars, Goto, BootPlaces, Tasks, Places, Connecting, Disconnecting

\* The queue of events is emptied, grows by one event if there is room, loses its
\* first, or stays.
LEMMA QueueStep == ASSUME Queue, [Next]_vars PROVE Queue'
<1>1. \/ events' = <<>>
      \/ \E e \in Events : events' = Posted(events, e)
      \/ events # <<>> /\ events' = Tail(events)
      \/ events' = events
  BY ZenonT(60)
     DEF Events, Next, MainTask, EventLoop, WatchdogTask, DailyTask, Connect, Disconnect, Abort,
         Boot, CreateSem, EthStart, TakeSem, SemTaken, RegisterShutdown, TestSem, DeleteSem,
         ClearSem, EthStop, Uninstall, UnregisterShutdown, RegisterHandlers, StartServer,
         OnConnected, OnGotIp, OnDisconnected, AnswerLink, DelayEnds, StopServer, WatchdogLooks,
         DayEnds, Restart, LinkCheck, CableChanges, ClientComes, ClientsLeave, NextEvent,
         vars, ethVars, restVars
<1>2. <<>> \in Seq(Events) /\ Len(<<>>) = 0
  BY EmptySeq
<1>3. CASE events' = <<>>
  BY <1>2, <1>3 DEF Queue
<1>4. CASE \E e \in Events : events' = Posted(events, e)
  BY <1>4, PostedType DEF Queue
<1>5. CASE events # <<>> /\ events' = Tail(events)
  BY <1>5, TailType DEF Queue
<1>6. CASE events' = events
  BY <1>6 DEF Queue
<1> QED
  BY <1>1, <1>3, <1>4, <1>5, <1>6

(* Every variable of the network stays in its domain, and the event queue in   *)
(* its bound.                                                                *)
THEOREM NetworkTypes == Spec => []TypeOK
<1> DEFINE IInv == Flags /\ Stages /\ Queue /\ pc \in [Tasks -> Places]
<1>1. Init => IInv
  <2>1. <<>> \in Seq(Events) /\ Len(<<>>) = 0
    BY EmptySeq
  <2>2. Init => Queue
    BY <2>1 DEF Init, Queue
  <2>3. Init => pc \in [Tasks -> Places]
    BY DEF Init, BootPlaces, Tasks, Places, Connecting
  <2>4. Init => Flags
    BY Zenon DEF Init, Flags
  <2>5. Init => Stages
    BY DEF Init, Stages
  <2> QED
    BY <2>2, <2>3, <2>4, <2>5
<1>2. IInv /\ [Next]_vars => IInv'
  BY FlagsStep, StagesStep, PlacesStep, QueueStep
<1>3. IInv => TypeOK
  BY Zenon DEF Flags, Stages, Queue, TypeOK
<1> QED
  BY <1>1, <1>2, <1>3, PTL DEF Spec
-----------------------------------------------------------------------------
(* That the server runs only once there was an address: app_main gets past its *)
(* wait only with a semaphore that was given, which only the handler of an      *)
(* address does.                                                             *)
AddressInv ==
    /\ server => address
    /\ sem = "given" => address
    /\ pc["main"] \in {"register", "handlers", "serve", "returned"} => address

\* Every step preserves the invariant, those of the other tasks because what they
\* do to the semaphore never gives it.
LEMMA AddressStep == TypeOK /\ AddressInv /\ [Next]_vars => AddressInv'
<1> SUFFICES ASSUME TypeOK, AddressInv, [Next]_vars PROVE AddressInv'
  OBVIOUS
<1> USE DEF AddressInv, Goto, At, ethVars, restVars, Tasks
<1>0. pc \in [Tasks -> Places]
  BY DEF TypeOK
<1>1. CASE Boot
  BY <1>1 DEF Boot, BootPlaces
<1>2. ASSUME NEW t \in Tasks, Connect(t) PROVE AddressInv'
  BY <1>0, <1>2 DEF Connect, CreateSem, EthStart, TakeSem, SemTaken, RegisterShutdown, Abort
<1>3. ASSUME NEW t \in Tasks \ {"main"}, Disconnect(t) PROVE AddressInv'
  BY <1>0, <1>3 DEF Disconnect, TestSem, DeleteSem, ClearSem, EthStop, Uninstall,
                    UnregisterShutdown, Abort
<1>4. CASE RegisterHandlers \/ StartServer
  BY <1>0, <1>4 DEF RegisterHandlers, StartServer
<1>5. CASE OnConnected \/ OnGotIp \/ OnDisconnected
  BY <1>0, <1>5 DEF OnConnected, OnGotIp, OnDisconnected, NextEvent, Abort
<1>6. CASE AnswerLink \/ DelayEnds \/ StopServer
  BY <1>0, <1>6 DEF AnswerLink, DelayEnds, StopServer
<1>7. CASE WatchdogLooks \/ DayEnds \/ Restart("softWD") \/ Restart("daily")
  BY <1>0, <1>7 DEF WatchdogLooks, DayEnds, Restart, Abort
<1>8. CASE LinkCheck \/ CableChanges \/ ClientComes \/ ClientsLeave
  BY <1>8 DEF LinkCheck, CableChanges, ClientComes, ClientsLeave
<1>9. CASE UNCHANGED vars
  BY <1>9 DEF vars
<1> QED
  BY <1>1, <1>2, <1>3, <1>4, <1>5, <1>6, <1>7, <1>8, <1>9
     DEF Next, MainTask, EventLoop, WatchdogTask, DailyTask

(* The server is started only after the gateway had an address, whoever tears   *)
(* the network down, and how often, while app_main waits for one.               *)
THEOREM AddressBeforeServer == Spec => []ServedAfterAddress
<1>1. Init => AddressInv
  BY DEF Init, AddressInv, BootPlaces, Tasks
<1>2. AddressInv => ServedAfterAddress
  BY DEF AddressInv, ServedAfterAddress
<1> QED
  BY <1>1, <1>2, AddressStep, NetworkTypes, PTL DEF Spec
-----------------------------------------------------------------------------
(* That the event loop does not get to wait: it runs disconnect_handler only    *)
(* once app_main has returned, which then has initialised the bus, and the bus   *)
(* is never freed.                                                           *)
LoopInv ==
    /\ pc["main"] \notin {"create", "start"} => bus
    /\ pc["loop"] \notin {"idle", "answer"} => pc["main"] = "returned"
    /\ pc["loop"] \notin {"take", "waiting", "register"}

\* Every step preserves the invariant.
LEMMA LoopStep == TypeOK /\ LoopInv /\ [Next]_vars => LoopInv'
<1> SUFFICES ASSUME TypeOK, LoopInv, [Next]_vars PROVE LoopInv'
  OBVIOUS
<1> USE DEF LoopInv, Goto, At, ethVars, restVars, Tasks
<1>0. pc \in [Tasks -> Places]
  BY DEF TypeOK
<1>1. CASE Boot
  BY <1>1 DEF Boot, BootPlaces
<1>2. CASE Connect("main")
  BY <1>0, <1>2 DEF Connect, CreateSem, EthStart, TakeSem, SemTaken, RegisterShutdown, Abort
<1>3. CASE Connect("loop")
  <2>1. CASE CreateSem("loop")
    BY <1>0, <2>1 DEF CreateSem
  <2>2. CASE EthStart("loop")
    <3>1. bus
      BY <2>2 DEF EthStart
    <3> QED
      BY <2>2, <3>1 DEF EthStart, Abort
  <2> QED
    BY <1>3, <2>1, <2>2 DEF Connect, TakeSem, SemTaken, RegisterShutdown
<1>4. ASSUME NEW t \in Tasks \ {"main"}, Disconnect(t) PROVE LoopInv'
  BY <1>0, <1>4 DEF Disconnect, TestSem, DeleteSem, ClearSem, EthStop, Uninstall,
                    UnregisterShutdown, Abort
<1>5. CASE RegisterHandlers \/ StartServer
  BY <1>0, <1>5 DEF RegisterHandlers, StartServer
<1>6. CASE OnConnected \/ OnGotIp \/ OnDisconnected
  BY <1>0, <1>6 DEF OnConnected, OnGotIp, OnDisconnected, NextEvent, Abort
<1>7. CASE AnswerLink \/ DelayEnds \/ StopServer
  BY <1>0, <1>7 DEF AnswerLink, DelayEnds, StopServer
<1>8. CASE WatchdogLooks \/ DayEnds \/ Restart("softWD") \/ Restart("daily")
  BY <1>0, <1>8 DEF WatchdogLooks, DayEnds, Restart, Abort
<1>9. CASE LinkCheck \/ CableChanges \/ ClientComes \/ ClientsLeave
  BY <1>9 DEF LinkCheck, CableChanges, ClientComes, ClientsLeave
<1>10. CASE UNCHANGED vars
  BY <1>10 DEF vars
<1> QED
  BY <1>1, <1>2, <1>3, <1>4, <1>5, <1>6, <1>7, <1>8, <1>9, <1>10
     DEF Next, MainTask, EventLoop, WatchdogTask, DailyTask

(* The event loop never waits for the semaphore that only its own handler gives: *)
(* when disconnect_handler calls example_connect, the bus is still initialised   *)
(* from app_main's call, and its initialisation aborts.                          *)
THEOREM LoopIsNotItsOwnWaiter == Spec => []LoopNeverWaitsForItself
<1>1. Init => LoopInv
  BY DEF Init, LoopInv, BootPlaces, Tasks
<1>2. LoopInv => LoopNeverWaitsForItself
  BY DEF LoopInv, LoopNeverWaitsForItself
<1> QED
  BY <1>1, <1>2, LoopStep, NetworkTypes, PTL DEF Spec
=============================================================================
