--------------------------- MODULE PrinterProofs ---------------------------
(***************************************************************************)
(* What the printer's semaphores guarantee, for every length of its queues *)
(* and any number of transfers in flight: the lock around the transport,   *)
(* the freshness of the answers, and the agreement of the handle queue     *)
(* with the device. Then what the encoder guarantees, for all jobs: the     *)
(* commands on the wire, whatever the printer and the mode byte remember,  *)
(* print the receipts that are due.                                        *)
(***************************************************************************)
EXTENDS Printer, EscPos, TLAPS, SequenceTheorems, FiniteSetTheorems, WellFoundedInduction

USE PrinterAssumption

-----------------------------------------------------------------------------
(* The lock.                                                               *)

\* printingQueue_sem is available only while nobody holds it, and a task that
\* is about to release it has already put callback_sem back.
LockInv ==
    /\ pc \in [Tasks -> Places]
    /\ \A t \in Tasks : Holding(t) => printing = 0
    /\ \A t, u \in Tasks : (Holding(t) /\ Holding(u)) => t = u
    /\ printing = 1 => cb = 1
    /\ \A t \in Tasks : (At(t, "wantCallback") \/ At(t, "givePrinting")) => cb = 1

\* Initially nobody holds the lock and both semaphores are available.
LEMMA LockInit == Init => LockInv
  BY DEF Init, LockInv, Tasks, Places, Holding, At

\* A task moves on while it holds the lock: the lock stays with it, and unless
\* it is about to give the lock back it may do with callback_sem what it likes.
LEMMA HolderMoves ==
    ASSUME LockInv, NEW t \in Tasks, NEW place \in Places,
           Holding(t), place \notin {"idle", "wantPrinting", "wantCallback", "givePrinting"},
           Goto(t, place), printing' = printing
    PROVE  LockInv'
  BY DEF LockInv, Tasks, Places, Holding, At, Goto

\* Steps outside the tasks leave the places and the lock alone, and at most
\* give callback_sem.
LEMMA LockFrame ==
    ASSUME LockInv, pc' = pc, printing' = printing, cb' = cb \/ cb' = 1
    PROVE  LockInv'
  BY DEF LockInv, Holding, At

\* Every step preserves the invariant of the lock.
LEMMA LockStep == LockInv /\ [Next]_vars => LockInv'
<1> SUFFICES ASSUME LockInv, [Next]_vars PROVE LockInv'
  OBVIOUS
<1>1. ASSUME NEW c \in Commands, Command(c) PROVE LockInv'
  BY <1>1 DEF Command, LockInv, Tasks, Places, Holding, At, Goto
<1>2. CASE PollerWakes
  BY <1>2 DEF PollerWakes, LockInv, Tasks, Places, Holding, At, Goto
<1>3. ASSUME NEW t \in Tasks, TakePrinting(t) PROVE LockInv'
  BY <1>3 DEF TakePrinting, LockInv, Tasks, Places, Holding, At, Goto
<1>4. ASSUME NEW t \in Tasks, TakeCallback(t) PROVE LockInv'
  BY <1>4, HolderMoves DEF TakeCallback, Places, Holding, At
<1>5. ASSUME NEW t \in Tasks, GiveCallback(t) PROVE LockInv'
  BY <1>5 DEF GiveCallback, LockInv, Tasks, Places, Holding, At, Goto
<1>6. ASSUME NEW t \in Tasks, GivePrinting(t) PROVE LockInv'
  BY <1>6 DEF GivePrinting, LockInv, Tasks, Places, Holding, At, Goto
<1>7. ASSUME NEW t \in Tasks, Query(t) PROVE LockInv'
  <2>1. CASE Ask(t)
    BY <2>1, HolderMoves DEF Ask, Places, Holding, At
  <2>2. CASE OutBack(t)
    BY <2>2, HolderMoves DEF OutBack, Places, Holding, At
  <2>3. ASSUME NEW value, Return(t, value), Holding(t), printing' = printing PROVE LockInv'
    BY <2>3, HolderMoves DEF Return, Places
  <2>4. CASE InBack(t)
    BY <2>3, <2>4 DEF InBack, Holding, At
  <2>5. CASE QueryTimesOut(t)
    BY <2>3, <2>5 DEF QueryTimesOut, Holding, At
  <2> QED
    BY <1>7, <2>1, <2>2, <2>4, <2>5 DEF Query
<1>8. CASE Report
  BY <1>8, HolderMoves DEF Report, Tasks, Places, Holding, At
<1>9. CASE Dispatch
  BY <1>9, HolderMoves DEF Dispatch, Tasks, Places, Holding, At
<1>10. CASE DispatchOutOfMemory
  BY <1>10 DEF DispatchOutOfMemory, LockInv, Tasks, Places, Holding, At, Goto
<1>11. CASE Fill \/ SubmitPrint \/ SubmitPrintFails \/ PrintReturns
  BY <1>11, HolderMoves DEF Fill, SubmitPrint, SubmitPrintFails, PrintReturns, Tasks, Places, Holding, At
<1>12. CASE Callbacks \/ Events \/ Act \/ Attach \/ Detach
  BY <1>12, LockFrame
     DEF Callbacks, OutCallback, InCallback, PrintCallback, GhostCallback, Events, NewDevice,
         DeviceGone, Act, Attach, Detach, taskVars
<1>13. CASE UNCHANGED vars
  BY <1>13, LockFrame DEF vars, taskVars
<1> HIDE DEF LockInv
<1> QED
  BY <1>1, <1>2, <1>3, <1>4, <1>5, <1>6, <1>7, <1>8, <1>9, <1>10, <1>11, <1>12, <1>13
     DEF Next, Handler, Poller, Steps, Tasks

LEMMA LockAlways == Spec => []LockInv
  BY LockInit, LockStep, PTL DEF Spec

\* At most one of escHandleCommand and getPrinterStatTask is between its take
\* and its give of printingQueue_sem.
THEOREM Exclusion == Spec => []OneTransportUser
<1>1. LockInv => OneTransportUser
  BY DEF LockInv, OneTransportUser, Tasks
<1> QED
  BY <1>1, LockAlways, PTL

\* The ignored timed take of callback_sem always finds the semaphore.
THEOREM TimedTakeSucceeds == Spec => []CallbackSemReady
<1>1. LockInv => CallbackSemReady
  BY DEF LockInv, CallbackSemReady
<1> QED
  BY <1>1, LockAlways, PTL

-----------------------------------------------------------------------------
(* The queue of handles.                                                   *)

\* Unless a device vanished too early, the driver's slot asks for an opening
\* exactly while one is due, for a closing whenever one is due, and never for
\* the closing of a device that is there.
DriverInv ==
    ~missed => /\ handles \in 0..1
               /\ handles = 1 <=> dev \in {"open", "unplugged", "gone"}
               /\ actions = "open" <=> dev = "enumerated"
               /\ dev = "gone" => actions = "close"
               /\ actions = "close" => dev \in {"gone", "absent", "attached"}

\* The steps of the tasks and the callbacks of transfers do not touch the
\* device, the slot or the queue.
LEMMA DriverFrame ==
    ASSUME DriverInv, handles' = handles, actions' = actions, dev' = dev, missed' = missed
    PROVE  DriverInv'
  BY DEF DriverInv

\* Every step preserves the agreement of slot, queue and device.
LEMMA DriverStep == DriverInv /\ [Next]_vars => DriverInv'
<1> SUFFICES ASSUME DriverInv, [Next]_vars PROVE DriverInv'
  OBVIOUS
<1>1. CASE Act
  BY <1>1 DEF Act, DriverInv
<1>2. CASE NewDevice
  BY <1>2 DEF NewDevice, DriverInv
<1>3. CASE DeviceGone
  BY <1>3 DEF DeviceGone, DriverInv
<1>4. CASE Attach
  BY <1>4 DEF Attach, DriverInv, driverVars
<1>5. CASE Detach
  BY <1>5 DEF Detach, DriverInv, driverVars
<1>6. ASSUME NEW c \in Commands, Command(c) PROVE DriverInv'
  BY <1>6, DriverFrame DEF Command, driverVars
<1>7. ASSUME NEW t \in Tasks, TakePrinting(t) \/ Steps(t) PROVE DriverInv'
  BY <1>7, DriverFrame
     DEF TakePrinting, Steps, TakeCallback, Query, Ask, OutBack, InBack, QueryTimesOut,
         GiveCallback, GivePrinting, driverVars
<1>8. CASE PollerWakes \/ Report \/ Dispatch \/ DispatchOutOfMemory
  BY <1>8, DriverFrame DEF PollerWakes, Report, Dispatch, DispatchOutOfMemory, driverVars
<1>9. CASE Fill \/ SubmitPrint \/ SubmitPrintFails \/ PrintReturns
  BY <1>9, DriverFrame DEF Fill, SubmitPrint, SubmitPrintFails, PrintReturns, driverVars
<1>10. CASE Callbacks
  BY <1>10, DriverFrame DEF Callbacks, OutCallback, InCallback, PrintCallback, GhostCallback
<1>11. CASE UNCHANGED vars
  BY <1>11, DriverFrame DEF vars, driverVars
<1> HIDE DEF DriverInv
<1> QED
  BY <1>1, <1>2, <1>3, <1>4, <1>5, <1>6, <1>7, <1>8, <1>9, <1>10, <1>11
     DEF Next, Handler, Poller, Events, Tasks

\* The queue of handles holds one handle while a device is open or its closing
\* is due, and none otherwise.
THEOREM HandleAgrees == Spec => []HandleMeansDevice
<1>1. Init => DriverInv
  BY DEF Init, DriverInv
<1>2. DriverInv => HandleMeansDevice
  BY DEF DriverInv, HandleMeansDevice
<1> QED
  BY <1>1, <1>2, DriverStep, PTL DEF Spec

-----------------------------------------------------------------------------
(* The print transfer.                                                     *)

\* Until some print is late, no freed transfer is in flight, and
\* transfer_cb_sem is given only for the transfer print() waits for.
PrintInv ==
    /\ job \in {"flying", "done"} => At("handler", "awaitPrint")
    /\ ~late => ~ghost /\ (xfer = 1 => job = "done")
    /\ xfer \in 0..1
    /\ late \in BOOLEAN /\ ghost \in BOOLEAN

\* A step that leaves the print transfer, its semaphore and the tasks alone.
LEMMA PrintFrame ==
    ASSUME PrintInv, UNCHANGED printVars, pc' = pc
    PROVE  PrintInv'
  BY DEF PrintInv, printVars, At

\* A task moves on, not from the place where the print transfer is awaited.
LEMMA PrintMoves ==
    ASSUME LockInv, PrintInv, UNCHANGED printVars,
           NEW t \in Tasks, NEW place, ~At(t, "awaitPrint"), Goto(t, place)
    PROVE  PrintInv'
<1>1. pc \in [Tasks -> Places]
  BY DEF LockInv
<1>2. At("handler", "awaitPrint") => At("handler", "awaitPrint")'
  BY <1>1 DEF At, Goto, Tasks
<1> QED
  BY <1>2 DEF PrintInv, printVars

\* print() returns: its transfer is freed, and unless it is late its
\* completion was there.
LEMMA PrintReturnsStep == PrintInv /\ PrintReturns => PrintInv'
<1> SUFFICES ASSUME PrintInv, PrintReturns PROVE PrintInv'
  OBVIOUS
<1>1. job' = "none" /\ xfer' = 0
  BY DEF PrintReturns
<1>2. late' \in BOOLEAN /\ ghost' \in BOOLEAN
  BY DEF PrintReturns, PrintInv
<1>3. CASE late
  <2>1. late'
    BY <1>3 DEF PrintReturns
  <2> QED
    BY <1>1, <1>2, <2>1 DEF PrintInv
<1>4. CASE ~late
  <2>1. ~late' => xfer # 0
    BY Zenon DEF PrintReturns
  <2>2. xfer \in 0..1
    BY DEF PrintInv
  <2>3. ~ghost /\ (xfer = 1 => job = "done")
    BY <1>4, Zenon DEF PrintInv
  <2>4. ~late' => (~ghost /\ job # "flying")
    BY <2>1, <2>2, <2>3
  <2>5. ghost' = (ghost \/ job = "flying")
    BY DEF PrintReturns
  <2>6. ~late' => ~ghost'
    BY <2>4, <2>5
  <2> QED
    BY <1>1, <1>2, <2>6 DEF PrintInv
<1> QED
  BY <1>3, <1>4

\* Every step preserves what is known of the print transfer.
LEMMA PrintStep == LockInv /\ PrintInv /\ [Next]_vars => PrintInv'
<1> SUFFICES ASSUME LockInv, PrintInv, [Next]_vars PROVE PrintInv'
  OBVIOUS
<1>0. pc \in [Tasks -> Places]
  BY DEF LockInv
<1>1. ASSUME NEW c \in Commands, Command(c) PROVE PrintInv'
  BY <1>1, PrintMoves DEF Command, Tasks, At
<1>2. ASSUME NEW t \in Tasks, TakePrinting(t) \/ TakeCallback(t) \/ GiveCallback(t) \/ GivePrinting(t)
      PROVE  PrintInv'
  BY <1>2, PrintMoves DEF TakePrinting, TakeCallback, GiveCallback, GivePrinting, At
<1>3. ASSUME NEW t \in Tasks, Query(t) PROVE PrintInv'
  <2>1. UNCHANGED printVars /\ ~At(t, "awaitPrint")
    BY <1>3 DEF Query, Ask, OutBack, InBack, QueryTimesOut, At
  <2>2. \E place : Goto(t, place)
    BY <1>3 DEF Query, Ask, OutBack, InBack, QueryTimesOut, Return
  <2> QED
    BY <2>1, <2>2, PrintMoves
<1>4. CASE PollerWakes \/ Report \/ Dispatch \/ DispatchOutOfMemory
  BY <1>4, PrintMoves DEF PollerWakes, Report, Dispatch, DispatchOutOfMemory, Tasks, At
<1>5. CASE Fill
  BY <1>0, <1>5 DEF Fill, PrintInv, Tasks, At, Goto
<1>6. CASE SubmitPrint
  BY <1>0, <1>6 DEF SubmitPrint, PrintInv, Tasks, At, Goto
<1>7. CASE SubmitPrintFails
  BY <1>0, <1>7 DEF SubmitPrintFails, PrintInv, Tasks, At, Goto
<1>8. CASE PrintReturns
  BY <1>8, PrintReturnsStep
<1>9. CASE PrintCallback
  BY <1>9 DEF PrintCallback, PrintInv, taskVars, At
<1>10. CASE GhostCallback
  BY <1>10 DEF GhostCallback, PrintInv, taskVars, At
<1>11. CASE OutCallback \/ InCallback \/ Events \/ Act \/ Attach \/ Detach
  BY <1>11, PrintFrame
     DEF OutCallback, InCallback, Events, NewDevice, DeviceGone, Act, Attach, Detach, taskVars
<1>12. CASE UNCHANGED vars
  BY <1>12, PrintFrame DEF vars, taskVars
<1> QED
  BY <1>1, <1>2, <1>3, <1>4, <1>5, <1>6, <1>7, <1>8, <1>9, <1>10, <1>11, <1>12
     DEF Next, Handler, Poller, Steps, Callbacks, Tasks

\* Until some print is late, print() frees its transfer after its completion.
THEOREM PrintWaits == Spec => []PrintWaitsForItsTransfer
<1>1. Init => PrintInv
  <2> SUFFICES ASSUME Init PROVE PrintInv
    OBVIOUS
  <2>1. xfer \in 0..1 /\ xfer # 1
    BY DEF Init
  <2>2. job \notin {"flying", "done"}
    BY DEF Init
  <2>3. late \in BOOLEAN /\ ghost = FALSE
    BY DEF Init
  <2> QED
    BY <2>1, <2>2, <2>3, Zenon DEF PrintInv
<1>2. PrintInv => PrintWaitsForItsTransfer
  <2>1. PrintInv /\ ~late => (xfer = 1 => job = "done")
    BY Zenon DEF PrintInv
  <2> QED
    BY <2>1 DEF PrintWaitsForItsTransfer
<1> QED
  BY <1>1, <1>2, PrintStep, LockAlways, PTL DEF Spec

-----------------------------------------------------------------------------
(* Types.                                                                  *)

\* A question or a transfer within the bound can be added.
LEMMA Pushed ==
    ASSUME NEW s \in Seq(Owner), NEW e \in Owner, Len(s) < MaxInFlight
    PROVE  Append(s, e) \in Seq(Owner) /\ Len(Append(s, e)) <= MaxInFlight
<1>1. Len(s) \in Nat
  BY LenProperties
<1>2. Append(s, e) \in Seq(Owner) /\ Len(Append(s, e)) = Len(s) + 1
  BY AppendProperties
<1> QED
  BY <1>1, <1>2

\* Ageing a sequence of questions or answers keeps its length.
LEMMA AgedType ==
    ASSUME NEW s \in Seq(Owner)
    PROVE  /\ Aged(s) \in Seq(Owner)
           /\ Len(Aged(s)) = Len(s)
           /\ s = <<>> => Aged(s) = <<>>
<1>1. Len(s) \in Nat /\ DOMAIN s = 1..Len(s)
  BY LenProperties
<1>2. Aged(s) = [i \in 1..Len(s) |-> "old"]
  BY <1>1 DEF Aged
<1>3. Aged(s) \in Seq(Owner) /\ Len(Aged(s)) = Len(s)
  BY <1>1, <1>2 DEF Owner
<1> QED
  BY <1>3, EmptySeq, LenProperties

\* The part of the type invariant about tasks, driver and device.
TaskType ==
    /\ pc \in [Tasks -> Places]
    /\ cmd \in Commands \cup {"none"}
    /\ round \in 1..Rounds
    /\ first \in {"zero", "ready", "other"}
    /\ printing \in 0..1 /\ cb \in 0..1 /\ xfer \in 0..1
    /\ handles \in 0..HandleQueueSize
    /\ actions \in {"none", "open", "close"}
    /\ status \in Status
    /\ job \in {"none", "filled", "flying", "done"}
    /\ dev \in {"absent", "attached", "enumerated", "open", "unplugged", "gone"}

\* The part about the queries.
QueryType ==
    /\ code \in Codes
    /\ outs \in Seq(Owner) /\ Len(outs) <= MaxInFlight
    /\ asked \in Seq(Owner) /\ Len(asked) <= MaxInFlight
    /\ ins \in 0..MaxInFlight

\* The part about the variables that are true or false.
FlagType ==
    /\ woken \in BOOLEAN
    /\ clean \in BOOLEAN
    /\ ghost \in BOOLEAN /\ late \in BOOLEAN
    /\ missed \in BOOLEAN /\ oom \in BOOLEAN

LEMMA TypeParts == TypeOK <=> TaskType /\ QueryType /\ FlagType
  BY DEF TypeOK, TaskType, QueryType, FlagType

\* Flags are set, reset, or computed from flags.
LEMMA FlagStep == FlagType /\ [Next]_vars => FlagType'
<1> SUFFICES ASSUME FlagType, [Next]_vars PROVE FlagType'
  OBVIOUS
<1>1. CASE \E c \in Commands : Command(c)
  BY <1>1, Zenon DEF Command, FlagType, driverVars, queryVars, printVars
<1>2. ASSUME NEW t \in Tasks, TakePrinting(t) \/ TakeCallback(t) \/ GiveCallback(t) \/ GivePrinting(t)
      PROVE  FlagType'
  BY <1>2, Zenon DEF TakePrinting, TakeCallback, GiveCallback, GivePrinting, FlagType, driverVars, queryVars, printVars
<1>3. ASSUME NEW t \in Tasks, Query(t) PROVE FlagType'
  BY <1>3, Zenon DEF Query, Ask, OutBack, InBack, QueryTimesOut, FlagType, driverVars, queryVars, printVars
<1>4. CASE PollerWakes \/ Report \/ Dispatch \/ DispatchOutOfMemory
  BY <1>4, Zenon DEF PollerWakes, Report, Dispatch, DispatchOutOfMemory, FlagType, driverVars, queryVars, printVars
<1>5. CASE Fill \/ SubmitPrint \/ SubmitPrintFails \/ PrintReturns
  BY <1>5, Zenon DEF Fill, SubmitPrint, SubmitPrintFails, PrintReturns, FlagType, driverVars, queryVars
<1>6. CASE Callbacks
  BY <1>6, Zenon DEF Callbacks, OutCallback, InCallback, PrintCallback, GhostCallback, FlagType, queryVars, printVars
<1>7. CASE Events \/ Act \/ Attach \/ Detach
  BY <1>7, Zenon DEF Events, NewDevice, DeviceGone, Act, Attach, Detach, FlagType, driverVars, queryVars, printVars
<1>8. CASE UNCHANGED vars
  BY <1>8, Zenon DEF vars, FlagType, driverVars, queryVars, printVars
<1> HIDE DEF FlagType
<1> QED
  BY <1>1, <1>2, <1>3, <1>4, <1>5, <1>6, <1>7, <1>8 DEF Next, Handler, Poller, Steps, Tasks

\* A transfer is submitted, comes back, or grows old; questions reach the
\* printer and are answered.
LEMMA QueryTypeStep == QueryType /\ [Next]_vars => QueryType'
<1> SUFFICES ASSUME QueryType, [Next]_vars PROVE QueryType'
  OBVIOUS
<1> USE DEF QueryType
<1>0. Zero \in Codes
  BY DEF Codes
<1>1. ASSUME NEW t \in Tasks, Ask(t) PROVE QueryType'
  <2>1. outs' = Aged(outs) \/ (outs' = Append(Aged(outs), "mine") /\ Len(outs) < MaxInFlight)
    BY <1>1 DEF Ask, MaySubmit
  <2>2. outs' \in Seq(Owner) /\ Len(outs') <= MaxInFlight
    <3>1. Aged(outs) \in Seq(Owner) /\ Len(Aged(outs)) = Len(outs)
      BY AgedType
    <3>2. "mine" \in Owner
      BY DEF Owner
    <3> QED
      BY <2>1, <3>1, <3>2, Pushed
  <2>3. asked' \in Seq(Owner) /\ Len(asked') <= MaxInFlight
    BY <1>1, AgedType DEF Ask
  <2>4. code' \in Codes
    BY <1>1 DEF Ask, Codes, Zero, Owner
  <2> QED
    BY <1>1, <2>2, <2>3, <2>4 DEF Ask
<1>2. ASSUME NEW t \in Tasks, OutBack(t) PROVE QueryType'
  BY <1>2 DEF OutBack, MaySubmit
<1>3. ASSUME NEW t \in Tasks, InBack(t) \/ QueryTimesOut(t) PROVE QueryType'
  BY <1>0, <1>3 DEF InBack, QueryTimesOut, queryVars
<1>4. CASE OutCallback
  <2>1. outs # <<>> /\ outs' = Tail(outs)
    BY <1>4 DEF OutCallback
  <2>2. Head(outs) \in Owner /\ outs' \in Seq(Owner) /\ Len(outs') <= MaxInFlight
    BY <2>1, HeadTailProperties, LenProperties
  <2>3. asked' = asked \/ (asked' = Append(asked, Head(outs)) /\ Len(asked) < MaxInFlight)
    BY <1>4 DEF OutCallback
  <2>4. asked' \in Seq(Owner) /\ Len(asked') <= MaxInFlight
    BY <2>2, <2>3, Pushed
  <2> QED
    BY <1>4, <2>2, <2>4 DEF OutCallback
<1>5. CASE InCallback
  <2>1. asked' = asked \/ (asked # <<>> /\ asked' = Tail(asked))
    BY <1>5 DEF InCallback
  <2>2. asked' \in Seq(Owner) /\ Len(asked') <= MaxInFlight
    BY <2>1, HeadTailProperties, LenProperties
  <2>3. asked # <<>> => Head(asked) \in Owner
    BY HeadTailProperties
  <2>4. code' \in Codes
    BY <1>0, <1>5, <2>3 DEF InCallback, Codes
  <2> QED
    BY <1>5, <2>2, <2>4 DEF InCallback
<1>6. CASE Detach
  BY <1>6, EmptySeq DEF Detach
<1>7. ASSUME NEW t \in Tasks, TakePrinting(t) \/ TakeCallback(t) \/ GiveCallback(t) \/ GivePrinting(t)
      PROVE  QueryType'
  BY <1>7 DEF TakePrinting, TakeCallback, GiveCallback, GivePrinting, queryVars
<1>8. CASE (\E c \in Commands : Command(c)) \/ PollerWakes \/ Report \/ Dispatch \/ DispatchOutOfMemory
  BY <1>8 DEF Command, PollerWakes, Report, Dispatch, DispatchOutOfMemory, queryVars
<1>9. CASE Fill \/ SubmitPrint \/ SubmitPrintFails \/ PrintReturns
  BY <1>9 DEF Fill, SubmitPrint, SubmitPrintFails, PrintReturns, queryVars
<1>10. CASE PrintCallback \/ GhostCallback \/ Events \/ Act \/ Attach
  BY <1>10 DEF PrintCallback, GhostCallback, Events, NewDevice, DeviceGone, Act, Attach, queryVars
<1>11. CASE UNCHANGED vars
  BY <1>11 DEF vars, queryVars
<1> HIDE DEF QueryType
<1> QED
  BY <1>1, <1>2, <1>3, <1>4, <1>5, <1>6, <1>7, <1>8, <1>9, <1>10, <1>11
     DEF Next, Handler, Poller, Steps, Query, Callbacks, Tasks

\* The tasks, the driver's slot and the device move between known values.
LEMMA TaskTypeStep == TaskType /\ QueryType /\ LockInv' /\ [Next]_vars => TaskType'
<1> SUFFICES ASSUME TaskType, QueryType, LockInv', [Next]_vars PROVE TaskType'
  OBVIOUS
<1> USE DEF TaskType
<1>0. pc' \in [Tasks -> Places]
  BY DEF LockInv
<1>1. ASSUME NEW c \in Commands, Command(c) PROVE TaskType'
  BY <1>0, <1>1 DEF Command, driverVars, printVars
<1>2. ASSUME NEW t \in Tasks, TakePrinting(t) \/ TakeCallback(t) \/ GiveCallback(t) \/ GivePrinting(t)
      PROVE  TaskType'
  BY <1>0, <1>2 DEF TakePrinting, TakeCallback, GiveCallback, GivePrinting, driverVars, printVars
<1>3. ASSUME NEW t \in Tasks, Query(t) PROVE TaskType'
  <2>1. CASE Ask(t) \/ OutBack(t)
    BY <1>0, <2>1 DEF Ask, OutBack, driverVars, printVars
  <2>2. ASSUME NEW value \in {"zero", "ready", "other"}, Return(t, value)
        PROVE  round' \in 1..Rounds /\ first' \in {"zero", "ready", "other"}
    BY <2>2 DEF Return
  <2>3. code.value \in {"zero", "ready", "other"}
    BY DEF QueryType, Codes, Zero
  <2>4. CASE InBack(t)
    BY <1>0, <2>2, <2>3, <2>4 DEF InBack, driverVars, printVars
  <2>5. CASE QueryTimesOut(t)
    BY <1>0, <2>2, <2>5 DEF QueryTimesOut, driverVars, printVars
  <2> QED
    BY <1>3, <2>1, <2>4, <2>5 DEF Query
<1>4. CASE PollerWakes \/ Report \/ Dispatch \/ DispatchOutOfMemory
  BY <1>0, <1>4 DEF PollerWakes, Report, Dispatch, DispatchOutOfMemory, Status, driverVars, printVars
<1>5. CASE Fill \/ SubmitPrint \/ SubmitPrintFails \/ PrintReturns
  BY <1>0, <1>5 DEF Fill, SubmitPrint, SubmitPrintFails, PrintReturns, driverVars
<1>6. CASE OutCallback \/ InCallback
  BY <1>0, <1>6 DEF OutCallback, InCallback, taskVars, printVars
<1>7. CASE PrintCallback \/ GhostCallback
  BY <1>0, <1>7 DEF PrintCallback, GhostCallback, taskVars
<1>8. CASE NewDevice \/ DeviceGone
  BY <1>0, <1>8 DEF NewDevice, DeviceGone, taskVars, printVars, Status
<1>9. CASE Act
  BY <1>0, <1>9 DEF Act, taskVars, printVars
<1>10. CASE Attach \/ Detach
  BY <1>0, <1>10 DEF Attach, Detach, taskVars, driverVars, printVars
<1>11. CASE UNCHANGED vars
  BY <1>0, <1>11 DEF vars, taskVars, driverVars, printVars
<1> HIDE DEF TaskType
<1> QED
  BY <1>1, <1>2, <1>3, <1>4, <1>5, <1>6, <1>7, <1>8, <1>9, <1>10, <1>11
     DEF Next, Handler, Poller, Steps, Callbacks, Events, Tasks

\* Every variable stays in its domain.
THEOREM TypeCorrect == Spec => []TypeOK
<1>1. Init => TaskType
  BY DEF Init, TaskType, Tasks, Places, Status
<1>2. Init => QueryType
  BY EmptySeq DEF Init, QueryType, Codes
<1>3. Init => FlagType
  BY Zenon DEF Init, FlagType
<1>4. TaskType /\ QueryType /\ FlagType /\ LockInv' /\ [Next]_vars
        => TaskType' /\ QueryType' /\ FlagType'
  BY FlagStep, QueryTypeStep, TaskTypeStep
<1> QED
  BY <1>1, <1>2, <1>3, <1>4, TypeParts, LockAlways, PTL DEF Spec

-----------------------------------------------------------------------------
(* Fresh answers.                                                          *)

AllMine(s) == \A i \in 1..Len(s) : s[i] = "mine"

\* A query that found nothing pending waits for its own question to leave: no
\* IN transfer is in flight, and callback_sem means that the question is out.
AwaitingOut ==
    /\ ins = 0
    /\ Len(outs) <= 1
    /\ AllMine(outs) /\ AllMine(asked)
    /\ cb = 1 => outs = <<>>

\* Then it waits for its own answer: no question is in flight, and callback_sem
\* means that the one IN transfer has stored the status code.
AwaitingIn ==
    /\ outs = <<>>
    /\ ins <= 1
    /\ AllMine(asked)
    /\ cb = 1 => ins = 0 /\ (code = Zero \/ code.of = "mine")

QueryInv ==
    \A t \in Tasks :
        clean => /\ At(t, "awaitOut") => AwaitingOut
                 /\ At(t, "awaitIn") => AwaitingIn

Waiting == {"awaitOut", "awaitIn"}

\* The holder of the lock is the only one who could wait for an answer.
LEMMA HolderLeaves ==
    ASSUME LockInv, NEW t \in Tasks, Holding(t), NEW place \in Places \ Waiting, Goto(t, place)
    PROVE  QueryInv'
<1>1. \A u \in Tasks : pc'[u] \notin Waiting
  BY DEF LockInv, Holding, Goto, Waiting
<1> QED
  BY <1>1 DEF QueryInv, At, Waiting

\* Steps that no query sees.
LEMMA QueryUnseen ==
    ASSUME QueryInv, UNCHANGED <<cb, queryVars>>,
           \A u \in Tasks : pc'[u] = pc[u] \/ pc'[u] \notin Waiting
    PROVE  QueryInv'
  BY DEF QueryInv, At, AwaitingOut, AwaitingIn, AllMine, queryVars, Waiting

\* Steps of callbacks and events: what they do to a waiting query.
LEMMA QueryDisturbed ==
    ASSUME QueryInv, pc' = pc, clean' = clean,
           AwaitingOut => AwaitingOut', AwaitingIn => AwaitingIn'
    PROVE  QueryInv'
<1> HIDE DEF AwaitingOut, AwaitingIn
<1> QED
  BY Zenon DEF QueryInv, At

\* Every step preserves the invariant of the queries.
LEMMA QueryStep == QueryInv /\ QueryType /\ LockInv /\ [Next]_vars => QueryInv'
<1> SUFFICES ASSUME QueryInv, QueryType, LockInv, [Next]_vars PROVE QueryInv'
  OBVIOUS
<1>0. /\ outs \in Seq(Owner) /\ asked \in Seq(Owner) /\ ins \in Nat
      /\ Len(outs) \in Nat /\ Len(asked) \in Nat
      /\ pc \in [Tasks -> Places]
  BY LenProperties DEF QueryType, LockInv
<1>1. ASSUME NEW t \in Tasks, Ask(t) PROVE QueryInv'
  <2>1. CASE clean'
    <3>1. outs = <<>> /\ asked = <<>> /\ ins = 0 /\ cb = 0
      BY <1>1, <2>1 DEF Ask
    <3>2. Aged(outs) = <<>> /\ Aged(asked) = <<>>
      BY <1>0, <3>1, AgedType
    <3>3. outs' = <<>> \/ outs' = Append(<<>>, "mine")
      BY <1>1, <3>2 DEF Ask
    <3>4. Len(outs') <= 1 /\ AllMine(outs')
      <4>1. <<>> \in Seq(Owner) /\ Len(<<>>) = 0 /\ "mine" \in Owner
        BY EmptySeq DEF Owner
      <4>2. /\ Len(Append(<<>>, "mine")) = 1
            /\ Append(<<>>, "mine")[1] = "mine"
        BY <4>1, AppendProperties
      <4>3. CASE outs' = <<>>
        BY <4>1, <4>3 DEF AllMine
      <4>4. CASE outs' = Append(<<>>, "mine")
        <5> DEFINE a == Append(<<>>, "mine")
        <5>1. Len(a) = 1 /\ a[1] = "mine"
          BY <4>2
        <5> HIDE DEF a
        <5>2. \A i \in 1..Len(a) : a[i] = "mine"
          BY <5>1
        <5> QED
          BY <4>4, <5>1, <5>2 DEF AllMine, a
      <4> QED
        BY <3>3, <4>3, <4>4
    <3>5. ins' = 0 /\ asked' = <<>> /\ cb' = 0
      BY <1>1, <3>1, <3>2 DEF Ask
    <3>6. AwaitingOut'
      BY <3>4, <3>5 DEF AwaitingOut, AllMine
    <3>7. \A u \in Tasks : ~At(u, "awaitIn")'
      BY <1>0, <1>1 DEF LockInv, Ask, At, Goto, Holding
    <3> QED
      BY <3>6, <3>7 DEF QueryInv
  <2>2. CASE ~clean'
    BY <2>2 DEF QueryInv
  <2> QED
    BY <2>1, <2>2
<1>2. ASSUME NEW t \in Tasks, OutBack(t) PROVE QueryInv'
  <2>1. CASE clean
    <3>1. ins = 0 /\ AllMine(asked) /\ outs = <<>>
      BY <1>2, <2>1 DEF QueryInv, OutBack, AwaitingOut
    <3>2. ins' \in {0, 1} /\ asked' = asked /\ outs' = outs /\ cb' = 0
      BY <1>2, <3>1 DEF OutBack
    <3>3. AwaitingIn'
      BY <3>1, <3>2 DEF AwaitingIn, AllMine
    <3>4. \A u \in Tasks : ~At(u, "awaitOut")'
      BY <1>0, <1>2 DEF LockInv, OutBack, At, Goto, Holding
    <3> QED
      BY <3>3, <3>4 DEF QueryInv
  <2>2. CASE ~clean
    BY <1>2, <2>2 DEF QueryInv, OutBack
  <2> QED
    BY <2>1, <2>2
<1>3. ASSUME NEW t \in Tasks, InBack(t) \/ QueryTimesOut(t) PROVE QueryInv'
  <2>1. PICK place \in Places \ Waiting : Goto(t, place)
    <3>1. \E value : Return(t, value)
      BY <1>3 DEF InBack, QueryTimesOut
    <3> QED
      BY <3>1 DEF Return, Places, Waiting
  <2> QED
    BY <1>3, <2>1, HolderLeaves DEF InBack, QueryTimesOut, Holding, At
<1>4. CASE OutCallback
  <2>1. outs # <<>> /\ outs' = Tail(outs) /\ Len(outs') = Len(outs) - 1
    BY <1>0, <1>4, HeadTailProperties DEF OutCallback
  <2>2. AwaitingOut => AwaitingOut'
    <3> SUFFICES ASSUME AwaitingOut PROVE AwaitingOut'
      OBVIOUS
    <3>1. Len(outs) = 1 /\ Head(outs) = "mine"
      BY <1>0, <2>1, EmptySeq DEF AwaitingOut, AllMine
    <3>2. outs' = <<>>
      BY <1>0, <2>1, <3>1, HeadTailProperties, EmptySeq
    <3>3. asked' = asked \/ asked' = Append(asked, "mine")
      BY <1>4, <3>1 DEF OutCallback
    <3>4. AllMine(asked')
      BY <1>0, <3>3, AppendProperties DEF AwaitingOut, AllMine, Owner
    <3> QED
      BY <1>4, <3>2, <3>4 DEF OutCallback, AwaitingOut, AllMine
  <2>3. ~AwaitingIn
    BY <2>1 DEF AwaitingIn
  <2> QED
    BY <1>4, <2>2, <2>3, QueryDisturbed DEF OutCallback, taskVars
<1>5. CASE InCallback
  <2>1. ~AwaitingOut
    BY <1>5 DEF InCallback, AwaitingOut
  <2>2. AwaitingIn => AwaitingIn'
    <3> SUFFICES ASSUME AwaitingIn PROVE AwaitingIn'
      OBVIOUS
    <3>1. ins = 1 /\ ins' = 0
      BY <1>0, <1>5 DEF InCallback, AwaitingIn
    <3>2. asked # <<>> => Head(asked) = "mine"
      BY <1>0, EmptySeq DEF AwaitingIn, AllMine
    <3>3. asked' = asked \/ (asked # <<>> /\ asked' = Tail(asked))
      BY <1>5 DEF InCallback
    <3>4. AllMine(asked')
      BY <1>0, <3>3, HeadTailProperties DEF AwaitingIn, AllMine
    <3>5. code' = Zero \/ code'.of = "mine"
      BY <1>5, <3>2 DEF InCallback
    <3>6. outs' = <<>>
      BY <1>5 DEF InCallback, AwaitingIn
    <3> QED
      BY <3>1, <3>4, <3>5, <3>6 DEF AwaitingIn
  <2> QED
    BY <1>5, <2>1, <2>2, QueryDisturbed DEF InCallback, taskVars
<1>6. CASE Detach
  <2>1. AwaitingOut => AwaitingOut'
    BY <1>6, EmptySeq DEF Detach, AwaitingOut, AllMine
  <2>2. AwaitingIn => AwaitingIn'
    BY <1>6, EmptySeq DEF Detach, AwaitingIn, AllMine
  <2> QED
    BY <1>6, <2>1, <2>2, QueryDisturbed DEF Detach, taskVars
<1>7. ASSUME NEW t \in Tasks, TakeCallback(t) \/ GiveCallback(t) \/ GivePrinting(t)
      PROVE  QueryInv'
  BY <1>7, HolderLeaves DEF TakeCallback, GiveCallback, GivePrinting, Holding, At, Places, Waiting
<1>8. ASSUME NEW t \in Tasks, TakePrinting(t) PROVE QueryInv'
  BY <1>0, <1>8, QueryUnseen DEF TakePrinting, Goto, Waiting
<1>9. CASE (\E c \in Commands : Command(c)) \/ PollerWakes
  BY <1>0, <1>9, QueryUnseen DEF Command, PollerWakes, Goto, Waiting
<1>10. CASE Report \/ Dispatch \/ DispatchOutOfMemory
  BY <1>10, HolderLeaves DEF Report, Dispatch, DispatchOutOfMemory, Tasks, Holding, At, Places, Waiting
<1>11. CASE Fill \/ SubmitPrint \/ SubmitPrintFails \/ PrintReturns
  BY <1>11, HolderLeaves DEF Fill, SubmitPrint, SubmitPrintFails, PrintReturns, Tasks, Holding, At, Places, Waiting
<1>12. CASE PrintCallback \/ GhostCallback \/ Events \/ Act \/ Attach
  BY <1>12, QueryUnseen
     DEF PrintCallback, GhostCallback, Events, NewDevice, DeviceGone, Act, Attach, taskVars
<1>13. CASE UNCHANGED vars
  BY <1>13, QueryUnseen DEF vars, taskVars
<1> HIDE DEF QueryInv
<1> QED
  BY <1>1, <1>2, <1>3, <1>4, <1>5, <1>6, <1>7, <1>8, <1>9, <1>10, <1>11, <1>12, <1>13
     DEF Next, Handler, Poller, Steps, Query, Callbacks, Tasks

\* A query that began with nothing pending never takes the answer to an earlier
\* one for its own.
THEOREM AnswersAreFresh == Spec => []FreshAnswer
<1>1. Init => QueryInv
  BY DEF Init, QueryInv, At, Tasks
<1>2. QueryInv => FreshAnswer
  BY DEF QueryInv, FreshAnswer, AwaitingIn, Zero
<1>3. TypeOK => QueryType
  BY TypeParts
<1> QED
  BY <1>1, <1>2, <1>3, QueryStep, LockAlways, TypeCorrect, PTL DEF Spec

-----------------------------------------------------------------------------
(***************************************************************************)
(* The encoder. What is on the wire is run ahead, one command after the      *)
(* other, over functions that say what the printer remembers and has on its  *)
(* paper after each; the receipts of ReceiptsSpec are read off them.         *)
(***************************************************************************)
HIDE PrinterAssumption

\* A set of naturals with an element has a least one.
LEMMA LeastNatural ==
    ASSUME NEW S, S \subseteq Nat, S # {}
    PROVE  \E x \in S : \A y \in S : x <= y
<1>1. PICK x \in S : \A y \in S : <<y, x>> \notin OpToRel(<, Nat)
  BY NatLessThanWellFounded, WFMin, Zenon
<1>2. \A y \in S : x <= y
  <2>1. TAKE y \in S
  <2>2. ~(y < x)
    BY <1>1 DEF OpToRel
  <2>3. x \in Nat /\ y \in Nat
    OBVIOUS
  <2> QED  BY <2>2, <2>3
<1> QED  BY <1>2

\* Some of the first numbers have a greatest one.
LEMMA Greatest ==
    ASSUME NEW n \in Nat, NEW S \in SUBSET (1..n), S # {}
    PROVE  R!Max(S) \in S /\ \A y \in S : R!Max(S) >= y
<1> DEFINE D == {n - x : x \in S}
<1>1. D \subseteq Nat /\ D # {}
  <2>1. \A x \in S : x \in Nat /\ n - x \in Nat
    OBVIOUS
  <2>2. PICK x \in S : TRUE
    OBVIOUS
  <2>3. n - x \in D
    OBVIOUS
  <2> QED  BY <2>1, <2>3
<1>2. PICK d \in D : \A y \in D : d <= y
  <2> HIDE DEF D
  <2> QED  BY <1>1, LeastNatural
<1>3. PICK m \in S : d = n - m
  BY <1>2
<1>4. \A y \in S : m >= y
  <2>1. TAKE y \in S
  <2>2. n - y \in D
    OBVIOUS
  <2>3. n - m <= n - y
    <3> HIDE DEF D
    <3> QED  BY <1>2, <1>3, <2>2
  <2>4. y \in Nat /\ m \in Nat
    OBVIOUS
  <2> QED  BY <2>3, <2>4
<1> QED  BY <1>4 DEF R!Max

\* The first n of the sequences in s, one after the other.
Flattening(s, n, f) == f = [i \in 1..n |-> IF i = 1 THEN s[i] ELSE f[i - 1] \o s[i]]

Flat(s, n) == CHOOSE f : f = [i \in 1..n |-> IF i = 1 THEN s[i] ELSE f[i - 1] \o s[i]]

LEMMA FlatIsDefined ==
    ASSUME NEW s, NEW n \in Nat
    PROVE  \A i \in 1..n : Flat(s, n)[i] = IF i = 1 THEN s[i] ELSE Flat(s, n)[i - 1] \o s[i]
<1> DEFINE Bad == {m \in Nat : ~ \E f : Flattening(s, m, f)}
<1>1. Bad = {}
  <2> SUFFICES ASSUME Bad # {} PROVE FALSE
    OBVIOUS
  <2>1. PICK m \in Bad : \A y \in Bad : m <= y
    <3>1. Bad \subseteq Nat
      OBVIOUS
    <3> HIDE DEF Bad
    <3> QED  BY <3>1, LeastNatural
  <2>2. CASE m = 0
    <3> DEFINE f == [i \in 1..0 |-> s]
    <3>1. Flattening(s, 0, f)
      BY DEF Flattening
    <3> QED  BY <2>1, <2>2, <3>1
  <2>3. CASE m # 0
    <3>1. m \in Nat /\ m - 1 \in Nat /\ m - 1 \notin Bad
      BY <2>1, <2>3
    <3>2. PICK f : Flattening(s, m - 1, f)
      BY <3>1
    <3> DEFINE g == [i \in 1..m |-> IF i < m THEN f[i]
                                    ELSE IF m = 1 THEN s[m] ELSE f[m - 1] \o s[m]]
    <3>3. \A i \in 1..m : g[i] = IF i = 1 THEN s[i] ELSE g[i - 1] \o s[i]
      <4>1. \A i \in 1..m - 1 : f[i] = IF i = 1 THEN s[i] ELSE f[i - 1] \o s[i]
        BY <3>1, <3>2 DEF Flattening
      <4> QED  BY <2>3, <3>1, <4>1
    <3>4. Flattening(s, m, g)
      BY <3>3 DEF Flattening
    <3> QED  BY <2>1, <3>4
  <2> QED  BY <2>2, <2>3
<1>2. PICK f : Flattening(s, n, f)
  BY <1>1
<1>3. Flattening(s, n, Flat(s, n))
  BY <1>2 DEF Flattening, Flat
<1> HIDE DEF Bad
<1> QED  BY <1>3 DEF Flattening

\* It depends on them only.
LEMMA FlatOfTheSame ==
    ASSUME NEW n \in Nat, NEW m \in Nat, n <= m, NEW s, NEW t, \A i \in 1..n : s[i] = t[i]
    PROVE  \A i \in 1..n : Flat(s, n)[i] = Flat(t, m)[i]
<1> DEFINE f == Flat(s, n)
           g == Flat(t, m)
           Bad == {i \in 1..n : f[i] # g[i]}
<1>1. \A i \in 1..n : f[i] = IF i = 1 THEN s[i] ELSE f[i - 1] \o s[i]
  BY FlatIsDefined
<1>2. \A i \in 1..m : g[i] = IF i = 1 THEN t[i] ELSE g[i - 1] \o t[i]
  BY FlatIsDefined
<1> HIDE DEF f, g
<1>3. Bad = {}
  <2> SUFFICES ASSUME Bad # {} PROVE FALSE
    OBVIOUS
  <2>1. PICK b \in Bad : \A y \in Bad : b <= y
    <3>1. Bad \subseteq Nat
      OBVIOUS
    <3> HIDE DEF Bad
    <3> QED  BY <3>1, LeastNatural
  <2>2. b \in 1..n /\ b \in 1..m /\ f[b] # g[b] /\ s[b] = t[b]
    BY <2>1
  <2>3. b # 1
    BY <1>1, <1>2, <2>2
  <2>4. b - 1 \in 1..n /\ b - 1 \notin Bad
    <3>1. b - 1 \in 1..n /\ ~(b <= b - 1)
      BY <2>2, <2>3
    <3> HIDE DEF Bad
    <3> QED  BY <2>1, <3>1
  <2>5. f[b - 1] = g[b - 1]
    BY <2>4
  <2> QED  BY <1>1, <1>2, <2>2, <2>3, <2>5
<1> QED  BY <1>3 DEF f, g

IsSeq(s) == \E T : s \in Seq(T)

HasLength(s, n) == s = [i \in 1..n |-> s[i]]

\* Another sequence is put behind the others.
LEMMA FlattenOneMore ==
    ASSUME NEW n \in Nat, NEW s, NEW t,
           HasLength(s, n), HasLength(t, n + 1),
           \A i \in 1..n : s[i] = t[i], IsSeq(t[n + 1])
    PROVE  R!FlattenSeq(t) = R!FlattenSeq(s) \o t[n + 1]
<1> DEFINE m == n + 1
<1>0. m \in Nat /\ m # 0 /\ n <= m /\ m \in 1..m /\ m - 1 = n /\ (m = 1 <=> n = 0)
  OBVIOUS
<1>1. Len(s) = n /\ Len(t) = n + 1
  <2>1. s \in Seq({s[i] : i \in 1..n}) /\ t \in Seq({t[i] : i \in 1..n + 1})
    BY DEF HasLength
  <2>2. DOMAIN s = 1..n /\ DOMAIN t = 1..n + 1
    BY DEF HasLength
  <2> QED  BY <2>1, <2>2
<1>2. R!FlattenSeq(t) = Flat(t, n + 1)[n + 1]
  <2>1. Len(t) = m /\ Len(t) # 0
    BY <1>0, <1>1
  <2> HIDE DEF m
  <2>2. R!FlattenSeq(t) = Flat(t, m)[m]
    BY <2>1 DEF R!FlattenSeq, Flat
  <2> QED  BY <2>2 DEF m
<1>3. Flat(t, n + 1)[n + 1] = IF n = 0 THEN t[n + 1] ELSE Flat(t, n + 1)[n] \o t[n + 1]
  <2> HIDE DEF m
  <2>1. \A i \in 1..m : Flat(t, m)[i] = IF i = 1 THEN t[i] ELSE Flat(t, m)[i - 1] \o t[i]
    BY <1>0, FlatIsDefined
  <2>2. Flat(t, m)[m] = IF n = 0 THEN t[m] ELSE Flat(t, m)[n] \o t[m]
    BY <1>0, <2>1
  <2> QED  BY <2>2 DEF m
<1>4. CASE n = 0
  <2>1. R!FlattenSeq(s) = s
    BY <1>1, <1>4 DEF R!FlattenSeq
  <2>2. s = <<>>
    BY <1>1, <1>4
  <2>3. <<>> \o t[n + 1] = t[n + 1]
    BY DEF IsSeq
  <2> QED  BY <1>2, <1>3, <1>4, <2>1, <2>2, <2>3
<1>5. CASE n # 0
  <2>1. R!FlattenSeq(s) = Flat(s, n)[n]
    BY <1>1, <1>5 DEF R!FlattenSeq, Flat
  <2>2. Flat(s, n)[n] = Flat(t, n + 1)[n]
    <3>1. n \in 1..n
      BY <1>5
    <3>2. Flat(s, n)[n] = Flat(t, m)[n]
      <4> HIDE DEF m
      <4>1. n \in Nat /\ m \in Nat /\ n <= m
        BY <1>0
      <4> QED  BY <3>1, <4>1, FlatOfTheSame
    <3> QED  BY <3>2
  <2> QED  BY <1>2, <1>3, <1>5, <2>1, <2>2
<1> QED  BY <1>4, <1>5

-----------------------------------------------------------------------------
(* The commands of an item, and what a printer makes of them.                *)

\* P[i] is what the printer remembers after i of the commands, Q[i] its paper.
Runs(commands, P, Q) ==
    \A i \in 1..Len(commands) :
        LET c == commands[i]
        IN  /\ P[i] = Latch(P[i - 1], c)
            /\ Q[i] = IF c.op \in {"reset", "cut"} THEN <<>> ELSE Q[i - 1] \o Output(P[i - 1], c)

\* The lines of the items of a job, without the feed before the cut.
Printed(items) == R!FlattenSeq([k \in 1..Len(items) |-> R!LinesOf(items, k)])

LEMMA SeqJoin ==
    ASSUME NEW q, NEW r, NEW s, IsSeq(q), IsSeq(r), IsSeq(s)
    PROVE  /\ IsSeq(q \o r) /\ q \o <<>> = q
           /\ (q \o r) \o s = q \o (r \o s)
           /\ Len(q) \in Nat /\ Len(q \o r) = Len(q) + Len(r)
           /\ \A i \in 1..Len(q) : (q \o r)[i] = q[i]
           /\ \A i \in 1..Len(r) : (q \o r)[Len(q) + i] = r[i]
<1>1. PICK A : q \in Seq(A)
  BY DEF IsSeq
<1>2. PICK B : r \in Seq(B)
  BY DEF IsSeq
<1>3. PICK C : s \in Seq(C)
  BY DEF IsSeq
<1> DEFINE T == A \cup B \cup C
<1>4. q \in Seq(T) /\ r \in Seq(T) /\ s \in Seq(T)
  BY <1>1, <1>2, <1>3
<1> HIDE DEF T
<1>5. q \o r \in Seq(T)
  BY <1>4
<1>6. q \o <<>> = q
  BY <1>4
<1>7. (q \o r) \o s = q \o (r \o s)
  BY <1>4, ConcatAssociative
<1> QED  BY <1>4, <1>5, <1>6, <1>7 DEF IsSeq

LEMMA SeqOne == \A c : IsSeq(<<c>>) /\ Len(<<c>>) = 1 /\ <<c>>[1] = c
  BY \A c : <<c>> \in Seq({c}) DEF IsSeq

LEMMA SeqNone == IsSeq(<<>>)
  BY <<>> \in Seq({}) DEF IsSeq

Prints(p, q, c) == IF c.op \in {"reset", "cut"} THEN <<>> ELSE q \o Output(p, c)

\* From p and q to p1 and q1.
RunOf(w, P, Q, p, q, p1, q1) ==
    Runs(w, P, Q) /\ P[0] = p /\ Q[0] = q /\ P[Len(w)] = p1 /\ Q[Len(w)] = q1

\* A printer that remembers p, with q on its paper, executes the commands w, none
\* of them a cut, and then remembers p1 and has q1 on its paper.
Reaches(w, p, q, p1, q1) ==
    /\ IsSeq(w)
    /\ \A i \in 1..Len(w) : w[i].op # "cut"
    /\ \E P, Q : RunOf(w, P, Q, p, q, p1, q1)

LEMMA ReachesNone == \A p, q : Reaches(<<>>, p, q, p, q)
<1> TAKE p, q
<1> DEFINE P == [i \in 0..0 |-> p]
           Q == [i \in 0..0 |-> q]
<1>1. Runs(<<>>, P, Q) /\ P[0] = p /\ Q[0] = q /\ Len(<<>>) = 0
  BY DEF Runs
<1> QED  BY <1>1, SeqNone DEF Reaches, RunOf

LEMMA OneRun ==
    ASSUME NEW c, NEW p, NEW q
    PROVE  \E P, Q : RunOf(<<c>>, P, Q, p, q, Latch(p, c), Prints(p, q, c))
<1> DEFINE p1 == Latch(p, c)
           q1 == Prints(p, q, c)
           w == <<c>>
           P == [i \in 0..1 |-> IF i = 0 THEN p ELSE p1]
           Q == [i \in 0..1 |-> IF i = 0 THEN q ELSE q1]
<1>1. Len(w) = 1 /\ w[1] = c
  BY SeqOne
<1>2. P[0] = p /\ Q[0] = q /\ P[1] = p1 /\ Q[1] = q1
  OBVIOUS
<1>3. p1 = Latch(p, c) /\ q1 = IF c.op \in {"reset", "cut"} THEN <<>> ELSE q \o Output(p, c)
  BY DEF Prints
<1> HIDE DEF w, P, Q, p1, q1
<1>4. Runs(w, P, Q)
  <2> SUFFICES ASSUME NEW i \in 1..1
               PROVE  /\ P[i] = Latch(P[i - 1], w[i])
                      /\ Q[i] = IF w[i].op \in {"reset", "cut"} THEN <<>>
                                ELSE Q[i - 1] \o Output(P[i - 1], w[i])
    BY <1>1 DEF Runs
  <2>1. i = 1 /\ i - 1 = 0
    OBVIOUS
  <2> QED  BY <1>1, <1>2, <1>3, <2>1
<1>5. RunOf(w, P, Q, p, q, p1, q1)
  BY <1>1, <1>2, <1>4 DEF RunOf
<1> QED  BY <1>5 DEF w, p1, q1

LEMMA ReachesOne ==
    ASSUME NEW c, c.op # "cut", NEW p, NEW q
    PROVE  Reaches(<<c>>, p, q, Latch(p, c), Prints(p, q, c))
<1> DEFINE w == <<c>>
<1>1. IsSeq(w) /\ Len(w) = 1 /\ w[1] = c
  BY SeqOne
<1>2. \E P, Q : RunOf(w, P, Q, p, q, Latch(p, c), Prints(p, q, c))
  BY OneRun
<1> HIDE DEF w
<1>3. \A i \in 1..Len(w) : w[i].op # "cut"
  BY <1>1
<1>4. Reaches(w, p, q, Latch(p, c), Prints(p, q, c))
  BY <1>1, <1>2, <1>3 DEF Reaches
<1> QED  BY <1>4 DEF w

\* One run after the other.
Joined(P, R2, n, m) == [i \in 0..n + m |-> IF i <= n THEN P[i] ELSE R2[i - n]]

Agrees(X, P, n) == \A i \in 0..n : X[i] = P[i]

LEMMA JoinedRuns ==
    ASSUME NEW v, NEW w, NEW P, NEW Q, NEW R2, NEW S2, NEW p, NEW q, NEW p1, NEW q1, NEW p2, NEW q2,
           IsSeq(v), IsSeq(w), RunOf(v, P, Q, p, q, p1, q1), RunOf(w, R2, S2, p1, q1, p2, q2)
    PROVE  LET X == Joined(P, R2, Len(v), Len(w))
               Y == Joined(Q, S2, Len(v), Len(w))
           IN  /\ RunOf(v \o w, X, Y, p, q, p2, q2)
               /\ Agrees(X, P, Len(v)) /\ Agrees(Y, Q, Len(v))
<1> DEFINE x == v \o w
           n == Len(v)
           m == Len(w)
           X == Joined(P, R2, n, m)
           Y == Joined(Q, S2, n, m)
<1>1. /\ Runs(v, P, Q) /\ Runs(w, R2, S2)
      /\ P[0] = p /\ Q[0] = q /\ R2[0] = p1 /\ S2[0] = q1 /\ P[Len(v)] = p1 /\ Q[Len(v)] = q1
      /\ R2[Len(w)] = p2 /\ S2[Len(w)] = q2
  BY DEF RunOf
<1>3. /\ IsSeq(x) /\ n \in Nat /\ m \in Nat /\ Len(x) = n + m
      /\ \A i \in 1..n : x[i] = v[i]
      /\ \A i \in 1..m : x[n + i] = w[i]
  BY SeqJoin
<1>0. /\ X = [i \in 0..n + m |-> IF i <= n THEN P[i] ELSE R2[i - n]]
      /\ Y = [i \in 0..n + m |-> IF i <= n THEN Q[i] ELSE S2[i - n]]
  BY DEF Joined
<1> HIDE DEF x, n, m, X, Y
<1>4. ASSUME NEW i \in 1..n + m
      PROVE  \/ i \in 1..n
             \/ i - n \in 1..m /\ i = n + (i - n)
  BY <1>3
<1>5. \A i \in 0..n : X[i] = P[i] /\ Y[i] = Q[i]
  BY <1>0, <1>3
<1>6. ASSUME NEW i \in 1..n
      PROVE  X[i] = P[i] /\ Y[i] = Q[i] /\ X[i - 1] = P[i - 1] /\ Y[i - 1] = Q[i - 1]
  BY <1>3, <1>5
<1>7. ASSUME NEW i \in 1..m
      PROVE  /\ X[n + i] = R2[i] /\ Y[n + i] = S2[i]
             /\ X[n + i - 1] = R2[i - 1] /\ Y[n + i - 1] = S2[i - 1]
  <2> DEFINE j == n + i
             k == n + i - 1
  <2>1. j \in 0..n + m /\ ~(j <= n) /\ j - n = i
    BY <1>3
  <2>2. k \in 0..n + m /\ k - n = i - 1
    BY <1>3
  <2>3. X[j] = R2[i] /\ Y[j] = S2[i]
    <3> HIDE DEF j
    <3> QED  BY <1>0, <2>1
  <2>4. CASE i = 1
    <3>1. k = n /\ i - 1 = 0 /\ n \in 0..n
      BY <1>3, <2>4
    <3>2. X[n] = P[n] /\ Y[n] = Q[n]
      BY <1>5, <3>1
    <3> QED  BY <1>1, <2>3, <3>1, <3>2 DEF n
  <2>5. CASE i # 1
    <3>1. ~(k <= n)
      BY <1>3, <2>5
    <3>2. X[k] = R2[i - 1] /\ Y[k] = S2[i - 1]
      <4> HIDE DEF k
      <4> QED  BY <1>0, <2>2, <3>1
    <3> QED  BY <2>3, <3>2
  <2> QED  BY <2>4, <2>5
<1>9. X[n + m] = R2[m] /\ Y[n + m] = S2[m]
  <2>1. CASE m = 0
    <3>1. n + m = n /\ n \in 0..n
      BY <1>3, <2>1
    <3>2. X[n + m] = P[n] /\ Y[n + m] = Q[n]
      BY <1>5, <3>1
    <3> QED  BY <1>1, <2>1, <3>2 DEF n, m
  <2>2. CASE m # 0
    <3>1. m \in 1..m
      BY <1>3, <2>2
    <3> QED  BY <1>7, <3>1
  <2> QED  BY <2>1, <2>2
<1>10. Runs(x, X, Y)
  <2> SUFFICES ASSUME NEW i \in 1..n + m
               PROVE  /\ X[i] = Latch(X[i - 1], x[i])
                      /\ Y[i] = IF x[i].op \in {"reset", "cut"} THEN <<>>
                                ELSE Y[i - 1] \o Output(X[i - 1], x[i])
    BY <1>3 DEF Runs
  <2>1. CASE i \in 1..n
    BY <1>1, <1>3, <1>6, <2>1 DEF Runs, n
  <2>2. CASE i - n \in 1..m /\ i = n + (i - n)
    <3> DEFINE j == i - n
    <3>1. j \in 1..m /\ i = n + j
      BY <2>2
    <3> HIDE DEF j
    <3>2. x[i] = w[j] /\ X[i] = R2[j] /\ Y[i] = S2[j] /\ X[i - 1] = R2[j - 1] /\ Y[i - 1] = S2[j - 1]
      <4>1. x[n + j] = w[j]
        BY <1>3, <3>1
      <4>2. /\ X[n + j] = R2[j] /\ Y[n + j] = S2[j]
            /\ X[n + j - 1] = R2[j - 1] /\ Y[n + j - 1] = S2[j - 1]
        BY <1>7, <3>1
      <4>3. i - 1 = n + j - 1 /\ i = n + j
        BY <1>3, <3>1
      <4> QED  BY <4>1, <4>2, <4>3, Zenon
    <3>3. /\ R2[j] = Latch(R2[j - 1], w[j])
          /\ S2[j] = IF w[j].op \in {"reset", "cut"} THEN <<>>
                     ELSE S2[j - 1] \o Output(R2[j - 1], w[j])
      BY <1>1, <3>1 DEF Runs, m
    <3> QED  BY <3>2, <3>3
  <2> QED  BY <1>4, <2>1, <2>2
<1>11. X[0] = p /\ Y[0] = q /\ X[Len(x)] = p2 /\ Y[Len(x)] = q2
  BY <1>1, <1>3, <1>5, <1>9 DEF m
<1>12. RunOf(x, X, Y, p, q, p2, q2)
  BY <1>10, <1>11 DEF RunOf
<1>13. Agrees(X, P, n) /\ Agrees(Y, Q, n)
  BY <1>5 DEF Agrees
<1> QED  BY <1>12, <1>13 DEF x, n, m, X, Y

LEMMA ReachesThen ==
    ASSUME NEW v, NEW w, NEW p, NEW q, NEW p1, NEW q1, NEW p2, NEW q2,
           Reaches(v, p, q, p1, q1), Reaches(w, p1, q1, p2, q2)
    PROVE  Reaches(v \o w, p, q, p2, q2)
<1>1. PICK P, Q : RunOf(v, P, Q, p, q, p1, q1)
  BY DEF Reaches
<1>2. PICK R2, S2 : RunOf(w, R2, S2, p1, q1, p2, q2)
  BY DEF Reaches
<1> DEFINE x == v \o w
           n == Len(v)
           m == Len(w)
<1>3. IsSeq(v) /\ IsSeq(w)
  BY DEF Reaches
<1>4. /\ IsSeq(x) /\ n \in Nat /\ m \in Nat /\ Len(x) = n + m
      /\ \A i \in 1..n : x[i] = v[i]
      /\ \A i \in 1..m : x[n + i] = w[i]
  BY <1>3, SeqJoin
<1>5. \E X, Y : RunOf(x, X, Y, p, q, p2, q2)
  BY <1>1, <1>2, <1>3, JoinedRuns
<1>6. \A i \in 1..n : v[i].op # "cut"
  BY DEF Reaches
<1>7. \A i \in 1..m : w[i].op # "cut"
  BY DEF Reaches
<1> HIDE DEF x, n, m
<1>8. \A i \in 1..Len(x) : x[i].op # "cut"
  <2> TAKE i \in 1..Len(x)
  <2>1. i \in 1..n \/ (i - n \in 1..m /\ i = n + (i - n))
    BY <1>4
  <2> QED  BY <1>4, <1>6, <1>7, <2>1
<1>9. Reaches(x, p, q, p2, q2)
  BY <1>4, <1>5, <1>8 DEF Reaches
<1> QED  BY <1>9 DEF x

\* What a printer remembers.
Memory(m, u, a, s, b) == [mode |-> m, underline |-> u, align |-> a, spacing |-> s, barHeight |-> b]

LEMMA MemoryFields ==
    ASSUME NEW m, NEW u, NEW a, NEW s, NEW b
    PROVE  LET p == Memory(m, u, a, s, b)
           IN  /\ p.mode = m /\ p.underline = u /\ p.align = a /\ p.spacing = s /\ p.barHeight = b
               /\ DOMAIN p = {"mode", "underline", "align", "spacing", "barHeight"}
  BY DEF Memory

Cmd(op, arg) == [op |-> op, arg |-> arg]

\* What ESC ! makes of the underline (a name of its own, for the provers' sake).
No == FALSE

LEMMA LatchMode ==
    ASSUME NEW m, NEW u, NEW a, NEW s, NEW b, NEW x
    PROVE  Latch(Memory(m, u, a, s, b), Cmd("mode", x)) = Memory(x, No, a, s, b)
<1> DEFINE p == Memory(m, u, a, s, b)
           p1 == [p EXCEPT !.mode = x]
           p2 == [p1 EXCEPT !.underline = No]
<1>1. Latch(p, Cmd("mode", x)) = [p EXCEPT !.mode = x, !.underline = No]
  BY DEF Latch, Cmd, No
<1>2. [p EXCEPT !.mode = x, !.underline = No] = p2
  OBVIOUS
<1>3. p = [mode |-> m, underline |-> u, align |-> a, spacing |-> s, barHeight |-> b]
  BY DEF Memory
<1> HIDE DEF p
<1>4. p1 = [mode |-> x, underline |-> u, align |-> a, spacing |-> s, barHeight |-> b]
  BY <1>3
<1> HIDE DEF p1
<1>5. p2 = [mode |-> x, underline |-> No, align |-> a, spacing |-> s, barHeight |-> b]
  BY <1>4
<1>6. p2 = Memory(x, No, a, s, b)
  BY <1>5 DEF Memory
<1> QED  BY <1>1, <1>2, <1>6 DEF p, p1

LEMMA LatchOther ==
    ASSUME NEW m, NEW u, NEW a, NEW s, NEW b, NEW x
    PROVE  LET p == Memory(m, u, a, s, b)
           IN  /\ Latch(p, Cmd("underline", x)) = Memory(m, x, a, s, b)
               /\ Latch(p, Cmd("align", x)) = Memory(m, u, x, s, b)
               /\ Latch(p, Cmd("spacing", x)) = Memory(m, u, a, x, b)
               /\ Latch(p, Cmd("barHeight", x)) = Memory(m, u, a, s, x)
               /\ \A op \in {"line", "feed", "bitmap", "barcode", "cut"} : Latch(p, Cmd(op, x)) = p
               /\ Latch(p, Cmd("reset", x)) = Fresh
<1> DEFINE p == Memory(m, u, a, s, b)
<1>1. /\ [p EXCEPT !["underline"] = x] = Memory(m, x, a, s, b)
      /\ [p EXCEPT !["align"] = x] = Memory(m, u, x, s, b)
      /\ [p EXCEPT !["spacing"] = x] = Memory(m, u, a, x, b)
      /\ [p EXCEPT !["barHeight"] = x] = Memory(m, u, a, s, x)
  <2>1. p = [mode |-> m, underline |-> u, align |-> a, spacing |-> s, barHeight |-> b]
    BY DEF Memory
  <2> HIDE DEF p
  <2>2. [p EXCEPT !["underline"] = x]
          = [mode |-> m, underline |-> x, align |-> a, spacing |-> s, barHeight |-> b]
    BY <2>1
  <2>3. [p EXCEPT !["align"] = x]
          = [mode |-> m, underline |-> u, align |-> x, spacing |-> s, barHeight |-> b]
    BY <2>1
  <2>4. [p EXCEPT !["spacing"] = x]
          = [mode |-> m, underline |-> u, align |-> a, spacing |-> x, barHeight |-> b]
    BY <2>1
  <2>5. [p EXCEPT !["barHeight"] = x]
          = [mode |-> m, underline |-> u, align |-> a, spacing |-> s, barHeight |-> x]
    BY <2>1
  <2> QED  BY <2>2, <2>3, <2>4, <2>5 DEF Memory
<1> HIDE DEF p
<1>2. \A op : Cmd(op, x).op = op /\ Cmd(op, x).arg = x
  BY DEF Cmd
<1> QED  BY <1>1, <1>2 DEF Latch, p

\* The commands that change no more than what the printer remembers, and those
\* that print.
LEMMA CommandReaches ==
    ASSUME NEW m, NEW u, NEW a, NEW s, NEW b, NEW x, NEW q, IsSeq(q)
    PROVE  LET p == Memory(m, u, a, s, b)
           IN  /\ Reaches(Code("underline", x), p, q, Memory(m, x, a, s, b), q)
               /\ Reaches(Code("align", x), p, q, Memory(m, u, x, s, b), q)
               /\ Reaches(Code("spacing", x), p, q, Memory(m, u, a, x, b), q)
               /\ Reaches(Code("barHeight", x), p, q, Memory(m, u, a, s, x), q)
               /\ \A op \in {"line", "feed", "bitmap", "barcode"} :
                    Reaches(Code(op, x), p, q, p, q \o Output(p, Cmd(op, x)))
<1> DEFINE p == Memory(m, u, a, s, b)
<1>1. \A op : Code(op, x) = <<Cmd(op, x)>> /\ Cmd(op, x).op = op /\ Cmd(op, x).arg = x
  BY DEF Code, Cmd
<1>2. \A op : op # "cut" =>
        Reaches(Code(op, x), p, q, Latch(p, Cmd(op, x)), Prints(p, q, Cmd(op, x)))
  <2> HIDE DEF p
  <2> TAKE op
  <2> HAVE op # "cut"
  <2> QED  BY <1>1, ReachesOne
<1>3. \A op \in {"underline", "align", "spacing", "barHeight"} : Prints(p, q, Cmd(op, x)) = q
  <2> SUFFICES ASSUME NEW op \in {"underline", "align", "spacing", "barHeight"}
               PROVE  Prints(p, q, Cmd(op, x)) = q
    OBVIOUS
  <2>1. Output(p, Cmd(op, x)) = <<>>
    BY <1>1 DEF Output
  <2> QED  BY <1>1, <2>1, SeqJoin DEF Prints
<1>4. \A op \in {"line", "feed", "bitmap", "barcode"} :
        Prints(p, q, Cmd(op, x)) = q \o Output(p, Cmd(op, x))
  BY <1>1 DEF Prints
<1>5. /\ Latch(p, Cmd("underline", x)) = Memory(m, x, a, s, b)
      /\ Latch(p, Cmd("align", x)) = Memory(m, u, x, s, b)
      /\ Latch(p, Cmd("spacing", x)) = Memory(m, u, a, x, b)
      /\ Latch(p, Cmd("barHeight", x)) = Memory(m, u, a, s, x)
      /\ \A op \in {"line", "feed", "bitmap", "barcode"} : Latch(p, Cmd(op, x)) = p
  BY LatchOther
<1> HIDE DEF p
<1>6. /\ Reaches(Code("underline", x), p, q, Memory(m, x, a, s, b), q)
      /\ Reaches(Code("align", x), p, q, Memory(m, u, x, s, b), q)
      /\ Reaches(Code("spacing", x), p, q, Memory(m, u, a, x, b), q)
      /\ Reaches(Code("barHeight", x), p, q, Memory(m, u, a, s, x), q)
  BY <1>2, <1>3, <1>5
<1>7. \A op \in {"line", "feed", "bitmap", "barcode"} :
        Reaches(Code(op, x), p, q, p, q \o Output(p, Cmd(op, x)))
  BY <1>2, <1>4, <1>5
<1> QED  BY <1>6, <1>7 DEF p

LEMMA ModesReach ==
    ASSUME NEW n \in Nat \ {0}, NEW ms, HasLength(ms, n), Len(ms) = n,
           NEW m, NEW u, NEW a, NEW s, NEW b, NEW q, IsSeq(q)
    PROVE  Reaches(WriteModes(ms), Memory(m, u, a, s, b), q, Memory(ms[n], No, a, s, b), q)
<1> DEFINE w == WriteModes(ms)
           after(x) == Memory(x, No, a, s, b)
           p == Memory(m, u, a, s, b)
           P == [i \in 0..n |-> IF i = 0 THEN p ELSE after(ms[i])]
           Q == [i \in 0..n |-> q]
<1>1. w = [i \in 1..n |-> Cmd("mode", ms[i])]
  BY DEF WriteModes, Cmd
<1>2. Len(w) = n /\ IsSeq(w) /\ \A i \in 1..n : w[i] = Cmd("mode", ms[i]) /\ w[i].op = "mode"
  <2>1. w \in Seq({Cmd("mode", ms[i]) : i \in 1..n}) /\ DOMAIN w = 1..n
    BY <1>1
  <2>2. Len(w) = n
    <3> HIDE DEF w
    <3> QED  BY <2>1
  <2>3. IsSeq(w)
    BY <2>1 DEF IsSeq
  <2>4. \A i \in 1..n : w[i] = Cmd("mode", ms[i]) /\ w[i].op = "mode"
    BY <1>1 DEF Cmd
  <2> QED  BY <2>2, <2>3, <2>4
<1>3. \A i \in 1..n : P[i] = Latch(P[i - 1], w[i])
  <2> SUFFICES ASSUME NEW i \in 1..n PROVE P[i] = Latch(P[i - 1], w[i])
    OBVIOUS
  <2>1. P[i] = after(ms[i]) /\ P[i - 1] = IF i = 1 THEN p ELSE after(ms[i - 1])
    <3>1. i \in 0..n /\ i # 0 /\ i - 1 \in 0..n /\ (i - 1 = 0 <=> i = 1)
      OBVIOUS
    <3> HIDE DEF p, after
    <3> QED  BY <3>1
  <2>2. \A x : Latch(p, Cmd("mode", x)) = after(x)
    BY LatchMode
  <2>3. \A x, y : Latch(after(y), Cmd("mode", x)) = after(x)
    BY LatchMode
  <2> HIDE DEF P, p, after, w
  <2> QED  BY <1>2, <2>1, <2>2, <2>3
<1>4. \A i \in 1..n : Q[i] = IF w[i].op \in {"reset", "cut"} THEN <<>>
                             ELSE Q[i - 1] \o Output(P[i - 1], w[i])
  <2> SUFFICES ASSUME NEW i \in 1..n PROVE Q[i] = Q[i - 1] \o Output(P[i - 1], w[i])
    <3> HIDE DEF P, Q, w
    <3> QED  BY <1>2
  <2>1. Output(P[i - 1], w[i]) = <<>>
    <3> HIDE DEF P
    <3> QED  BY <1>2 DEF Output
  <2>2. Q[i] = q /\ Q[i - 1] = q
    OBVIOUS
  <2> QED  BY <2>1, <2>2, SeqJoin
<1>5. P[0] = p /\ Q[0] = q /\ P[n] = after(ms[n]) /\ Q[n] = q
  <2> HIDE DEF p, after
  <2> QED  OBVIOUS
<1> HIDE DEF w, after, p, P, Q
<1>6. Runs(w, P, Q)
  BY <1>2, <1>3, <1>4 DEF Runs
<1>7. Reaches(w, p, q, after(ms[n]), q)
  BY <1>2, <1>5, <1>6 DEF Reaches, RunOf
<1> QED  BY <1>7 DEF w, p, after

LEMMA BitChanges ==
    \A bit : /\ On(bit).bit = bit /\ On(bit).on
            /\ Off(bit).bit = bit /\ ~Off(bit).on
  BY DEF On, Off

\* A text changes each of the four bits once.
LEMMA ChangesOfText ==
    ASSUME NEW item \in Items, item.kind = "text"
    PROVE  LET h == IF item.size \in {"M", "L"} THEN On("height") ELSE Off("height")
               w == IF item.size = "L" THEN On("width") ELSE Off("width")
               d == IF R!Given(item.bold, FALSE) THEN On("bold") ELSE Off("bold")
           IN  \/ TextChanges(item) = <<Off("font"), h, w, d>>
               \/ TextChanges(item) = <<Off("font"), w, h, d>>
<1> DEFINE h == IF item.size \in {"M", "L"} THEN On("height") ELSE Off("height")
           w == IF item.size = "L" THEN On("width") ELSE Off("width")
           d == IF R!Given(item.bold, FALSE) THEN On("bold") ELSE Off("bold")
<1>1. TextChanges(item) = <<Off("font")>> \o SetSize(item.size) \o <<d>>
  BY DEF TextChanges
<1>2. SetSize(item.size) = <<h, w>> \/ SetSize(item.size) = <<w, h>>
  BY DEF SetSize
<1> HIDE DEF h, w, d
<1>3. \A x, y, z, v : <<x>> \o <<y, z>> \o <<v>> = <<x, y, z, v>>
  <2> TAKE x, y, z, v
  <2> DEFINE T == {x, y, z, v}
             l == <<x>> \o <<y, z>>
             r == l \o <<v>>
  <2>1. <<x>> \in Seq(T) /\ <<y, z>> \in Seq(T) /\ <<v>> \in Seq(T) /\ <<x, y, z, v>> \in Seq(T)
    OBVIOUS
  <2> HIDE DEF T
  <2>2. l \in Seq(T) /\ Len(l) = 3 /\ l[1] = x /\ l[2] = y /\ l[3] = z
    BY <2>1
  <2> HIDE DEF l
  <2>3. r \in Seq(T) /\ Len(r) = 4 /\ r[1] = x /\ r[2] = y /\ r[3] = z /\ r[4] = v
    <3>1. IsSeq(l) /\ IsSeq(<<v>>) /\ Len(<<v>>) = 1 /\ <<v>>[1] = v
      BY <2>2, SeqOne DEF IsSeq
    <3>2. r \in Seq(T)
      BY <2>1, <2>2
    <3>3. Len(r) = 4 /\ (\A i \in 1..3 : r[i] = l[i]) /\ r[4] = v
      <4>1. /\ Len(r) = Len(l) + Len(<<v>>)
            /\ \A i \in 1..Len(l) : r[i] = l[i]
            /\ \A i \in 1..Len(<<v>>) : r[Len(l) + i] = <<v>>[i]
        BY <3>1, SeqJoin
      <4>2. 3 + 1 = 4 /\ 1 \in 1..1
        OBVIOUS
      <4> HIDE DEF r
      <4> QED  BY <2>2, <3>1, <4>1, <4>2
    <3> QED  BY <2>2, <3>2, <3>3
  <2> HIDE DEF r
  <2>4. r = <<x, y, z, v>>
    BY <2>1, <2>3, SeqEqual
  <2> QED  BY <2>4 DEF r, l
<1>4. \/ TextChanges(item) = <<Off("font"), h, w, d>>
      \/ TextChanges(item) = <<Off("font"), w, h, d>>
  BY <1>1, <1>2, <1>3
<1> QED  BY <1>4 DEF h, w, d

\* The mode byte after a text is that of the text, whatever it was before.
LEMMA ModeOfText ==
    ASSUME NEW item \in Items, item.kind = "text", NEW mode \in SUBSET ModeBits
    PROVE  LET ms == PrintModes(mode, TextChanges(item))
           IN  /\ HasLength(ms, 4) /\ Len(ms) = 4
               /\ ms[4] \subseteq ModeBits
               /\ "font" \notin ms[4]
               /\ "height" \in ms[4] <=> item.size \in {"M", "L"}
               /\ "width" \in ms[4] <=> item.size = "L"
               /\ "bold" \in ms[4] <=> R!Given(item.bold, FALSE)
<1> DEFINE changes == TextChanges(item)
           ms == PrintModes(mode, changes)
           h == IF item.size \in {"M", "L"} THEN On("height") ELSE Off("height")
           w == IF item.size = "L" THEN On("width") ELSE Off("width")
           d == IF R!Given(item.bold, FALSE) THEN On("bold") ELSE Off("bold")
           f == Off("font")
           made == {f, h, w, d}
<1>1. changes = <<f, h, w, d>> \/ changes = <<f, w, h, d>>
  BY ChangesOfText
<1>2. /\ h.bit = "height" /\ (h.on <=> item.size \in {"M", "L"})
      /\ w.bit = "width" /\ (w.on <=> item.size = "L")
      /\ d.bit = "bold" /\ (d.on <=> R!Given(item.bold, FALSE))
      /\ f.bit = "font" /\ ~f.on
  BY BitChanges
<1> HIDE DEF changes, h, w, d, f
<1>3. Len(changes) = 4 /\ {changes[i] : i \in 1..4} = made
  BY <1>1
<1>4. ms = [n \in 1..4 |-> LET m == {changes[i] : i \in 1..n}
                          IN  {c.bit : c \in {c \in m : c.on}} \cup (mode \ {c.bit : c \in m})]
  BY <1>3 DEF PrintModes
<1>5. ms[4] = {c.bit : c \in {c \in made : c.on}} \cup (mode \ {c.bit : c \in made})
  BY <1>3, <1>4
<1>6. HasLength(ms, 4) /\ Len(ms) = 4
  <2>1. DOMAIN ms = 1..4 /\ ms = [n \in 1..4 |-> ms[n]] /\ ms \in Seq({ms[n] : n \in 1..4})
    BY <1>4
  <2> HIDE DEF ms
  <2> QED  BY <2>1 DEF HasLength
<1>7. {c.bit : c \in made} = ModeBits
  BY <1>2 DEF ModeBits
<1>8. \A x : x \in ms[4] <=> \E c \in made : c.on /\ c.bit = x
  <2> HIDE DEF made, ms
  <2> QED  BY <1>5, <1>7
<1> HIDE DEF ms
<1>9. ms[4] \subseteq ModeBits
  BY <1>7, <1>8
<1>10. /\ "font" \notin ms[4]
       /\ "height" \in ms[4] <=> item.size \in {"M", "L"}
       /\ "width" \in ms[4] <=> item.size = "L"
       /\ "bold" \in ms[4] <=> R!Given(item.bold, FALSE)
  BY <1>2, <1>8
<1> QED  BY <1>6, <1>9, <1>10 DEF ms, changes

LEMMA LooksRight ==
    ASSUME NEW item \in Items, item.kind = "text", NEW mode \in SUBSET ModeBits, NEW b
    PROVE  LET ms == PrintModes(mode, TextChanges(item))
               look == R!LookOf(item)
           IN  Look(Memory(ms[4], look.underline, look.align, look.spacing, b)) = look
<1> DEFINE m == PrintModes(mode, TextChanges(item))[4]
           look == R!LookOf(item)
           large == {d \in {"height", "width"} : item.size = "L" \/ (item.size = "M" /\ d = "height")}
           bold == R!Given(item.bold, FALSE)
           p == Memory(m, look.underline, look.align, look.spacing, b)
<1>1. /\ m \subseteq ModeBits /\ "font" \notin m
      /\ "height" \in m <=> item.size \in {"M", "L"}
      /\ "width" \in m <=> item.size = "L"
      /\ "bold" \in m <=> bold
  BY ModeOfText
<1>2. bold \in BOOLEAN
  BY EscPosAssumption DEF R!Given
<1>3. look = [large |-> large, bold |-> bold, underline |-> R!Given(item.underline, FALSE),
              align |-> R!Given(item.align, "left"), spacing |-> R!Given(item.spacing, 75) % 256]
  BY DEF R!LookOf
<1> HIDE DEF m, bold, look
<1>4. m \ {"bold"} = large
  BY <1>1 DEF ModeBits
<1>5. ("bold" \in m) = bold
  BY <1>1, <1>2
<1> HIDE DEF large
<1>6. Look(p) = [large |-> m \ {"bold"}, bold |-> "bold" \in m, underline |-> look.underline,
                 align |-> look.align, spacing |-> look.spacing]
  BY DEF Look, Memory
<1>7. Look(p) = [large |-> large, bold |-> bold, underline |-> look.underline,
                 align |-> look.align, spacing |-> look.spacing]
  BY <1>4, <1>5, <1>6, Zenon
<1>8. /\ look.underline = R!Given(item.underline, FALSE)
      /\ look.align = R!Given(item.align, "left")
      /\ look.spacing = R!Given(item.spacing, 75) % 256
  BY <1>3
<1>9. Look(p) = look
  BY <1>3, <1>7, <1>8, Zenon
<1> QED  BY <1>9 DEF m, look

LEMMA TextReaches ==
    ASSUME NEW item \in Items, item.kind = "text", printMode \in SUBSET ModeBits,
           NEW m, NEW u, NEW a, NEW s, NEW b, NEW q, IsSeq(q)
    PROVE  LET ms == PrintModes(printMode, TextChanges(item))
               look == R!LookOf(item)
           IN  Reaches(PrintText(item), Memory(m, u, a, s, b), q,
                       Memory(ms[4], look.underline, look.align, look.spacing, b),
                       q \o <<[kind |-> "text", text |-> item.text, look |-> look]>>)
<1> DEFINE ms == PrintModes(printMode, TextChanges(item))
           look == R!LookOf(item)
           w1 == WriteModes(ms)
           w2 == Code("underline", look.underline)
           w3 == Code("align", look.align)
           w4 == Code("spacing", look.spacing)
           w5 == Code("line", item.text)
           p0 == Memory(m, u, a, s, b)
           p1 == Memory(ms[4], No, a, s, b)
           p2 == Memory(ms[4], look.underline, a, s, b)
           p3 == Memory(ms[4], look.underline, look.align, s, b)
           p4 == Memory(ms[4], look.underline, look.align, look.spacing, b)
           out == <<[kind |-> "text", text |-> item.text, look |-> look]>>
<1>1. PrintText(item) = w1 \o w2 \o w3 \o w4 \o w5
  BY DEF PrintText, R!LookOf
<1>2. HasLength(ms, 4) /\ Len(ms) = 4
  BY ModeOfText
<1>3. Look(p4) = look
  BY LooksRight
<1>4. Output(p4, Cmd("line", item.text)) = out
  <2> HIDE DEF p4, look
  <2>1. Cmd("line", item.text).op = "line" /\ Cmd("line", item.text).arg = item.text
    BY DEF Cmd
  <2> QED  BY <1>3, <2>1 DEF Output
<1> HIDE DEF ms, look
<1>5. Reaches(w1, p0, q, p1, q)
  BY <1>2, ModesReach, 4 \in Nat \ {0}
<1>6. Reaches(w2, p1, q, p2, q)
  BY CommandReaches
<1>7. Reaches(w3, p2, q, p3, q)
  BY CommandReaches
<1>8. Reaches(w4, p3, q, p4, q)
  BY CommandReaches
<1>9. Reaches(w5, p4, q, p4, q \o out)
  BY CommandReaches, <1>4
<1> HIDE DEF w1, w2, w3, w4, w5, p0, p1, p2, p3, p4, out
<1>10. Reaches(w1 \o w2, p0, q, p2, q)
  BY <1>5, <1>6, ReachesThen
<1>11. Reaches(w1 \o w2 \o w3, p0, q, p3, q)
  BY <1>10, <1>7, ReachesThen
<1>12. Reaches(w1 \o w2 \o w3 \o w4, p0, q, p4, q)
  BY <1>11, <1>8, ReachesThen
<1>13. Reaches(w1 \o w2 \o w3 \o w4 \o w5, p0, q, p4, q \o out)
  BY <1>12, <1>9, ReachesThen
<1> QED  BY <1>1, <1>13 DEF p0, p4, out, ms, look

\* A line feed; none is sent for zero.
LEMMA FeedReaches ==
    ASSUME NEW n, NEW m, NEW u, NEW a, NEW s, NEW b, NEW q, IsSeq(q)
    PROVE  LET p == Memory(m, u, a, s, b)
           IN  Reaches(Feed(n), p, q, p, q \o R!Blanks(n, s))
<1> DEFINE p == Memory(m, u, a, s, b)
<1>1. CASE n % 256 = 0
  <2>1. Feed(n) = <<>> /\ R!Blanks(n, s) = <<>>
    BY <1>1 DEF Feed, R!Blanks
  <2> QED  BY <2>1, ReachesNone, SeqJoin
<1>2. CASE n % 256 # 0
  <2> DEFINE x == n % 256
  <2>1. Feed(n) = Code("feed", x) /\ R!Blanks(n, s) = <<[kind |-> "blank", lines |-> x, spacing |-> s]>>
    BY <1>2 DEF Feed, R!Blanks
  <2> HIDE DEF x
  <2>2. Output(p, Cmd("feed", x)) = <<[kind |-> "blank", lines |-> x, spacing |-> s]>>
    BY DEF Output, Cmd, Memory
  <2>3. Reaches(Code("feed", x), p, q, p, q \o Output(p, Cmd("feed", x)))
    BY CommandReaches
  <2> QED  BY <2>1, <2>2, <2>3
<1> QED  BY <1>1, <1>2

\* An item as converted is the item sent, but for what is shown of an image.
LEMMA ConvertedText ==
    ASSUME NEW i \in Items, i.kind # "image"
    PROVE  i \in Conversions
  BY DEF Conversions

LEMMA ConvertedImage ==
    ASSUME NEW i \in Items, i.kind = "image", NEW shown \in SUBSET Images
    PROVE  LET x == AsShown(i, shown)
           IN  /\ x \in Conversions /\ x.kind = "image"
               /\ x.align = i.align /\ x.width = i.width /\ x.height = i.height
               /\ x.image = i.image /\ x.shown = shown
  BY DEF Conversions, AsShown

LEMMA ConversionKinds ==
    ASSUME NEW x \in Conversions
    PROVE  /\ x.kind \in {"text", "image", "barcode"}
           /\ x.kind # "image" => x \in Items
           /\ x.kind = "image" => x.align \in {"left", "center", "right", None}
<1>1. CASE x \in Items /\ x.kind # "image"
  BY <1>1, EscPosAssumption
<1>2. ASSUME NEW i \in Items, i.kind = "image", NEW shown \in SUBSET Images, x = AsShown(i, shown)
      PROVE  x.kind = "image" /\ x.align \in {"left", "center", "right", None}
  <2>1. i.align \in {"left", "center", "right", None}
    BY <1>2, EscPosAssumption
  <2> QED  BY <1>2, <2>1 DEF AsShown
<1> QED  BY <1>1, <1>2 DEF Conversions

LEMMA FittingSizes ==
    ASSUME NEW i \in Conversions, i.kind = "image", Fitting
    PROVE  /\ R!Given(i.width, 248) \in Nat /\ R!Given(i.width, 248) < 2048
           /\ R!Given(i.height, 248) \in Nat /\ R!Given(i.height, 248) < 65536
<1>1. PICK item \in Items : item.kind = "image" /\ \E shown : i = AsShown(item, shown)
  BY DEF Conversions
<1>2. i.width = item.width /\ i.height = item.height
  BY <1>1 DEF AsShown
<1> QED  BY <1>1, <1>2 DEF Fitting

LEMMA ImageReaches ==
    ASSUME NEW item \in Conversions, item.kind = "image", Fitting,
           NEW m, NEW u, NEW a, NEW s, NEW b, NEW q, IsSeq(q)
    PROVE  Reaches(PrintImage(item), Memory(m, u, a, s, b), q,
                   Memory(m, u, R!Given(item.align, "center"), R!DefaultSpacing, b),
                   q \o (<<R!ImageOf(item)>> \o R!Blanks(1, R!DefaultSpacing)))
<1> DEFINE al == R!Given(item.align, "center")
           wd == R!Given(item.width, 248)
           ht == R!Given(item.height, 248)
           dt == [bytes |-> (wd \div 8) * ht, of |-> item.shown]
           arg == [w |-> (wd \div 8) % 256, low |-> (ht - (ht \div 256) * 256) % 256,
                   high |-> (ht \div 256) % 256, data |-> dt]
           w1 == Code("align", al)
           w2 == Code("bitmap", arg)
           w3 == Code("spacing", 30)
           w4 == Feed(1)
           p0 == Memory(m, u, a, s, b)
           p1 == Memory(m, u, al, s, b)
           p2 == Memory(m, u, al, 30, b)
           out == <<R!ImageOf(item)>>
           blank == R!Blanks(1, 30)
<1>1. PrintImage(item) = w1 \o w2 \o w3 \o w4
  BY DEF PrintImage, PrintBitmap
<1>2. wd \in Nat /\ wd < 2048 /\ ht \in Nat /\ ht < 65536
  BY FittingSizes
<1>3. arg.w = wd \div 8 /\ arg.low + 256 * arg.high = ht /\ arg.data = dt
  <2> HIDE DEF wd, ht, dt
  <2>1. arg.w = (wd \div 8) % 256 /\ arg.low = (ht - (ht \div 256) * 256) % 256
        /\ arg.high = (ht \div 256) % 256 /\ arg.data = dt
    OBVIOUS
  <2>2. wd \div 8 \in 0..255
    BY <1>2
  <2>3. ht \div 256 \in 0..255 /\ ht - (ht \div 256) * 256 \in 0..255
    BY <1>2
  <2>4. \A x \in 0..255 : x % 256 = x
    OBVIOUS
  <2>5. arg.w = wd \div 8 /\ arg.low = ht - (ht \div 256) * 256 /\ arg.high = ht \div 256
    BY <2>1, <2>2, <2>3, <2>4
  <2>6. ht - (ht \div 256) * 256 + 256 * (ht \div 256) = ht
    BY <1>2, <2>3
  <2> QED  BY <2>1, <2>5, <2>6
<1>4. Output(p1, Cmd("bitmap", arg)) = out
  <2>1. Output(p1, Cmd("bitmap", arg)) =
          <<[kind |-> "image", align |-> al, rowBytes |-> arg.w,
             rows |-> arg.low + 256 * arg.high, data |-> arg.data]>>
    <3>1. p1.align = al
      BY MemoryFields
    <3>2. Cmd("bitmap", arg).op = "bitmap" /\ Cmd("bitmap", arg).arg = arg
      BY DEF Cmd
    <3> HIDE DEF p1, arg, al
    <3> QED  BY <3>1, <3>2 DEF Output
  <2>2. R!ImageOf(item) = [kind |-> "image", align |-> al, rowBytes |-> wd \div 8,
                           rows |-> ht, data |-> dt]
    BY DEF R!ImageOf, R!BytesOf
  <2> HIDE DEF arg, wd, ht, dt, al, p1
  <2> QED  BY <1>3, <2>1, <2>2
<1> HIDE DEF al, arg
<1>5. Reaches(w1, p0, q, p1, q)
  BY CommandReaches
<1>6. Reaches(w2, p1, q, p1, q \o out)
  BY CommandReaches, <1>4
<1>7. IsSeq(out) /\ IsSeq(q \o out)
  BY SeqOne, SeqJoin
<1> HIDE DEF out
<1>8. Reaches(w3, p1, q \o out, p2, q \o out)
  BY <1>7, CommandReaches
<1>9. Reaches(w4, p2, q \o out, p2, (q \o out) \o blank)
  BY <1>7, FeedReaches
<1>10. (q \o out) \o blank = q \o (out \o blank)
  <2>1. IsSeq(blank)
    BY SeqOne, SeqNone DEF R!Blanks
  <2> HIDE DEF blank
  <2> QED  BY <1>7, <2>1, SeqJoin
<1> HIDE DEF w1, w2, w3, w4, p0, p1, p2, blank
<1>11. Reaches(w1 \o w2, p0, q, p1, q \o out)
  BY <1>5, <1>6, ReachesThen
<1>12. Reaches(w1 \o w2 \o w3, p0, q, p2, q \o out)
  BY <1>11, <1>8, ReachesThen
<1>13. Reaches(w1 \o w2 \o w3 \o w4, p0, q, p2, q \o (out \o blank))
  BY <1>12, <1>9, <1>10, ReachesThen
<1> QED  BY <1>1, <1>13 DEF p0, p2, out, blank, al, R!DefaultSpacing

LEMMA BarcodeReaches ==
    ASSUME NEW item \in Items, item.kind = "barcode",
           NEW m, NEW u, NEW a, NEW s, NEW b, NEW q, IsSeq(q)
    PROVE  \E h : Reaches(PrintBarcode(item), Memory(m, u, a, s, b), q, Memory(m, u, a, s, h),
                          q \o (R!Blanks(1, s) \o <<R!BarcodeOf(item, a)>>))
<1> DEFINE hh == R!Given(item.height, 200) % 256
           h == IF hh < 1 THEN 1 ELSE hh
           ty == R!Given(item.type, 4)
           w1 == Code("barHeight", h)
           w2 == Feed(1)
           w3 == Code("barcode", ty)
           p0 == Memory(m, u, a, s, b)
           p1 == Memory(m, u, a, s, h)
           out == <<R!BarcodeOf(item, a)>>
           blank == R!Blanks(1, s)
<1>1. PrintBarcode(item) = w1 \o w2 \o w3
  BY DEF PrintBarcode
<1>2. h = IF hh = 0 THEN 1 ELSE hh
  <2>1. R!Given(item.height, 200) \in Int
    BY EscPosAssumption DEF R!Given
  <2>2. hh \in 0..255
    <3> DEFINE g == R!Given(item.height, 200)
    <3> HIDE DEF g
    <3> QED  BY <2>1 DEF g
  <2> HIDE DEF hh
  <2> QED  BY <2>2
<1>3. R!BarcodeOf(item, a) = [kind |-> "barcode", align |-> a, type |-> ty, height |-> h]
  BY <1>2 DEF R!BarcodeOf
<1>4. Output(p1, Cmd("barcode", ty)) = out
  <2>1. p1.align = a /\ p1.barHeight = h
    BY MemoryFields
  <2>2. Cmd("barcode", ty).op = "barcode" /\ Cmd("barcode", ty).arg = ty
    BY DEF Cmd
  <2> HIDE DEF p1, h, ty
  <2> QED  BY <1>3, <2>1, <2>2 DEF Output
<1> HIDE DEF h, ty
<1>5. Reaches(w1, p0, q, p1, q)
  BY CommandReaches
<1>6. Reaches(w2, p1, q, p1, q \o blank)
  BY FeedReaches
<1>7. IsSeq(out) /\ IsSeq(blank) /\ IsSeq(q \o blank)
  <2>1. IsSeq(out)
    BY SeqOne
  <2>2. IsSeq(blank)
    BY SeqOne, SeqNone DEF R!Blanks
  <2> HIDE DEF blank, out
  <2> QED  BY <2>1, <2>2, SeqJoin
<1>8. Reaches(w3, p1, q \o blank, p1, (q \o blank) \o out)
  BY <1>4, <1>7, CommandReaches
<1> HIDE DEF w1, w2, w3, p0, p1, blank, out
<1>9. (q \o blank) \o out = q \o (blank \o out)
  BY <1>7, SeqJoin
<1>10. Reaches(w1 \o w2, p0, q, p1, q \o blank)
  BY <1>5, <1>6, ReachesThen
<1>11. Reaches(w1 \o w2 \o w3, p0, q, p1, q \o (blank \o out))
  BY <1>10, <1>8, <1>9, ReachesThen
<1> QED  BY <1>1, <1>11 DEF p0, p1, out, blank

-----------------------------------------------------------------------------
(* What a job asks for when one more item is added to it.                    *)

LEMMA Added ==
    ASSUME NEW js \in Seq(Conversions), NEW x \in Conversions
    PROVE  LET t == Append(js, x)
               n == Len(js)
           IN  /\ t \in Seq(Conversions) /\ n \in Nat /\ Len(t) = n + 1
               /\ \A i \in 1..n : t[i] = js[i] /\ js[i] \in Conversions
               /\ t[n + 1] = x
               /\ HasLength(t, n + 1) /\ HasLength(js, n)
<1> DEFINE t == Append(js, x)
           n == Len(js)
<1>1. t \in Seq(Conversions) /\ n \in Nat /\ Len(t) = n + 1
  OBVIOUS
<1>2. \A i \in 1..n : t[i] = js[i] /\ js[i] \in Conversions
  OBVIOUS
<1>3. t[n + 1] = x
  OBVIOUS
<1>4. HasLength(js, n)
  BY DEF HasLength
<1>5. HasLength(t, n + 1)
  <2> HIDE DEF t
  <2>1. HasLength(t, Len(t))
    BY <1>1 DEF HasLength
  <2> QED  BY <1>1, <2>1
<1> QED  BY <1>1, <1>2, <1>3, <1>4, <1>5

\* What an item meets depends on those before it only.
LEMMA PlacedBefore ==
    ASSUME NEW js \in Seq(Conversions), NEW x \in Conversions, NEW k \in 1..Len(js) + 1
    PROVE  LET t == Append(js, x)
           IN  R!AlignAt(t, k) = R!AlignAt(js, k) /\ R!SpacingAt(t, k) = R!SpacingAt(js, k)
<1> DEFINE t == Append(js, x)
           n == Len(js)
           S == R!Placed(js, k)
<1>1. n \in Nat /\ \A i \in 1..n : t[i] = js[i]
  BY Added
<1> HIDE DEF t
<1>2. \A i \in 1..(k - 1) : t[i] = js[i]
  BY <1>1
<1>3. R!Placed(t, k) = S
  BY <1>2 DEF R!Placed
<1>4. S \in SUBSET (1..(k - 1)) /\ k - 1 \in Nat
  BY <1>1 DEF R!Placed
<1> HIDE DEF S, n
<1>5. S # {} => t[R!Max(S)] = js[R!Max(S)]
  <2> SUFFICES ASSUME S # {} PROVE t[R!Max(S)] = js[R!Max(S)]
    OBVIOUS
  <2> DEFINE l == k - 1
  <2>1. l \in Nat /\ S \in SUBSET (1..l)
    BY <1>4
  <2> HIDE DEF l
  <2>2. R!Max(S) \in S
    BY <2>1, Greatest
  <2> QED  BY <1>2, <1>4, <2>2
<1>6. R!AlignAt(t, k) = R!AlignAt(js, k)
  BY <1>3, <1>5 DEF R!AlignAt, S
<1>7. R!SpacingAt(t, k) = R!SpacingAt(js, k)
  BY <1>3, <1>5 DEF R!SpacingAt, S
<1> QED  BY <1>6, <1>7 DEF t

LEMMA LinesBefore ==
    ASSUME NEW js \in Seq(Conversions), NEW x \in Conversions, NEW k \in 1..Len(js)
    PROVE  R!LinesOf(Append(js, x), k) = R!LinesOf(js, k)
<1> DEFINE t == Append(js, x)
<1>1. t[k] = js[k]
  BY Added
<1>2. k \in 1..Len(js) + 1
  OBVIOUS
<1>3. R!AlignAt(t, k) = R!AlignAt(js, k) /\ R!SpacingAt(t, k) = R!SpacingAt(js, k)
  BY <1>2, PlacedBefore
<1> HIDE DEF t
<1>4. R!LinesOf(t, k) = R!LinesOf(js, k)
  BY <1>1, <1>3, Zenon DEF R!LinesOf
<1> QED  BY <1>4 DEF t

\* What the new item leaves behind for the next.
LEMMA PlacedLast ==
    ASSUME NEW js \in Seq(Conversions), NEW x \in Conversions
    PROVE  LET t == Append(js, x)
               k == Len(js) + 1
           IN  /\ x.kind = "barcode" => /\ R!AlignAt(t, k + 1) = R!AlignAt(js, k)
                                        /\ R!SpacingAt(t, k + 1) = R!SpacingAt(js, k)
               /\ x.kind = "text" => /\ R!AlignAt(t, k + 1) = R!LookOf(x).align
                                     /\ R!SpacingAt(t, k + 1) = R!LookOf(x).spacing
               /\ x.kind = "image" => /\ R!AlignAt(t, k + 1) = R!Given(x.align, "center")
                                      /\ R!SpacingAt(t, k + 1) = R!DefaultSpacing
<1> DEFINE t == Append(js, x)
           k == Len(js) + 1
           S == R!Placed(t, k + 1)
<1>1. k \in Nat /\ t[k] = x /\ k \in 1..k
  BY Added
<1>2. S = {i \in 1..k : t[i].kind # "barcode"}
  BY <1>1 DEF R!Placed
<1>3. CASE x.kind = "barcode"
  <2>1. S = R!Placed(t, k)
    BY <1>1, <1>2, <1>3 DEF R!Placed
  <2>2. /\ R!AlignAt(t, k + 1) = R!AlignAt(t, k)
        /\ R!SpacingAt(t, k + 1) = R!SpacingAt(t, k)
    <3> HIDE DEF t, k
    <3> QED  BY <2>1 DEF R!AlignAt, R!SpacingAt, S
  <2>3. R!AlignAt(t, k) = R!AlignAt(js, k) /\ R!SpacingAt(t, k) = R!SpacingAt(js, k)
    BY <1>1, PlacedBefore
  <2> HIDE DEF t, k
  <2> QED  BY <1>3, <2>2, <2>3 DEF t, k
<1>4. CASE x.kind # "barcode"
  <2> HIDE DEF t, k, S
  <2>1. k \in S /\ S \in SUBSET (1..k) /\ S # {}
    BY <1>1, <1>2, <1>4
  <2>2. R!Max(S) \in S /\ R!Max(S) >= k
    BY <1>1, <2>1, Greatest
  <2>3. R!Max(S) = k
    <3>1. R!Max(S) \in 1..k /\ k \in Nat
      BY <1>1, <2>1, <2>2
    <3>2. \A y : y \in 1..k /\ y >= k => y = k
      BY <3>1
    <3> QED  BY <2>2, <3>1, <3>2
  <2>4. /\ R!AlignAt(t, k + 1) = R!Given(x.align, IF x.kind = "text" THEN "left" ELSE "center")
        /\ R!SpacingAt(t, k + 1) = IF x.kind = "text" THEN R!LookOf(x).spacing
                                   ELSE R!DefaultSpacing
    BY <1>1, <2>1, <2>3 DEF R!AlignAt, R!SpacingAt, S
  <2>5. R!LookOf(x).align = R!Given(x.align, "left")
    BY DEF R!LookOf
  <2> QED  BY <1>4, <2>4, <2>5 DEF t, k
<1> QED  BY <1>3, <1>4

\* Only a text has a say in the feed.
LEMMA FeedLast ==
    ASSUME NEW js \in Seq(Conversions), NEW x \in Conversions
    PROVE  R!FeedOf(Append(js, x)) = IF x.kind = "text" THEN R!Given(x.feed, 5) ELSE R!FeedOf(js)
<1> DEFINE t == Append(js, x)
           n == Len(js)
           S == {i \in 1..n : js[i].kind = "text"}
           T == {i \in 1..Len(t) : t[i].kind = "text"}
<1>1. n \in Nat /\ Len(t) = n + 1 /\ t[n + 1] = x /\ \A i \in 1..n : t[i] = js[i]
  BY Added
<1>2. R!FeedOf(t) = IF T = {} THEN 5 ELSE R!Given(t[R!Max(T)].feed, 5)
  BY DEF R!FeedOf
<1>3. R!FeedOf(js) = IF S = {} THEN 5 ELSE R!Given(js[R!Max(S)].feed, 5)
  BY DEF R!FeedOf
<1> HIDE DEF t, n
<1>4. CASE x.kind = "text"
  <2> DEFINE m == n + 1
  <2>1. m \in T /\ T \in SUBSET (1..m) /\ m \in Nat /\ T # {} /\ t[m] = x
    BY <1>1, <1>4
  <2> HIDE DEF T, m
  <2>2. R!Max(T) \in T /\ R!Max(T) >= m
    BY <2>1, Greatest
  <2>3. R!Max(T) = m
    <3>1. R!Max(T) \in 1..m /\ m \in Nat
      BY <2>1, <2>2
    <3>2. \A y : y \in 1..m /\ y >= m => y = m
      BY <3>1
    <3> QED  BY <2>2, <3>1, <3>2
  <2> QED  BY <1>2, <1>4, <2>1, <2>3 DEF t
<1>5. CASE x.kind # "text"
  <2>1. T = S
    <3>1. ASSUME NEW i \in T PROVE i \in S
      <4>1. i \in 1..n + 1 /\ t[i].kind = "text"
        BY <1>1
      <4>2. i # n + 1
        BY <1>1, <1>5, <4>1
      <4>3. i \in 1..n
        BY <1>1, <4>1, <4>2
      <4> QED  BY <1>1, <4>1, <4>3
    <3>2. ASSUME NEW i \in S PROVE i \in T
      <4>1. i \in 1..n /\ js[i].kind = "text" /\ t[i] = js[i]
        BY <1>1
      <4>2. i \in 1..Len(t)
        BY <1>1, <4>1
      <4> QED  BY <4>1, <4>2
    <3> HIDE DEF S, T
    <3> QED  BY <3>1, <3>2
  <2>2. S \in SUBSET (1..n)
    OBVIOUS
  <2> HIDE DEF S, T
  <2>3. S # {} => t[R!Max(S)] = js[R!Max(S)]
    <3> SUFFICES ASSUME S # {} PROVE t[R!Max(S)] = js[R!Max(S)]
      OBVIOUS
    <3>1. R!Max(S) \in S
      BY <1>1, <2>2, Greatest
    <3> QED  BY <1>1, <2>2, <3>1
  <2> QED  BY <1>2, <1>3, <1>5, <2>1, <2>3 DEF t
<1> QED  BY <1>4, <1>5

LEMMA LinesAreSequences == \A js, k : (js[k].kind \in {"text", "image", "barcode"}) => IsSeq(R!LinesOf(js, k))
<1> SUFFICES ASSUME NEW js, NEW k, js[k].kind \in {"text", "image", "barcode"}
             PROVE  IsSeq(R!LinesOf(js, k))
  OBVIOUS
<1>1. \A n, sp : IsSeq(R!Blanks(n, sp))
  BY SeqOne, SeqNone DEF R!Blanks
<1>2. CASE js[k].kind = "text"
  <2>1. R!LinesOf(js, k) = <<[kind |-> "text", text |-> js[k].text, look |-> R!LookOf(js[k])]>>
    BY <1>2 DEF R!LinesOf
  <2> QED  BY <2>1, SeqOne
<1>3. CASE js[k].kind = "image"
  <2>1. R!LinesOf(js, k) = <<R!ImageOf(js[k])>> \o R!Blanks(1, R!DefaultSpacing)
    BY <1>3 DEF R!LinesOf
  <2> QED  BY <1>1, <2>1, SeqOne, SeqJoin
<1>4. CASE js[k].kind = "barcode"
  <2>1. R!LinesOf(js, k) = R!Blanks(1, R!SpacingAt(js, k)) \o <<R!BarcodeOf(js[k], R!AlignAt(js, k))>>
    BY <1>4 DEF R!LinesOf
  <2> QED  BY <1>1, <2>1, SeqOne, SeqJoin
<1> QED  BY <1>2, <1>3, <1>4

LEMMA PrintedOneMore ==
    ASSUME NEW js \in Seq(Conversions), NEW x \in Conversions
    PROVE  LET t == Append(js, x)
           IN  Printed(t) = Printed(js) \o R!LinesOf(t, Len(js) + 1)
<1> DEFINE t == Append(js, x)
           n == Len(js)
           f == [k \in 1..n |-> R!LinesOf(js, k)]
           g == [k \in 1..n + 1 |-> R!LinesOf(t, k)]
<1>1. n \in Nat /\ Len(t) = n + 1 /\ t[n + 1] = x
  BY Added
<1>2. \A i \in 1..n : R!LinesOf(t, i) = R!LinesOf(js, i)
  BY LinesBefore
<1>3. x.kind \in {"text", "image", "barcode"}
  BY ConversionKinds
<1> HIDE DEF t
<1>4. Printed(t) = R!FlattenSeq(g) /\ Printed(js) = R!FlattenSeq(f)
  BY <1>1 DEF Printed
<1>5. HasLength(f, n) /\ HasLength(g, n + 1)
  BY DEF HasLength
<1>6. \A i \in 1..n : f[i] = g[i]
  BY <1>1, <1>2
<1>7. g[n + 1] = R!LinesOf(t, n + 1)
  BY <1>1
<1>8. IsSeq(g[n + 1])
  <2> HIDE DEF n
  <2> QED  BY <1>1, <1>3, <1>7, LinesAreSequences
<1> HIDE DEF f, g, n
<1>9. R!FlattenSeq(g) = R!FlattenSeq(f) \o g[n + 1]
  BY <1>1, <1>5, <1>6, <1>8, FlattenOneMore
<1> QED  BY <1>4, <1>7, <1>9 DEF t, n

LEMMA NothingPrinted ==
    /\ Printed(<<>>) = <<>> /\ R!AlignAt(<<>>, 1) = "left"
    /\ R!SpacingAt(<<>>, 1) = R!DefaultSpacing /\ R!FeedOf(<<>>) = 5
<1>1. Len(<<>>) = 0 /\ 1..0 = {}
  OBVIOUS
<1> DEFINE f == [k \in 1..0 |-> R!LinesOf(<<>>, k)]
<1>2. f = <<>> /\ Printed(<<>>) = R!FlattenSeq(f)
  BY <1>1 DEF Printed
<1>3. R!FlattenSeq(<<>>) = <<>>
  BY <1>1 DEF R!FlattenSeq
<1>4. R!Placed(<<>>, 1) = {}
  BY <1>1 DEF R!Placed
<1> QED  BY <1>1, <1>2, <1>3, <1>4 DEF R!AlignAt, R!SpacingAt, R!FeedOf

-----------------------------------------------------------------------------
(* The wire, and the jobs that end on it.                                    *)

\* N[i] of the jobs end within the first i commands, each with its receipt on the
\* paper (Q), and behind a cut there is an ESC @.
Counted(w, js, Q, N) ==
    /\ N[0] = 0 /\ N[Len(w)] = Len(js)
    /\ \A i \in 1..Len(w) :
         /\ N[i] \in 0..Len(js)
         /\ w[i].op # "cut" => N[i] = N[i - 1]
         /\ w[i].op = "cut" => /\ N[i] = N[i - 1] + 1
                               /\ Q[i - 1] = R!ReceiptOf(js[N[i]])
                               /\ i < Len(w) => w[i + 1].op = "reset"

\* The jobs js are on the wire w, which takes a printer that remembers p and has q
\* on its paper to p1 and q1.
WireEnds(w, js, p, q, p1, q1) ==
    /\ IsSeq(w)
    /\ \E P, Q, N : RunOf(w, P, Q, p, q, p1, q1) /\ Counted(w, js, Q, N)

LEMMA WireNone == \A p, q : WireEnds(<<>>, <<>>, p, q, p, q)
<1> TAKE p, q
<1> DEFINE N == [i \in 0..0 |-> 0]
<1>1. Reaches(<<>>, p, q, p, q) /\ Len(<<>>) = 0 /\ 1..0 = {}
  BY ReachesNone
<1>2. PICK P, Q : RunOf(<<>>, P, Q, p, q, p, q)
  BY <1>1 DEF Reaches
<1>3. N[0] = 0
  OBVIOUS
<1> HIDE DEF N
<1>4. Counted(<<>>, <<>>, Q, N)
  BY <1>1, <1>3 DEF Counted
<1> QED  BY <1>2, <1>4, SeqNone DEF WireEnds

\* More commands, none of them a cut, are sent.
LEMMA WireThen ==
    ASSUME NEW w, NEW v, NEW js \in Seq(Seq(Conversions)), NEW p, NEW q, NEW p1, NEW q1, NEW p2, NEW q2,
           WireEnds(w, js, p, q, p1, q1), Reaches(v, p1, q1, p2, q2),
           w = <<>> \/ w[Len(w)].op # "cut" \/ v[1].op = "reset"
    PROVE  WireEnds(w \o v, js, p, q, p2, q2)
<1>1. PICK P, Q, N : RunOf(w, P, Q, p, q, p1, q1) /\ Counted(w, js, Q, N)
  BY DEF WireEnds
<1>2. PICK R2, S2 : RunOf(v, R2, S2, p1, q1, p2, q2)
  BY DEF Reaches
<1> DEFINE x == w \o v
           n == Len(w)
           m == Len(v)
           X == Joined(P, R2, n, m)
           Y == Joined(Q, S2, n, m)
           M == [i \in 0..n + m |-> IF i <= n THEN N[i] ELSE N[n]]
<1>3. IsSeq(w) /\ IsSeq(v) /\ \A i \in 1..m : v[i].op # "cut"
  BY DEF WireEnds, Reaches
<1>4. /\ IsSeq(x) /\ n \in Nat /\ m \in Nat /\ Len(x) = n + m
      /\ \A i \in 1..n : x[i] = w[i]
      /\ \A i \in 1..m : x[n + i] = v[i]
  BY <1>3, SeqJoin
<1>5. RunOf(x, X, Y, p, q, p2, q2) /\ Agrees(Y, Q, n)
  BY <1>1, <1>2, <1>3, JoinedRuns
<1>6. w # <<>> \/ n = 0
  OBVIOUS
<1>7. n # 0 => w[n].op # "cut" \/ v[1].op = "reset"
  BY <1>4
<1>8. /\ N[0] = 0 /\ N[n] = Len(js) /\ Len(js) \in Nat
      /\ \A i \in 1..n :
           /\ N[i] \in 0..Len(js)
           /\ w[i].op # "cut" => N[i] = N[i - 1]
           /\ w[i].op = "cut" => /\ N[i] = N[i - 1] + 1
                                 /\ Q[i - 1] = R!ReceiptOf(js[N[i]])
                                 /\ i < n => w[i + 1].op = "reset"
  BY <1>1 DEF Counted
<1> HIDE DEF x, n, m, X, Y
<1>9. \A i \in 0..n : M[i] = N[i] /\ Y[i] = Q[i]
  BY <1>4, <1>5 DEF Agrees
<1>10. \A i \in n..n + m : M[i] = N[n]
  BY <1>4
<1> HIDE DEF M
<1>11. ASSUME NEW i \in 1..n
       PROVE  /\ M[i] \in 0..Len(js)
              /\ x[i].op # "cut" => M[i] = M[i - 1]
              /\ x[i].op = "cut" => /\ M[i] = M[i - 1] + 1
                                    /\ Y[i - 1] = R!ReceiptOf(js[M[i]])
                                    /\ i < n + m => x[i + 1].op = "reset"
  <2>1. i \in 0..n /\ i - 1 \in 0..n
    BY <1>4
  <2>2. M[i] = N[i] /\ M[i - 1] = N[i - 1] /\ Y[i - 1] = Q[i - 1] /\ x[i] = w[i]
    BY <1>4, <1>9, <2>1
  <2>3. x[i].op = "cut" /\ i < n + m => x[i + 1].op = "reset"
    <3> SUFFICES ASSUME x[i].op = "cut", i < n + m PROVE x[i + 1].op = "reset"
      OBVIOUS
    <3>1. CASE i < n
      <4>1. i + 1 \in 1..n
        BY <1>4, <3>1
      <4>2. w[i + 1].op = "reset"
        BY <1>8, <2>2, <3>1
      <4> QED  BY <1>4, <4>1, <4>2
    <3>2. CASE ~(i < n)
      <4>1. i = n /\ n # 0 /\ 1 \in 1..m
        BY <1>4, <3>2
      <4>2. v[1].op = "reset"
        BY <1>7, <2>2, <4>1
      <4>3. x[n + 1] = v[1]
        BY <1>4, <4>1
      <4> QED  BY <4>1, <4>2, <4>3
    <3> QED  BY <3>1, <3>2
  <2> QED  BY <1>8, <2>2, <2>3
<1>12. ASSUME NEW i \in 1..n + m, i \notin 1..n
       PROVE  M[i] \in 0..Len(js) /\ x[i].op # "cut" /\ M[i] = M[i - 1]
  <2>1. i \in n..n + m /\ i - 1 \in n..n + m /\ i - n \in 1..m /\ n + (i - n) = i
    BY <1>4, <1>12
  <2>2. M[i] = N[n] /\ M[i - 1] = N[n]
    BY <1>10, <2>1
  <2>3. x[i] = v[i - n]
    BY <1>4, <2>1
  <2>4. x[i].op # "cut"
    BY <1>3, <2>1, <2>3
  <2> QED  BY <1>8, <2>2, <2>4
<1>13. M[0] = 0 /\ M[n + m] = Len(js)
  BY <1>4, <1>8, <1>9, <1>10
<1>14. Counted(x, js, Y, M)
  BY <1>4, <1>11, <1>12, <1>13 DEF Counted
<1>15. WireEnds(x, js, p, q, p2, q2)
  BY <1>4, <1>5, <1>14 DEF WireEnds
<1> QED  BY <1>15 DEF x

\* The cut of a job is sent, whose receipt will be on the paper by then.
LEMMA WireCut ==
    ASSUME NEW w, NEW js \in Seq(Seq(Conversions)), NEW jb \in Seq(Conversions), NEW c,
           NEW p, NEW q, NEW p1,
           WireEnds(w, js, p, q, p1, R!ReceiptOf(jb)), c.op = "cut",
           w = <<>> \/ w[Len(w)].op # "cut"
    PROVE  WireEnds(w \o <<c>>, Append(js, jb), p, q, p1, <<>>)
<1> DEFINE v == <<c>>
           q1 == R!ReceiptOf(jb)
           x == w \o v
           l == Append(js, jb)
           n == Len(w)
<1>1. PICK P, Q, N : RunOf(w, P, Q, p, q, p1, q1) /\ Counted(w, js, Q, N)
  BY DEF WireEnds
<1>2. PICK R2, S2 : RunOf(v, R2, S2, p1, q1, p1, <<>>)
  <2>1. Latch(p1, c) = p1 /\ Prints(p1, q1, c) = <<>>
    BY DEF Latch, Prints
  <2> HIDE DEF q1
  <2> QED  BY <2>1, OneRun
<1> DEFINE X == Joined(P, R2, n, Len(v))
           Y == Joined(Q, S2, n, Len(v))
           M == [i \in 0..n + 1 |-> IF i <= n THEN N[i] ELSE Len(js) + 1]
<1>3. IsSeq(w) /\ IsSeq(v) /\ Len(v) = 1 /\ v[1] = c
  BY SeqOne DEF WireEnds
<1>4. /\ IsSeq(x) /\ n \in Nat /\ Len(x) = n + 1
      /\ \A i \in 1..n : x[i] = w[i]
      /\ x[n + 1] = c
  BY <1>3, SeqJoin
<1>5. RunOf(x, X, Y, p, q, p1, <<>>) /\ Agrees(Y, Q, n)
  <2> HIDE DEF v, q1
  <2> QED  BY <1>1, <1>2, <1>3, JoinedRuns
<1>6. n # 0 => w[n].op # "cut"
  BY <1>4
<1>7. /\ N[0] = 0 /\ N[n] = Len(js) /\ Len(js) \in Nat
      /\ \A i \in 1..n :
           /\ N[i] \in 0..Len(js)
           /\ w[i].op # "cut" => N[i] = N[i - 1]
           /\ w[i].op = "cut" => /\ N[i] = N[i - 1] + 1
                                 /\ Q[i - 1] = R!ReceiptOf(js[N[i]])
                                 /\ i < n => w[i + 1].op = "reset"
  BY <1>1 DEF Counted
<1>8. /\ Len(l) = Len(js) + 1 /\ l[Len(js) + 1] = jb
      /\ \A i \in 1..Len(js) : l[i] = js[i]
  OBVIOUS
<1>9. Q[n] = q1
  BY <1>1 DEF RunOf
<1> HIDE DEF x, n, X, Y, l, v, q1
<1>10. \A i \in 0..n : M[i] = N[i] /\ Y[i] = Q[i]
  BY <1>4, <1>5 DEF Agrees
<1>11. M[n + 1] = Len(js) + 1 /\ M[n] = Len(js) /\ Y[n] = q1
  <2>1. n \in 0..n /\ n + 1 \in 0..n + 1 /\ ~(n + 1 <= n)
    BY <1>4
  <2>2. M[n + 1] = Len(js) + 1
    <3> DEFINE k == n + 1
    <3>1. k \in 0..n + 1 /\ ~(k <= n)
      BY <2>1
    <3> HIDE DEF k
    <3>2. M[k] = Len(js) + 1
      BY <3>1
    <3> QED  BY <3>2 DEF k
  <2>3. M[n] = N[n] /\ Y[n] = Q[n]
    <3> HIDE DEF M
    <3> QED  BY <1>10, <2>1
  <2> HIDE DEF M
  <2> QED  BY <1>7, <1>9, <2>2, <2>3
<1> HIDE DEF M
<1>12. ASSUME NEW i \in 1..n
       PROVE  /\ M[i] \in 0..Len(l)
              /\ x[i].op # "cut" => M[i] = M[i - 1]
              /\ x[i].op = "cut" => /\ M[i] = M[i - 1] + 1
                                    /\ Y[i - 1] = R!ReceiptOf(l[M[i]])
                                    /\ i < n + 1 => x[i + 1].op = "reset"
  <2>1. i \in 0..n /\ i - 1 \in 0..n
    BY <1>4
  <2>2. M[i] = N[i] /\ M[i - 1] = N[i - 1] /\ Y[i - 1] = Q[i - 1] /\ x[i] = w[i]
    BY <1>4, <1>10, <2>1
  <2>3. x[i].op = "cut" => x[i + 1].op = "reset"
    <3> SUFFICES ASSUME x[i].op = "cut" PROVE x[i + 1].op = "reset"
      OBVIOUS
    <3>1. i # n
      BY <1>4, <1>6, <2>2
    <3>2. i + 1 \in 1..n /\ i < n
      BY <1>4, <3>1
    <3>3. w[i + 1].op = "reset"
      BY <1>7, <2>2, <3>2
    <3> QED  BY <1>4, <3>2, <3>3
  <2>4. x[i].op = "cut" => l[M[i]] = js[N[i]]
    <3> SUFFICES ASSUME x[i].op = "cut" PROVE l[M[i]] = js[N[i]]
      OBVIOUS
    <3>1. N[i] = N[i - 1] + 1 /\ N[i] \in 0..Len(js)
      BY <1>7, <2>2
    <3>2. N[i - 1] \in Nat
      <4>1. CASE i = 1
        BY <1>7, <4>1
      <4>2. CASE i # 1
        <5>1. i - 1 \in 1..n
          BY <1>4, <4>2
        <5>2. N[i - 1] \in 0..Len(js)
          BY <1>7, <5>1
        <5> QED  BY <5>2
      <4> QED  BY <4>1, <4>2
    <3>3. N[i] \in 1..Len(js)
      BY <1>7, <3>1, <3>2
    <3> QED  BY <1>8, <2>2, <3>3
  <2>5. M[i] \in 0..Len(l)
    <3>1. N[i] \in 0..Len(js)
      BY <1>7
    <3> QED  BY <1>7, <1>8, <2>2, <3>1
  <2> QED  BY <1>7, <2>2, <2>3, <2>4, <2>5
<1>13. /\ M[n + 1] \in 0..Len(l) /\ M[n + 1] = M[n] + 1
       /\ Y[n] = R!ReceiptOf(l[M[n + 1]])
  BY <1>7, <1>8, <1>11 DEF q1
<1>14. M[0] = 0
  BY <1>4, <1>7, <1>10
<1>15. Counted(x, l, Y, M)
  <2>1. ASSUME NEW i \in 1..n + 1
        PROVE  /\ M[i] \in 0..Len(l)
               /\ x[i].op # "cut" => M[i] = M[i - 1]
               /\ x[i].op = "cut" => /\ M[i] = M[i - 1] + 1
                                     /\ Y[i - 1] = R!ReceiptOf(l[M[i]])
                                     /\ i < n + 1 => x[i + 1].op = "reset"
    <3>1. CASE i \in 1..n
      BY <1>12, <3>1
    <3>2. CASE i \notin 1..n
      <4>1. i = n + 1 /\ i - 1 = n /\ ~(i < n + 1)
        BY <1>4, <3>2
      <4>2. x[i].op = "cut"
        BY <1>4, <4>1
      <4> QED  BY <1>13, <4>1, <4>2
    <3> QED  BY <3>1, <3>2
  <2> QED  BY <1>4, <1>8, <1>11, <1>14, <2>1 DEF Counted
<1>16. WireEnds(x, l, p, q, p1, <<>>)
  BY <1>4, <1>5, <1>15 DEF WireEnds
<1> QED  BY <1>16 DEF x, v, l

\* N only grows, and at most one at a time.
LEMMA CountGrows ==
    ASSUME NEW n \in Nat, NEW N, \A i \in 0..n : N[i] \in Nat,
           \A i \in 1..n : N[i] = N[i - 1] \/ N[i] = N[i - 1] + 1
    PROVE  \A i, j \in 0..n : i <= j => N[i] <= N[j]
<1> SUFFICES ASSUME NEW i \in 0..n, NEW j \in 0..n, i <= j, ~(N[i] <= N[j]) PROVE FALSE
  OBVIOUS
<1> DEFINE Bad == {k \in 0..n : i <= k /\ ~(N[i] <= N[k])}
<1>1. Bad \subseteq Nat /\ j \in Bad
  OBVIOUS
<1>2. PICK k \in Bad : \A y \in Bad : k <= y
  <2> HIDE DEF Bad
  <2> QED  BY <1>1, LeastNatural
<1>3. k \in 0..n /\ i <= k /\ ~(N[i] <= N[k]) /\ k # i
  BY <1>2
<1> DEFINE h == k - 1
<1>4. k \in 1..n /\ h \in 0..n /\ i <= h /\ ~(k <= h)
  BY <1>3
<1>5. h \notin Bad
  <2> HIDE DEF Bad, h
  <2> QED  BY <1>2, <1>4
<1>6. N[i] <= N[h]
  <2> HIDE DEF h
  <2> QED  BY <1>4, <1>5
<1>7. N[k] = N[h] \/ N[k] = N[h] + 1
  BY <1>4
<1>8. N[k] \in Nat /\ N[h] \in Nat /\ N[i] \in Nat
  <2> HIDE DEF h
  <2> QED  BY <1>3, <1>4
<1> HIDE DEF h
<1> QED  BY <1>3, <1>6, <1>7, <1>8

LEMMA CountedGrows ==
    ASSUME NEW w, NEW js \in Seq(Seq(Conversions)), NEW Q, NEW N, IsSeq(w), Counted(w, js, Q, N)
    PROVE  /\ \A i \in 0..Len(w) : N[i] \in 0..Len(js)
           /\ \A i, j \in 0..Len(w) : i <= j => N[i] <= N[j]
<1> DEFINE n == Len(w)
<1>1. n \in Nat /\ Len(js) \in Nat
  BY DEF IsSeq
<1>2. /\ N[0] = 0
      /\ \A i \in 1..n : /\ N[i] \in 0..Len(js)
                         /\ N[i] = N[i - 1] \/ N[i] = N[i - 1] + 1
  BY DEF Counted
<1> HIDE DEF n
<1>3. \A i \in 0..n : N[i] \in 0..Len(js)
  <2> TAKE i \in 0..n
  <2>1. i = 0 \/ i \in 1..n
    BY <1>1
  <2> QED  BY <1>1, <1>2, <2>1
<1>4. \A i \in 0..n : N[i] \in Nat
  BY <1>1, <1>3
<1>5. \A i, j \in 0..n : i <= j => N[i] <= N[j]
  BY <1>1, <1>2, <1>4, CountGrows
<1> QED  BY <1>3, <1>5 DEF n

\* v is what is left of w after the first n commands.
Later(v, w, n) ==
    /\ IsSeq(v) /\ n \in Nat /\ n <= Len(w)
    /\ Len(v) = Len(w) - n
    /\ \A i \in 1..Len(v) : v[i] = w[n + i]

\* The printer has executed the first n commands.
LEMMA WireLater ==
    ASSUME NEW w, NEW v, NEW n, NEW js \in Seq(Seq(Conversions)), NEW P, NEW Q, NEW N,
           NEW p, NEW q, NEW p1, NEW q1, IsSeq(w), Later(v, w, n),
           RunOf(w, P, Q, p, q, p1, q1), Counted(w, js, Q, N)
    PROVE  WireEnds(v, SubSeq(js, N[n] + 1, Len(js)), P[n], Q[n], p1, q1)
<1> DEFINE m == Len(v)
           l == SubSeq(js, N[n] + 1, Len(js))
           X == [i \in 0..m |-> P[n + i]]
           Y == [i \in 0..m |-> Q[n + i]]
           M == [i \in 0..m |-> N[n + i] - N[n]]
<1>1. /\ IsSeq(v) /\ n \in Nat /\ m \in Nat /\ Len(w) = n + m /\ Len(js) \in Nat
      /\ \A i \in 1..m : v[i] = w[n + i]
  <2>1. Len(w) \in Nat /\ Len(v) \in Nat
    BY DEF IsSeq, Later
  <2> QED  BY <2>1 DEF Later
<1>2. /\ \A i \in 0..n + m : N[i] \in 0..Len(js)
      /\ \A i, j \in 0..n + m : i <= j => N[i] <= N[j]
  <2> HIDE DEF m
  <2>1. /\ \A i \in 0..Len(w) : N[i] \in 0..Len(js)
        /\ \A i, j \in 0..Len(w) : i <= j => N[i] <= N[j]
    BY CountedGrows
  <2> QED  BY <1>1, <2>1
<1>3. /\ N[n + m] = Len(js)
      /\ \A i \in 1..n + m :
           /\ w[i].op # "cut" => N[i] = N[i - 1]
           /\ w[i].op = "cut" => /\ N[i] = N[i - 1] + 1
                                 /\ Q[i - 1] = R!ReceiptOf(js[N[i]])
                                 /\ i < n + m => w[i + 1].op = "reset"
  <2> HIDE DEF m
  <2> QED  BY <1>1 DEF Counted
<1>4. /\ P[n + m] = p1 /\ Q[n + m] = q1
      /\ \A i \in 1..n + m :
           /\ P[i] = Latch(P[i - 1], w[i])
           /\ Q[i] = IF w[i].op \in {"reset", "cut"} THEN <<>> ELSE Q[i - 1] \o Output(P[i - 1], w[i])
  <2> HIDE DEF m
  <2> QED  BY <1>1 DEF RunOf, Runs
<1> HIDE DEF m
<1>5. \A i \in 0..m : X[i] = P[n + i] /\ Y[i] = Q[n + i] /\ M[i] = N[n + i] - N[n]
  OBVIOUS
<1>6. X[0] = P[n] /\ Y[0] = Q[n] /\ M[0] = 0
  <2>1. 0 \in 0..m /\ n + 0 = n /\ n \in 0..n + m
    BY <1>1
  <2>2. N[n] - N[n] = 0
    <3>1. N[n] \in 0..Len(js)
      BY <1>2, <2>1
    <3> QED  BY <3>1
  <2> HIDE DEF X, Y, M
  <2> QED  BY <1>5, <2>1, <2>2
<1> HIDE DEF X, Y, M
<1>7. N[n] \in 0..Len(js)
  <2>1. n \in 0..n + m
    BY <1>1
  <2> QED  BY <1>2, <2>1
<1>8. /\ Len(l) = Len(js) - N[n]
      /\ \A k \in 1..Len(js) - N[n] : l[k] = js[N[n] + k]
  <2> DEFINE a == N[n]
  <2>1. a \in 0..Len(js)
    BY <1>7
  <2> HIDE DEF a
  <2>2. Len(SubSeq(js, a + 1, Len(js))) = Len(js) - a
    BY <1>1, <2>1
  <2>3. \A k \in 1..Len(js) - a : SubSeq(js, a + 1, Len(js))[k] = js[a + k]
    BY <1>1, <2>1
  <2> QED  BY <2>2, <2>3 DEF a
<1> HIDE DEF l
\* One command of v, the j-th of w.
<1>9. ASSUME NEW i \in 1..m
      PROVE  /\ X[i] = Latch(X[i - 1], v[i])
             /\ Y[i] = IF v[i].op \in {"reset", "cut"} THEN <<>> ELSE Y[i - 1] \o Output(X[i - 1], v[i])
             /\ M[i] \in 0..Len(l)
             /\ v[i].op # "cut" => M[i] = M[i - 1]
             /\ v[i].op = "cut" => /\ M[i] = M[i - 1] + 1
                                   /\ Y[i - 1] = R!ReceiptOf(l[M[i]])
                                   /\ i < m => v[i + 1].op = "reset"
  <2> DEFINE j == n + i
             h == i - 1
  <2>1. /\ j \in 1..n + m /\ j - 1 = n + h /\ i \in 0..m /\ h \in 0..m
        /\ j \in 0..n + m /\ j - 1 \in 0..n + m /\ n <= j /\ n <= j - 1 /\ n \in 0..n + m
    BY <1>1
  <2>2. v[i] = w[j]
    BY <1>1
  <2>3. X[i] = P[j] /\ Y[i] = Q[j] /\ M[i] = N[j] - N[n]
    BY <1>5, <2>1
  <2>4. X[h] = P[n + h] /\ Y[h] = Q[n + h] /\ M[h] = N[n + h] - N[n]
    BY <1>5, <2>1
  <2> HIDE DEF h
  <2>5. X[h] = P[j - 1] /\ Y[h] = Q[j - 1] /\ M[h] = N[j - 1] - N[n]
    BY <2>1, <2>4
  <2>6. i < m /\ v[i].op = "cut" => v[i + 1].op = "reset"
    <3> SUFFICES ASSUME i < m, v[i].op = "cut" PROVE v[i + 1].op = "reset"
      OBVIOUS
    <3> DEFINE k == i + 1
    <3>1. j < n + m /\ k \in 1..m /\ n + k = j + 1
      BY <1>1
    <3> HIDE DEF j
    <3>2. w[j + 1].op = "reset"
      BY <1>3, <2>1, <2>2, <3>1
    <3> HIDE DEF k
    <3>3. v[k] = w[n + k]
      BY <1>1, <3>1
    <3>4. v[k] = w[j + 1]
      BY <3>1, <3>3
    <3> QED  BY <3>2, <3>4 DEF k
  <2> HIDE DEF j
  <2>7. X[i] = Latch(X[h], v[i])
    BY <1>4, <2>1, <2>2, <2>3, <2>5
  <2>8. Y[i] = IF v[i].op \in {"reset", "cut"} THEN <<>> ELSE Y[h] \o Output(X[h], v[i])
    BY <1>4, <2>1, <2>2, <2>3, <2>5
  <2>9. N[n] \in 0..Len(js) /\ N[j] \in 0..Len(js) /\ N[j - 1] \in 0..Len(js) /\ N[n] <= N[j] /\ N[n] <= N[j - 1]
    BY <1>2, <2>1
  <2>10. M[i] \in 0..Len(l)
    BY <1>1, <1>8, <2>3, <2>9
  <2>11. v[i].op # "cut" => M[i] = M[h]
    BY <1>3, <2>1, <2>2, <2>3, <2>5
  <2> DEFINE a == N[n]
             b == N[j]
             c == N[j - 1]
  <2>a. M[i] = b - a /\ M[h] = c - a /\ a \in Nat /\ b \in 0..Len(js) /\ c \in Nat /\ a <= c
    BY <2>3, <2>5, <2>9
  <2>c. v[i].op = "cut" => b = c + 1
    BY <1>3, <2>1, <2>2
  <2> HIDE DEF a, b, c
  <2>12. v[i].op = "cut" => M[i] = M[h] + 1
    BY <2>a, <2>c
  <2>13. v[i].op = "cut" => Y[h] = R!ReceiptOf(l[M[i]])
    <3> SUFFICES ASSUME v[i].op = "cut" PROVE Y[h] = R!ReceiptOf(l[M[i]])
      OBVIOUS
    <3>1. N[j] = N[j - 1] + 1 /\ Q[j - 1] = R!ReceiptOf(js[N[j]])
      BY <1>3, <2>1, <2>2
    <3> DEFINE k == M[i]
    <3>2. k \in 1..Len(js) - a /\ a + k = b
      BY <1>1, <2>a, <2>c
    <3> HIDE DEF k
    <3>3. l[k] = js[a + k]
      BY <1>8, <3>2 DEF a
    <3>4. l[k] = js[N[j]]
      BY <3>2, <3>3 DEF b
    <3> QED  BY <2>5, <3>1, <3>4 DEF k
  <2> QED  BY <2>6, <2>7, <2>8, <2>10, <2>11, <2>12, <2>13 DEF h
<1>10. X[m] = p1 /\ Y[m] = q1 /\ M[m] = Len(l)
  <2>1. m \in 0..m
    BY <1>1
  <2> QED  BY <1>3, <1>4, <1>5, <1>8, <2>1
<1>11. RunOf(v, X, Y, P[n], Q[n], p1, q1)
  BY <1>6, <1>9, <1>10 DEF RunOf, Runs, m
<1>12. Counted(v, l, Y, M)
  BY <1>6, <1>9, <1>10 DEF Counted, m
<1>13. WireEnds(v, l, P[n], Q[n], p1, q1)
  BY <1>1, <1>11, <1>12 DEF WireEnds
<1> QED  BY <1>13 DEF l

\* Behind an ESC @ the printer is fresh.
LEMMA EndsFresh ==
    ASSUME NEW w, NEW js, NEW p, NEW q, NEW p1, NEW q1, WireEnds(w, js, p, q, p1, q1),
           w # <<>>, w[Len(w)].op = "reset"
    PROVE  p1 = Fresh /\ q1 = <<>>
<1>1. PICK P, Q : RunOf(w, P, Q, p, q, p1, q1)
  BY DEF WireEnds
<1> DEFINE n == Len(w)
<1>2. n \in Nat /\ n \in 1..n
  BY DEF WireEnds, IsSeq
<1>3. P[n] = Latch(P[n - 1], w[n]) /\ Q[n] = <<>> /\ P[n] = p1 /\ Q[n] = q1
  BY <1>1, <1>2 DEF RunOf, Runs
<1>4. P[n] = Fresh
  <2> HIDE DEF n
  <2> QED  BY <1>3 DEF Latch, n
<1> QED  BY <1>3, <1>4

\* Nor does it matter then what it remembers, and what is on its paper.
LEMMA WireAnyPrinter ==
    ASSUME NEW w, NEW js \in Seq(Seq(Conversions)), NEW p, NEW q, NEW p1, NEW q1, NEW p2, NEW q2,
           WireEnds(w, js, p, q, p1, q1), w # <<>>, w[1].op = "reset"
    PROVE  WireEnds(w, js, p2, q2, p1, q1)
<1>1. PICK P, Q, N : RunOf(w, P, Q, p, q, p1, q1) /\ Counted(w, js, Q, N)
  BY DEF WireEnds
<1> DEFINE n == Len(w)
           X == [i \in 0..n |-> IF i = 0 THEN p2 ELSE P[i]]
           Y == [i \in 0..n |-> IF i = 0 THEN q2 ELSE Q[i]]
<1>2. n \in Nat /\ n \in 1..n /\ IsSeq(w)
  BY DEF WireEnds, IsSeq
<1>3. /\ P[n] = p1 /\ Q[n] = q1
      /\ \A i \in 1..n :
           /\ P[i] = Latch(P[i - 1], w[i])
           /\ Q[i] = IF w[i].op \in {"reset", "cut"} THEN <<>> ELSE Q[i - 1] \o Output(P[i - 1], w[i])
  BY <1>1 DEF RunOf, Runs
<1>4. /\ N[0] = 0 /\ N[n] = Len(js)
      /\ \A i \in 1..n :
           /\ N[i] \in 0..Len(js)
           /\ w[i].op # "cut" => N[i] = N[i - 1]
           /\ w[i].op = "cut" => /\ N[i] = N[i - 1] + 1
                                 /\ Q[i - 1] = R!ReceiptOf(js[N[i]])
                                 /\ i < n => w[i + 1].op = "reset"
  BY <1>1 DEF Counted
<1> HIDE DEF n
<1>5. X[0] = p2 /\ Y[0] = q2 /\ \A i \in 1..n : X[i] = P[i] /\ Y[i] = Q[i]
  BY <1>2
<1> HIDE DEF X, Y
<1>6. ASSUME NEW i \in 1..n
      PROVE  /\ X[i] = Latch(X[i - 1], w[i])
             /\ Y[i] = IF w[i].op \in {"reset", "cut"} THEN <<>> ELSE Y[i - 1] \o Output(X[i - 1], w[i])
             /\ w[i].op = "cut" => Y[i - 1] = R!ReceiptOf(js[N[i]])
  <2>1. CASE i = 1
    <3>1. w[i].op = "reset"
      BY <2>1
    <3>2. X[i] = P[i] /\ Y[i] = Q[i] /\ P[i] = Latch(P[i - 1], w[i]) /\ Q[i] = <<>>
      BY <1>3, <1>5, <3>1
    <3>3. \A x : Latch(x, w[i]) = Fresh
      BY <3>1 DEF Latch
    <3> QED  BY <3>1, <3>2, <3>3
  <2>2. CASE i # 1
    <3> DEFINE h == i - 1
    <3>1. h \in 1..n
      BY <1>2, <2>2
    <3> HIDE DEF h
    <3>2. X[i] = P[i] /\ Y[i] = Q[i] /\ X[h] = P[h] /\ Y[h] = Q[h]
      BY <1>5, <3>1
    <3>3. /\ P[i] = Latch(P[h], w[i])
          /\ Q[i] = IF w[i].op \in {"reset", "cut"} THEN <<>> ELSE Q[h] \o Output(P[h], w[i])
          /\ w[i].op = "cut" => Q[h] = R!ReceiptOf(js[N[i]])
      BY <1>3, <1>4 DEF h
    <3> QED  BY <3>2, <3>3 DEF h
  <2> QED  BY <2>1, <2>2
<1>7. X[n] = p1 /\ Y[n] = q1
  BY <1>2, <1>3, <1>5
<1>8. RunOf(w, X, Y, p2, q2, p1, q1)
  BY <1>5, <1>6, <1>7 DEF RunOf, Runs, n
<1>9. Counted(w, js, Y, N)
  BY <1>4, <1>6 DEF Counted, n
<1> QED  BY <1>2, <1>8, <1>9 DEF WireEnds

\* The last cut is remembered to be that of a freed transfer.
LEMMA WireFreed ==
    ASSUME NEW w, NEW v, NEW js \in Seq(Seq(Conversions)), NEW p, NEW q, NEW p1, NEW q1,
           WireEnds(w, js, p, q, p1, q1), w # <<>>, IsSeq(v), Len(v) = Len(w),
           \A i \in 1..Len(w) - 1 : v[i] = w[i],
           w[Len(w)].op = "cut", v[Len(w)].op = "cut"
    PROVE  WireEnds(v, js, p, q, p1, q1)
<1>1. PICK P, Q, N : RunOf(w, P, Q, p, q, p1, q1) /\ Counted(w, js, Q, N)
  BY DEF WireEnds
<1> DEFINE n == Len(w)
<1>2. n \in Nat /\ n \in 1..n
  BY DEF WireEnds, IsSeq
<1>3. /\ P[0] = p /\ Q[0] = q /\ P[n] = p1 /\ Q[n] = q1
      /\ \A i \in 1..n :
           /\ P[i] = Latch(P[i - 1], w[i])
           /\ Q[i] = IF w[i].op \in {"reset", "cut"} THEN <<>> ELSE Q[i - 1] \o Output(P[i - 1], w[i])
  BY <1>1 DEF RunOf, Runs
<1>4. /\ N[0] = 0 /\ N[n] = Len(js)
      /\ \A i \in 1..n :
           /\ N[i] \in 0..Len(js)
           /\ w[i].op # "cut" => N[i] = N[i - 1]
           /\ w[i].op = "cut" => /\ N[i] = N[i - 1] + 1
                                 /\ Q[i - 1] = R!ReceiptOf(js[N[i]])
                                 /\ i < n => w[i + 1].op = "reset"
  BY <1>1 DEF Counted
<1>5. Len(v) = n /\ (\A i \in 1..n - 1 : v[i] = w[i]) /\ w[n].op = "cut" /\ v[n].op = "cut"
  OBVIOUS
<1> HIDE DEF n
<1>6. \A i \in 1..n : i = n \/ i \in 1..n - 1
  BY <1>2
<1>7. \A i \in 1..n : v[i].op = w[i].op
  BY <1>5, <1>6
<1>8. \A i \in 1..n : P[i] = Latch(P[i - 1], v[i])
  <2> TAKE i \in 1..n
  <2>1. CASE i = n
    <3>1. \A x : Latch(x, v[n]) = x /\ Latch(x, w[n]) = x
      BY <1>5 DEF Latch
    <3> QED  BY <1>3, <2>1, <3>1
  <2>2. CASE i \in 1..n - 1
    BY <1>3, <1>5, <2>2
  <2> QED  BY <1>6, <2>1, <2>2
<1>9. \A i \in 1..n :
        Q[i] = IF v[i].op \in {"reset", "cut"} THEN <<>> ELSE Q[i - 1] \o Output(P[i - 1], v[i])
  <2> TAKE i \in 1..n
  <2>1. CASE i = n
    BY <1>3, <1>5, <2>1
  <2>2. CASE i \in 1..n - 1
    BY <1>3, <1>5, <2>2
  <2> QED  BY <1>6, <2>1, <2>2
<1>10. RunOf(v, P, Q, p, q, p1, q1)
  BY <1>3, <1>5, <1>8, <1>9 DEF RunOf, Runs
<1>11. \A i \in 1..n : i < n => v[i + 1].op = w[i + 1].op
  <2> SUFFICES ASSUME NEW i \in 1..n, i < n PROVE v[i + 1].op = w[i + 1].op
    OBVIOUS
  <2>1. i + 1 \in 1..n
    BY <1>2
  <2> QED  BY <1>7, <2>1
<1>12. Counted(v, js, Q, N)
  BY <1>4, <1>5, <1>7, <1>11 DEF Counted
<1> QED  BY <1>10, <1>12 DEF WireEnds

LEMMA TailIsLater ==
    ASSUME NEW w, IsSeq(w), w # <<>>
    PROVE  Later(Tail(w), w, 1) /\ Head(w) = w[1]
<1>1. PICK T : w \in Seq(T)
  BY DEF IsSeq
<1>2. Tail(w) \in Seq(T) /\ Len(Tail(w)) = Len(w) - 1 /\ \A i \in 1..Len(Tail(w)) : Tail(w)[i] = w[i + 1]
  BY <1>1, HeadTailProperties
<1>3. Len(w) \in Nat /\ 1 <= Len(w) /\ Head(w) = w[1]
  BY <1>1
<1>4. \A i \in 1..Len(Tail(w)) : Tail(w)[i] = w[1 + i]
  BY <1>2, <1>3
<1> QED  BY <1>2, <1>3, <1>4 DEF Later, IsSeq

\* The printer executes a command that is not a cut.
LEMMA WireExecute ==
    ASSUME NEW w, NEW js \in Seq(Seq(Conversions)), NEW p, NEW q, NEW p1, NEW q1,
           WireEnds(w, js, p, q, p1, q1), w # <<>>, Head(w).op # "cut"
    PROVE  WireEnds(Tail(w), js, Latch(p, Head(w)), Prints(p, q, Head(w)), p1, q1)
<1>1. PICK P, Q, N : RunOf(w, P, Q, p, q, p1, q1) /\ Counted(w, js, Q, N)
  BY DEF WireEnds
<1>2. IsSeq(w) /\ Later(Tail(w), w, 1) /\ Head(w) = w[1] /\ 1 \in 1..Len(w)
  <2>1. IsSeq(w) /\ Later(Tail(w), w, 1) /\ Head(w) = w[1]
    BY TailIsLater DEF WireEnds
  <2>2. Len(w) \in Nat /\ 1 <= Len(w)
    BY <2>1 DEF Later, IsSeq
  <2> QED  BY <2>1, <2>2
<1>3. P[1] = Latch(P[0], w[1]) /\ P[0] = p /\ Q[0] = q /\ 1 - 1 = 0
      /\ Q[1] = IF w[1].op \in {"reset", "cut"} THEN <<>> ELSE Q[0] \o Output(P[0], w[1])
  BY <1>1, <1>2 DEF RunOf, Runs
<1>4. N[1] = 0
  BY <1>1, <1>2 DEF Counted
<1>5. P[1] = Latch(p, Head(w)) /\ Q[1] = Prints(p, q, Head(w))
  BY <1>2, <1>3 DEF Prints
<1>6. SubSeq(js, N[1] + 1, Len(js)) = js
  <2>1. N[1] + 1 = 1
    BY <1>4
  <2> QED  BY <2>1, SubSeqFull
<1>7. WireEnds(Tail(w), SubSeq(js, N[1] + 1, Len(js)), P[1], Q[1], p1, q1)
  BY <1>1, <1>2, WireLater
<1> QED  BY <1>5, <1>6, <1>7

\* Nothing is cut off within the first n commands but at the last of them.
LEMMA FirstCut ==
    ASSUME NEW w, NEW js \in Seq(Seq(Conversions)), NEW Q, NEW N, NEW n \in 1..Len(w),
           IsSeq(w), Counted(w, js, Q, N),
           w[n].op = "cut", \A m \in 1..(n - 1) : w[m].op # "cut"
    PROVE  /\ N[n] = 1 /\ js # <<>>
           /\ Q[n - 1] = R!ReceiptOf(Head(js))
           /\ SubSeq(js, N[n] + 1, Len(js)) = Tail(js)
<1>1. n \in Nat /\ Len(w) \in Nat /\ n - 1 \in 0..Len(w)
  BY DEF IsSeq
<1>2. \A i \in 0..Len(w) : N[i] \in 0..Len(js)
  BY CountedGrows
<1>3. /\ N[0] = 0
      /\ \A i \in 1..n - 1 : N[i] = N[i - 1]
      /\ N[n] = N[n - 1] + 1 /\ Q[n - 1] = R!ReceiptOf(js[N[n]])
  BY <1>1 DEF Counted
<1> DEFINE Bad == {i \in 0..n - 1 : N[i] # 0}
<1>4. Bad = {}
  <2> SUFFICES ASSUME Bad # {} PROVE FALSE
    OBVIOUS
  <2>1. Bad \subseteq Nat
    BY <1>1
  <2>2. PICK b \in Bad : \A y \in Bad : b <= y
    <3> HIDE DEF Bad
    <3> QED  BY <2>1, LeastNatural
  <2>3. b \in 0..n - 1 /\ N[b] # 0 /\ b # 0
    BY <1>3, <2>2
  <2> DEFINE h == b - 1
  <2>4. b \in 1..n - 1 /\ h \in 0..n - 1 /\ ~(b <= h)
    BY <1>1, <2>3
  <2>5. N[b] = N[h]
    BY <1>3, <2>4
  <2>6. h \in Bad
    <3> HIDE DEF h
    <3> QED  BY <2>3, <2>4, <2>5
  <2> HIDE DEF Bad, h
  <2> QED  BY <2>2, <2>4, <2>6
<1>5. N[n - 1] = 0
  <2> DEFINE k == n - 1
  <2>1. k \in 0..k
    BY <1>1
  <2> QED  BY <1>4, <2>1
<1>6. N[n] = 1
  BY <1>3, <1>5
<1>7. Len(js) \in Nat /\ 1 <= Len(js)
  <2>1. N[n] \in 0..Len(js)
    BY <1>1, <1>2
  <2> QED  BY <1>6, <2>1
<1>8. js # <<>> /\ Head(js) = js[1]
  BY <1>7
<1>9. SubSeq(js, N[n] + 1, Len(js)) = Tail(js)
  <2>1. N[n] + 1 = 2
    BY <1>6
  <2> QED  BY <1>8, <2>1, TailIsSubSeq
<1> QED  BY <1>3, <1>6, <1>8, <1>9

\* The printer cuts.
LEMMA WireCutOff ==
    ASSUME NEW w, NEW js \in Seq(Seq(Conversions)), NEW p, NEW q, NEW p1, NEW q1,
           WireEnds(w, js, p, q, p1, q1), w # <<>>, Head(w).op = "cut"
    PROVE  /\ js # <<>> /\ q = R!ReceiptOf(Head(js))
           /\ WireEnds(Tail(w), Tail(js), p, <<>>, p1, q1)
<1>1. PICK P, Q, N : RunOf(w, P, Q, p, q, p1, q1) /\ Counted(w, js, Q, N)
  BY DEF WireEnds
<1>2. IsSeq(w) /\ Later(Tail(w), w, 1) /\ Head(w) = w[1] /\ 1 \in 1..Len(w)
  <2>1. IsSeq(w) /\ Later(Tail(w), w, 1) /\ Head(w) = w[1]
    BY TailIsLater DEF WireEnds
  <2>2. Len(w) \in Nat /\ 1 <= Len(w)
    BY <2>1 DEF Later, IsSeq
  <2> QED  BY <2>1, <2>2
<1>3. P[1] = Latch(P[0], w[1]) /\ P[0] = p /\ Q[0] = q /\ 1 - 1 = 0 /\ Q[1] = <<>>
  BY <1>1, <1>2 DEF RunOf, Runs
<1>4. P[1] = p
  <2>1. Latch(P[0], w[1]) = P[0]
    BY <1>2 DEF Latch
  <2> QED  BY <1>3, <2>1
<1> DEFINE n == 1
<1>5. n \in 1..Len(w) /\ w[n].op = "cut" /\ n - 1 = 0 /\ \A m \in 1..(n - 1) : w[m].op # "cut"
  BY <1>2
<1>6. /\ N[1] = 1 /\ js # <<>> /\ Q[0] = R!ReceiptOf(Head(js))
      /\ SubSeq(js, N[1] + 1, Len(js)) = Tail(js)
  <2> HIDE DEF n
  <2>0. Counted(w, js, Q, N) /\ IsSeq(w)
    BY <1>1, <1>2
  <2>1. /\ N[n] = 1 /\ js # <<>> /\ Q[n - 1] = R!ReceiptOf(Head(js))
        /\ SubSeq(js, N[n] + 1, Len(js)) = Tail(js)
    BY <2>0, <1>5, FirstCut, Zenon
  <2> QED  BY <1>5, <2>1 DEF n
<1>7. WireEnds(Tail(w), SubSeq(js, N[1] + 1, Len(js)), P[1], Q[1], p1, q1)
  BY <1>1, <1>2, WireLater
<1> QED  BY <1>3, <1>4, <1>6, <1>7

\* The printer takes in what the memory of a freed transfer holds by now.
LEMMA WireGarbage ==
    ASSUME NEW w, NEW js \in Seq(Seq(Conversions)), NEW p, NEW q, NEW p1, NEW q1, NEW p2,
           WireEnds(w, js, p, q, p1, q1), NEW n \in 1..Len(w),
           w[n].op = "cut", \A m \in 1..(n - 1) : w[m].op # "cut"
    PROVE  LET v == SubSeq(w, n + 1, Len(w))
           IN  /\ js # <<>> /\ Later(v, w, n)
               /\ \E p3, q3 : WireEnds(v, Tail(js), p2, <<>>, p3, q3)
<1> DEFINE v == SubSeq(w, n + 1, Len(w))
<1>1. PICK P, Q, N : RunOf(w, P, Q, p, q, p1, q1) /\ Counted(w, js, Q, N)
  BY DEF WireEnds
<1>2. PICK T : w \in Seq(T)
  BY DEF WireEnds, IsSeq
<1>3. IsSeq(w) /\ Len(w) \in Nat /\ n \in Nat /\ n <= Len(w)
  BY <1>2 DEF IsSeq
<1>4. Later(v, w, n)
  <2>1. v \in Seq(T) /\ Len(v) = Len(w) - n /\ \A i \in 1..Len(v) : v[i] = w[n + i]
    BY <1>2, <1>3
  <2> HIDE DEF v
  <2> QED  BY <1>3, <2>1 DEF Later, IsSeq
<1> HIDE DEF v
<1>5. js # <<>> /\ SubSeq(js, N[n] + 1, Len(js)) = Tail(js)
  BY <1>1, <1>3, FirstCut
<1>6. WireEnds(v, SubSeq(js, N[n] + 1, Len(js)), P[n], Q[n], p1, q1)
  BY <1>1, <1>3, <1>4, WireLater
<1>7. WireEnds(v, Tail(js), P[n], Q[n], p1, q1) /\ Tail(js) \in Seq(Seq(Conversions))
  <2>1. WireEnds(v, Tail(js), P[n], Q[n], p1, q1)
    BY <1>5, <1>6, Zenon
  <2>2. Tail(js) \in Seq(Seq(Conversions))
    BY <1>5
  <2> QED  BY <2>1, <2>2
<1>8. CASE v = <<>>
  <2>1. Tail(js) = <<>>
    <3> DEFINE l == Tail(js)
    <3>0. l \in Seq(Seq(Conversions)) /\ WireEnds(v, l, P[n], Q[n], p1, q1)
      BY <1>7
    <3> HIDE DEF l
    <3>1. PICK M : M[0] = 0 /\ M[Len(v)] = Len(l)
      BY <3>0 DEF WireEnds, Counted
    <3>2. Len(l) = 0
      BY <1>8, <3>1
    <3>3. l = <<>>
      BY <3>0, <3>2
    <3> QED  BY <3>3 DEF l
  <2> QED  BY <1>4, <1>5, <1>8, <2>1, WireNone DEF v
<1>9. CASE v # <<>>
  <2>1. n < Len(w) /\ v[1] = w[n + 1]
    <3>1. Len(v) \in Nat /\ Len(v) # 0 /\ Len(v) = Len(w) - n
      BY <1>4, <1>9 DEF Later, IsSeq
    <3>2. 1 \in 1..Len(v)
      BY <3>1
    <3> QED  BY <1>3, <1>4, <3>1, <3>2 DEF Later
  <2>2. w[n + 1].op = "reset"
    BY <1>1, <2>1 DEF Counted
  <2>3. WireEnds(v, Tail(js), p2, <<>>, p1, q1)
    BY <1>7, <1>9, <2>1, <2>2, WireAnyPrinter
  <2> QED  BY <1>4, <1>5, <2>3 DEF v
<1> QED  BY <1>8, <1>9

-----------------------------------------------------------------------------
(* The buffer.                                                               *)

\* A fresh printer will have printed the items converted so far when it gets to the
\* end of the commands, and have the alignment and the spacing the next item meets.
Converted(commands, items, feed) ==
    /\ items \in Seq(Conversions)
    /\ IsSeq(Printed(items))
    /\ R!Given(feed, 5) = R!FeedOf(items)
    /\ \E m, u, b : Reaches(commands, Fresh, <<>>,
                            Memory(m, u, R!AlignAt(items, Len(items) + 1),
                                   R!SpacingAt(items, Len(items) + 1), b),
                            Printed(items))

LEMMA FreshMemory == Fresh = Memory({}, No, "left", R!DefaultSpacing, 50)
  BY DEF Fresh, Memory, No

LEMMA NothingConverted == Converted(<<>>, <<>>, None)
<1> DEFINE none == <<>>
<1>1. none \in Seq(Conversions) /\ Len(none) + 1 = 1
  OBVIOUS
<1>2. /\ Printed(none) = <<>> /\ R!AlignAt(none, 1) = "left"
      /\ R!SpacingAt(none, 1) = R!DefaultSpacing /\ R!FeedOf(none) = 5
  BY NothingPrinted
<1>3. R!Given(None, 5) = 5
  BY DEF R!Given
<1>4. Reaches(<<>>, Fresh, <<>>, Memory({}, No, "left", R!DefaultSpacing, 50), <<>>)
  BY ReachesNone, FreshMemory
<1>5. IsSeq(Printed(none))
  BY <1>2, SeqNone
<1> HIDE DEF none
<1>6. \E m, u, b : Reaches(<<>>, Fresh, <<>>,
                           Memory(m, u, R!AlignAt(none, Len(none) + 1),
                                  R!SpacingAt(none, Len(none) + 1), b), Printed(none))
  BY <1>1, <1>2, <1>4
<1>7. Converted(<<>>, none, None)
  BY <1>1, <1>2, <1>3, <1>5, <1>6 DEF Converted
<1> QED  BY <1>7 DEF none

\* One more item is converted.
LEMMA OneMoreConverted ==
    ASSUME NEW commands, NEW items, NEW feed, Converted(commands, items, feed),
           NEW item \in Conversions, NEW more, NEW new,
           R!Given(new, 5) = IF item.kind = "text" THEN R!Given(item.feed, 5) ELSE R!Given(feed, 5),
           \A m, u, b : LET js == Append(items, item)
                            k == Len(items) + 1
                            p == Memory(m, u, R!AlignAt(items, k), R!SpacingAt(items, k), b)
                        IN  \E m1, u1, b1 :
                              Reaches(more, p, Printed(items),
                                      Memory(m1, u1, R!AlignAt(js, k + 1), R!SpacingAt(js, k + 1), b1),
                                      Printed(items) \o R!LinesOf(js, k))
    PROVE  Converted(commands \o more, Append(items, item), new)
<1> DEFINE js == Append(items, item)
           k == Len(items) + 1
<1>1. items \in Seq(Conversions) /\ IsSeq(Printed(items)) /\ R!Given(feed, 5) = R!FeedOf(items)
  BY DEF Converted
<1>2. js \in Seq(Conversions) /\ Len(js) = k /\ js[k] = item
  BY <1>1, Added
<1>3. R!Given(new, 5) = R!FeedOf(js)
  BY <1>1, FeedLast
<1>4. Printed(js) = Printed(items) \o R!LinesOf(js, k)
  BY <1>1, PrintedOneMore
<1>5. IsSeq(Printed(js))
  <2>1. js[k].kind \in {"text", "image", "barcode"}
    BY <1>2, ConversionKinds
  <2> HIDE DEF js, k
  <2>2. IsSeq(R!LinesOf(js, k))
    BY <2>1, LinesAreSequences
  <2> QED  BY <1>1, <1>4, <2>2, SeqJoin
<1>6. PICK m, u, b : Reaches(commands, Fresh, <<>>,
                             Memory(m, u, R!AlignAt(items, k), R!SpacingAt(items, k), b), Printed(items))
  BY DEF Converted
<1>7. PICK m1, u1, b1 :
        Reaches(more, Memory(m, u, R!AlignAt(items, k), R!SpacingAt(items, k), b), Printed(items),
                Memory(m1, u1, R!AlignAt(js, k + 1), R!SpacingAt(js, k + 1), b1),
                Printed(items) \o R!LinesOf(js, k))
  OBVIOUS
<1> HIDE DEF js, k
<1>8. Reaches(commands \o more, Fresh, <<>>,
              Memory(m1, u1, R!AlignAt(js, k + 1), R!SpacingAt(js, k + 1), b1), Printed(js))
  BY <1>4, <1>6, <1>7, ReachesThen
<1>9. Converted(commands \o more, js, new)
  BY <1>2, <1>3, <1>5, <1>8 DEF Converted
<1> QED  BY <1>9 DEF js

LEMMA TextConverted ==
    ASSUME NEW commands, NEW items, NEW feed, Converted(commands, items, feed),
           NEW item \in Items, item.kind = "text", printMode \in SUBSET ModeBits
    PROVE  Converted(commands \o PrintText(item), Append(items, item), item.feed)
<1> DEFINE js == Append(items, item)
           k == Len(items) + 1
           look == R!LookOf(item)
           ms == PrintModes(printMode, TextChanges(item))
<1>0. item \in Conversions
  BY ConvertedText
<1>1. items \in Seq(Conversions) /\ IsSeq(Printed(items))
  BY DEF Converted
<1>2. R!AlignAt(js, k + 1) = look.align /\ R!SpacingAt(js, k + 1) = look.spacing
  BY <1>0, <1>1, PlacedLast
<1>3. R!LinesOf(js, k) = <<[kind |-> "text", text |-> item.text, look |-> look]>>
  <2>1. js[k] = item
    BY <1>0, <1>1, Added
  <2> HIDE DEF js, k
  <2> QED  BY <2>1 DEF R!LinesOf
<1>4. ASSUME NEW m, NEW u, NEW b
      PROVE  LET p == Memory(m, u, R!AlignAt(items, k), R!SpacingAt(items, k), b)
             IN  \E m1, u1, b1 :
                   Reaches(PrintText(item), p, Printed(items),
                           Memory(m1, u1, R!AlignAt(js, k + 1), R!SpacingAt(js, k + 1), b1),
                           Printed(items) \o R!LinesOf(js, k))
  <2> DEFINE p == Memory(m, u, R!AlignAt(items, k), R!SpacingAt(items, k), b)
  <2>1. Reaches(PrintText(item), p, Printed(items),
                Memory(ms[4], look.underline, look.align, look.spacing, b),
                Printed(items) \o <<[kind |-> "text", text |-> item.text, look |-> look]>>)
    BY <1>1, TextReaches
  <2> HIDE DEF p, js, k, look, ms
  <2>2. Reaches(PrintText(item), p, Printed(items),
                Memory(ms[4], look.underline, R!AlignAt(js, k + 1), R!SpacingAt(js, k + 1), b),
                Printed(items) \o R!LinesOf(js, k))
    BY <1>2, <1>3, <2>1
  <2> QED  BY <2>2 DEF p
<1> HIDE DEF look, ms
<1> QED  BY <1>0, <1>4, OneMoreConverted

LEMMA ImageConverted ==
    ASSUME NEW commands, NEW items, NEW feed, Converted(commands, items, feed),
           NEW item \in Conversions, item.kind = "image", Fitting
    PROVE  Converted(commands \o PrintImage(item), Append(items, item), feed)
<1> DEFINE js == Append(items, item)
           k == Len(items) + 1
           al == R!Given(item.align, "center")
           out == <<R!ImageOf(item)>> \o R!Blanks(1, R!DefaultSpacing)
<1>1. items \in Seq(Conversions) /\ IsSeq(Printed(items))
  BY DEF Converted
<1>2. R!AlignAt(js, k + 1) = al /\ R!SpacingAt(js, k + 1) = R!DefaultSpacing
  BY <1>1, PlacedLast
<1>3. R!LinesOf(js, k) = out
  <2>1. js[k] = item
    BY <1>1, Added
  <2> HIDE DEF js, k
  <2> QED  BY <2>1 DEF R!LinesOf
<1>4. ASSUME NEW m, NEW u, NEW b
      PROVE  LET p == Memory(m, u, R!AlignAt(items, k), R!SpacingAt(items, k), b)
             IN  \E m1, u1, b1 :
                   Reaches(PrintImage(item), p, Printed(items),
                           Memory(m1, u1, R!AlignAt(js, k + 1), R!SpacingAt(js, k + 1), b1),
                           Printed(items) \o R!LinesOf(js, k))
  <2> DEFINE p == Memory(m, u, R!AlignAt(items, k), R!SpacingAt(items, k), b)
  <2>1. Reaches(PrintImage(item), p, Printed(items),
                Memory(m, u, al, R!DefaultSpacing, b), Printed(items) \o out)
    BY <1>1, ImageReaches
  <2> HIDE DEF p, js, k, al, out
  <2>2. Reaches(PrintImage(item), p, Printed(items),
                Memory(m, u, R!AlignAt(js, k + 1), R!SpacingAt(js, k + 1), b),
                Printed(items) \o R!LinesOf(js, k))
    BY <1>2, <1>3, <2>1
  <2> QED  BY <2>2 DEF p
<1> HIDE DEF al, out
<1>5. item.kind # "text"
  OBVIOUS
<1> QED  BY <1>4, <1>5, OneMoreConverted

LEMMA BarcodeConverted ==
    ASSUME NEW commands, NEW items, NEW feed, Converted(commands, items, feed),
           NEW item \in Items, item.kind = "barcode"
    PROVE  Converted(commands \o PrintBarcode(item), Append(items, item), feed)
<1> DEFINE js == Append(items, item)
           k == Len(items) + 1
           al == R!AlignAt(items, k)
           sp == R!SpacingAt(items, k)
           out == R!Blanks(1, sp) \o <<R!BarcodeOf(item, al)>>
<1>0. item \in Conversions
  BY ConvertedText
<1>1. items \in Seq(Conversions) /\ IsSeq(Printed(items))
  BY DEF Converted
<1>2. R!AlignAt(js, k + 1) = al /\ R!SpacingAt(js, k + 1) = sp
  BY <1>0, <1>1, PlacedLast
<1>3. R!LinesOf(js, k) = out
  <2>1. js[k] = item
    BY <1>0, <1>1, Added
  <2>2. R!AlignAt(js, k) = al /\ R!SpacingAt(js, k) = sp
    <3>1. k \in 1..Len(items) + 1
      BY <1>1
    <3> QED  BY <1>0, <1>1, <3>1, PlacedBefore
  <2> HIDE DEF js, k, al, sp
  <2> QED  BY <2>1, <2>2 DEF R!LinesOf
<1>4. ASSUME NEW m, NEW u, NEW b
      PROVE  \E m1, u1, b1 :
                   Reaches(PrintBarcode(item), Memory(m, u, al, sp, b), Printed(items),
                           Memory(m1, u1, R!AlignAt(js, k + 1), R!SpacingAt(js, k + 1), b1),
                           Printed(items) \o R!LinesOf(js, k))
  <2> HIDE DEF js, k, al, sp
  <2>1. PICK h : Reaches(PrintBarcode(item), Memory(m, u, al, sp, b), Printed(items),
                         Memory(m, u, al, sp, h), Printed(items) \o out)
    BY <1>1, BarcodeReaches
  <2> HIDE DEF out
  <2>2. Reaches(PrintBarcode(item), Memory(m, u, al, sp, b), Printed(items),
                Memory(m, u, R!AlignAt(js, k + 1), R!SpacingAt(js, k + 1), h),
                Printed(items) \o R!LinesOf(js, k))
    BY <1>2, <1>3, <2>1
  <2> QED  BY <2>2
<1> HIDE DEF out
<1>5. item.kind # "text"
  OBVIOUS
<1> QED  BY <1>0, <1>4, <1>5, OneMoreConverted

\* The whole job: the items and the feed before the cut.
LEMMA JobConverted ==
    ASSUME NEW commands, NEW items, NEW feed, Converted(commands, items, feed)
    PROVE  \E p1 : Reaches(commands \o Feed(R!Given(feed, 5)), Fresh, <<>>, p1, R!ReceiptOf(items))
<1> DEFINE k == Len(items) + 1
           al == R!AlignAt(items, k)
           sp == R!SpacingAt(items, k)
           n == R!Given(feed, 5)
<1>1. IsSeq(Printed(items)) /\ n = R!FeedOf(items)
  BY DEF Converted
<1>2. PICK m, u, b : Reaches(commands, Fresh, <<>>, Memory(m, u, al, sp, b), Printed(items))
  BY DEF Converted
<1>3. R!ReceiptOf(items) = Printed(items) \o R!Blanks(n, sp)
  BY <1>1 DEF R!ReceiptOf, Printed
<1> HIDE DEF al, sp, n
<1>4. Reaches(Feed(n), Memory(m, u, al, sp, b), Printed(items), Memory(m, u, al, sp, b),
              Printed(items) \o R!Blanks(n, sp))
  BY <1>1, FeedReaches
<1>5. Reaches(commands \o Feed(n), Fresh, <<>>, Memory(m, u, al, sp, b), R!ReceiptOf(items))
  BY <1>2, <1>3, <1>4, ReachesThen
<1> QED  BY <1>5 DEF n

-----------------------------------------------------------------------------
(* The images.                                                               *)

BuffInv == buff \subseteq {image \in Images : image.size \in Nat}

\* buff holds bytes of images, and of the items converted every image that is whole
\* shows itself.
ImageInv ==
    /\ BuffInv
    /\ stage = "filling" => /\ filled \in Seq(Conversions)
                            /\ \A k \in 1..Len(filled) : R!ShowsItself(filled[k])

LEMMA RoomIsNatural == R!Room \in Nat
  BY DEF R!Room

LEMMA DecodedBuff ==
    ASSUME NEW item \in Items, item.kind = "image", BuffInv
    PROVE  Decode(item.image) \subseteq {image \in Images : image.size \in Nat}
<1>1. item.image \in Images
  BY DEF Images
<1>2. \A n : n \in 0..R!Room => n \in Nat
  BY RoomIsNatural
<1>3. item.image.size \in 0..R!Room => item.image.size \in Nat
  BY <1>2, Zenon
<1>4. CASE item.image.size \in 0..R!Room
  <2>1. Decode(item.image) = {item.image} \cup {old \in buff : old.size > item.image.size}
    BY <1>4, Zenon DEF Decode
  <2> QED  BY <1>1, <1>3, <1>4, <2>1 DEF BuffInv
<1>5. CASE item.image.size \notin 0..R!Room
  <2>1. Decode(item.image) = buff
    BY <1>5, Zenon DEF Decode
  <2> QED  BY <2>1 DEF BuffInv
<1> QED  BY <1>4, <1>5

\* A whole image is decoded over the beginning of buff, and covers what is printed.
LEMMA WholeShowsItself ==
    ASSUME NEW item \in Items, item.kind = "image", BuffInv, Fitting
    PROVE  R!ShowsItself(AsShown(item, Showing(Decode(item.image), R!BytesOf(item))))
<1> DEFINE bytes == R!BytesOf(item)
           images == Decode(item.image)
           x == AsShown(item, Showing(images, bytes))
<1>1. R!BytesOf(x) = bytes /\ x.image = item.image /\ x.shown = Showing(images, bytes)
  BY DEF AsShown, R!BytesOf
<1> HIDE DEF x, images
<1> SUFFICES ASSUME item.image.size \in bytes..R!Room
             PROVE  Showing(images, bytes) = {item.image}
  BY <1>1 DEF R!ShowsItself, R!Whole, x, images
<1>2. bytes \in Nat
  <2> DEFINE w == R!Given(item.width, 248) \div 8
             h == R!Given(item.height, 248)
  <2>1. w \in Nat /\ h \in Nat
    BY DEF Fitting
  <2> HIDE DEF w, h
  <2>2. w * h \in Nat
    BY <2>1
  <2> QED  BY <2>2 DEF R!BytesOf, w, h
<1> HIDE DEF bytes
<1> DEFINE size == item.image.size
<1>3. size \in 0..R!Room /\ size \in Nat /\ bytes <= size
  <2>1. size \in bytes..R!Room
    OBVIOUS
  <2> HIDE DEF size
  <2> QED  BY <1>2, <2>1, RoomIsNatural
<1>4. images = {item.image} \cup {old \in buff : old.size > size}
  BY <1>3, Zenon DEF Decode, images
<1>5. \A i \in images : i # item.image => i.size \in Nat /\ size < i.size
  <2> HIDE DEF size
  <2> SUFFICES ASSUME NEW i \in images, i # item.image PROVE i.size \in Nat /\ size < i.size
    OBVIOUS
  <2>1. i \in buff /\ i.size > size
    BY <1>4
  <2> QED  BY <1>3, <2>1 DEF BuffInv
<1>6. item.image \in images
  BY <1>4
<1> HIDE DEF images
<1>7. \A i \in Showing(images, bytes) : i = item.image
  <2> SUFFICES ASSUME NEW i \in images, i # item.image,
                      \A over \in images : over.size < i.size => over.size < bytes
               PROVE  FALSE
    BY DEF Showing
  <2>1. item.image.size < i.size
    BY <1>5
  <2>2. size < bytes
    BY <1>6, <2>1
  <2> HIDE DEF size
  <2> QED  BY <1>2, <1>3, <2>2
<1>8. \A over \in images : ~ (over.size < item.image.size)
  <2> SUFFICES ASSUME NEW over \in images, over.size < size PROVE FALSE
    OBVIOUS
  <2>1. CASE over = item.image
    <3>1. size < size
      BY <2>1
    <3> HIDE DEF size
    <3> QED  BY <1>3, <3>1
  <2>2. CASE over # item.image
    <3>1. over.size \in Nat /\ size < over.size
      BY <1>5, <2>2
    <3> HIDE DEF size
    <3> QED  BY <1>3, <3>1
  <2> QED  BY <2>1, <2>2
<1>9. item.image \in Showing(images, bytes)
  BY <1>6, <1>8 DEF Showing
<1> QED  BY <1>7, <1>9

\* What is converted is an item as converted, and a whole image shows itself.
LEMMA ItemConverted ==
    ASSUME NEW item \in Items, FillText(item) \/ FillImage(item) \/ FillBarcode(item),
           BuffInv, Fitting
    PROVE  /\ BuffInv'
           /\ \E x \in Conversions :
                 /\ FillItem(x) /\ R!ShowsItself(x)
                 /\ \/ x = item /\ (FillText(item) \/ FillBarcode(item))
                    \/ /\ x.kind = "image" /\ buffer' = buffer \o PrintImage(x)
                       /\ UNCHANGED <<printMode, feedOf>>
<1>1. CASE FillText(item) \/ FillBarcode(item)
  <2>1. item.kind # "image" /\ FillItem(item) /\ buff' = buff
    BY <1>1 DEF FillText, FillBarcode
  <2>2. item \in Conversions /\ R!ShowsItself(item)
    BY <2>1, ConvertedText DEF R!ShowsItself
  <2> QED  BY <1>1, <2>1, <2>2 DEF BuffInv
<1>2. CASE FillImage(item)
  <2> DEFINE shown == Showing(buff', R!BytesOf(item))
             x == AsShown(item, shown)
  <2>1. /\ item.kind = "image" /\ buff' = Decode(item.image)
        /\ FillItem(x) /\ buffer' = buffer \o PrintImage(x)
        /\ UNCHANGED <<printMode, feedOf>>
    BY <1>2 DEF FillImage
  <2>2. BuffInv'
    BY <2>1, DecodedBuff DEF BuffInv
  <2>3. shown \in SUBSET Images
    BY <2>2 DEF BuffInv, Showing
  <2>4. R!ShowsItself(x)
    BY <2>1, WholeShowsItself
  <2> HIDE DEF shown
  <2>5. x \in Conversions /\ x.kind = "image"
    BY <2>1, <2>3, ConvertedImage
  <2> HIDE DEF x
  <2> QED  BY <2>1, <2>2, <2>4, <2>5
<1> QED  BY <1>1, <1>2

LEMMA ImageInit == EscPosInit => ImageInv
<1>1. Zeros \in Images /\ Zeros.size \in Nat
  BY DEF Zeros, Images
<1> QED  BY <1>1 DEF EscPosInit, ImageInv, BuffInv

LEMMA ImageNext ==
    ASSUME Fitting, ImageInv, [EscPosNext]_escPosVars
    PROVE  ImageInv'
<1> USE DEF gateway, device
<1>1. ASSUME UNCHANGED <<filled, buff>>, stage' = "filling" => stage = "filling"
      PROVE  ImageInv'
  BY <1>1 DEF ImageInv, BuffInv
<1>2. CASE Begin
  BY <1>2 DEF Begin, ImageInv, BuffInv
<1>3. ASSUME NEW item \in Items, FillText(item) \/ FillImage(item) \/ FillBarcode(item)
      PROVE  ImageInv'
  <2>1. BuffInv
    BY DEF ImageInv
  <2>2. BuffInv' /\ \E x \in Conversions : FillItem(x) /\ R!ShowsItself(x)
    BY <1>3, <2>1, ItemConverted
  <2>3. PICK x \in Conversions : FillItem(x) /\ R!ShowsItself(x)
    BY <2>2
  <2>4. stage = "filling" /\ filled' = Append(filled, x)
    BY <2>3 DEF FillItem
  <2>5. filled \in Seq(Conversions) /\ \A k \in 1..Len(filled) : R!ShowsItself(filled[k])
    BY <2>4 DEF ImageInv
  <2>6. /\ filled' \in Seq(Conversions) /\ Len(filled') = Len(filled) + 1
        /\ Len(filled) \in Nat
        /\ \A k \in 1..Len(filled) : filled'[k] = filled[k]
        /\ filled'[Len(filled) + 1] = x
    BY <2>4, <2>5, Added
  <2>7. ASSUME NEW k \in 1..Len(filled') PROVE R!ShowsItself(filled'[k])
    <3>1. k \in 1..Len(filled) \/ k = Len(filled) + 1
      BY <2>6
    <3>2. CASE k \in 1..Len(filled)
      <4>1. filled'[k] = filled[k] /\ R!ShowsItself(filled[k])
        BY <2>5, <2>6, <3>2
      <4> QED  BY <4>1
    <3>3. CASE k = Len(filled) + 1
      <4>1. filled'[k] = x
        BY <2>6, <3>3
      <4> QED  BY <2>3, <4>1
    <3> QED  BY <3>1, <3>2, <3>3
  <2> QED  BY <2>2, <2>6, <2>7 DEF ImageInv
<1>4. ASSUME Done, stage' = "idle" PROVE ImageInv'
  BY <1>4 DEF Done, ImageInv, BuffInv
<1>5. CASE Poll \/ AskToPrint \/ NotReady \/ Submit
  BY <1>1, <1>5 DEF Poll, AskToPrint, NotReady, Submit
<1>6. CASE SubmitFails \/ JobReturns \/ GiveUp
  BY <1>4, <1>6 DEF SubmitFails, JobReturns, GiveUp, Done
<1>7. CASE Execute \/ Cut \/ Garbage \/ PowerCycle
  BY <1>1, <1>7 DEF Execute, Cut, Executed, Garbage, PowerCycle
<1>8. CASE UNCHANGED escPosVars
  BY <1>1, <1>8 DEF escPosVars
<1> QED  BY <1>2, <1>3, <1>5, <1>6, <1>7, <1>8 DEF EscPosNext

-----------------------------------------------------------------------------
(* The invariant and its steps.                                              *)

\* Before a job begins and while it is converted, the printer will be fresh when
\* it gets to the end of the wire; a job that was sent ends with its cut.
WireReady ==
    /\ stage \in {"asked", "filling"} =>
         IF wire = <<>> THEN printer = Fresh /\ paper = <<>> ELSE wire[Len(wire)].op = "reset"
    /\ stage = "submitted" /\ wire # <<>> => wire[Len(wire)].op = "cut"

OnTheWire == \E p1, q1 : WireEnds(wire, jobs, printer, paper, p1, q1)

PaperInv ==
    /\ stage \in {"idle", "asked", "filling", "submitted"}
    /\ printMode \in SUBSET ModeBits
    /\ jobs \in Seq(Seq(Conversions))
    /\ stage = "filling" => Converted(buffer, filled, feedOf)
    /\ OnTheWire
    /\ WireReady

LEMMA PaperInit == EscPosInit => PaperInv
<1> SUFFICES ASSUME EscPosInit PROVE PaperInv
  OBVIOUS
<1>1. /\ stage = "idle" /\ printMode = {} /\ wire = <<>> /\ jobs = <<>>
      /\ printer = Fresh /\ paper = <<>>
  BY DEF EscPosInit
<1>2. jobs \in Seq(Seq(Conversions)) /\ printMode \in SUBSET ModeBits
  BY <1>1
<1>3. OnTheWire
  BY <1>1, WireNone DEF OnTheWire
<1> QED  BY <1>1, <1>2, <1>3 DEF PaperInv, WireReady

LEMMA EndOfJoin ==
    ASSUME NEW w, NEW c, IsSeq(w)
    PROVE  LET x == w \o <<c>>
           IN  IsSeq(x) /\ x # <<>> /\ x[Len(x)] = c
<1> DEFINE x == w \o <<c>>
<1>1. IsSeq(<<c>>) /\ Len(<<c>>) = 1 /\ <<c>>[1] = c
  BY SeqOne
<1>2. /\ IsSeq(x) /\ Len(w) \in Nat /\ Len(x) = Len(w) + 1
      /\ x[Len(w) + 1] = c
  BY <1>1, SeqJoin
<1> HIDE DEF x
<1>3. x # <<>>
  BY <1>2
<1> QED  BY <1>2, <1>3 DEF x

\* The question is put behind what is on the wire.
LEMMA AskStep ==
    ASSUME PaperInv, AskStatus, UNCHANGED <<printer, paper, jobs>>
    PROVE  OnTheWire' /\ wire' # <<>> /\ wire'[Len(wire')].op = "reset"
<1>1. PICK p1, q1 : WireEnds(wire, jobs, printer, paper, p1, q1)
  BY DEF PaperInv, OnTheWire
<1>2. IsSeq(wire) /\ jobs \in Seq(Seq(Conversions))
  BY <1>1 DEF WireEnds, PaperInv
<1>3. CASE wire # <<>> /\ wire[Len(wire)].op = "reset"
  <2>1. wire' = wire
    BY <1>3 DEF AskStatus, Last
  <2>2. OnTheWire'
    BY <1>1, <2>1 DEF OnTheWire
  <2> QED  BY <1>3, <2>1, <2>2
<1>4. CASE ~(wire # <<>> /\ wire[Len(wire)].op = "reset")
  <2> DEFINE c == Cmd("reset", TRUE)
             v == <<c>>
  <2>1. wire' = wire \o v
    BY <1>4 DEF AskStatus, Last, Code, Cmd
  <2>2. c.op = "reset"
    BY DEF Cmd
  <2> HIDE DEF c
  <2>3. v[1].op = "reset"
    BY <2>2
  <2>4. Reaches(v, p1, q1, Latch(p1, c), Prints(p1, q1, c))
    BY <2>2, ReachesOne
  <2>5. wire' # <<>> /\ wire'[Len(wire')] = c
    BY <1>2, <2>1, EndOfJoin
  <2> HIDE DEF v
  <2>6. WireEnds(wire \o v, jobs, printer, paper, Latch(p1, c), Prints(p1, q1, c))
    BY <1>1, <1>2, <2>3, <2>4, WireThen
  <2>7. OnTheWire'
    BY <2>1, <2>6 DEF OnTheWire
  <2> QED  BY <2>2, <2>5, <2>7
<1> QED  BY <1>3, <1>4

\* The job is sent.
LEMMA SubmitStep ==
    ASSUME PaperInv, Submit
    PROVE  OnTheWire' /\ wire' # <<>> /\ wire'[Len(wire')].op = "cut"
<1>1. PICK p1, q1 : WireEnds(wire, jobs, printer, paper, p1, q1)
  BY DEF PaperInv, OnTheWire
<1>2. IsSeq(wire) /\ jobs \in Seq(Seq(Conversions))
  BY <1>1 DEF WireEnds, PaperInv
<1>3. Converted(buffer, filled, feedOf) /\ filled \in Seq(Conversions)
  BY DEF PaperInv, Submit, Converted
<1> DEFINE feed == Feed(R!Given(feedOf, 5))
           v == buffer \o feed
           c == Cmd("cut", "whole")
<1>4. PICK p2 : Reaches(v, Fresh, <<>>, p2, R!ReceiptOf(filled))
  BY <1>3, JobConverted
<1>5. /\ wire' = wire \o (buffer \o (feed \o <<c>>))
      /\ jobs' = Append(jobs, filled) /\ printer' = printer /\ paper' = paper
  BY DEF Submit, FeedAndCut, Code, Cmd, device
<1>6. IsSeq(buffer) /\ IsSeq(feed) /\ IsSeq(<<c>>) /\ IsSeq(v)
  <2>1. IsSeq(buffer)
    BY <1>3 DEF Converted, Reaches
  <2>2. IsSeq(feed)
    BY SeqOne, SeqNone DEF Feed, Code
  <2>3. IsSeq(v)
    <3> HIDE DEF feed
    <3> QED  BY <2>1, <2>2, SeqJoin
  <2> QED  BY <2>1, <2>2, <2>3, SeqOne
<1>7. c.op = "cut"
  BY DEF Cmd
<1> HIDE DEF feed, c
<1>8. buffer \o (feed \o <<c>>) = v \o <<c>>
  <2> DEFINE d == <<c>>
  <2>1. IsSeq(d)
    BY <1>6
  <2> HIDE DEF d
  <2>2. (buffer \o feed) \o d = buffer \o (feed \o d)
    BY <1>6, <2>1, SeqJoin
  <2> QED  BY <2>2 DEF d
<1> HIDE DEF v
<1>9. wire' = (wire \o v) \o <<c>> /\ IsSeq(wire \o v)
  <2> DEFINE d == <<c>>
  <2>1. IsSeq(d) /\ wire' = wire \o (v \o d)
    BY <1>5, <1>6, <1>8
  <2> HIDE DEF d
  <2>2. (wire \o v) \o d = wire \o (v \o d) /\ IsSeq(wire \o v)
    BY <1>2, <1>6, <2>1, SeqJoin
  <2> QED  BY <2>1, <2>2 DEF d
<1>10. /\ p1 = Fresh /\ q1 = <<>>
       /\ wire = <<>> \/ wire[Len(wire)].op = "reset"
  <2>1. IF wire = <<>> THEN printer = Fresh /\ paper = <<>> ELSE wire[Len(wire)].op = "reset"
    BY DEF PaperInv, WireReady, Submit
  <2>2. CASE wire = <<>>
    <3>1. \E P, Q : RunOf(wire, P, Q, printer, paper, p1, q1)
      BY <1>1 DEF WireEnds
    <3>2. Len(wire) = 0
      BY <2>2
    <3>3. p1 = printer /\ q1 = paper
      BY <3>1, <3>2 DEF RunOf
    <3> QED  BY <2>1, <2>2, <3>3
  <2>3. CASE wire # <<>>
    <3>1. wire[Len(wire)].op = "reset"
      BY <2>1, <2>3
    <3> QED  BY <1>1, <2>3, <3>1, EndsFresh
  <2> QED  BY <2>2, <2>3
<1>11. wire = <<>> \/ wire[Len(wire)].op # "cut"
  BY <1>10
<1>12. WireEnds(wire \o v, jobs, printer, paper, p2, R!ReceiptOf(filled))
  BY <1>1, <1>2, <1>4, <1>10, <1>11, WireThen
<1>13. wire \o v = <<>> \/ (wire \o v)[Len(wire \o v)].op # "cut"
  <2> DEFINE x == wire \o v
             n == Len(wire)
             m == Len(v)
  <2>1. /\ IsSeq(x) /\ n \in Nat /\ m \in Nat /\ Len(x) = n + m
        /\ \A i \in 1..n : x[i] = wire[i]
        /\ \A i \in 1..m : x[n + i] = v[i]
    <3>1. Len(v) \in Nat
      BY <1>6 DEF IsSeq
    <3> QED  BY <1>2, <1>6, <3>1, SeqJoin
  <2>2. \A i \in 1..m : v[i].op # "cut"
    BY <1>4 DEF Reaches
  <2>3. n # 0 => wire # <<>> /\ wire[n].op # "cut"
    BY <1>11, <2>1
  <2> HIDE DEF x, n, m
  <2>4. CASE m # 0
    <3>1. m \in 1..m
      BY <2>1, <2>4
    <3> QED  BY <2>1, <2>2, <3>1 DEF x
  <2>5. CASE m = 0 /\ n # 0
    <3>1. n \in 1..n /\ Len(x) = n
      BY <2>1, <2>5
    <3> QED  BY <2>1, <2>3, <2>5, <3>1 DEF x
  <2>6. CASE m = 0 /\ n = 0
    <3>1. x = <<>>
      BY <2>1, <2>6 DEF IsSeq
    <3> QED  BY <3>1 DEF x
  <2> QED  BY <2>4, <2>5, <2>6
<1> DEFINE y == wire \o v
<1>14. WireEnds(y \o <<c>>, Append(jobs, filled), printer, paper, p2, <<>>)
  <2>1. /\ WireEnds(y, jobs, printer, paper, p2, R!ReceiptOf(filled))
        /\ y = <<>> \/ y[Len(y)].op # "cut"
    BY <1>12, <1>13
  <2> HIDE DEF y
  <2> QED  BY <1>2, <1>3, <1>7, <2>1, WireCut
<1>15. IsSeq(y) /\ wire' = y \o <<c>>
  BY <1>9
<1> HIDE DEF y
<1>16. OnTheWire'
  BY <1>5, <1>14, <1>15 DEF OnTheWire
<1>17. wire' # <<>> /\ wire'[Len(wire')] = c
  BY <1>15, EndOfJoin
<1> QED  BY <1>7, <1>16, <1>17

LEMMA LaterEnds ==
    ASSUME NEW v, NEW w, NEW n, IsSeq(w), Later(v, w, n)
    PROVE  /\ v = <<>> => n = Len(w)
           /\ v # <<>> => v[Len(v)] = w[Len(w)]
<1>1. IsSeq(v) /\ n \in Nat /\ Len(v) \in Nat /\ Len(w) \in Nat /\ Len(w) = n + Len(v)
  BY DEF Later, IsSeq
<1>2. CASE v = <<>>
  BY <1>1, <1>2
<1>3. CASE v # <<>>
  <2> DEFINE m == Len(v)
  <2>1. m \in 1..m
    BY <1>1, <1>3 DEF IsSeq
  <2>2. v[m] = w[n + m]
    BY <2>1 DEF Later
  <2> QED  BY <1>1, <1>3, <2>2
<1> QED  BY <1>2, <1>3

\* What is left of the wire ends as the wire does.
LEMMA LaterReady ==
    ASSUME PaperInv, wire # <<>>, NEW n, Later(wire', wire, n), stage' = stage,
           wire' = <<>> /\ wire[n].op = "reset" => printer' = Fresh /\ paper' = <<>>
    PROVE  WireReady'
<1>1. IsSeq(wire)
  BY DEF PaperInv, OnTheWire, WireEnds
<1>2. /\ wire' = <<>> => n = Len(wire)
      /\ wire' # <<>> => wire'[Len(wire')] = wire[Len(wire)]
  BY <1>1, LaterEnds
<1>3. stage \in {"asked", "filling"} => wire[Len(wire)].op = "reset"
  BY DEF PaperInv, WireReady
<1>4. stage = "submitted" => wire[Len(wire)].op = "cut"
  BY DEF PaperInv, WireReady
<1>5. ASSUME stage' \in {"asked", "filling"}
      PROVE  IF wire' = <<>> THEN printer' = Fresh /\ paper' = <<>> ELSE wire'[Len(wire')].op = "reset"
  BY <1>2, <1>3, <1>5
<1>6. ASSUME stage' = "submitted", wire' # <<>> PROVE wire'[Len(wire')].op = "cut"
  BY <1>2, <1>4, <1>6
<1> QED  BY <1>5, <1>6 DEF WireReady

LEMMA ExecuteStep ==
    ASSUME PaperInv, Execute
    PROVE  OnTheWire' /\ WireReady'
<1>1. PICK p1, q1 : WireEnds(wire, jobs, printer, paper, p1, q1)
  BY DEF PaperInv, OnTheWire
<1> DEFINE c == Head(wire)
<1>2. /\ wire # <<>> /\ wire' = Tail(wire) /\ c.op # "cut"
      /\ printer' = Latch(printer, c) /\ jobs' = jobs /\ stage' = stage
      /\ paper' = IF c.op = "reset" THEN <<>> ELSE paper \o Output(printer, c)
  BY DEF Execute, Executed, gateway
<1>3. paper' = Prints(printer, paper, c)
  BY <1>2 DEF Prints
<1>4. OnTheWire'
  <2>1. jobs \in Seq(Seq(Conversions))
    BY DEF PaperInv
  <2>2. WireEnds(Tail(wire), jobs, Latch(printer, c), Prints(printer, paper, c), p1, q1)
    BY <1>1, <1>2, <2>1, WireExecute
  <2> HIDE DEF c
  <2> QED  BY <1>2, <1>3, <2>2 DEF OnTheWire
<1>5. IsSeq(wire)
  BY <1>1 DEF WireEnds
<1>6. Later(wire', wire, 1) /\ c = wire[1]
  BY <1>2, <1>5, TailIsLater
<1> HIDE DEF c
<1>7. c.op = "reset" => printer' = Fresh /\ paper' = <<>>
  BY <1>2 DEF Latch
<1>8. WireReady'
  BY <1>2, <1>6, <1>7, LaterReady
<1> QED  BY <1>4, <1>8

LEMMA CutStep ==
    ASSUME PaperInv, Cut
    PROVE  /\ OnTheWire' /\ WireReady'
           /\ jobs # <<>> /\ jobs' = Tail(jobs) /\ receipt' = R!ReceiptOf(Head(jobs))
<1>1. PICK p1, q1 : WireEnds(wire, jobs, printer, paper, p1, q1)
  BY DEF PaperInv, OnTheWire
<1> DEFINE c == Head(wire)
<1>2. /\ wire # <<>> /\ wire' = Tail(wire) /\ c.op = "cut"
      /\ printer' = printer /\ jobs' = Tail(jobs) /\ stage' = stage
      /\ receipt' = paper /\ paper' = <<>>
  BY DEF Cut, Executed, gateway
<1>3. jobs \in Seq(Seq(Conversions)) /\ IsSeq(wire)
  BY <1>1 DEF PaperInv, WireEnds
<1>4. /\ jobs # <<>> /\ paper = R!ReceiptOf(Head(jobs))
      /\ WireEnds(Tail(wire), Tail(jobs), printer, <<>>, p1, q1)
  BY <1>1, <1>2, <1>3, WireCutOff
<1>5. OnTheWire'
  BY <1>2, <1>4 DEF OnTheWire
<1>6. Later(wire', wire, 1) /\ c = wire[1]
  BY <1>2, <1>3, TailIsLater
<1> HIDE DEF c
<1>7. c.op # "reset"
  BY <1>2
<1>8. WireReady'
  BY <1>2, <1>6, <1>7, LaterReady
<1> QED  BY <1>2, <1>4, <1>5, <1>8

LEMMA GarbageStep ==
    ASSUME PaperInv, Garbage
    PROVE  OnTheWire' /\ WireReady' /\ jobs # <<>>
<1>1. PICK p1, q1 : WireEnds(wire, jobs, printer, paper, p1, q1)
  BY DEF PaperInv, OnTheWire
<1>2. PICK n \in 1..Len(wire) :
        /\ wire[n].op = "cut"
        /\ \A m \in 1..(n - 1) : wire[m].op # "cut"
        /\ wire' = SubSeq(wire, n + 1, Len(wire))
        /\ jobs' = Tail(jobs) /\ paper' = <<>> /\ stage' = stage
  BY DEF Garbage, gateway
<1>3. jobs \in Seq(Seq(Conversions)) /\ IsSeq(wire)
  BY <1>1 DEF PaperInv, WireEnds
<1>4. /\ jobs # <<>> /\ Later(wire', wire, n)
      /\ \E p3, q3 : WireEnds(wire', Tail(jobs), printer', <<>>, p3, q3)
  BY <1>1, <1>2, <1>3, WireGarbage
<1>5. OnTheWire'
  BY <1>2, <1>4 DEF OnTheWire
<1>6. wire # <<>> /\ wire[n].op # "reset"
  <2>1. Len(wire) # 0
    BY <1>2, <1>3 DEF IsSeq
  <2> QED  BY <1>2, <2>1
<1>7. WireReady'
  BY <1>2, <1>4, <1>6, LaterReady
<1> QED  BY <1>4, <1>5, <1>7

LEMMA GiveUpStep ==
    ASSUME PaperInv, GiveUp
    PROVE  OnTheWire'
<1>1. PICK p1, q1 : WireEnds(wire, jobs, printer, paper, p1, q1)
  BY DEF PaperInv, OnTheWire
<1> DEFINE c == Cmd("cut", "freed")
           n == Len(wire)
           f == SubSeq(wire, 1, n - 1)
           v == f \o <<c>>
<1>2. /\ stage = "submitted" /\ wire # <<>> /\ wire' = v
      /\ jobs' = jobs /\ printer' = printer /\ paper' = paper
  BY DEF GiveUp, Front, Code, Cmd, device
<1>3. jobs \in Seq(Seq(Conversions)) /\ IsSeq(wire)
  BY <1>1 DEF PaperInv, WireEnds
<1>4. wire[n].op = "cut"
  BY <1>2 DEF PaperInv, WireReady
<1>5. PICK T : wire \in Seq(T)
  BY <1>3 DEF IsSeq
<1>6. n \in Nat /\ n # 0
  BY <1>2, <1>5
<1>7. IsSeq(f) /\ Len(f) = n - 1 /\ \A i \in 1..n - 1 : f[i] = wire[i]
  <2>1. f \in Seq(T) /\ Len(f) = n - 1 /\ \A i \in 1..n - 1 : f[i] = wire[i]
    <3> DEFINE k == n - 1
    <3>1. k \in Nat /\ k <= Len(wire) /\ \A i \in 1..k : i \in 1..Len(wire)
      BY <1>6
    <3> HIDE DEF k
    <3>2. /\ SubSeq(wire, 1, k) \in Seq(T) /\ Len(SubSeq(wire, 1, k)) = k
          /\ \A i \in 1..k : SubSeq(wire, 1, k)[i] = wire[i]
      BY <1>5, <3>1
    <3> QED  BY <3>2 DEF k
  <2> HIDE DEF f, n
  <2> QED  BY <2>1 DEF IsSeq
<1>8. IsSeq(v) /\ Len(v) = n /\ (\A i \in 1..n - 1 : v[i] = wire[i]) /\ v[n] = c
  <2> DEFINE d == <<c>>
  <2>1. IsSeq(d) /\ Len(d) = 1 /\ d[1] = c
    BY SeqOne
  <2> HIDE DEF c, d, f, n
  <2>2. /\ IsSeq(f \o d) /\ Len(f \o d) = Len(f) + 1
        /\ \A i \in 1..Len(f) : (f \o d)[i] = f[i]
        /\ (f \o d)[Len(f) + 1] = d[1]
    <3>1. /\ IsSeq(f \o d) /\ Len(f \o d) = Len(f) + Len(d)
          /\ \A i \in 1..Len(f) : (f \o d)[i] = f[i]
          /\ \A i \in 1..Len(d) : (f \o d)[Len(f) + i] = d[i]
      <4>1. IsSeq(f) /\ IsSeq(d)
        BY <1>7, <2>1
      <4> QED  BY <4>1, SeqJoin
    <3>2. 1 \in 1..Len(d)
      BY <2>1
    <3> QED  BY <2>1, <3>1, <3>2
  <2> DEFINE x == f \o d
  <2> HIDE DEF x
  <2>3. Len(f) + 1 = n
    BY <1>6, <1>7
  <2>4. IsSeq(x) /\ Len(x) = n /\ (\A i \in 1..n - 1 : x[i] = wire[i]) /\ x[n] = c
    BY <1>7, <2>1, <2>2, <2>3 DEF x
  <2> QED  BY <2>4 DEF x, d
<1>9. c.op = "cut"
  BY DEF Cmd
<1> HIDE DEF v, c
<1>10. WireEnds(v, jobs, printer, paper, p1, q1)
  BY <1>1, <1>2, <1>3, <1>4, <1>8, <1>9, WireFreed
<1> QED  BY <1>2, <1>10 DEF OnTheWire

LEMMA PaperStutters ==
    ASSUME PaperInv, UNCHANGED <<printMode, wire, printer, paper, jobs>>, stage' = "idle"
    PROVE  PaperInv'
<1>1. OnTheWire'
  BY DEF PaperInv, OnTheWire
<1> QED  BY <1>1 DEF PaperInv, WireReady

LEMMA PaperNext ==
    ASSUME Fitting, ImageInv, PaperInv, [EscPosNext]_escPosVars
    PROVE  PaperInv'
<1> USE DEF gateway, device
<1>1. CASE Poll
  <2>1. OnTheWire' /\ stage' = stage /\ stage = "idle" /\ printMode' = printMode /\ jobs' = jobs
    BY <1>1, AskStep DEF Poll
  <2> QED  BY <2>1 DEF PaperInv, WireReady
<1>2. CASE AskToPrint
  <2>1. /\ OnTheWire' /\ wire' # <<>> /\ wire'[Len(wire')].op = "reset"
        /\ stage' = "asked" /\ printMode' = printMode /\ jobs' = jobs
    BY <1>2, AskStep DEF AskToPrint
  <2> QED  BY <2>1 DEF PaperInv, WireReady
<1>3. CASE NotReady
  BY <1>3, PaperStutters DEF NotReady
<1>4. CASE Begin
  <2>1. Converted(buffer', filled', feedOf')
    BY <1>4, NothingConverted DEF Begin
  <2>2. OnTheWire'
    BY <1>4 DEF Begin, PaperInv, OnTheWire
  <2>3. WireReady'
    BY <1>4 DEF Begin, PaperInv, WireReady
  <2> QED  BY <1>4, <2>1, <2>2, <2>3 DEF Begin, PaperInv
<1>5. ASSUME NEW item \in Items, FillText(item) \/ FillImage(item) \/ FillBarcode(item)
      PROVE  PaperInv'
  <2>0. PICK x \in Conversions :
          /\ FillItem(x)
          /\ \/ x = item /\ (FillText(item) \/ FillBarcode(item))
             \/ /\ x.kind = "image" /\ buffer' = buffer \o PrintImage(x)
                /\ UNCHANGED <<printMode, feedOf>>
    BY <1>5, ItemConverted DEF ImageInv
  <2>1. /\ stage = "filling" /\ stage' = stage /\ filled' = Append(filled, x)
        /\ UNCHANGED <<wire, printer, paper, jobs>>
    BY <2>0 DEF FillItem
  <2>2. OnTheWire'
    BY <2>1 DEF PaperInv, OnTheWire
  <2>3. WireReady'
    BY <2>1 DEF PaperInv, WireReady
  <2>4. Converted(buffer, filled, feedOf) /\ printMode \in SUBSET ModeBits
    BY <2>1 DEF PaperInv
  <2>5. Converted(buffer', filled', feedOf') /\ printMode' \in SUBSET ModeBits
    <3>1. CASE x = item /\ FillText(item)
      <4> DEFINE ms == PrintModes(printMode, TextChanges(item))
      <4>1. /\ item.kind = "text" /\ buffer' = buffer \o PrintText(item) /\ feedOf' = item.feed
            /\ printMode' = ms[Len(ms)] /\ filled' = Append(filled, item)
        BY <2>1, <3>1 DEF FillText, Last
      <4>2. Len(ms) = 4 /\ ms[4] \subseteq ModeBits
        BY <2>4, <4>1, ModeOfText
      <4> HIDE DEF ms
      <4>3. Converted(buffer \o PrintText(item), Append(filled, item), item.feed)
        BY <2>4, <4>1, TextConverted
      <4> QED  BY <4>1, <4>2, <4>3
    <3>2. CASE x.kind = "image" /\ buffer' = buffer \o PrintImage(x) /\ UNCHANGED <<printMode, feedOf>>
      <4>1. Converted(buffer \o PrintImage(x), Append(filled, x), feedOf)
        BY <2>4, <3>2, ImageConverted
      <4> QED  BY <2>1, <2>4, <3>2, <4>1
    <3>3. CASE x = item /\ FillBarcode(item)
      <4>1. Converted(buffer \o PrintBarcode(item), Append(filled, item), feedOf)
        BY <2>4, <3>3, BarcodeConverted DEF FillBarcode
      <4> QED  BY <2>1, <2>4, <3>3, <4>1 DEF FillBarcode
    <3> QED  BY <2>0, <3>1, <3>2, <3>3
  <2> QED  BY <2>1, <2>2, <2>3, <2>5 DEF PaperInv
<1>6. CASE Submit
  <2>1. OnTheWire' /\ wire' # <<>> /\ wire'[Len(wire')].op = "cut"
    BY <1>6, SubmitStep
  <2>2. stage' = "submitted" /\ printMode' = printMode
    BY <1>6 DEF Submit
  <2>3. jobs' \in Seq(Seq(Conversions))
    BY <1>6 DEF Submit, PaperInv, Converted
  <2> QED  BY <2>1, <2>2, <2>3 DEF PaperInv, WireReady
<1>7. CASE SubmitFails
  BY <1>7, PaperStutters DEF SubmitFails, Done
<1>8. CASE JobReturns
  BY <1>8, PaperStutters DEF JobReturns, Done
<1>9. CASE GiveUp
  <2>1. OnTheWire'
    BY <1>9, GiveUpStep
  <2> QED  BY <1>9, <2>1 DEF GiveUp, Done, PaperInv, WireReady
<1>10. CASE Execute
  <2>1. OnTheWire' /\ WireReady'
    BY <1>10, ExecuteStep
  <2>2. UNCHANGED <<stage, printMode, filled, feedOf, buffer, jobs>>
    BY <1>10 DEF Execute, Executed
  <2> QED  BY <2>1, <2>2 DEF PaperInv
<1>11. CASE Cut
  <2>1. OnTheWire' /\ WireReady' /\ jobs # <<>> /\ jobs' = Tail(jobs)
    BY <1>11, CutStep
  <2>2. UNCHANGED <<stage, printMode, filled, feedOf, buffer>>
    BY <1>11 DEF Cut, Executed
  <2>3. jobs' \in Seq(Seq(Conversions))
    BY <2>1 DEF PaperInv
  <2> QED  BY <2>1, <2>2, <2>3 DEF PaperInv
<1>12. CASE Garbage
  <2>1. OnTheWire' /\ WireReady' /\ jobs # <<>>
    BY <1>12, GarbageStep
  <2>2. UNCHANGED <<stage, printMode, filled, feedOf, buffer>> /\ jobs' = Tail(jobs)
    BY <1>12 DEF Garbage
  <2>3. jobs' \in Seq(Seq(Conversions))
    BY <2>1, <2>2 DEF PaperInv
  <2> QED  BY <2>1, <2>2, <2>3 DEF PaperInv
<1>13. CASE PowerCycle
  <2>1. /\ wire' = <<>> /\ jobs' = <<>> /\ paper' = <<>> /\ printer' = Fresh
        /\ UNCHANGED <<stage, printMode, filled, feedOf, buffer>>
    BY <1>13 DEF PowerCycle
  <2>2. OnTheWire'
    BY <2>1, WireNone DEF OnTheWire
  <2>3. jobs' \in Seq(Seq(Conversions))
    BY <2>1
  <2> QED  BY <2>1, <2>2, <2>3 DEF PaperInv, WireReady
<1>14. CASE UNCHANGED escPosVars
  <2>1. OnTheWire'
    BY <1>14 DEF PaperInv, OnTheWire, escPosVars
  <2> QED  BY <1>14, <2>1 DEF PaperInv, WireReady, escPosVars
<1> QED
  BY <1>1, <1>2, <1>3, <1>4, <1>5, <1>6, <1>7, <1>8, <1>9, <1>10, <1>11, <1>12, <1>13, <1>14 DEF EscPosNext

\* Always, the commands on the wire print each job's receipt, and the buffer of
\* escHandleCommand prints the items it has converted.
THEOREM PaperInvariant == ASSUME Fitting PROVE EscPosSpec => [](ImageInv /\ PaperInv)
<1>1. EscPosInit => ImageInv /\ PaperInv
  BY ImageInit, PaperInit
<1>2. ImageInv /\ PaperInv /\ [EscPosNext]_escPosVars => (ImageInv /\ PaperInv)'
  BY ImageNext, PaperNext
<1> QED  BY <1>1, <1>2, PTL DEF EscPosSpec

\* What a step does to the jobs and the receipt, Receipts allows.
LEMMA StepIsAllowed ==
    ASSUME ImageInv, PaperInv, [EscPosNext]_escPosVars
    PROVE  [R!Submit \/ R!CutOff \/ R!Lose \/ R!TearOff]_<<jobs, receipt>>
<1> USE DEF gateway, device
<1>1. CASE NoCut /\ UNCHANGED jobs
  BY <1>1 DEF NoCut, R!TearOff
<1>2. CASE Submit
  <2>1. jobs \in Seq(Seq(Conversions)) /\ filled \in Seq(Conversions) /\ jobs' = Append(jobs, filled) /\ receipt' = <<>>
    BY <1>2 DEF Submit, PaperInv, Converted, NoCut
  <2>2. jobs' # <<>> /\ SubSeq(jobs', 1, Len(jobs') - 1) = jobs
    BY <2>1, AppendProperties
  <2>3. R!Last(jobs') = filled
    BY <2>1, AppendProperties DEF R!Last
  <2>4. \A k \in 1..Len(filled) : R!ShowsItself(filled[k])
    BY <1>2 DEF Submit, ImageInv
  <2>5. \A k \in 1..Len(R!Last(jobs')) : R!ShowsItself(R!Last(jobs')[k])
    BY <2>3, <2>4, Zenon
  <2> QED  BY <2>1, <2>2, <2>5 DEF R!Submit, R!Front
<1>3. CASE Cut
  BY <1>3, CutStep DEF R!CutOff
<1>4. CASE Garbage
  <2>1. jobs # <<>> /\ jobs' = Tail(jobs) /\ receipt' = <<>>
    BY <1>4, GarbageStep DEF Garbage, NoCut
  <2> QED  BY <2>1 DEF R!Lose
<1>5. CASE PowerCycle
  <2>1. jobs' = <<>> /\ receipt' = <<>>
    BY <1>5 DEF PowerCycle, NoCut
  <2> QED  BY <2>1 DEF R!Lose, R!TearOff
<1>6. CASE \/ Poll \/ AskToPrint \/ NotReady \/ Begin
           \/ \E item \in Items : FillText(item) \/ FillImage(item) \/ FillBarcode(item)
           \/ SubmitFails \/ JobReturns \/ GiveUp \/ Execute
  <2>1. NoCut /\ UNCHANGED jobs
    BY <1>6 DEF Poll, AskToPrint, NotReady, Begin, FillText, FillImage, FillBarcode, FillItem,
                SubmitFails, JobReturns, GiveUp, Done, Execute
  <2> QED  BY <1>1, <2>1
<1>7. CASE UNCHANGED escPosVars
  BY <1>7 DEF escPosVars
<1> QED  BY <1>2, <1>3, <1>4, <1>5, <1>6, <1>7 DEF EscPosNext

\* Every receipt that is cut off is the one its job asks for.
THEOREM ReceiptsAreDue == ASSUME Fitting PROVE EscPosSpec => ReceiptsSpec
<1>1. EscPosInit => R!Init
  BY DEF EscPosInit, R!Init
<1>2. ImageInv /\ PaperInv /\ [EscPosNext]_escPosVars => [R!Submit \/ R!CutOff \/ R!Lose \/ R!TearOff]_<<jobs, receipt>>
  BY StepIsAllowed
<1>3. EscPosSpec => [](ImageInv /\ PaperInv)
  BY PaperInvariant
<1> QED  BY <1>1, <1>2, <1>3, PTL DEF EscPosSpec, ReceiptsSpec, R!Spec

-----------------------------------------------------------------------------
(* Types.                                                                    *)

Ops == {"reset", "mode", "underline", "align", "spacing", "barHeight", "line", "feed",
          "bitmap", "barcode", "cut"}

\* A command with an argument the printer can make sense of.
Proper(c) ==
    /\ c.op \in Ops
    /\ c.op = "mode" => c.arg \in SUBSET ModeBits
    /\ c.op = "align" => c.arg \in {"left", "center", "right"}
    /\ c.op = "barHeight" => c.arg \in 1..255

AllProper(w) == IsSeq(w) /\ \A i \in 1..Len(w) : Proper(w[i])

ProperPrinter(p) ==
    /\ \E m, u, a, s, b : p = Memory(m, u, a, s, b)
    /\ p.mode \in SUBSET ModeBits
    /\ p.align \in {"left", "center", "right"}
    /\ p.barHeight \in 1..255

CommandInv ==
    /\ stage \in {"idle", "asked", "filling", "submitted"}
    /\ printMode \in SUBSET ModeBits
    /\ filled \in Seq(Conversions) /\ Len(filled) <= MaxItems
    /\ jobs \in Seq(Seq(Conversions))
    /\ AllProper(buffer) /\ AllProper(wire)
    /\ ProperPrinter(printer)

LEMMA ProperJoin ==
    ASSUME NEW v, NEW w, AllProper(v), AllProper(w)
    PROVE  AllProper(v \o w)
<1> DEFINE x == v \o w
           n == Len(v)
           m == Len(w)
<1>1. IsSeq(v) /\ IsSeq(w)
  BY DEF AllProper
<1>2. /\ IsSeq(x) /\ n \in Nat /\ Len(x) = n + m
      /\ \A i \in 1..n : x[i] = v[i]
      /\ \A i \in 1..m : x[n + i] = w[i]
  BY <1>1, SeqJoin
<1>3. m \in Nat
  BY <1>1 DEF IsSeq
<1>4. (\A i \in 1..n : Proper(v[i])) /\ (\A i \in 1..m : Proper(w[i]))
  BY DEF AllProper
<1> HIDE DEF x, n, m
<1>5. ASSUME NEW i \in 1..Len(x) PROVE Proper(x[i])
  <2>1. i \in 1..n \/ (i - n \in 1..m /\ n + (i - n) = i)
    BY <1>2, <1>3
  <2> QED  BY <1>2, <1>4, <2>1
<1>6. AllProper(x)
  BY <1>2, <1>5 DEF AllProper
<1> QED  BY <1>6 DEF x

LEMMA ProperOne ==
    ASSUME NEW op \in Ops, NEW x, Proper(Cmd(op, x))
    PROVE  AllProper(Code(op, x))
<1> DEFINE w == <<Cmd(op, x)>>
<1>1. IsSeq(w) /\ Len(w) = 1 /\ w[1] = Cmd(op, x)
  BY SeqOne
<1>2. Code(op, x) = w
  BY DEF Code, Cmd
<1> HIDE DEF w
<1>3. \A i \in 1..Len(w) : Proper(w[i])
  <2> TAKE i \in 1..Len(w)
  <2>1. i = 1
    BY <1>1
  <2> QED  BY <1>1, <2>1
<1>4. AllProper(w)
  BY <1>1, <1>3 DEF AllProper
<1> QED  BY <1>2, <1>4

LEMMA ProperNone == AllProper(<<>>)
  BY SeqNone DEF AllProper

LEMMA ProperFeed == \A n : AllProper(Feed(n))
<1> TAKE n
<1>1. \A x : AllProper(Code("feed", x))
  <2> TAKE x
  <2>1. Proper(Cmd("feed", x)) /\ "feed" \in Ops
    BY DEF Proper, Cmd, Ops
  <2> QED  BY <2>1, ProperOne
<1> QED  BY <1>1, ProperNone DEF Feed

\* Every command the encoder writes is proper.
LEMMA ProperPlain ==
    \A op \in Ops \ {"mode", "align", "barHeight"} : \A x : AllProper(Code(op, x))
<1> TAKE op \in Ops \ {"mode", "align", "barHeight"}
<1> TAKE x
<1>1. Proper(Cmd(op, x)) /\ op \in Ops
  BY DEF Proper, Cmd, Ops
<1> QED  BY <1>1, ProperOne

LEMMA ProperAlign == \A x \in {"left", "center", "right"} : AllProper(Code("align", x))
<1> TAKE x \in {"left", "center", "right"}
<1>1. Proper(Cmd("align", x)) /\ "align" \in Ops
  BY DEF Proper, Cmd, Ops
<1> QED  BY <1>1, ProperOne

LEMMA ProperText ==
    ASSUME NEW item \in Items, item.kind = "text", printMode \in SUBSET ModeBits
    PROVE  AllProper(PrintText(item))
<1> DEFINE changes == TextChanges(item)
           ms == PrintModes(printMode, changes)
           w1 == WriteModes(ms)
           w2 == Code("underline", R!Given(item.underline, FALSE))
           w3 == Code("align", R!Given(item.align, "left"))
           w4 == Code("spacing", R!Given(item.spacing, 75) % 256)
           w5 == Code("line", item.text)
<1>1. PrintText(item) = w1 \o w2 \o w3 \o w4 \o w5
  BY DEF PrintText
<1>2. AllProper(w2) /\ AllProper(w4) /\ AllProper(w5)
  BY ProperPlain DEF Ops
<1>3. AllProper(w3)
  <2>1. R!Given(item.align, "left") \in {"left", "center", "right"}
    BY EscPosAssumption DEF R!Given
  <2> QED  BY <2>1, ProperAlign
<1>4. AllProper(w1)
  <2>1. HasLength(ms, 4) /\ Len(ms) = 4
    BY ModeOfText
  <2>2. \A n \in 1..4 : ms[n] \subseteq ModeBits
    <3> DEFINE h == IF item.size \in {"M", "L"} THEN On("height") ELSE Off("height")
               w == IF item.size = "L" THEN On("width") ELSE Off("width")
               d == IF R!Given(item.bold, FALSE) THEN On("bold") ELSE Off("bold")
               f == Off("font")
    <3>1. changes = <<f, h, w, d>> \/ changes = <<f, w, h, d>>
      BY ChangesOfText
    <3>2. {h.bit, w.bit, d.bit, f.bit} \subseteq ModeBits
      BY BitChanges DEF ModeBits
    <3> HIDE DEF changes, h, w, d, f
    <3>3. Len(changes) = 4 /\ \A i \in 1..4 : changes[i].bit \in ModeBits
      BY <3>1, <3>2
    <3>4. ms = [n \in 1..4 |-> LET made == {changes[i] : i \in 1..n}
                               IN  {c.bit : c \in {c \in made : c.on}}
                                     \cup (printMode \ {c.bit : c \in made})]
      BY <3>3 DEF PrintModes
    <3>5. ASSUME NEW n \in 1..4 PROVE ms[n] \subseteq ModeBits
      <4> DEFINE made == {changes[i] : i \in 1..n}
      <4>1. \A c \in made : c.bit \in ModeBits
        BY <3>3
      <4>2. ms[n] = {c.bit : c \in {c \in made : c.on}} \cup (printMode \ {c.bit : c \in made})
        BY <3>4
      <4> HIDE DEF made, ms
      <4> QED  BY <4>1, <4>2
    <3> QED  BY <3>5
  <2> HIDE DEF ms
  <2>3. w1 = [n \in 1..4 |-> Cmd("mode", ms[n])]
    BY <2>1 DEF WriteModes, Cmd
  <2>4. IsSeq(w1) /\ Len(w1) = 4 /\ \A n \in 1..4 : w1[n] = Cmd("mode", ms[n])
    <3>1. w1 \in Seq({Cmd("mode", ms[n]) : n \in 1..4}) /\ DOMAIN w1 = 1..4
      BY <2>3
    <3>2. Len(w1) = 4
      <4> HIDE DEF w1
      <4> QED  BY <3>1
    <3> QED  BY <2>3, <3>1, <3>2 DEF IsSeq
  <2>5. \A n \in 1..4 : Proper(Cmd("mode", ms[n]))
    BY <2>2 DEF Proper, Cmd, Ops
  <2> HIDE DEF w1
  <2> QED  BY <2>4, <2>5 DEF AllProper
<1> HIDE DEF w1, w2, w3, w4, w5
<1>5. AllProper(w1 \o w2 \o w3 \o w4 \o w5)
  BY <1>2, <1>3, <1>4, ProperJoin
<1> QED  BY <1>1, <1>5

LEMMA ProperImage ==
    ASSUME NEW item \in Conversions, item.kind = "image"
    PROVE  AllProper(PrintImage(item))
<1> DEFINE w1 == Code("align", R!Given(item.align, "center"))
           w2 == PrintBitmap(R!Given(item.width, 248), R!Given(item.height, 248), item.shown)
           w3 == Code("spacing", 30)
           w4 == Feed(1)
<1>1. PrintImage(item) = w1 \o w2 \o w3 \o w4
  BY DEF PrintImage
<1>2. AllProper(w1)
  <2>1. R!Given(item.align, "center") \in {"left", "center", "right"}
    BY ConversionKinds DEF R!Given
  <2> QED  BY <2>1, ProperAlign
<1>3. AllProper(w2)
  <2>1. \A x : AllProper(Code("bitmap", x))
    BY ProperPlain DEF Ops
  <2> QED  BY <2>1 DEF PrintBitmap
<1>4. AllProper(w3) /\ AllProper(w4)
  BY ProperPlain, ProperFeed DEF Ops
<1> HIDE DEF w1, w2, w3, w4
<1>5. AllProper(w1 \o w2 \o w3 \o w4)
  BY <1>2, <1>3, <1>4, ProperJoin
<1> QED  BY <1>1, <1>5

LEMMA ProperBarcode ==
    ASSUME NEW item \in Items, item.kind = "barcode"
    PROVE  AllProper(PrintBarcode(item))
<1> DEFINE hh == R!Given(item.height, 200) % 256
           h == IF hh < 1 THEN 1 ELSE hh
           w1 == Code("barHeight", h)
           w2 == Feed(1)
           w3 == Code("barcode", R!Given(item.type, 4))
<1>1. PrintBarcode(item) = w1 \o w2 \o w3
  BY DEF PrintBarcode
<1>2. AllProper(w1)
  <2>1. R!Given(item.height, 200) \in Int
    BY EscPosAssumption DEF R!Given
  <2>2. h \in 1..255
    <3> DEFINE g == R!Given(item.height, 200)
    <3> HIDE DEF g
    <3>1. g % 256 \in 0..255
      BY <2>1 DEF g
    <3> QED  BY <3>1 DEF g
  <2> HIDE DEF h
  <2>3. Proper(Cmd("barHeight", h)) /\ "barHeight" \in Ops
    BY <2>2 DEF Proper, Cmd, Ops
  <2> QED  BY <2>3, ProperOne
<1>3. AllProper(w2) /\ AllProper(w3)
  BY ProperPlain, ProperFeed DEF Ops
<1> HIDE DEF w1, w2, w3
<1>4. AllProper(w1 \o w2 \o w3)
  BY <1>2, <1>3, ProperJoin
<1> QED  BY <1>1, <1>4

\* Any printer a proper command finds, it leaves proper.
LEMMA ProperLatch ==
    ASSUME NEW p, NEW c, ProperPrinter(p), Proper(c)
    PROVE  ProperPrinter(Latch(p, c))
<1>1. PICK m, u, a, s, b : p = Memory(m, u, a, s, b)
  BY DEF ProperPrinter
<1>2. m \in SUBSET ModeBits /\ a \in {"left", "center", "right"} /\ b \in 1..255
  BY <1>1, MemoryFields DEF ProperPrinter
<1> DEFINE good(x, y, z) == /\ x \in SUBSET ModeBits /\ y \in {"left", "center", "right"} /\ z \in 1..255
<1>3. \A x, v, y, w, z : good(x, y, z) => ProperPrinter(Memory(x, v, y, w, z))
  BY MemoryFields DEF ProperPrinter
<1>4. CASE c.op = "reset"
  <2>1. Latch(p, c) = Memory({}, No, "left", R!DefaultSpacing, 50)
    BY <1>4, FreshMemory DEF Latch
  <2> QED  BY <1>3, <2>1
<1>5. CASE c.op = "mode"
  <2>1. Latch(p, c) = [p EXCEPT !.mode = c.arg, !.underline = FALSE]
    BY <1>5 DEF Latch
  <2>2. Latch(p, Cmd("mode", c.arg)) = [p EXCEPT !.mode = c.arg, !.underline = FALSE]
    BY DEF Latch, Cmd
  <2>3. Latch(p, c) = Memory(c.arg, No, a, s, b)
    BY <1>1, <2>1, <2>2, LatchMode
  <2>4. c.arg \in SUBSET ModeBits
    BY <1>5 DEF Proper
  <2> QED  BY <1>2, <1>3, <2>3, <2>4
<1>6. CASE c.op \in {"underline", "align", "spacing", "barHeight"}
  <2>1. Latch(p, c) = Latch(p, Cmd(c.op, c.arg))
    BY <1>6 DEF Latch, Cmd
  <2>2. \/ Latch(p, c) = Memory(m, c.arg, a, s, b)
        \/ Latch(p, c) = Memory(m, u, c.arg, s, b) /\ c.op = "align"
        \/ Latch(p, c) = Memory(m, u, a, c.arg, b)
        \/ Latch(p, c) = Memory(m, u, a, s, c.arg) /\ c.op = "barHeight"
    BY <1>1, <1>6, <2>1, LatchOther
  <2>3. /\ c.op = "align" => c.arg \in {"left", "center", "right"}
        /\ c.op = "barHeight" => c.arg \in 1..255
    BY DEF Proper
  <2> QED  BY <1>2, <1>3, <2>2, <2>3
<1>7. CASE c.op \notin {"reset", "mode", "underline", "align", "spacing", "barHeight"}
  <2>1. Latch(p, c) = p
    BY <1>7 DEF Latch
  <2> QED  BY <2>1
<1> QED  BY <1>4, <1>5, <1>6, <1>7

\* What is left of proper commands is proper, and so is a sequence of their first ones.
LEMMA ProperPart ==
    ASSUME NEW w, AllProper(w), NEW i \in Nat, NEW j \in Nat, i >= 1, j <= Len(w)
    PROVE  AllProper(SubSeq(w, i, j))
<1>1. PICK T : w \in Seq(T)
  BY DEF AllProper, IsSeq
<1>2. \A k \in i..j : w[k] \in T
  BY <1>1
<1> DEFINE v == SubSeq(w, i, j)
<1>3. /\ v \in Seq(T) /\ Len(v) = IF i <= j THEN j - i + 1 ELSE 0
      /\ \A k \in 1..j - i + 1 : v[k] = w[i + k - 1]
  BY <1>2, SubSeqProperties
<1> HIDE DEF v
<1>4. ASSUME NEW k \in 1..Len(v) PROVE Proper(v[k])
  <2>1. k \in 1..j - i + 1 /\ i + k - 1 \in 1..Len(w)
    BY <1>1, <1>3
  <2> QED  BY <1>3, <2>1 DEF AllProper
<1>5. IsSeq(v)
  BY <1>3 DEF IsSeq
<1> QED  BY <1>4, <1>5 DEF AllProper, v

LEMMA ProperTail ==
    ASSUME NEW w, AllProper(w), w # <<>>
    PROVE  AllProper(Tail(w)) /\ Proper(Head(w))
<1>1. IsSeq(w)
  BY DEF AllProper
<1>2. Later(Tail(w), w, 1) /\ Head(w) = w[1]
  BY <1>1, TailIsLater
<1>3. Len(w) \in Nat /\ 1 \in 1..Len(w)
  BY <1>1, <1>2 DEF Later, IsSeq
<1>4. PICK T : w \in Seq(T)
  BY <1>1 DEF IsSeq
<1>5. Tail(w) = SubSeq(w, 2, Len(w))
  BY <1>4, TailIsSubSeq
<1>6. AllProper(SubSeq(w, 2, Len(w)))
  BY <1>3, ProperPart
<1> QED  BY <1>2, <1>3, <1>5, <1>6 DEF AllProper

\* That there is a job to cut off is known from PaperInv.
LEMMA CommandNext == Fitting /\ ImageInv /\ PaperInv /\ CommandInv /\ [EscPosNext]_escPosVars => CommandInv'
<1> SUFFICES ASSUME Fitting, ImageInv, PaperInv, CommandInv, [EscPosNext]_escPosVars PROVE CommandInv'
  OBVIOUS
<1> USE DEF gateway, device
<1>0. /\ stage \in {"idle", "asked", "filling", "submitted"} /\ printMode \in SUBSET ModeBits
      /\ filled \in Seq(Conversions) /\ Len(filled) <= MaxItems /\ jobs \in Seq(Seq(Conversions))
      /\ AllProper(buffer) /\ AllProper(wire) /\ ProperPrinter(printer)
  BY DEF CommandInv
<1>1. ASSUME AskStatus PROVE AllProper(wire')
  <2>1. AllProper(Code("reset", TRUE))
    BY ProperPlain DEF Ops
  <2> QED  BY <1>0, <1>1, <2>1, ProperJoin DEF AskStatus
<1>2. ASSUME Done PROVE stage' = "idle" /\ printMode' = printMode /\ AllProper(buffer')
                        /\ filled' \in Seq(Conversions) /\ Len(filled') <= MaxItems
  <2>1. MaxItems \in Nat
    BY EscPosAssumption
  <2> QED  BY <1>2, <2>1, ProperNone DEF Done
<1>3. CASE Poll \/ AskToPrint
  BY <1>0, <1>1, <1>3 DEF Poll, AskToPrint, CommandInv
<1>4. CASE NotReady
  BY <1>0, <1>4 DEF NotReady, CommandInv
<1>5. CASE Begin
  <2>1. MaxItems \in Nat
    BY EscPosAssumption
  <2> QED  BY <1>0, <1>5, <2>1, ProperNone DEF Begin, CommandInv
<1>6. ASSUME NEW item \in Items, FillText(item) \/ FillImage(item) \/ FillBarcode(item)
      PROVE  CommandInv'
  <2>0. PICK x \in Conversions :
          /\ FillItem(x)
          /\ \/ x = item /\ (FillText(item) \/ FillBarcode(item))
             \/ /\ x.kind = "image" /\ buffer' = buffer \o PrintImage(x)
                /\ UNCHANGED <<printMode, feedOf>>
    BY <1>6, ItemConverted DEF ImageInv
  <2>1. /\ stage' = stage /\ filled' = Append(filled, x) /\ Len(filled) < MaxItems
        /\ UNCHANGED <<wire, printer, jobs>>
    BY <2>0 DEF FillItem
  <2>2. filled' \in Seq(Conversions) /\ Len(filled') <= MaxItems
    <3>1. filled' \in Seq(Conversions) /\ Len(filled') = Len(filled) + 1 /\ Len(filled) \in Nat /\ MaxItems \in Nat
      BY <1>0, <2>1, EscPosAssumption
    <3> QED  BY <2>1, <3>1
  <2>3. AllProper(buffer') /\ printMode' \in SUBSET ModeBits
    <3>1. CASE FillText(item)
      <4> DEFINE ms == PrintModes(printMode, TextChanges(item))
      <4>1. item.kind = "text" /\ buffer' = buffer \o PrintText(item) /\ printMode' = ms[Len(ms)]
        BY <3>1 DEF FillText, Last
      <4>2. Len(ms) = 4 /\ ms[4] \subseteq ModeBits
        BY <1>0, <4>1, ModeOfText
      <4> HIDE DEF ms
      <4> QED  BY <1>0, <4>1, <4>2, ProperText, ProperJoin
    <3>2. CASE x.kind = "image" /\ buffer' = buffer \o PrintImage(x) /\ UNCHANGED <<printMode, feedOf>>
      BY <1>0, <3>2, ProperImage, ProperJoin
    <3>3. CASE FillBarcode(item)
      BY <1>0, <3>3, ProperBarcode, ProperJoin DEF FillBarcode
    <3> QED  BY <2>0, <3>1, <3>2, <3>3
  <2> QED  BY <1>0, <2>1, <2>2, <2>3 DEF CommandInv
<1>7. CASE Submit
  <2>1. AllProper(Code("cut", "whole"))
    BY ProperPlain DEF Ops
  <2>2. AllProper(FeedAndCut)
    BY <2>1, ProperFeed, ProperJoin DEF FeedAndCut
  <2>3. AllProper(buffer') /\ AllProper(wire')
    BY <1>0, <1>7, <2>2, ProperJoin DEF Submit
  <2>4. jobs' \in Seq(Seq(Conversions))
    BY <1>0, <1>7 DEF Submit
  <2> QED  BY <1>0, <1>7, <2>3, <2>4 DEF Submit, CommandInv
<1>8. CASE SubmitFails
  BY <1>0, <1>2, <1>8 DEF SubmitFails, CommandInv
<1>9. CASE JobReturns
  BY <1>0, <1>2, <1>9 DEF JobReturns, CommandInv
<1>10. CASE GiveUp
  <2>1. AllProper(Code("cut", "freed"))
    BY ProperPlain DEF Ops
  <2>2. AllProper(Front(wire))
    <3> DEFINE k == Len(wire) - 1
    <3>1. k \in Nat /\ k <= Len(wire)
      BY <1>0, <1>10 DEF GiveUp, AllProper, IsSeq
    <3> HIDE DEF k
    <3>2. AllProper(SubSeq(wire, 1, k))
      BY <1>0, <3>1, ProperPart
    <3> QED  BY <3>2 DEF Front, k
  <2>3. AllProper(wire')
    BY <1>10, <2>1, <2>2, ProperJoin DEF GiveUp
  <2> QED  BY <1>0, <1>2, <1>10, <2>3 DEF GiveUp, CommandInv
<1>11. CASE Execute
  <2> DEFINE c == Head(wire)
  <2>1. /\ wire # <<>> /\ wire' = Tail(wire) /\ printer' = Latch(printer, c)
        /\ jobs' = jobs /\ UNCHANGED gateway
    BY <1>11 DEF Execute, Executed
  <2>2. AllProper(wire') /\ ProperPrinter(printer')
    BY <1>0, <2>1, ProperTail, ProperLatch
  <2> QED  BY <1>0, <2>1, <2>2 DEF CommandInv
<1>12. CASE Cut
  <2>1. /\ wire # <<>> /\ wire' = Tail(wire) /\ printer' = printer
        /\ jobs' = Tail(jobs) /\ UNCHANGED gateway
    BY <1>12 DEF Cut, Executed
  <2>2. AllProper(wire')
    BY <1>0, <2>1, ProperTail
  <2>3. jobs' \in Seq(Seq(Conversions))
    BY <1>0, <1>12, <2>1, CutStep
  <2> QED  BY <1>0, <2>1, <2>2, <2>3 DEF CommandInv
<1>13. CASE Garbage
  <2>1. PICK n \in 1..Len(wire) : wire' = SubSeq(wire, n + 1, Len(wire))
    BY <1>13 DEF Garbage
  <2>2. AllProper(wire')
    <3>1. Len(wire) \in Nat
      BY <1>0 DEF AllProper, IsSeq
    <3> QED  BY <1>0, <2>1, <3>1, ProperPart
  <2>3. ProperPrinter(printer')
    <3>1. printer' \in Garbled
      BY <1>13 DEF Garbage
    <3>2. /\ printer' = Memory(printer'.mode, printer'.underline, printer'.align,
                               printer'.spacing, printer'.barHeight)
          /\ printer'.mode \in {{}, ModeBits} /\ printer'.align \in {"left", "right"}
          /\ printer'.barHeight = 1
      BY <3>1 DEF Garbled, Memory
    <3> QED  BY <3>2 DEF ProperPrinter
  <2>4. jobs' \in Seq(Seq(Conversions))
    <3>1. jobs # <<>> /\ jobs' = Tail(jobs)
      BY <1>13, GarbageStep DEF Garbage
    <3> QED  BY <1>0, <3>1
  <2> QED  BY <1>0, <1>13, <2>2, <2>3, <2>4 DEF Garbage, CommandInv
<1>14. CASE PowerCycle
  <2>1. ProperPrinter(Fresh)
    <3>1. Fresh = Memory({}, No, "left", R!DefaultSpacing, 50)
      BY FreshMemory
    <3> QED  BY <3>1, MemoryFields DEF ProperPrinter
  <2> QED  BY <1>0, <1>14, <2>1, ProperNone DEF PowerCycle, CommandInv
<1>15. CASE UNCHANGED escPosVars
  BY <1>0, <1>15 DEF escPosVars, CommandInv
<1> QED
  BY <1>3, <1>4, <1>5, <1>6, <1>7, <1>8, <1>9, <1>10, <1>11, <1>12, <1>13, <1>14, <1>15 DEF EscPosNext

\* The types of the encoder, and of what it makes of the printer.
THEOREM EncoderTypes == ASSUME Fitting PROVE EscPosSpec => []EscPosTypeOK
<1>1. EscPosInit => CommandInv
  <2> SUFFICES ASSUME EscPosInit PROVE CommandInv
    OBVIOUS
  <2>1. ProperPrinter(Fresh)
    <3>1. Fresh = Memory({}, No, "left", R!DefaultSpacing, 50)
      BY FreshMemory
    <3> QED  BY <3>1, MemoryFields DEF ProperPrinter
  <2> QED  BY <2>1, ProperNone, EscPosAssumption DEF EscPosInit, CommandInv
<1>2. ImageInv /\ CommandInv => EscPosTypeOK
  BY DEF ImageInv, BuffInv, CommandInv, EscPosTypeOK, AllProper, Proper, ProperPrinter, Ops
<1>3. EscPosSpec => [](ImageInv /\ PaperInv)
  BY PaperInvariant
<1> QED  BY <1>1, <1>2, <1>3, CommandNext, PTL DEF EscPosSpec
=============================================================================
