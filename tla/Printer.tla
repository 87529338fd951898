------------------------------- MODULE Printer -------------------------------
(***************************************************************************)
(* The USB printer of the gateway (main/printer/ESC.c): who may talk to it *)
(* and what becomes of its answers.                                        *)
(*                                                                         *)
(*   - the handler is escHandleCommand in the httpd task;                  *)
(*   - the poller is getPrinterStatTask;                                   *)
(*   - the class driver opens and closes the device and runs every USB     *)
(*     callback, at any time, also long after the task that submitted the  *)
(*     transfer gave up waiting for it.                                    *)
(*                                                                         *)
(* printingQueue_sem is a lock around a whole command. callback_sem and    *)
(* transfer_cb_sem signal that a transfer came back, but do not say which. *)
(*                                                                         *)
(* A status query is an OUT transfer with the question and an IN transfer  *)
(* for the answer. A question or an answer is "mine" while the query it    *)
(* belongs to goes on, and "old" afterwards. Ticks are not counted: a take *)
(* with a timeout may time out whenever its semaphore is not available.    *)
(***************************************************************************)
EXTENDS Naturals, Sequences

CONSTANTS
    HandleQueueSize,  \* length of xQueue
    Rounds,           \* status queries of one poll
    MaxInFlight       \* bound: status transfers of one direction in flight

ASSUME PrinterAssumption ==
    /\ HandleQueueSize \in Nat \ {0}
    /\ Rounds \in Nat \ {0}
    /\ MaxInFlight \in Nat \ {0}

VARIABLES
    pc,        \* where each task is
    cmd,       \* the command the handler is about to look at
    round,     \* the poller's query
    first,     \* what the poller's first query returned, until it is reported
    printing,  \* printingQueue_sem
    cb,        \* callback_sem
    xfer,      \* transfer_cb_sem
    handles,   \* messages in xQueue
    actions,   \* the driver's single slot of work to do
    woken,     \* usb_host_client_handle_events is about to return
    status,    \* printerStatus
    code,      \* statusCode, and whether it answers the query that goes on
    outs,      \* OUT transfers of status queries in flight
    ins,       \* number of their IN transfers in flight
    asked,     \* questions the printer has received and not answered
    clean,     \* history: nothing was pending when the query began
    job,       \* the print transfer
    ghost,     \* a print transfer that was freed is still in flight
    late,      \* history: a print was not over within 200 ticks
    dev,       \* the device, as the USB host library sees it
    missed,    \* history: a device vanished between NEW_DEV and its opening
    oom        \* history: escHandleCommand returned early for lack of memory

taskVars == <<pc, cmd, round, first>>
driverVars == <<handles, actions, woken>>
queryVars == <<code, outs, ins, asked, clean>>
printVars == <<job, ghost, late, xfer>>
vars == <<taskVars, printing, cb, driverVars, status, queryVars, printVars, dev, missed, oom>>

-----------------------------------------------------------------------------
Tasks == {"handler", "poller"}
Commands == {"GET_STATUS", "PRINT", "OTHER"}
Status == {"ONLINE", "DEGRADED", "OFFLINE"}
Owner == {"mine", "old"}

\* "ready" is 22, the one value of statusCode that escHandleCommand asks for.
Zero == [value |-> "zero", of |-> "old"]
Codes == {Zero} \cup [value : {"ready", "other"}, of : Owner]

Init ==
    /\ pc = [t \in Tasks |-> "idle"]
    /\ cmd = "none"
    /\ round = 1
    /\ first = "zero"
    /\ printing = 1 /\ cb = 1 /\ xfer = 0
    /\ handles = 0
    /\ actions = "none"
    /\ woken = FALSE
    /\ status = "OFFLINE"
    /\ code = Zero
    /\ outs = <<>> /\ ins = 0 /\ asked = <<>>
    /\ clean = TRUE
    /\ job = "none" /\ ghost = FALSE
    /\ late = FALSE
    /\ dev = "absent"
    /\ missed = FALSE /\ oom = FALSE

At(t, place) == pc[t] = place
Goto(t, place) == pc' = [pc EXCEPT ![t] = place]

-----------------------------------------------------------------------------
(* The lock, and what both tasks do with it.                               *)

Command(c) ==
    /\ At("handler", "idle")
    /\ cmd' = c
    /\ Goto("handler", "wantPrinting")
    /\ UNCHANGED <<round, first, printing, cb, driverVars, status, queryVars, printVars, dev, missed, oom>>

\* The poller sleeps on while the queue of handles is empty.
PollerWakes ==
    /\ At("poller", "idle")
    /\ handles > 0
    /\ Goto("poller", "wantPrinting")
    /\ UNCHANGED <<cmd, round, first, printing, cb, driverVars, status, queryVars, printVars, dev, missed, oom>>

\* Mutant of TakePrinting: the lock is taken with a timeout, too.
TakePrintingTimed(t) ==
    /\ At(t, "wantPrinting")
    /\ printing' = 0
    /\ Goto(t, "wantCallback")
    /\ UNCHANGED <<cmd, round, first, cb, driverVars, status, queryVars, printVars, dev, missed, oom>>

TakePrinting(t) ==
    /\ At(t, "wantPrinting")
    /\ printing = 1
    /\ printing' = 0
    /\ Goto(t, "wantCallback")
    /\ UNCHANGED <<cmd, round, first, cb, driverVars, status, queryVars, printVars, dev, missed, oom>>

\* The result of this take is ignored: taken or timed out, the task goes on.
TakeCallback(t) ==
    /\ At(t, "wantCallback")
    /\ cb' = 0
    /\ Goto(t, IF t = "handler" THEN "dispatch" ELSE "ask")
    /\ UNCHANGED <<cmd, round, first, printing, driverVars, status, queryVars, printVars, dev, missed, oom>>

GiveCallback(t) ==
    /\ At(t, "giveCallback")
    /\ cb' = 1
    /\ Goto(t, "givePrinting")
    /\ UNCHANGED <<cmd, round, first, printing, driverVars, status, queryVars, printVars, dev, missed, oom>>

GivePrinting(t) ==
    /\ At(t, "givePrinting")
    /\ printing' = 1
    /\ Goto(t, "idle")
    /\ UNCHANGED <<cmd, round, first, cb, driverVars, status, queryVars, printVars, dev, missed, oom>>

-----------------------------------------------------------------------------
(* getPrinterStat.                                                         *)

Aged(s) == [i \in DOMAIN s |-> "old"]

\* getStat submits when there is a handle in the queue; a submission may fail,
\* and always fails when the library no longer has the device.
MaySubmit(inFlight) == handles > 0 /\ dev \in {"open", "unplugged"} /\ inFlight < MaxInFlight

\* A query begins: whatever is pending belongs to an earlier one.
Ask(t) ==
    /\ At(t, "ask")
    /\ \/ /\ MaySubmit(Len(outs))
          /\ outs' = Append(Aged(outs), "mine")
       \/ outs' = Aged(outs)
    /\ asked' = Aged(asked)
    /\ code' = [value |-> code.value, of |-> "old"]
    /\ clean' = (outs = <<>> /\ asked = <<>> /\ ins = 0 /\ cb = 0)
    /\ Goto(t, "awaitOut")
    /\ UNCHANGED <<cmd, round, first, printing, cb, driverVars, status, ins, printVars, dev, missed, oom>>

\* Mutant of Return: a PRINT for a printer that is not ready returns at once.
ReturnAtOnce(t, value) ==
    \/ /\ t = "handler"
       /\ Goto(t, IF value = "ready" THEN "fill" ELSE "idle")
       /\ UNCHANGED <<round, first>>
    \/ /\ t = "poller"
       /\ first' = IF round = 1 THEN value ELSE first
       /\ round' = IF round < Rounds THEN round + 1 ELSE 1
       /\ Goto(t, IF round < Rounds THEN "ask" ELSE "report")

\* The query returns to the handler, or to the poller, which asks on.
Return(t, value) ==
    \/ /\ t = "handler"
       /\ Goto(t, IF value = "ready" THEN "fill" ELSE "giveCallback")
       /\ UNCHANGED <<round, first>>
    \/ /\ t = "poller"
       /\ first' = IF round = 1 THEN value ELSE first
       /\ round' = IF round < Rounds THEN round + 1 ELSE 1
       /\ Goto(t, IF round < Rounds THEN "ask" ELSE "report")

\* Mutant of OutBack: the IN transfer follows without a wait.
OutBackAtOnce(t) ==
    /\ At(t, "awaitOut")
    /\ \/ /\ MaySubmit(ins)
          /\ ins' = ins + 1
       \/ ins' = ins
    /\ Goto(t, "awaitIn")
    /\ UNCHANGED <<cmd, round, first, printing, cb, driverVars, status, code, outs, asked, clean, printVars, dev, missed, oom>>

OutBack(t) ==
    /\ At(t, "awaitOut")
    /\ cb = 1
    /\ cb' = 0
    /\ \/ /\ MaySubmit(ins)
          /\ ins' = ins + 1
       \/ ins' = ins
    /\ Goto(t, "awaitIn")
    /\ UNCHANGED <<cmd, round, first, printing, driverVars, status, code, outs, asked, clean, printVars, dev, missed, oom>>

InBack(t) ==
    /\ At(t, "awaitIn")
    /\ cb = 1
    /\ cb' = 0
    /\ Return(t, code.value)
    /\ UNCHANGED <<cmd, printing, driverVars, status, queryVars, printVars, dev, missed, oom>>

QueryTimesOut(t) ==
    /\ At(t, "awaitOut") \/ At(t, "awaitIn")
    /\ cb = 0
    /\ code' = Zero
    /\ Return(t, "zero")
    /\ UNCHANGED <<cmd, printing, cb, driverVars, status, outs, ins, asked, clean, printVars, dev, missed, oom>>

-----------------------------------------------------------------------------
(* The rest of getPrinterStatTask and of escHandleCommand.                 *)

Report ==
    /\ At("poller", "report")
    /\ status' = IF first = "ready" THEN "ONLINE" ELSE "DEGRADED"
    /\ first' = "zero"
    /\ Goto("poller", "giveCallback")
    /\ UNCHANGED <<cmd, round, printing, cb, driverVars, queryVars, printVars, dev, missed, oom>>

Dispatch ==
    /\ At("handler", "dispatch")
    /\ cmd' = "none"
    /\ Goto("handler", IF cmd = "PRINT" THEN "ask" ELSE "giveCallback")
    /\ UNCHANGED <<round, first, printing, cb, driverVars, status, queryVars, printVars, dev, missed, oom>>

\* The reply to GET_STATUS cannot be allocated: return, with both semaphores.
DispatchOutOfMemory ==
    /\ At("handler", "dispatch")
    /\ cmd = "GET_STATUS"
    /\ cmd' = "none"
    /\ oom' = TRUE
    /\ Goto("handler", "idle")
    /\ UNCHANGED <<round, first, printing, cb, driverVars, status, queryVars, printVars, dev, missed>>

\* A transfer is allocated and filled with the items of the command.
Fill ==
    /\ At("handler", "fill")
    /\ job' = "filled"
    /\ Goto("handler", "submit")
    /\ UNCHANGED <<cmd, round, first, printing, cb, xfer, driverVars, status, queryVars, ghost, late, dev, missed, oom>>

\* print() up to its wait.
SubmitPrint ==
    /\ At("handler", "submit")
    /\ handles > 0
    /\ dev \in {"open", "unplugged"}
    /\ job' = "flying"
    /\ Goto("handler", "awaitPrint")
    /\ UNCHANGED <<cmd, round, first, printing, cb, xfer, driverVars, status, queryVars, ghost, late, dev, missed, oom>>

\* The submission fails and the transfer is freed; or there is no handle any
\* more, and the transfer is forgotten.
SubmitPrintFails ==
    /\ At("handler", "submit")
    /\ job' = "none"
    /\ Goto("handler", "giveCallback")
    /\ UNCHANGED <<cmd, round, first, printing, cb, xfer, driverVars, status, queryVars, ghost, late, dev, missed, oom>>

\* Mutant of PrintReturns: transfer_cb_sem is looked at, not taken.
PrintReturnsPolling ==
    /\ At("handler", "awaitPrint")
    /\ job' = "none"
    /\ ghost' = (ghost \/ job = "flying")
    /\ late' = (late \/ xfer = 0)
    /\ Goto("handler", "giveCallback")
    /\ UNCHANGED <<cmd, round, first, printing, cb, xfer, driverVars, status, queryVars, dev, missed, oom>>

\* After the take of transfer_cb_sem the transfer is freed, whatever the take
\* returned and wherever the transfer is.
PrintReturns ==
    /\ At("handler", "awaitPrint")
    /\ xfer' = 0
    /\ job' = "none"
    /\ ghost' = (ghost \/ job = "flying")
    /\ late' = (late \/ xfer = 0)
    /\ Goto("handler", "giveCallback")
    /\ UNCHANGED <<cmd, round, first, printing, cb, driverVars, status, queryVars, dev, missed, oom>>

-----------------------------------------------------------------------------
(* The class driver: callbacks, then the pending action.                   *)

\* getStatus_cb for an OUT transfer. A printer that is there may have got the
\* question; the transfer may also have failed.
OutCallback ==
    /\ outs # <<>>
    /\ outs' = Tail(outs)
    /\ \/ /\ dev = "open"
          /\ Len(asked) < MaxInFlight
          /\ asked' = Append(asked, Head(outs))
       \/ asked' = asked
    /\ cb' = 1
    /\ woken' = TRUE
    /\ UNCHANGED <<taskVars, printing, handles, actions, status, code, ins, clean, printVars, dev, missed, oom>>

\* getStatus_cb for an IN transfer: the answer to the oldest question, or a
\* buffer that still holds the zeros it was submitted with.
InCallback ==
    /\ ins > 0
    /\ ins' = ins - 1
    /\ \/ /\ dev = "open"
          /\ asked # <<>>
          /\ asked' = Tail(asked)
          /\ \E value \in {"ready", "other"} : code' = [value |-> value, of |-> Head(asked)]
       \/ /\ code' = Zero
          /\ UNCHANGED asked
    /\ cb' = 1
    /\ woken' = TRUE
    /\ UNCHANGED <<taskVars, printing, handles, actions, status, outs, clean, printVars, dev, missed, oom>>

\* transfer_cb.
PrintCallback ==
    /\ job = "flying"
    /\ job' = "done"
    /\ xfer' = 1
    /\ woken' = TRUE
    /\ UNCHANGED <<taskVars, printing, cb, handles, actions, status, queryVars, ghost, late, dev, missed, oom>>

\* transfer_cb for a transfer that print() has freed; there may be more of them.
GhostCallback ==
    /\ ghost
    /\ ghost' \in BOOLEAN
    /\ xfer' = 1
    /\ woken' = TRUE
    /\ UNCHANGED <<taskVars, printing, cb, handles, actions, status, queryVars, job, late, dev, missed, oom>>

\* client_event_cb.
NewDevice ==
    /\ dev = "attached"
    /\ dev' = "enumerated"
    /\ actions' = "open"
    /\ status' = "ONLINE"
    /\ woken' = TRUE
    /\ UNCHANGED <<taskVars, printing, cb, handles, queryVars, printVars, missed, oom>>

DeviceGone ==
    /\ dev = "unplugged"
    /\ dev' = "gone"
    /\ actions' = "close"
    /\ status' = "OFFLINE"
    /\ woken' = TRUE
    /\ UNCHANGED <<taskVars, printing, cb, handles, queryVars, printVars, missed, oom>>

\* Mutant of Act: the slot is not cleared after an open.
ActReopens ==
    /\ woken
    /\ woken' = FALSE
    /\ \/ /\ actions = "open"
          /\ dev' = IF dev = "enumerated" THEN "open" ELSE dev
          /\ handles' = IF handles < HandleQueueSize THEN handles + 1 ELSE handles
       \/ /\ actions = "close"
          /\ dev' = IF dev = "gone" THEN "absent" ELSE dev
          /\ handles' = IF handles > 0 THEN handles - 1 ELSE handles
       \/ /\ actions = "none"
          /\ UNCHANGED <<dev, handles>>
    /\ UNCHANGED <<taskVars, printing, cb, actions, status, queryVars, printVars, missed, oom>>

\* The loop body of class_driver_task. Opening may fail, which nobody notices;
\* a close stays in the slot and is repeated after every later event.
Act ==
    /\ woken
    /\ woken' = FALSE
    /\ \/ /\ actions = "open"
          /\ dev' = IF dev = "enumerated" THEN "open" ELSE dev
          /\ handles' = IF handles < HandleQueueSize THEN handles + 1 ELSE handles
          /\ actions' = "none"
       \/ /\ actions = "close"
          /\ dev' = IF dev = "gone" THEN "absent" ELSE dev
          /\ handles' = IF handles > 0 THEN handles - 1 ELSE handles
          /\ UNCHANGED actions
       \/ /\ actions = "none"
          /\ UNCHANGED <<dev, handles, actions>>
    /\ UNCHANGED <<taskVars, printing, cb, status, queryVars, printVars, missed, oom>>

-----------------------------------------------------------------------------
(* The printer and its cable.                                              *)

\* The library lets a new device in only when the old one is closed and none of
\* its transfers is left.
Attach ==
    /\ dev = "absent"
    /\ outs = <<>> /\ ins = 0 /\ job # "flying" /\ ~ghost
    /\ dev' = "attached"
    /\ UNCHANGED <<taskVars, printing, cb, driverVars, status, queryVars, printVars, missed, oom>>

\* Clients are told that a device is gone only if they had opened it.
Detach ==
    /\ dev \in {"enumerated", "open"}
    /\ dev' = IF dev = "open" THEN "unplugged" ELSE "absent"
    /\ missed' = (missed \/ dev = "enumerated")
    /\ asked' = <<>>
    /\ UNCHANGED <<taskVars, printing, cb, driverVars, status, code, outs, ins, clean, printVars, oom>>

-----------------------------------------------------------------------------
Query(t) == Ask(t) \/ OutBack(t) \/ InBack(t) \/ QueryTimesOut(t)
Steps(t) == TakeCallback(t) \/ Query(t) \/ GiveCallback(t) \/ GivePrinting(t)

Handler ==
    Steps("handler") \/ Dispatch \/ DispatchOutOfMemory
      \/ Fill \/ SubmitPrint \/ SubmitPrintFails \/ PrintReturns
Poller == Steps("poller") \/ PollerWakes \/ Report \/ TakePrinting("poller")
Callbacks == OutCallback \/ InCallback \/ PrintCallback \/ GhostCallback
Events == NewDevice \/ DeviceGone

Next ==
    \/ \E c \in Commands : Command(c)
    \/ TakePrinting("handler")
    \/ Handler \/ Poller
    \/ Callbacks \/ Events \/ Act
    \/ Attach \/ Detach

Spec == Init /\ [][Next]_vars

\* Every task is eventually scheduled. Of the tasks that wait for
\* printingQueue_sem FreeRTOS wakes the one of highest priority, which is
\* httpd: strong fairness for the handler, weak fairness for the poller. The
\* host library reports every change of the bus. A printer owes nobody the
\* completion of a transfer.
Fairness ==
    /\ SF_vars(TakePrinting("handler"))
    /\ WF_vars(Handler) /\ WF_vars(Poller)
    /\ WF_vars(Events) /\ WF_vars(Act)

FairSpec == Spec /\ Fairness

-----------------------------------------------------------------------------
(* Properties.                                                             *)

Places == {"idle", "wantPrinting", "wantCallback", "dispatch", "ask", "awaitOut", "awaitIn",
           "report", "fill", "submit", "awaitPrint", "giveCallback", "givePrinting"}

\* Every variable stays in its domain.
TypeOK ==
    /\ pc \in [Tasks -> Places]
    /\ cmd \in Commands \cup {"none"}
    /\ round \in 1..Rounds
    /\ first \in {"zero", "ready", "other"}
    /\ printing \in 0..1 /\ cb \in 0..1 /\ xfer \in 0..1
    /\ handles \in 0..HandleQueueSize
    /\ actions \in {"none", "open", "close"}
    /\ woken \in BOOLEAN
    /\ status \in Status
    /\ code \in Codes
    /\ outs \in Seq(Owner) /\ Len(outs) <= MaxInFlight
    /\ asked \in Seq(Owner) /\ Len(asked) <= MaxInFlight
    /\ ins \in 0..MaxInFlight
    /\ clean \in BOOLEAN
    /\ job \in {"none", "filled", "flying", "done"}
    /\ ghost \in BOOLEAN /\ late \in BOOLEAN
    /\ dev \in {"absent", "attached", "enumerated", "open", "unplugged", "gone"}
    /\ missed \in BOOLEAN /\ oom \in BOOLEAN

\* The places where a task holds printingQueue_sem.
Holding(t) == pc[t] \notin {"idle", "wantPrinting"}

\* The handler and the poller never use the endpoints, callback_sem, statusCode
\* and the global transfer at the same time, whatever callbacks arrive.
OneTransportUser == ~(Holding("handler") /\ Holding("poller"))

\* The timed take of callback_sem whose result both tasks ignore does find the
\* semaphore: no late or missing callback of an earlier holder leaves it taken.
CallbackSemReady == \A t \in Tasks : At(t, "wantCallback") => cb = 1

\* When nothing was pending as a query began, a status code it returns is the
\* printer's answer to this query, not to one that was given up: what PRINT and
\* the poller act on is recent, and one timeout does not spoil all later queries.
FreshAnswer ==
    \A t \in Tasks :
        (At(t, "awaitIn") /\ cb = 1 /\ clean /\ code.value # "zero") => code.of = "mine"

\* What ends print()'s wait is the completion of its own transfer, so that the
\* transfer it frees is no longer in flight, until some print has taken longer
\* than the wait and left its completion for a later one to find.
PrintWaitsForItsTransfer ==
    (At("handler", "awaitPrint") /\ xfer = 1 /\ job = "flying") => late

\* xQueue holds a handle exactly while the device is open or its closing is
\* due, however open and close events and callbacks follow each other in the
\* driver's single slot of actions. A device that vanished before it was opened
\* is excepted.
HandleMeansDevice ==
    ~missed => /\ handles <= 1
               /\ handles = 1 <=> dev \in {"open", "unplugged", "gone"}

\* Unless memory ran out, every command is worked off, so that httpd returns to
\* its sessions, even if no transfer ever completes.
CommandCompletes ==
    [](~oom) => (~At("handler", "idle") ~> At("handler", "idle"))

\* When commands stop coming, the poller never hangs.
PollerReturns ==
    ([](~oom) /\ <>[]At("handler", "idle")) => []<>At("poller", "idle")

\* Neither task waits for the printer for ever.
TasksReturn == CommandCompletes /\ PollerReturns

\* What the task "that periodically gets a printer status" is for: when the
\* printer is unplugged for good, its status stays OFFLINE in the end.
UnpluggedIsOffline ==
    ([](~missed) /\ <>[](dev = "absent")) => <>[](status = "OFFLINE")
=============================================================================
