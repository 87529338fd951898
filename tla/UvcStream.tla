------------------------------ MODULE UvcStream ------------------------------
(***************************************************************************)
(* One video stream of libuvc (stream.c): the transfers that go round        *)
(* between the bus and the stream callback, which puts payloads together     *)
(* into frames, the user thread that hands frames to the program, and        *)
(* uvc_stop_streaming, which may only free the stream when all of them are   *)
(* done with it.  libusb completes the transfers of one endpoint in the      *)
(* order they were submitted and runs the callbacks in one task.             *)
(***************************************************************************)
EXTENDS Integers, Sequences

CONSTANTS
    NumTransfers,  \* LIBUVC_NUM_TRANSFER_BUFS
    FrameParts,    \* dwMaxVideoFrameSize, in payloads
    MaxFrames,     \* bound: frames a camera sends in one streaming session
    Nobody         \* holder of a free mutex

ASSUME StreamAssumption ==
    /\ NumTransfers \in Nat \ {0}
    /\ FrameParts \in Nat \ {0}
    /\ MaxFrames \in Nat
    /\ Nobody \notin {"user", "stopper"}

VARIABLES
    stream,      \* a uvc_stream_handle_t is allocated
    running,     \* strmh->running
    transfer,    \* strmh->transfers: "null" when freed, else where it is
    bus,         \* transfers the controller has, in order
    usb,         \* the task that runs the callbacks: its place, transfer and payload
    cbMutex,     \* strmh->cb_mutex
    got,         \* outbuf: the payloads of the frame being received
    fid, seq,    \* strmh->fid, strmh->seq
    hold,        \* holdbuf and hold_seq
    user,        \* the user thread: its place and last_seq
    frame,       \* strmh->frame, as the user callback sees it
    stopper,     \* the place of the thread that starts and stops the stream
    camera       \* what the camera sends next

streamVars == <<stream, running, transfer, bus, usb, cbMutex, got, fid, seq, hold, user,
                frame, stopper, camera>>

Transfers == 1..NumTransfers
NoPayload == [frame |-> 0, part |-> 0, last |-> FALSE, eof |-> FALSE]
Idle == [pc |-> "idle", transfer |-> Nobody, payload |-> NoPayload]
NoFrame == [seq |-> 0, of |-> 0, parts |-> <<>>]

StreamInit ==
    /\ stream = FALSE
    /\ running = FALSE
    /\ transfer = [t \in Transfers |-> "null"]
    /\ bus = <<>>
    /\ usb = Idle
    /\ cbMutex = Nobody
    /\ got = <<>> /\ fid = 0 /\ seq = 0
    /\ hold = NoFrame
    /\ user = [pc |-> "none", last |-> 0]
    /\ frame = NoFrame
    /\ stopper = "none"
    /\ camera = [frame |-> 1, part |-> 1, heard |-> FALSE]

-----------------------------------------------------------------------------
(* Starting: the transfers are submitted; when one cannot be, it and the     *)
(* ones after it are freed and the rest go on.                               *)

StartStream(n) ==
    /\ ~stream
    /\ stream' = TRUE
    /\ running' = TRUE
    /\ transfer' = [t \in Transfers |-> IF t <= n THEN "flight" ELSE "null"]
    /\ bus' = [t \in 1..n |-> t]
    /\ got' = <<>> /\ fid' = 0 /\ seq' = 1
    /\ hold' = NoFrame
    /\ user' = [pc |-> "check", last |-> 0]
    /\ frame' = NoFrame
    /\ camera' = [frame |-> 1, part |-> 1, heard |-> FALSE]
    /\ UNCHANGED <<usb, cbMutex, stopper>>

-----------------------------------------------------------------------------
(* The bus and the camera.                                                  *)

\* A frame has up to FrameParts payloads; the last may carry the end-of-frame bit.  A
\* payload can be lost on the bus, but something of every frame comes through.
Payloads ==
    {p \in [frame : {camera.frame}, part : {camera.part}, last : BOOLEAN, eof : BOOLEAN] :
        /\ camera.part = FrameParts => p.last
        /\ p.eof => p.last}

Sent(p, heard) ==
    camera' = IF p.last THEN [frame |-> p.frame + 1, part |-> 1, heard |-> FALSE]
                        ELSE [frame |-> p.frame, part |-> p.part + 1, heard |-> heard]

Completed(pc, p) ==
    /\ usb.pc = "idle" /\ bus # <<>>
    /\ usb' = [pc |-> pc, transfer |-> Head(bus), payload |-> p]
    /\ bus' = Tail(bus)
    /\ transfer' = [transfer EXCEPT ![Head(bus)] = "callback"]
    /\ UNCHANGED <<stream, running, cbMutex, got, fid, seq, hold, user, frame, stopper>>

DataArrives(alive) ==
    /\ alive /\ bus # <<>> /\ transfer[Head(bus)] = "flight"
    /\ camera.frame <= MaxFrames
    /\ \E p \in Payloads : Completed("payload", p) /\ Sent(p, TRUE)

\* A packet with an error status is passed over.
DataLost(alive) ==
    /\ alive /\ bus # <<>> /\ transfer[Head(bus)] = "flight"
    /\ camera.frame <= MaxFrames
    /\ \E p \in Payloads :
        /\ p.last => camera.heard
        /\ Completed("resubmit", NoPayload) /\ Sent(p, camera.heard)

\* No data within the five seconds of the transfer, or a stall: it is tried again.
TimesOut(alive) ==
    /\ alive /\ bus # <<>> /\ transfer[Head(bus)] = "flight"
    /\ Completed("resubmit", NoPayload) /\ UNCHANGED camera

\* The transfer was cancelled, or the device is gone.
Ends(alive) ==
    /\ bus # <<>> /\ (transfer[Head(bus)] = "cancelled" \/ ~alive)
    /\ Completed("free", NoPayload) /\ UNCHANGED camera

-----------------------------------------------------------------------------
(* _uvc_stream_callback.                                                    *)

\* pthread_cond_broadcast: both waiters look again.
Broadcast ==
    /\ user' = [user EXCEPT !.pc = IF @ = "waiting" THEN "check" ELSE @]
    /\ stopper' = IF stopper = "waiting" THEN "look" ELSE stopper

\* _uvc_swap_buffers: the received frame is put on hold, and a new one begins.
Swap(parts) ==
    /\ cbMutex = Nobody
    /\ hold' = [seq |-> seq, of |-> seq, parts |-> parts]
    /\ seq' = seq + 1
    /\ got' = <<>>
    /\ Broadcast

\* The frame id flipped with payloads of the frame before still there.
ProcessFlip ==
    /\ usb.pc = "payload"
    /\ fid # usb.payload.frame % 2 /\ got # <<>>
    /\ Swap(got)
    /\ fid' = usb.payload.frame % 2
    /\ UNCHANGED <<stream, running, transfer, bus, usb, cbMutex, frame, camera>>

\* The payload is stored; with the end-of-frame bit, or a full buffer, the frame is done.
ProcessStore ==
    /\ usb.pc = "payload"
    /\ fid = usb.payload.frame % 2 \/ got = <<>>
    /\ fid' = usb.payload.frame % 2
    /\ LET parts == Append(got, <<usb.payload.frame, usb.payload.part>>)
       IN  IF usb.payload.eof \/ Len(parts) = FrameParts
           THEN Swap(parts)
           ELSE got' = parts /\ UNCHANGED <<seq, hold, user, stopper>>
    /\ usb' = [usb EXCEPT !.pc = "resubmit"]
    /\ UNCHANGED <<stream, running, transfer, bus, cbMutex, frame, camera>>

\* Whether to resubmit is decided without the mutex.
LookAtRunning ==
    /\ usb.pc = "resubmit"
    /\ usb' = [usb EXCEPT !.pc = IF running THEN "submit" ELSE "free"]
    /\ UNCHANGED <<stream, running, transfer, bus, cbMutex, got, fid, seq, hold, user,
                   frame, stopper, camera>>

Submit(alive) ==
    /\ usb.pc = "submit"
    /\ IF alive
       THEN /\ transfer' = [transfer EXCEPT ![usb.transfer] = "flight"]
            /\ bus' = Append(bus, usb.transfer)
            /\ usb' = Idle
       ELSE /\ usb' = [usb EXCEPT !.pc = "free"]
            /\ UNCHANGED <<transfer, bus>>
    /\ UNCHANGED <<stream, running, cbMutex, got, fid, seq, hold, user, frame, stopper,
                   camera>>

\* Mutant of FreeTransfer: the waiters are not told.
FreeTransferQuietly ==
    /\ usb.pc = "free"
    /\ cbMutex = Nobody
    /\ transfer' = [transfer EXCEPT ![usb.transfer] = "null"]
    /\ usb' = Idle
    /\ UNCHANGED <<stream, running, bus, cbMutex, got, fid, seq, hold, user, frame, stopper,
                   camera>>

FreeTransfer ==
    /\ usb.pc = "free"
    /\ cbMutex = Nobody
    /\ transfer' = [transfer EXCEPT ![usb.transfer] = "null"]
    /\ Broadcast
    /\ usb' = Idle
    /\ UNCHANGED <<stream, running, bus, cbMutex, got, fid, seq, hold, frame, camera>>

UsbTask(alive) ==
    \/ ProcessFlip \/ ProcessStore \/ LookAtRunning \/ Submit(alive) \/ FreeTransfer

-----------------------------------------------------------------------------
(* _uvc_user_caller.                                                        *)

\* Mutant of UserLooks: the mutex is let go before the frame is copied.
UserLooksUnlocked ==
    /\ user.pc = "check"
    /\ cbMutex = Nobody
    /\ IF ~running
       THEN /\ user' = [user EXCEPT !.pc = "done"]
            /\ UNCHANGED frame
       ELSE IF user.last = hold.seq
       THEN /\ user' = [user EXCEPT !.pc = "waiting"]
            /\ UNCHANGED frame
       ELSE /\ user' = [pc |-> "copying", last |-> hold.seq]
            /\ frame' = [frame EXCEPT !.seq = hold.seq]
    /\ UNCHANGED <<stream, running, transfer, bus, usb, cbMutex, got, fid, seq, hold, stopper,
                   camera>>

UserLooks ==
    /\ user.pc = "check"
    /\ cbMutex = Nobody
    /\ IF ~running
       THEN /\ user' = [user EXCEPT !.pc = "done"]
            /\ UNCHANGED <<cbMutex, frame>>
       ELSE IF user.last = hold.seq
       THEN /\ user' = [user EXCEPT !.pc = "waiting"]
            /\ UNCHANGED <<cbMutex, frame>>
       ELSE /\ user' = [pc |-> "copying", last |-> hold.seq]
            /\ frame' = [frame EXCEPT !.seq = hold.seq]
            /\ cbMutex' = "user"
    /\ UNCHANGED <<stream, running, transfer, bus, usb, got, fid, seq, hold, stopper, camera>>

\* The rest of _uvc_populate_frame; then user_cb has the frame.
UserCopies ==
    /\ user.pc = "copying"
    /\ frame' = [frame EXCEPT !.of = hold.of, !.parts = hold.parts]
    /\ cbMutex' = Nobody
    /\ user' = [user EXCEPT !.pc = "callback"]
    /\ UNCHANGED <<stream, running, transfer, bus, usb, got, fid, seq, hold, stopper, camera>>

UserReturns ==
    /\ user.pc = "callback"
    /\ user' = [user EXCEPT !.pc = "check"]
    /\ UNCHANGED <<stream, running, transfer, bus, usb, cbMutex, got, fid, seq, hold, frame,
                   stopper, camera>>

UserThread == UserLooks \/ UserCopies \/ UserReturns

-----------------------------------------------------------------------------
(* uvc_stop_streaming: uvc_stream_stop, then uvc_stream_close.               *)

StopBegins ==
    /\ stopper = "none" /\ stream
    /\ running' = FALSE
    /\ stopper' = "cancel"
    /\ UNCHANGED <<stream, transfer, bus, usb, cbMutex, got, fid, seq, hold, user, frame,
                   camera>>

\* Transfers in flight are cancelled; one whose callback runs is not in flight.
StopCancels ==
    /\ stopper = "cancel"
    /\ cbMutex = Nobody
    /\ transfer' = [t \in Transfers |->
                       IF transfer[t] = "flight" THEN "cancelled" ELSE transfer[t]]
    /\ stopper' = "look"
    /\ cbMutex' = "stopper"
    /\ UNCHANGED <<stream, running, bus, usb, got, fid, seq, hold, user, frame, camera>>

AllFreed == \A t \in Transfers : transfer[t] = "null"

\* Mutant of StopLooks: transfers that are still with the controller are not waited for.
StopLooksAway ==
    /\ stopper = "look"
    /\ cbMutex \in {Nobody, "stopper"}
    /\ cbMutex' = Nobody
    /\ stopper' = "join"
    /\ user' = [user EXCEPT !.pc = IF @ = "waiting" THEN "check" ELSE @]
    /\ UNCHANGED <<stream, running, transfer, bus, usb, got, fid, seq, hold, frame, camera>>

StopLooks ==
    /\ stopper = "look"
    /\ cbMutex \in {Nobody, "stopper"}
    /\ cbMutex' = Nobody
    /\ IF AllFreed
       THEN /\ stopper' = "join"
            /\ user' = [user EXCEPT !.pc = IF @ = "waiting" THEN "check" ELSE @]
       ELSE /\ stopper' = "waiting"
            /\ UNCHANGED user
    /\ UNCHANGED <<stream, running, transfer, bus, usb, got, fid, seq, hold, frame, camera>>

StopJoins ==
    /\ stopper = "join"
    /\ user.pc = "done"
    /\ user' = [pc |-> "none", last |-> 0]
    /\ stopper' = "close"
    /\ UNCHANGED <<stream, running, transfer, bus, usb, cbMutex, got, fid, seq, hold, frame,
                   camera>>

\* The buffers, the mutex and the handle are freed.
StreamCloses ==
    /\ stopper = "close"
    /\ stream' = FALSE
    /\ got' = <<>> /\ fid' = 0 /\ seq' = 0
    /\ hold' = NoFrame
    /\ frame' = NoFrame
    /\ stopper' = "none"
    /\ camera' = [frame |-> 1, part |-> 1, heard |-> FALSE]
    /\ UNCHANGED <<running, transfer, bus, usb, cbMutex, user>>

Stopper == StopCancels \/ StopLooks \/ StopJoins \/ StreamCloses

-----------------------------------------------------------------------------
\* The stream is freed only when no transfer, callback or thread can still use it:
\* uvc_stream_stop waits for the transfers and joins the thread before uvc_stream_close.
StreamOutlivesItsUsers ==
    ~stream => /\ AllFreed /\ bus = <<>>
               /\ usb.pc = "idle"
               /\ user.pc = "none"
               /\ cbMutex = Nobody

\* What user_cb is given is one frame of the camera, its payloads in order, with the number
\* it was received under, and numbers only grow ("strictly monotonically increasing",
\* libuvc.h): frame and number are copied while the callback of the bus fills the next one.
FramesWhole ==
    [][/\ user'.pc = "callback" /\ user.pc # "callback" =>
            /\ frame'.seq = frame'.of
            /\ \A i \in DOMAIN frame'.parts :
                  /\ frame'.parts[i][1] = frame'.parts[1][1]
                  /\ i > 1 => frame'.parts[i - 1][2] < frame'.parts[i][2]
       /\ frame'.seq # frame.seq => frame'.seq > frame.seq \/ ~stream']_streamVars

\* uvc_stop_streaming returns: a transfer resubmitted by a callback that looked at running
\* just before it was cleared is not cancelled, and has to end by itself.
StopReturns == stopper # "none" ~> stopper = "none"
=============================================================================
