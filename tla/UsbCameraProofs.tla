--------------------------- MODULE UsbCameraProofs ---------------------------
(***************************************************************************)
(* What holds of the video stream of the USB camera for every number of      *)
(* transfers and payloads, whatever cameras are plugged in and out, and       *)
(* however the bus, the callbacks, the user thread and main_loop interleave.  *)
(* Then what holds of its controls, whatever their values, and of the mode    *)
(* that is streamed, whatever the descriptors.                                *)
(***************************************************************************)
EXTENDS UsbCamera, TLAPS, SequenceTheorems, WellFoundedInduction

USE StreamAssumption

-----------------------------------------------------------------------------
(* What of a step concerns the stream.                                      *)

StreamNext ==
    \/ \E n \in 0..NumTransfers : StartStream(n)
    \/ StopBegins \/ Stopper
    \/ DataArrives(alive) \/ DataLost(alive) \/ TimesOut(alive) \/ Ends(alive)
    \/ UsbTask(alive)
    \/ UserThread

LEMMA StepsOfTheStream == [Next]_vars => [StreamNext]_streamVars
<1> SUFFICES ASSUME [Next]_vars PROVE StreamNext \/ UNCHANGED streamVars
  OBVIOUS
<1>1. CASE MainLoop
  <2>1. CASE WaitConnected \/ FindDevice \/ Open \/ Negotiate \/ Commit \/ Close \/ Join \/ ControlsDone
    BY <2>1 DEF WaitConnected, FindDevice, Open, Negotiate, Commit, Close, Join, ControlsDone, Panic
  <2>2. CASE Start
    BY <2>2 DEF Start, Panic, StreamNext
  <2>3. CASE WaitDisconnected \/ StopStreaming
    BY <2>3 DEF WaitDisconnected, StopStreaming, StreamNext
  <2> QED
    BY <1>1, <2>1, <2>2, <2>3 DEF MainLoop
<1>2. CASE Plug \/ Unplug \/ StatusCallback \/ HandlerThread
  BY <1>2 DEF Plug, Unplug, StatusCallback, HandlerThread
<1>3. CASE \E c \in UvcControlSet : SetControl(c) \/ GetControl(c)
  BY <1>3 DEF SetControl, GetControl
<1>4. CASE Bus \/ Usb \/ User
  BY <1>4 DEF Bus, Usb, User, StreamNext
<1>5. CASE UNCHANGED vars
  BY <1>5 DEF vars
<1> QED
  BY <1>1, <1>2, <1>3, <1>4, <1>5 DEF Next
-----------------------------------------------------------------------------
(* Transfers. Every transfer is freed, on the bus, or in the callback.         *)

OnTheBus == {"flight", "cancelled"}

TransfersInv ==
    /\ transfer \in [Transfers -> {"null", "flight", "cancelled", "callback"}]
    /\ bus \in Seq(Transfers)
    /\ \A i \in 1..Len(bus) : transfer[bus[i]] \in OnTheBus
    /\ \A i, j \in 1..Len(bus) : bus[i] = bus[j] => i = j
    /\ usb = [pc |-> usb.pc, transfer |-> usb.transfer, payload |-> usb.payload]
    /\ usb.pc # "idle" => usb.transfer \in Transfers /\ transfer[usb.transfer] = "callback"

\* What a step leaves alone.
LEMMA TransfersFrame ==
    ASSUME TransfersInv, UNCHANGED <<transfer, bus, usb>>
    PROVE  TransfersInv'
  BY DEF TransfersInv

LEMMA TransfersStart ==
    ASSUME TransfersInv, usb.pc = "idle", NEW n \in 0..NumTransfers, StartStream(n)
    PROVE  TransfersInv'
<1>1. bus' \in Seq(Transfers) /\ Len(bus') = n /\ \A i \in 1..n : bus'[i] = i
  BY DEF StartStream, Transfers
<1>2. transfer' \in [Transfers -> {"null", "flight", "cancelled", "callback"}]
  BY DEF StartStream
<1>3. \A i \in 1..n : transfer'[i] = "flight"
  BY DEF StartStream, Transfers
<1> QED
  BY <1>1, <1>2, <1>3 DEF TransfersInv, StartStream, OnTheBus

\* The oldest transfer of the bus is handed to the callback.
LEMMA TransfersCompleted ==
    ASSUME TransfersInv, NEW pc, NEW p, Completed(pc, p)
    PROVE  TransfersInv'
<1>1. bus \in Seq(Transfers) /\ bus # <<>>
  BY DEF TransfersInv, Completed
<1>2. /\ Head(bus) = bus[1] /\ bus' = Tail(bus)
      /\ Tail(bus) \in Seq(Transfers) /\ Len(bus) \in Nat \ {0}
      /\ Len(Tail(bus)) = Len(bus) - 1
      /\ \A i \in 1..Len(Tail(bus)) : Tail(bus)[i] = bus[i + 1]
      /\ Head(bus) \in Transfers
  BY <1>1, HeadTailProperties DEF Completed
<1>3. transfer' = [transfer EXCEPT ![bus[1]] = "callback"] /\ transfer' \in [Transfers -> {"null", "flight", "cancelled", "callback"}]
  BY <1>2 DEF Completed, TransfersInv
<1>4. ASSUME NEW i \in 1..Len(bus') PROVE bus'[i] # bus[1] /\ transfer'[bus'[i]] \in OnTheBus
  <2>1. bus'[i] = bus[i + 1] /\ i + 1 \in 1..Len(bus) /\ 1 \in 1..Len(bus)
    BY <1>2
  <2> QED
    BY <2>1, <1>2, <1>3 DEF TransfersInv
<1>5. ASSUME NEW i \in 1..Len(bus'), NEW j \in 1..Len(bus'), bus'[i] = bus'[j] PROVE i = j
  <2>1. bus[i + 1] = bus[j + 1] /\ i + 1 \in 1..Len(bus) /\ j + 1 \in 1..Len(bus)
    BY <1>2, <1>5
  <2>2. i + 1 = j + 1
    BY <2>1 DEF TransfersInv
  <2> QED
    BY <1>2, <2>2
<1>6. usb' = [pc |-> pc, transfer |-> bus[1], payload |-> p]
  BY <1>2 DEF Completed
<1>7. transfer'[bus[1]] = "callback"
  BY <1>2, <1>3 DEF TransfersInv
<1> QED
  BY <1>2, <1>3, <1>4, <1>5, <1>6, <1>7 DEF TransfersInv

LEMMA TransfersSubmit ==
    ASSUME TransfersInv, Submit(alive)
    PROVE  TransfersInv'
<1>1. usb.transfer \in Transfers /\ transfer[usb.transfer] = "callback"
  BY DEF Submit, TransfersInv
<1>2. CASE alive
  <2>1. bus' = Append(bus, usb.transfer) /\ bus \in Seq(Transfers)
    BY <1>2 DEF Submit, TransfersInv
  <2>2. /\ bus' \in Seq(Transfers) /\ Len(bus') = Len(bus) + 1 /\ Len(bus) \in Nat
        /\ \A i \in 1..Len(bus) : bus'[i] = bus[i]
        /\ bus'[Len(bus) + 1] = usb.transfer
    BY <1>1, <2>1, AppendProperties, LenProperties
  <2>3. transfer' = [transfer EXCEPT ![usb.transfer] = "flight"] /\ usb' = Idle
    BY <1>2 DEF Submit
  <2>4. \A i \in 1..Len(bus) : bus[i] # usb.transfer /\ bus[i] \in Transfers
    BY <1>1, <2>1 DEF TransfersInv, OnTheBus
  <2>5. \A i \in 1..Len(bus') : transfer'[bus'[i]] \in OnTheBus
    <3> TAKE i \in 1..Len(bus')
    <3>1. CASE i \in 1..Len(bus)
      BY <2>2, <2>3, <2>4, <3>1 DEF TransfersInv
    <3>2. CASE i = Len(bus) + 1
      BY <1>1, <2>2, <2>3, <3>2 DEF TransfersInv, OnTheBus
    <3> QED
      BY <2>2, <3>1, <3>2
  <2>6. \A i, j \in 1..Len(bus') : bus'[i] = bus'[j] => i = j
    BY <2>2, <2>4 DEF TransfersInv
  <2> QED
    BY <1>1, <2>2, <2>3, <2>5, <2>6 DEF TransfersInv, Idle
<1>3. CASE ~alive
  BY <1>1, <1>3 DEF Submit, TransfersInv
<1> QED
  BY <1>2, <1>3

LEMMA TransfersFree ==
    ASSUME TransfersInv, FreeTransfer
    PROVE  TransfersInv'
<1>1. usb.transfer \in Transfers /\ transfer[usb.transfer] = "callback"
  BY DEF FreeTransfer, TransfersInv
<1>2. \A i \in 1..Len(bus) : bus[i] # usb.transfer /\ bus[i] \in Transfers
  BY <1>1 DEF TransfersInv, OnTheBus
<1> QED
  BY <1>1, <1>2 DEF FreeTransfer, TransfersInv, Idle

\* The callback goes on with the transfer it has.
LEMMA TransfersCallback ==
    ASSUME TransfersInv, usb.pc # "idle", NEW pc, usb' = [usb EXCEPT !.pc = pc],
           UNCHANGED <<transfer, bus>>
    PROVE  TransfersInv'
  BY DEF TransfersInv

LEMMA TransfersCancel ==
    ASSUME TransfersInv, StopCancels
    PROVE  TransfersInv'
<1>1. \A i \in 1..Len(bus) : bus[i] \in Transfers
  BY DEF TransfersInv
<1> QED
  BY <1>1 DEF TransfersInv, StopCancels, OnTheBus

LEMMA TransfersStep ==
    ASSUME TransfersInv, ~stream => usb.pc = "idle", [StreamNext]_streamVars
    PROVE  TransfersInv'
<1>1. CASE \E n \in 0..NumTransfers : StartStream(n)
  BY <1>1, TransfersStart DEF StartStream
<1>2. CASE DataArrives(alive) \/ DataLost(alive) \/ TimesOut(alive) \/ Ends(alive)
  BY <1>2, TransfersCompleted DEF DataArrives, DataLost, TimesOut, Ends
<1>3. CASE ProcessStore
  BY <1>3, TransfersCallback DEF ProcessStore
<1>4. CASE LookAtRunning
  BY <1>4, TransfersCallback DEF LookAtRunning
<1>5. CASE Submit(alive) \/ FreeTransfer \/ StopCancels
  BY <1>5, TransfersSubmit, TransfersFree, TransfersCancel
<1>6. CASE \/ ProcessFlip \/ StopBegins \/ StopLooks \/ StopJoins \/ StreamCloses \/ UserThread
           \/ UNCHANGED streamVars
  BY <1>6, TransfersFrame DEF ProcessFlip, StopBegins, StopLooks, StopJoins, StreamCloses, UserThread,
         UserLooks, UserCopies, UserReturns, streamVars
<1> QED
  BY <1>1, <1>2, <1>3, <1>4, <1>5, <1>6 DEF StreamNext, UsbTask, Stopper
-----------------------------------------------------------------------------
(* Users. From the time uvc_stream_stop has seen all transfers freed, nothing      *)
(* brings one back, and the user thread is joined before the stream is freed.      *)

UsersInv ==
    /\ user = [pc |-> user.pc, last |-> user.last]
    /\ ~stream => AllFreed /\ user.pc = "none" /\ stopper = "none"
    /\ stopper \in {"join", "close"} => AllFreed
    /\ stopper = "close" => user.pc = "none"
    /\ cbMutex \in {Nobody, "user", "stopper"}
    /\ cbMutex = "user" <=> user.pc = "copying"
    /\ cbMutex = "stopper" => stopper = "look"

LEMMA FreedIsQuiet ==
    ASSUME TransfersInv, AllFreed
    PROVE  bus = <<>> /\ usb.pc = "idle"
<1>1. usb.pc = "idle"
  BY DEF TransfersInv, AllFreed
<1>2. ASSUME bus # <<>> PROVE FALSE
  <2>1. 1 \in 1..Len(bus) /\ bus[1] \in Transfers
    BY <1>2, HeadTailProperties DEF TransfersInv
  <2> QED
    BY <2>1 DEF TransfersInv, AllFreed, OnTheBus
<1> QED
  BY <1>1, <1>2

LEMMA UsersStep ==
    ASSUME TransfersInv, UsersInv, [StreamNext]_streamVars
    PROVE  UsersInv'
<1> USE DEF UsersInv
<1>0. AllFreed => bus = <<>> /\ usb.pc = "idle"
  BY FreedIsQuiet
<1>1. CASE \E n \in 0..NumTransfers : StartStream(n)
  BY <1>1 DEF StartStream
<1>2. CASE DataArrives(alive) \/ DataLost(alive) \/ TimesOut(alive) \/ Ends(alive)
  BY <1>0, <1>2 DEF DataArrives, DataLost, TimesOut, Ends, Completed
<1>3. CASE ProcessFlip \/ ProcessStore
  BY <1>0, <1>3 DEF ProcessFlip, ProcessStore, Swap, Broadcast, AllFreed
<1>4. CASE LookAtRunning \/ Submit(alive)
  BY <1>0, <1>4 DEF LookAtRunning, Submit, AllFreed
<1>5. CASE FreeTransfer
  BY <1>0, <1>5 DEF FreeTransfer, Broadcast
<1>6. CASE UserThread
  BY <1>6 DEF UserThread, UserLooks, UserCopies, UserReturns, AllFreed
<1>7. CASE StopBegins \/ StopCancels
  BY <1>7 DEF StopBegins, StopCancels, AllFreed
<1>8. CASE StopLooks
  BY <1>8 DEF StopLooks, AllFreed
<1>9. CASE StopJoins \/ StreamCloses
  BY <1>9 DEF StopJoins, StreamCloses, AllFreed
<1>10. CASE UNCHANGED streamVars
  BY <1>10 DEF streamVars, AllFreed
<1> QED
  BY <1>1, <1>2, <1>3, <1>4, <1>5, <1>6, <1>7, <1>8, <1>9, <1>10 DEF StreamNext, UsbTask, Stopper

LEMMA StreamAlways == Spec => [](TransfersInv /\ UsersInv)
<1>1. Init => TransfersInv /\ UsersInv
  BY DEF Init, StreamInit, TransfersInv, UsersInv, Idle, AllFreed
<1>2. TransfersInv /\ UsersInv /\ [Next]_vars => TransfersInv' /\ UsersInv'
  <2> SUFFICES ASSUME TransfersInv, UsersInv, [Next]_vars PROVE TransfersInv' /\ UsersInv'
    OBVIOUS
  <2>1. ~stream => usb.pc = "idle"
    BY FreedIsQuiet DEF UsersInv
  <2> QED
    BY <2>1, StepsOfTheStream, TransfersStep, UsersStep
<1> QED
  BY <1>1, <1>2, PTL DEF Spec

(* uvc_stop_streaming frees the stream only when no transfer is on the bus or in the  *)
(* callback, the user thread has ended and nobody holds the mutex: a transfer that     *)
(* the callback resubmits while the others are cancelled is waited for.                *)
THEOREM StreamIsFreedLast == Spec => []StreamOutlivesItsUsers
<1>1. TransfersInv /\ UsersInv => StreamOutlivesItsUsers
  BY FreedIsQuiet DEF UsersInv, StreamOutlivesItsUsers
<1> QED
  BY <1>1, StreamAlways, PTL
-----------------------------------------------------------------------------
(* Frames. The payloads that are put together are those of one frame, because the   *)
(* frame id of the next one differs, as long as something of every frame arrives.   *)

Whole(parts) ==
    \A i \in 1..Len(parts) : /\ parts[i][1] = parts[1][1]
                             /\ i > 1 => parts[i - 1][2] < parts[i][2]

CameraInv ==
    /\ camera = [frame |-> camera.frame, part |-> camera.part, heard |-> camera.heard]
    /\ camera.frame \in Nat \ {0} /\ camera.part \in Nat \ {0}
    /\ usb = [pc |-> usb.pc, transfer |-> usb.transfer, payload |-> usb.payload]

\* The payload in the callback is the last that the camera sent.
PayloadInv ==
    usb.pc = "payload" =>
        /\ usb.payload.frame \in Nat \ {0} /\ usb.payload.part \in Nat \ {0}
        /\ \/ /\ camera.frame = usb.payload.frame /\ camera.part = usb.payload.part + 1
              /\ camera.heard
           \/ camera.frame = usb.payload.frame + 1 /\ ~camera.heard

LastPart == got[Len(got)][2]

\* Where the payloads received so far are, compared with what comes next.
GotInv ==
    /\ got \in Seq(Nat \X Nat) /\ Whole(got)
    /\ got # <<>> =>
          /\ fid = got[1][1] % 2
          /\ IF usb.pc = "payload"
             THEN \/ got[1][1] = usb.payload.frame /\ LastPart < usb.payload.part
                  \/ got[1][1] = usb.payload.frame - 1
             ELSE \/ got[1][1] = camera.frame /\ LastPart < camera.part /\ camera.heard
                  \/ got[1][1] = camera.frame - 1 /\ ~camera.heard

LEMMA CameraSends ==
    ASSUME CameraInv, NEW p \in Payloads, NEW heard, Sent(p, heard)
    PROVE  /\ p.frame = camera.frame /\ p.part = camera.part
           /\ camera'.frame \in Nat \ {0} /\ camera'.part \in Nat \ {0}
           /\ camera' = [frame |-> camera'.frame, part |-> camera'.part, heard |-> camera'.heard]
           /\ \/ camera'.frame = p.frame + 1 /\ ~camera'.heard /\ p.last
              \/ /\ camera'.frame = p.frame /\ camera'.part = p.part + 1 /\ (camera'.heard <=> heard)
                 /\ ~p.last
<1>1. p.frame = camera.frame /\ p.part = camera.part
  BY DEF Payloads
<1>2. CASE p.last
  <2>1. camera' = [frame |-> p.frame + 1, part |-> 1, heard |-> FALSE]
    BY <1>2 DEF Sent
  <2> QED
    BY <1>1, <1>2, <2>1 DEF CameraInv
<1>3. CASE ~p.last
  <2>1. camera' = [frame |-> p.frame, part |-> p.part + 1, heard |-> heard]
    BY <1>3 DEF Sent
  <2> QED
    BY <1>1, <1>3, <2>1 DEF CameraInv
<1> QED
  BY <1>2, <1>3

FrameInv == CameraInv /\ PayloadInv /\ GotInv

\* Steps that concern neither the camera nor the callback.
LEMMA FrameFrame ==
    ASSUME FrameInv, UNCHANGED <<camera, usb, got, fid>>
    PROVE  FrameInv'
  BY DEF FrameInv, CameraInv, PayloadInv, GotInv, Whole, LastPart

\* The callback is past the payload, or has none.
LEMMA FrameCallback ==
    ASSUME FrameInv, usb.pc # "payload", usb'.pc # "payload", UNCHANGED <<camera, got, fid>>,
           usb' = [pc |-> usb'.pc, transfer |-> usb'.transfer, payload |-> usb'.payload]
    PROVE  FrameInv'
  BY DEF FrameInv, CameraInv, PayloadInv, GotInv, Whole, LastPart

\* The stream begins or ends.
LEMMA FrameFresh ==
    ASSUME FrameInv, usb.pc = "idle", UNCHANGED usb, got' = <<>>,
           camera' = [frame |-> 1, part |-> 1, heard |-> FALSE]
    PROVE  FrameInv'
  BY DEF FrameInv, CameraInv, PayloadInv, GotInv, Whole

LEMMA FrameArrives ==
    ASSUME FrameInv, DataArrives(alive)
    PROVE  FrameInv'
<1>1. PICK p \in Payloads : Completed("payload", p) /\ Sent(p, TRUE)
  BY DEF DataArrives
<1>2. /\ p.frame = camera.frame /\ p.part = camera.part
      /\ camera'.frame \in Nat \ {0} /\ camera'.part \in Nat \ {0}
      /\ camera' = [frame |-> camera'.frame, part |-> camera'.part, heard |-> camera'.heard]
      /\ \/ camera'.frame = p.frame + 1 /\ ~camera'.heard
         \/ camera'.frame = p.frame /\ camera'.part = p.part + 1 /\ camera'.heard
  BY <1>1, CameraSends DEF FrameInv
<1>3. usb' = [pc |-> "payload", transfer |-> Head(bus), payload |-> p] /\ UNCHANGED <<got, fid>>
  BY <1>1 DEF Completed
<1>4. usb.pc = "idle"
  BY <1>1 DEF Completed
<1>5. CameraInv' /\ PayloadInv'
  BY <1>2, <1>3 DEF FrameInv, CameraInv, PayloadInv
<1>6. GotInv'
  BY <1>2, <1>3, <1>4 DEF FrameInv, CameraInv, GotInv, Whole, LastPart
<1> QED
  BY <1>5, <1>6 DEF FrameInv

LEMMA FrameIsLost ==
    ASSUME FrameInv, DataLost(alive)
    PROVE  FrameInv'
<1>1. PICK p \in Payloads : /\ p.last => camera.heard
                            /\ Completed("resubmit", NoPayload) /\ Sent(p, camera.heard)
  BY DEF DataLost
<1>2. /\ p.frame = camera.frame /\ p.part = camera.part
      /\ camera'.frame \in Nat \ {0} /\ camera'.part \in Nat \ {0}
      /\ camera' = [frame |-> camera'.frame, part |-> camera'.part, heard |-> camera'.heard]
      /\ \/ camera'.frame = p.frame + 1 /\ ~camera'.heard /\ p.last
         \/ camera'.frame = p.frame /\ camera'.part = p.part + 1 /\ (camera'.heard <=> camera.heard)
  BY <1>1, CameraSends DEF FrameInv
<1>3. usb' = [pc |-> "resubmit", transfer |-> Head(bus), payload |-> NoPayload] /\ UNCHANGED <<got, fid>>
  BY <1>1 DEF Completed
<1>4. usb.pc = "idle"
  BY <1>1 DEF Completed
<1>5. CameraInv' /\ PayloadInv'
  BY <1>2, <1>3 DEF FrameInv, CameraInv, PayloadInv
<1>6. got # <<>> => got[Len(got)][2] \in Nat
  BY ElementOfSeq, LenProperties DEF FrameInv, GotInv
<1>7. GotInv'
  <2>1. got' \in Seq(Nat \X Nat) /\ Whole(got') /\ (got' # <<>> => fid' = got'[1][1] % 2)
    BY <1>3 DEF FrameInv, GotInv, Whole
  <2>2. CASE got = <<>>
    BY <1>3, <2>1, <2>2 DEF GotInv
  <2>3. CASE got # <<>> /\ got[1][1] = camera.frame /\ LastPart < camera.part /\ camera.heard
    <3>1. \/ camera'.frame = camera.frame + 1 /\ ~camera'.heard
          \/ camera'.frame = camera.frame /\ camera'.part = camera.part + 1 /\ camera'.heard
      BY <1>2, <2>3
    <3>2. LastPart' = LastPart /\ LastPart \in Nat /\ camera.part \in Nat /\ camera.frame \in Nat
      BY <1>3, <1>6, <2>3 DEF LastPart, FrameInv, CameraInv
    <3>3. \/ camera'.frame = camera.frame + 1 /\ ~camera'.heard
          \/ camera'.frame = camera.frame /\ LastPart' < camera'.part /\ camera'.heard
      BY <2>3, <3>1, <3>2
    <3>4. got'[1][1] = camera.frame /\ usb'.pc # "payload"
      BY <1>3, <2>3
    <3> QED
      BY <2>1, <3>2, <3>3, <3>4 DEF GotInv
  <2>4. CASE got # <<>> /\ got[1][1] = camera.frame - 1 /\ ~camera.heard
    <3>1. camera'.frame = camera.frame /\ ~camera'.heard
      BY <1>1, <1>2, <2>4
    <3> QED
      BY <1>3, <2>1, <2>4, <3>1 DEF GotInv, LastPart
  <2> QED
    BY <1>4, <2>2, <2>3, <2>4 DEF FrameInv, GotInv
<1> QED
  BY <1>5, <1>7 DEF FrameInv

LEMMA FrameFlips ==
    ASSUME FrameInv, ProcessFlip
    PROVE  FrameInv'
<1>1. got' = <<>> /\ UNCHANGED <<camera, usb>>
  BY DEF ProcessFlip, Swap
<1> QED
  BY <1>1 DEF FrameInv, CameraInv, PayloadInv, GotInv, Whole

Stored == Append(got, <<usb.payload.frame, usb.payload.part>>)

LEMMA StoredIsWhole ==
    ASSUME FrameInv, usb.pc = "payload", fid = usb.payload.frame % 2 \/ got = <<>>
    PROVE  /\ Stored \in Seq(Nat \X Nat) /\ Whole(Stored) /\ Stored # <<>>
           /\ Stored[1][1] = usb.payload.frame /\ Stored[Len(Stored)][2] = usb.payload.part
<1> DEFINE new == <<usb.payload.frame, usb.payload.part>>
<1>1. new \in Nat \X Nat /\ new[1] = usb.payload.frame /\ new[2] = usb.payload.part
  BY DEF FrameInv, PayloadInv
<1>2. got \in Seq(Nat \X Nat) /\ Len(got) \in Nat
  BY LenProperties DEF FrameInv, GotInv
<1> HIDE DEF new
<1>3. /\ Stored \in Seq(Nat \X Nat) /\ Stored # <<>>
      /\ Len(Stored) = Len(got) + 1
      /\ \A i \in 1..Len(got) : Stored[i] = got[i]
      /\ Stored[Len(got) + 1] = new
  BY <1>1, <1>2, AppendProperties DEF Stored, new
<1>4. CASE got = <<>>
  <2>1. Len(got) = 0
    BY <1>4
  <2> QED
    BY <1>1, <1>3, <2>1 DEF Whole
<1>5. CASE got # <<>>
  <2>1. Len(got) # 0
    BY <1>2, <1>5, EmptySeq
  <2>2. got[1] \in Nat \X Nat
    BY <1>2, <2>1, ElementOfSeq
  <2>3. got[1][1] \in Nat /\ usb.payload.frame \in Nat
    BY <1>1, <2>2
  <2>4. usb.payload.frame \in Nat \ {0} /\ (usb.payload.frame - 1) % 2 # usb.payload.frame % 2
    <3>1. \A n \in Nat \ {0} : (n - 1) % 2 # n % 2
      OBVIOUS
    <3> QED
      BY <3>1 DEF FrameInv, PayloadInv
  <2>5. got[1][1] = usb.payload.frame /\ LastPart < usb.payload.part
    BY <1>5, <2>3, <2>4 DEF FrameInv, GotInv
  <2>6. 1 \in 1..Len(got) /\ Len(got) \in 1..Len(got) /\ Stored[1] = got[1]
    BY <1>2, <1>3, <2>1
  <2>7. ASSUME NEW i \in 1..Len(Stored)
        PROVE  /\ Stored[i][1] = Stored[1][1]
               /\ i > 1 => Stored[i - 1][2] < Stored[i][2]
    <3>1. CASE i \in 1..Len(got)
      <4>1. Stored[i] = got[i]
        BY <1>3, <3>1
      <4>2. got[i][1] = got[1][1] /\ (i > 1 => got[i - 1][2] < got[i][2])
        BY <3>1 DEF FrameInv, GotInv, Whole
      <4>3. ASSUME i > 1 PROVE Stored[i - 1] = got[i - 1]
        <5>1. i - 1 \in 1..Len(got)
          BY <1>2, <3>1, <4>3
        <5> QED
          BY <1>3, <5>1
      <4> QED
        BY <2>6, <4>1, <4>2, <4>3
    <3>2. CASE i = Len(got) + 1
      <4>1. Stored[i] = new /\ i - 1 = Len(got) /\ Stored[i - 1] = got[Len(got)]
        BY <1>2, <1>3, <2>6, <3>2
      <4> QED
        BY <1>1, <2>5, <2>6, <4>1 DEF LastPart
    <3> QED
      BY <1>2, <1>3, <3>1, <3>2
  <2> QED
    BY <1>1, <1>3, <2>5, <2>6, <2>7 DEF Whole
<1> QED
  BY <1>4, <1>5

LEMMA FrameStores ==
    ASSUME FrameInv, ProcessStore
    PROVE  FrameInv'
<1>1. /\ usb.pc = "payload" /\ (fid = usb.payload.frame % 2 \/ got = <<>>)
      /\ fid' = usb.payload.frame % 2 /\ usb' = [usb EXCEPT !.pc = "resubmit"] /\ camera' = camera
      /\ got' = <<>> \/ got' = Stored
  BY DEF ProcessStore, Swap, Stored
<1>2. usb' = [pc |-> "resubmit", transfer |-> usb.transfer, payload |-> usb.payload]
  BY <1>1 DEF FrameInv, CameraInv
<1>3. CameraInv' /\ PayloadInv'
  BY <1>1, <1>2 DEF FrameInv, CameraInv, PayloadInv
<1>4. CASE got' = <<>>
  BY <1>3, <1>4 DEF FrameInv, GotInv, Whole
<1>5. CASE got' = Stored
  <2>1. /\ got' \in Seq(Nat \X Nat) /\ Whole(got')
        /\ got'[1][1] = usb.payload.frame /\ got'[Len(got')][2] = usb.payload.part
    BY <1>1, <1>5, StoredIsWhole
  <2>2. /\ usb.payload.frame \in Nat /\ usb.payload.part \in Nat
        /\ \/ camera.frame = usb.payload.frame /\ camera.part = usb.payload.part + 1 /\ camera.heard
           \/ camera.frame = usb.payload.frame + 1 /\ ~camera.heard
    BY <1>1 DEF FrameInv, PayloadInv
  <2>3. GotInv'
    BY <1>1, <1>2, <2>1, <2>2 DEF GotInv, LastPart, Whole
  <2> QED
    BY <1>3, <2>3 DEF FrameInv
<1> QED
  BY <1>1, <1>4, <1>5

LEMMA FrameStep ==
    ASSUME TransfersInv, UsersInv, FrameInv, [StreamNext]_streamVars
    PROVE  FrameInv'
<1>0. ~stream \/ stopper = "close" => usb.pc = "idle"
  BY FreedIsQuiet DEF UsersInv
<1>1. CASE \E n \in 0..NumTransfers : StartStream(n)
  BY <1>0, <1>1, FrameFresh DEF StartStream
<1>2. CASE DataArrives(alive) \/ DataLost(alive)
  BY <1>2, FrameArrives, FrameIsLost
<1>3. CASE TimesOut(alive) \/ Ends(alive)
  BY <1>3, FrameCallback DEF TimesOut, Ends, Completed
<1>4. CASE ProcessFlip \/ ProcessStore
  BY <1>4, FrameFlips, FrameStores
<1>5. CASE LookAtRunning
  BY <1>5, FrameCallback DEF LookAtRunning, TransfersInv
<1>6. CASE Submit(alive)
  BY <1>6, FrameCallback DEF Submit, TransfersInv, Idle
<1>7. CASE FreeTransfer
  BY <1>7, FrameCallback DEF FreeTransfer, Idle
<1>8. CASE StreamCloses
  BY <1>0, <1>8, FrameFresh DEF StreamCloses
<1>9. CASE StopBegins \/ StopCancels \/ StopLooks \/ StopJoins \/ UserThread \/ UNCHANGED streamVars
  BY <1>9, FrameFrame DEF StopBegins, StopCancels, StopLooks, StopJoins, UserThread, UserLooks, UserCopies,
         UserReturns, streamVars
<1> QED
  BY <1>1, <1>2, <1>3, <1>4, <1>5, <1>6, <1>7, <1>8, <1>9 DEF StreamNext, UsbTask, Stopper

-----------------------------------------------------------------------------
(* Hand-over. The frame on hold is a whole one, its number is above that of the     *)
(* frame the program has, and while the user thread copies it stays.               *)

HoldInv ==
    /\ hold = [seq |-> hold.seq, of |-> hold.of, parts |-> hold.parts]
    /\ hold.seq = hold.of /\ hold.seq \in Nat
    /\ hold.parts \in Seq(Nat \X Nat) /\ Whole(hold.parts)
    /\ stream => seq = hold.seq + 1
    /\ ~stream => frame = NoFrame
    /\ frame = [seq |-> frame.seq, of |-> frame.of, parts |-> frame.parts]
    /\ frame.seq \in Nat /\ frame.seq <= hold.seq
    /\ user.pc = "copying" => frame.seq = hold.seq
    /\ user.pc # "none" => user.last = frame.seq

LEMMA HoldFrame ==
    ASSUME HoldInv, UNCHANGED <<hold, frame, stream, seq, user>>
    PROVE  HoldInv'
  BY DEF HoldInv, Whole, NoFrame

\* A frame is put on hold.
LEMMA HoldSwap ==
    ASSUME UsersInv, HoldInv, NEW parts \in Seq(Nat \X Nat), Whole(parts), Swap(parts),
           stream, UNCHANGED <<stream, frame>>
    PROVE  HoldInv'
<1>1. user.pc # "copying" /\ user'.pc # "copying"
  BY DEF UsersInv, Swap, Broadcast
<1>2. hold' = [seq |-> seq, of |-> seq, parts |-> parts] /\ seq' = seq + 1
  BY DEF Swap
<1>3. user'.last = user.last /\ (user'.pc = "none" <=> user.pc = "none")
  BY DEF UsersInv, Swap, Broadcast
<1> QED
  BY <1>1, <1>2, <1>3 DEF HoldInv, Whole

LEMMA HoldStep ==
    ASSUME TransfersInv, UsersInv, FrameInv, HoldInv, [StreamNext]_streamVars
    PROVE  HoldInv'
<1>0. ~stream => usb.pc = "idle" /\ user.pc = "none" /\ stopper = "none"
  BY FreedIsQuiet DEF UsersInv
<1>1. CASE \E n \in 0..NumTransfers : StartStream(n)
  BY <1>1 DEF StartStream, HoldInv, Whole, NoFrame
<1>2. CASE DataArrives(alive) \/ DataLost(alive) \/ TimesOut(alive) \/ Ends(alive)
  BY <1>2, HoldFrame DEF DataArrives, DataLost, TimesOut, Ends, Completed
<1>3. CASE ProcessFlip
  BY <1>0, <1>3, HoldSwap DEF ProcessFlip, FrameInv, GotInv
<1>4. CASE ProcessStore
  <2>1. Stored \in Seq(Nat \X Nat) /\ Whole(Stored)
    BY <1>4, StoredIsWhole DEF ProcessStore
  <2>2. CASE Swap(Stored)
    BY <1>0, <1>4, <2>1, <2>2, HoldSwap DEF ProcessStore
  <2>3. CASE UNCHANGED <<seq, hold, user>>
    BY <1>4, <2>3, HoldFrame DEF ProcessStore
  <2> QED
    BY <1>4, <2>2, <2>3 DEF ProcessStore, Stored
<1>5. CASE LookAtRunning \/ Submit(alive)
  BY <1>5, HoldFrame DEF LookAtRunning, Submit
<1>6. CASE FreeTransfer
  BY <1>6 DEF FreeTransfer, Broadcast, HoldInv, UsersInv, Whole, NoFrame
<1>7. CASE UserLooks
  BY <1>7, <1>0 DEF UserLooks, HoldInv, UsersInv, Whole, NoFrame
<1>8. CASE UserCopies
  BY <1>8, <1>0 DEF UserCopies, HoldInv, UsersInv, Whole, NoFrame
<1>9. CASE UserReturns
  BY <1>9, <1>0 DEF UserReturns, HoldInv, UsersInv, Whole, NoFrame
<1>10. CASE StopBegins \/ StopCancels
  BY <1>10, HoldFrame DEF StopBegins, StopCancels
<1>11. CASE StopLooks \/ StopJoins
  <2>1. UNCHANGED <<hold, frame, stream, seq>>
    BY <1>11 DEF StopLooks, StopJoins
  <2>2. \/ user'.pc = "none"
        \/ user'.last = user.last /\ user.pc # "none" /\ (user'.pc = "copying" => user.pc = "copying")
        \/ user' = user
    BY <1>11 DEF StopLooks, StopJoins, UsersInv
  <2> QED
    BY <2>1, <2>2 DEF HoldInv, Whole, NoFrame
<1>12. CASE StreamCloses
  BY <1>12 DEF StreamCloses, HoldInv, UsersInv, Whole, NoFrame
<1>13. CASE UNCHANGED streamVars
  BY <1>13, HoldFrame DEF streamVars
<1> QED
  BY <1>1, <1>2, <1>3, <1>4, <1>5, <1>6, <1>7, <1>8, <1>9, <1>10, <1>11, <1>12, <1>13
     DEF StreamNext, UsbTask, UserThread, Stopper

\* What a step does to the frame that the program has.
HandedOver ==
    /\ user'.pc = "callback" /\ user.pc # "callback" =>
          /\ frame'.seq = frame'.of
          /\ \A i \in DOMAIN frame'.parts :
                /\ frame'.parts[i][1] = frame'.parts[1][1]
                /\ i > 1 => frame'.parts[i - 1][2] < frame'.parts[i][2]
    /\ frame'.seq # frame.seq => frame'.seq > frame.seq \/ ~stream'

LEMMA HandOver ==
    ASSUME UsersInv, HoldInv, StreamNext
    PROVE  HandedOver
<1>1. CASE UserCopies
  <2>1. /\ frame' = [frame EXCEPT !.of = hold.of, !.parts = hold.parts]
        /\ frame.seq = hold.seq
    BY <1>1 DEF UserCopies, HoldInv
  <2>2. frame' = [seq |-> hold.seq, of |-> hold.of, parts |-> hold.parts]
    BY <2>1 DEF HoldInv
  <2>3. DOMAIN hold.parts = 1..Len(hold.parts)
    BY LenProperties DEF HoldInv
  <2> QED
    BY <2>1, <2>2, <2>3 DEF HandedOver, HoldInv, Whole
<1>2. CASE UserLooks
  BY <1>2 DEF UserLooks, HandedOver, HoldInv, UsersInv
<1>3. CASE \E n \in 0..NumTransfers : StartStream(n)
  BY <1>3 DEF StartStream, HandedOver, HoldInv, NoFrame
<1>4. CASE StreamCloses
  BY <1>4 DEF StreamCloses, HandedOver
<1>5. CASE StopBegins \/ StopCancels \/ StopLooks \/ StopJoins \/ UserReturns
  BY <1>5 DEF StopBegins, StopCancels, StopLooks, StopJoins, UserReturns, HandedOver, UsersInv
<1>6. CASE DataArrives(alive) \/ DataLost(alive) \/ TimesOut(alive) \/ Ends(alive)
  BY <1>6 DEF DataArrives, DataLost, TimesOut, Ends, Completed, HandedOver
<1>7. CASE UsbTask(alive)
  BY <1>7 DEF UsbTask, ProcessFlip, ProcessStore, Swap, LookAtRunning, Submit, FreeTransfer, Broadcast,
         HandedOver, UsersInv
<1> QED
  BY <1>1, <1>2, <1>3, <1>4, <1>5, <1>6, <1>7 DEF StreamNext, UserThread, Stopper

(* What user_cb is given is one frame of the camera with its payloads in order, under   *)
(* the number it was received with, and the numbers grow, although the callback of the   *)
(* bus fills the next frame at the same time.                                       *)
THEOREM FramesArriveWhole == Spec => FramesWhole
<1> DEFINE Inv == TransfersInv /\ UsersInv /\ FrameInv /\ HoldInv
<1>1. Init => Inv
  BY DEF Init, StreamInit, TransfersInv, UsersInv, Idle, AllFreed, FrameInv, CameraInv, PayloadInv, GotInv, Whole,
         HoldInv, NoFrame
<1>2. Inv /\ [Next]_vars => Inv'
  <2> SUFFICES ASSUME Inv, [Next]_vars PROVE Inv'
    OBVIOUS
  <2>1. ~stream => usb.pc = "idle"
    BY FreedIsQuiet DEF UsersInv
  <2> QED
    BY <2>1, StepsOfTheStream, TransfersStep, UsersStep, FrameStep, HoldStep
<1>3. Inv /\ [Next]_vars => [HandedOver]_streamVars
  BY StepsOfTheStream, HandOver
<1>4. [HandedOver]_streamVars =>
      [/\ user'.pc = "callback" /\ user.pc # "callback" =>
            /\ frame'.seq = frame'.of
            /\ \A i \in DOMAIN frame'.parts :
                  /\ frame'.parts[i][1] = frame'.parts[1][1]
                  /\ i > 1 => frame'.parts[i - 1][2] < frame'.parts[i][2]
       /\ frame'.seq # frame.seq => frame'.seq > frame.seq \/ ~stream']_streamVars
  BY DEF HandedOver
<1> HIDE DEF Inv
<1> QED
  BY <1>1, <1>2, <1>3, <1>4, PTL DEF Spec, FramesWhole

-----------------------------------------------------------------------------
(* The controls: where their parameters are.                                 *)

Parameter(f) == f.at \in Nat /\ f.width \in {1, 2, 4} /\ f.signed \in BOOLEAN

\* The parameters lie in the transfer one behind the other.
Laid(size, fields) ==
    /\ size \in Nat
    /\ DOMAIN fields \subseteq 1..6
    /\ \A i \in DOMAIN fields : Parameter(fields[i]) /\ fields[i].at + fields[i].width <= size
    /\ \A i, j \in DOMAIN fields : i < j => fields[i].at + fields[i].width <= fields[j].at

WellFormed(c) == Laid(c.size, c.fields)

LEMMA Widths ==
    \A at \in Nat :
        /\ \A f \in {U8(at), S8(at)} : Parameter(f) /\ f.at = at /\ f.width = 1
        /\ \A f \in {U16(at), S16(at)} : Parameter(f) /\ f.at = at /\ f.width = 2
        /\ \A f \in {U32(at), S32(at)} : Parameter(f) /\ f.at = at /\ f.width = 4
  BY SMT DEF Parameter, U8, U16, S8, S16, U32, S32

LEMMA LaidOne ==
    \A a : \A size \in Nat : Parameter(a) /\ a.at + a.width <= size => Laid(size, <<a>>)
  BY SMTT(90) DEF Laid, Parameter

LEMMA LaidTwo ==
    \A a, b : \A size \in Nat :
        /\ Parameter(a) /\ Parameter(b)
        /\ a.at + a.width <= b.at /\ b.at + b.width <= size
        => Laid(size, <<a, b>>)
  BY SMTT(90) DEF Laid, Parameter

LEMMA LaidThree ==
    \A a, b, c : \A size \in Nat :
        /\ Parameter(a) /\ Parameter(b) /\ Parameter(c)
        /\ a.at + a.width <= b.at /\ b.at + b.width <= c.at /\ c.at + c.width <= size
        => Laid(size, <<a, b, c>>)
  BY SMTT(90) DEF Laid, Parameter

LEMMA LaidFour ==
    \A a, b, c, d : \A size \in Nat :
        /\ Parameter(a) /\ Parameter(b) /\ Parameter(c) /\ Parameter(d)
        /\ a.at + a.width <= b.at /\ b.at + b.width <= c.at
        /\ c.at + c.width <= d.at /\ d.at + d.width <= size
        => Laid(size, <<a, b, c, d>>)
  BY SMTT(90) DEF Laid, Parameter

\* A window is a row of parameters of two bytes.
LEMMA LaidInARow ==
    ASSUME NEW fields, NEW n \in 0..6, DOMAIN fields = 1..n,
           \A i \in 1..n : Parameter(fields[i]) /\ fields[i].at = 2 * (i - 1) /\ fields[i].width = 2
    PROVE  Laid(2 * n, fields)
  BY SMT DEF Laid, Parameter

LEMMA WindowsAreLaid ==
    /\ Laid(12, <<U16(0), U16(2), U16(4), U16(6), U16(8), U16(10)>>)
    /\ Laid(10, <<U16(0), U16(2), U16(4), U16(6), U16(8)>>)
<1> DEFINE f == <<U16(0), U16(2), U16(4), U16(6), U16(8), U16(10)>>
           g == <<U16(0), U16(2), U16(4), U16(6), U16(8)>>
<1>1. \A at \in Nat : Parameter(U16(at)) /\ U16(at).at = at /\ U16(at).width = 2
  BY Widths
<1>2. \A i \in 1..6 : f[i] = U16(2 * (i-1))
  BY SMT
<1>3. \A i \in 1..5 : g[i] = U16(2 * (i-1))
  BY SMT
<1>4. DOMAIN f = 1..6 /\ DOMAIN g = 1..5
  BY SMT
<1> HIDE DEF f, g
<1>5. Laid(12, f)
  <2> DEFINE n == 6
  <2>1. \A i \in 1..n : Parameter(f[i]) /\ f[i].at = 2 * (i - 1) /\ f[i].width = 2
    BY <1>1, <1>2, SMT
  <2>2. n \in 0..6 /\ 2 * n = 12 /\ DOMAIN f = 1..n
    BY <1>4
  <2> HIDE DEF n
  <2>3. Laid(2 * n, f)
    BY <2>1, <2>2, LaidInARow
  <2> QED  BY <2>2, <2>3
<1>6. Laid(10, g)
  <2> DEFINE n == 5
  <2>1. \A i \in 1..n : Parameter(g[i]) /\ g[i].at = 2 * (i - 1) /\ g[i].width = 2
    BY <1>1, <1>3, SMT
  <2>2. n \in 0..6 /\ 2 * n = 10 /\ DOMAIN g = 1..n
    BY <1>4
  <2> HIDE DEF n
  <2>3. Laid(2 * n, g)
    BY <2>1, <2>2, LaidInARow
  <2> QED  BY <2>2, <2>3
<1> QED  BY <1>5, <1>6, SMT DEF f, g

LEMMA ShapesAreLaid ==
    /\ Laid(1, <<U8(0)>>) /\ Laid(1, <<S8(0)>>)
    /\ Laid(2, <<U16(0)>>) /\ Laid(2, <<S16(0)>>) /\ Laid(4, <<U32(0)>>)
    /\ Laid(2, <<S8(0), U8(1)>>) /\ Laid(4, <<U16(0), U16(2)>>) /\ Laid(8, <<S32(0), S32(4)>>)
    /\ Laid(3, <<S8(0), U8(1), U8(2)>>)
    /\ Laid(4, <<S8(0), U8(1), S8(2), U8(3)>>)
<1>1. /\ Laid(1, <<U8(0)>>) /\ Laid(1, <<S8(0)>>)
      /\ Laid(2, <<U16(0)>>) /\ Laid(2, <<S16(0)>>) /\ Laid(4, <<U32(0)>>)
  BY Widths, LaidOne, SMT
<1>2. Laid(2, <<S8(0), U8(1)>>) /\ Laid(4, <<U16(0), U16(2)>>) /\ Laid(8, <<S32(0), S32(4)>>)
  BY Widths, LaidTwo, SMT
<1>3. Laid(3, <<S8(0), U8(1), U8(2)>>)
  BY Widths, LaidThree, SMT
<1>4. Laid(4, <<S8(0), U8(1), S8(2), U8(3)>>)
  BY Widths, LaidFour, SMT
<1> QED  BY <1>1, <1>2, <1>3, <1>4, Zenon

LEMMA ParametersAreLaid == \A c \in UvcControlSet : Laid(c.size, c.fields)
<1>1. \A n, u, s :
        /\ WellFormed(Control(n, u, s, 1, <<U8(0)>>))
        /\ WellFormed(Control(n, u, s, 1, <<S8(0)>>))
        /\ WellFormed(Control(n, u, s, 2, <<U16(0)>>))
        /\ WellFormed(Control(n, u, s, 2, <<S16(0)>>))
        /\ WellFormed(Control(n, u, s, 4, <<U32(0)>>))
        /\ WellFormed(Control(n, u, s, 2, <<S8(0), U8(1)>>))
        /\ WellFormed(Control(n, u, s, 4, <<U16(0), U16(2)>>))
        /\ WellFormed(Control(n, u, s, 8, <<S32(0), S32(4)>>))
        /\ WellFormed(Control(n, u, s, 3, <<S8(0), U8(1), U8(2)>>))
        /\ WellFormed(Control(n, u, s, 4, <<S8(0), U8(1), S8(2), U8(3)>>))
        /\ WellFormed(Control(n, u, s, 12, <<U16(0), U16(2), U16(4), U16(6), U16(8), U16(10)>>))
        /\ WellFormed(Control(n, u, s, 10, <<U16(0), U16(2), U16(4), U16(6), U16(8)>>))
  BY ShapesAreLaid, WindowsAreLaid, SMT DEF WellFormed, Control
<1>2. \A c \in UvcControlSet : WellFormed(c)
  BY <1>1, SMTT(90) DEF UvcControlSet, ScanningControls, AutoExposureControls,
      ExposureControls, FocusControls, AutoFocusControls, IrisControls, ZoomControls, PanTiltControls,
      RollControls, WindowControls, RegionControls, LightControls, ContrastControls, GainControls,
      HueControls, PictureControls, WhiteBalanceControls, WhiteComponentControls, MultiplierControls,
      AnalogControls, SelectorControls, PowerControls
<1> QED  BY <1>2 DEF WellFormed

\* No two controls are the same register of the camera.
LEMMA OneControlPerRegister ==
    \A c, d \in UvcControlSet : c.unit = d.unit /\ c.selector = d.selector => c = d
  BY SMTT(90) DEF Control, UvcControlSet, ScanningControls, AutoExposureControls,
      ExposureControls, FocusControls, AutoFocusControls, IrisControls, ZoomControls, PanTiltControls,
      RollControls, WindowControls, RegionControls, LightControls, ContrastControls, GainControls,
      HueControls, PictureControls, WhiteBalanceControls, WhiteComponentControls, MultiplierControls,
      AnalogControls, SelectorControls, PowerControls

-----------------------------------------------------------------------------
(* Transfers.                                                                *)

\* The byte that is read first, and its value as the high byte of the parameter.
Top(data, f) == data[f.at + f.width - 1]
First(data, f) == IF f.signed /\ Top(data, f) >= 128 THEN Top(data, f) - 256 ELSE Top(data, f)

\* The recursion of ValueAt, step by step.
LEMMA FromTop ==
    ASSUME NEW data, NEW f, f.width \in {1, 2, 4}
    PROVE  \E v : /\ ValueAt(data, f) = v[f.width]
                  /\ v[1] = First(data, f)
                  /\ \A k \in 2..f.width : v[k] = v[k - 1] * 256 + data[f.at + f.width - k]
<1> DEFINE w == f.width
           d(k) == data[f.at + w - k]
           F(v) == [k \in 1..w |-> IF k > 1 THEN v[k - 1] * 256 + d(k) ELSE First(data, f)]
           a1 == First(data, f)
           a2 == a1 * 256 + d(2)
           a3 == a2 * 256 + d(3)
           a4 == a3 * 256 + d(4)
           u == [k \in 1..w |-> IF k = 1 THEN a1 ELSE IF k = 2 THEN a2 ELSE IF k = 3 THEN a3 ELSE a4]
           v == CHOOSE x : x = F(x)
<1>1. ValueAt(data, f) = v[w]
  BY DEF ValueAt, First, Top
<1> HIDE DEF a1, d
<1>2. u = F(u)
  <2>1. \A k \in 1..w : u[k] = F(u)[k]
    BY SMT DEF a1
  <2>2. u = [k \in 1..w |-> u[k]] /\ F(u) = [k \in 1..w |-> F(u)[k]]
    <3>1. u = [k \in 1..w |-> u[k]]
      BY SMT
    <3>2. F(u) = [k \in 1..w |-> F(u)[k]]
      <4> HIDE DEF u
      <4> QED  BY SMT
    <3> QED  BY <3>1, <3>2
  <2> DEFINE g == F(u)
  <2>3. u = [k \in 1..w |-> u[k]] /\ g = [k \in 1..w |-> g[k]] /\ \A k \in 1..w : u[k] = g[k]
    BY <2>1, <2>2
  <2> HIDE DEF u, g, w
  <2>4. u = g
    BY <2>3
  <2> QED  BY <2>4 DEF g
<1>3. v = F(v)
  <2> HIDE DEF F, u
  <2> QED  BY <1>2
<1> HIDE DEF v
<1>4. v[1] = First(data, f) /\ \A k \in 2..w : v[k] = v[k - 1] * 256 + d(k)
  <2>1. 1 \in 1..w /\ ~(1 > 1) /\ \A k \in 2..w : k \in 1..w /\ k > 1
    BY SMT
  <2>2. \A k \in 1..w : F(v)[k] = IF k > 1 THEN v[k - 1] * 256 + d(k) ELSE First(data, f)
    OBVIOUS
  <2> HIDE DEF F, w
  <2> QED  BY <1>3, <2>1, <2>2, Zenon
<1> QED  BY <1>1, <1>4 DEF d

\* The k-th byte of a number.
Byte(n, k) == (n \div (256 ^ k)) % 256

\* The values of the C type of a parameter.
InRange(f, n) ==
    /\ n \in Int
    /\ f.width = 1 => IF f.signed THEN -128 <= n /\ n < 128 ELSE 0 <= n /\ n < 256
    /\ f.width = 2 => IF f.signed THEN -32768 <= n /\ n < 32768 ELSE 0 <= n /\ n < 65536
    /\ f.width = 4 => IF f.signed THEN -2147483648 <= n /\ n < 2147483648 ELSE 0 <= n /\ n < 4294967296

LEMMA Powers == 256 ^ 0 = 1 /\ 256 ^ 1 = 256 /\ 256 ^ 2 = 65536 /\ 256 ^ 3 = 16777216
  BY SMT

LEMMA Bytes ==
    ASSUME NEW n \in Int
    PROVE  /\ Byte(n, 0) = n % 256 /\ Byte(n, 1) = (n \div 256) % 256
           /\ Byte(n, 2) = ((n \div 256) \div 256) % 256
           /\ Byte(n, 3) = (((n \div 256) \div 256) \div 256) % 256
<1>1. (n \div 256) \div 256 = n \div 65536 /\ n \div 65536 \in Int
  BY SMT
<1>2. (n \div 65536) \div 256 = n \div 16777216
  BY SMT
<1>3. Byte(n, 0) = n % 256
  BY Powers, SMT DEF Byte
<1>4. Byte(n, 1) = (n \div 256) % 256
  BY Powers, SMT DEF Byte
<1>5. Byte(n, 2) = (n \div 65536) % 256
  BY Powers, SMT DEF Byte
<1>6. Byte(n, 3) = (n \div 16777216) % 256
  BY Powers, SMT DEF Byte
<1> QED  BY <1>1, <1>2, <1>3, <1>4, <1>5, <1>6, SMT

LEMMA BytesOff ==
    ASSUME NEW n \in Int
    PROVE  n \div 256 \in Int /\ n % 256 \in Int /\ n = (n \div 256) * 256 + (n % 256)
<1>1. n = (n \div 256) * 256 + (n % 256)
  BY SMT
<1> QED  BY <1>1, SMT

LEMMA TopByte ==
    ASSUME NEW n \in Int
    PROVE  /\ (0 <= n /\ n < 256) => n % 256 = n
           /\ (-128 <= n /\ n < 128) => (IF n % 256 >= 128 THEN (n % 256) - 256 ELSE n % 256) = n
  BY SMT

LEMMA Quotients ==
    ASSUME NEW n \in Int
    PROVE  /\ (-32768 <= n /\ n < 32768) => -128 <= n \div 256 /\ n \div 256 < 128
           /\ (0 <= n /\ n < 65536) => 0 <= n \div 256 /\ n \div 256 < 256
           /\ (-2147483648 <= n /\ n < 2147483648) => -8388608 <= n \div 256 /\ n \div 256 < 8388608
           /\ (0 <= n /\ n < 4294967296) => 0 <= n \div 256 /\ n \div 256 < 16777216
           /\ (-8388608 <= n /\ n < 8388608) => -32768 <= n \div 256 /\ n \div 256 < 32768
           /\ (0 <= n /\ n < 16777216) => 0 <= n \div 256 /\ n \div 256 < 65536
  BY SMT

\* A number is read back from its bytes.
LEMMA ReadsBack ==
    ASSUME NEW data, NEW f, Parameter(f), NEW n, InRange(f, n),
           \A k \in 0..f.width - 1 : data[f.at + k] = Byte(n, k)
    PROVE  ValueAt(data, f) = n
<1> DEFINE m == n \div 256
           l == m \div 256
           h == l \div 256
           w == f.width
<1>1. n \in Int /\ m \in Int /\ l \in Int /\ h \in Int /\ f.at \in Nat /\ w \in {1, 2, 4}
  BY BytesOff, SMT DEF InRange, Parameter
<1>2. PICK v : /\ ValueAt(data, f) = v[w]
               /\ v[1] = First(data, f)
               /\ \A k \in 2..w : v[k] = v[k - 1] * 256 + data[f.at + w - k]
  BY FromTop, <1>1
<1>3. n = m * 256 + (n % 256) /\ m = l * 256 + (m % 256) /\ l = h * 256 + (l % 256)
  <2>1. n = m * 256 + (n % 256)
    BY <1>1, BytesOff, Zenon
  <2>2. m = l * 256 + (m % 256)
    BY <1>1, BytesOff, Zenon
  <2>3. l = h * 256 + (l % 256)
    BY <1>1, BytesOff, Zenon
  <2> QED  BY <2>1, <2>2, <2>3
<1>4. /\ Byte(n, 0) = n % 256 /\ Byte(n, 1) = m % 256
      /\ Byte(n, 2) = l % 256 /\ Byte(n, 3) = h % 256
  BY <1>1, Bytes
<1>5. CASE w = 1
  <2>1. Top(data, f) = n % 256
    <3>1. f.at + f.width - 1 = f.at + 0 /\ 0 \in 0..f.width - 1
      BY <1>1, <1>5
    <3> QED  BY <3>1, <1>4 DEF Top
  <2>2. First(data, f) = n
    BY <1>1, <1>5, <2>1, TopByte DEF First, InRange
  <2> QED  BY <1>2, <1>5, <2>2
<1>6. CASE w = 2
  <2>1. Top(data, f) = m % 256 /\ data[f.at + w - 2] = n % 256
    <3>1. /\ f.at + f.width - 1 = f.at + 1 /\ 1 \in 0..f.width - 1
          /\ f.at + f.width - 2 = f.at + 0 /\ 0 \in 0..f.width - 1
      BY <1>1, <1>6
    <3> QED  BY <3>1, <1>4 DEF Top
  <2>2. First(data, f) = m
    BY <1>1, <1>6, <2>1, TopByte, Quotients DEF First, InRange
  <2>3. v[2] = v[1] * 256 + data[f.at + w - 2]
    <3>1. 2 \in 2..w /\ 2 - 1 = 1
      BY <1>6
    <3> HIDE DEF w
    <3>2. v[2] = v[2 - 1] * 256 + data[f.at + w - 2]
      BY <1>2, <3>1
    <3> QED  BY <3>1, <3>2, Zenon
  <2> HIDE DEF m, l, h
  <2> QED  BY <1>2, <1>3, <1>6, <2>1, <2>2, <2>3, SMT
<1>7. CASE w = 4
  <2>1. /\ Top(data, f) = h % 256 /\ data[f.at + w - 2] = l % 256
        /\ data[f.at + w - 3] = m % 256 /\ data[f.at + w - 4] = n % 256
    <3>1. /\ f.at + f.width - 1 = f.at + 3 /\ 3 \in 0..f.width - 1
          /\ f.at + f.width - 2 = f.at + 2 /\ 2 \in 0..f.width - 1
          /\ f.at + f.width - 3 = f.at + 1 /\ 1 \in 0..f.width - 1
          /\ f.at + f.width - 4 = f.at + 0 /\ 0 \in 0..f.width - 1
      BY <1>1, <1>7
    <3> QED  BY <3>1, <1>4 DEF Top
  <2>2. First(data, f) = h
    <3>1. IF f.signed THEN -128 <= h /\ h < 128 ELSE 0 <= h /\ h < 256
      BY <1>1, <1>7, Quotients, SMT DEF InRange
    <3> QED  BY <1>1, <2>1, <3>1, TopByte DEF First
  <2>3. /\ v[2] = v[1] * 256 + data[f.at + w - 2]
        /\ v[3] = v[2] * 256 + data[f.at + w - 3]
        /\ v[4] = v[3] * 256 + data[f.at + w - 4]
    <3>1. /\ 2 \in 2..w /\ 2 - 1 = 1 /\ 3 \in 2..w /\ 3 - 1 = 2 /\ 4 \in 2..w /\ 4 - 1 = 3
      BY <1>7
    <3> HIDE DEF w
    <3>2. \A k \in 2..w : v[k] = v[k - 1] * 256 + data[f.at + w - k]
      BY <1>2
    <3>3. v[2] = v[2 - 1] * 256 + data[f.at + w - 2]
      BY <3>1, <3>2
    <3>4. v[3] = v[3 - 1] * 256 + data[f.at + w - 3]
      BY <3>1, <3>2
    <3>5. v[4] = v[4 - 1] * 256 + data[f.at + w - 4]
      BY <3>1, <3>2
    <3>6. 2 - 1 = 1 /\ 3 - 1 = 2 /\ 4 - 1 = 3
      OBVIOUS
    <3> QED  BY <3>3, <3>4, <3>5, <3>6, Zenon
  <2> HIDE DEF m, l, h
  <2> QED  BY <1>2, <1>3, <1>7, <2>1, <2>2, <2>3, SMT
<1> QED  BY <1>1, <1>5, <1>6, <1>7

\* What uvc_set_<control> writes are the bytes of each parameter at its place.
LEMMA EncodedByte ==
    ASSUME NEW c, Laid(c.size, c.fields), NEW values, NEW i \in DOMAIN c.fields,
           NEW k \in 0..c.fields[i].width - 1
    PROVE  Encoded(c, values)[c.fields[i].at + k] = Byte(values[i], k)
<1> DEFINE at(j) == c.fields[j].at
           w(j) == c.fields[j].width
           b == at(i) + k
           In(j) == b \in at(j)..at(j) + w(j) - 1
           j == CHOOSE x \in DOMAIN c.fields : In(x)
<1>1. /\ c.size \in Nat /\ \A x \in DOMAIN c.fields : at(x) \in Nat /\ w(x) \in Nat /\ at(x) + w(x) <= c.size /\ x \in Int
      /\ \A x, y \in DOMAIN c.fields : x < y => at(x) + w(x) <= at(y)
  BY DEF Laid, Parameter
<1>2. k \in Int /\ 0 <= k /\ k <= w(i) - 1
  BY <1>1
<1> HIDE DEF at, w
<1>3. In(i) /\ b \in 0..c.size - 1 /\ b - at(i) = k
  BY <1>1, <1>2
<1>4. \A x \in DOMAIN c.fields : In(x) => x = i
  <2> SUFFICES ASSUME NEW x \in DOMAIN c.fields, In(x), x # i PROVE FALSE
    OBVIOUS
  <2>1. x \in Int /\ at(x) \in Nat /\ w(x) \in Nat /\ b \in Int /\ at(x) <= b /\ b <= at(x) + w(x) - 1
    BY <1>1, <1>2
  <2>2. i \in Int /\ at(i) \in Nat /\ w(i) \in Nat /\ at(i) <= b /\ b <= at(i) + w(i) - 1
    BY <1>1, <1>2
  <2>3. x < i => at(x) + w(x) <= at(i)
    BY <1>1
  <2>4. i < x => at(i) + w(i) <= at(x)
    BY <1>1
  <2> HIDE DEF b, In
  <2> QED  BY <2>1, <2>2, <2>3, <2>4
<1> HIDE DEF In
<1>5. j = i
  BY <1>3, <1>4
<1>6. Encoded(c, values)[b] = (values[j] \div (256 ^ (b - at(j)))) % 256
  BY <1>3 DEF Encoded, In, at, w
<1> HIDE DEF j, b
<1>7. Encoded(c, values)[b] = Byte(values[i], k)
  BY <1>3, <1>5, <1>6 DEF Byte
<1> QED  BY <1>7 DEF b, at

\* The values lie in the types of the parameters.
Legal(c, values) ==
    /\ values = [i \in DOMAIN c.fields |-> values[i]]
    /\ \A i \in DOMAIN c.fields : InRange(c.fields[i], values[i])

\* What a legal call of uvc_set_<control> writes, uvc_get_<control> reads back, for all
\* values of all parameters of all controls.
THEOREM RoundTrip ==
    ASSUME NEW c \in UvcControlSet, NEW values, Legal(c, values)
    PROVE  Decoded(c, Encoded(c, values)) = values
<1> DEFINE data == Encoded(c, values)
<1>1. Laid(c.size, c.fields)
  BY ParametersAreLaid
<1>2. \A i \in DOMAIN c.fields : ValueAt(data, c.fields[i]) = values[i]
  <2> SUFFICES ASSUME NEW i \in DOMAIN c.fields PROVE ValueAt(data, c.fields[i]) = values[i]
    OBVIOUS
  <2>1. Parameter(c.fields[i]) /\ InRange(c.fields[i], values[i])
    BY <1>1 DEF Laid, Legal
  <2>2. \A k \in 0..c.fields[i].width - 1 : data[c.fields[i].at + k] = Byte(values[i], k)
    BY <1>1, EncodedByte
  <2> HIDE DEF data
  <2> QED  BY <2>1, <2>2, ReadsBack
<1> HIDE DEF data
<1>3. Decoded(c, data) = values
  BY <1>2 DEF Decoded, Legal
<1> QED  BY <1>3 DEF data

-----------------------------------------------------------------------------
(* The registers of the camera.                                              *)

\* The register of a control that was set holds the encoding of its legal values.
ControlInv ==
    /\ DOMAIN written \subseteq UvcControlSet
    /\ \A c \in DOMAIN written :
         /\ Legal(c, written[c])
         /\ <<c.unit, c.selector>> \in DOMAIN regs
         /\ regs[<<c.unit, c.selector>>] = Encoded(c, written[c])
    /\ reply.ret = 0 => reply.control \in DOMAIN written /\ reply.values = written[reply.control]

\* What of a step concerns the controls.
LEMMA StepsOfTheControls ==
    [Next]_vars => \/ UNCHANGED controlVars
                   \/ ControlsDone
                   \/ \E c \in UvcControlSet : SetControl(c) \/ GetControl(c)
  BY DEF Next, vars, MainLoop, NotMain, Plug, Unplug, StatusCallback, HandlerThread, Bus, Usb, User,
         WaitConnected, FindDevice, Open, Negotiate, Commit, Start, WaitDisconnected, StopStreaming,
         Close, Join, Panic

LEMMA SampleInRange ==
    ASSUME NEW f, Parameter(f), NEW i \in 1..6, NEW high PROVE InRange(f, Sample(f, i, high))
<1>1. CASE f.width = 1
  BY <1>1, SMT DEF InRange, Parameter, Sample
<1>2. CASE f.width = 2
  BY <1>2, SMT DEF InRange, Parameter, Sample
<1>3. CASE f.width = 4
  BY <1>3, SMT DEF InRange, Parameter, Sample
<1> QED  BY <1>1, <1>2, <1>3 DEF Parameter

LEMMA SamplesAreLegal ==
    ASSUME NEW c \in UvcControlSet, NEW values \in Samples(c) PROVE Legal(c, values)
<1>1. \A i \in DOMAIN c.fields : Parameter(c.fields[i]) /\ i \in 1..6
  BY ParametersAreLaid DEF Laid
<1>2. PICK high \in BOOLEAN : values = [i \in DOMAIN c.fields |-> Sample(c.fields[i], i, high)]
  BY DEF Samples
<1>3. \A i \in DOMAIN c.fields : InRange(c.fields[i], Sample(c.fields[i], i, high))
  BY <1>1, SampleInRange
<1> QED  BY <1>2, <1>3 DEF Legal

LEMMA ControlsStay == ASSUME UNCHANGED controlVars, ControlInv PROVE ControlInv'
  BY DEF ControlInv, controlVars

LEMMA ControlStep == ControlInv /\ [Next]_vars => ControlInv'
<1> SUFFICES ASSUME ControlInv, [Next]_vars PROVE ControlInv'
  OBVIOUS
<1>1. CASE UNCHANGED controlVars
  BY <1>1, ControlsStay
<1>2. CASE ControlsDone
  BY <1>2 DEF ControlsDone, ControlInv, NoReply
<1>3. ASSUME NEW c \in UvcControlSet, SetControl(c) PROVE ControlInv'
  <2> DEFINE key(x) == <<x.unit, x.selector>>
  <2>1. PICK values \in Samples(c) :
          /\ regs' = [r \in DOMAIN regs \cup {key(c)} |-> IF r = key(c) THEN Encoded(c, values) ELSE regs[r]]
          /\ written' = [x \in DOMAIN written \cup {c} |-> IF x = c THEN values ELSE written[x]]
    BY <1>3 DEF SetControl
  <2>2. reply' = NoReply
    BY <1>3 DEF SetControl
  <2>3. Legal(c, values)
    BY SamplesAreLegal
  <2>4. DOMAIN written' = DOMAIN written \cup {c} /\ DOMAIN regs' = DOMAIN regs \cup {key(c)}
    BY <2>1
  <2>5. written'[c] = values /\ regs'[key(c)] = Encoded(c, values)
    BY <2>1
  <2>6. ASSUME NEW x \in DOMAIN written, x # c
        PROVE  written'[x] = written[x] /\ regs'[key(x)] = regs[key(x)] /\ key(x) \in DOMAIN regs
    <3>1. x \in UvcControlSet /\ key(x) \in DOMAIN regs
      BY DEF ControlInv
    <3>2. key(x) # key(c)
      BY <2>6, <3>1, OneControlPerRegister
    <3> HIDE DEF key
    <3> QED  BY <2>1, <2>6, <3>1, <3>2
  <2>7. ASSUME NEW x \in DOMAIN written'
        PROVE  Legal(x, written'[x]) /\ key(x) \in DOMAIN regs' /\ regs'[key(x)] = Encoded(x, written'[x])
    <3>1. CASE x = c
      BY <2>3, <2>4, <2>5, <3>1
    <3>2. CASE x # c
      BY <2>4, <2>6, <2>7, <3>2 DEF ControlInv
    <3> QED  BY <3>1, <3>2
  <2>8. DOMAIN written' \subseteq UvcControlSet
    BY <2>4 DEF ControlInv
  <2>9. reply'.ret # 0
    BY <2>2 DEF NoReply
  <2> QED  BY <2>7, <2>8, <2>9 DEF ControlInv
<1>4. ASSUME NEW c \in UvcControlSet, GetControl(c) PROVE ControlInv'
  <2> DEFINE data == regs[<<c.unit, c.selector>>]
  <2>1. PICK ret \in Returned(c) : reply' = Reply(c, ret, data, <<>>)
    BY <1>4 DEF GetControl
  <2>2. UNCHANGED <<regs, written>> /\ c \in DOMAIN written
    BY <1>4 DEF GetControl
  <2>3. Decoded(c, data) = written[c]
    BY <2>2, RoundTrip DEF ControlInv
  <2> HIDE DEF data
  <2>4. reply'.ret = 0 => reply'.control = c /\ reply'.values = Decoded(c, data)
    BY <2>1 DEF Returned, Reply
  <2> QED  BY <2>2, <2>3, <2>4 DEF ControlInv
<1> QED  BY <1>1, <1>2, <1>3, <1>4, StepsOfTheControls

\* Every control that was set keeps its values, and uvc_get_<control> returns them.
THEOREM ControlsKeepTheirValues == Spec => []ControlsReadBack
<1>1. Init => ControlInv
  BY DEF Init, ControlInv, NoReply
<1>2. ControlInv => ControlsReadBack
  <2> SUFFICES ASSUME ControlInv PROVE ControlsReadBack
    OBVIOUS
  <2>1. ASSUME NEW c \in DOMAIN written
        PROVE  Decoded(c, regs[<<c.unit, c.selector>>]) = written[c]
    <3>1. /\ c \in UvcControlSet /\ Legal(c, written[c])
          /\ regs[<<c.unit, c.selector>>] = Encoded(c, written[c])
      BY DEF ControlInv
    <3> QED  BY <3>1, RoundTrip
  <2> QED  BY <2>1 DEF ControlInv, ControlsReadBack
<1> QED  BY <1>1, <1>2, ControlStep, PTL DEF Spec
-----------------------------------------------------------------------------
(* Numbers: the least of a set, and induction up to a bound.                 *)

\* A set of naturals with an element has a least one.
LEMMA LeastNatural ==
    ASSUME NEW S, S \subseteq Nat, S # {}
    PROVE  \E x \in S : \A y \in S : x <= y
<1>1. PICK x \in S : \A y \in S : <<y, x>> \notin OpToRel(<, Nat)
  BY NatLessThanWellFounded, WFMin, Zenon
<1>2. \A y \in S : x <= y
  <2>1. TAKE y \in S
  <2>2. ~(y < x)
    BY <1>1 DEF OpToRel
  <2>3. x \in Nat /\ y \in Nat
    OBVIOUS
  <2> QED  BY <2>2, <2>3
<1> QED  BY <1>2

\* A set that has 0, and with a number the next one up to n, has all of them.
LEMMA AllUpTo ==
    ASSUME NEW n \in Nat, NEW G, 0 \in G, \A k \in 1..n : k - 1 \in G => k \in G
    PROVE  \A k \in 0..n : k \in G
<1> DEFINE B == {k \in 0..n : k \notin G}
<1> SUFFICES ASSUME B # {} PROVE FALSE
  OBVIOUS
<1>1. PICK b \in B : \A y \in B : b <= y
  <2>1. B \subseteq Nat
    OBVIOUS
  <2> HIDE DEF B
  <2> QED  BY <2>1, LeastNatural
<1>2. b \in 1..n /\ b - 1 \in 0..n /\ b \notin G /\ ~(b <= b - 1)
  OBVIOUS
<1>3. b - 1 \notin B
  BY <1>1, <1>2
<1> QED  BY <1>2, <1>3

-----------------------------------------------------------------------------
(* The numbers of a set in order.                                            *)

OrderedUpTo(S, n, f) ==
    f = [k \in 0..n |-> IF k = 0 THEN <<>>
                        ELSE IF k \in S THEN Append(f[k - 1], k) ELSE f[k - 1]]

LEMMA OrderedUpToExists == ASSUME NEW S, NEW n \in Nat PROVE \E f : OrderedUpTo(S, n, f)
<1> DEFINE G == {m \in 0..n : \E f : OrderedUpTo(S, m, f)}
<1>1. 0 \in G
  <2> DEFINE f == [k \in 0..0 |-> <<>>]
  <2>1. OrderedUpTo(S, 0, f)
    BY DEF OrderedUpTo
  <2> QED  BY <2>1
<1>2. ASSUME NEW m \in 1..n, m - 1 \in G PROVE m \in G
  <2>1. PICK f : OrderedUpTo(S, m - 1, f)
    BY <1>2
  <2>2. \A k \in 0..m - 1 : f[k] = IF k = 0 THEN <<>>
                                   ELSE IF k \in S THEN Append(f[k - 1], k) ELSE f[k - 1]
    BY <2>1 DEF OrderedUpTo
  <2> DEFINE last == IF m \in S THEN Append(f[m - 1], m) ELSE f[m - 1]
             g == [k \in 0..m |-> IF k < m THEN f[k] ELSE last]
  <2>3. \A k \in 0..m : g[k] = IF k = 0 THEN <<>>
                               ELSE IF k \in S THEN Append(g[k - 1], k) ELSE g[k - 1]
    <3> TAKE k \in 0..m
    <3>1. CASE k < m
      <4>1. k \in 0..m - 1 /\ g[k] = f[k] /\ (k # 0 => g[k - 1] = f[k - 1])
        BY <3>1
      <4> QED  BY <2>2, <4>1
    <3>2. CASE k = m
      <4>1. g[k] = last /\ g[k - 1] = f[k - 1] /\ k # 0
        BY <3>2
      <4> QED  BY <3>2, <4>1
    <3> QED  BY <3>1, <3>2
  <2>4. OrderedUpTo(S, m, g)
    BY <2>3 DEF OrderedUpTo
  <2> QED  BY <2>4
<1> HIDE DEF G
<1>3. n \in G
  BY <1>1, <1>2, AllUpTo
<1> QED  BY <1>3 DEF G

LEMMA OrderedIsSeq ==
    ASSUME NEW S, NEW n \in Nat
    PROVE  /\ Ordered(S, n) \in Seq(S \cap (1..n))
           /\ S \cap (1..n) # {} => Len(Ordered(S, n)) > 0
<1> DEFINE T == S \cap (1..n)
           f == CHOOSE g : OrderedUpTo(S, n, g)
           G == {k \in 0..n : f[k] \in Seq(T) /\ (S \cap (1..k) # {} => Len(f[k]) > 0)}
<1>1. \A k \in 0..n : f[k] = IF k = 0 THEN <<>>
                             ELSE IF k \in S THEN Append(f[k - 1], k) ELSE f[k - 1]
  <2>1. OrderedUpTo(S, n, f)
    BY OrderedUpToExists
  <2> HIDE DEF f
  <2> QED  BY <2>1 DEF OrderedUpTo
<1>2. Ordered(S, n) = f[n]
  BY DEF Ordered, OrderedUpTo
<1> HIDE DEF f
<1>3. 0 \in G
  <2>1. 0 \in 0..n
    OBVIOUS
  <2>2. f[0] = <<>> /\ <<>> \in Seq(T)
    BY <1>1, <2>1
  <2>3. S \cap (1..0) = {}
    OBVIOUS
  <2> QED  BY <2>1, <2>2, <2>3
<1>4. ASSUME NEW k \in 1..n, k - 1 \in G PROVE k \in G
  <2>1. f[k - 1] \in Seq(T)
    BY <1>4
  <2>2. CASE k \in S
    <3>1. k \in 0..n /\ k # 0 /\ k \in T
      BY <2>2
    <3>2. f[k] = Append(f[k - 1], k)
      BY <1>1, <2>2, <3>1, Zenon
    <3> HIDE DEF T
    <3>3. f[k] \in Seq(T) /\ Len(f[k]) = Len(f[k - 1]) + 1 /\ Len(f[k - 1]) \in Nat
      BY <2>1, <3>1, <3>2, AppendProperties
    <3> QED  BY <3>3 DEF T
  <2>3. CASE k \notin S
    <3>1. f[k] = f[k - 1] /\ S \cap (1..k) = S \cap (1..k - 1)
      BY <1>1, <2>3
    <3> QED  BY <1>4, <3>1
  <2> QED  BY <2>2, <2>3
<1> HIDE DEF G
<1>5. n \in G
  BY <1>3, <1>4, AllUpTo
<1> QED  BY <1>2, <1>5 DEF G
-----------------------------------------------------------------------------
(* Sequences of sequences.                                                   *)

FlatUpTo(s, n, f) == f = [i \in 1..n |-> IF i = 1 THEN s[i] ELSE f[i - 1] \o s[i]]

LEMMA FlatUpToExists == ASSUME NEW s, NEW n \in Nat PROVE \E f : FlatUpTo(s, n, f)
<1> DEFINE G == {m \in 0..n : \E f : FlatUpTo(s, m, f)}
<1>1. 0 \in G
  <2> DEFINE f == [k \in 1..0 |-> s]
  <2>1. FlatUpTo(s, 0, f)
    BY DEF FlatUpTo
  <2> QED  BY <2>1
<1>2. ASSUME NEW m \in 1..n, m - 1 \in G PROVE m \in G
  <2>1. PICK f : FlatUpTo(s, m - 1, f)
    BY <1>2
  <2>2. \A i \in 1..m - 1 : f[i] = IF i = 1 THEN s[i] ELSE f[i - 1] \o s[i]
    BY <2>1 DEF FlatUpTo
  <2> DEFINE last == IF m = 1 THEN s[m] ELSE f[m - 1] \o s[m]
             g == [i \in 1..m |-> IF i < m THEN f[i] ELSE last]
  <2>3. \A i \in 1..m : g[i] = IF i = 1 THEN s[i] ELSE g[i - 1] \o s[i]
    <3> TAKE i \in 1..m
    <3>1. CASE i < m
      <4>1. i \in 1..m - 1 /\ g[i] = f[i] /\ (i # 1 => g[i - 1] = f[i - 1])
        BY <3>1
      <4> QED  BY <2>2, <4>1
    <3>2. CASE i = m
      <4>1. g[i] = last /\ (i # 1 => g[i - 1] = f[i - 1])
        BY <3>2
      <4> QED  BY <3>2, <4>1
    <3> QED  BY <3>1, <3>2
  <2>4. FlatUpTo(s, m, g)
    BY <2>3 DEF FlatUpTo
  <2> QED  BY <2>4
<1> HIDE DEF G
<1>3. n \in G
  BY <1>1, <1>2, AllUpTo
<1> QED  BY <1>3 DEF G

LEMMA FlattenIsSeq ==
    ASSUME NEW T, NEW s \in Seq(Seq(T))
    PROVE  FlattenSeq(s) \in Seq(T)
<1> DEFINE n == Len(s)
           f == CHOOSE g : FlatUpTo(s, n, g)
           G == {k \in 0..n : k = 0 \/ f[k] \in Seq(T)}
<1>0. n \in Nat /\ \A k \in 1..n : s[k] \in Seq(T)
  OBVIOUS
<1>1. CASE n = 0
  BY <1>1 DEF FlattenSeq
<1>2. CASE n # 0
  <2>1. FlattenSeq(s) = f[n]
    BY <1>2 DEF FlattenSeq, FlatUpTo
  <2>2. \A k \in 1..n : f[k] = IF k = 1 THEN s[k] ELSE f[k - 1] \o s[k]
    <3> HIDE DEF n
    <3>1. FlatUpTo(s, n, f)
      BY <1>0, FlatUpToExists
    <3> HIDE DEF f
    <3> QED  BY <3>1 DEF FlatUpTo
  <2> HIDE DEF f, n
  <2>3. 0 \in G
    BY <1>0
  <2>4. ASSUME NEW k \in 1..n, k - 1 \in G PROVE k \in G
    <3>1. CASE k = 1
      <4>1. f[k] = s[k]
        BY <2>2, <3>1
      <4> QED  BY <1>0, <4>1
    <3>2. CASE k # 1
      <4>1. f[k - 1] \in Seq(T) /\ s[k] \in Seq(T)
        BY <1>0, <2>4, <3>2
      <4>2. f[k] = f[k - 1] \o s[k]
        BY <2>2, <3>2
      <4>3. f[k - 1] \o s[k] \in Seq(T)
        BY <4>1, ConcatProperties
      <4> HIDE DEF G
      <4>4. f[k] \in Seq(T)
        BY <4>2, <4>3, Zenon
      <4> QED  BY <4>4 DEF G
    <3> QED  BY <3>1, <3>2
  <2>5. n \in G
    <3> HIDE DEF G
    <3>1. \A k \in 0..n : k \in G
      BY <1>0, <2>3, <2>4, AllUpTo
    <3>2. n \in 0..n
      BY <1>0
    <3> QED  BY <3>1, <3>2
  <2> QED  BY <1>2, <2>1, <2>5
<1> QED  BY <1>1, <1>2

-----------------------------------------------------------------------------
(* What descriptor.c cuts out of the descriptors.                            *)

LEMMA NextOfIsNext ==
    ASSUME NEW raw, NEW T, raw \in Seq(T), NEW p \in DOMAIN raw, NEW kinds
    PROVE  LET q == NextOf(raw, p, kinds)
           IN  /\ q \in p + 1..Len(raw) + 1
               /\ \A r \in p + 1..q - 1 : r \in DOMAIN raw /\ raw[r].kind \notin kinds
               /\ q <= Len(raw) => q \in DOMAIN raw /\ raw[q].kind \in kinds
<1> DEFINE n == Len(raw)
           after == {q \in p + 1..n : raw[q].kind \in kinds}
           least == CHOOSE q \in after : \A r \in after : q <= r
           q == NextOf(raw, p, kinds)
<1>1. n \in Nat /\ DOMAIN raw = 1..n /\ p \in 1..n
  OBVIOUS
<1>2. q = IF after = {} THEN n + 1 ELSE least
  BY DEF NextOf
<1> HIDE DEF n
<1>3. CASE after = {}
  <2>1. q = n + 1
    BY <1>2, <1>3
  <2>2. \A r \in p + 1..n : raw[r].kind \notin kinds
    BY <1>3
  <2> HIDE DEF q
  <2> QED  BY <1>1, <2>1, <2>2 DEF n, q
<1>4. CASE after # {}
  <2>1. after \subseteq Nat
    BY <1>1
  <2>2. least \in after /\ \A r \in after : least <= r
    <3> HIDE DEF after
    <3>1. \E x \in after : \A y \in after : x <= y
      BY <1>4, <2>1, LeastNatural
    <3> QED  BY <3>1
  <2>3. q \in after /\ \A r \in after : q <= r
    BY <1>2, <1>4, <2>2
  <2> HIDE DEF q, least
  <2>4. \A r \in p + 1..q - 1 : r \notin after
    BY <1>1, <2>3
  <2>5. q \in p + 1..n /\ raw[q].kind \in kinds
    BY <2>3
  <2>6. \A r \in p + 1..q - 1 : r \in 1..n /\ raw[r].kind \notin kinds
    BY <1>1, <2>4, <2>5
  <2> QED  BY <1>1, <2>5, <2>6 DEF n, q
<1> QED  BY <1>3, <1>4

\* A block belongs to the last interface before it.
LEMMA InterfaceOfIsLast ==
    ASSUME NEW raw, NEW p \in Nat \ {0}, NEW q \in Nat, p <= q,
           raw[p].kind = "interface",
           \A r \in p + 1..q : raw[r].kind # "interface"
    PROVE  InterfaceOf(raw, q) = raw[p]
<1> DEFINE Nearest(x) == raw[x].kind = "interface" /\ \A r \in x + 1..q : raw[r].kind # "interface"
           y == CHOOSE x \in 1..q : Nearest(x)
<1>1. p \in 1..q /\ Nearest(p)
  OBVIOUS
<1>2. y \in 1..q /\ Nearest(y)
  <2> HIDE DEF Nearest
  <2> QED  BY <1>1
<1>3. y = p
  <2>1. ~(y < p)
    BY <1>1, <1>2
  <2>2. ~(p < y)
    BY <1>1, <1>2
  <2> HIDE DEF y, Nearest
  <2> QED  BY <1>2, <2>1, <2>2
<1> QED  BY <1>3 DEF InterfaceOf
LEMMA PlacesAreInterfaces ==
    ASSUME NEW raw, WellFormedDescriptors(raw), NEW i \in DOMAIN Configuration(raw)
    PROVE  /\ Places(raw, i) \in Seq({p \in Interfaces(raw) : raw[p].number = i})
           /\ Len(Places(raw, i)) > 0
<1> DEFINE S == {p \in Interfaces(raw) : raw[p].number = i}
<1>1. Len(raw) \in Nat /\ DOMAIN raw = 1..Len(raw)
  BY DEF WellFormedDescriptors
<1>2. S \subseteq 1..Len(raw)
  BY <1>1 DEF Interfaces
<1>3. S # {}
  BY DEF Configuration
<1> HIDE DEF S
<1>4. S \cap (1..Len(raw)) = S
  BY <1>2
<1>5. Ordered(S, Len(raw)) \in Seq(S) /\ Len(Ordered(S, Len(raw))) > 0
  BY <1>1, <1>3, <1>4, OrderedIsSeq
<1> QED  BY <1>5 DEF Places, S

\* Each setting is cut out behind an interface descriptor of its number.
LEMMA SettingOfInterface ==
    ASSUME NEW raw, WellFormedDescriptors(raw), NEW i \in DOMAIN Configuration(raw)
    PROVE  /\ 1 \in DOMAIN Configuration(raw)[i]
           /\ \A n \in DOMAIN Configuration(raw)[i] :
                 /\ n \in Nat \ {0}
                 /\ \E p \in Interfaces(raw) :
                       /\ raw[p].number = i
                       /\ Configuration(raw)[i][n] = Altsetting(raw, p, n - 1)
<1> DEFINE P == Places(raw, i)
           S == {p \in Interfaces(raw) : raw[p].number = i}
<1>1. P \in Seq(S) /\ Len(P) > 0
  BY PlacesAreInterfaces
<1>2. Configuration(raw)[i] = [n \in DOMAIN P |-> Altsetting(raw, P[n], n - 1)]
  BY DEF Configuration
<1> HIDE DEF P, S
<1>3. DOMAIN P = 1..Len(P) /\ Len(P) \in Nat
  BY <1>1
<1>4. DOMAIN Configuration(raw)[i] = DOMAIN P /\ 1 \in DOMAIN P
  BY <1>1, <1>2, <1>3
<1>5. ASSUME NEW n \in DOMAIN P
      PROVE  /\ n \in Nat \ {0} /\ P[n] \in S
             /\ Configuration(raw)[i][n] = Altsetting(raw, P[n], n - 1)
  BY <1>1, <1>2, <1>3
<1> QED  BY <1>4, <1>5 DEF S

\* The blocks are those behind position p, up to the next interface or endpoint.
Behind(raw, p, blocks) ==
    /\ blocks \in Seq(ToSet(raw))
    /\ \A k \in 1..Len(blocks) :
          p + k \in DOMAIN raw /\ blocks[k] = raw[p + k] /\ raw[p + k].kind = "cs"

LEMMA FirstSettingIsBehind ==
    ASSUME NEW raw, WellFormedDescriptors(raw), NEW i \in DOMAIN Configuration(raw)
    PROVE  \E p \in Interfaces(raw) :
              /\ raw[p].number = i
              /\ Configuration(raw)[i][1].number = i
              /\ Behind(raw, p, Configuration(raw)[i][1].extra)
<1>1. PICK p \in Interfaces(raw) :
         raw[p].number = i /\ Configuration(raw)[i][1] = Altsetting(raw, p, 1 - 1)
  BY SettingOfInterface
<1> DEFINE n == Len(raw)
           ep == NextOf(raw, p, {"interface", "endpoint"})
           blocks == SubSeq(raw, p + 1, ep - 1)
<1>2. n \in Nat /\ DOMAIN raw = 1..n /\ p \in 1..n /\ raw \in Seq(ToSet(raw))
  BY DEF WellFormedDescriptors, Interfaces
<1>3. /\ ep \in p + 1..n + 1
      /\ \A r \in p + 1..ep - 1 : r \in DOMAIN raw /\ raw[r].kind \notin {"interface", "endpoint"}
  BY <1>2, NextOfIsNext
<1>4. Configuration(raw)[i][1].number = i /\ Configuration(raw)[i][1].extra = blocks
  <2>1. 1 - 1 = 0 /\ 0 # 6
    OBVIOUS
  <2>2. Configuration(raw)[i][1] = Altsetting(raw, p, 0)
    BY <1>1, <2>1, Zenon
  <2>3. Altsetting(raw, p, 0).number = raw[p].number /\ Altsetting(raw, p, 0).extra = blocks
    BY <2>1 DEF Altsetting
  <2> HIDE DEF blocks
  <2> QED  BY <1>1, <2>2, <2>3, Zenon
<1> HIDE DEF ep, n
<1>5. \A r \in p + 1..ep - 1 : raw[r] \in ToSet(raw) /\ raw[r].kind = "cs"
  BY <1>3 DEF WellFormedDescriptors, ToSet
<1>6. /\ blocks \in Seq(ToSet(raw))
      /\ Len(blocks) = IF p + 1 <= ep - 1 THEN ep - 1 - (p + 1) + 1 ELSE 0
      /\ \A k \in 1..ep - 1 - (p + 1) + 1 : blocks[k] = raw[p + 1 + k - 1]
  <2>1. p + 1 \in Int /\ ep - 1 \in Int
    BY <1>2, <1>3
  <2> QED  BY <1>5, <2>1, SubSeqProperties
<1> HIDE DEF blocks
<1>7. ASSUME NEW k \in 1..Len(blocks)
      PROVE  p + k \in DOMAIN raw /\ blocks[k] = raw[p + k] /\ raw[p + k].kind = "cs"
  <2>1. p \in Nat /\ ep \in Nat /\ k \in Nat /\ 1 <= k
    BY <1>2, <1>3, <1>6
  <2>2. k <= ep - 1 - p
    BY <1>6, <2>1
  <2>3. k \in 1..ep - 1 - (p + 1) + 1 /\ p + k \in p + 1..ep - 1 /\ p + 1 + k - 1 = p + k
    BY <2>1, <2>2
  <2> QED  BY <1>3, <1>5, <1>6, <2>3
<1> QED  BY <1>1, <1>4, <1>6, <1>7 DEF Behind
-----------------------------------------------------------------------------
(* The blocks of a streaming interface, one after the other.                 *)

IsSeq(s) == \E T : s \in Seq(T)

LEMMA OneMore ==
    ASSUME NEW s, IsSeq(s), NEW e
    PROVE  /\ IsSeq(Append(s, e)) /\ Len(s) \in Nat /\ Len(Append(s, e)) = Len(s) + 1
           /\ \A j \in 1..Len(s) : Append(s, e)[j] = s[j]
           /\ Append(s, e)[Len(s) + 1] = e
<1>1. PICK T : s \in Seq(T)
  BY DEF IsSeq
<1> DEFINE U == T \cup {e}
<1>2. e \in U /\ s \in Seq(U)
  BY <1>1, SeqMonotonic
<1> HIDE DEF U
<1>3. Append(s, e) \in Seq(U)
  BY <1>2, AppendProperties
<1> QED  BY <1>2, <1>3, AppendProperties DEF IsSeq

LEMMA OneReplaced ==
    ASSUME NEW s, IsSeq(s), NEW i \in 1..Len(s), NEW e
    PROVE  /\ IsSeq([s EXCEPT ![i] = e]) /\ Len([s EXCEPT ![i] = e]) = Len(s)
           /\ \A j \in 1..Len(s) : [s EXCEPT ![i] = e][j] = IF j = i THEN e ELSE s[j]
<1>1. PICK T : s \in Seq(T)
  BY DEF IsSeq
<1> DEFINE U == T \cup {e}
<1>2. e \in U /\ s \in Seq(U)
  BY <1>1, SeqMonotonic
<1> HIDE DEF U
<1>3. [s EXCEPT ![i] = e] \in Seq(U)
  BY <1>2, ExceptSeq
<1> QED  BY <1>2, <1>3, ExceptSeq DEF IsSeq

\* What is put in front of the first is put nowhere.
LEMMA NoneReplaced ==
    ASSUME NEW s, IsSeq(s), NEW e PROVE [s EXCEPT ![0] = e] = s
<1>1. PICK T : s \in Seq(T)
  BY DEF IsSeq
<1>2. s = [j \in 1..Len(s) |-> s[j]] /\ 0 \notin 1..Len(s) /\ DOMAIN s = 1..Len(s)
  BY <1>1
<1>3. [s EXCEPT ![0] = e] = [j \in 1..Len(s) |-> s[j]]
  BY <1>2
<1> QED  BY <1>2, <1>3

\* The fields of a frame that a mode is about.
SameFrame(fr, block) ==
    /\ fr.index = block.index /\ fr.width = block.width /\ fr.height = block.height
    /\ fr.intervals = block.intervals
    /\ fr.min = block.min /\ fr.max = block.max /\ fr.step = block.step

NoFormat(blocks, a, k) == \A r \in a + 1..k : ~IsFormat(blocks[r])

\* Up to block k, a frame of the format at a; the format at a; the streams of an interface.
FrameAfter(fr, blocks, a, k) ==
    \E b \in a + 1..k : IsFrame(blocks[b]) /\ SameFrame(fr, blocks[b]) /\ NoFormat(blocks, a, b)

FramesAfter(frs, blocks, a, k) ==
    IsSeq(frs) /\ \A j \in 1..Len(frs) : FrameAfter(frs[j], blocks, a, k)

FormatAt(f, blocks, a, k) ==
    /\ f = [index |-> f.index, guid |-> f.guid, frames |-> f.frames, stills |-> f.stills]
    /\ IsFormat(blocks[a]) /\ f.index = blocks[a].index
    /\ f.guid = "mjpeg" => IsMjpeg(blocks[a])
    /\ FramesAfter(f.frames, blocks, a, k)

FormatsUpTo(formats, blocks, k) ==
    /\ IsSeq(formats)
    /\ \A j \in 1..Len(formats) : \E a \in 1..k :
          /\ FormatAt(formats[j], blocks, a, k)
          /\ j = Len(formats) => NoFormat(blocks, a, k)

StreamUpTo(s, blocks, k, i) ==
    /\ s = [number |-> i, endpoint |-> s.endpoint, still |-> s.still, formats |-> s.formats]
    /\ FormatsUpTo(s.formats, blocks, k)

LEMMA FramesStay ==
    ASSUME NEW k \in Nat, NEW frs, NEW blocks, NEW a \in Nat, FramesAfter(frs, blocks, a, k)
    PROVE  FramesAfter(frs, blocks, a, k + 1)
<1>1. a + 1..k \subseteq a + 1..k + 1
  OBVIOUS
<1> QED  BY <1>1 DEF FramesAfter, FrameAfter

LEMMA FormatStays ==
    ASSUME NEW k \in Nat, NEW f, NEW blocks, NEW a \in Nat, FormatAt(f, blocks, a, k)
    PROVE  FormatAt(f, blocks, a, k + 1)
  BY FramesStay DEF FormatAt

LEMMA NoFormatStays ==
    ASSUME NEW k \in Nat, NEW blocks, NEW a \in Nat, NoFormat(blocks, a, k), ~IsFormat(blocks[k + 1])
    PROVE  NoFormat(blocks, a, k + 1)
<1>1. \A r \in a + 1..k + 1 : r \in a + 1..k \/ r = k + 1
  OBVIOUS
<1> QED  BY <1>1 DEF NoFormat

\* A block that is no format and no frame.
LEMMA FormatsStay ==
    ASSUME NEW k \in Nat, NEW formats, NEW blocks, FormatsUpTo(formats, blocks, k),
           ~IsFormat(blocks[k + 1])
    PROVE  FormatsUpTo(formats, blocks, k + 1)
<1>1. ASSUME NEW j \in 1..Len(formats)
      PROVE  \E a \in 1..k + 1 : /\ FormatAt(formats[j], blocks, a, k + 1)
                                 /\ j = Len(formats) => NoFormat(blocks, a, k + 1)
  <2>1. PICK a \in 1..k : FormatAt(formats[j], blocks, a, k)
                          /\ (j = Len(formats) => NoFormat(blocks, a, k))
    BY DEF FormatsUpTo
  <2>2. a \in Nat /\ a \in 1..k + 1
    OBVIOUS
  <2> QED  BY <2>1, <2>2, FormatStays, NoFormatStays
<1> QED  BY <1>1 DEF FormatsUpTo

\* A format.
LEMMA FormatIsAdded ==
    ASSUME NEW k \in Nat, NEW formats, NEW blocks, FormatsUpTo(formats, blocks, k),
           IsFormat(blocks[k + 1]), NEW guid, guid = "mjpeg" => IsMjpeg(blocks[k + 1])
    PROVE  FormatsUpTo(Append(formats, Format(blocks[k + 1], guid)), blocks, k + 1)
<1> DEFINE f == Format(blocks[k + 1], guid)
           new == Append(formats, f)
<1>1. FormatAt(f, blocks, k + 1, k + 1)
  <2>1. /\ f = [index |-> f.index, guid |-> f.guid, frames |-> f.frames, stills |-> f.stills]
        /\ f.index = blocks[k + 1].index /\ f.guid = guid /\ f.frames = <<>>
    BY DEF Format
  <2>2. IsSeq(<<>>) /\ Len(<<>>) = 0
    BY EmptySeq DEF IsSeq
  <2> HIDE DEF f
  <2>3. FramesAfter(f.frames, blocks, k + 1, k + 1)
    BY <2>1, <2>2 DEF FramesAfter
  <2> QED  BY <2>1, <2>3 DEF FormatAt
<1> HIDE DEF f
<1>2. /\ IsSeq(new) /\ Len(formats) \in Nat /\ Len(new) = Len(formats) + 1
      /\ \A j \in 1..Len(formats) : new[j] = formats[j]
      /\ new[Len(formats) + 1] = f
  BY OneMore DEF FormatsUpTo
<1> HIDE DEF new
<1>3. NoFormat(blocks, k + 1, k + 1) /\ k + 1 \in 1..k + 1
  BY DEF NoFormat
<1>4. ASSUME NEW j \in 1..Len(new)
      PROVE  \E a \in 1..k + 1 : /\ FormatAt(new[j], blocks, a, k + 1)
                                 /\ j = Len(new) => NoFormat(blocks, a, k + 1)
  <2>1. CASE j = Len(new)
    BY <1>1, <1>2, <1>3, <2>1
  <2>2. CASE j # Len(new)
    <3>1. j \in 1..Len(formats) /\ new[j] = formats[j]
      BY <1>2, <2>2
    <3>2. PICK a \in 1..k : FormatAt(formats[j], blocks, a, k)
      BY <3>1 DEF FormatsUpTo
    <3>3. a \in Nat /\ a \in 1..k + 1
      OBVIOUS
    <3>4. FormatAt(new[j], blocks, a, k + 1)
      BY <3>1, <3>2, <3>3, FormatStays
    <3> QED  BY <2>2, <3>3, <3>4
  <2> QED  BY <2>1, <2>2
<1>5. FormatsUpTo(new, blocks, k + 1)
  BY <1>2, <1>4 DEF FormatsUpTo
<1> QED  BY <1>5 DEF f, new
\* The last format is changed.
LEMMA LastFormatChanges ==
    ASSUME NEW k \in Nat, NEW formats, NEW blocks, FormatsUpTo(formats, blocks, k),
           ~IsFormat(blocks[k + 1]), NEW g,
           \A a \in 1..k : /\ formats # <<>> /\ NoFormat(blocks, a, k)
                           /\ FormatAt(formats[Len(formats)], blocks, a, k)
                           => FormatAt(g, blocks, a, k + 1)
    PROVE  FormatsUpTo([formats EXCEPT ![Len(formats)] = g], blocks, k + 1)
<1> DEFINE n == Len(formats)
           new == [formats EXCEPT ![n] = g]
<1>0. IsSeq(formats) /\ n \in Nat /\ (formats # <<>> <=> n # 0)
  <2>1. IsSeq(formats)
    BY DEF FormatsUpTo
  <2>2. PICK T : formats \in Seq(T)
    BY <2>1 DEF IsSeq
  <2> QED  BY <2>1, <2>2
<1> HIDE DEF n
<1>1. CASE n = 0
  <2>1. new = formats
    BY <1>0, <1>1, NoneReplaced
  <2> HIDE DEF new
  <2>2. FormatsUpTo(new, blocks, k + 1)
    BY <2>1, FormatsStay
  <2> QED  BY <2>2 DEF new, n
<1>2. CASE n # 0
  <2>1. n \in 1..n
    BY <1>0, <1>2
  <2>2. IsSeq(new) /\ Len(new) = n /\ \A j \in 1..n : new[j] = IF j = n THEN g ELSE formats[j]
    BY <1>0, <2>1, OneReplaced DEF n
  <2> HIDE DEF new
  <2>3. ASSUME NEW j \in 1..n
        PROVE  \E a \in 1..k + 1 : /\ FormatAt(new[j], blocks, a, k + 1)
                                   /\ j = n => NoFormat(blocks, a, k + 1)
    <3>1. PICK a \in 1..k : FormatAt(formats[j], blocks, a, k) /\ (j = n => NoFormat(blocks, a, k))
      BY DEF FormatsUpTo, n
    <3>2. a \in Nat /\ a \in 1..k + 1
      OBVIOUS
    <3>3. CASE j = n
      <4>1. FormatAt(g, blocks, a, k + 1)
        BY <1>0, <1>2, <3>1, <3>3 DEF n
      <4>2. new[j] = g /\ NoFormat(blocks, a, k + 1)
        BY <2>2, <3>1, <3>2, <3>3, NoFormatStays
      <4> QED  BY <3>2, <4>1, <4>2
    <3>4. CASE j # n
      <4>1. new[j] = formats[j] /\ FormatAt(formats[j], blocks, a, k + 1)
        BY <2>2, <3>1, <3>2, <3>4, FormatStays
      <4> QED  BY <3>2, <3>4, <4>1
    <3> QED  BY <3>3, <3>4
  <2>4. FormatsUpTo(new, blocks, k + 1)
    BY <2>2, <2>3 DEF FormatsUpTo
  <2> QED  BY <2>4 DEF new, n
<1> QED  BY <1>1, <1>2

LEMMA FormatFields ==
    ASSUME NEW f,
           f = [index |-> f.index, guid |-> f.guid, frames |-> f.frames, stills |-> f.stills]
    PROVE  /\ \A x : [f EXCEPT !.frames = x] =
                       [index |-> f.index, guid |-> f.guid, frames |-> x, stills |-> f.stills]
           /\ \A x : [f EXCEPT !.stills = x] =
                       [index |-> f.index, guid |-> f.guid, frames |-> f.frames, stills |-> x]
<1>1. \A x : [f EXCEPT !.frames = x] =
              [index |-> f.index, guid |-> f.guid, frames |-> x, stills |-> f.stills]
  OBVIOUS
<1>2. \A x : [f EXCEPT !.stills = x] =
              [index |-> f.index, guid |-> f.guid, frames |-> f.frames, stills |-> x]
  OBVIOUS
<1> QED  BY <1>1, <1>2

LEMMA FrameIsAdded ==
    ASSUME NEW k \in Nat, NEW f, NEW blocks, NEW a \in 1..k, FormatAt(f, blocks, a, k),
           NoFormat(blocks, a, k), IsFrame(blocks[k + 1]), NEW fr, SameFrame(fr, blocks[k + 1])
    PROVE  FormatAt([f EXCEPT !.frames = Append(@, fr)], blocks, a, k + 1)
<1> DEFINE frs == f.frames
           new == Append(frs, fr)
           g == [f EXCEPT !.frames = Append(@, fr)]
<1>1. /\ f = [index |-> f.index, guid |-> f.guid, frames |-> f.frames, stills |-> f.stills]
      /\ IsFormat(blocks[a]) /\ f.index = blocks[a].index
      /\ f.guid = "mjpeg" => IsMjpeg(blocks[a])
      /\ FramesAfter(frs, blocks, a, k)
  BY DEF FormatAt
<1>2. /\ g = [index |-> g.index, guid |-> g.guid, frames |-> g.frames, stills |-> g.stills]
      /\ g.index = f.index /\ g.guid = f.guid /\ g.frames = new
  <2>1. g = [f EXCEPT !.frames = new]
    OBVIOUS
  <2> HIDE DEF g, new
  <2>2. g = [index |-> f.index, guid |-> f.guid, frames |-> new, stills |-> f.stills]
    BY <1>1, <2>1, FormatFields
  <2> QED  BY <2>2
<1>3. ~IsFormat(blocks[k + 1])
  BY DEF IsFrame, IsFormat
<1>4. NoFormat(blocks, a, k + 1)
  BY <1>3, NoFormatStays
<1> HIDE DEF g, frs
<1>5. FramesAfter(new, blocks, a, k + 1)
  <2>1. /\ IsSeq(new) /\ Len(frs) \in Nat /\ Len(new) = Len(frs) + 1
        /\ \A j \in 1..Len(frs) : new[j] = frs[j]
        /\ new[Len(frs) + 1] = fr
    BY <1>1, OneMore DEF FramesAfter
  <2>2. FramesAfter(frs, blocks, a, k + 1)
    BY <1>1, FramesStay
  <2> HIDE DEF new
  <2>3. FrameAfter(fr, blocks, a, k + 1)
    <3>1. k + 1 \in a + 1..k + 1
      OBVIOUS
    <3> QED  BY <1>4, <3>1 DEF FrameAfter
  <2>4. \A j \in 1..Len(new) : j \in 1..Len(frs) \/ j = Len(frs) + 1
    BY <2>1
  <2> QED  BY <2>1, <2>2, <2>3, <2>4 DEF FramesAfter
<1> HIDE DEF new
<1>6. FormatAt(g, blocks, a, k + 1)
  BY <1>1, <1>2, <1>5 DEF FormatAt
<1> QED  BY <1>6 DEF g

LEMMA StillIsAdded ==
    ASSUME NEW k \in Nat, NEW f, NEW blocks, NEW a \in 1..k, FormatAt(f, blocks, a, k), NEW st
    PROVE  FormatAt([f EXCEPT !.stills = Append(@, st)], blocks, a, k + 1)
<1> DEFINE g == [f EXCEPT !.stills = Append(@, st)]
<1>1. FormatAt(f, blocks, a, k + 1)
  BY FormatStays
<1>2. f = [index |-> f.index, guid |-> f.guid, frames |-> f.frames, stills |-> f.stills]
  BY DEF FormatAt
<1>3. /\ g = [index |-> g.index, guid |-> g.guid, frames |-> g.frames, stills |-> g.stills]
      /\ g.index = f.index /\ g.guid = f.guid /\ g.frames = f.frames
  <2>1. g = [f EXCEPT !.stills = Append(f.stills, st)]
    OBVIOUS
  <2> HIDE DEF g
  <2>2. g = [index |-> f.index, guid |-> f.guid, frames |-> f.frames, stills |-> Append(f.stills, st)]
    BY <1>2, <2>1, FormatFields
  <2> QED  BY <2>2
<1> HIDE DEF g
<1>4. FormatAt(g, blocks, a, k + 1)
  BY <1>1, <1>3 DEF FormatAt
<1> QED  BY <1>4 DEF g

LEMMA StreamFields ==
    ASSUME NEW s, NEW i,
           s = [number |-> i, endpoint |-> s.endpoint, still |-> s.still, formats |-> s.formats]
    PROVE  /\ \A fs : LET t == [s EXCEPT !.formats = fs]
                      IN  t = [number |-> i, endpoint |-> t.endpoint, still |-> t.still, formats |-> fs]
           /\ \A fr : WithFrame(s, fr) =
                [s EXCEPT !.formats = [s.formats EXCEPT ![Len(s.formats)] =
                    [s.formats[Len(s.formats)] EXCEPT !.frames = Append(@, fr)]]]
           /\ \A st : WithStill(s, st) =
                [s EXCEPT !.formats = [s.formats EXCEPT ![Len(s.formats)] =
                    [s.formats[Len(s.formats)] EXCEPT !.stills = Append(@, st)]]]
<1>1. \A fs : LET t == [s EXCEPT !.formats = fs]
              IN  t = [number |-> i, endpoint |-> t.endpoint, still |-> t.still, formats |-> fs]
  OBVIOUS
<1>2. \A fr : WithFrame(s, fr) =
                [s EXCEPT !.formats = [s.formats EXCEPT ![Len(s.formats)] =
                    [s.formats[Len(s.formats)] EXCEPT !.frames = Append(@, fr)]]]
  BY DEF WithFrame
<1>3. \A st : WithStill(s, st) =
                [s EXCEPT !.formats = [s.formats EXCEPT ![Len(s.formats)] =
                    [s.formats[Len(s.formats)] EXCEPT !.stills = Append(@, st)]]]
  BY DEF WithStill
<1> QED  BY <1>1, <1>2, <1>3
\* uvc_parse_vs reads one more block.
LEMMA ParseVsReadsOn ==
    ASSUME NEW k \in Nat, NEW s, NEW blocks, NEW i, StreamUpTo(s, blocks, k, i),
           blocks[k + 1].kind = "cs"
    PROVE  StreamUpTo(ParseVs(s, blocks[k + 1]), blocks, k + 1, i)
<1> DEFINE block == blocks[k + 1]
           t == ParseVs(s, block)
           n == Len(s.formats)
           last == s.formats[n]
<1>1. /\ s = [number |-> i, endpoint |-> s.endpoint, still |-> s.still, formats |-> s.formats]
      /\ FormatsUpTo(s.formats, blocks, k)
  BY DEF StreamUpTo
<1>2. ASSUME NEW fs, t = [s EXCEPT !.formats = fs], FormatsUpTo(fs, blocks, k + 1)
      PROVE  StreamUpTo(t, blocks, k + 1, i)
  <2> HIDE DEF t
  <2>1. t = [number |-> i, endpoint |-> t.endpoint, still |-> t.still, formats |-> fs]
    BY <1>1, <1>2, StreamFields
  <2> QED  BY <1>2, <2>1 DEF StreamUpTo
<1>3. ASSUME block.sub = "input_header"
      PROVE  StreamUpTo(t, blocks, k + 1, i)
  <2>1. t = InputHeader(s, block)
    BY <1>3 DEF ParseVs
  <2>2. InputHeader(s, block) = [number |-> i, endpoint |-> block.endpoint, still |-> block.still,
                                 formats |-> s.formats]
    <3> DEFINE e == block.endpoint
               v == [s EXCEPT !.endpoint = e]
    <3>1. InputHeader(s, block) = [v EXCEPT !.still = block.still]
      BY DEF InputHeader
    <3> HIDE DEF e
    <3>2. v = [number |-> i, endpoint |-> e, still |-> s.still, formats |-> s.formats]
      BY <1>1
    <3> HIDE DEF v
    <3>3. [v EXCEPT !.still = block.still] =
             [number |-> i, endpoint |-> e, still |-> block.still, formats |-> s.formats]
      BY <3>2
    <3> QED  BY <3>1, <3>3 DEF e
  <2>3. FormatsUpTo(s.formats, blocks, k + 1)
    <3>1. ~IsFormat(block)
      BY <1>3 DEF IsFormat
    <3> QED  BY <1>1, <3>1, FormatsStay
  <2> HIDE DEF t
  <2> QED  BY <2>1, <2>2, <2>3 DEF StreamUpTo
<1>4. ASSUME NEW guid, t = [s EXCEPT !.formats = Append(@, Format(block, guid))],
             IsFormat(block), guid = "mjpeg" => IsMjpeg(block)
      PROVE  StreamUpTo(t, blocks, k + 1, i)
  <2>1. FormatsUpTo(Append(s.formats, Format(block, guid)), blocks, k + 1)
    BY <1>1, <1>4, FormatIsAdded
  <2> HIDE DEF t
  <2> QED  BY <1>2, <1>4, <2>1
<1>5. ASSUME block.sub = "format_mjpeg" PROVE StreamUpTo(t, blocks, k + 1, i)
  <2>1. IsFormat(block) /\ IsMjpeg(block)
    BY <1>5 DEF IsFormat, IsMjpeg
  <2>2. t = [s EXCEPT !.formats = Append(@, Format(block, "mjpeg"))]
    BY <1>5 DEF ParseVs
  <2> HIDE DEF t
  <2> QED  BY <1>4, <2>1, <2>2
<1>6. ASSUME block.sub \in {"format_uncompressed", "format_frame_based"}
      PROVE  StreamUpTo(t, blocks, k + 1, i)
  <2>1. IsFormat(block) /\ (block.guid = "mjpeg" => IsMjpeg(block))
    BY <1>6 DEF IsFormat, IsMjpeg
  <2>2. t = [s EXCEPT !.formats = Append(@, Format(block, block.guid))]
    BY <1>6 DEF ParseVs
  <2> HIDE DEF t
  <2> QED  BY <1>4, <2>1, <2>2
<1>7. ASSUME NEW fr, t = WithFrame(s, fr), IsFrame(block), SameFrame(fr, block)
      PROVE  StreamUpTo(t, blocks, k + 1, i)
  <2> DEFINE g == [last EXCEPT !.frames = Append(@, fr)]
  <2>1. t = [s EXCEPT !.formats = [s.formats EXCEPT ![n] = g]]
    BY <1>1, <1>7, StreamFields, Zenon
  <2>2. ~IsFormat(block)
    BY <1>7 DEF IsFrame, IsFormat
  <2>3. \A a \in 1..k : NoFormat(blocks, a, k) /\ FormatAt(last, blocks, a, k) =>
                            FormatAt(g, blocks, a, k + 1)
    BY <1>7, FrameIsAdded
  <2> HIDE DEF t, g
  <2>4. FormatsUpTo([s.formats EXCEPT ![n] = g], blocks, k + 1)
    BY <1>1, <2>2, <2>3, LastFormatChanges
  <2> QED  BY <1>2, <2>1, <2>4
<1>8. ASSUME block.sub = "frame" PROVE StreamUpTo(t, blocks, k + 1, i)
  <2>1. IsFrame(block) /\ SameFrame(Frame(block), block)
    BY <1>8 DEF IsFrame, SameFrame, Frame
  <2>2. t = WithFrame(s, Frame(block))
    BY <1>8 DEF ParseVs
  <2> HIDE DEF t
  <2> QED  BY <1>7, <2>1, <2>2
<1>9. ASSUME block.sub = "frame_frame_based" PROVE StreamUpTo(t, blocks, k + 1, i)
  <2>1. IsFrame(block) /\ SameFrame(FrameOfFrameBased(block), block)
    BY <1>9 DEF IsFrame, SameFrame, Frame, FrameOfFrameBased
  <2>2. t = WithFrame(s, FrameOfFrameBased(block))
    BY <1>9 DEF ParseVs
  <2> HIDE DEF t
  <2> QED  BY <1>7, <2>1, <2>2
<1>10. ASSUME block.sub = "still_frame" PROVE StreamUpTo(t, blocks, k + 1, i)
  <2> DEFINE st == StillFrame(block)
             g == [last EXCEPT !.stills = Append(@, st)]
  <2>0. t = WithStill(s, st)
    BY <1>10 DEF ParseVs
  <2> HIDE DEF st
  <2>1. t = [s EXCEPT !.formats = [s.formats EXCEPT ![n] = g]]
    BY <1>1, <2>0, StreamFields, Zenon
  <2>2. ~IsFormat(block)
    BY <1>10 DEF IsFormat
  <2>3. \A a \in 1..k : FormatAt(last, blocks, a, k) => FormatAt(g, blocks, a, k + 1)
    BY StillIsAdded
  <2> HIDE DEF t, g
  <2>4. FormatsUpTo([s.formats EXCEPT ![n] = g], blocks, k + 1)
    BY <1>1, <2>2, <2>3, LastFormatChanges
  <2> QED  BY <1>2, <2>1, <2>4
<1>11. ASSUME block.sub \notin {"input_header", "format_mjpeg", "format_uncompressed",
                                "format_frame_based", "frame", "frame_frame_based", "still_frame"}
       PROVE  StreamUpTo(t, blocks, k + 1, i)
  <2>1. t = s
    BY <1>11 DEF ParseVs
  <2>2. ~IsFormat(block)
    BY <1>11 DEF IsFormat
  <2>3. FormatsUpTo(s.formats, blocks, k + 1)
    BY <1>1, <2>2, FormatsStay
  <2> HIDE DEF t
  <2> QED  BY <1>1, <2>1, <2>3 DEF StreamUpTo
<1> HIDE DEF t, block
<1>12. StreamUpTo(t, blocks, k + 1, i)
  BY <1>3, <1>5, <1>6, <1>8, <1>9, <1>10, <1>11
<1> QED  BY <1>12 DEF t, block

ReadUpTo(blank, blocks, n, f) ==
    f = [k \in 0..n |-> IF k = 0 THEN blank ELSE ParseVs(f[k - 1], blocks[k])]

LEMMA ReadUpToExists ==
    ASSUME NEW blank, NEW blocks, NEW n \in Nat PROVE \E f : ReadUpTo(blank, blocks, n, f)
<1> DEFINE G == {m \in 0..n : \E f : ReadUpTo(blank, blocks, m, f)}
<1>1. 0 \in G
  <2> DEFINE f == [k \in 0..0 |-> blank]
  <2>1. ReadUpTo(blank, blocks, 0, f)
    BY DEF ReadUpTo
  <2> QED  BY <2>1
<1>2. ASSUME NEW m \in 1..n, m - 1 \in G PROVE m \in G
  <2>1. PICK f : ReadUpTo(blank, blocks, m - 1, f)
    BY <1>2
  <2>2. \A k \in 0..m - 1 : f[k] = IF k = 0 THEN blank ELSE ParseVs(f[k - 1], blocks[k])
    BY <2>1 DEF ReadUpTo
  <2> DEFINE last == ParseVs(f[m - 1], blocks[m])
             g == [k \in 0..m |-> IF k < m THEN f[k] ELSE last]
  <2>3. \A k \in 0..m : g[k] = IF k = 0 THEN blank ELSE ParseVs(g[k - 1], blocks[k])
    <3> TAKE k \in 0..m
    <3>1. CASE k < m
      <4>1. k \in 0..m - 1 /\ g[k] = f[k] /\ (k # 0 => g[k - 1] = f[k - 1])
        BY <3>1
      <4> QED  BY <2>2, <4>1
    <3>2. CASE k = m
      <4>1. g[k] = last /\ g[k - 1] = f[k - 1] /\ k # 0
        BY <3>2
      <4> QED  BY <3>2, <4>1
    <3> QED  BY <3>1, <3>2
  <2>4. ReadUpTo(blank, blocks, m, g)
    BY <2>3 DEF ReadUpTo
  <2> QED  BY <2>4
<1> HIDE DEF G
<1>3. n \in G
  BY <1>1, <1>2, AllUpTo
<1> QED  BY <1>3 DEF G

\* uvc_scan_streaming reads all of them.
LEMMA ScanStreamingReads ==
    ASSUME NEW config, NEW i, NEW T, config[i][1].extra \in Seq(T),
           \A k \in 1..Len(config[i][1].extra) : config[i][1].extra[k].kind = "cs"
    PROVE  StreamUpTo(ScanStreaming(config, i), config[i][1].extra,
                      Len(config[i][1].extra), config[i][1].number)
<1> DEFINE blocks == config[i][1].extra
           number == config[i][1].number
           n == Len(blocks)
           blank == [number |-> number, endpoint |-> 0, still |-> 0, formats |-> <<>>]
           f == CHOOSE g : ReadUpTo(blank, blocks, n, g)
           G == {k \in 0..n : StreamUpTo(f[k], blocks, k, number)}
<1>1. ScanStreaming(config, i) = f[n]
  BY DEF ScanStreaming, ReadUpTo
<1>2. n \in Nat
  OBVIOUS
<1> HIDE DEF blocks, number, n
<1>3. \A k \in 0..n : f[k] = IF k = 0 THEN blank ELSE ParseVs(f[k - 1], blocks[k])
  <2> HIDE DEF blank
  <2>1. ReadUpTo(blank, blocks, n, f)
    BY <1>2, ReadUpToExists
  <2> HIDE DEF f
  <2> QED  BY <2>1 DEF ReadUpTo
<1> HIDE DEF f
<1>4. 0 \in G
  <2>1. 0 \in 0..n /\ f[0] = blank
    BY <1>2, <1>3
  <2>2. IsSeq(<<>>) /\ Len(<<>>) = 0
    BY EmptySeq DEF IsSeq
  <2>3. FormatsUpTo(<<>>, blocks, 0)
    BY <2>2 DEF FormatsUpTo
  <2>4. StreamUpTo(blank, blocks, 0, number)
    BY <2>3 DEF StreamUpTo
  <2> QED  BY <2>1, <2>4
<1>5. ASSUME NEW k \in 1..n, k - 1 \in G PROVE k \in G
  <2>1. k - 1 \in Nat /\ (k - 1) + 1 = k /\ StreamUpTo(f[k - 1], blocks, k - 1, number)
    BY <1>5
  <2>2. blocks[k].kind = "cs"
    BY DEF blocks, n
  <2>3. f[k] = ParseVs(f[k - 1], blocks[k])
    BY <1>3
  <2> HIDE DEF G
  <2>4. StreamUpTo(ParseVs(f[k - 1], blocks[k]), blocks, k, number)
    BY <2>1, <2>2, ParseVsReadsOn
  <2> QED  BY <2>3, <2>4 DEF G
<1> HIDE DEF G
<1>6. n \in G
  <2>1. \A k \in 0..n : k \in G
    BY <1>2, <1>4, <1>5, AllUpTo
  <2>2. n \in 0..n
    BY <1>2
  <2> QED  BY <2>1, <2>2
<1> QED  BY <1>1, <1>6 DEF G, blocks, number, n
-----------------------------------------------------------------------------
(* The blocks of the control interface.                                      *)

Scanned(config) == {ScanStreaming(config, i) : i \in DOMAIN config}

\* The streams are those of interfaces there are.
StreamsScanned(info, config) ==
    "streams" \in DOMAIN info /\ info.streams \in Seq(Scanned(config))

LEMMA StreamsKept ==
    ASSUME NEW info, NEW config, StreamsScanned(info, config), NEW field, field # "streams", NEW x
    PROVE  /\ StreamsScanned([info EXCEPT ![field] = x], config)
           /\ [info EXCEPT ![field] = x].streams = info.streams
  BY DEF StreamsScanned

LEMMA StreamsAdded ==
    ASSUME NEW info, NEW config, StreamsScanned(info, config), NEW more \in Seq(Scanned(config))
    PROVE  StreamsScanned([info EXCEPT !.streams = @ \o more], config)
<1> DEFINE all == info.streams \o more
<1>1. all \in Seq(Scanned(config))
  BY ConcatProperties DEF StreamsScanned
<1> HIDE DEF all
<1>2. StreamsScanned([info EXCEPT !.streams = all], config)
  BY <1>1 DEF StreamsScanned
<1> QED  BY <1>2 DEF all

\* uvc_parse_vc reads one more block.
LEMMA ParseVcReadsOn ==
    ASSUME NEW info, NEW config, StreamsScanned(info, config), NEW block,
           block.kind = "cs" /\ block.sub = "header" => block.interfaces \in Seq(DOMAIN config)
    PROVE  StreamsScanned(ParseVc(config, info, block), config)
<1> DEFINE t == ParseVc(config, info, block)
<1>1. CASE info.ret # "ok" \/ block.kind # "cs"
  BY <1>1 DEF ParseVc
<1>2. CASE info.ret = "ok" /\ block.kind = "cs" /\ block.sub = "header"
  <2> DEFINE at == block.interfaces
             more == [k \in DOMAIN at |-> ScanStreaming(config, at[k])]
             v == [info EXCEPT !.version = block.version]
  <2>1. t = VcHeader(config, info, block)
    BY <1>2 DEF ParseVc
  <2>2. StreamsScanned(v, config) /\ v.streams = info.streams
    BY StreamsKept
  <2>3. CASE block.version \in {256, 266, 272}
    <3>1. at \in Seq(DOMAIN config)
      BY <1>2
    <3> HIDE DEF at
    <3>2. DOMAIN at = 1..Len(at) /\ Len(at) \in Nat
          /\ \A k \in 1..Len(at) : ScanStreaming(config, at[k]) \in Scanned(config)
      BY <3>1 DEF Scanned
    <3>3. more \in Seq(Scanned(config))
      BY <3>2
    <3>4. VcHeader(config, info, block) = [v EXCEPT !.streams = @ \o more]
      <4> HIDE DEF more
      <4>1. VcHeader(config, info, block) =
              [info EXCEPT !.version = block.version, !.streams = @ \o more]
        BY <2>3 DEF VcHeader, more, at
      <4> QED  BY <4>1
    <3> HIDE DEF v, more
    <3>5. StreamsScanned([v EXCEPT !.streams = @ \o more], config)
      BY <2>2, <3>3, StreamsAdded
    <3> QED  BY <2>1, <3>4, <3>5
  <2>4. CASE block.version \notin {256, 266, 272}
    <3>1. VcHeader(config, info, block) = [v EXCEPT !.ret = "not_supported"]
      BY <2>4 DEF VcHeader
    <3> HIDE DEF v
    <3>2. StreamsScanned([v EXCEPT !.ret = "not_supported"], config)
      BY <2>2, StreamsKept
    <3> QED  BY <2>1, <3>1, <3>2
  <2> QED  BY <2>3, <2>4
<1>3. CASE info.ret = "ok" /\ block.kind = "cs" /\ block.sub # "header"
  <2>1. \/ t = info
        \/ \E u : t = [info EXCEPT !.units = u]
        \/ t = [info EXCEPT !.ret = "invalid_device"]
    BY <1>3 DEF ParseVc, VcInputTerminal, VcUnit
  <2> HIDE DEF t
  <2>2. \A u : StreamsScanned([info EXCEPT !.units = u], config)
    BY StreamsKept
  <2>3. StreamsScanned([info EXCEPT !.ret = "invalid_device"], config)
    BY StreamsKept
  <2>4. StreamsScanned(t, config)
    BY <2>1, <2>2, <2>3
  <2> QED  BY <2>4 DEF t
<1> QED  BY <1>1, <1>2, <1>3

ReadVcUpTo(config, found, blocks, n, f) ==
    f = [k \in 0..n |-> IF k = 0 THEN found ELSE ParseVc(config, f[k - 1], blocks[k])]

LEMMA ReadVcUpToExists ==
    ASSUME NEW config, NEW found, NEW blocks, NEW n \in Nat
    PROVE  \E f : ReadVcUpTo(config, found, blocks, n, f)
<1> DEFINE G == {m \in 0..n : \E f : ReadVcUpTo(config, found, blocks, m, f)}
<1>1. 0 \in G
  <2> DEFINE f == [k \in 0..0 |-> found]
  <2>1. ReadVcUpTo(config, found, blocks, 0, f)
    BY DEF ReadVcUpTo
  <2> QED  BY <2>1
<1>2. ASSUME NEW m \in 1..n, m - 1 \in G PROVE m \in G
  <2>1. PICK f : ReadVcUpTo(config, found, blocks, m - 1, f)
    BY <1>2
  <2>2. \A k \in 0..m - 1 : f[k] = IF k = 0 THEN found ELSE ParseVc(config, f[k - 1], blocks[k])
    BY <2>1 DEF ReadVcUpTo
  <2> DEFINE last == ParseVc(config, f[m - 1], blocks[m])
             g == [k \in 0..m |-> IF k < m THEN f[k] ELSE last]
  <2>3. \A k \in 0..m : g[k] = IF k = 0 THEN found ELSE ParseVc(config, g[k - 1], blocks[k])
    <3> TAKE k \in 0..m
    <3>1. CASE k < m
      <4>1. k \in 0..m - 1 /\ g[k] = f[k] /\ (k # 0 => g[k - 1] = f[k - 1])
        BY <3>1
      <4> QED  BY <2>2, <4>1
    <3>2. CASE k = m
      <4>1. g[k] = last /\ g[k - 1] = f[k - 1] /\ k # 0
        BY <3>2
      <4> QED  BY <3>2, <4>1
    <3> QED  BY <3>1, <3>2
  <2>4. ReadVcUpTo(config, found, blocks, m, g)
    BY <2>3 DEF ReadVcUpTo
  <2> QED  BY <2>4
<1> HIDE DEF G
<1>3. n \in G
  BY <1>1, <1>2, AllUpTo
<1> QED  BY <1>3 DEF G

\* uvc_scan_control scans the interfaces that the header names.
LEMMA ScanControlScans ==
    ASSUME NEW raw, WellFormedDescriptors(raw)
    PROVE  ScanControl(Configuration(raw)).streams \in Seq(Scanned(Configuration(raw)))
<1> DEFINE config == Configuration(raw)
           controls == {i \in DOMAIN config : config[i][1].class = 14 /\ config[i][1].subclass = 1}
           blank == [ret |-> "ok", ctrlIf |-> None, status |-> 0, version |-> 0,
                     units |-> {"interface"}, streams |-> <<>>]
           i == CHOOSE j \in controls : \A k \in controls : j <= k
           ep == config[i][1].endpoint
           blocks == config[i][1].extra
           listened == IF ep = <<>> THEN 0 ELSE ep[1].address
           found == [blank EXCEPT !.ctrlIf = i, !.status = listened]
           n == Len(blocks)
           f == CHOOSE g : ReadVcUpTo(config, found, blocks, n, g)
           G == {k \in 0..n : StreamsScanned(f[k], config)}
<1>1. CASE controls = {}
  <2>1. ScanControl(config) = [blank EXCEPT !.ret = "invalid_device"]
    BY <1>1 DEF ScanControl
  <2>2. [blank EXCEPT !.ret = "invalid_device"].streams = <<>>
    OBVIOUS
  <2> HIDE DEF config, blank
  <2>3. <<>> \in Seq(Scanned(config))
    BY EmptySeq
  <2>4. ScanControl(config).streams \in Seq(Scanned(config))
    BY <2>1, <2>2, <2>3
  <2> QED  BY <2>4 DEF config
<1>2. CASE controls # {}
  <2>1. ScanControl(config) = f[n]
    BY <1>2 DEF ScanControl, ReadVcUpTo
  <2>2. i \in DOMAIN config
    <3>1. DOMAIN config = {raw[p].number : p \in Interfaces(raw)}
      BY DEF Configuration
    <3>2. \A p \in Interfaces(raw) : raw[p].number \in Nat
      BY DEF WellFormedDescriptors, Interfaces
    <3>3. controls \subseteq DOMAIN config /\ DOMAIN config \subseteq Nat
      BY <3>1, <3>2
    <3> HIDE DEF controls
    <3>4. \E j \in controls : \A k \in controls : j <= k
      BY <1>2, <3>3, LeastNatural
    <3> QED  BY <3>3, <3>4
  <2> HIDE DEF i
  <2>3. PICK p \in Interfaces(raw) : Behind(raw, p, blocks)
    BY <2>2, FirstSettingIsBehind
  <2>4. n \in Nat
    BY <2>3 DEF Behind
  <2>5. ASSUME NEW k \in 1..n, blocks[k].kind = "cs", blocks[k].sub = "header"
        PROVE  blocks[k].interfaces \in Seq(DOMAIN config)
    <3>1. p + k \in DOMAIN raw /\ blocks[k] = raw[p + k]
      BY <2>3 DEF Behind
    <3>2. DOMAIN config = {raw[q].number : q \in Interfaces(raw)}
      BY DEF Configuration
    <3> HIDE DEF blocks, config
    <3> QED  BY <2>5, <3>1, <3>2 DEF WellFormedDescriptors
  <2>6. StreamsScanned(found, config)
    <3> HIDE DEF i, listened, config
    <3>1. "streams" \in DOMAIN blank /\ blank.streams = <<>>
      OBVIOUS
    <3>2. StreamsScanned(blank, config)
      BY <3>1 DEF StreamsScanned
    <3> HIDE DEF blank
    <3>3. StreamsScanned([blank EXCEPT !.ctrlIf = i], config)
      BY <3>2, StreamsKept
    <3>4. StreamsScanned([[blank EXCEPT !.ctrlIf = i] EXCEPT !.status = listened], config)
      BY <3>3, StreamsKept
    <3> QED  BY <3>4
  <2> HIDE DEF found, blocks, n, config
  <2>7. \A k \in 0..n : f[k] = IF k = 0 THEN found ELSE ParseVc(config, f[k - 1], blocks[k])
    <3>1. ReadVcUpTo(config, found, blocks, n, f)
      BY <2>4, ReadVcUpToExists
    <3> HIDE DEF f
    <3> QED  BY <3>1 DEF ReadVcUpTo
  <2> HIDE DEF f
  <2>8. 0 \in G
    <3>1. 0 \in 0..n /\ f[0] = found
      BY <2>4, <2>7
    <3> QED  BY <2>6, <3>1
  <2>9. ASSUME NEW k \in 1..n, k - 1 \in G PROVE k \in G
    <3>1. StreamsScanned(f[k - 1], config)
      BY <2>9
    <3>2. f[k] = ParseVc(config, f[k - 1], blocks[k])
      BY <2>7
    <3>3. StreamsScanned(ParseVc(config, f[k - 1], blocks[k]), config)
      BY <2>5, <3>1, ParseVcReadsOn
    <3>4. k \in 0..n
      OBVIOUS
    <3> HIDE DEF G
    <3> QED  BY <3>2, <3>3, <3>4 DEF G
  <2> HIDE DEF G
  <2>10. n \in G
    <3>1. \A k \in 0..n : k \in G
      BY <2>4, <2>8, <2>9, AllUpTo
    <3>2. n \in 0..n
      BY <2>4
    <3> QED  BY <3>1, <3>2
  <2> QED  BY <2>1, <2>10 DEF G, StreamsScanned, config
<1> QED  BY <1>1, <1>2
-----------------------------------------------------------------------------
(* The modes that are found in the tables are modes of the camera.           *)

\* The frames of the size asked for in the MJPEG formats of a stream.
Fits(f, fr) == f.guid = "mjpeg" /\ fr.width = Mode.width /\ fr.height = Mode.height

\* A mode of the descriptors that a format and a frame of the tables were read from.
ReadFrom(d, i, f, fr) ==
    d.ifc = i /\ d.format = f.index /\ SameFrame(fr, d.frame)

LEMMA FrameIsDescribed ==
    ASSUME NEW c \in Cameras, NEW i \in DOMAIN Config[c], NEW s, s = ScanStreaming(Config[c], i),
           NEW j \in 1..Len(s.formats), NEW l \in 1..Len(s.formats[j].frames),
           Fits(s.formats[j], s.formats[j].frames[l])
    PROVE  \E d \in DescribedModes[c] : ReadFrom(d, i, s.formats[j], s.formats[j].frames[l])
<1> DEFINE raw == Device[c].raw
           config == Config[c]
           blocks == config[i][1].extra
           n == Len(blocks)
           f == s.formats[j]
           fr == f.frames[l]
<1>1. WellFormedDescriptors(raw) /\ config = Configuration(raw)
  BY DescriptionAssumption DEF Config
<1>2. PICK p \in Interfaces(raw) : raw[p].number = i /\ config[i][1].number = i /\ Behind(raw, p, blocks)
  BY <1>1, FirstSettingIsBehind
<1>3. n \in Nat /\ \A k \in 1..n : p + k \in DOMAIN raw /\ blocks[k] = raw[p + k] /\ raw[p + k].kind = "cs"
  BY <1>2 DEF Behind
<1>4. StreamUpTo(s, blocks, n, i)
  <2>1. \A k \in 1..n : blocks[k].kind = "cs"
    BY <1>3
  <2>2. blocks \in Seq(ToSet(raw))
    BY <1>2 DEF Behind
  <2> QED  BY <1>2, <2>1, <2>2, ScanStreamingReads
<1>5. p \in Nat \ {0} /\ DOMAIN raw = 1..Len(raw) /\ Len(raw) \in Nat /\ raw[p].kind = "interface"
  BY <1>1 DEF Interfaces, WellFormedDescriptors
<1> HIDE DEF config, raw, blocks, n
<1>6. PICK a \in 1..n : FormatAt(f, blocks, a, n)
  BY <1>4 DEF StreamUpTo, FormatsUpTo
<1>7. PICK b \in a + 1..n : IsFrame(blocks[b]) /\ SameFrame(fr, blocks[b]) /\ NoFormat(blocks, a, b)
  BY <1>6 DEF FormatAt, FramesAfter, FrameAfter
<1> DEFINE x == p + a
           y == p + b
<1>8. /\ x \in DOMAIN raw /\ y \in DOMAIN raw /\ x < y /\ x \in Nat /\ y \in Nat /\ p < x /\ b \in 1..n
      /\ raw[x] = blocks[a] /\ raw[y] = blocks[b]
  <2>1. n \in Nat /\ p \in Nat
    BY <1>3, <1>5
  <2>2. a \in Nat /\ a >= 1 /\ b \in Nat /\ a < b /\ b \in 1..n
    BY <2>1
  <2>3. p + a < p + b /\ p + a \in Nat /\ p + b \in Nat /\ p < p + a
    BY <2>1, <2>2
  <2> QED  BY <1>3, <2>2, <2>3
<1>9. \A r \in x + 1..y : ~IsFormat(raw[r])
  <2> TAKE r \in x + 1..y
  <2>1. n \in Nat /\ p \in Nat /\ a \in Nat /\ b \in Nat /\ b <= n
    BY <1>3, <1>5
  <2>2. r \in Int /\ p + a + 1 <= r /\ r <= p + b
    BY <2>1
  <2>3. r - p \in a + 1..b /\ r - p \in 1..n /\ p + (r - p) = r
    <3> HIDE DEF x, y
    <3> QED  BY <2>1, <2>2
  <2>4. raw[r] = blocks[r - p] /\ ~IsFormat(blocks[r - p])
    BY <1>3, <1>7, <2>3 DEF NoFormat
  <2> QED  BY <2>4
<1>10. \A r \in p + 1..y : raw[r].kind # "interface"
  <2> TAKE r \in p + 1..y
  <2>1. n \in Nat /\ p \in Nat
    BY <1>3, <1>5
  <2>2. r - p \in 1..n /\ p + (r - p) = r
    BY <2>1
  <2>3. raw[r].kind = "cs"
    BY <1>3, <2>2
  <2> QED  BY <2>3
<1>11. InterfaceOf(raw, x) = raw[p] /\ InterfaceOf(raw, y) = raw[p]
  <2>1. \A r \in p + 1..x : raw[r].kind # "interface"
    BY <1>5, <1>8, <1>10
  <2> HIDE DEF x, y
  <2>2. p <= x /\ p <= y
    BY <1>5, <1>8
  <2>3. InterfaceOf(raw, x) = raw[p]
    BY <1>5, <1>8, <2>1, <2>2, InterfaceOfIsLast
  <2>4. InterfaceOf(raw, y) = raw[p]
    BY <1>5, <1>8, <1>10, <2>2, InterfaceOfIsLast
  <2> QED  BY <2>3, <2>4
<1> HIDE DEF x, y, f, fr
<1>12. IsMjpeg(raw[x]) /\ raw[x].index = f.index
  BY <1>6, <1>8 DEF FormatAt, Fits, f, fr
<1>13. IsFrame(raw[y]) /\ raw[y].width = Mode.width /\ raw[y].height = Mode.height /\ SameFrame(fr, raw[y])
  BY <1>7, <1>8 DEF Fits, f, fr, SameFrame
<1> DEFINE d == [ifc |-> InterfaceOf(raw, x).number, format |-> raw[x].index, frame |-> raw[y]]
<1>14. d \in DescribedModes[c]
  <2> DEFINE M == {q \in DOMAIN raw : IsMjpeg(raw[q])}
             F == {q \in DOMAIN raw : /\ IsFrame(raw[q])
                                      /\ raw[q].width = Mode.width /\ raw[q].height = Mode.height}
             pairs == {pq \in M \X F : /\ pq[1] < pq[2]
                                       /\ \A r \in pq[1] + 1..pq[2] : ~IsFormat(raw[r])
                                       /\ InterfaceOf(raw, pq[1]) = InterfaceOf(raw, pq[2])}
  <2>1. <<x, y>> \in pairs
    BY <1>8, <1>9, <1>11, <1>12, <1>13
  <2>2. DescribedModes[c] = {[ifc |-> InterfaceOf(raw, pq[1]).number, format |-> raw[pq[1]].index,
                              frame |-> raw[pq[2]]] : pq \in pairs}
    BY DEF DescribedModes, raw
  <2> HIDE DEF pairs
  <2>3. <<x, y>>[1] = x /\ <<x, y>>[2] = y
    OBVIOUS
  <2>4. d \in {[ifc |-> InterfaceOf(raw, pq[1]).number, format |-> raw[pq[1]].index,
               frame |-> raw[pq[2]]] : pq \in pairs}
    BY <2>1, <2>3
  <2> HIDE DEF d
  <2> QED  BY <2>2, <2>4, Zenon
<1>15. ReadFrom(d, i, f, fr)
  BY <1>2, <1>11, <1>12, <1>13 DEF ReadFrom
<1> HIDE DEF d
<1> QED  BY <1>14, <1>15 DEF f, fr

\* What the host has read of a camera, a frame at a time.
Offered(info) ==
    UNION {UNION {{[stream |-> s, format |-> f, frame |-> fr] : fr \in ToSet(f.frames)} :
                     f \in ToSet(s.formats)} : s \in ToSet(info.streams)}

Tabled(info) ==
    /\ IsSeq(info.streams)
    /\ \A s \in ToSet(info.streams) :
          IsSeq(s.formats) /\ \A f \in ToSet(s.formats) : IsSeq(f.frames)

LEMMA SeqIsSeq ==
    ASSUME NEW s, IsSeq(s)
    PROVE  s \in Seq(ToSet(s)) /\ DOMAIN s = 1..Len(s) /\ Len(s) \in Nat
<1>1. PICK T : s \in Seq(T)
  BY DEF IsSeq
<1>2. DOMAIN s = 1..Len(s) /\ Len(s) \in Nat /\ s = [k \in 1..Len(s) |-> s[k]]
  BY <1>1
<1>3. \A k \in 1..Len(s) : s[k] \in ToSet(s)
  BY <1>2 DEF ToSet
<1> QED  BY <1>2, <1>3

LEMMA SizeMatchesAreOffered ==
    ASSUME NEW info, Tabled(info), NEW mode
    PROVE  /\ IsSeq(SizeMatches(info, mode))
           /\ \A n \in DOMAIN SizeMatches(info, mode) :
                 LET m == SizeMatches(info, mode)[n]
                 IN  /\ m \in Offered(info)
                     /\ FormatMatches(mode.format, m.format.guid)
                     /\ m.frame.width = mode.width /\ m.frame.height = mode.height
<1> DEFINE T == Offered(info)
           ofFormat(s, f) == [k \in DOMAIN f.frames |-> [stream |-> s, format |-> f, frame |-> f.frames[k]]]
           formats(s) == [k \in DOMAIN s.formats |-> ofFormat(s, s.formats[k])]
           ofStream(s) == FlattenSeq(formats(s))
           streams == [k \in DOMAIN info.streams |-> ofStream(info.streams[k])]
           all == FlattenSeq(streams)
           Fit(k) == /\ FormatMatches(mode.format, all[k].format.guid)
                     /\ all[k].frame.width = mode.width
                     /\ all[k].frame.height = mode.height
           S == {k \in DOMAIN all : Fit(k)}
           picked == Ordered(S, Len(all))
           matches == [n \in DOMAIN picked |-> all[picked[n]]]
<1>1. ASSUME NEW s \in ToSet(info.streams), NEW f \in ToSet(s.formats)
      PROVE  ofFormat(s, f) \in Seq(T)
  <2>1. IsSeq(f.frames)
    BY DEF Tabled
  <2>2. DOMAIN f.frames = 1..Len(f.frames) /\ Len(f.frames) \in Nat
    BY <2>1, SeqIsSeq
  <2>3. ASSUME NEW k \in 1..Len(f.frames)
        PROVE  [stream |-> s, format |-> f, frame |-> f.frames[k]] \in T
    <3> DEFINE of(g) == {[stream |-> s, format |-> g, frame |-> fr] : fr \in ToSet(g.frames)}
               offered(t) == UNION {{[stream |-> t, format |-> g, frame |-> fr] : fr \in ToSet(g.frames)} :
                                       g \in ToSet(t.formats)}
    <3>1. f.frames[k] \in ToSet(f.frames)
      BY <2>2 DEF ToSet
    <3>2. [stream |-> s, format |-> f, frame |-> f.frames[k]] \in of(f)
      BY <3>1
    <3>3. offered(s) = UNION {of(g) : g \in ToSet(s.formats)}
      OBVIOUS
    <3> HIDE DEF of
    <3>4. [stream |-> s, format |-> f, frame |-> f.frames[k]] \in offered(s)
      BY <3>2, <3>3
    <3>5. T = UNION {offered(t) : t \in ToSet(info.streams)}
      BY DEF Offered
    <3> HIDE DEF offered, T
    <3> QED  BY <3>4, <3>5
  <2> HIDE DEF T
  <2> QED  BY <2>2, <2>3
<1> HIDE DEF T, ofFormat
<1>2. ASSUME NEW s \in ToSet(info.streams) PROVE ofStream(s) \in Seq(T)
  <2>1. IsSeq(s.formats)
    BY DEF Tabled
  <2>2. DOMAIN s.formats = 1..Len(s.formats) /\ Len(s.formats) \in Nat
    BY <2>1, SeqIsSeq
  <2>3. \A k \in 1..Len(s.formats) : ofFormat(s, s.formats[k]) \in Seq(T)
    BY <1>1, <2>2 DEF ToSet
  <2>4. formats(s) \in Seq(Seq(T))
    BY <2>2, <2>3
  <2> HIDE DEF formats
  <2> QED  BY <2>4, FlattenIsSeq
<1> HIDE DEF ofStream
<1>3. all \in Seq(T)
  <2>1. DOMAIN info.streams = 1..Len(info.streams) /\ Len(info.streams) \in Nat
    BY SeqIsSeq DEF Tabled
  <2>2. \A k \in 1..Len(info.streams) : ofStream(info.streams[k]) \in Seq(T)
    BY <1>2, <2>1 DEF ToSet
  <2>3. streams \in Seq(Seq(T))
    BY <2>1, <2>2
  <2> HIDE DEF streams
  <2> QED  BY <2>3, FlattenIsSeq
<1>4. SizeMatches(info, mode) = matches
  BY DEF SizeMatches, ofStream, ofFormat
<1> HIDE DEF all, Fit
<1>5. Len(all) \in Nat /\ DOMAIN all = 1..Len(all) /\ S \cap (1..Len(all)) = S
  BY <1>3
<1>6. picked \in Seq(S)
  <2> HIDE DEF S
  <2>1. Ordered(S, Len(all)) \in Seq(S \cap (1..Len(all)))
    BY <1>5, OrderedIsSeq
  <2> QED  BY <1>5, <2>1
<1> HIDE DEF picked
<1>7. DOMAIN picked = 1..Len(picked) /\ Len(picked) \in Nat
      /\ \A n \in 1..Len(picked) : picked[n] \in S
  <2> HIDE DEF S
  <2> QED  BY <1>6
<1>8. ASSUME NEW n \in DOMAIN picked PROVE matches[n] = all[picked[n]] /\ matches[n] \in T /\ Fit(picked[n])
  BY <1>3, <1>5, <1>7
<1>9. IsSeq(matches)
  <2>1. \A n \in 1..Len(picked) : all[picked[n]] \in T
    BY <1>7, <1>8
  <2>2. matches \in Seq(T)
    BY <1>7, <2>1
  <2> QED  BY <2>2 DEF IsSeq
<1>10. DOMAIN matches = DOMAIN picked
  OBVIOUS
<1> HIDE DEF matches
<1>11. ASSUME NEW n \in DOMAIN matches
       PROVE  /\ matches[n] \in Offered(info)
              /\ FormatMatches(mode.format, matches[n].format.guid)
              /\ matches[n].frame.width = mode.width /\ matches[n].frame.height = mode.height
  BY <1>8, <1>10 DEF Fit, T
<1> QED  BY <1>4, <1>9, <1>11
LEMMA MpegOnly == ASSUME NEW guid, FormatMatches("mjpeg", guid) PROVE guid = "mjpeg"
<1>1. Children("mjpeg") = {}
  BY DEF Children
<1> QED  BY <1>1 DEF FormatMatches

LEMMA StreamsOfTheCamera ==
    ASSUME NEW c \in Cameras
    PROVE  /\ IsSeq(Info[c].streams)
           /\ \A s \in ToSet(Info[c].streams) : \E i \in DOMAIN Config[c] :
                 /\ s = ScanStreaming(Config[c], i) /\ s.number = i
                 /\ \E blocks, n : FormatsUpTo(s.formats, blocks, n)
<1> DEFINE raw == Device[c].raw
           config == Config[c]
           streams == Info[c].streams
<1>1. WellFormedDescriptors(raw) /\ config = Configuration(raw)
  BY DescriptionAssumption DEF Config
<1>2. streams = ScanControl(config).streams
  BY DEF Info
<1> HIDE DEF streams, config, raw
<1>3. streams \in Seq(Scanned(config))
  BY <1>1, <1>2, ScanControlScans
<1>4. IsSeq(streams)
  BY <1>3 DEF IsSeq
<1>5. ASSUME NEW s \in ToSet(streams)
      PROVE  \E i \in DOMAIN config : /\ s = ScanStreaming(config, i) /\ s.number = i
                                      /\ \E blocks, n : FormatsUpTo(s.formats, blocks, n)
  <2>1. s \in Scanned(config)
    BY <1>3 DEF ToSet
  <2>2. PICK i \in DOMAIN config : s = ScanStreaming(config, i)
    BY <2>1 DEF Scanned
  <2> DEFINE blocks == config[i][1].extra
  <2>3. PICK p : config[i][1].number = i /\ Behind(raw, p, blocks)
    BY <1>1, FirstSettingIsBehind
  <2>4. blocks \in Seq(ToSet(raw)) /\ \A k \in 1..Len(blocks) : blocks[k].kind = "cs"
    BY <2>3 DEF Behind
  <2>5. StreamUpTo(s, blocks, Len(blocks), i)
    BY <2>2, <2>3, <2>4, ScanStreamingReads
  <2> HIDE DEF blocks
  <2>6. s.number = i /\ FormatsUpTo(s.formats, blocks, Len(blocks))
    <3>1. s = [number |-> i, endpoint |-> s.endpoint, still |-> s.still, formats |-> s.formats]
      BY <2>5 DEF StreamUpTo
    <3>2. s.number = i
      BY <3>1
    <3> QED  BY <2>5, <3>2 DEF StreamUpTo
  <2> QED  BY <2>2, <2>6
<1> QED  BY <1>4, <1>5 DEF streams, config

LEMMA TablesOfTheCamera == ASSUME NEW c \in Cameras PROVE Tabled(Info[c])
<1> DEFINE info == Info[c]
<1>1. /\ IsSeq(info.streams)
      /\ \A s \in ToSet(info.streams) : \E blocks, n : FormatsUpTo(s.formats, blocks, n)
  BY StreamsOfTheCamera
<1> HIDE DEF info
<1>2. ASSUME NEW s \in ToSet(info.streams)
      PROVE  IsSeq(s.formats) /\ \A f \in ToSet(s.formats) : IsSeq(f.frames)
  <2>1. PICK blocks, n : FormatsUpTo(s.formats, blocks, n)
    BY <1>1
  <2>2. IsSeq(s.formats)
    BY <2>1 DEF FormatsUpTo
  <2>3. ASSUME NEW f \in ToSet(s.formats) PROVE IsSeq(f.frames)
    <3>1. PICK j \in 1..Len(s.formats) : f = s.formats[j]
      BY <2>2, SeqIsSeq DEF ToSet
    <3> QED  BY <2>1, <3>1 DEF FormatsUpTo, FormatAt, FramesAfter
  <2> QED  BY <2>2, <2>3
<1>3. Tabled(info)
  BY <1>1, <1>2 DEF Tabled
<1> QED  BY <1>3 DEF info

LEMMA MatchIsDescribed ==
    ASSUME NEW c \in Cameras, NEW n \in DOMAIN SizeMatches(Info[c], Mode)
    PROVE  LET m == SizeMatches(Info[c], Mode)[n]
           IN  /\ m.stream.number \in DOMAIN Config[c]
               /\ \E d \in DescribedModes[c] : ReadFrom(d, m.stream.number, m.format, m.frame)
<1> DEFINE info == Info[c]
           m == SizeMatches(info, Mode)[n]
<1>1. /\ m \in Offered(info)
      /\ m.format.guid = "mjpeg" /\ m.frame.width = Mode.width /\ m.frame.height = Mode.height
  BY SizeMatchesAreOffered, TablesOfTheCamera, MpegOnly, CameraAssumption
<1>2. Tabled(info)
  BY TablesOfTheCamera
<1> HIDE DEF m
<1>3. PICK s \in ToSet(info.streams) : \E f \in ToSet(s.formats) : \E fr \in ToSet(f.frames) :
         m = [stream |-> s, format |-> f, frame |-> fr]
  BY <1>1 DEF Offered
<1>4. PICK f \in ToSet(s.formats) : \E fr \in ToSet(f.frames) :
         m = [stream |-> s, format |-> f, frame |-> fr]
  BY <1>3
<1>5. PICK fr \in ToSet(f.frames) : m = [stream |-> s, format |-> f, frame |-> fr]
  BY <1>4
<1>6. PICK i \in DOMAIN Config[c] : s = ScanStreaming(Config[c], i) /\ s.number = i
  BY StreamsOfTheCamera
<1> HIDE DEF info
<1>7. PICK j \in 1..Len(s.formats) : f = s.formats[j]
  BY <1>2, SeqIsSeq DEF Tabled, ToSet
<1>8. PICK l \in 1..Len(f.frames) : fr = f.frames[l]
  BY <1>2, SeqIsSeq DEF Tabled, ToSet
<1>9. m.stream = s /\ m.format = f /\ m.frame = fr
  BY <1>5
<1>10. Fits(f, fr)
  BY <1>1, <1>9 DEF Fits
<1>11. \E d \in DescribedModes[c] : ReadFrom(d, i, f, fr)
  BY <1>6, <1>7, <1>8, <1>10, FrameIsDescribed
<1> QED  BY <1>6, <1>9, <1>11 DEF m, info

\* The rate that is found is one of the frame.
LEMMA RateIsOfTheFrame ==
    ASSUME NEW fr, fr.intervals \in Seq(Nat), fr.min \in Nat, fr.max \in Nat, NEW fps \in Nat \ {0},
           IntervalFor(fr, fps) # 0
    PROVE  HasRate(fr, IntervalFor(fr, fps))
<1> DEFINE wanted == Second \div fps
           rates == fr.intervals
           Rate(t) == Second \div t = fps
           at == SelectInSeq(rates, Rate)
<1>1. IntervalFor(fr, fps) =
        IF rates # <<>> THEN IF at = 0 THEN 0 ELSE rates[at]
        ELSE IF /\ fr.min <= wanted /\ wanted <= fr.max
                /\ (wanted = fr.min \/ (wanted - fr.min) % fr.step = 0)
             THEN wanted ELSE 0
  BY Zenon DEF IntervalFor
<1>2. Second \in Nat
  BY SMT DEF Second
<1>3. CASE rates # <<>>
  <2> DEFINE I == {k \in 1..Len(rates) : Rate(rates[k])}
  <2>1. at = IF I # {} THEN Min(I) ELSE 0
    BY Zenon DEF SelectInSeq
  <2>2. at # 0 /\ IntervalFor(fr, fps) = rates[at]
    BY <1>1, <1>3
  <2> HIDE DEF at
  <2>3. I # {} /\ at = Min(I)
    BY <2>1, <2>2
  <2>4. I \subseteq 1..Len(rates) /\ I \subseteq Nat
    OBVIOUS
  <2> HIDE DEF I
  <2>5. at \in I
    <3>1. \E k \in I : \A l \in I : k <= l
      BY <2>3, <2>4, LeastNatural
    <3> QED  BY <2>3, <3>1 DEF Min
  <2>6. rates[at] \in ToSet(rates)
    <3>1. at \in DOMAIN rates
      BY <2>4, <2>5
    <3> QED  BY <3>1 DEF ToSet
  <2> QED  BY <1>3, <2>2, <2>6 DEF HasRate
<1>4. CASE rates = <<>>
  <2>1. /\ IntervalFor(fr, fps) = wanted /\ fr.min <= wanted /\ wanted <= fr.max
        /\ (wanted = fr.min \/ (wanted - fr.min) % fr.step = 0)
    BY <1>1, <1>4
  <2>2. wanted \in Int
    BY <1>2
  <2> HIDE DEF wanted
  <2>3. wanted \in fr.min..fr.max
    BY <2>1, <2>2
  <2> QED  BY <1>4, <2>1, <2>3 DEF HasRate
<1> QED  BY <1>3, <1>4

\* A rate of a frame of the tables is a rate of the descriptor it was read from.
LEMMA RateIsRead ==
    ASSUME NEW fr, NEW block, SameFrame(fr, block), NEW interval
    PROVE  HasRate(fr, interval) = HasRate(block, interval)
  BY DEF SameFrame, HasRate

LEMMA DescribedRates ==
    ASSUME NEW c \in Cameras, NEW d \in DescribedModes[c]
    PROVE  d.frame.intervals \in Seq(Nat) /\ d.frame.min \in Nat /\ d.frame.max \in Nat
<1> DEFINE raw == Device[c].raw
<1>1. PICK q \in DOMAIN raw : IsFrame(raw[q]) /\ d.frame = raw[q]
  BY DEF DescribedModes
<1> HIDE DEF raw
<1>2. WellFormedDescriptors(raw)
  BY DescriptionAssumption DEF raw
<1> QED  BY <1>1, <1>2 DEF WellFormedDescriptors

LEMMA FoundIsAMatch ==
    ASSUME NEW c \in Cameras, FoundMode(Info[c], Mode) # 0
    PROVE  /\ FoundMode(Info[c], Mode) \in DOMAIN SizeMatches(Info[c], Mode)
           /\ FoundMode(Info[c], Mode) \in Nat \ {0}
           /\ IntervalFor(SizeMatches(Info[c], Mode)[FoundMode(Info[c], Mode)].frame, Mode.fps) # 0
<1> DEFINE matches == SizeMatches(Info[c], Mode)
           Rated(m) == IntervalFor(m.frame, Mode.fps) # 0
           I == {k \in 1..Len(matches) : Rated(matches[k])}
           found == FoundMode(Info[c], Mode)
<1>1. found = IF I # {} THEN Min(I) ELSE 0
  BY Zenon DEF FoundMode, SelectInSeq
<1>2. DOMAIN matches = 1..Len(matches) /\ Len(matches) \in Nat
  BY SizeMatchesAreOffered, TablesOfTheCamera, SeqIsSeq
<1> HIDE DEF matches, found, Rated
<1>3. I # {} /\ found = Min(I)
  BY <1>1 DEF found
<1>4. I \subseteq Nat \ {0}
  OBVIOUS
<1>5. found \in I
  <2> HIDE DEF I
  <2>1. \E k \in I : \A l \in I : k <= l
    BY <1>3, <1>4, LeastNatural
  <2> QED  BY <1>3, <2>1 DEF Min
<1> QED  BY <1>2, <1>5 DEF matches, found, Rated

-----------------------------------------------------------------------------
(* The setting to stream through.                                            *)

LEMMA PacketsAreDescribed ==
    ASSUME NEW c \in Cameras, NEW i \in DOMAIN Config[c], NEW address,
           AltFor(Config[c][i], address) # 0
    PROVE  \E d \in DescribedPackets[c] :
              /\ d[1] = i
              /\ d[2] = Config[c][i][AltFor(Config[c][i], address)].alt
              /\ d[3] >= PayloadSize
<1> DEFINE raw == Device[c].raw
           settings == Config[c][i]
           Large(a) == BytesPerPacket(a, address) >= PayloadSize
           I == {k \in 1..Len(settings) : Large(settings[k])}
           alt == AltFor(settings, address)
<1>1. WellFormedDescriptors(raw) /\ Config[c] = Configuration(raw)
  BY DescriptionAssumption DEF Config
<1>2. alt \in DOMAIN settings /\ Large(settings[alt])
  <2>1. alt = IF I # {} THEN Min(I) ELSE 0
    BY Zenon DEF AltFor, SelectInSeq
  <2>2. DOMAIN settings = 1..Len(settings)
    <3>1. settings = [n \in DOMAIN Places(raw, i) |-> Altsetting(raw, Places(raw, i)[n], n - 1)]
      BY <1>1 DEF Configuration
    <3>2. DOMAIN Places(raw, i) = 1..Len(Places(raw, i)) /\ Len(Places(raw, i)) \in Nat
      BY <1>1, PlacesAreInterfaces
    <3> HIDE DEF settings
    <3>3. DOMAIN settings = 1..Len(Places(raw, i))
      BY <3>1, <3>2
    <3>4. settings \in Seq({Altsetting(raw, Places(raw, i)[n], n - 1) : n \in 1..Len(Places(raw, i))})
      BY <3>1, <3>2
    <3> QED  BY <3>4
  <2> HIDE DEF settings, alt, Large
  <2>3. I # {} /\ alt = Min(I)
    BY <2>1 DEF alt, settings
  <2>4. I \subseteq Nat
    OBVIOUS
  <2>5. alt \in I
    <3> HIDE DEF I
    <3>1. \E k \in I : \A l \in I : k <= l
      BY <2>3, <2>4, LeastNatural
    <3> QED  BY <2>3, <3>1 DEF Min
  <2> QED  BY <2>2, <2>5
<1> HIDE DEF alt
<1>3. PICK p \in Interfaces(raw) : raw[p].number = i /\ settings[alt] = Altsetting(raw, p, alt - 1)
  BY <1>1, <1>2, SettingOfInterface
<1> DEFINE n == Len(raw)
           end == NextOf(raw, p, {"interface"})
           ep == NextOf(raw, p, {"interface", "endpoint"})
           setting == Altsetting(raw, p, alt - 1)
<1>4. n \in Nat /\ DOMAIN raw = 1..n /\ p \in 1..n /\ raw \in Seq(ToSet(raw)) /\ raw[p].kind = "interface"
  BY <1>1 DEF WellFormedDescriptors, Interfaces
<1>5. /\ ep \in p + 1..n + 1
      /\ \A r \in p + 1..ep - 1 : raw[r].kind \notin {"interface", "endpoint"}
      /\ ep <= n => raw[ep].kind \in {"interface", "endpoint"}
  BY <1>4, NextOfIsNext
<1>6. /\ end \in p + 1..n + 1
      /\ \A r \in p + 1..end - 1 : raw[r].kind # "interface"
      /\ end <= n => raw[end].kind = "interface"
  <2>1. /\ end \in p + 1..n + 1
        /\ \A r \in p + 1..end - 1 : raw[r].kind \notin {"interface"}
        /\ end <= n => raw[end].kind \in {"interface"}
    BY <1>4, NextOfIsNext
  <2> QED  BY <2>1
<1>7. /\ setting.number = raw[p].number /\ setting.alt = raw[p].alt
      /\ setting.endpoint = IF ep = end THEN <<>>
                            ELSE IF alt - 1 = 6 THEN <<[address |-> 0, packet |-> 0, mult |-> 0]>>
                            ELSE <<[address |-> raw[ep].address, packet |-> raw[ep].packet,
                                    mult |-> raw[ep].mult]>>
  BY DEF Altsetting
<1>8. BytesPerPacket(setting, address) >= PayloadSize
  BY <1>2, <1>3
<1> HIDE DEF setting, ep, end, n
<1>9. ASSUME NEW e, setting.endpoint = <<e>>
      PROVE  BytesPerPacket(setting, address) \in {0, e.packet * (e.mult + 1)}
  <2>1. ToSet(setting.endpoint) = {e}
    BY <1>9 DEF ToSet
  <2> DEFINE eps == {x \in ToSet(setting.endpoint) : x.address = address}
  <2>2. eps \subseteq {e}
    BY <2>1
  <2>3. BytesPerPacket(setting, address) =
          IF eps = {} THEN 0
          ELSE (CHOOSE x \in eps : TRUE).packet * ((CHOOSE x \in eps : TRUE).mult + 1)
    BY DEF BytesPerPacket
  <2> HIDE DEF eps
  <2>4. eps # {} => (CHOOSE x \in eps : TRUE) = e
    BY <2>2
  <2> QED  BY <2>3, <2>4
<1>10. ~(0 >= PayloadSize)
  BY DescriptorsAssumption
<1>11. ep # end
  <2> SUFFICES ASSUME ep = end PROVE FALSE
    OBVIOUS
  <2>1. ToSet(setting.endpoint) = {}
    BY <1>7 DEF ToSet
  <2>2. BytesPerPacket(setting, address) = 0
    BY <2>1 DEF BytesPerPacket
  <2> QED  BY <1>8, <1>10, <2>2
<1>12. alt - 1 # 6
  <2> SUFFICES ASSUME alt - 1 = 6 PROVE FALSE
    OBVIOUS
  <2> DEFINE e == [address |-> 0, packet |-> 0, mult |-> 0]
  <2>1. setting.endpoint = <<e>>
    BY <1>7, <1>11
  <2>2. e.packet * (e.mult + 1) = 0
    OBVIOUS
  <2> HIDE DEF e
  <2>3. BytesPerPacket(setting, address) = 0
    BY <1>9, <2>1, <2>2
  <2> QED  BY <1>8, <1>10, <2>3
<1>13. raw[ep].packet * (raw[ep].mult + 1) >= PayloadSize
  <2> DEFINE e == [address |-> raw[ep].address, packet |-> raw[ep].packet, mult |-> raw[ep].mult]
  <2>1. setting.endpoint = <<e>>
    BY <1>7, <1>11, <1>12
  <2>2. e.packet = raw[ep].packet /\ e.mult = raw[ep].mult
    OBVIOUS
  <2> HIDE DEF e
  <2>3. BytesPerPacket(setting, address) \in {0, e.packet * (e.mult + 1)}
    BY <1>9, <2>1
  <2> QED  BY <1>8, <1>10, <2>2, <2>3
<1>14. ep \in DOMAIN raw /\ raw[ep].kind = "endpoint"
  <2>1. ep <= n
    <3> SUFFICES ASSUME ep = n + 1 PROVE FALSE
      BY <1>4, <1>5
    <3>1. end < ep
      BY <1>4, <1>5, <1>6, <1>11
    <3>2. raw[end].kind = "interface" /\ end \in p + 1..ep - 1
      BY <1>4, <1>5, <1>6, <3>1
    <3> QED  BY <1>5, <3>2
  <2>2. raw[ep].kind # "interface"
    <3> SUFFICES ASSUME raw[ep].kind = "interface" PROVE FALSE
      OBVIOUS
    <3>1. ~(ep < end)
      BY <1>4, <1>5, <1>6
    <3>2. end < ep
      BY <1>4, <1>5, <1>6, <1>11, <3>1
    <3>3. raw[end].kind = "interface" /\ end \in p + 1..ep - 1
      BY <1>4, <1>5, <1>6, <2>1, <3>2
    <3> QED  BY <1>5, <3>3
  <2> QED  BY <1>4, <1>5, <2>1, <2>2
<1>15. InterfaceOf(raw, ep) = raw[p]
  <2>1. \A r \in p + 1..ep : raw[r].kind # "interface"
    <3> TAKE r \in p + 1..ep
    <3>1. r \in p + 1..ep - 1 \/ r = ep
      BY <1>4, <1>5
    <3> QED  BY <1>5, <1>14, <3>1
  <2>2. p \in Nat \ {0} /\ ep \in Nat /\ p <= ep
    BY <1>4, <1>5
  <2> QED  BY <1>4, <2>1, <2>2, InterfaceOfIsLast
<1> DEFINE d == <<InterfaceOf(raw, ep).number, InterfaceOf(raw, ep).alt,
                  raw[ep].packet * (raw[ep].mult + 1)>>
<1>16. d \in DescribedPackets[c]
  BY <1>14 DEF DescribedPackets
<1>17. d[1] = i /\ d[2] = settings[alt].alt /\ d[3] >= PayloadSize
  <2>1. d[1] = InterfaceOf(raw, ep).number /\ d[2] = InterfaceOf(raw, ep).alt
        /\ d[3] = raw[ep].packet * (raw[ep].mult + 1)
    OBVIOUS
  <2>2. settings[alt].alt = raw[p].alt
    BY <1>3, <1>7 DEF setting
  <2> HIDE DEF d, settings
  <2> QED  BY <1>3, <1>13, <1>15, <2>1, <2>2, Zenon
<1> HIDE DEF d
<1> QED  BY <1>16, <1>17 DEF alt

-----------------------------------------------------------------------------
(* The mode that is streamed.                                                *)

\* A control block or a committed mode is in a mode of the camera.
InModeOf(c, mode) ==
    /\ mode.ifc \in DOMAIN Config[c]
    /\ \E d \in DescribedModes[c] :
          /\ d.ifc = mode.ifc /\ d.format = mode.format /\ d.frame.index = mode.frame
          /\ HasRate(d.frame, mode.interval)

IsCtrl(b) ==
    b = [ifc |-> b.ifc, format |-> b.format, frame |-> b.frame, interval |-> b.interval,
         payload |-> b.payload]

LargeEnough ==
    altsetting > 1 =>
        \E d \in DescribedPackets[opened] :
            /\ d[1] = committed.ifc
            /\ d[2] = Config[opened][committed.ifc][altsetting].alt
            /\ d[3] >= PayloadSize

ModeInv ==
    /\ setup.camera \in Cameras /\ plugged \in Cameras \cup {None}
    /\ IsCtrl(ctrl)
    /\ main \in {"open", "negotiate", "commit", "start", "stream", "stop"} => opened \in Cameras
    /\ main \in {"commit", "start", "stream", "stop"} => InModeOf(opened, ctrl)
    /\ main \in {"start", "stream", "stop"} =>
          InModeOf(opened, committed) /\ committed.ifc = ctrl.ifc /\ committed.ifc \in claimed
    /\ main \in {"stream", "stop"} => LargeEnough

\* The steps that do not concern the mode.
LEMMA ModeStays ==
    ASSUME ModeInv, UNCHANGED <<setup, plugged, ctrl, opened, committed, claimed, altsetting, main>>
    PROVE  ModeInv'
  BY DEF ModeInv, InModeOf, IsCtrl, LargeEnough

\* main_loop is where no mode counts.
LEMMA NoModeYet ==
    ASSUME ModeInv, UNCHANGED <<setup, plugged, ctrl>>,
           main' \notin {"open", "negotiate", "commit", "start", "stream", "stop"}
    PROVE  ModeInv'
  BY DEF ModeInv, IsCtrl

LEMMA CtrlFields ==
    ASSUME NEW b, IsCtrl(b), NEW x
    PROVE  /\ [b EXCEPT !.ifc = x] = [ifc |-> x, format |-> b.format, frame |-> b.frame,
                                      interval |-> b.interval, payload |-> b.payload]
           /\ [b EXCEPT !.format = x] = [ifc |-> b.ifc, format |-> x, frame |-> b.frame,
                                         interval |-> b.interval, payload |-> b.payload]
           /\ [b EXCEPT !.frame = x] = [ifc |-> b.ifc, format |-> b.format, frame |-> x,
                                        interval |-> b.interval, payload |-> b.payload]
           /\ [b EXCEPT !.interval = x] = [ifc |-> b.ifc, format |-> b.format, frame |-> b.frame,
                                           interval |-> x, payload |-> b.payload]
           /\ [b EXCEPT !.payload = x] = [ifc |-> b.ifc, format |-> b.format, frame |-> b.frame,
                                          interval |-> b.interval, payload |-> x]
<1>1. [b EXCEPT !.ifc = x] = [ifc |-> x, format |-> b.format, frame |-> b.frame,
                              interval |-> b.interval, payload |-> b.payload]
  BY DEF IsCtrl
<1>2. [b EXCEPT !.format = x] = [ifc |-> b.ifc, format |-> x, frame |-> b.frame,
                                 interval |-> b.interval, payload |-> b.payload]
  BY DEF IsCtrl
<1>3. [b EXCEPT !.frame = x] = [ifc |-> b.ifc, format |-> b.format, frame |-> x,
                                interval |-> b.interval, payload |-> b.payload]
  BY DEF IsCtrl
<1>4. [b EXCEPT !.interval = x] = [ifc |-> b.ifc, format |-> b.format, frame |-> b.frame,
                                   interval |-> x, payload |-> b.payload]
  BY DEF IsCtrl
<1>5. [b EXCEPT !.payload = x] = [ifc |-> b.ifc, format |-> b.format, frame |-> b.frame,
                                  interval |-> b.interval, payload |-> x]
  BY DEF IsCtrl
<1> QED  BY <1>1, <1>2, <1>3, <1>4, <1>5

LEMMA FieldsChange ==
    ASSUME NEW b, IsCtrl(b), NEW x, NEW y, NEW z
    PROVE  [b EXCEPT !.format = x, !.frame = y, !.interval = z] =
              [ifc |-> b.ifc, format |-> x, frame |-> y, interval |-> z, payload |-> b.payload]
<1> DEFINE u == [b EXCEPT !.format = x]
           v == [u EXCEPT !.frame = y]
           w == [v EXCEPT !.interval = z]
<1>1. [b EXCEPT !.format = x, !.frame = y, !.interval = z] = w
  OBVIOUS
<1>2. u = [ifc |-> b.ifc, format |-> x, frame |-> b.frame, interval |-> b.interval, payload |-> b.payload]
  BY CtrlFields
<1> HIDE DEF u
<1>3. IsCtrl(u) /\ u.ifc = b.ifc /\ u.format = x /\ u.interval = b.interval /\ u.payload = b.payload
  BY <1>2 DEF IsCtrl
<1>4. v = [ifc |-> u.ifc, format |-> u.format, frame |-> y, interval |-> u.interval, payload |-> u.payload]
  BY <1>3, CtrlFields
<1> HIDE DEF v
<1>5. IsCtrl(v) /\ v.ifc = b.ifc /\ v.format = x /\ v.frame = y /\ v.payload = b.payload
  BY <1>3, <1>4 DEF IsCtrl
<1>6. w = [ifc |-> v.ifc, format |-> v.format, frame |-> v.frame, interval |-> z, payload |-> v.payload]
  BY <1>5, CtrlFields
<1> HIDE DEF w
<1> QED  BY <1>1, <1>5, <1>6

LEMMA Decodes ==
    ASSUME NEW b, IsCtrl(b), NEW a
    PROVE  Decode(b, a) = [ifc |-> b.ifc, format |-> a.format, frame |-> a.frame,
                           interval |-> a.interval, payload |-> a.payload]
<1> DEFINE x == a.format
           y == a.frame
           z == a.interval
           p == a.payload
           u == [b EXCEPT !.format = x, !.frame = y, !.interval = z]
<1>1. Decode(b, a) = [u EXCEPT !.payload = p]
  BY DEF Decode
<1> HIDE DEF x, y, z, p
<1>2. u = [ifc |-> b.ifc, format |-> x, frame |-> y, interval |-> z, payload |-> b.payload]
  BY FieldsChange, Zenon
<1> HIDE DEF u
<1>3. IsCtrl(u) /\ u.ifc = b.ifc /\ u.format = x /\ u.frame = y /\ u.interval = z
  BY <1>2 DEF IsCtrl
<1>4. [u EXCEPT !.payload = p] = [ifc |-> u.ifc, format |-> u.format, frame |-> u.frame,
                                  interval |-> u.interval, payload |-> p]
  BY <1>3, CtrlFields
<1>5. Decode(b, a) = [ifc |-> b.ifc, format |-> x, frame |-> y, interval |-> z, payload |-> p]
  BY <1>1, <1>3, <1>4
<1> QED  BY <1>5 DEF x, y, z, p

\* What the camera is asked for is a mode of its own, and so is what it answers.
LEMMA AskedIsInMode ==
    ASSUME NEW c \in Cameras, FoundMode(Info[c], Mode) # 0,
           NEW required, IsCtrl(required),
           LET m == SizeMatches(Info[c], Mode)[FoundMode(Info[c], Mode)]
           IN  /\ required.ifc = m.stream.number /\ required.format = m.format.index
               /\ required.frame = m.frame.index
               /\ required.interval = IntervalFor(m.frame, Mode.fps)
    PROVE  /\ InModeOf(c, required)
           /\ \A actual : /\ actual.ifc = required.ifc /\ actual.format = required.format
                          /\ actual.frame = required.frame
                          /\ \/ actual.interval = required.interval
                             \/ /\ actual.format = Device[c].default.format
                                /\ actual.frame = Device[c].default.frame
                                /\ actual.interval = Device[c].default.interval
                          => InModeOf(c, actual)
<1> DEFINE m == SizeMatches(Info[c], Mode)[FoundMode(Info[c], Mode)]
<1>1. m.stream.number \in DOMAIN Config[c]
      /\ \E d \in DescribedModes[c] : ReadFrom(d, m.stream.number, m.format, m.frame)
  BY FoundIsAMatch, MatchIsDescribed
<1>2. IntervalFor(m.frame, Mode.fps) # 0
  BY FoundIsAMatch
<1>3. /\ required.ifc = m.stream.number /\ required.format = m.format.index
      /\ required.frame = m.frame.index
      /\ required.interval = IntervalFor(m.frame, Mode.fps)
  OBVIOUS
<1> HIDE DEF m
<1>4. PICK d \in DescribedModes[c] : ReadFrom(d, m.stream.number, m.format, m.frame)
  BY <1>1
<1>5. d.ifc = required.ifc /\ d.format = required.format /\ d.frame.index = required.frame
      /\ SameFrame(m.frame, d.frame)
  BY <1>3, <1>4 DEF ReadFrom, SameFrame
<1>6. HasRate(d.frame, required.interval)
  <2>1. m.frame.intervals \in Seq(Nat) /\ m.frame.min \in Nat /\ m.frame.max \in Nat
    BY <1>5, DescribedRates DEF SameFrame
  <2>2. HasRate(m.frame, required.interval)
    BY <1>2, <1>3, <2>1, RateIsOfTheFrame, CameraAssumption
  <2> QED  BY <1>5, <2>2, RateIsRead
<1>7. required.ifc \in DOMAIN Config[c]
  BY <1>1, <1>3
<1>8. DefaultIsDescribed(c)
  BY DescriptionAssumption
<1>9. ASSUME NEW actual, actual.ifc = required.ifc, actual.format = required.format,
             actual.frame = required.frame,
             \/ actual.interval = required.interval
             \/ /\ actual.format = Device[c].default.format
                /\ actual.frame = Device[c].default.frame
                /\ actual.interval = Device[c].default.interval
      PROVE  InModeOf(c, actual)
  <2>1. HasRate(d.frame, actual.interval)
    BY <1>5, <1>6, <1>8, <1>9 DEF DefaultIsDescribed
  <2> QED  BY <1>5, <1>7, <1>9, <2>1 DEF InModeOf
<1> QED  BY <1>5, <1>6, <1>7, <1>9 DEF InModeOf

LEMMA Negotiates ==
    ASSUME Negotiate, IsCtrl(ctrl), opened \in Cameras
    PROVE  /\ IsCtrl(ctrl') /\ main' \in {"negotiate", "commit"}
           /\ main' = "commit" => InModeOf(opened, ctrl')
<1> DEFINE matches == SizeMatches(Info[opened], Mode)
           found == FoundMode(Info[opened], Mode)
           tried == IF found = 0 THEN DOMAIN matches ELSE 1..found
           last == IF found = 0 THEN Len(matches) ELSE found
           Asked(max) == IF tried = {} THEN ctrl
                         ELSE LET c == [ctrl EXCEPT !.ifc = matches[last].stream.number]
                              IN  IF max THEN Decode(c, Device[opened].max) ELSE c
           Required(max) == [Asked(max) EXCEPT !.format = matches[found].format.index,
                                              !.frame = matches[found].frame.index,
                                              !.interval = IntervalFor(matches[found].frame, Mode.fps)]
           Actual(max, set, get) ==
               IF ~get THEN Required(max)
               ELSE IF set THEN Decode(Required(max), Current(Required(max)))
               ELSE Decode(Required(max), Device[opened].default)
<1>1. main = "negotiate"
  BY DEF Negotiate
<1>2. PICK max \in Answers, set \in Answers, get \in Answers :
         IF found = 0
         THEN ctrl' = Asked(max) /\ UNCHANGED main
         ELSE /\ ctrl' = Actual(max, set, get)
              /\ main' = IF Negotiated(Required(max), Actual(max, set, get)) THEN "commit" ELSE main
  <2> DEFINE Claims == claimed' = claimed \cup
                  (IF alive THEN {matches[k].stream.number : k \in tried} ELSE {})
             Sets(max, set, get) ==
                 IF found = 0
                 THEN ctrl' = Asked(max) /\ UNCHANGED main
                 ELSE /\ ctrl' = Actual(max, set, get)
                      /\ main' = IF Negotiated(Required(max), Actual(max, set, get)) THEN "commit" ELSE main
  <2>1. \E max, set, get \in Answers : Claims /\ Sets(max, set, get)
    BY Zenon DEF Negotiate
  <2> HIDE DEF Claims, Sets
  <2>2. \E max, set, get \in Answers : Sets(max, set, get)
    BY <2>1, Zenon
  <2> QED  BY <2>2 DEF Sets
<1> DEFINE asked == Asked(max)
           required == Required(max)
           actual == Actual(max, set, get)
<1>3. /\ IsCtrl(asked)
      /\ tried # {} => asked.ifc = matches[last].stream.number
  <2> DEFINE i == matches[last].stream.number
             c == [ctrl EXCEPT !.ifc = i]
             a == Device[opened].max
  <2>1. asked = IF tried = {} THEN ctrl ELSE IF max THEN Decode(c, a) ELSE c
    OBVIOUS
  <2> HIDE DEF i, a, asked, tried
  <2>2. IsCtrl(c) /\ c.ifc = i
    <3>1. c = [ifc |-> i, format |-> ctrl.format, frame |-> ctrl.frame, interval |-> ctrl.interval,
               payload |-> ctrl.payload]
      BY CtrlFields
    <3> HIDE DEF c
    <3> QED  BY <3>1 DEF IsCtrl
  <2> HIDE DEF c
  <2>3. IsCtrl(Decode(c, a)) /\ Decode(c, a).ifc = i
    <3> DEFINE e == Decode(c, a)
    <3>1. e = [ifc |-> c.ifc, format |-> a.format, frame |-> a.frame, interval |-> a.interval,
               payload |-> a.payload]
      BY <2>2, Decodes
    <3> HIDE DEF e
    <3>2. IsCtrl(e) /\ e.ifc = c.ifc
      BY <3>1 DEF IsCtrl
    <3> QED  BY <2>2, <3>2 DEF e
  <2>4. IsCtrl(asked) /\ (tried # {} => asked.ifc = i)
    BY <2>1, <2>2, <2>3
  <2> QED  BY <2>4 DEF i
<1>4. CASE found = 0
  <2>1. ctrl' = asked /\ main' = "negotiate"
    BY <1>1, <1>2, <1>4
  <2> HIDE DEF asked
  <2> QED  BY <1>3, <2>1
<1>5. CASE found # 0
  <2> DEFINE m == matches[found]
             answer == Current(required)
             before == Device[opened].default
  <2>1. found \in Nat \ {0}
    BY <1>5, FoundIsAMatch
  <2>2. tried # {} /\ last = found
    <3>1. tried = 1..found /\ last = found
      BY <1>5
    <3> HIDE DEF tried, found
    <3> QED  BY <2>1, <3>1
  <2>3. asked.ifc = m.stream.number
    <3> HIDE DEF asked, tried, last, found, matches
    <3> QED  BY <1>3, <2>2
  <2>4. ctrl' = actual /\ main' = IF Negotiated(required, actual) THEN "commit" ELSE main
    BY <1>2, <1>5
  <2>5. /\ required = [asked EXCEPT !.format = m.format.index, !.frame = m.frame.index,
                                    !.interval = IntervalFor(m.frame, Mode.fps)]
        /\ actual = IF ~get THEN required
                    ELSE IF set THEN Decode(required, answer) ELSE Decode(required, before)
    OBVIOUS
  <2> HIDE DEF actual, required, asked, m, tried, last
  <2>6. required = [ifc |-> asked.ifc, format |-> m.format.index, frame |-> m.frame.index,
                    interval |-> IntervalFor(m.frame, Mode.fps), payload |-> asked.payload]
    <3> DEFINE x == m.format.index
               y == m.frame.index
               z == IntervalFor(m.frame, Mode.fps)
    <3>1. required = [asked EXCEPT !.format = x, !.frame = y, !.interval = z]
      BY <2>5
    <3> HIDE DEF x, y, z
    <3>2. required = [ifc |-> asked.ifc, format |-> x, frame |-> y, interval |-> z,
                      payload |-> asked.payload]
      BY <1>3, <3>1, FieldsChange, Zenon
    <3> QED  BY <3>2 DEF x, y, z
  <2>7. /\ IsCtrl(required) /\ required.ifc = m.stream.number /\ required.format = m.format.index
        /\ required.frame = m.frame.index /\ required.interval = IntervalFor(m.frame, Mode.fps)
    BY <2>3, <2>6 DEF IsCtrl
  <2>8. answer.format = required.format /\ answer.frame = required.frame
        /\ answer.interval = required.interval
    BY DEF Current
  <2> HIDE DEF answer, before
  <2>9. \A x : /\ IsCtrl(Decode(required, x)) /\ Decode(required, x).ifc = required.ifc
               /\ Decode(required, x).format = x.format /\ Decode(required, x).frame = x.frame
               /\ Decode(required, x).interval = x.interval
    <3> TAKE x
    <3> DEFINE e == Decode(required, x)
    <3>1. e = [ifc |-> required.ifc, format |-> x.format, frame |-> x.frame, interval |-> x.interval,
               payload |-> x.payload]
      BY <2>7, Decodes
    <3> HIDE DEF e
    <3>2. IsCtrl(e) /\ e.ifc = required.ifc /\ e.format = x.format /\ e.frame = x.frame
          /\ e.interval = x.interval
      BY <3>1 DEF IsCtrl
    <3> QED  BY <3>2 DEF e
  <2>10. /\ IsCtrl(actual) /\ actual.ifc = required.ifc
         /\ \/ actual.format = required.format /\ actual.frame = required.frame
               /\ actual.interval = required.interval
            \/ /\ actual.format = before.format /\ actual.frame = before.frame
               /\ actual.interval = before.interval
    <3>1. CASE ~get
      <4>1. actual = required
        BY <2>5, <3>1
      <4> QED  BY <2>7, <4>1
    <3>2. CASE get /\ set
      <4>1. actual = Decode(required, answer)
        BY <2>5, <3>2
      <4> QED  BY <2>8, <2>9, <4>1
    <3>3. CASE get /\ ~set
      <4>1. actual = Decode(required, before)
        BY <2>5, <3>3
      <4> QED  BY <2>9, <4>1
    <3> QED  BY <3>1, <3>2, <3>3
  <2>11. CASE Negotiated(required, actual)
    <3>1. required.format = actual.format /\ required.frame = actual.frame
      BY <2>11 DEF Negotiated
    <3>2. InModeOf(opened, actual)
      BY <1>5, <2>7, <2>10, <3>1, AskedIsInMode DEF m, before
    <3> QED  BY <2>4, <2>10, <2>11, <3>2
  <2>12. CASE ~Negotiated(required, actual)
    BY <1>1, <2>4, <2>10, <2>12
  <2> QED  BY <2>11, <2>12
<1> QED  BY <1>4, <1>5

LEMMA ModeNegotiates == ASSUME ModeInv, Negotiate PROVE ModeInv'
<1>1. main = "negotiate" /\ UNCHANGED <<setup, plugged, opened>>
  BY DEF Negotiate
<1>2. opened \in Cameras
  BY <1>1 DEF ModeInv
<1>3. /\ IsCtrl(ctrl') /\ main' \in {"negotiate", "commit"}
      /\ main' = "commit" => InModeOf(opened, ctrl')
  BY <1>2, Negotiates DEF ModeInv
<1>4. IsCtrl(ctrl)' /\ (main' = "commit" => InModeOf(opened, ctrl)')
  BY <1>1, <1>3 DEF IsCtrl, InModeOf
<1> QED  BY <1>1, <1>2, <1>3, <1>4 DEF ModeInv

LEMMA ModeCommits == ASSUME ModeInv, Commit PROVE ModeInv'
<1>1. main = "commit" /\ opened \in Cameras /\ IsCtrl(ctrl) /\ InModeOf(opened, ctrl)
  BY DEF Commit, ModeInv
<1>2. CASE Panic
  BY <1>2, NoModeYet DEF Panic, sessionVars
<1>3. CASE ~Panic
  <2>1. /\ ctrl' = [ctrl EXCEPT !.payload = PayloadSize]
        /\ claimed' = claimed \cup {ctrl.ifc}
        /\ committed' = [ifc |-> ctrl.ifc, format |-> ctrl.format, frame |-> ctrl.frame,
                         interval |-> ctrl.interval]
        /\ main' = "start" /\ UNCHANGED <<setup, plugged, opened>>
    BY <1>3 DEF Commit
  <2>2. ctrl' = [ifc |-> ctrl.ifc, format |-> ctrl.format, frame |-> ctrl.frame,
                 interval |-> ctrl.interval, payload |-> PayloadSize]
    BY <1>1, <2>1, CtrlFields
  <2>3. IsCtrl(ctrl)' /\ InModeOf(opened, ctrl)'
    BY <1>1, <2>1, <2>2 DEF IsCtrl, InModeOf
  <2>4. InModeOf(opened, committed)' /\ committed'.ifc = ctrl'.ifc /\ committed'.ifc \in claimed'
    BY <1>1, <2>1, <2>2 DEF InModeOf
  <2> QED  BY <1>1, <2>1, <2>3, <2>4 DEF ModeInv
<1> QED  BY <1>2, <1>3

LEMMA ModeStarts == ASSUME ModeInv, Start PROVE ModeInv'
<1> DEFINE i == committed.ifc
           settings == Config[opened][i]
           address == StreamIf(i).endpoint
<1>1. /\ main = "start" /\ opened \in Cameras /\ InModeOf(opened, committed) /\ i = ctrl.ifc
      /\ i \in claimed /\ i \in DOMAIN Config[opened]
  BY DEF Start, ModeInv, InModeOf
<1>2. CASE Panic
  BY <1>2, NoModeYet DEF Panic, sessionVars
<1>3. CASE ~Panic
  <2>1. /\ Len(settings) > 1 => AltFor(settings, address) # 0
        /\ altsetting' = IF Len(settings) > 1 THEN AltFor(settings, address) ELSE 1
        /\ main' = "stream" /\ UNCHANGED <<setup, plugged, opened, ctrl, committed, claimed>>
    BY <1>1, <1>3 DEF Start, CanStart
  <2>2. altsetting' > 1 =>
           \E d \in DescribedPackets[opened] :
               d[1] = i /\ d[2] = settings[altsetting'].alt /\ d[3] >= PayloadSize
    <3> SUFFICES ASSUME altsetting' > 1
                 PROVE  \E d \in DescribedPackets[opened] :
                           d[1] = i /\ d[2] = settings[altsetting'].alt /\ d[3] >= PayloadSize
      OBVIOUS
    <3> HIDE DEF settings, address
    <3>1. altsetting' = AltFor(settings, address) /\ AltFor(settings, address) # 0
      BY <2>1
    <3>2. \E d \in DescribedPackets[opened] :
             d[1] = i /\ d[2] = settings[AltFor(settings, address)].alt /\ d[3] >= PayloadSize
      <4> HIDE DEF i
      <4> QED  BY <1>1, <3>1, PacketsAreDescribed DEF settings
    <3> QED  BY <3>1, <3>2
  <2>3. LargeEnough'
    BY <2>1, <2>2 DEF LargeEnough
  <2>4. InModeOf(opened, committed)' /\ InModeOf(opened, ctrl)' /\ IsCtrl(ctrl)'
    BY <1>1, <2>1 DEF ModeInv, InModeOf, IsCtrl
  <2> QED  BY <1>1, <2>1, <2>3, <2>4 DEF ModeInv
<1> QED  BY <1>2, <1>3

LEMMA ModeStep == ModeInv /\ [Next]_vars => ModeInv'
<1> SUFFICES ASSUME ModeInv, [Next]_vars PROVE ModeInv'
  OBVIOUS
<1>1. CASE Plug \/ Unplug
  BY <1>1 DEF Plug, Unplug, sessionVars, ModeInv, InModeOf, IsCtrl, LargeEnough
<1>2. CASE WaitConnected
  BY <1>2, NoModeYet DEF WaitConnected, sessionVars
<1>3. CASE FindDevice
  BY <1>3 DEF FindDevice, Panic, sessionVars, ModeInv, IsCtrl
<1>4. CASE Open
  BY <1>4 DEF Open, Panic, sessionVars, ModeInv, IsCtrl
<1>5. CASE Negotiate \/ Commit \/ Start
  BY <1>5, ModeNegotiates, ModeCommits, ModeStarts
<1>6. CASE WaitDisconnected
  BY <1>6 DEF WaitDisconnected, sessionVars, ModeInv, InModeOf, IsCtrl, LargeEnough
<1>7. CASE StopStreaming
  <2>1. CASE stopper' = "none"
    BY <1>7, <2>1, NoModeYet DEF StopStreaming
  <2>2. CASE stopper' # "none"
    BY <1>7, <2>2, ModeStays DEF StopStreaming
  <2> QED  BY <2>1, <2>2
<1>8. CASE Close
  BY <1>8, NoModeYet DEF Close
<1>9. CASE Join
  BY <1>9, NoModeYet DEF Join
<1>10. CASE ControlsDone
  BY <1>10, NoModeYet DEF ControlsDone, sessionVars
<1>11. CASE StatusCallback \/ HandlerThread
  BY <1>11, ModeStays DEF StatusCallback, HandlerThread
<1>12. CASE \E c \in UvcControlSet : SetControl(c) \/ GetControl(c)
  BY <1>12, ModeStays DEF SetControl, GetControl, sessionVars
<1>13. CASE Bus \/ Usb \/ User
  BY <1>13, ModeStays DEF Bus, Usb, User, NotMain, sessionVars
<1>14. CASE UNCHANGED vars
  BY <1>14, ModeStays DEF vars, sessionVars
<1> QED
  BY <1>1, <1>2, <1>3, <1>4, <1>5, <1>6, <1>7, <1>8, <1>9, <1>10, <1>11, <1>12, <1>13, <1>14
     DEF Next, MainLoop

\* Whatever the descriptors are and the camera answers, and whether or not the queries of the
\* negotiation succeed, what is streamed is a mode the camera describes in the interface that
\* is claimed, through a setting whose packets hold the payload.
THEOREM StreamedModeIsDescribed == Spec => []NegotiatedMode
<1>1. Init => ModeInv
  BY DEF Init, ModeInv, IsCtrl, NoCtrl
<1>2. ModeInv => NegotiatedMode
  BY DEF ModeInv, InModeOf, LargeEnough, NegotiatedMode
<1> QED  BY <1>1, <1>2, ModeStep, PTL DEF Spec
=============================================================================
