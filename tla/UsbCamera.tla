------------------------------ MODULE UsbCamera ------------------------------
(***************************************************************************)
(* The USB camera of the gateway (usb_camera.c): main_loop waits for a       *)
(* camera, opens it, negotiates a mode, streams until the camera is gone and *)
(* closes it.  Every UVC_CHECK that fails is an assert, and reboots.         *)
(* libuvc_adapter and libusb are not in the repository: connection events,   *)
(* control transfers and libusb_close are modelled from how they are used.   *)
(***************************************************************************)
EXTENDS UvcDescriptors, UvcStream, UvcControls

CONSTANTS
    Cameras,       \* cameras there may be
    Device,        \* Device[c]: its descriptors, and its answers about the largest mode, the
                   \* mode it is in when nothing was set, and the payload of a mode
    Mode,          \* FORMAT, WIDTH, HEIGHT, FPS
    MaxPlugs,      \* bound: times a camera is plugged in
    MaxControls,   \* bound: controls set in one session
    ControlPlugs   \* bound: plugs up to which controls are set

ASSUME CameraAssumption ==
    /\ None \notin Cameras
    /\ Mode.format = "mjpeg" /\ Mode.fps \in Nat \ {0}
    /\ {MaxPlugs, MaxControls, ControlPlugs} \subseteq Nat

VARIABLES
    setup,      \* the camera there is, and what the program does with it: "stream", "controls"
    plugged,    \* the camera that is plugged in
    plugs,      \* times one was
    bits,       \* app_flags
    main,       \* the place of main_loop
    opened,     \* the camera of devh
    alive,      \* it is still the one plugged in
    claimed,    \* devh->claimed
    status,     \* devh->status_xfer
    handler,    \* ctx->handler_thread
    kill,       \* ctx->kill_handler_thread
    ctrl,       \* the control block
    committed,  \* the mode the camera streams in
    altsetting, \* the alternate setting selected
    regs,       \* the registers of the camera that were set
    written,    \* what the program set them to
    reply       \* what the last uvc_get_<control> left the program with

sessionVars == <<opened, alive, claimed, status, handler, kill, ctrl, committed, altsetting>>
controlVars == <<regs, written, reply>>
vars == <<streamVars, setup, plugged, plugs, bits, main, sessionVars, controlVars>>

\* What the host reads out of the descriptors of each camera.
Config == [c \in Cameras |-> Configuration(Device[c].raw)]
Info == [c \in Cameras |-> ScanControl(Config[c])]

NoCtrl == [ifc |-> None, format |-> 0, frame |-> 0, interval |-> 0, payload |-> 0]
NoReply == [control |-> None, ret |-> -1, values |-> <<>>]

\* initCamera; a camera that is in the port already is told of like one plugged in.
Init ==
    /\ StreamInit
    /\ setup \in [camera : Cameras, use : {"stream", "controls"}]
    /\ plugged = None /\ plugs = 0
    /\ bits = {}
    /\ main = "wait"
    /\ opened = None /\ alive = FALSE /\ claimed = {} /\ status = "none"
    /\ handler = "none" /\ kill = FALSE
    /\ ctrl = NoCtrl /\ committed = None /\ altsetting = 0
    /\ regs = <<>> /\ written = <<>> /\ reply = NoReply

-----------------------------------------------------------------------------
(* The port.                                                                *)

Plug ==
    /\ plugged = None /\ plugs < MaxPlugs
    /\ plugged' = setup.camera /\ plugs' = plugs + 1
    /\ bits' = bits \cup {"connected"}
    /\ UNCHANGED <<streamVars, setup, main, sessionVars, controlVars>>

\* The adapter tells of a camera that is gone, at least of one that is open.
Unplug ==
    /\ plugged # None
    /\ plugged' = None
    /\ alive' = FALSE
    /\ bits' \in {bits \cup {"disconnected"}} \cup (IF alive THEN {} ELSE {bits})
    /\ UNCHANGED <<streamVars, setup, plugs, main, opened, claimed, status, handler, kill, ctrl,
                   committed, altsetting, controlVars>>

\* assert(0): the gateway starts over, from Init.
Panic ==
    /\ main' = "panic"
    /\ UNCHANGED <<streamVars, setup, plugged, plugs, bits, sessionVars, controlVars>>

-----------------------------------------------------------------------------
(* main_loop: finding and opening the camera.                               *)

\* xEventGroupWaitBits clears the bit it waited for.
WaitConnected ==
    /\ main = "wait" /\ "connected" \in bits
    /\ bits' = bits \ {"connected"}
    /\ main' = "find"
    /\ UNCHANGED <<streamVars, setup, plugged, plugs, sessionVars, controlVars>>

FindDevice ==
    /\ main = "find"
    /\ IF plugged # None /\ IsUvcDevice(Config[plugged])
       THEN /\ main' = "open" /\ opened' = plugged /\ alive' = TRUE
            /\ UNCHANGED <<streamVars, setup, plugged, plugs, bits, claimed, status, handler, kill,
                           ctrl, committed, altsetting, controlVars>>
       ELSE Panic

\* uvc_open: the control interface is claimed, the status endpoint listened to, and the
\* handler thread started, whatever kill_handler_thread says.
Open ==
    /\ main = "open"
    /\ IF alive /\ Info[opened].ret = "ok"
       THEN /\ claimed' = {Info[opened].ctrlIf}
            /\ status' = IF Info[opened].status = 0 THEN "none" ELSE "flight"
            /\ handler' = "running"
            /\ main' = IF setup.use = "stream" THEN "negotiate" ELSE "controls"
            /\ UNCHANGED <<streamVars, setup, plugged, plugs, bits, opened, alive, kill, ctrl,
                           committed, altsetting, controlVars>>
       ELSE Panic

\* _uvc_status_callback: after data the transfer is submitted again, after an error not.
StatusCallback ==
    /\ status = "flight" /\ ~alive
    /\ status' = "ended"
    /\ UNCHANGED <<streamVars, setup, plugged, plugs, bits, main, opened, alive, claimed, handler,
                   kill, ctrl, committed, altsetting, controlVars>>

HandlerThread ==
    /\ handler = "running" /\ kill
    /\ handler' = "ended"
    /\ UNCHANGED <<streamVars, setup, plugged, plugs, bits, main, opened, alive, claimed, status,
                   kill, ctrl, committed, altsetting, controlVars>>

-----------------------------------------------------------------------------
(* Negotiating a mode.                                                      *)

\* Control transfers fail when the camera is gone, and may fail when it is not.
Answers == IF alive THEN {TRUE, FALSE} ELSE {FALSE}

\* A control block decoded from an answer (the size of a frame is FrameParts).
Decode(c, answer) ==
    [c EXCEPT !.format = answer.format, !.frame = answer.frame,
              !.interval = answer.interval, !.payload = answer.payload]

\* What the camera answers about the mode it has been set to.
Current(required) ==
    [format |-> required.format, frame |-> required.frame, interval |-> required.interval,
     payload |-> Device[opened].payload]

\* Mutant of Negotiated: the frame is not compared.
NegotiatedFormatOnly(required, actual) ==
    /\ required.format = actual.format
    /\ required.payload = actual.payload

\* _uvc_stream_params_negotiated: the rate is not compared.
Negotiated(required, actual) ==
    /\ required.format = actual.format
    /\ required.frame = actual.frame
    /\ required.payload = actual.payload

\* One call of uvc_get_stream_ctrl_format_size.  The queries that fail are not looked at.
Negotiate ==
    /\ main = "negotiate"
    /\ LET matches == SizeMatches(Info[opened], Mode)
           found == FoundMode(Info[opened], Mode)
           tried == IF found = 0 THEN DOMAIN matches ELSE 1..found
           last == IF found = 0 THEN Len(matches) ELSE found
       IN  \E max, set, get \in Answers :
           LET asked == IF tried = {} THEN ctrl
                        ELSE LET c == [ctrl EXCEPT !.ifc = matches[last].stream.number]
                             IN  IF max THEN Decode(c, Device[opened].max) ELSE c
               required == [asked EXCEPT !.format = matches[found].format.index,
                                         !.frame = matches[found].frame.index,
                                         !.interval = IntervalFor(matches[found].frame, Mode.fps)]
               actual == IF ~get THEN required
                         ELSE IF set THEN Decode(required, Current(required))
                         ELSE Decode(required, Device[opened].default)
           IN  /\ claimed' = claimed \cup
                     (IF alive THEN {matches[k].stream.number : k \in tried} ELSE {})
               /\ IF found = 0
                  THEN ctrl' = asked /\ UNCHANGED main
                  ELSE /\ ctrl' = actual
                       /\ main' = IF Negotiated(required, actual) THEN "commit" ELSE main
    /\ UNCHANGED <<streamVars, setup, plugged, plugs, bits, opened, alive, status, handler, kill,
                   committed, altsetting, controlVars>>

-----------------------------------------------------------------------------
(* uvc_start_streaming.                                                     *)

StreamIf(i) == CHOOSE s \in ToSet(Info[opened].streams) : s.number = i

\* uvc_stream_open_ctrl, with the payload size main_loop puts in.
Commit ==
    /\ main = "commit"
    /\ \E answer \in Answers :
        IF answer
        THEN /\ ctrl' = [ctrl EXCEPT !.payload = PayloadSize]
             /\ claimed' = claimed \cup {ctrl.ifc}
             /\ committed' = [ifc |-> ctrl.ifc, format |-> ctrl.format, frame |-> ctrl.frame,
                              interval |-> ctrl.interval]
             /\ main' = "start"
             /\ UNCHANGED <<streamVars, setup, plugged, plugs, bits, opened, alive, status, handler,
                            kill, altsetting, controlVars>>
        ELSE Panic

\* uvc_stream_start: over a bulk endpoint when the interface has one setting, else through
\* the first setting whose packets are large enough.
CanStart(settings, endpoint) ==
    /\ \E fr \in FramesOf(StreamIf(ctrl.ifc), ctrl.format, ctrl.frame) : TRUE
    /\ \E f \in ToSet(StreamIf(ctrl.ifc).formats) :
          f.index = ctrl.format /\ FrameFormat(f.guid) # "unknown"
    /\ Len(settings) > 1 => alive /\ AltFor(settings, endpoint) # 0

Start ==
    /\ main = "start"
    /\ LET settings == Config[opened][ctrl.ifc]
           endpoint == StreamIf(ctrl.ifc).endpoint
       IN  IF CanStart(settings, endpoint)
           THEN /\ altsetting' = IF Len(settings) > 1 THEN AltFor(settings, endpoint) ELSE 1
                /\ \E n \in (IF alive THEN 0..NumTransfers ELSE {0}) : StartStream(n)
                /\ main' = "stream"
                /\ UNCHANGED <<setup, plugged, plugs, bits, opened, alive, claimed, status, handler,
                               kill, ctrl, committed, controlVars>>
           ELSE Panic

WaitDisconnected ==
    /\ main = "stream" /\ "disconnected" \in bits
    /\ bits' = bits \ {"disconnected"}
    /\ StopBegins
    /\ main' = "stop"
    /\ UNCHANGED <<setup, plugged, plugs, sessionVars, controlVars>>

\* Between the steps of the stream, main_loop is inside uvc_stop_streaming.
StopStreaming ==
    /\ main = "stop"
    /\ Stopper
    /\ main' = IF stopper' = "none" THEN "close" ELSE "stop"
    /\ claimed' = IF stopper' = "none" THEN claimed \ {ctrl.ifc} ELSE claimed
    /\ UNCHANGED <<setup, plugged, plugs, bits, opened, alive, status, handler, kill, ctrl,
                   committed, altsetting, controlVars>>

\* uvc_close: libusb_close ends the status transfer and lets the handler thread look at
\* kill_handler_thread, which nothing clears again.
Close ==
    /\ main = "close"
    /\ kill' = TRUE
    /\ status' = "none"
    /\ claimed' = claimed \ {Info[opened].ctrlIf}
    /\ main' = "join"
    /\ UNCHANGED <<streamVars, setup, plugged, plugs, bits, opened, alive, handler, ctrl, committed,
                   altsetting, controlVars>>

Join ==
    /\ main = "join" /\ handler = "ended"
    /\ main' = "wait"
    /\ handler' = "none"
    /\ opened' = None /\ alive' = FALSE /\ claimed' = {}
    /\ committed' = None /\ altsetting' = 0
    /\ UNCHANGED <<streamVars, setup, plugged, plugs, bits, status, kill, ctrl, controlVars>>

-----------------------------------------------------------------------------
(* A program that uses the controls instead of streaming.                    *)

\* A value of the i-th parameter, small or at the other end of its range, with all its
\* bytes different.
Sample(f, i, high) ==
    LET v == (CASE f.width = 1 -> 1 [] f.width = 2 -> 258 [] f.width = 4 -> 16909060) * i
    IN  IF ~high THEN v
        ELSE IF f.signed THEN 0 - v
        ELSE IF f.width = 4 THEN 2147483647 - v
        ELSE 256 ^ f.width - v

\* Two sets of values for the parameters of a control, apart in every byte.
Samples(c) ==
    {[i \in DOMAIN c.fields |-> Sample(c.fields[i], i, high)] : high \in BOOLEAN}

\* What libusb_control_transfer returns: an error, a transfer one byte short (if that is
\* not an empty one), all of it.
Returned(c) == IF alive THEN {-1, c.size - 1, c.size} \ {0} ELSE {-1}

\* uvc_set_<control> whose transfer goes through (one that fails changes nothing); a control
\* of a unit the camera does not have is no legal call.
SetControl(c) ==
    /\ main = "controls" /\ alive
    /\ plugs <= ControlPlugs /\ Cardinality(DOMAIN written) < MaxControls
    /\ c.unit \in Info[opened].units
    /\ \E values \in Samples(c) :
        /\ regs' = [r \in DOMAIN regs \cup {<<c.unit, c.selector>>} |->
                      IF r = <<c.unit, c.selector>> THEN Encoded(c, values) ELSE regs[r]]
        /\ written' = [x \in DOMAIN written \cup {c} |-> IF x = c THEN values ELSE written[x]]
    /\ reply' = NoReply
    /\ UNCHANGED <<streamVars, setup, plugged, plugs, bits, main, sessionVars>>

\* uvc_get_<control> with UVC_GET_CUR.
GetControl(c) ==
    /\ main = "controls" /\ c \in DOMAIN written
    /\ \E ret \in Returned(c) :
        reply' = Reply(c, ret, regs[<<c.unit, c.selector>>], <<>>)
    /\ UNCHANGED <<streamVars, setup, plugged, plugs, bits, main, sessionVars, regs, written>>

\* The program is done with the camera, and forgets what it set.
ControlsDone ==
    /\ main = "controls"
    /\ main' = "close"
    /\ regs' = <<>> /\ written' = <<>> /\ reply' = NoReply
    /\ UNCHANGED <<streamVars, setup, plugged, plugs, bits, sessionVars>>

-----------------------------------------------------------------------------
NotMain == UNCHANGED <<setup, plugged, plugs, bits, main, sessionVars, controlVars>>

Bus == (DataArrives(alive) \/ DataLost(alive) \/ TimesOut(alive) \/ Ends(alive)) /\ NotMain
Usb == UsbTask(alive) /\ NotMain
User == UserThread /\ NotMain

MainLoop ==
    \/ WaitConnected \/ FindDevice \/ Open \/ Negotiate \/ Commit \/ Start
    \/ WaitDisconnected \/ StopStreaming \/ Close \/ Join \/ ControlsDone

Next ==
    \/ Plug \/ Unplug
    \/ MainLoop
    \/ StatusCallback
    \/ HandlerThread
    \/ \E c \in UvcControlSet : SetControl(c) \/ GetControl(c)
    \/ Bus
    \/ Usb
    \/ User

\* Inside uvc_stop_streaming main_loop only waits for the others; the tasks run when they
\* can, and a transfer completes or times out.
Fairness ==
    /\ WF_vars(StopStreaming)
    /\ WF_vars(Bus) /\ WF_vars(Usb) /\ WF_vars(User)

Spec == Init /\ [][Next]_vars /\ Fairness

-----------------------------------------------------------------------------
\* What a camera says of itself, read without the host's tables: the interface a block is
\* in, the MJPEG modes of the size asked for, the packets of the alternate settings.
InterfaceOf(raw, p) ==
    raw[CHOOSE q \in 1..p : /\ raw[q].kind = "interface"
                            /\ \A r \in q + 1..p : raw[r].kind # "interface"]

IsFormat(block) ==
    block.kind = "cs" /\ block.sub \in {"format_uncompressed", "format_mjpeg", "format_frame_based"}

\* A host knows an MJPEG format by its kind, or by its GUID.
IsMjpeg(block) ==
    IsFormat(block) /\ (block.sub = "format_mjpeg" \/ block.guid = "mjpeg")

IsFrame(block) ==
    block.kind = "cs" /\ block.sub \in {"frame", "frame_frame_based"}

DescribedModes ==
    [c \in Cameras |->
        LET raw == Device[c].raw
            frames == {q \in DOMAIN raw : /\ IsFrame(raw[q])
                                          /\ raw[q].width = Mode.width
                                          /\ raw[q].height = Mode.height}
            pairs == {pq \in {p \in DOMAIN raw : IsMjpeg(raw[p])} \X frames :
                        /\ pq[1] < pq[2]
                        /\ \A r \in pq[1] + 1..pq[2] : ~IsFormat(raw[r])
                        /\ InterfaceOf(raw, pq[1]) = InterfaceOf(raw, pq[2])}
        IN  {[ifc |-> InterfaceOf(raw, pq[1]).number, format |-> raw[pq[1]].index,
              frame |-> raw[pq[2]]] : pq \in pairs}]

DescribedPackets ==
    [c \in Cameras |->
        LET raw == Device[c].raw
            endpoints == {p \in DOMAIN raw : raw[p].kind = "endpoint"}
        IN  {<<InterfaceOf(raw, p).number, InterfaceOf(raw, p).alt, raw[p].packet * (raw[p].mult + 1)>> :
                p \in endpoints}]

\* The rate is one of those listed with the frame, or in its range.
HasRate(fr, interval) ==
    IF fr.intervals # <<>> THEN interval \in ToSet(fr.intervals)
    ELSE /\ interval \in fr.min..fr.max
         /\ interval = fr.min \/ (interval - fr.min) % fr.step = 0

\* Descriptors are well formed when interfaces have numbers, the control header names
\* interfaces there are, and the rates of a frame are numbers.
WellFormedDescriptors(raw) ==
    /\ raw \in Seq(ToSet(raw))
    /\ \A p \in DOMAIN raw :
          /\ raw[p].kind \in {"interface", "endpoint", "cs"}
          /\ raw[p].kind = "interface" => raw[p].number \in Nat
          /\ raw[p].kind = "cs" /\ raw[p].sub = "header" =>
                raw[p].interfaces \in Seq({raw[q].number : q \in Interfaces(raw)})
          /\ IsFrame(raw[p]) =>
                /\ raw[p].intervals \in Seq(Nat)
                /\ raw[p].min \in Nat /\ raw[p].max \in Nat

\* When nothing was set, a camera answers with a rate of the frame it answers with.
DefaultIsDescribed(c) ==
    \A d \in DescribedModes[c] :
        d.format = Device[c].default.format /\ d.frame.index = Device[c].default.frame =>
            HasRate(d.frame, Device[c].default.interval)

ASSUME DescriptionAssumption ==
    \A c \in Cameras : WellFormedDescriptors(Device[c].raw) /\ DefaultIsDescribed(c)

\* The mode that is streamed is one the camera itself describes: in the interface that is
\* streamed, an MJPEG format, and before the next format a frame of the size asked for that
\* has the rate; and the packets of the setting selected hold the payload committed.
NegotiatedMode ==
    main \in {"stream", "stop"} =>
        /\ \E d \in DescribedModes[opened] :
              /\ d.ifc = committed.ifc /\ d.format = committed.format
              /\ d.frame.index = committed.frame
              /\ HasRate(d.frame, committed.interval)
        /\ committed.ifc \in claimed
        /\ altsetting > 1 =>
              \E d \in DescribedPackets[opened] :
                  /\ d[1] = committed.ifc
                  /\ d[2] = Config[opened][committed.ifc][altsetting].alt
                  /\ d[3] >= PayloadSize

\* Every control that was set still has the value it was set to, whatever else was set
\* since, and a uvc_get_<control> that reports success returns that value.
ControlsReadBack ==
    /\ \A c \in DOMAIN written : Decoded(c, regs[<<c.unit, c.selector>>]) = written[c]
    /\ reply.ret = 0 => reply.values = written[reply.control]
=============================================================================
