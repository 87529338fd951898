--------------------------- MODULE UvcDescriptors ---------------------------
(***************************************************************************)
(* What the host makes of a camera's descriptors: descriptor.c cuts the     *)
(* configuration into interfaces, alternate settings and the class specific *)
(* blocks between them, device.c reads the blocks, and stream.c looks up    *)
(* formats, frames and the alternate setting to stream through.             *)
(*                                                                         *)
(* A descriptor is a record: an interface (number, alt, class, subclass),    *)
(* an endpoint (address, packet, mult), or a class specific block ("cs", a   *)
(* subtype and its fields).  Blocks are well formed: as long as their fields, *)
(* frames after a format, the alternate settings of an interface together,    *)
(* and no interface with two endpoints.                                      *)
(***************************************************************************)
EXTENDS Integers, Sequences, SequencesExt

CONSTANTS
    None,          \* no interface, camera, mode
    PayloadSize    \* the payload size main_loop puts into the control block

ASSUME DescriptorsAssumption == PayloadSize \in Nat \ {0}

-----------------------------------------------------------------------------
(* descriptor.c                                                             *)

\* The first descriptor of one of the kinds after position p.
NextOf(raw, p, kinds) ==
    LET after == {q \in p + 1..Len(raw) : raw[q].kind \in kinds}
    IN  IF after = {} THEN Len(raw) + 1 ELSE CHOOSE q \in after : \A r \in after : q <= r

\* An alternate setting: the blocks up to its endpoint are its own.  The endpoint of the
\* seventh is left empty, and its descriptor is taken for one more block.
Altsetting(raw, p, n) ==
    LET end == NextOf(raw, p, {"interface"})
        ep == NextOf(raw, p, {"interface", "endpoint"})
        skipped == n = 6
    IN  [number |-> raw[p].number, alt |-> raw[p].alt,
         class |-> raw[p].class, subclass |-> raw[p].subclass,
         extra |-> SubSeq(raw, p + 1, (IF skipped THEN end ELSE ep) - 1),
         endpoint |-> IF ep = end THEN <<>>
                      ELSE IF skipped THEN <<[address |-> 0, packet |-> 0, mult |-> 0]>>
                      ELSE <<[address |-> raw[ep].address, packet |-> raw[ep].packet,
                              mult |-> raw[ep].mult]>>]

\* The numbers up to n that are in S, one after the other.
Ordered(S, n) ==
    LET upTo[k \in 0..n] == IF k = 0 THEN <<>>
                            ELSE IF k \in S THEN Append(upTo[k - 1], k) ELSE upTo[k - 1]
    IN  upTo[n]

Interfaces(raw) == {p \in DOMAIN raw : raw[p].kind = "interface"}

\* Where the alternate settings of interface i begin.
Places(raw, i) == Ordered({p \in Interfaces(raw) : raw[p].number = i}, Len(raw))

Configuration(raw) ==
    [i \in {raw[p].number : p \in Interfaces(raw)} |->
        [n \in DOMAIN Places(raw, i) |-> Altsetting(raw, Places(raw, i)[n], n - 1)]]

-----------------------------------------------------------------------------
(* device.c: the blocks of a streaming interface.                           *)

Format(block, guid) ==
    [index |-> block.index, guid |-> guid, frames |-> <<>>, stills |-> <<>>]

\* A frame of an uncompressed or an MJPEG format.
Frame(block) ==
    [index |-> block.index, width |-> block.width, height |-> block.height,
     size |-> block.size, intervals |-> block.intervals,
     min |-> block.min, max |-> block.max, step |-> block.step]

\* A frame of a frame-based format has no buffer size.
FrameOfFrameBased(block) == [Frame(block) EXCEPT !.size = 0]

StillFrame(block) ==
    [patterns |-> [i \in DOMAIN block.patterns |->
                      [index |-> i, width |-> block.patterns[i][1], height |-> block.patterns[i][2]]],
     compression |-> block.compression]

InputHeader(stream, block) ==
    [stream EXCEPT !.endpoint = block.endpoint, !.still = block.still]

\* Frames and still frames belong to the format before them.
WithFrame(stream, frame) ==
    [stream EXCEPT !.formats[Len(stream.formats)].frames = Append(@, frame)]

WithStill(stream, still) ==
    [stream EXCEPT !.formats[Len(stream.formats)].stills = Append(@, still)]

ParseVs(stream, block) ==
    CASE block.sub = "input_header"        -> InputHeader(stream, block)
      [] block.sub = "format_uncompressed" ->
            [stream EXCEPT !.formats = Append(@, Format(block, block.guid))]
      [] block.sub = "format_mjpeg"        ->
            [stream EXCEPT !.formats = Append(@, Format(block, "mjpeg"))]
      [] block.sub = "format_frame_based"  ->
            [stream EXCEPT !.formats = Append(@, Format(block, block.guid))]
      [] block.sub = "frame"               -> WithFrame(stream, Frame(block))
      [] block.sub = "frame_frame_based"   -> WithFrame(stream, FrameOfFrameBased(block))
      [] block.sub = "still_frame"         -> WithStill(stream, StillFrame(block))
      [] OTHER                             -> stream

\* uvc_scan_streaming: the blocks of the first setting, one after the other.
ScanStreaming(config, i) ==
    LET blocks == config[i][1].extra
        blank == [number |-> config[i][1].number, endpoint |-> 0, still |-> 0, formats |-> <<>>]
        read[n \in 0..Len(blocks)] == IF n = 0 THEN blank ELSE ParseVs(read[n - 1], blocks[n])
    IN  read[Len(blocks)]

-----------------------------------------------------------------------------
(* device.c: the blocks of the control interface.                           *)

\* UVC 1.0, 1.0a and 1.1: the interfaces the header names are scanned.
VcHeader(config, info, block) ==
    IF block.version \in {256, 266, 272}
    THEN [info EXCEPT !.version = block.version,
                      !.streams = @ \o [k \in DOMAIN block.interfaces |->
                                            ScanStreaming(config, block.interfaces[k])]]
    ELSE [info EXCEPT !.version = block.version, !.ret = "not_supported"]

\* Terminals that are no camera are passed over.
VcInputTerminal(info, block) ==
    IF block.terminal = "camera" THEN [info EXCEPT !.units = @ \cup {"camera"}] ELSE info

VcUnit(info, unit) == [info EXCEPT !.units = @ \cup {unit}]

ParseVc(config, info, block) ==
    IF info.ret # "ok" \/ block.kind # "cs" THEN info
    ELSE CASE block.sub = "header"          -> VcHeader(config, info, block)
           [] block.sub = "input_terminal"  -> VcInputTerminal(info, block)
           [] block.sub = "output_terminal" -> info
           [] block.sub = "selector_unit"   -> VcUnit(info, "selector")
           [] block.sub = "processing_unit" -> VcUnit(info, "processing")
           [] block.sub = "extension_unit"  -> VcUnit(info, "extension")
           [] OTHER                         -> [info EXCEPT !.ret = "invalid_device"]

\* uvc_scan_control: the first interface of class video, subclass control.  Its units are
\* kept by the kind a control is addressed to.
ScanControl(config) ==
    LET controls == {i \in DOMAIN config : config[i][1].class = 14 /\ config[i][1].subclass = 1}
        blank == [ret |-> "ok", ctrlIf |-> None, status |-> 0, version |-> 0,
                  units |-> {"interface"}, streams |-> <<>>]
    IN  IF controls = {} THEN [blank EXCEPT !.ret = "invalid_device"]
        ELSE LET i == CHOOSE j \in controls : \A k \in controls : j <= k
                 ep == config[i][1].endpoint
                 blocks == config[i][1].extra
                 found == [blank EXCEPT !.ctrlIf = i,
                                        !.status = IF ep = <<>> THEN 0 ELSE ep[1].address]
                 read[n \in 0..Len(blocks)] ==
                     IF n = 0 THEN found ELSE ParseVc(config, read[n - 1], blocks[n])
             IN  read[Len(blocks)]

\* A device is listed when some alternate setting is of class video, subclass streaming.
IsUvcDevice(config) ==
    \E i \in DOMAIN config : \E n \in DOMAIN config[i] :
        config[i][n].class = 14 /\ config[i][n].subclass = 2

-----------------------------------------------------------------------------
(* stream.c: formats, frames, modes.                                        *)

Children(format) ==
    CASE format = "any" -> {"uncompressed", "compressed"}
      [] format = "uncompressed" -> {"yuyv", "uyvy", "gray8", "gray16", "nv12", "p010", "bgr", "rgb"}
      [] format = "compressed" -> {"mjpeg", "h264"}
      [] OTHER -> {}

\* The formats a request stands for: itself and what is below it.
FormatMatches(format, guid) ==
    guid \in {format} \cup Children(format) \cup UNION {Children(f) : f \in Children(format)}

KnownFormats ==
    UNION {Children("uncompressed"), Children("compressed"),
           {"by8", "ba81", "sgrbg8", "sgbrg8", "srggb8", "sbggr8"}}

FrameFormat(guid) == IF guid \in KnownFormats THEN guid ELSE "unknown"

\* A second, in units of 100 ns.
Second == 10000000

\* The interval of the rate, or 0 when the frame has no such rate.
IntervalFor(frame, fps) ==
    LET wanted == Second \div fps
    IN  IF frame.intervals # <<>>
        THEN LET i == SelectInSeq(frame.intervals, LAMBDA t : Second \div t = fps)
             IN  IF i = 0 THEN 0 ELSE frame.intervals[i]
        ELSE IF /\ frame.min <= wanted /\ wanted <= frame.max
                /\ (wanted = frame.min \/ (wanted - frame.min) % frame.step = 0)
             THEN wanted ELSE 0

\* The frames of the size asked for in a format asked for, in the order they are met.
SizeMatches(info, mode) ==
    LET ofFormat(s, f) == [k \in DOMAIN f.frames |-> [stream |-> s, format |-> f, frame |-> f.frames[k]]]
        ofStream(s) == FlattenSeq([k \in DOMAIN s.formats |-> ofFormat(s, s.formats[k])])
        all == FlattenSeq([k \in DOMAIN info.streams |-> ofStream(info.streams[k])])
        picked == Ordered({k \in DOMAIN all : /\ FormatMatches(mode.format, all[k].format.guid)
                                              /\ all[k].frame.width = mode.width
                                              /\ all[k].frame.height = mode.height}, Len(all))
    IN  [n \in DOMAIN picked |-> all[picked[n]]]

\* The first of them that has the rate.
FoundMode(info, mode) ==
    SelectInSeq(SizeMatches(info, mode), LAMBDA m : IntervalFor(m.frame, mode.fps) # 0)

FramesOf(stream, formatId, frameId) ==
    {fr \in UNION {ToSet(f.frames) : f \in {g \in ToSet(stream.formats) : g.index = formatId}} :
        fr.index = frameId}

BytesPerPacket(altsetting, address) ==
    LET eps == {e \in ToSet(altsetting.endpoint) : e.address = address}
    IN  IF eps = {} THEN 0 ELSE LET e == CHOOSE x \in eps : TRUE IN e.packet * (e.mult + 1)

\* The first alternate setting with packets of PayloadSize; 0 when there is none.
AltFor(altsettings, address) ==
    SelectInSeq(altsettings, LAMBDA a : BytesPerPacket(a, address) >= PayloadSize)
=============================================================================
