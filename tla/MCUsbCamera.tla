---- MODULE MCUsbCamera ----
EXTENDS UsbCamera

Interface(n, a, s) == [kind |-> "interface", number |-> n, alt |-> a, class |-> 14, subclass |-> s]
Endpoint(a, size, m) == [kind |-> "endpoint", address |-> a, packet |-> size, mult |-> m]
Cs(sub, fields) == [kind |-> "cs", sub |-> sub] @@ fields
Header(v, ifs) == Cs("header", [version |-> v, interfaces |-> ifs])
FrameBlock(sub, i, w, h, t) ==
    Cs(sub, [index |-> i, width |-> w, height |-> h, size |-> w * h * 2, intervals |-> t,
             min |-> 250000, max |-> 2000000, step |-> 250000])
FormatBlock(sub, i, g) == Cs(sub, [index |-> i, guid |-> g])
VsHeader == Cs("input_header", [endpoint |-> 130, still |-> 2])
Units == <<Cs("input_terminal", [terminal |-> "camera"]),
           Cs("input_terminal", [terminal |-> "media"]),
           Cs("processing_unit", <<>>), Cs("selector_unit", <<>>), Cs("extension_unit", <<>>),
           Cs("output_terminal", <<>>)>>

\* Two formats, the rate in the second frame of the second, nine settings: the seventh is
\* the first that is large enough, and the host passes over it.
Iso ==
    <<Interface(0, 0, 1), Header(256, <<1>>)>> \o Units \o
    <<Endpoint(129, 16, 0), [kind |-> "cs", sub |-> "interrupt_endpoint"],
      Interface(1, 0, 2), VsHeader,
      FormatBlock("format_uncompressed", 1, "yuyv"),
      FrameBlock("frame", 1, 160, 120, <<333333, 1000000>>),
      Cs("still_frame", [patterns |-> <<<<320, 240>>>>, compression |-> <<>>]),
      FormatBlock("format_mjpeg", 2, "mjpeg"),
      FrameBlock("frame", 1, 320, 240, <<333333, 1000000>>),
      FrameBlock("frame", 2, 160, 120, <<333333>>),
      FrameBlock("frame", 3, 160, 120, <<333333, 1000000>>)>> \o
    FlattenSeq([a \in 1..8 |-> <<Interface(1, a, 2),
                                 Endpoint(130, IF a < 6 THEN 64 * a ELSE 256, IF a < 6 THEN 0 ELSE 2)>>])

\* One setting, a bulk endpoint, a range of rates.
Bulk ==
    <<Interface(0, 0, 1), Header(272, <<1>>)>> \o Units \o
    <<Interface(1, 0, 2), VsHeader,
      FormatBlock("format_mjpeg", 1, "mjpeg"),
      FrameBlock("frame", 1, 160, 120, <<>>),
      Endpoint(130, 64, 0)>>

\* No MJPEG format: the negotiation is tried again for ever.
H264 ==
    <<Interface(0, 0, 1), Header(266, <<1>>),
      Interface(1, 0, 2), VsHeader,
      FormatBlock("format_frame_based", 1, "h264"),
      FrameBlock("frame_frame_based", 1, 160, 120, <<1000000>>),
      Endpoint(130, 64, 0)>>

\* UVC 1.5.
Newer == <<Interface(0, 0, 1), Header(336, <<1>>), Interface(1, 0, 2), VsHeader, Endpoint(130, 64, 0)>>

Answer(f, fr, t, p) == [format |-> f, frame |-> fr, interval |-> t, payload |-> p]
Camera(raw, max, default, p) == [raw |-> raw, max |-> max, default |-> default, payload |-> p]

\* When nothing was set, the camera with settings is in another size of the format, and the
\* bulk camera in the mode asked for at another rate.
MCDevice ==
    [iso |-> Camera(Iso, Answer(2, 1, 333333, 800), Answer(2, 1, 333333, 800), 800),
     bulk |-> Camera(Bulk, Answer(1, 1, 250000, 512), Answer(1, 1, 500000, 512), 512),
     h264 |-> Camera(H264, Answer(1, 1, 1000000, 512), Answer(1, 1, 1000000, 512), 512),
     newer |-> Camera(Newer, Answer(1, 1, 333333, 512), Answer(1, 1, 333333, 512), 512)]

MCCameras == DOMAIN MCDevice
MCMode == [format |-> "mjpeg", width |-> 160, height |-> 120, fps |-> 10]
====
