---------------------------- MODULE UvcControls ----------------------------
(***************************************************************************)
(* The camera controls of libuvc (ctrl-gen.c, ctrl.c): for every control   *)
(* the unit it is addressed to, its selector, the size of its transfer and *)
(* the place and type of each of its parameters in it, and how values are  *)
(* put into a transfer and read out of one.                                *)
(***************************************************************************)
EXTENDS Integers, Sequences

\* A parameter: its first byte in the transfer, its bytes, and whether it has a sign.
U8(at)  == [at |-> at, width |-> 1, signed |-> FALSE]
S8(at)  == [at |-> at, width |-> 1, signed |-> TRUE]
U16(at) == [at |-> at, width |-> 2, signed |-> FALSE]
S16(at) == [at |-> at, width |-> 2, signed |-> TRUE]
U32(at) == [at |-> at, width |-> 4, signed |-> FALSE]
S32(at) == [at |-> at, width |-> 4, signed |-> TRUE]

Control(name, unit, selector, size, fields) ==
    [name |-> name, unit |-> unit, selector |-> selector, size |-> size, fields |-> fields]

-----------------------------------------------------------------------------
(* The camera terminal.                                                    *)

ScanningControls == { Control("scanning_mode", "camera", 1, 1, <<U8(0)>>) }

AutoExposureControls ==
    { Control("ae_mode", "camera", 2, 1, <<U8(0)>>),
      Control("ae_priority", "camera", 3, 1, <<U8(0)>>) }

ExposureControls ==
    { Control("exposure_abs", "camera", 4, 4, <<U32(0)>>),
      Control("exposure_rel", "camera", 5, 1, <<S8(0)>>) }

FocusControls ==
    { Control("focus_abs", "camera", 6, 2, <<U16(0)>>),
      Control("focus_rel", "camera", 7, 2, <<S8(0), U8(1)>>) }

AutoFocusControls ==
    { Control("focus_simple_range", "camera", 18, 1, <<U8(0)>>),
      Control("focus_auto", "camera", 8, 1, <<U8(0)>>) }

IrisControls ==
    { Control("iris_abs", "camera", 9, 2, <<U16(0)>>),
      Control("iris_rel", "camera", 10, 1, <<U8(0)>>) }

ZoomControls ==
    { Control("zoom_abs", "camera", 11, 2, <<U16(0)>>),
      Control("zoom_rel", "camera", 12, 3, <<S8(0), U8(1), U8(2)>>) }

PanTiltControls ==
    { Control("pantilt_abs", "camera", 13, 8, <<S32(0), S32(4)>>),
      Control("pantilt_rel", "camera", 14, 4, <<S8(0), U8(1), S8(2), U8(3)>>) }

RollControls ==
    { Control("roll_abs", "camera", 15, 2, <<S16(0)>>),
      Control("roll_rel", "camera", 16, 2, <<S8(0), U8(1)>>) }

WindowControls ==
    { Control("privacy", "camera", 17, 1, <<U8(0)>>),
      Control("digital_window", "camera", 19, 12,
              <<U16(0), U16(2), U16(4), U16(6), U16(8), U16(10)>>) }

RegionControls ==
    { Control("digital_roi", "camera", 20, 10, <<U16(0), U16(2), U16(4), U16(6), U16(8)>>) }

-----------------------------------------------------------------------------
(* The processing unit, the selector unit and the interface itself.        *)

LightControls ==
    { Control("backlight_compensation", "processing", 1, 2, <<U16(0)>>),
      Control("brightness", "processing", 2, 2, <<S16(0)>>) }

ContrastControls ==
    { Control("contrast", "processing", 3, 2, <<U16(0)>>),
      Control("contrast_auto", "processing", 19, 1, <<U8(0)>>) }

GainControls ==
    { Control("gain", "processing", 4, 2, <<U16(0)>>),
      Control("power_line_frequency", "processing", 5, 1, <<U8(0)>>) }

HueControls ==
    { Control("hue", "processing", 6, 2, <<S16(0)>>),
      Control("hue_auto", "processing", 16, 1, <<U8(0)>>) }

PictureControls ==
    { Control("saturation", "processing", 7, 2, <<U16(0)>>),
      Control("sharpness", "processing", 8, 2, <<U16(0)>>),
      Control("gamma", "processing", 9, 2, <<U16(0)>>) }

WhiteBalanceControls ==
    { Control("white_balance_temperature", "processing", 10, 2, <<U16(0)>>),
      Control("white_balance_temperature_auto", "processing", 11, 1, <<U8(0)>>) }

WhiteComponentControls ==
    { Control("white_balance_component", "processing", 12, 4, <<U16(0), U16(2)>>),
      Control("white_balance_component_auto", "processing", 13, 1, <<U8(0)>>) }

MultiplierControls ==
    { Control("digital_multiplier", "processing", 14, 2, <<U16(0)>>),
      Control("digital_multiplier_limit", "processing", 15, 2, <<U16(0)>>) }

AnalogControls ==
    { Control("analog_video_standard", "processing", 17, 1, <<U8(0)>>),
      Control("analog_video_lock_status", "processing", 18, 1, <<U8(0)>>) }

SelectorControls == { Control("input_select", "selector", 1, 1, <<U8(0)>>) }

PowerControls == { Control("power_mode", "interface", 1, 1, <<U8(0)>>) }

UvcControlSet ==
    UNION { ScanningControls, AutoExposureControls, ExposureControls, FocusControls,
            AutoFocusControls, IrisControls, ZoomControls, PanTiltControls, RollControls,
            WindowControls, RegionControls, LightControls, ContrastControls, GainControls,
            HueControls, PictureControls, WhiteBalanceControls, WhiteComponentControls,
            MultiplierControls, AnalogControls, SelectorControls, PowerControls }

-----------------------------------------------------------------------------
(* Transfers: bytes from 0 on, numbers with the low byte first.            *)

\* What uvc_set_<control> writes into the transfer.
Encoded(c, values) ==
    [b \in 0..c.size - 1 |->
        LET i == CHOOSE j \in DOMAIN c.fields :
                     b \in c.fields[j].at..c.fields[j].at + c.fields[j].width - 1
        IN  (values[i] \div (256 ^ (b - c.fields[i].at))) % 256]

\* Mutant of ValueAt: the high byte first.
ValueAtHighFirst(data, f) ==
    LET v[k \in 1..f.width] ==
            IF k > 1 THEN v[k - 1] * 256 + data[f.at + k - 1]
            ELSE IF f.signed /\ data[f.at] >= 128 THEN data[f.at] - 256 ELSE data[f.at]
    IN  v[f.width]

\* SW_TO_SHORT and DW_TO_INT, and the conversion to the type of the parameter.
ValueAt(data, f) ==
    LET top == data[f.at + f.width - 1]
        v[k \in 1..f.width] ==
            IF k > 1 THEN v[k - 1] * 256 + data[f.at + f.width - k]
            ELSE IF f.signed /\ top >= 128 THEN top - 256 ELSE top
    IN  v[f.width]

Decoded(c, data) == [i \in DOMAIN c.fields |-> ValueAt(data, c.fields[i])]

\* What a caller of uvc_get_<control> has: the values only after a whole transfer; the
\* number of bytes of a shorter one is returned as it is, and reads as neither success
\* nor error.
Reply(c, ret, data, before) ==
    IF ret = c.size THEN [control |-> c, ret |-> 0, values |-> Decoded(c, data)]
                    ELSE [control |-> c, ret |-> ret, values |-> before]
=============================================================================
