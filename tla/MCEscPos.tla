------------------------------ MODULE MCEscPos ------------------------------
EXTENDS EscPos

Text(text, size, bold, underline, align, spacing, feed) ==
    [kind |-> "text", text |-> text, size |-> size, bold |-> bold,
     underline |-> underline, align |-> align, spacing |-> spacing, feed |-> feed]

Image(of, size) ==
    [kind |-> "image", align |-> None, width |-> 100, height |-> 320,
     image |-> [of |-> of, size |-> size]]

\* Texts that differ in everything a text can set, one with no field but the text;
\* an image of a height beyond one byte; one of the same size whose data end early,
\* and one whose data are not base64; a barcode of height zero, as a byte.
MCItems ==
    { Text("a", "L", TRUE, TRUE, "center", 40, 2),
      Text("b", None, None, None, None, None, None),
      Text("c", "M", FALSE, TRUE, "right", 300, 0),
      Image("logo", 3840), Image("stamp", 100), Image("torn", None),
      [kind |-> "barcode", height |-> 256, type |-> None] }

ASSUME ImagesFit == Fitting
=============================================================================
