------------------------------- MODULE EscPos -------------------------------
(***************************************************************************)
(* How the printer's handler (main/printer/ESC.c) turns a PRINT command     *)
(* into ESC/POS commands, and what the printer makes of them.               *)
(*                                                                         *)
(* Font, size and weight are bits of one byte: the gateway keeps its own     *)
(* copy (printMode) and sends the whole byte for every bit it changes; the   *)
(* printer remembers it, as it does underline, alignment, line spacing and   *)
(* barcode height. The copy outlives jobs and is never reset, while the      *)
(* printer forgets everything at each status query, whose question begins    *)
(* with ESC @, and when it loses power. ReceiptsSpec says that nobody can     *)
(* tell from the paper.                                                     *)
(*                                                                         *)
(* A command is [op, arg]. What was sent and not yet executed is "wire": the  *)
(* transfers on their way and the printer's own buffer, one queue because    *)
(* both kinds of OUT transfers use the same endpoint. The handler and the    *)
(* poller exclude each other (printingQueue_sem, see Printer), so a          *)
(* query never comes between the commands of a job. An item of a job with several    *)
(* of the keys text, image and barcode counts as several items.               *)
(*                                                                         *)
(* The base64 text of an image is decoded into a global (buff), whether that   *)
(* worked is not looked at, and as many bytes of the global are printed as     *)
(* the client's width and height ask for. An image is [of, size]: its name    *)
(* and the bytes its text decodes to, None when the text is not base64.        *)
(***************************************************************************)
EXTENDS Integers, Sequences, SequencesExt

CONSTANTS
    Items,        \* the items clients send
    MaxItems,     \* bound: items of a job
    MaxBacklog,   \* bound: commands on the wire when the next job begins
    None          \* the client did not give the field

ASSUME EscPosAssumption ==
    /\ MaxItems \in Nat
    /\ MaxBacklog \in Nat
    /\ \A item \in Items :
          \/ item.kind = "text" /\ item.bold \in BOOLEAN \cup {None}
                                /\ item.align \in {"left", "center", "right", None}
          \/ item.kind = "image" /\ item.align \in {"left", "center", "right", None}
                                 /\ item.image.size \in Nat \cup {None}
          \/ item.kind = "barcode" /\ item.height \in Int \cup {None}

VARIABLES
    stage,       \* where escHandleCommand is
    printMode,   \* the gateway's copy of the mode byte, as a set of bits
    filled,      \* the items converted so far
    feedOf,      \* feed_s: the feed of the last text item
    buff,        \* the global images are decoded into: whose bytes it holds
    buffer,      \* transfer->data_buffer up to transfer_index
    wire,        \* sent and not executed yet
    printer,     \* what the printer remembers
    paper,       \* printed since the last ESC @
    jobs,        \* history: jobs submitted and not cut off yet
    receipt      \* history: what the last step cut off, if it did

gateway == <<stage, printMode, filled, feedOf, buff, buffer>>
device == <<printer, paper>>
escPosVars == <<gateway, wire, device, jobs, receipt>>

R == INSTANCE Receipts

ModeBits == {"font", "bold", "height", "width"}
-----------------------------------------------------------------------------
(* The encoder *)

Code(op, arg) == <<[op |-> op, arg |-> arg]>>

\* setPrintMode and unsetPrintMode, one after the other: each sends the byte.
\* "changes" lists the bits in order, each once, with whether it is set or cleared.
PrintModes(mode, changes) ==
    [n \in 1..Len(changes) |->
        LET made == {changes[i] : i \in 1..n}
        IN  {c.bit : c \in {c \in made : c.on}} \cup (mode \ {c.bit : c \in made})]

On(bit) == [bit |-> bit, on |-> TRUE]
Off(bit) == [bit |-> bit, on |-> FALSE]

SetSize(size) ==
    CASE size = "M" -> <<On("height"), Off("width")>>
      [] size = "L" -> <<On("height"), On("width")>>
      [] OTHER      -> <<Off("width"), Off("height")>>

\* The changes of the mode byte in print_text, always called with font A.
TextChanges(item) ==
    <<Off("font")>> \o SetSize(item.size)
      \o <<IF R!Given(item.bold, FALSE) THEN On("bold") ELSE Off("bold")>>

WriteModes(modes) == [n \in 1..Len(modes) |-> [op |-> "mode", arg |-> modes[n]]]

Feed(n) == IF n % 256 = 0 THEN <<>> ELSE Code("feed", n % 256)

PrintText(item) ==
    WriteModes(PrintModes(printMode, TextChanges(item)))
      \o Code("underline", R!Given(item.underline, FALSE))
      \o Code("align", R!Given(item.align, "left"))
      \o Code("spacing", R!Given(item.spacing, 75) % 256)
      \o Code("line", item.text)

\* The header has 8 bits for the row and 16 for the height.
PrintBitmap(width, h, from) ==
    LET hh == h \div 256
        w == width \div 8
    IN  Code("bitmap", [w |-> w % 256, low |-> (h - hh * 256) % 256,
                           high |-> hh % 256, data |-> [bytes |-> w * h, of |-> from]])

\* Static memory begins as zeros.
Zeros == [of |-> "zeros", size |-> 30000]

\* mbedtls_base64_decode(buff, 20000, ...): it writes all the bytes to the beginning
\* of buff, over what lay there, or none of them: when the text is not base64, or
\* more than it may write.
Decode(image) ==
    IF image.size \in 0..R!Room
    THEN {image} \cup {old \in buff : old.size > image.size}
    ELSE buff

\* Whose bytes the first of them are: those of the images that no shorter one, which
\* is a later one, covers that far. What lies behind buff is left out.
Showing(images, bytes) ==
    {i \in images : \A over \in images : over.size < i.size => over.size < bytes}

\* An image as it was converted, for the history: "shown" is what buff held.
AsShown(item, shown) ==
    [kind |-> "image", align |-> item.align, width |-> item.width, height |-> item.height,
     image |-> item.image, shown |-> shown]

\* The argument is an image as it was converted.
PrintImage(item) ==
    Code("align", R!Given(item.align, "center"))
      \o PrintBitmap(R!Given(item.width, 248), R!Given(item.height, 248), item.shown)
      \o Code("spacing", 30)
      \o Feed(1)

\* The alignment of a barcode is read, given a default, and not used.
PrintBarcode(item) ==
    LET h == R!Given(item.height, 200) % 256
    IN  Code("barHeight", IF h < 1 THEN 1 ELSE h)
          \o Feed(1)
          \o Code("barcode", R!Given(item.type, 4))

FeedAndCut == Feed(R!Given(feedOf, 5)) \o Code("cut", "whole")
-----------------------------------------------------------------------------
(* The printer: what each ESC/POS command changes, and what it prints. *)

Fresh == [mode |-> {}, underline |-> FALSE, align |-> "left",
          spacing |-> R!DefaultSpacing, barHeight |-> 50]

\* ESC ! carries underline in bit 7, which the gateway always sends as zero.
Latch(p, c) ==
    CASE c.op = "reset" -> Fresh
      [] c.op = "mode"  -> [p EXCEPT !.mode = c.arg, !.underline = FALSE]
      [] c.op \in {"underline", "align", "spacing", "barHeight"} -> [p EXCEPT ![c.op] = c.arg]
      [] OTHER -> p

Look(p) == [large |-> p.mode \ {"bold"}, bold |-> "bold" \in p.mode,
            underline |-> p.underline, align |-> p.align, spacing |-> p.spacing]

Output(p, c) ==
    CASE c.op = "line" -> <<[kind |-> "text", text |-> c.arg, look |-> Look(p)]>>
      [] c.op = "feed" -> <<[kind |-> "blank", lines |-> c.arg, spacing |-> p.spacing]>>
      [] c.op = "bitmap" ->
           <<[kind |-> "image", align |-> p.align, rowBytes |-> c.arg.w,
              rows |-> c.arg.low + 256 * c.arg.high, data |-> c.arg.data]>>
      [] c.op = "barcode" ->
           <<[kind |-> "barcode", align |-> p.align, type |-> c.arg, height |-> p.barHeight]>>
      [] OTHER -> <<>>

EscPosInit ==
    /\ stage = "idle" /\ printMode = {} /\ filled = <<>> /\ feedOf = None /\ buffer = <<>>
    /\ buff = {Zeros}
    /\ wire = <<>> /\ printer = Fresh /\ paper = <<>>
    /\ jobs = <<>> /\ receipt = <<>>

\* Mutant of AskStatus: the question goes without ESC @.
AskPlainly == wire' = wire

\* The question of a status query begins with ESC @. When it cannot be sent (no
\* device, or the endpoint refuses it), neither can the job behind it.
\* A second reset right behind a first one adds nothing and is left out.
AskStatus ==
    wire' = IF wire # <<>> /\ Last(wire).op = "reset" THEN wire
            ELSE wire \o Code("reset", TRUE)

NoCut == receipt' = <<>>

Poll == /\ stage = "idle"
        /\ AskStatus
        /\ NoCut
        /\ UNCHANGED <<gateway, device, jobs>>

AskToPrint == /\ stage = "idle"
              /\ Len(wire) <= MaxBacklog
              /\ stage' = "asked"
              /\ AskStatus
              /\ NoCut
              /\ UNCHANGED <<printMode, filled, feedOf, buff, buffer, device, jobs>>

\* The printer does not answer 22: nothing is printed, and the client not told.
NotReady == /\ stage = "asked"
            /\ stage' = "idle"
            /\ NoCut
            /\ UNCHANGED <<printMode, filled, feedOf, buff, buffer, wire, device, jobs>>

Begin == /\ stage = "asked"
         /\ stage' = "filling"
         /\ filled' = <<>> /\ feedOf' = None /\ buffer' = <<>>
         /\ NoCut
         /\ UNCHANGED <<printMode, buff, wire, device, jobs>>

FillItem(item) == /\ stage = "filling"
                  /\ Len(filled) < MaxItems
                  /\ filled' = Append(filled, item)
                  /\ NoCut
                  /\ UNCHANGED <<stage, wire, device, jobs>>

FillText(item) ==
    /\ item.kind = "text"
    /\ FillItem(item)
    /\ buffer' = buffer \o PrintText(item)
    /\ printMode' = Last(PrintModes(printMode, TextChanges(item)))
    /\ feedOf' = item.feed
    /\ UNCHANGED buff

FillImage(item) ==
    /\ item.kind = "image"
    /\ buff' = Decode(item.image)
    /\ LET converted == AsShown(item, Showing(buff', R!BytesOf(item)))
       IN  /\ FillItem(converted)
           /\ buffer' = buffer \o PrintImage(converted)
    /\ UNCHANGED <<printMode, feedOf>>

FillBarcode(item) ==
    /\ item.kind = "barcode"
    /\ FillItem(item)
    /\ buffer' = buffer \o PrintBarcode(item)
    /\ UNCHANGED <<printMode, feedOf, buff>>

Submit ==
    /\ stage = "filling"
    /\ stage' = "submitted"
    /\ buffer' = buffer \o FeedAndCut
    /\ wire' = wire \o buffer'
    /\ jobs' = Append(jobs, filled)
    /\ NoCut
    /\ UNCHANGED <<printMode, filled, feedOf, buff, device>>

\* The handler leaves: nothing reads what is left of the job.
Done == /\ stage' = "idle"
        /\ filled' = <<>> /\ feedOf' = None /\ buffer' = <<>>
        /\ NoCut
        /\ UNCHANGED <<printMode, buff>>

\* No device in xQueue, or it does not take the transfer: the job is gone.
SubmitFails ==
    /\ stage = "filling"
    /\ Done
    /\ UNCHANGED <<wire, device, jobs>>

\* The transfer is complete when the printer has taken the bytes in.
JobReturns ==
    /\ stage = "submitted"
    /\ Done
    /\ UNCHANGED <<wire, device, jobs>>

\* 200 ticks passed: the transfer is freed in flight, and what the printer has not
\* taken in yet may be overwritten with anything. Its cut remembers that.
GiveUp ==
    /\ stage = "submitted"
    /\ Done
    /\ wire # <<>>
    /\ wire' = Front(wire) \o Code("cut", "freed")
    /\ UNCHANGED <<device, jobs>>

Executed(c) ==
    /\ wire # <<>>
    /\ c = Head(wire)
    /\ wire' = Tail(wire)
    /\ UNCHANGED gateway

Execute ==
    \E c \in ToSet(wire) :
      /\ Executed(c)
      /\ c.op # "cut"
      /\ printer' = Latch(printer, c)
      /\ paper' = IF c.op = "reset" THEN <<>> ELSE paper \o Output(printer, c)
      /\ NoCut
      /\ UNCHANGED jobs

Cut ==
    \E c \in ToSet(wire) :
      /\ Executed(c)
      /\ c.op = "cut"
      /\ receipt' = paper /\ paper' = <<>>
      /\ jobs' = Tail(jobs)
      /\ UNCHANGED printer

Garbled == [mode : {{}, ModeBits}, underline : {TRUE}, align : {"left", "right"},
            spacing : {0}, barHeight : {1}]

\* The printer takes in what the memory of a freed transfer holds by now.
Garbage ==
    \E n \in 1..Len(wire) :
      /\ wire[n].op = "cut" /\ wire[n].arg = "freed"
      /\ \A m \in 1..(n - 1) : wire[m].op \notin {"reset", "cut"}
      /\ wire' = SubSeq(wire, n + 1, Len(wire))
      /\ printer' \in Garbled
      /\ paper' = <<>>
      /\ jobs' = Tail(jobs)
      /\ NoCut
      /\ UNCHANGED gateway

PowerCycle ==
    /\ wire' = <<>> /\ jobs' = <<>> /\ paper' = <<>>
    /\ printer' = Fresh
    /\ NoCut
    /\ UNCHANGED gateway

EscPosNext ==
    \/ Poll \/ AskToPrint \/ NotReady \/ Begin
    \/ \E item \in Items : FillText(item) \/ FillImage(item) \/ FillBarcode(item)
    \/ Submit \/ SubmitFails \/ JobReturns \/ GiveUp
    \/ Execute \/ Cut \/ Garbage \/ PowerCycle

EscPosSpec == EscPosInit /\ [][EscPosNext]_escPosVars
-----------------------------------------------------------------------------
Images == {Zeros} \cup {item.image : item \in {item \in Items : item.kind = "image"}}

\* The items as they are converted.
Conversions ==
    {item \in Items : item.kind # "image"}
      \cup {AsShown(item, shown) : item \in {item \in Items : item.kind = "image"},
                                 shown \in SUBSET Images}

EscPosTypeOK ==
    /\ stage \in {"idle", "asked", "filling", "submitted"}
    /\ printMode \in SUBSET ModeBits
    /\ filled \in Seq(Conversions) /\ Len(filled) <= MaxItems
    /\ buff \in SUBSET Images
    /\ jobs \in Seq(Seq(Conversions))
    /\ \A n \in 1..Len(wire) : wire[n].op \in
         {"reset", "mode", "underline", "align", "spacing", "barHeight", "line", "feed",
          "bitmap", "barcode", "cut"}
    /\ printer.mode \in SUBSET ModeBits
    /\ printer.align \in {"left", "center", "right"}
    /\ printer.barHeight \in 1..255

(* Every receipt that is cut off is the one its job asks for, jobs come out    *)
(* in the order they were submitted and none twice, whatever the polls, lost   *)
(* jobs and power cycles before it left in the printer or in printMode, and     *)
(* the images before it in buff: only an image whose data do not fill the size  *)
(* the client gave it, or cannot be decoded, shows what others left there       *)
(* (Receipts says so openly: it asks of whole images only that they show        *)
(* themselves; all else of such a job is still exact).                          *)
ReceiptsSpec == R!Spec
-----------------------------------------------------------------------------
\* The images whose sizes the header has room for (the paper has 384 dots).
Fitting ==
    \A item \in Items : item.kind = "image" =>
        /\ R!Given(item.width, 248) \in Nat /\ R!Given(item.width, 248) < 2048
        /\ R!Given(item.height, 248) \in Nat /\ R!Given(item.height, 248) < 65536
=============================================================================
