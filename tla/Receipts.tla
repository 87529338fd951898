------------------------------ MODULE Receipts ------------------------------
(***************************************************************************)
(* What a client may expect of the printer: every job that is submitted is  *)
(* printed once, in order, unless it is lost, and the paper of a job is a    *)
(* function of that job alone. ReceiptOf is that function, written without   *)
(* buffers, print modes or printer state. One thing a job does not decide     *)
(* alone: what is shown of an image whose data do not fill the size asked for, *)
(* or cannot be read. The job as submitted carries it ("shown"), and of a      *)
(* whole image it is that image.                                              *)
(***************************************************************************)
EXTENDS Integers, Sequences, SequencesExt

CONSTANT None           \* the client did not give the field

VARIABLES jobs,         \* jobs submitted and not cut off yet
          receipt       \* what the last step cut off, if it did

Given(field, default) == IF field = None THEN default ELSE field

DefaultSpacing == 30    \* ESC.c: "Default line spacing is 30"

LookOf(item) ==
    [ large     |-> {d \in {"height", "width"} :
                        \/ item.size = "L"
                        \/ item.size = "M" /\ d = "height"},
      bold      |-> Given(item.bold, FALSE),
      underline |-> Given(item.underline, FALSE),
      align     |-> Given(item.align, "left"),
      spacing   |-> Given(item.spacing, 75) % 256 ]

\* The items before the k-th that leave something behind in the printer.
Placed(job, k) == {i \in 1..(k - 1) : job[i].kind # "barcode"}

AlignAt(job, k) ==
    IF Placed(job, k) = {} THEN "left"
    ELSE LET item == job[Max(Placed(job, k))]
         IN  Given(item.align, IF item.kind = "text" THEN "left" ELSE "center")

SpacingAt(job, k) ==
    IF Placed(job, k) = {} THEN DefaultSpacing
    ELSE LET item == job[Max(Placed(job, k))]
         IN  IF item.kind = "text" THEN LookOf(item).spacing ELSE DefaultSpacing

\* Numbers are bytes to the printer; no line is printed for zero.
Blanks(n, spacing) ==
    IF n % 256 = 0 THEN <<>>
    ELSE <<[kind |-> "blank", lines |-> n % 256, spacing |-> spacing]>>

\* The bytes the size asked for takes, eight dots to a byte.
BytesOf(item) == (Given(item.width, 248) \div 8) * Given(item.height, 248)

\* The bytes of an image the gateway decodes.
Room == 20000

\* The data fill the size, and the gateway can hold them.
Whole(item) == item.image.size \in BytesOf(item)..Room

ShowsItself(item) ==
    item.kind = "image" /\ Whole(item) => item.shown = {item.image}

ImageOf(item) ==
    [kind |-> "image", align |-> Given(item.align, "center"),
     rowBytes |-> Given(item.width, 248) \div 8, rows |-> Given(item.height, 248),
     data |-> [bytes |-> BytesOf(item), of |-> item.shown]]

BarcodeOf(item, align) ==
    [kind |-> "barcode", align |-> align, type |-> Given(item.type, 4),
     height |-> LET h == Given(item.height, 200) % 256 IN IF h = 0 THEN 1 ELSE h]

LinesOf(job, k) ==
    CASE job[k].kind = "text" ->
           <<[kind |-> "text", text |-> job[k].text, look |-> LookOf(job[k])]>>
      [] job[k].kind = "image" ->
           <<ImageOf(job[k])>> \o Blanks(1, DefaultSpacing)
      [] job[k].kind = "barcode" ->
           Blanks(1, SpacingAt(job, k)) \o <<BarcodeOf(job[k], AlignAt(job, k))>>

\* Only the last text of a job has a say in the feed before the cut.
FeedOf(job) ==
    LET texts == {i \in 1..Len(job) : job[i].kind = "text"}
    IN  IF texts = {} THEN 5 ELSE Given(job[Max(texts)].feed, 5)

ReceiptOf(job) ==
    FlattenSeq([k \in 1..Len(job) |-> LinesOf(job, k)])
      \o Blanks(FeedOf(job), SpacingAt(job, Len(job) + 1))
-----------------------------------------------------------------------------
Init == jobs = <<>> /\ receipt = <<>>

Submit == /\ jobs' # <<>>
          /\ Front(jobs') = jobs
          /\ \A k \in 1..Len(Last(jobs')) : ShowsItself(Last(jobs')[k])
          /\ receipt' = <<>>

CutOff == /\ jobs # <<>>
          /\ receipt' = ReceiptOf(Head(jobs))
          /\ jobs' = Tail(jobs)

\* The transfer gives up the job at the head, or the printer loses power.
Lose == /\ jobs # <<>>
        /\ jobs' \in {Tail(jobs), <<>>}
        /\ receipt' = <<>>

TearOff == receipt' = <<>> /\ UNCHANGED jobs

Spec == Init /\ [][Submit \/ CutOff \/ Lose \/ TearOff]_<<jobs, receipt>>
=============================================================================
