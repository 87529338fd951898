------------------------------ MODULE Scanner ------------------------------
(***************************************************************************)
(* barcodeScannerTask reads what the UART driver has collected and           *)
(* broadcasts it. The driver's buffer fills while the task broadcasts; a      *)
(* byte that finds it full is lost. Bytes are numbered as they come; none is  *)
(* zero (the data goes out as a C string).                                   *)
(***************************************************************************)
EXTENDS Integers, Sequences

CONSTANTS
    RxSize,      \* the driver's buffer, BUF_SIZE * 2
    ReadSize,    \* the most one read returns, BUF_SIZE - 1
    MaxBytes     \* bound: bytes that arrive between two restarts

VARIABLES arrived,   \* number of bytes that arrived
          rx,        \* the driver's buffer
          data,      \* what the last read returned, until it is broadcast
          sent,      \* history: everything broadcast, in order
          overrun    \* history: the buffer was full when a byte arrived

scannerVars == <<arrived, rx, data, sent, overrun>>

Init == arrived = 0 /\ rx = <<>> /\ data = <<>> /\ sent = <<>> /\ overrun = FALSE

ByteArrives == /\ arrived < MaxBytes
               /\ arrived' = arrived + 1
               /\ \/ /\ Len(rx) < RxSize
                     /\ rx' = Append(rx, arrived')
                     /\ UNCHANGED overrun
                  \/ /\ Len(rx) = RxSize
                     /\ overrun' = TRUE
                     /\ UNCHANGED rx
               /\ UNCHANGED <<data, sent>>

\* uart_read_bytes returns after 10 ticks with what there is, or with a full read.
Taken == IF Len(rx) < ReadSize THEN Len(rx) ELSE ReadSize

\* Mutant of Read: the driver's buffer is flushed after every read.
ReadAndFlush == /\ data = <<>>
                /\ Taken > 0
                /\ data' = SubSeq(rx, 1, Taken)
                /\ rx' = <<>>
                /\ UNCHANGED <<arrived, sent, overrun>>

Read == /\ data = <<>>
        /\ Taken > 0
        /\ data' = SubSeq(rx, 1, Taken)
        /\ rx' = SubSeq(rx, Taken + 1, Len(rx))
        /\ UNCHANGED <<arrived, sent, overrun>>

Broadcast == /\ data # <<>>
             /\ sent' = sent \o data
             /\ data' = <<>>
             /\ UNCHANGED <<arrived, rx, overrun>>

Reset == arrived' = 0 /\ rx' = <<>> /\ data' = <<>> /\ sent' = <<>> /\ overrun' = FALSE

Next == ByteArrives \/ Read \/ Broadcast

Spec == Init /\ [][Next]_scannerVars
-----------------------------------------------------------------------------
\* Every variable stays in its domain.
TypeOK == /\ arrived \in 0..MaxBytes
          /\ rx \in Seq(1..MaxBytes) /\ Len(rx) <= RxSize
          /\ data \in Seq(1..MaxBytes) /\ Len(data) <= ReadSize
          /\ sent \in Seq(1..MaxBytes)
          /\ overrun \in BOOLEAN

OnTheWay == sent \o data \o rx

(* Clients hear what was scanned: the bytes broadcast, read and waiting are     *)
(* those that arrived, each once and in their order, and none is missing        *)
(* unless the driver's buffer overflowed.                                      *)
NothingLostOrSwapped ==
    /\ \A m, n \in 1..Len(OnTheWay) : m < n => OnTheWay[m] < OnTheWay[n]
    /\ ~overrun => Len(OnTheWay) = arrived
=============================================================================
