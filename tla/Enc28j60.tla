------------------------------ MODULE Enc28j60 ------------------------------
(***************************************************************************)
(* The driver of the ENC28J60 Ethernet chip. Three tasks use the chip over    *)
(* one SPI bus: emac_enc28j60_task serves its interrupts and receives, lwIP's  *)
(* task transmits, and the timer that watches the link starts and stops it.   *)
(* Every access may fail without reaching the chip (a timeout of spi_lock or   *)
(* reg_trans_lock, or of the SPI driver); MaxFaults bounds how often. What an   *)
(* access does is atomic: spi_lock and reg_trans_lock see to that.            *)
(***************************************************************************)
EXTENDS Integers, Sequences

CONSTANTS
    RxSize,     \* bytes of the receive ring, ENC28J60_BUF_RX_END + 1
    Page,       \* what the low byte of an address tells apart: 256
    Rsv,        \* ENC28J60_RSV_SIZE: what the chip puts before a packet
    Sizes,      \* what packets take up in the ring, with this header and padding
    MaxFaults   \* accesses that fail

ASSUME EncAssumption ==
    /\ RxSize \in Nat \ {0} /\ RxSize % 2 = 0 /\ Page \in Nat \ {0}
    /\ Rsv \in Nat /\ Rsv < RxSize /\ MaxFaults \in Nat
    /\ Sizes \subseteq {s \in Nat : s % 2 = 0 /\ Rsv < s /\ s < RxSize}

Start == 0
End == RxSize - 1

VARIABLES
    \* the chip
    packets,    \* received and not counted off by PKTDEC; EPKTCNT is their number
    wr,         \* ERXWRPT: where the chip puts the next packet
    rd,         \* ERXRDPT: up to where the chip may write
    rdpt,       \* ERDPTL and ERDPTH: where the next read of the buffer memory begins
    eir, eie,   \* interrupt flags (PKTIF follows EPKTCNT) and interrupt enables
    rxen,       \* ECON1.RXEN
    txrts,      \* ECON1.TXRTS: the chip transmits
    bank,       \* ECON1.BSEL: the bank of registers that is selected
    cable,      \* PHSTAT2.LSTAT
    \* the driver
    lastBank,   \* last_bank
    ptr,        \* next_packet_ptr
    remain,     \* packets_remain
    txReady,    \* tx_ready_sem
    up,         \* link_status of the PHY
    \* the tasks
    rx, tx, link,   \* where they are
    status,         \* the interrupts the receive task serves
    intact,         \* what it read into its buffer is the packet at ptr
    faults,         \* accesses that failed
    mishaps         \* history: what went wrong and is not put right by the driver

chip == <<packets, wr, rd, rdpt, eir, eie, rxen, txrts>>
banks == <<bank, lastBank>>
receiver == <<ptr, remain, rx, status, intact>>
sender == <<tx>>
linker == <<link, up>>
blame == <<faults, mishaps>>
vars == <<chip, banks, cable, txReady, receiver, sender, linker, blame>>

Flags == {"PKT", "TX", "TXER"}
Enables == Flags \cup {"INT"}
Mishaps == {"dec", "bank", "pointer", "intie", "stop", "expired", "unheard", "late"}
-----------------------------------------------------------------------------
(* Addresses in the ring.                                                   *)

\* enc28j60_next_ptr_align_odd: unsigned, 0 - 1 is beyond the end.
AlignOdd(next) == IF next - 1 < Start \/ next - 1 > End THEN End ELSE next - 1

\* Mutant of PacketStart: the ring is taken to be a byte shorter.
PacketStartShort(at, off) == IF at + off > End THEN (at + off) - (End - Start) ELSE at + off

\* enc28j60_rx_packet_start
PacketStart(at, off) == IF at + off > End THEN (at + off) - (End - Start + 1) ELSE at + off

\* How the chip counts: around the ring.
Advance(at, n) == (at + n) % RxSize
Distance(from, to) == (to - from) % RxSize

\* An address in the two halves of ERDPT.
Pointer(a) == [low |-> a % Page, high |-> a \div Page]

\* The chip never writes the byte at ERXRDPT.
Room == IF wr < rd THEN rd - wr - 1 ELSE RxSize - 1 - (wr - rd)

Init == /\ packets = <<>> /\ wr = Start /\ rd = AlignOdd(Start) /\ rdpt = Pointer(Start)
        /\ eir = {} /\ eie = {} /\ rxen = FALSE /\ txrts = FALSE
        /\ bank = 2 /\ lastBank = 2 /\ cable \in BOOLEAN
        /\ ptr = Start /\ remain = FALSE /\ txReady = TRUE /\ up = FALSE
        /\ rx = "wait" /\ tx = "idle" /\ link = "idle"
        /\ status = {} /\ intact = FALSE /\ faults = 0 /\ mishaps = {}
-----------------------------------------------------------------------------
(* Access to the chip. Some registers are in every bank (EIR, EIE, ECON1,      *)
(* ECON2); for the others the bank is switched, unless it is last_bank.       *)

Works == UNCHANGED blame
Fails == faults < MaxFaults /\ faults' = faults + 1 /\ UNCHANGED mishaps
FailsFor(m) == faults < MaxFaults /\ faults' = faults + 1 /\ mishaps' = mishaps \cup {m}

\* The access reaches register and bank it is meant for.
Reaches(b) == lastBank = b => bank = b

RegisterWorks(b) == /\ bank' = (IF lastBank = b THEN bank ELSE b)
                    /\ lastBank' = b
                    /\ Works

\* Nothing reached the chip; or the two bits of the old bank were cleared and those
\* of the new one not set; or the bank was switched and the access failed.
RegisterFails(b) == \/ UNCHANGED banks /\ Fails
                    \/ /\ lastBank # b
                       /\ bank' = 0 /\ UNCHANGED lastBank
                       /\ IF lastBank = 0 THEN Fails ELSE FailsFor("bank")
                    \/ bank' = (IF lastBank = b THEN bank ELSE b) /\ lastBank' = b /\ Fails
-----------------------------------------------------------------------------
(* The chip, the cable.                                                     *)

\* A frame arrives; without room for it, it is not received.
Arrive == /\ rxen /\ cable
          /\ \E s \in Sizes :
                /\ s <= Room
                /\ packets' = Append(packets, [at |-> wr, next |-> Advance(wr, s)])
                /\ wr' = Advance(wr, s)
          /\ UNCHANGED <<rd, rdpt, eir, eie, rxen, txrts, banks, cable, txReady, receiver,
                         sender, linker, blame>>

TransmitEnds == /\ txrts
                /\ txrts' = FALSE
                /\ \E error \in {{}, {"TXER"}} : eir' = eir \cup {"TX"} \cup error
                /\ UNCHANGED <<packets, wr, rd, rdpt, eie, rxen, banks, cable, txReady, receiver,
                               sender, linker, blame>>

CableChanges == /\ cable' = ~cable
                /\ UNCHANGED <<chip, banks, txReady, receiver, sender, linker, blame>>

\* Level of the INT pin.
Interrupt == "INT" \in eie /\ (eir \cap eie # {} \/ ("PKT" \in eie /\ packets # <<>>))
-----------------------------------------------------------------------------
(* emac_enc28j60_task                                                       *)

RxAt(place) == rx = place
RxGoes(place) == rx' = place /\ UNCHANGED <<sender, linker, cable>>

\* A notification may be of an edge that is long past; without one the task looks
\* at the level of the pin every second.
Wake == /\ RxAt("wait")
        /\ \/ eie' = eie \ {"INT"} /\ RxGoes("flags") /\ Works
           \/ UNCHANGED eie /\ RxGoes("wait") /\ Fails
        /\ UNCHANGED <<packets, wr, rd, rdpt, eir, rxen, txrts, banks, txReady, ptr, remain, status, intact>>

\* Errata #6: PKTIF may be missing although packets wait.
ReadFlags == /\ RxAt("flags")
             /\ \/ /\ status' \in {eir} \cup (IF packets # <<>> THEN {eir \cup {"PKT"}} ELSE {})
                   /\ RxGoes("mask") /\ Works
                \/ UNCHANGED status /\ RxGoes("end") /\ Fails
             /\ UNCHANGED <<chip, banks, txReady, ptr, remain, intact>>

ReadMask == /\ RxAt("mask")
            /\ \/ /\ status' = status \cap eie
                  /\ RxGoes(CASE status' = {} -> "unknown"
                              [] "PKT" \in status' -> "alloc"
                              [] OTHER -> "error")
                  /\ Works
               \/ UNCHANGED status /\ RxGoes("end") /\ Fails
            /\ UNCHANGED <<chip, banks, txReady, ptr, remain, intact>>

\* Mutant of ReadCount: the workaround for errata #6 is missing.
ReadCountNot == /\ RxAt("unknown")
                /\ RxGoes("end")
                /\ UNCHANGED <<chip, banks, blame, txReady, ptr, remain, status, intact>>

\* EPKTCNT is in bank 1; another bank has something else at its address.
CountIs(positive) == IF Reaches(1) THEN positive = (packets # <<>>) ELSE positive \in BOOLEAN

ReadCount == /\ RxAt("unknown")
             /\ \/ /\ \E positive \in BOOLEAN :
                         /\ CountIs(positive)
                         /\ RxGoes(IF positive THEN "alloc" ELSE "end")
                   /\ RegisterWorks(1)
                \/ RxGoes("end") /\ RegisterFails(1)
             /\ UNCHANGED <<chip, txReady, ptr, remain, status, intact>>

Alloc == /\ RxAt("alloc")
         /\ RxGoes("header")
         /\ UNCHANGED <<chip, banks, blame, txReady, ptr, remain, status, intact>>

\* Without memory the loop is left, or, while packets remain, goes on at once.
AllocFails == /\ RxAt("alloc")
              /\ ~remain
              /\ RxGoes("error")
              /\ UNCHANGED <<chip, banks, blame, txReady, ptr, remain, status, intact>>

\* emac_enc28j60_receive. What fails here ends the loop: packets_remain is false.
\* enc28j60_read_packet writes ERDPT in two accesses, then reads: others may come
\* between.
SeekHeader == /\ RxAt("header")
              /\ remain' = FALSE
              /\ \/ /\ rdpt' = [rdpt EXCEPT !.low = Pointer(ptr).low]
                    /\ RxGoes("headerHigh") /\ RegisterWorks(0)
                 \/ UNCHANGED rdpt /\ RxGoes("error") /\ RegisterFails(0)
              /\ UNCHANGED <<packets, wr, rd, eir, eie, rxen, txrts, txReady, ptr, status, intact>>

SeekHeaderHigh == /\ RxAt("headerHigh")
                  /\ \/ /\ rdpt' = [rdpt EXCEPT !.high = Pointer(ptr).high]
                        /\ RxGoes("readHeader") /\ RegisterWorks(0)
                     \/ UNCHANGED rdpt /\ RxGoes("error") /\ RegisterFails(0)
                  /\ UNCHANGED <<packets, wr, rd, eir, eie, rxen, txrts, txReady, ptr, remain,
                                 status, intact>>

\* The packet the driver is about to read is there.
Present == \E i \in DOMAIN packets : packets[i].at = ptr
Due == CHOOSE p \in {packets[i] : i \in DOMAIN packets} : p.at = ptr

\* A header that is none has any length, which nothing checks against the buffer.
ReadHeader == /\ RxAt("readHeader")
              /\ \/ RxGoes(IF rdpt = Pointer(ptr) /\ Present THEN "content" ELSE "lost") /\ Works
                 \/ RxGoes("error") /\ Fails
              /\ UNCHANGED <<chip, banks, txReady, ptr, remain, status, intact>>

\* Where enc28j60_read_packet is told that the content begins.
Content == Pointer(PacketStart(ptr, Rsv))

SeekContent == /\ RxAt("content")
               /\ \/ /\ rdpt' = [rdpt EXCEPT !.low = Content.low]
                     /\ RxGoes("contentHigh") /\ RegisterWorks(0)
                  \/ UNCHANGED rdpt /\ RxGoes("error") /\ RegisterFails(0)
               /\ UNCHANGED <<packets, wr, rd, eir, eie, rxen, txrts, txReady, ptr, remain, status, intact>>

SeekContentHigh == /\ RxAt("contentHigh")
                   /\ \/ /\ rdpt' = [rdpt EXCEPT !.high = Content.high]
                         /\ RxGoes("readContent") /\ RegisterWorks(0)
                      \/ UNCHANGED rdpt /\ RxGoes("error") /\ RegisterFails(0)
                   /\ UNCHANGED <<packets, wr, rd, eir, eie, rxen, txrts, txReady, ptr, remain,
                                  status, intact>>

ReadContent == /\ RxAt("readContent")
               /\ \/ intact' = (rdpt = Pointer(Advance(ptr, Rsv))) /\ RxGoes("free") /\ Works
                  \/ UNCHANGED intact /\ RxGoes("error") /\ Fails
               /\ UNCHANGED <<chip, banks, txReady, ptr, remain, status>>

\* Mutant of FreeSpace: next_packet_ptr is advanced before ERXRDPT is written.
FreeSpaceAfter == /\ RxAt("free")
                  /\ ptr' = Due.next
                  /\ \/ rd' = AlignOdd(Due.next) /\ RxGoes("count") /\ RegisterWorks(0)
                     \/ UNCHANGED rd /\ RxGoes("error") /\ RegisterFails(0)
                  /\ UNCHANGED <<packets, wr, rdpt, eir, eie, rxen, txrts, txReady, remain, status, intact>>

\* The write of ERXRDPTL has no effect before that of ERXRDPTH, and nobody else
\* writes them: one step.
FreeSpace == /\ RxAt("free")
             /\ \/ /\ rd' = AlignOdd(Due.next)
                   /\ ptr' = Due.next
                   /\ RxGoes("count") /\ RegisterWorks(0)
                \/ UNCHANGED <<rd, ptr>> /\ RxGoes("error") /\ RegisterFails(0)
             /\ UNCHANGED <<packets, wr, rdpt, eir, eie, rxen, txrts, txReady, remain, status, intact>>

\* PKTDEC. The packet stays counted if this fails, although it was read.
CountOff == /\ RxAt("count")
            /\ \/ packets' = Tail(packets) /\ RxGoes("deliver") /\ Works
               \/ UNCHANGED packets /\ RxGoes("error") /\ FailsFor("dec")
            /\ UNCHANGED <<wr, rd, rdpt, eir, eie, rxen, txrts, banks, txReady, ptr, remain, status, intact>>

\* The packet goes to the stack, or, if EPKTCNT cannot be read, nowhere.
Deliver == /\ RxAt("deliver")
           /\ intact' = FALSE
           /\ \/ /\ \E positive \in BOOLEAN :
                       /\ CountIs(positive)
                       /\ remain' = positive
                       /\ RxGoes(IF positive THEN "alloc" ELSE "error")
                 /\ RegisterWorks(1)
              \/ UNCHANGED remain /\ RxGoes("error") /\ RegisterFails(1)
           /\ UNCHANGED <<chip, txReady, ptr, status>>

\* Errata #12/#13: the transmitter is reset; what it does at the moment may be lost.
HandleError == /\ RxAt("error")
               /\ \/ /\ "TXER" \notin status
                     /\ RxGoes("ready") /\ Works /\ UNCHANGED <<eir, txrts>>
                  \/ /\ "TXER" \in status
                     /\ eir' = eir \ {"TXER"}
                     /\ txrts' \in {txrts, FALSE}
                     /\ RxGoes("collision") /\ Works
                  \/ /\ "TXER" \in status
                     /\ txrts' \in {txrts, FALSE} /\ UNCHANGED eir
                     /\ RxGoes("end") /\ Fails
               /\ UNCHANGED <<packets, wr, rd, rdpt, eie, rxen, banks, txReady, ptr, remain, status, intact>>

\* Revisions B5 and B7 transmit again when the status vector shows a late
\* collision; the others, and after other errors, do not. (The vector is read through
\* ERDPT, which receiving sets anew.)
LookAtCollision == /\ RxAt("collision")
                   /\ \/ eir' = eir \ {"TX"} /\ RxGoes("again") /\ RegisterWorks(0)
                      \/ UNCHANGED <<eir, banks>> /\ RxGoes("ready") /\ Works
                      \/ UNCHANGED eir /\ RxGoes("ready") /\ RegisterWorks(0)
                      \/ UNCHANGED eir /\ RxGoes("end") /\ RegisterFails(0)
                   /\ UNCHANGED <<packets, wr, rd, rdpt, eie, rxen, txrts, txReady, ptr, remain, status, intact>>

\* Mutant of EnableAgain: the interrupt pin is not enabled again.
EnableAgainNot == /\ RxAt("again")
                  /\ RxGoes("resend")
                  /\ UNCHANGED <<chip, banks, blame, txReady, ptr, remain, status, intact>>

EnableAgain == /\ RxAt("again")
               /\ \/ eie' = eie \cup {"INT"} /\ RxGoes("resend") /\ Works
                  \/ UNCHANGED eie /\ RxGoes("end") /\ Fails
               /\ UNCHANGED <<packets, wr, rd, rdpt, eir, rxen, txrts, banks, txReady, ptr, remain, status, intact>>

Resend == /\ RxAt("resend")
          /\ \/ /\ txrts' = TRUE
                /\ RxGoes("wait")
                /\ UNCHANGED faults
                /\ mishaps' = mishaps \cup (IF {"expired", "unheard"} \cap mishaps # {} THEN {"late"} ELSE {})
             \/ UNCHANGED txrts /\ RxGoes("end") /\ Fails
          /\ UNCHANGED <<packets, wr, rd, rdpt, eir, eie, rxen, banks, txReady, ptr, remain, status, intact>>

ClearReady == /\ RxAt("ready")
              /\ \/ "TX" \notin status /\ RxGoes("end") /\ Works /\ UNCHANGED eir
                 \/ "TX" \in status /\ eir' = eir \ {"TX"} /\ RxGoes("give") /\ Works
                 \/ "TX" \in status /\ UNCHANGED eir /\ RxGoes("end") /\ Fails
              /\ UNCHANGED <<packets, wr, rd, rdpt, eie, rxen, txrts, banks, txReady, ptr, remain, status, intact>>

GiveReady == /\ RxAt("give")
             /\ \/ eie' = eie \ {"TX"} /\ txReady' = TRUE /\ Works
                \/ UNCHANGED <<eie, txReady>> /\ Fails
             /\ RxGoes("end")
             /\ UNCHANGED <<packets, wr, rd, rdpt, eir, rxen, txrts, banks, ptr, remain, status, intact>>

\* loop_end. A failure leaves the pin without effect until the link is started again.
Restore == /\ RxAt("end")
           /\ \/ eie' = eie \cup {"INT"} /\ Works
              \/ UNCHANGED eie /\ FailsFor("intie")
           /\ RxGoes("wait")
           /\ status' = {}
           /\ UNCHANGED <<packets, wr, rd, rdpt, eir, rxen, txrts, banks, txReady, ptr, remain, intact>>

Receiver == \/ Wake \/ ReadFlags \/ ReadMask \/ ReadCount \/ Alloc \/ AllocFails
            \/ SeekHeader \/ SeekHeaderHigh \/ ReadHeader
            \/ SeekContent \/ SeekContentHigh \/ ReadContent \/ FreeSpace
            \/ CountOff \/ Deliver \/ HandleError \/ LookAtCollision \/ EnableAgain
            \/ Resend \/ ClearReady \/ GiveReady \/ Restore
-----------------------------------------------------------------------------
(* emac_enc28j60_transmit, in lwIP's task                                   *)

TxAt(place) == tx = place
TxGoes(place) == tx' = place /\ UNCHANGED <<cable, receiver, linker>>

\* After ENC28J60_TX_READY_TIMEOUT_MS the sender goes on without the semaphore.
TakeReady == /\ TxAt("idle")
             /\ txReady' = FALSE
             /\ mishaps' = mishaps \cup (IF txReady THEN {} ELSE {"expired"})
             /\ TxGoes("check")
             /\ UNCHANGED <<chip, banks, faults>>

\* Mutant of CheckIdle: TXRTS is not looked at.
CheckIdleNot == /\ TxAt("check")
                /\ TxGoes("write")
                /\ UNCHANGED <<chip, banks, blame, txReady>>

CheckIdle == /\ TxAt("check")
             /\ \/ TxGoes(IF txrts THEN "idle" ELSE "write") /\ Works
                \/ TxGoes("idle") /\ Fails
             /\ UNCHANGED <<chip, banks, txReady>>

WriteFrame == /\ TxAt("write")
              /\ \/ TxGoes("arm") /\ RegisterWorks(0)
                 \/ TxGoes("idle") /\ RegisterFails(0)
              /\ UNCHANGED <<chip, txReady>>

ClearFlag == /\ TxAt("arm")
             /\ \/ eir' = eir \ {"TX"} /\ TxGoes("enable") /\ Works
                \/ UNCHANGED eir /\ TxGoes("idle") /\ Fails
             /\ UNCHANGED <<packets, wr, rd, rdpt, eie, rxen, txrts, banks, txReady>>

EnableTx == /\ TxAt("enable")
            /\ \/ eie' = eie \cup {"TX"} /\ TxGoes("send") /\ Works
               \/ UNCHANGED eie /\ TxGoes("idle") /\ Fails
            /\ UNCHANGED <<packets, wr, rd, rdpt, eir, rxen, txrts, banks, txReady>>

\* While the link is down errors are not announced.
Send == /\ TxAt("send")
        /\ \/ /\ txrts' = TRUE
              /\ UNCHANGED faults
              /\ mishaps' = mishaps \cup (IF "TXER" \in eie THEN {} ELSE {"unheard"})
           \/ UNCHANGED txrts /\ Fails
        /\ TxGoes("idle")
        /\ UNCHANGED <<packets, wr, rd, rdpt, eir, eie, rxen, banks, txReady>>

Sender == TakeReady \/ CheckIdle \/ WriteFrame \/ ClearFlag \/ EnableTx \/ Send
-----------------------------------------------------------------------------
(* The timer's task: enc28j60_get_link, and emac_enc28j60_start and stop.      *)

LinkAt(place) == link = place
LinkGoes(place) == link' = place /\ UNCHANGED <<cable, txReady, receiver, sender>>

\* The MII registers are in banks 3 and 2, and end in bank 2.
Poll == /\ LinkAt("idle")
        /\ \/ /\ LinkGoes(IF up = cable THEN "idle" ELSE IF cable THEN "duplex" ELSE "disable")
              /\ bank' = 2 /\ lastBank' = 2 /\ Works
           \/ /\ LinkGoes("idle")
              /\ \E b \in {2, 3} : RegisterFails(b)
        /\ UNCHANGED <<chip, up>>

\* Speed and duplex, when the link comes up.
SetDuplex == /\ LinkAt("duplex")
             /\ \/ LinkGoes("clear") /\ RegisterWorks(2)
                \/ LinkGoes("idle") /\ RegisterFails(2)
             /\ UNCHANGED <<chip, up>>

ClearFlags == /\ LinkAt("clear")
              /\ \/ eir' = {} /\ LinkGoes("enable") /\ Works
                 \/ UNCHANGED eir /\ LinkGoes("idle") /\ Fails
              /\ UNCHANGED <<packets, wr, rd, rdpt, eie, rxen, txrts, banks, up>>

EnableInterrupts == /\ LinkAt("enable")
                    /\ \/ eie' = eie \cup {"PKT", "INT", "TXER"} /\ LinkGoes("listen") /\ Works
                       \/ UNCHANGED eie /\ LinkGoes("idle") /\ Fails
                    /\ UNCHANGED <<packets, wr, rd, rdpt, eir, rxen, txrts, banks, up>>

Listen == /\ LinkAt("listen")
          /\ \/ rxen' = TRUE /\ LinkGoes("rewind") /\ Works
             \/ UNCHANGED rxen /\ LinkGoes("idle") /\ Fails
          /\ UNCHANGED <<packets, wr, rd, rdpt, eir, eie, txrts, banks, up>>

\* ERDPT is set to 0 in two accesses, also while the receive task is about to read
\* somewhere else: an access that changes a half it has set is a mishap.
Disturbs(places, changed) == mishaps \cup (IF rx \in places /\ changed THEN {"pointer"} ELSE {})

Rewind == /\ LinkAt("rewind")
          /\ \/ /\ rdpt' = [rdpt EXCEPT !.low = Pointer(Start).low]
                /\ LinkGoes("rewindHigh")
                /\ bank' = (IF lastBank = 0 THEN bank ELSE 0) /\ lastBank' = 0
                /\ UNCHANGED faults
                /\ mishaps' = Disturbs({"headerHigh", "readHeader", "contentHigh", "readContent"},
                                       rdpt'.low # rdpt.low)
             \/ UNCHANGED rdpt /\ LinkGoes("idle") /\ RegisterFails(0)
          /\ UNCHANGED <<packets, wr, rd, eir, eie, rxen, txrts, up>>

RewindHigh == /\ LinkAt("rewindHigh")
              /\ LinkGoes("idle")
              /\ \/ /\ rdpt' = [rdpt EXCEPT !.high = Pointer(Start).high]
                    /\ up' = TRUE
                    /\ bank' = (IF lastBank = 0 THEN bank ELSE 0) /\ lastBank' = 0
                    /\ UNCHANGED faults
                    /\ mishaps' = Disturbs({"readHeader", "readContent"}, rdpt'.high # rdpt.high)
                 \/ UNCHANGED <<rdpt, up>> /\ RegisterFails(0)
              /\ UNCHANGED <<packets, wr, rd, eir, eie, rxen, txrts>>

DisableInterrupts == /\ LinkAt("disable")
                     /\ \/ eie' = {} /\ LinkGoes("deafen") /\ Works
                        \/ UNCHANGED eie /\ LinkGoes("idle") /\ Fails
                     /\ UNCHANGED <<packets, wr, rd, rdpt, eir, rxen, txrts, banks, up>>

\* If this fails and the link is back at the next look, it counts as never down.
Deafen == /\ LinkAt("deafen")
          /\ LinkGoes("idle")
          /\ \/ rxen' = FALSE /\ up' = FALSE /\ Works
             \/ UNCHANGED <<rxen, up>> /\ FailsFor("stop")
          /\ UNCHANGED <<packets, wr, rd, rdpt, eir, eie, txrts, banks>>

Linker == \/ Poll \/ SetDuplex \/ ClearFlags \/ EnableInterrupts \/ Listen
          \/ Rewind \/ RewindHigh \/ DisableInterrupts \/ Deafen

Next == Arrive \/ TransmitEnds \/ CableChanges \/ Receiver \/ Sender \/ Linker

\* The tasks go on; there is memory for a packet again and again, and transmissions
\* do not hide PKTIF for ever (errata #6).
Fairness == /\ WF_vars(Wake /\ Interrupt) /\ WF_vars(~RxAt("wait") /\ Receiver)
            /\ WF_vars(Linker /\ link' # link) /\ WF_vars(Sender /\ ~TxAt("idle"))
            /\ SF_vars(Alloc)
            /\ SF_vars(ReadFlags /\ (status' = {} \/ "PKT" \in status'))

Spec == Init /\ [][Next]_vars /\ Fairness
-----------------------------------------------------------------------------
RxPlaces == {"wait", "flags", "mask", "unknown", "alloc", "header", "headerHigh",
             "readHeader", "content", "contentHigh", "readContent", "free", "count", "deliver", "error", "collision", "again",
             "resend", "ready", "give", "end", "lost"}
TxPlaces == {"idle", "check", "write", "arm", "enable", "send"}
LinkPlaces == {"idle", "duplex", "clear", "enable", "listen", "rewind", "rewindHigh",
               "disable", "deafen"}
Addresses == Start..End

\* Every variable stays in its domain; ERXRDPT is odd, as the chip demands, and
\* ERXWRPT is even.
TypeOK == /\ packets \in Seq([at : Addresses, next : Addresses])
          /\ wr \in Addresses /\ wr % 2 = 0 /\ rd \in Addresses /\ rd % 2 = 1
          /\ rdpt \in [low : 0..Page - 1, high : 0..(End \div Page)] /\ ptr \in Addresses
          /\ eir \subseteq {"TX", "TXER"} /\ eie \subseteq Enables /\ status \subseteq Flags
          /\ bank \in 0..3 /\ lastBank \in 0..3
          /\ rx \in RxPlaces /\ tx \in TxPlaces /\ link \in LinkPlaces
          /\ {rxen, txrts, cable, remain, txReady, up, intact} \subseteq BOOLEAN
          /\ faults \in 0..MaxFaults /\ mishaps \subseteq Mishaps

Astray == mishaps \cap {"dec", "bank", "pointer"} # {}
Unread == IF rx = "count" THEN Tail(packets) ELSE packets

(* next_packet_ptr is the address of the oldest packet that was not read, or of  *)
(* the next one to arrive, whichever accesses fail: only a PKTDEC that fails, a   *)
(* bank switched half, or an emac_enc28j60_start whose accesses fall between the   *)
(* setting of a half of ERDPT and the reading puts the driver out of step, from     *)
(* which it does not recover.                                                  *)
InStep == Astray \/ (rx # "lost" /\ ptr = (IF Unread = <<>> THEN wr ELSE Head(Unread).at))

(* What the stack gets is a packet, also if it wraps around the end of the ring. *)
FramesIntact == rx \in {"free", "count", "deliver"} => intact \/ Astray

(* last_bank is the bank that is selected unless a switch of banks failed half;   *)
(* and then bank 0 is selected, so that the registers of bank 0 (all pointers)    *)
(* are never missed.                                                          *)
BankKnown == bank = lastBank \/ (bank = 0 /\ "bank" \in mishaps)

(* While the link is reported, frames are received and announced, however the     *)
(* receive task's masking of interrupts meets stopping and starting. Exceptions   *)
(* are a failure to unmask, and a stop that failed half.                        *)
ListeningWhileUp ==
    (up /\ link = "idle" /\ mishaps \cap {"intie", "stop"} = {})
        => rxen /\ "PKT" \in eie /\ (rx = "wait" => "INT" \in eie)

(* The frame in the transmit buffer is not changed while it is sent, although     *)
(* the sender gives up waiting for its end, and the receive task sends it again   *)
(* after a late collision; both at once are the exception.                      *)
FrameNotTouched == (tx \in {"write", "arm", "enable", "send"} /\ txrts) => "late" \in mishaps

(* A packet that waits is read while the link lasts, also if PKTIF is unreliable  *)
(* and memory short for a time.                                               *)
WaitingPacketRead == (up /\ packets # <<>>) ~> (rx = "deliver" \/ ~up \/ mishaps # {})
=============================================================================
