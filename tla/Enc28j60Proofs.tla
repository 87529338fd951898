--------------------------- MODULE Enc28j60Proofs ---------------------------
(***************************************************************************)
(* What holds of the ENC28J60 driver however its three tasks interleave and    *)
(* whichever accesses to the chip fail, for every ring, every set of sizes and  *)
(* every number of failures.                                                 *)
(***************************************************************************)
EXTENDS Enc28j60, TLAPS, SequenceTheorems

USE EncAssumption

-----------------------------------------------------------------------------
(* Banks.                                                                    *)

\* An access through the driver's idea of the bank leaves it right, or bank 0 selected.
LEMMA RegisterStep ==
    ASSUME BankKnown, NEW b, RegisterWorks(b) \/ RegisterFails(b)
    PROVE  BankKnown'
  BY DEF BankKnown, RegisterWorks, RegisterFails, Works, Fails, FailsFor, banks, blame

\* Steps that leave the banks alone.
LEMMA BankFrame ==
    ASSUME BankKnown, UNCHANGED banks, mishaps \subseteq mishaps'
    PROVE  BankKnown'
  BY DEF BankKnown, banks

(* last_bank is the bank that is selected unless a switch of banks failed half,   *)
(* and then bank 0 is selected: whichever task switched, whatever failed, no      *)
(* access that is meant for bank 0 goes elsewhere.                              *)
THEOREM BankIsKnown == Spec => []BankKnown
<1>1. Init => BankKnown
  BY DEF Init, BankKnown
<1>2. BankKnown /\ [Next]_vars => BankKnown'
  <2> SUFFICES ASSUME BankKnown, [Next]_vars PROVE BankKnown'
    OBVIOUS
  <2> USE DEF Works, Fails, FailsFor, blame
  <2>1. CASE Arrive \/ TransmitEnds \/ CableChanges
    BY <2>1, BankFrame DEF Arrive, TransmitEnds, CableChanges
  <2>2. CASE \/ Wake \/ ReadFlags \/ ReadMask \/ Alloc \/ AllocFails \/ ReadHeader \/ ReadContent
             \/ CountOff \/ HandleError \/ EnableAgain \/ Resend \/ ClearReady \/ GiveReady \/ Restore
    BY <2>2, BankFrame DEF Wake, ReadFlags, ReadMask, Alloc, AllocFails, ReadHeader, ReadContent,
           CountOff, HandleError, EnableAgain, Resend, ClearReady, GiveReady, Restore
  <2>3. CASE ReadCount \/ SeekHeader \/ SeekHeaderHigh \/ SeekContent \/ SeekContentHigh \/ FreeSpace \/ Deliver
    BY <2>3, RegisterStep DEF ReadCount, SeekHeader, SeekHeaderHigh, SeekContent, SeekContentHigh, FreeSpace, Deliver
  <2>4. CASE LookAtCollision
    BY <2>4, RegisterStep, BankFrame DEF LookAtCollision
  <2>5. CASE TakeReady \/ CheckIdle \/ ClearFlag \/ EnableTx \/ Send
    BY <2>5, BankFrame DEF TakeReady, CheckIdle, ClearFlag, EnableTx, Send
  <2>6. CASE WriteFrame \/ SetDuplex
    BY <2>6, RegisterStep DEF WriteFrame, SetDuplex
  <2>7. CASE Poll
    BY <2>7, RegisterStep DEF Poll, BankKnown
  <2>8. CASE ClearFlags \/ EnableInterrupts \/ Listen \/ DisableInterrupts \/ Deafen
    BY <2>8, BankFrame DEF ClearFlags, EnableInterrupts, Listen, DisableInterrupts, Deafen
  <2>9. CASE Rewind \/ RewindHigh
    BY <2>9, RegisterStep DEF Rewind, RewindHigh, Disturbs, BankKnown
  <2>10. CASE UNCHANGED vars
    BY <2>10, BankFrame DEF vars
  <2> QED
    BY <2>1, <2>2, <2>3, <2>4, <2>5, <2>6, <2>7, <2>8, <2>9, <2>10 DEF Next, Receiver, Sender, Linker
<1> QED
  BY <1>1, <1>2, PTL DEF Spec
-----------------------------------------------------------------------------
(* Listening. While the driver is started and not yet stopped, receiving is on     *)
(* and announced, and the receive task waits only with the pin unmasked.           *)

Unhurt == {"intie", "stop"} \cap mishaps = {}
Starting == link \in {"duplex", "clear", "enable", "listen", "rewind", "rewindHigh"}
Started == up /\ link \in {"idle", "disable"}

ListenInv ==
    Unhurt => /\ Starting => ~up
              /\ Started \/ link \in {"rewind", "rewindHigh"} => rxen
              /\ Started \/ link \in {"listen", "rewind", "rewindHigh"} =>
                    /\ "PKT" \in eie
                    /\ rx \in {"wait", "resend"} => "INT" \in eie

\* What the chip, the cable and the sender do does not concern the link.
LEMMA ListenFrame ==
    ASSUME ListenInv, UNCHANGED <<link, up, rxen, rx>>, mishaps \subseteq mishaps',
           eie \subseteq eie'
    PROVE  ListenInv'
  BY Zenon DEF ListenInv, Unhurt, Starting, Started

\* Steps of the receive task that leave the enables alone, and do not begin to wait.
LEMMA ListenServes ==
    ASSUME ListenInv, UNCHANGED <<link, up, rxen, eie>>, mishaps \subseteq mishaps',
           rx' \notin {"wait", "resend"} \/ rx' = rx
    PROVE  ListenInv'
  BY Zenon DEF ListenInv, Unhurt, Starting, Started

\* The receive task's steps: the pin is masked by a step that goes on to serve, and
\* unmasked before the next wait.
LEMMA ListenReceiver == ListenInv /\ Receiver => ListenInv'
<1> SUFFICES ASSUME ListenInv, Receiver PROVE ListenInv'
  OBVIOUS
<1> USE DEF Works, Fails, FailsFor, blame, RxAt, RxGoes, linker, chip, blame
<1>1. CASE Wake
  BY <1>1 DEF Wake, ListenInv, Unhurt, Starting, Started
<1>2. CASE ReadFlags \/ ReadMask \/ Alloc \/ AllocFails \/ ReadHeader \/ ReadContent \/ CountOff
  BY <1>2, ListenServes DEF ReadFlags, ReadMask, Alloc, AllocFails, ReadHeader, ReadContent, CountOff
<1>3. CASE ReadCount \/ SeekHeader \/ SeekHeaderHigh \/ SeekContent \/ SeekContentHigh \/ FreeSpace \/ Deliver \/ LookAtCollision
  BY <1>3, ListenServes DEF ReadCount, SeekHeader, SeekHeaderHigh, SeekContent, SeekContentHigh, FreeSpace, Deliver, LookAtCollision,
         RegisterWorks, RegisterFails
<1>4. CASE HandleError \/ ClearReady
  BY <1>4, ListenServes DEF HandleError, ClearReady
<1>5. CASE EnableAgain
  BY <1>5 DEF EnableAgain, ListenInv, Unhurt, Starting, Started
<1>6. CASE Resend
  BY <1>6 DEF Resend, ListenInv, Unhurt, Starting, Started
<1>7. CASE GiveReady
  BY <1>7 DEF GiveReady, ListenInv, Unhurt, Starting, Started
<1>8. CASE Restore
  BY <1>8 DEF Restore, ListenInv, Unhurt, Starting, Started
<1> QED
  BY <1>1, <1>2, <1>3, <1>4, <1>5, <1>6, <1>7, <1>8 DEF Receiver

\* Starting and stopping.
LEMMA ListenLinker == ListenInv /\ Linker => ListenInv'
<1> SUFFICES ASSUME ListenInv, Linker PROVE ListenInv'
  OBVIOUS
<1> USE DEF Works, Fails, FailsFor, blame, LinkAt, LinkGoes, receiver, chip, blame,
            ListenInv, Unhurt, Starting, Started
<1>1. CASE Poll
  BY <1>1 DEF Poll, RegisterFails
<1>2. CASE SetDuplex
  BY <1>2 DEF SetDuplex, RegisterWorks, RegisterFails
<1>3. CASE ClearFlags
  BY <1>3 DEF ClearFlags
<1>4. CASE EnableInterrupts
  BY <1>4 DEF EnableInterrupts
<1>5. CASE Listen
  BY <1>5 DEF Listen
<1>6. CASE Rewind \/ RewindHigh
  BY <1>6 DEF Rewind, RewindHigh, Disturbs, RegisterFails
<1>7. CASE DisableInterrupts
  BY <1>7 DEF DisableInterrupts
<1>8. CASE Deafen
  BY <1>8 DEF Deafen
<1> QED
  BY <1>1, <1>2, <1>3, <1>4, <1>5, <1>6, <1>7, <1>8 DEF Linker

(* While the link is reported, frames are received and announced, however the       *)
(* receive task's masking and unmasking of the pin meets the timer's starts and     *)
(* stops, unless an unmasking or a stop failed.                                    *)
THEOREM FramesAreHeard == Spec => []ListeningWhileUp
<1>1. Init => ListenInv
  BY DEF Init, ListenInv, Starting, Started
<1>2. ListenInv /\ [Next]_vars => ListenInv'
  <2> SUFFICES ASSUME ListenInv, [Next]_vars PROVE ListenInv'
    OBVIOUS
  <2>1. CASE Arrive \/ TransmitEnds \/ CableChanges
    BY <2>1, ListenFrame DEF Arrive, TransmitEnds, CableChanges, receiver, linker, blame, chip
  <2>2. CASE Sender
    BY <2>2, ListenFrame DEF Sender, TakeReady, CheckIdle, WriteFrame, ClearFlag, EnableTx, Send, TxGoes,
           RegisterWorks, RegisterFails, Works, Fails, FailsFor, receiver, linker, blame, chip
  <2>3. CASE UNCHANGED vars
    BY <2>3, ListenFrame DEF vars, receiver, linker, blame, chip
  <2> QED
    BY <2>1, <2>2, <2>3, ListenReceiver, ListenLinker DEF Next
<1>3. ListenInv => ListeningWhileUp
  BY DEF ListenInv, ListeningWhileUp, Unhurt, Started
<1> QED
  BY <1>1, <1>2, <1>3, PTL DEF Spec
-----------------------------------------------------------------------------
(* Sending. Unless a sender has gone on without the semaphore or sent while errors  *)
(* were not announced, a free transmitter is one of which nothing is under way: no  *)
(* transmission, no flag of its end, and no step of the receive task about it.      *)

Ends == {"TX", "TXER"}
Blamed == {"expired", "unheard"} \cap mishaps # {}

\* A sender has the transmitter, or may take it.
Owned == txReady \/ tx # "idle"

\* The places where the flags read by the receive task still count.
Looking == RxPlaces \ {"wait", "flags", "collision", "again", "resend", "ready", "give", "end"}

UnderWay == \/ txrts
            \/ Ends \cap eir # {}
            \/ rx \in Looking \cup {"ready"} /\ Ends \cap status # {}
            \/ rx \in {"collision", "again", "resend", "give"}

\* Who has the transmitter has taken the semaphore; an error is announced with the end it
\* belongs to; what has ended does not go on, and who serves an end has its flags cleared
\* before the next transmission.
Served ==
    /\ tx # "idle" => ~txReady
    /\ UnderWay /\ "TX" \in eie => "TXER" \in eie
    /\ Ends \cap eir # {} => ~txrts
    /\ rx \in Looking \cup {"ready"} /\ Ends \cap status # {} => ~txrts
    /\ rx \in {"collision", "again", "resend", "give"} => ~txrts
    /\ rx \in Looking /\ "TX" \in status /\ "TXER" \in eir => "TXER" \in status
    /\ rx = "ready" /\ "TX" \in status => "TXER" \notin eir
    /\ rx = "collision" => "TXER" \notin eir
    /\ rx \in {"again", "resend", "give"} => Ends \cap eir = {}

SendInv == FrameNotTouched /\ (Blamed \/ ((Owned => ~UnderWay) /\ Served))

\* Types the proof needs of the parts.
SendTypes == /\ rx \in RxPlaces /\ tx \in TxPlaces
             /\ eir \subseteq Ends /\ status \subseteq Flags

LEMMA SendTypesHold == Spec => []SendTypes
<1>1. Init => SendTypes
  BY DEF Init, SendTypes, RxPlaces, TxPlaces
<1>2. SendTypes /\ [Next]_vars => SendTypes'
  <2> SUFFICES ASSUME SendTypes, [Next]_vars PROVE SendTypes'
    OBVIOUS
  <2> USE DEF SendTypes, Ends
  <2>1. CASE Arrive \/ CableChanges
    BY <2>1 DEF Arrive, CableChanges, receiver, sender, chip
  <2>8. CASE TransmitEnds
    BY <2>8 DEF TransmitEnds, receiver, sender
  <2>2. CASE Wake \/ ReadFlags \/ ReadMask \/ ReadCount \/ Alloc \/ AllocFails
    BY <2>2 DEF Wake, ReadFlags, ReadMask, ReadCount, Alloc, AllocFails, RxGoes, RxPlaces, Flags, sender, chip
  <2>3. CASE SeekHeader \/ SeekHeaderHigh \/ ReadHeader \/ SeekContent \/ SeekContentHigh \/ ReadContent \/ FreeSpace \/ CountOff \/ Deliver
    BY <2>3 DEF SeekHeader, SeekHeaderHigh, ReadHeader, SeekContent, SeekContentHigh, ReadContent, FreeSpace, CountOff, Deliver,
                RxGoes, RxPlaces, sender, chip
  <2>4. CASE HandleError \/ LookAtCollision \/ EnableAgain \/ Resend \/ ClearReady \/ GiveReady \/ Restore
    BY <2>4 DEF HandleError, LookAtCollision, EnableAgain, Resend, ClearReady, GiveReady, Restore,
                RxGoes, RxPlaces, sender, chip
  <2>5. CASE Sender
    BY <2>5 DEF Sender, TakeReady, CheckIdle, WriteFrame, ClearFlag, EnableTx, Send, TxGoes, TxPlaces,
                receiver, chip
  <2>6. CASE Linker
    BY <2>6 DEF Linker, Poll, SetDuplex, ClearFlags, EnableInterrupts, Listen, Rewind, RewindHigh, Disturbs,
                DisableInterrupts, Deafen, LinkGoes, receiver, sender, chip
  <2>7. CASE UNCHANGED vars
    BY <2>7 DEF vars, receiver, sender, chip
  <2> QED
    BY <2>1, <2>2, <2>3, <2>4, <2>5, <2>6, <2>7, <2>8 DEF Next, Receiver
<1> QED
  BY <1>1, <1>2, PTL DEF Spec

\* Steps that concern nothing of it.
LEMMA SendFrame ==
    ASSUME SendInv, UNCHANGED <<tx, rx, txrts, txReady, eir, eie, status>>, mishaps \subseteq mishaps'
    PROVE  SendInv'
  BY DEF SendInv, FrameNotTouched, Blamed, Owned, UnderWay, Served

\* The receive task looks after packets, from one of the places where the flags count
\* to another.
LEMMA SendLooks ==
    ASSUME SendInv, rx \in Looking, rx' \in Looking \cup {"end"}, mishaps \subseteq mishaps',
           UNCHANGED <<tx, txrts, txReady, eir, eie, status>>
    PROVE  SendInv'
  BY DEF SendInv, FrameNotTouched, Blamed, Owned, UnderWay, Served, Looking

\* The steps of the receive task up to the error.
LEMMA SendReceives ==
    ASSUME SendTypes, SendInv,
           \/ Wake \/ ReadFlags \/ ReadMask \/ ReadCount \/ Alloc \/ AllocFails
           \/ SeekHeader \/ SeekHeaderHigh \/ ReadHeader \/ SeekContent \/ SeekContentHigh \/ ReadContent \/ FreeSpace
           \/ CountOff \/ Deliver
    PROVE  SendInv'
<1> USE DEF RxAt, RxGoes, sender, chip, blame, Works, Fails, FailsFor
<1>1. CASE Wake
  BY <1>1 DEF Wake, SendInv, FrameNotTouched, Blamed, Owned, UnderWay, Served, Looking, RxPlaces
<1>2. CASE ReadFlags
  <2> USE DEF SendInv, FrameNotTouched, Blamed, Owned, UnderWay, Served, Looking, RxPlaces, Ends
  <2>1. rx = "flags" /\ UNCHANGED <<tx, txrts, txReady, eir, eie, mishaps>>
    BY <1>2 DEF ReadFlags
  <2>2. CASE rx' = "mask" /\ (status' = eir \/ status' = eir \cup {"PKT"})
    <3>1. Ends \cap status' = Ends \cap eir
      BY <2>2
    <3> QED
      BY <2>1, <2>2, <3>1
  <2>3. CASE rx' = "end"
    BY <2>1, <2>3
  <2> QED
    BY <1>2, <2>2, <2>3 DEF ReadFlags
<1>3. CASE ReadMask
  BY <1>3 DEF ReadMask, SendInv, FrameNotTouched, Blamed, Owned, UnderWay, Served, Looking,
              RxPlaces, SendTypes, Ends
<1>4. CASE ReadCount \/ Alloc \/ AllocFails \/ SeekHeader \/ SeekHeaderHigh \/ ReadHeader
  BY <1>4, SendLooks DEF ReadCount, Alloc, AllocFails, SeekHeader, SeekHeaderHigh, ReadHeader, RegisterWorks, RegisterFails,
              Looking, RxPlaces
<1>5. CASE SeekContent \/ SeekContentHigh \/ ReadContent \/ FreeSpace \/ CountOff \/ Deliver
  BY <1>5, SendLooks DEF SeekContent, SeekContentHigh, ReadContent, FreeSpace, CountOff, Deliver, RegisterWorks, RegisterFails,
              Looking, RxPlaces
<1> QED
  BY <1>1, <1>2, <1>3, <1>4, <1>5

\* The receive task looks after the transmitter.
LEMMA SendServes ==
    ASSUME SendTypes, SendInv,
           HandleError \/ LookAtCollision \/ EnableAgain \/ Resend \/ ClearReady \/ GiveReady \/ Restore
    PROVE  SendInv'
<1> USE DEF RxAt, RxGoes, sender, chip, blame, Works, Fails, FailsFor, RegisterWorks, RegisterFails,
            SendInv, FrameNotTouched, Blamed, Owned, UnderWay, Served, Looking, RxPlaces, SendTypes, Ends
<1>1. CASE HandleError
  <2>1. rx = "error" /\ UNCHANGED <<tx, txReady, eie, status>>
    BY <1>1 DEF HandleError
  <2>2. CASE "TXER" \notin status /\ rx' = "ready" /\ UNCHANGED <<eir, txrts, mishaps>>
    BY <2>1, <2>2
  <2>3. CASE /\ "TXER" \in status /\ rx' = "collision" /\ eir' = eir \ {"TXER"}
             /\ txrts' = txrts \/ txrts' = FALSE
             /\ UNCHANGED mishaps
    BY <2>1, <2>3
  <2>4. CASE /\ rx' = "end" /\ UNCHANGED <<eir, mishaps>>
             /\ txrts' = txrts \/ txrts' = FALSE
    BY <2>1, <2>4
  <2> QED
    BY <1>1, <2>2, <2>3, <2>4 DEF HandleError
<1>2. CASE LookAtCollision
  BY <1>2 DEF LookAtCollision
<1>3. CASE EnableAgain
  BY <1>3 DEF EnableAgain
<1>4. CASE Resend
  BY <1>4 DEF Resend
<1>5. CASE ClearReady
  BY <1>5 DEF ClearReady
<1>6. CASE GiveReady
  BY <1>6 DEF GiveReady
<1>7. CASE Restore
  BY <1>7 DEF Restore
<1> QED
  BY <1>1, <1>2, <1>3, <1>4, <1>5, <1>6, <1>7

\* The sender.
LEMMA SendSends == ASSUME SendTypes, SendInv, Sender PROVE SendInv'
<1> USE DEF TxAt, TxGoes, receiver, chip, blame, Works, Fails, FailsFor, RegisterWorks, RegisterFails,
            SendInv, FrameNotTouched, Blamed, Owned, UnderWay, Served, SendTypes, Ends
<1>1. CASE TakeReady
  BY <1>1 DEF TakeReady
<1>2. CASE CheckIdle
  BY <1>2 DEF CheckIdle
<1>3. CASE WriteFrame
  BY <1>3 DEF WriteFrame
<1>4. CASE ClearFlag
  BY <1>4 DEF ClearFlag
<1>5. CASE EnableTx
  BY <1>5 DEF EnableTx
<1>6. CASE Send
  <2>1. tx = "send" /\ tx' = "idle" /\ UNCHANGED <<rx, txReady, eir, eie, status>>
    BY <1>6 DEF Send
  <2>2. Blamed \/ ~UnderWay
    BY <2>1
  <2>3. CASE txrts' = TRUE /\ mishaps' = mishaps \cup (IF "TXER" \in eie THEN {} ELSE {"unheard"})
    <3>1. FrameNotTouched'
      BY <2>1
    <3>2. CASE Blamed \/ "TXER" \notin eie
      BY <2>3, <3>1, <3>2
    <3>3. CASE ~Blamed /\ "TXER" \in eie
      BY <2>1, <2>2, <2>3, <3>1, <3>3
    <3> QED
      BY <3>2, <3>3
  <2>4. CASE UNCHANGED txrts /\ Fails
    BY <2>1, <2>4
  <2> QED
    BY <1>6, <2>3, <2>4 DEF Send
<1> QED
  BY <1>1, <1>2, <1>3, <1>4, <1>5, <1>6 DEF Sender

\* The timer's starts and stops, which may clear the flags and change the enables.
LEMMA SendLinks == ASSUME SendTypes, SendInv, Linker PROVE SendInv'
<1> USE DEF LinkAt, LinkGoes, receiver, sender, chip, blame, Works, Fails, FailsFor
<1>1. CASE Poll \/ SetDuplex \/ Listen \/ Rewind \/ RewindHigh \/ Deafen
  BY <1>1, SendFrame DEF Poll, SetDuplex, Listen, Rewind, RewindHigh, Disturbs, Deafen, RegisterWorks, RegisterFails
<1>2. CASE ClearFlags
  BY <1>2 DEF ClearFlags, SendInv, FrameNotTouched, Blamed, Owned, UnderWay, Served
<1>3. CASE EnableInterrupts
  BY <1>3 DEF EnableInterrupts, SendInv, FrameNotTouched, Blamed, Owned, UnderWay, Served
<1>4. CASE DisableInterrupts
  BY <1>4 DEF DisableInterrupts, SendInv, FrameNotTouched, Blamed, Owned, UnderWay, Served
<1> QED
  BY <1>1, <1>2, <1>3, <1>4 DEF Linker

(* The frame in the transmit buffer is not changed while the chip sends it, also      *)
(* when the sender gives up waiting for its end or the receive task sends it again   *)
(* after a late collision, unless both happen.                                       *)
THEOREM FrameIsLeftAlone == Spec => []FrameNotTouched
<1>1. Init => SendInv
  BY DEF Init, SendInv, FrameNotTouched, Owned, UnderWay, Served, Looking, RxPlaces
<1>2. SendTypes /\ SendInv /\ [Next]_vars => SendInv'
  <2> SUFFICES ASSUME SendTypes, SendInv, [Next]_vars PROVE SendInv'
    OBVIOUS
  <2>1. CASE Arrive \/ CableChanges
    BY <2>1, SendFrame DEF Arrive, CableChanges, receiver, sender, chip, blame
  <2>2. CASE TransmitEnds
    <3>1. txrts /\ txrts' = FALSE /\ UNCHANGED <<tx, rx, txReady, eie, status, mishaps>>
      BY <2>2 DEF TransmitEnds, receiver, sender, blame
    <3> QED
      BY <3>1 DEF SendInv, FrameNotTouched, Blamed, Owned, UnderWay, Served, Ends
  <2>3. CASE UNCHANGED vars
    BY <2>3, SendFrame DEF vars, receiver, sender, chip, blame
  <2> QED
    BY <2>1, <2>2, <2>3, SendReceives, SendServes, SendSends, SendLinks DEF Next, Receiver
<1>3. SendInv => FrameNotTouched
  BY DEF SendInv
<1> QED
  BY <1>1, <1>2, <1>3, SendTypesHold, PTL DEF Spec
-----------------------------------------------------------------------------
(* Receiving. Positions in the ring are compared by how far they are ahead of a      *)
(* base, the place of the oldest packet that was not read.                          *)

Even == {a \in Addresses : a % 2 = 0}
Places == [at : Even, next : Even]

From(base, x) == IF base <= x THEN x - base ELSE x - base + RxSize

\* u is what lies in the ring from p to w: one packet after the other, in order, and the
\* byte before p is free.
Ring(u, p, w) ==
    /\ u \in Seq(Places) /\ p \in Even /\ w \in Even
    /\ From(p, w) <= RxSize - 2
    /\ \A i, j \in 1..Len(u) : i < j => From(p, u[i].at) < From(p, u[j].at)
    /\ \A i \in 1..Len(u) : From(p, u[i].at) < From(p, w)
    /\ \A i \in 1..Len(u) : u[i].next = (IF i = Len(u) THEN w ELSE u[i + 1].at)
    /\ p = (IF u = <<>> THEN w ELSE u[1].at)

\* Counting on around the ring, and how the driver computes it, agree.
LEMMA Around ==
    ASSUME NEW a \in Addresses, NEW n \in Nat, n < RxSize
    PROVE  /\ Advance(a, n) \in Addresses
           /\ Advance(a, n) = (IF a + n < RxSize THEN a + n ELSE a + n - RxSize)
           /\ PacketStart(a, n) = Advance(a, n)
           /\ a \in Even /\ n % 2 = 0 => Advance(a, n) \in Even
<1>1. RxSize \in Nat /\ 0 < RxSize /\ RxSize % 2 = 0 /\ a \in 0..RxSize - 1
  BY DEF Addresses, Start, End
<1>2. (a + n) % RxSize = (IF a + n < RxSize THEN a + n ELSE a + n - RxSize)
  BY <1>1
<1>3. a % 2 = 0 /\ n % 2 = 0 => (a + n) % 2 = 0 /\ (RxSize <= a + n => (a + n - RxSize) % 2 = 0)
  BY <1>1
<1> QED
  BY <1>1, <1>2, <1>3 DEF Advance, PacketStart, Addresses, Even, Start, End

\* The byte before an even place is odd.
LEMMA Before ==
    ASSUME NEW a \in Even
    PROVE  AlignOdd(a) \in Addresses /\ AlignOdd(a) % 2 = 1
<1>1. RxSize \in Nat /\ 1 < RxSize /\ RxSize % 2 = 0 /\ a \in 0..RxSize - 1 /\ a % 2 = 0
  BY DEF Even, Addresses, Start, End
<1>2. (a - 1) % 2 = 1 /\ (RxSize - 1) % 2 = 1
  BY <1>1
<1> QED
  BY <1>1, <1>2 DEF AlignOdd, Addresses, Start, End

\* The room the chip sees is what is left up to the byte before the base.
LEMMA RoomLeft ==
    ASSUME NEW p \in Even, wr \in Even, rd = AlignOdd(p), From(p, wr) <= RxSize - 2
    PROVE  Room = RxSize - 2 - From(p, wr)
  BY DEF Room, From, AlignOdd, Even, Addresses, Start, End

\* Distances are those of places of the ring; with another base they change alike.
LEMMA FromType ==
    ASSUME NEW p \in Even, NEW x \in Even
    PROVE  From(p, x) \in 0..RxSize - 1 /\ (From(p, x) = 0 <=> x = p)
  BY DEF From, Even, Addresses, Start, End

LEMMA FromShift ==
    ASSUME NEW p \in Even, NEW q \in Even, NEW x \in Even, From(p, q) <= From(p, x)
    PROVE  From(q, x) = From(p, x) - From(p, q)
  BY DEF From, Even, Addresses, Start, End

\* A packet that fits is the last of the ring.
LEMMA RingAppend ==
    ASSUME NEW u, NEW p, NEW w, Ring(u, p, w), NEW s \in Nat \ {0}, s % 2 = 0,
           s <= RxSize - 2 - From(p, w)
    PROVE  Ring(Append(u, [at |-> w, next |-> Advance(w, s)]), p, Advance(w, s))
<1> DEFINE x == [at |-> w, next |-> Advance(w, s)]
           v == Append(u, x)
<1>0. p \in Even /\ w \in Even
  BY DEF Ring
<1>1. p \in 0..RxSize - 1 /\ w \in 0..RxSize - 1 /\ RxSize \in Nat /\ From(p, w) \in Nat
  BY <1>0 DEF Even, Addresses, Start, End, From
<1>2. /\ Advance(w, s) \in Even
      /\ Advance(w, s) = (IF w + s < RxSize THEN w + s ELSE w + s - RxSize)
  <2>1. w \in Addresses /\ s \in Nat /\ s < RxSize
    BY <1>0, <1>1 DEF Even
  <2> QED
    BY <1>0, <2>1, Around
<1>3. From(p, Advance(w, s)) = From(p, w) + s
  BY <1>1, <1>2 DEF From
<1>4. x \in Places
  BY <1>2 DEF Places, Ring
<1>5. /\ v \in Seq(Places) /\ v # <<>> /\ Len(v) = Len(u) + 1 /\ Len(u) \in Nat
      /\ \A i \in 1..Len(u) : v[i] = u[i]
      /\ v[Len(u) + 1] = x
  BY <1>4, AppendProperties, LenProperties DEF Ring
<1>6. \A i, j \in 1..Len(v) : i < j => From(p, v[i].at) < From(p, v[j].at)
  <2> SUFFICES ASSUME NEW i \in 1..Len(v), NEW j \in 1..Len(v), i < j
               PROVE  From(p, v[i].at) < From(p, v[j].at)
    OBVIOUS
  <2>1. i \in 1..Len(u) /\ v[i] = u[i]
    BY <1>5
  <2>2. CASE j \in 1..Len(u)
    BY <1>5, <2>1, <2>2 DEF Ring
  <2>3. CASE j = Len(u) + 1
    BY <1>5, <2>1, <2>3 DEF Ring
  <2> QED
    BY <1>5, <2>2, <2>3
<1>7. \A i \in 1..Len(v) : From(p, v[i].at) < From(p, Advance(w, s))
  <2> SUFFICES ASSUME NEW i \in 1..Len(v) PROVE From(p, v[i].at) < From(p, w) + s
    BY <1>3
  <2>1. CASE i \in 1..Len(u)
    <3>0. u[i] \in Places /\ From(p, u[i].at) < From(p, w)
      BY <2>1, ElementOfSeq DEF Ring
    <3>1. u[i].at \in 0..RxSize - 1 /\ From(p, u[i].at) < From(p, w)
      BY <3>0 DEF Places, Even, Addresses, Start, End
    <3>2. From(p, u[i].at) \in Int
      BY <1>0, <3>0, FromType DEF Places
    <3> QED
      BY <1>1, <1>5, <2>1, <3>1, <3>2
  <2>2. CASE i = Len(u) + 1
    BY <1>1, <1>5, <2>2
  <2> QED
    BY <1>5, <2>1, <2>2
<1>8. \A i \in 1..Len(v) : v[i].next = (IF i = Len(v) THEN Advance(w, s) ELSE v[i + 1].at)
  <2> SUFFICES ASSUME NEW i \in 1..Len(v)
               PROVE  v[i].next = (IF i = Len(v) THEN Advance(w, s) ELSE v[i + 1].at)
    OBVIOUS
  <2>1. CASE i \in 1..Len(u) /\ i # Len(u)
    BY <1>5, <2>1 DEF Ring
  <2>2. CASE i = Len(u)
    BY <1>5, <2>2 DEF Ring
  <2>3. CASE i = Len(u) + 1
    BY <1>5, <2>3
  <2> QED
    BY <1>5, <2>1, <2>2, <2>3
<1>9. p = v[1].at
  <2>1. CASE u = <<>>
    BY <1>5, <2>1 DEF Ring
  <2>2. CASE u # <<>>
    <3>1. Len(u) # 0
      BY <2>2, EmptySeq DEF Ring
    <3> QED
      BY <1>5, <2>2, <3>1 DEF Ring
  <2> QED
    BY <2>1, <2>2
<1>10. From(p, Advance(w, s)) <= RxSize - 2
  BY <1>1, <1>3
<1> HIDE DEF v, x
<1>11. Ring(v, p, Advance(w, s))
  BY <1>2, <1>5, <1>6, <1>7, <1>8, <1>9, <1>10 DEF Ring
<1> QED
  BY <1>11 DEF v, x

LEMMA PlaceFields ==
    ASSUME NEW x \in Places
    PROVE  x.at \in Even /\ x.next \in Even
  BY DEF Places

\* Only the oldest packet lies at the base.
LEMMA RingHead ==
    ASSUME NEW u, NEW p, NEW w, Ring(u, p, w), NEW i \in 1..Len(u), u[i].at = p
    PROVE  i = 1 /\ u[i] = Head(u)
<1>1. Len(u) \in Nat /\ u \in Seq(Places) /\ u # <<>> /\ p \in Even
  BY LenProperties, EmptySeq DEF Ring
<1>2. 1 \in 1..Len(u) /\ u[1] \in Places /\ u[i] \in Places
  BY <1>1, ElementOfSeq
<1>3. u[1].at \in Even /\ u[i].at \in Even
  BY <1>2, PlaceFields
<1>5. From(p, u[1].at) \in Nat /\ From(p, u[i].at) = 0
  BY <1>1, <1>3, FromType
<1>4. ~(1 < i)
  BY <1>2, <1>5 DEF Ring
<1> QED
  BY <1>1, <1>4

\* The oldest packet is read: the next one, or what is free, is the base.
LEMMA RingTail ==
    ASSUME NEW u, NEW p, NEW w, Ring(u, p, w), u # <<>>
    PROVE  Ring(Tail(u), Head(u).next, w)
<1> DEFINE v == Tail(u)
           q == Head(u).next
<1>1. /\ u \in Seq(Places) /\ p \in Even /\ w \in Even /\ Len(u) \in Nat \ {0}
      /\ Head(u) = u[1] /\ v \in Seq(Places) /\ Len(v) = Len(u) - 1
      /\ \A i \in 1..Len(v) : v[i] = u[i + 1]
  BY HeadTailProperties, LenProperties, EmptySeq DEF Ring
<1>2. \A i \in 1..Len(u) : u[i] \in Places /\ u[i].at \in Even /\ u[i].next \in Even
  <2> TAKE i \in 1..Len(u)
  <2>1. u[i] \in Places
    BY <1>1, ElementOfSeq
  <2> QED
    BY <2>1, PlaceFields
<1>3. q \in Even /\ q = (IF Len(u) = 1 THEN w ELSE u[2].at)
  <2>1. 1 \in 1..Len(u)
    BY <1>1
  <2>2. u[1].next \in Even
    BY <1>2, <2>1
  <2>3. u[1].next = (IF 1 = Len(u) THEN w ELSE u[1 + 1].at)
    BY <2>1 DEF Ring
  <2> QED
    BY <1>1, <2>2, <2>3
<1>4. p = u[1].at /\ From(p, q) \in 1..RxSize - 2 /\ From(p, q) <= From(p, w)
  <2>1. p = u[1].at /\ From(p, p) = 0
    BY <1>1, FromType DEF Ring
  <2>2. From(p, w) \in 0..RxSize - 2 /\ From(p, q) \in Nat
    <3>1. From(p, w) \in 0..RxSize - 1 /\ From(p, q) \in 0..RxSize - 1
      BY <1>1, <1>3, FromType
    <3>2. From(p, w) <= RxSize - 2
      BY DEF Ring
    <3> QED
      BY <3>1, <3>2
  <2>3. CASE Len(u) = 1
    BY <1>1, <1>3, <2>1, <2>2, <2>3 DEF Ring
  <2>4. CASE Len(u) # 1
    <3>1. 1 \in 1..Len(u) /\ 2 \in 1..Len(u)
      BY <1>1, <2>4
    <3> QED
      BY <1>3, <2>1, <2>2, <2>4, <3>1 DEF Ring
  <2> QED
    BY <2>3, <2>4
<1>5. ASSUME NEW i \in 2..Len(u)
      PROVE  From(q, u[i].at) = From(p, u[i].at) - From(p, q)
  <2>1. 2 \in 1..Len(u) /\ i \in 1..Len(u) /\ q = u[2].at
    BY <1>1, <1>3
  <2>2. From(p, q) <= From(p, u[i].at)
    <3>1. From(p, u[i].at) \in Int /\ (2 < i => From(p, u[2].at) < From(p, u[i].at))
      <4>1. From(p, u[i].at) \in Int
        BY <1>1, <1>2, <2>1, FromType
      <4> QED
        BY <2>1, <4>1 DEF Ring
    <3> QED
      BY <1>4, <2>1, <3>1
  <2> QED
    BY <1>1, <1>2, <1>3, <2>1, <2>2, FromShift
<1>6. From(q, w) = From(p, w) - From(p, q)
  BY <1>1, <1>3, <1>4, FromShift
<1>7. \A i \in 1..Len(u) : From(p, u[i].at) \in Int /\ From(p, w) \in Int
  BY <1>1, <1>2, FromType
<1>8. \A i \in 1..Len(v) : i \in Nat /\ i + 1 \in 1..Len(u) /\ i + 1 \in 2..Len(u)
  BY <1>1
<1> HIDE DEF v, q
<1>9. \A i, j \in 1..Len(v) : i < j => From(q, v[i].at) < From(q, v[j].at)
  <2> SUFFICES ASSUME NEW i \in 1..Len(v), NEW j \in 1..Len(v), i < j
               PROVE  From(q, u[i + 1].at) < From(q, u[j + 1].at)
    BY <1>1
  <2>1. i + 1 \in 1..Len(u) /\ j + 1 \in 1..Len(u) /\ i + 1 < j + 1
    BY <1>8
  <2>2. From(p, u[i + 1].at) < From(p, u[j + 1].at)
    BY <2>1 DEF Ring
  <2>3. /\ From(p, u[i + 1].at) \in Int /\ From(p, u[j + 1].at) \in Int /\ From(p, q) \in Int
        /\ From(q, u[i + 1].at) = From(p, u[i + 1].at) - From(p, q)
        /\ From(q, u[j + 1].at) = From(p, u[j + 1].at) - From(p, q)
    BY <1>4, <1>5, <1>7, <1>8
  <2> QED
    BY <2>2, <2>3
<1>10. \A i \in 1..Len(v) : From(q, v[i].at) < From(q, w)
  <2> SUFFICES ASSUME NEW i \in 1..Len(v) PROVE From(q, u[i + 1].at) < From(q, w)
    BY <1>1
  <2>1. From(p, u[i + 1].at) < From(p, w)
    BY <1>8 DEF Ring
  <2>2. /\ From(p, u[i + 1].at) \in Int /\ From(p, w) \in Int /\ From(p, q) \in Int
        /\ From(q, u[i + 1].at) = From(p, u[i + 1].at) - From(p, q)
    BY <1>4, <1>5, <1>7, <1>8
  <2> QED
    BY <1>6, <2>1, <2>2
<1>11. \A i \in 1..Len(v) : v[i].next = (IF i = Len(v) THEN w ELSE v[i + 1].at)
  <2> SUFFICES ASSUME NEW i \in 1..Len(v)
               PROVE  v[i].next = (IF i = Len(v) THEN w ELSE v[i + 1].at)
    OBVIOUS
  <2>1. /\ i + 1 \in 1..Len(u) /\ v[i] = u[i + 1]
        /\ i = Len(v) <=> i + 1 = Len(u)
        /\ i # Len(v) => i + 1 \in 1..Len(v) /\ v[i + 1] = u[(i + 1) + 1]
    BY <1>1, <1>8
  <2> QED
    BY <2>1 DEF Ring
<1>12. q = (IF v = <<>> THEN w ELSE v[1].at)
  <2>1. v = <<>> <=> Len(v) = 0
    BY <1>1, EmptySeq
  <2>2. Len(v) # 0 => v[1] = u[2]
    BY <1>1
  <2> QED
    BY <1>1, <1>3, <2>1, <2>2
<1>13. From(q, w) <= RxSize - 2
  <2>1. From(p, w) \in Int /\ From(p, w) <= RxSize - 2 /\ From(p, q) \in Nat
    BY <1>1, <1>4, FromType DEF Ring
  <2> QED
    BY <1>6, <2>1
<1> QED
  BY <1>1, <1>3, <1>9, <1>10, <1>11, <1>12, <1>13 DEF Ring, v, q

\* Appending to a queue that is not empty appends to its tail.
LEMMA TailAppend ==
    ASSUME NEW T, NEW q \in Seq(T), q # <<>>, NEW x \in T
    PROVE  Tail(Append(q, x)) = Append(Tail(q), x)
<1>1. /\ Len(q) \in Nat \ {0} /\ Tail(q) \in Seq(T) /\ Len(Tail(q)) = Len(q) - 1
      /\ \A i \in 1..Len(q) - 1 : Tail(q)[i] = q[i + 1]
  BY HeadTailProperties, LenProperties, EmptySeq
<1>2. /\ Append(q, x) \in Seq(T) /\ Len(Append(q, x)) = Len(q) + 1 /\ Append(q, x) # <<>>
      /\ \A i \in 1..Len(q) : Append(q, x)[i] = q[i]
      /\ Append(q, x)[Len(q) + 1] = x
  BY AppendProperties
<1>3. /\ Tail(Append(q, x)) \in Seq(T) /\ Len(Tail(Append(q, x))) = Len(q)
      /\ \A i \in 1..Len(q) : Tail(Append(q, x))[i] = Append(q, x)[i + 1]
  BY <1>1, <1>2, HeadTailProperties
<1>4. /\ Append(Tail(q), x) \in Seq(T) /\ Len(Append(Tail(q), x)) = Len(q)
      /\ \A i \in 1..Len(q) - 1 : Append(Tail(q), x)[i] = Tail(q)[i]
      /\ Append(Tail(q), x)[Len(q)] = x
  BY <1>1, AppendProperties
<1>5. \A i \in 1..Len(q) : Tail(Append(q, x))[i] = Append(Tail(q), x)[i]
  <2> TAKE i \in 1..Len(q)
  <2>1. CASE i = Len(q)
    BY <1>1, <1>2, <1>3, <1>4, <2>1
  <2>2. CASE i \in 1..Len(q) - 1
    <3>1. i + 1 \in 1..Len(q)
      BY <1>1, <2>2
    <3> QED
      BY <1>1, <1>2, <1>3, <1>4, <2>2, <3>1
  <2> QED
    BY <1>1, <2>1, <2>2
<1> QED
  BY <1>3, <1>4, <1>5, SeqEqual

\* The two halves of ERDPT.
Pointers == [low : 0..Page - 1, high : 0..(End \div Page)]

LEMMA Quotients ==
    ASSUME NEW a \in Nat, NEW b \in Nat, a <= b, NEW n \in Nat \ {0}
    PROVE  a \div n \in 0..(b \div n)
<1> DEFINE q == a \div n
           t == b \div n
<1>1. /\ q \in Nat /\ t \in Nat
      /\ n * q <= a /\ b < n * t + n
  OBVIOUS
<1>2. ASSUME q > t PROVE FALSE
  <2>1. PICK d \in Nat : q = t + 1 + d
    <3>1. q - t - 1 \in Nat /\ q = t + 1 + (q - t - 1)
      BY <1>1, <1>2
    <3> QED
      BY <3>1
  <2>2. n * q = n * t + n + n * d /\ n * d >= 0
    BY <1>1, <2>1
  <2> QED
    BY <1>1, <2>2
<1> QED
  BY <1>1, <1>2

LEMMA PointerType == ASSUME NEW a \in Addresses PROVE Pointer(a) \in Pointers
<1>1. a \in Nat /\ End \in Nat /\ a <= End
  BY DEF Addresses, Start, End
<1>2. a % Page \in 0..Page - 1
  BY <1>1
<1> QED
  BY <1>1, <1>2, Quotients DEF Pointer, Pointers

\* Setting one half of the pointer after the other.
LEMMA PointerSet ==
    ASSUME NEW r \in Pointers, NEW v \in Pointers
    PROVE  /\ [r EXCEPT !.low = v.low] \in Pointers /\ [r EXCEPT !.high = v.high] \in Pointers
           /\ [r EXCEPT !.low = v.low].low = v.low
           /\ [r EXCEPT !.high = v.high].low = r.low
           /\ r.low = v.low => [r EXCEPT !.high = v.high] = v
           /\ [r EXCEPT !.low = v.low].low = r.low => [r EXCEPT !.low = v.low] = r
           /\ [r EXCEPT !.high = v.high].high = r.high => [r EXCEPT !.high = v.high] = r
  BY DEF Pointers

\* The places of the driver and the chip, whatever has failed: the chip may write up to
\* the byte before the driver's packet, and where the driver reads or counts off there is one.
RingTypes ==
    /\ packets \in Seq(Places) /\ wr \in Even /\ ptr \in Even /\ rdpt \in Pointers
    /\ rd = AlignOdd(ptr)
    /\ rx \in {"content", "contentHigh", "readContent", "free"} => Present
    /\ rx = "count" => packets # <<>>

\* What the receive task has made sure of at each of its places.
Reading ==
    /\ rx \in {"alloc", "header", "headerHigh", "readHeader", "content", "contentHigh",
              "readContent", "free", "count"} => packets # <<>>
    /\ rx = "mask" /\ "PKT" \in status => packets # <<>>
    /\ rx = "headerHigh" => rdpt.low = Pointer(ptr).low
    /\ rx = "readHeader" => rdpt = Pointer(ptr)
    /\ rx = "contentHigh" => rdpt.low = Pointer(Advance(ptr, Rsv)).low
    /\ rx = "readContent" => rdpt = Pointer(Advance(ptr, Rsv))
    /\ rx \in {"free", "count", "deliver"} => intact

RingInv == Astray \/ (Ring(Unread, ptr, wr) /\ rx # "lost" /\ Reading)

\* The packet that is due is one of those in the ring.
LEMMA DueIsThere ==
    ASSUME RingTypes, Present
    PROVE  /\ packets # <<>> /\ Due \in Places
           /\ Ring(packets, ptr, wr) => Due = Head(packets)
<1>1. PICK i \in DOMAIN packets : packets[i] = Due /\ Due.at = ptr
  BY DEF Present, Due
<1>2. DOMAIN packets = 1..Len(packets) /\ packets[i] \in Places /\ packets # <<>>
  BY <1>1, LenProperties, ElementOfSeq, EmptySeq DEF RingTypes
<1> QED
  BY <1>1, <1>2, RingHead

\* What is there stays there when another packet arrives.
LEMMA PresentStays ==
    ASSUME packets \in Seq(Places), NEW x \in Places, packets' = Append(packets, x), ptr' = ptr, Present
    PROVE  Present'
<1>1. PICK i \in DOMAIN packets : packets[i].at = ptr
  BY DEF Present
<1>2. /\ DOMAIN packets = 1..Len(packets) /\ Len(packets) \in Nat
      /\ DOMAIN packets' = 1..Len(packets) + 1
      /\ packets'[i] = packets[i]
  BY <1>1, AppendProperties, LenProperties
<1>3. i \in DOMAIN packets'
  BY <1>1, <1>2
<1> QED
  BY <1>1, <1>2, <1>3 DEF Present

\* A frame that arrives.
LEMMA RingArrives == ASSUME RingTypes, RingInv, Arrive PROVE RingTypes' /\ RingInv'
<1>1. PICK s \in Sizes : /\ s <= Room
                         /\ packets' = Append(packets, [at |-> wr, next |-> Advance(wr, s)])
                         /\ wr' = Advance(wr, s)
  BY DEF Arrive
<1>2. UNCHANGED <<rd, rdpt, ptr, rx, status, intact, mishaps>>
  BY DEF Arrive, receiver, blame
<1> DEFINE x == [at |-> wr, next |-> Advance(wr, s)]
<1>3. s \in Nat \ {0} /\ s % 2 = 0 /\ s < RxSize
  OBVIOUS
<1>4. wr \in Even /\ Advance(wr, s) \in Even
  BY <1>3, Around DEF RingTypes, Even
<1>5. x \in Places /\ packets \in Seq(Places) /\ packets' = Append(packets, x)
  BY <1>1, <1>4 DEF Places, RingTypes
<1> HIDE DEF x
<1>6. packets' \in Seq(Places) /\ packets' # <<>>
  BY <1>5, AppendProperties
<1>7. RingTypes'
  BY <1>1, <1>2, <1>4, <1>5, <1>6, PresentStays DEF RingTypes
<1>8. CASE Astray
  BY <1>2, <1>7, <1>8 DEF Astray, RingInv
<1>9. CASE ~Astray
  <2>1. Ring(Unread, ptr, wr) /\ rx # "lost" /\ Reading
    BY <1>9 DEF RingInv
  <2>2. Unread' = Append(Unread, x)
    BY <1>2, <1>5, <2>1, TailAppend DEF Unread, Reading
  <2>3. Room = RxSize - 2 - From(ptr, wr)
    BY <1>4, <2>1, RoomLeft DEF RingTypes, Ring
  <2>4. Ring(Unread, ptr, wr)'
    BY <1>1, <1>2, <1>3, <2>1, <2>2, <2>3, RingAppend DEF x
  <2>5. Reading'
    BY <1>2, <1>6, <2>1 DEF Reading
  <2> QED
    BY <1>2, <1>7, <2>1, <2>4, <2>5 DEF RingInv
<1> QED
  BY <1>8, <1>9

\* Steps that concern nothing of the ring.
LEMMA RingFrame ==
    ASSUME RingTypes, RingInv, mishaps \subseteq mishaps',
           UNCHANGED <<packets, wr, rd, rdpt, ptr, rx, status, intact>>
    PROVE  RingTypes' /\ RingInv'
<1>1. Present' <=> Present
  BY DEF Present
<1>2. Unread' = Unread
  BY DEF Unread
<1>3. RingTypes'
  BY <1>1 DEF RingTypes
<1>4. Astray => Astray'
  BY DEF Astray
<1> QED
  BY <1>2, <1>3, <1>4 DEF RingInv, Reading

\* Steps of the receive task after which nothing is known of the packet it reads.
LEMMA RingLeaves ==
    ASSUME RingTypes, RingInv, mishaps \subseteq mishaps', rx # "count",
           rx' \in {"wait", "flags", "unknown", "error", "collision", "again", "resend", "ready",
                    "give", "end"},
           UNCHANGED <<packets, wr, rd, rdpt, ptr>>
    PROVE  RingTypes' /\ RingInv'
<1>1. Unread' = Unread
  BY DEF Unread
<1>2. RingTypes'
  BY DEF RingTypes
<1>3. Astray => Astray'
  BY DEF Astray
<1> QED
  BY <1>1, <1>2, <1>3 DEF RingInv, Reading

\* EPKTCNT is read from bank 1, unless a switch of banks has failed half.
LEMMA CountIsRight ==
    ASSUME BankKnown, ~Astray, CountIs(TRUE)
    PROVE  packets # <<>>
  BY DEF BankKnown, Astray, CountIs, Reaches

\* The receive task finds out that packets wait.
LEMMA RingFinds ==
    ASSUME RingTypes, SendTypes, BankKnown, RingInv,
           Wake \/ ReadFlags \/ ReadMask \/ ReadCount \/ Alloc \/ AllocFails
    PROVE  RingTypes' /\ RingInv'
<1> USE DEF RxAt, RxGoes, chip, blame, Works, Fails, FailsFor
<1>1. CASE Wake
  BY <1>1, RingLeaves DEF Wake
<1>2. CASE ReadFlags
  <2>1. UNCHANGED <<packets, wr, rd, rdpt, ptr, intact, mishaps>> /\ rx = "flags"
    BY <1>2 DEF ReadFlags
  <2>2. CASE rx' = "end"
    BY <2>1, <2>2, RingLeaves
  <2>3. CASE rx' = "mask" /\ (status' = eir \/ (packets # <<>> /\ status' = eir \cup {"PKT"}))
    <3>1. "PKT" \in status' => packets' # <<>>
      BY <2>1, <2>3 DEF SendTypes, Ends
    <3>2. Unread' = Unread /\ (Astray => Astray')
      BY <2>1, <2>3 DEF Unread, Astray
    <3> QED
      BY <2>1, <2>3, <3>1, <3>2 DEF RingTypes, RingInv, Reading
  <2> QED
    BY <1>2, <2>2, <2>3 DEF ReadFlags
<1>3. CASE ReadMask
  <2>1. UNCHANGED <<packets, wr, rd, rdpt, ptr, intact, mishaps>> /\ rx = "mask"
    BY <1>3 DEF ReadMask
  <2>2. CASE rx' \in {"end", "unknown", "error"}
    BY <2>1, <2>2, RingLeaves
  <2>3. CASE rx' = "alloc" /\ "PKT" \in status
    <3>1. Unread' = Unread /\ (Astray => Astray')
      BY <2>1, <2>3 DEF Unread, Astray
    <3> QED
      BY <2>1, <2>3, <3>1 DEF RingTypes, RingInv, Reading
  <2> QED
    BY <1>3, <2>2, <2>3 DEF ReadMask
<1>4. CASE ReadCount
  <2>1. UNCHANGED <<packets, wr, rd, rdpt, ptr, intact, status>> /\ rx = "unknown" /\ mishaps \subseteq mishaps'
    BY <1>4 DEF ReadCount, RegisterWorks, RegisterFails
  <2>2. CASE rx' = "end"
    BY <2>1, <2>2, RingLeaves
  <2>3. CASE rx' = "alloc" /\ CountIs(TRUE)
    <3>1. Unread' = Unread /\ (Astray => Astray') /\ (~Astray => packets # <<>>)
      BY <2>1, <2>3, CountIsRight DEF Unread, Astray
    <3> QED
      BY <2>1, <2>3, <3>1 DEF RingTypes, RingInv, Reading
  <2>4. rx' = "end" \/ (rx' = "alloc" /\ CountIs(TRUE))
    BY <1>4 DEF ReadCount
  <2> QED
    BY <2>2, <2>3, <2>4
<1>5. CASE Alloc
  <2>1. Unread' = Unread /\ (Astray => Astray')
    BY <1>5 DEF Alloc, Unread, Astray
  <2> QED
    BY <1>5, <2>1 DEF Alloc, RingTypes, RingInv, Reading
<1>6. CASE AllocFails
  BY <1>6, RingLeaves DEF AllocFails
<1> QED
  BY <1>1, <1>2, <1>3, <1>4, <1>5, <1>6

\* The receive task reads the packet that is due.
LEMMA RingReads ==
    ASSUME RingTypes, RingInv, SeekHeader \/ SeekHeaderHigh \/ ReadHeader \/ SeekContent \/ SeekContentHigh \/ ReadContent
    PROVE  RingTypes' /\ RingInv'
<1> USE DEF RxAt, RxGoes, chip, blame, Works, Fails, FailsFor, RegisterWorks, RegisterFails
<1>0. /\ UNCHANGED <<packets, wr, rd, ptr, status>> /\ mishaps \subseteq mishaps'
      /\ rx \in {"header", "headerHigh", "readHeader", "content", "contentHigh", "readContent"}
      /\ rx' \in {"headerHigh", "readHeader", "content", "lost", "contentHigh", "readContent",
                  "free", "error"}
  BY DEF SeekHeader, SeekHeaderHigh, ReadHeader, SeekContent, SeekContentHigh, ReadContent
<1>1. /\ Unread' = Unread /\ (Astray => Astray') /\ (Present' <=> Present)
      /\ Pointer(ptr)' = Pointer(ptr) /\ Pointer(Advance(ptr, Rsv))' = Pointer(Advance(ptr, Rsv))
  BY <1>0 DEF Unread, Astray, Present, Advance, Pointer
<1>2. Ring(Unread, ptr, wr)' <=> Ring(Unread, ptr, wr)
  BY <1>0, <1>1
<1>3. ASSUME rx' = "error", rdpt' = rdpt PROVE RingTypes' /\ RingInv'
  BY <1>0, <1>3, RingLeaves
<1>p. /\ rdpt \in Pointers /\ Pointer(ptr) \in Pointers /\ Pointer(Advance(ptr, Rsv)) \in Pointers
      /\ Content = Pointer(Advance(ptr, Rsv))
  <2>1. ptr \in Addresses /\ Advance(ptr, Rsv) \in Addresses /\ PacketStart(ptr, Rsv) = Advance(ptr, Rsv)
    BY Around DEF RingTypes, Even
  <2> QED
    BY <2>1, PointerType DEF RingTypes, Content
<1>q. \A v \in Pointers :
         /\ [rdpt EXCEPT !.low = v.low] \in Pointers /\ [rdpt EXCEPT !.high = v.high] \in Pointers
         /\ [rdpt EXCEPT !.low = v.low].low = v.low
         /\ rdpt.low = v.low => [rdpt EXCEPT !.high = v.high] = v
  BY <1>p, PointerSet
<1>4. CASE SeekHeader \/ SeekHeaderHigh
  <2>1. CASE rx = "header" /\ rdpt' = [rdpt EXCEPT !.low = Pointer(ptr).low] /\ rx' = "headerHigh"
    <3>1. rdpt' \in Pointers /\ rdpt'.low = Pointer(ptr).low
      BY <1>p, <1>q, <2>1
    <3> QED
      BY <1>0, <1>1, <1>2, <2>1, <3>1 DEF RingTypes, RingInv, Reading
  <2>2. CASE rx = "headerHigh" /\ rdpt' = [rdpt EXCEPT !.high = Pointer(ptr).high] /\ rx' = "readHeader"
    <3>1. rdpt' \in Pointers /\ (rdpt.low = Pointer(ptr).low => rdpt' = Pointer(ptr))
      BY <1>p, <1>q, <2>2
    <3> QED
      BY <1>0, <1>1, <1>2, <2>2, <3>1 DEF RingTypes, RingInv, Reading
  <2> QED
    BY <1>3, <1>4, <2>1, <2>2 DEF SeekHeader, SeekHeaderHigh
<1>5. CASE ReadHeader
  <2>1. rx = "readHeader" /\ UNCHANGED <<rdpt, intact, mishaps>>
    BY <1>5 DEF ReadHeader
  <2>2. CASE rx' = "content" /\ Present
    BY <1>0, <1>1, <1>2, <2>1, <2>2 DEF RingTypes, RingInv, Reading
  <2>3. CASE rx' = "lost" /\ ~(rdpt = Pointer(ptr) /\ Present)
    <3>1. Astray
      <4>1. SUFFICES ASSUME ~Astray PROVE rdpt = Pointer(ptr) /\ Present
        BY <2>3
      <4>2. packets # <<>> /\ rdpt = Pointer(ptr) /\ Ring(packets, ptr, wr) /\ packets \in Seq(Places)
        BY <2>1, <4>1 DEF RingInv, Reading, Unread, RingTypes
      <4>3. 1 \in DOMAIN packets /\ packets[1].at = ptr
        BY <4>2, LenProperties, EmptySeq DEF Ring
      <4> QED
        BY <4>2, <4>3 DEF Present
    <3> QED
      BY <1>0, <1>1, <2>1, <2>3, <3>1 DEF RingTypes, RingInv
  <2> QED
    BY <1>3, <1>5, <2>2, <2>3 DEF ReadHeader
<1>6. CASE SeekContent \/ SeekContentHigh
  <2>0. UNCHANGED intact
    BY <1>6 DEF SeekContent, SeekContentHigh
  <2>1. CASE rx = "content" /\ rdpt' = [rdpt EXCEPT !.low = Content.low] /\ rx' = "contentHigh"
    <3>1. rdpt' \in Pointers /\ rdpt'.low = Pointer(Advance(ptr, Rsv)).low
      BY <1>p, <1>q, <2>1
    <3> QED
      BY <1>0, <1>1, <1>2, <2>0, <2>1, <3>1 DEF RingTypes, RingInv, Reading
  <2>2. CASE rx = "contentHigh" /\ rdpt' = [rdpt EXCEPT !.high = Content.high] /\ rx' = "readContent"
    <3>1. /\ rdpt' \in Pointers
          /\ rdpt.low = Pointer(Advance(ptr, Rsv)).low => rdpt' = Pointer(Advance(ptr, Rsv))
      BY <1>p, <1>q, <2>2
    <3> QED
      BY <1>0, <1>1, <1>2, <2>0, <2>2, <3>1 DEF RingTypes, RingInv, Reading
  <2> QED
    BY <1>3, <1>6, <2>1, <2>2 DEF SeekContent, SeekContentHigh
<1>7. CASE ReadContent
  <2>1. rx = "readContent" /\ UNCHANGED <<rdpt, mishaps>>
    BY <1>7 DEF ReadContent
  <2>2. CASE intact' = (rdpt = Pointer(Advance(ptr, Rsv))) /\ rx' = "free"
    BY <1>0, <1>1, <1>2, <2>1, <2>2 DEF RingTypes, RingInv, Reading
  <2> QED
    BY <1>3, <1>7, <2>1, <2>2 DEF ReadContent
<1> QED
  BY <1>4, <1>5, <1>6, <1>7

\* The receive task gives the place of the packet back, counts the packet off, and hands it on.
LEMMA RingReleases ==
    ASSUME RingTypes, BankKnown, RingInv, FreeSpace \/ CountOff \/ Deliver
    PROVE  RingTypes' /\ RingInv'
<1> USE DEF RxAt, RxGoes, chip, blame, Works, Fails, FailsFor, RegisterWorks, RegisterFails
<1>1. CASE FreeSpace
  <2>1. UNCHANGED <<packets, wr, rdpt, status, intact>> /\ rx = "free" /\ mishaps \subseteq mishaps'
    BY <1>1 DEF FreeSpace
  <2>2. CASE rx' = "error" /\ UNCHANGED <<rd, ptr>>
    BY <2>1, <2>2, RingLeaves
  <2>3. CASE rd' = AlignOdd(Due.next) /\ ptr' = Due.next /\ rx' = "count"
    <3>1. packets # <<>> /\ Due.next \in Even /\ (Ring(packets, ptr, wr) => Due = Head(packets))
      BY <2>1, DueIsThere, PlaceFields DEF RingTypes
    <3>2. RingTypes'
      BY <2>1, <2>3, <3>1 DEF RingTypes
    <3>3. CASE Astray
      BY <2>1, <3>2, <3>3 DEF RingInv, Astray
    <3>4. CASE ~Astray
      <4>1. Ring(packets, ptr, wr) /\ intact
        BY <2>1, <3>4 DEF RingInv, Reading, Unread
      <4>2. Ring(Tail(packets), Due.next, wr)
        BY <3>1, <4>1, RingTail
      <4>3. Ring(Unread, ptr, wr)'
        BY <2>1, <2>3, <4>2 DEF Unread
      <4> QED
        BY <2>1, <2>3, <3>1, <3>2, <4>1, <4>3 DEF RingInv, Reading
    <3> QED
      BY <3>3, <3>4
  <2> QED
    BY <1>1, <2>2, <2>3 DEF FreeSpace
<1>2. CASE CountOff
  <2>1. UNCHANGED <<wr, rd, rdpt, ptr, status, intact>> /\ rx = "count"
    BY <1>2 DEF CountOff
  <2>2. CASE packets' = Tail(packets) /\ rx' = "deliver" /\ UNCHANGED mishaps
    <3>1. CASE ~Astray
      <4>1. Ring(Tail(packets), ptr, wr) /\ intact /\ packets # <<>>
        BY <2>1, <3>1 DEF RingInv, Reading, Unread
      <4>2. Unread' = Tail(packets)
        BY <2>2 DEF Unread
      <4>3. RingTypes'
        BY <2>1, <2>2, <4>1 DEF RingTypes, Ring
      <4> QED
        BY <2>1, <2>2, <4>1, <4>2, <4>3 DEF RingInv, Reading
    <3>2. CASE Astray
      <4>1. Tail(packets) \in Seq(Places)
        BY <2>1, HeadTailProperties DEF RingTypes
      <4> QED
        BY <2>1, <2>2, <3>2, <4>1 DEF RingTypes, RingInv, Astray
    <3> QED
      BY <3>1, <3>2
  <2>3. CASE UNCHANGED packets /\ rx' = "error" /\ mishaps' = mishaps \cup {"dec"}
    BY <2>1, <2>3 DEF RingTypes, RingInv, Astray
  <2> QED
    BY <1>2, <2>2, <2>3 DEF CountOff
<1>3. CASE Deliver
  <2>1. UNCHANGED <<packets, wr, rd, rdpt, ptr, status>> /\ rx = "deliver" /\ mishaps \subseteq mishaps'
    BY <1>3 DEF Deliver
  <2>2. CASE rx' = "error"
    BY <2>1, <2>2, RingLeaves
  <2>3. CASE rx' = "alloc" /\ CountIs(TRUE)
    <3>1. Unread' = Unread /\ (Astray => Astray') /\ (~Astray => packets # <<>>)
      BY <2>1, <2>3, CountIsRight DEF Unread, Astray
    <3> QED
      BY <2>1, <2>3, <3>1 DEF RingTypes, RingInv, Reading
  <2>4. rx' = "error" \/ (rx' = "alloc" /\ CountIs(TRUE))
    BY <1>3 DEF Deliver
  <2> QED
    BY <2>2, <2>3, <2>4
<1> QED
  BY <1>1, <1>2, <1>3

\* emac_enc28j60_start sets the chip's pointer anew, which disturbs who reads.
LEMMA RingRewinds ==
    ASSUME RingTypes, RingInv, Rewind \/ RewindHigh
    PROVE  RingTypes' /\ RingInv'
<1>1. UNCHANGED <<packets, wr, rd, ptr, rx, status, intact>>
  BY DEF Rewind, RewindHigh, LinkGoes, receiver
<1>2. CASE UNCHANGED rdpt /\ mishaps \subseteq mishaps'
  BY <1>1, <1>2, RingFrame
<1>3. rdpt \in Pointers /\ Pointer(Start) \in Pointers
  BY PointerType DEF RingTypes, Addresses, Start, End
<1>4. ASSUME rdpt' \in Pointers, mishaps \subseteq mishaps',
             \/ Astray'
             \/ rdpt' = rdpt
             \/ rx \notin {"headerHigh", "readHeader", "contentHigh", "readContent"}
             \/ rx \notin {"readHeader", "readContent"} /\ rdpt'.low = rdpt.low
      PROVE  RingTypes' /\ RingInv'
  <2>1. /\ Unread' = Unread /\ (Astray => Astray') /\ (Present' <=> Present)
        /\ Pointer(ptr)' = Pointer(ptr) /\ Pointer(Advance(ptr, Rsv))' = Pointer(Advance(ptr, Rsv))
    BY <1>1, <1>4 DEF Unread, Astray, Present, Advance, Pointer
  <2> QED
    BY <1>1, <1>4, <2>1 DEF RingTypes, RingInv, Reading
<1>5. CASE /\ rdpt' = [rdpt EXCEPT !.low = Pointer(Start).low]
           /\ mishaps' = Disturbs({"headerHigh", "readHeader", "contentHigh", "readContent"},
                                  rdpt'.low # rdpt.low)
  <2>1. rdpt' \in Pointers /\ (rdpt'.low = rdpt.low => rdpt' = rdpt)
    BY <1>3, <1>5, PointerSet
  <2> QED
    BY <1>4, <1>5, <2>1 DEF Disturbs, Astray
<1>6. CASE /\ rdpt' = [rdpt EXCEPT !.high = Pointer(Start).high]
           /\ mishaps' = Disturbs({"readHeader", "readContent"}, rdpt'.high # rdpt.high)
  <2>1. rdpt' \in Pointers /\ rdpt'.low = rdpt.low /\ (rdpt'.high = rdpt.high => rdpt' = rdpt)
    BY <1>3, <1>6, PointerSet
  <2> QED
    BY <1>4, <1>6, <2>1 DEF Disturbs, Astray
<1> QED
  BY <1>2, <1>5, <1>6 DEF Rewind, RewindHigh, RegisterFails, Fails, FailsFor

\* Every step preserves the order of the ring and the driver's place in it.
LEMMA RingStep ==
    ASSUME SendTypes, BankKnown, RingTypes, RingInv, [Next]_vars
    PROVE  RingTypes' /\ RingInv'
<1> USE DEF Works, Fails, FailsFor, RegisterWorks, RegisterFails, chip, blame, receiver
<1>1. CASE TransmitEnds \/ CableChanges
  BY <1>1, RingFrame DEF TransmitEnds, CableChanges
<1>2. CASE HandleError \/ LookAtCollision \/ EnableAgain \/ Resend \/ ClearReady \/ GiveReady \/ Restore
  BY <1>2, RingLeaves DEF HandleError, LookAtCollision, EnableAgain, Resend, ClearReady, GiveReady, Restore,
                          RxAt, RxGoes
<1>3. CASE Sender
  BY <1>3, RingFrame DEF Sender, TakeReady, CheckIdle, WriteFrame, ClearFlag, EnableTx, Send, TxGoes
<1>4. CASE Poll \/ SetDuplex \/ ClearFlags \/ EnableInterrupts \/ Listen \/ DisableInterrupts \/ Deafen
  BY <1>4, RingFrame DEF Poll, SetDuplex, ClearFlags, EnableInterrupts, Listen, DisableInterrupts, Deafen,
                         LinkGoes
<1>5. CASE UNCHANGED vars
  BY <1>5, RingFrame DEF vars
<1> QED
  BY <1>1, <1>2, <1>3, <1>4, <1>5, RingArrives, RingFinds, RingReads, RingReleases, RingRewinds
     DEF Next, Receiver, Linker

LEMMA RingAlways == Spec => [](RingTypes /\ RingInv)
<1>1. Init => RingTypes /\ RingInv
  <2> SUFFICES ASSUME Init PROVE RingTypes /\ RingInv
    OBVIOUS
  <2>1. /\ packets = <<>> /\ wr = Start /\ ptr = Start /\ rdpt = Pointer(Start) /\ rd = AlignOdd(Start)
        /\ rx = "wait"
    BY DEF Init
  <2>2. Start \in Even /\ Start \in Addresses /\ From(Start, Start) = 0
    BY DEF Start, Even, Addresses, End, From
  <2>3. <<>> \in Seq(Places) /\ Len(<<>>) = 0
    BY EmptySeq
  <2>4. 0 <= RxSize - 2
    OBVIOUS
  <2>5. Ring(<<>>, Start, Start)
    BY <2>2, <2>3, <2>4 DEF Ring
  <2> QED
    BY <2>1, <2>2, <2>3, <2>5, PointerType DEF RingTypes, RingInv, Reading, Unread
<1>2. SendTypes /\ BankKnown /\ RingTypes /\ RingInv /\ [Next]_vars => RingTypes' /\ RingInv'
  BY RingStep
<1> QED
  BY <1>1, <1>2, SendTypesHold, BankIsKnown, PTL DEF Spec

(* next_packet_ptr is the address of the oldest packet that was not read, or of the   *)
(* next to arrive, wherever the ring wraps and whatever fails, except for the three    *)
(* mishaps from which the driver does not recover.                                   *)
THEOREM DriverInStep == Spec => []InStep
<1>1. RingTypes /\ RingInv => InStep
  BY HeadTailProperties DEF RingTypes, RingInv, InStep, Ring, Unread
<1> QED
  BY <1>1, RingAlways, PTL

(* What the stack gets is a packet, read from its first byte, also if it wraps around  *)
(* the end of the ring, and while the link is started anew.                           *)
THEOREM FramesAreIntact == Spec => []FramesIntact
<1>1. RingInv => FramesIntact
  BY DEF RingInv, Reading, FramesIntact
<1> QED
  BY <1>1, RingAlways, PTL
-----------------------------------------------------------------------------
(* Types. What is left of them are the enables, the banks, the link and the Booleans. *)

LEMMA EnablesStep == ASSUME eie \subseteq Enables, [Next]_vars PROVE eie' \subseteq Enables
  BY ZenonT(60) DEF Arrive, TransmitEnds, CableChanges, Wake, ReadFlags, ReadMask, ReadCount,
               Alloc, AllocFails, SeekHeader, SeekHeaderHigh, ReadHeader, SeekContent, SeekContentHigh, ReadContent, FreeSpace, CountOff,
               Deliver, HandleError, LookAtCollision, EnableAgain, Resend, ClearReady, GiveReady, Restore,
               TakeReady, CheckIdle, WriteFrame, ClearFlag, EnableTx, Send, Poll, SetDuplex, ClearFlags,
               EnableInterrupts, Listen, Rewind, RewindHigh, Disturbs, DisableInterrupts, Deafen, Next, Receiver, Sender, Linker,
               vars, chip, receiver, linker, sender, banks, blame, RxGoes, TxGoes, LinkGoes, Enables, Flags

LEMMA LinkStep == ASSUME link \in LinkPlaces, [Next]_vars PROVE link' \in LinkPlaces
  BY ZenonT(60) DEF Arrive, TransmitEnds, CableChanges, Wake, ReadFlags, ReadMask, ReadCount,
               Alloc, AllocFails, SeekHeader, SeekHeaderHigh, ReadHeader, SeekContent, SeekContentHigh, ReadContent, FreeSpace, CountOff,
               Deliver, HandleError, LookAtCollision, EnableAgain, Resend, ClearReady, GiveReady, Restore,
               TakeReady, CheckIdle, WriteFrame, ClearFlag, EnableTx, Send, Poll, SetDuplex, ClearFlags,
               EnableInterrupts, Listen, Rewind, RewindHigh, Disturbs, DisableInterrupts, Deafen, Next, Receiver, Sender, Linker,
               vars, chip, receiver, linker, sender, banks, blame, RxGoes, TxGoes, LinkGoes, LinkPlaces

\* A step has one more failure or none, and counts it only below the bound.
LEMMA FaultsStep == ASSUME faults \in 0..MaxFaults, [Next]_vars PROVE faults' \in 0..MaxFaults
<1>1. faults' = faults \/ (faults < MaxFaults /\ faults' = faults + 1)
  BY ZenonT(60) DEF Arrive, TransmitEnds, CableChanges, Wake, ReadFlags, ReadMask, ReadCount,
               Alloc, AllocFails, SeekHeader, SeekHeaderHigh, ReadHeader, SeekContent, SeekContentHigh, ReadContent, FreeSpace, CountOff,
               Deliver, HandleError, LookAtCollision, EnableAgain, Resend, ClearReady, GiveReady, Restore,
               TakeReady, CheckIdle, WriteFrame, ClearFlag, EnableTx, Send, Poll, SetDuplex, ClearFlags,
               EnableInterrupts, Listen, Rewind, RewindHigh, Disturbs, DisableInterrupts, Deafen, Next, Receiver, Sender, Linker,
               vars, chip, receiver, linker, sender, banks, blame, RxGoes, TxGoes, LinkGoes,
               Works, Fails, FailsFor, RegisterWorks, RegisterFails
<1> QED
  BY <1>1

LEMMA MishapsStep == ASSUME mishaps \subseteq Mishaps, [Next]_vars PROVE mishaps' \subseteq Mishaps
  BY ZenonT(60) DEF Arrive, TransmitEnds, CableChanges, Wake, ReadFlags, ReadMask, ReadCount,
               Alloc, AllocFails, SeekHeader, SeekHeaderHigh, ReadHeader, SeekContent, SeekContentHigh, ReadContent, FreeSpace, CountOff,
               Deliver, HandleError, LookAtCollision, EnableAgain, Resend, ClearReady, GiveReady, Restore,
               TakeReady, CheckIdle, WriteFrame, ClearFlag, EnableTx, Send, Poll, SetDuplex, ClearFlags,
               EnableInterrupts, Listen, Rewind, RewindHigh, Disturbs, DisableInterrupts, Deafen, Next, Receiver, Sender, Linker,
               vars, chip, receiver, linker, sender, banks, blame, RxGoes, TxGoes, LinkGoes,
               Works, Fails, FailsFor, RegisterWorks, RegisterFails, Mishaps

BankTypes == bank \in 0..3 /\ lastBank \in 0..3

LEMMA RegisterTypes ==
    ASSUME BankTypes, NEW b \in 0..3, RegisterWorks(b) \/ RegisterFails(b)
    PROVE  BankTypes'
  BY DEF BankTypes, RegisterWorks, RegisterFails, banks

LEMMA BanksStep == ASSUME BankTypes, [Next]_vars PROVE BankTypes'
<1>1. CASE UNCHANGED banks
  BY <1>1 DEF BankTypes, banks
<1>2. CASE \E b \in 0..3 : RegisterWorks(b) \/ RegisterFails(b)
  BY <1>2, RegisterTypes
<1>3. 0 \in 0..3 /\ 1 \in 0..3 /\ 2 \in 0..3 /\ 3 \in 0..3
  OBVIOUS
<1>4. CASE \/ Arrive \/ TransmitEnds \/ CableChanges \/ Wake \/ ReadFlags \/ ReadMask \/ Alloc \/ AllocFails
           \/ ReadHeader \/ ReadContent \/ CountOff \/ HandleError \/ EnableAgain \/ Resend \/ ClearReady
           \/ GiveReady \/ Restore \/ TakeReady \/ CheckIdle \/ ClearFlag \/ EnableTx \/ Send \/ ClearFlags
           \/ EnableInterrupts \/ Listen \/ DisableInterrupts \/ Deafen \/ UNCHANGED vars
  BY <1>1, <1>4 DEF Arrive, TransmitEnds, CableChanges, Wake, ReadFlags, ReadMask, Alloc, AllocFails, ReadHeader,
         ReadContent, CountOff, HandleError, EnableAgain, Resend, ClearReady, GiveReady, Restore, TakeReady,
         CheckIdle, ClearFlag, EnableTx, Send, ClearFlags, EnableInterrupts, Listen, DisableInterrupts, Deafen, vars
<1>5. CASE ReadCount \/ SeekHeader \/ SeekHeaderHigh \/ SeekContent \/ SeekContentHigh \/ FreeSpace \/ Deliver \/ WriteFrame \/ SetDuplex
  BY <1>2, <1>3, <1>5 DEF ReadCount, SeekHeader, SeekHeaderHigh, SeekContent, SeekContentHigh, FreeSpace, Deliver, WriteFrame, SetDuplex
<1>6. CASE LookAtCollision
  BY <1>1, <1>2, <1>3, <1>6 DEF LookAtCollision
<1>7. CASE Rewind \/ RewindHigh
  BY <1>1, <1>2, <1>3, <1>7, RegisterTypes DEF Rewind, RewindHigh, BankTypes
<1>8. CASE Poll
  BY <1>1, <1>2, <1>3, <1>8, RegisterTypes DEF Poll, BankTypes
<1> QED
  BY <1>4, <1>5, <1>6, <1>7, <1>8 DEF Next, Receiver, Sender, Linker

Switches == {rxen, txrts, cable, remain, txReady, up, intact} \subseteq BOOLEAN

LEMMA SwitchesStep == Switches /\ [Next]_vars => Switches'
<1> SUFFICES ASSUME Switches, [Next]_vars PROVE Switches'
  OBVIOUS
<1> USE DEF Switches, chip, receiver, linker, RxGoes
<1>1. CASE Arrive \/ TransmitEnds \/ CableChanges
  BY <1>1, Zenon DEF Arrive, TransmitEnds, CableChanges
<1>2. CASE Wake \/ ReadFlags \/ ReadMask \/ ReadCount \/ Alloc \/ AllocFails
  BY <1>2, Zenon DEF Wake, ReadFlags, ReadMask, ReadCount, Alloc, AllocFails
<1>3. CASE SeekHeader \/ SeekHeaderHigh \/ ReadHeader \/ SeekContent \/ SeekContentHigh \/ ReadContent \/ FreeSpace \/ CountOff \/ Deliver
  BY <1>3, Zenon DEF SeekHeader, SeekHeaderHigh, ReadHeader, SeekContent, SeekContentHigh, ReadContent, FreeSpace, CountOff, Deliver
<1>4. CASE HandleError \/ LookAtCollision \/ EnableAgain \/ Resend
  BY <1>4, Zenon DEF HandleError, LookAtCollision, EnableAgain, Resend
<1>5. CASE ClearReady \/ GiveReady \/ Restore
  BY <1>5, Zenon DEF ClearReady, GiveReady, Restore
<1>6. CASE Sender
  BY <1>6, Zenon DEF Sender, TakeReady, CheckIdle, WriteFrame, ClearFlag, EnableTx, Send, TxGoes
<1>7. CASE Linker
  BY <1>7, Zenon DEF Linker, Poll, SetDuplex, ClearFlags, EnableInterrupts, Listen, Rewind, RewindHigh, Disturbs, DisableInterrupts,
              Deafen, LinkGoes
<1>8. CASE UNCHANGED vars
  BY <1>8, Zenon DEF vars
<1> QED
  BY <1>1, <1>2, <1>3, <1>4, <1>5, <1>6, <1>7, <1>8 DEF Next, Receiver

LEMMA SeqOfMore ==
    ASSUME NEW S, NEW T, S \subseteq T, NEW q \in Seq(S)
    PROVE  q \in Seq(T)
  BY SeqDef

(* Every variable stays in its domain, the chip's pointers in the ring and at the       *)
(* parity the chip demands.                                                         *)
THEOREM DriverTypes == Spec => []TypeOK
<1> DEFINE Rest == /\ eie \subseteq Enables /\ link \in LinkPlaces /\ faults \in 0..MaxFaults
                   /\ mishaps \subseteq Mishaps /\ BankTypes
<1>1. Init => Rest
  BY DEF Init, BankTypes, LinkPlaces
<1>2. Init => Switches
  BY Zenon DEF Init, Switches
<1>3. Rest /\ [Next]_vars => Rest'
  BY EnablesStep, LinkStep, FaultsStep, MishapsStep, BanksStep
<1>4. RingTypes /\ SendTypes /\ Rest /\ Switches => TypeOK
  <2> SUFFICES ASSUME RingTypes, SendTypes, Rest, Switches PROVE TypeOK
    OBVIOUS
  <2>1. packets \in Seq([at : Addresses, next : Addresses])
    <3>1. Places \subseteq [at : Addresses, next : Addresses]
      BY DEF Places, Even
    <3> QED
      BY <3>1, SeqOfMore DEF RingTypes
  <2>2. wr \in Addresses /\ wr % 2 = 0 /\ ptr \in Addresses /\ rd \in Addresses /\ rd % 2 = 1
    BY Before DEF RingTypes, Even
  <2> QED
    BY <2>1, <2>2, Zenon DEF RingTypes, SendTypes, Switches, TypeOK, Ends, BankTypes, Pointers
<1> HIDE DEF Rest
<1> QED
  BY <1>1, <1>2, <1>3, <1>4, SwitchesStep, RingAlways, SendTypesHold, PTL DEF Spec
=============================================================================
