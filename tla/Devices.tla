------------------------------ MODULE Devices ------------------------------
(***************************************************************************)
(* The small devices in one gateway: their tasks run independently of each   *)
(* other, and a restart (softWD, restartDaily, or a task that returns for     *)
(* lack of memory, upon which FreeRTOS aborts) resets all of them.           *)
(***************************************************************************)
EXTENDS Integers, Sequences

CONSTANTS
    ActiveLow,   \* RELAY_INVERSE_CONTROL
    RxSize,      \* the UART driver's buffer, BUF_SIZE * 2
    ReadSize,    \* the most the scanner reads at once, BUF_SIZE - 1
    MaxBytes     \* bound: bytes scanned between two restarts

ASSUME DevicesAssumption ==
    /\ ActiveLow \in BOOLEAN
    /\ RxSize \in Nat \ {0}
    /\ ReadSize \in Nat \ {0}
    /\ MaxBytes \in Nat

VARIABLES state, level, setting,              \* Relay
          high, stat, tpc, released,          \* Trigger
          arrived, rx, data, sent, overrun    \* Scanner

R == INSTANCE Relay
T == INSTANCE Trigger
S == INSTANCE Scanner

relayVars == <<state, level, setting>>
triggerVars == <<high, stat, tpc, released>>
scannerVars == <<arrived, rx, data, sent, overrun>>
devicesVars == <<relayVars, triggerVars, scannerVars>>

DevicesInit == R!Init /\ T!Init /\ S!Init

RelayStep == R!Next /\ UNCHANGED <<triggerVars, scannerVars>>
TriggerTask == T!Task /\ UNCHANGED <<relayVars, scannerVars>>
TriggerInput == T!InputChanges /\ UNCHANGED <<relayVars, scannerVars>>
ScannerStep == S!Next /\ UNCHANGED <<relayVars, triggerVars>>

RestartAll == R!Reset /\ T!Reset /\ S!Reset

DevicesNext == RelayStep \/ TriggerTask \/ TriggerInput \/ ScannerStep \/ RestartAll

\* The trigger's task is ready again after every delay.
DevicesSpec == DevicesInit /\ [][DevicesNext]_devicesVars /\ WF_devicesVars(TriggerTask)
-----------------------------------------------------------------------------
\* Every device's variables stay in their domains.
DevicesTypeOK == R!TypeOK /\ T!TypeOK /\ S!TypeOK

\* Relay: the contact is closed only while that is what GET_STATUS reports.
ClosedIsReported == R!ClosedIsReported

\* Trigger: an impulse is reported once.
ReadyMeansReleased == T!ReadyMeansReleased

\* Scanner: clients hear every byte once and in order.
NothingLostOrSwapped == S!NothingLostOrSwapped
=============================================================================
