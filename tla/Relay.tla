------------------------------- MODULE Relay -------------------------------
(***************************************************************************)
(* The relay: relayHandleCommand sets relayState and then the pin, in the   *)
(* httpd task; softWD sets the pin in its own task every 30 s, without       *)
(* looking at relayState. With RELAY_INVERSE_CONTROL the pin is active low.  *)
(***************************************************************************)
CONSTANT ActiveLow   \* RELAY_INVERSE_CONTROL, a Boolean

VARIABLES state,     \* relayState, which GET_STATUS reports
          level,     \* the level of RELAY_PIN
          setting    \* SET_STATE has set relayState and not the pin yet

relayVars == <<state, level, setting>>

\* gpio_set_level(RELAY_PIN, ...) for a relay that is to be on or off
LevelFor(on) == IF ActiveLow THEN ~on ELSE on

\* The contact is closed.
Energised == level = LevelFor(TRUE)

\* initRelay
Init == state = FALSE /\ level = LevelFor(FALSE) /\ setting = FALSE

\* SET_STATE: a "state" that is missing or no boolean counts as false.
SetState(on) == /\ ~setting
                /\ state' = on
                /\ setting' = TRUE
                /\ UNCHANGED level

SetPin == /\ setting
          /\ level' = LevelFor(state)
          /\ setting' = FALSE
          /\ UNCHANGED state

\* Mutant of WatchdogResetsPin: it writes zero whatever the polarity.
WatchdogClearsPin == /\ level' = FALSE
                     /\ UNCHANGED <<state, setting>>

WatchdogResetsPin == /\ level' = LevelFor(FALSE)
                     /\ UNCHANGED <<state, setting>>

Reset == state' = FALSE /\ level' = LevelFor(FALSE) /\ setting' = FALSE

Next == \/ \E on \in BOOLEAN : SetState(on)
        \/ SetPin \/ WatchdogResetsPin

Spec == Init /\ [][Next]_relayVars
-----------------------------------------------------------------------------
\* Every variable stays in its domain.
TypeOK == state \in BOOLEAN /\ level \in BOOLEAN /\ setting \in BOOLEAN

(* Whatever the watchdog does to the pin and whenever, the contact is closed  *)
(* only while GET_STATUS says so, or for the moment in which a command to      *)
(* open it is being carried out.                                              *)
ClosedIsReported == Energised => (state \/ setting)
=============================================================================
