------------------------------ MODULE Trigger ------------------------------
(***************************************************************************)
(* triggerTask samples the input every 10 ticks and reports an IMPULSE when  *)
(* it is pulled low. One round reads the level twice: once to report, and, if *)
(* that did not happen, once more to find that the input is back.            *)
(***************************************************************************)
VARIABLES high,       \* the level of TRIGGER_PIN (pulled up)
          stat,       \* triggerStat: this impulse has been reported
          tpc,        \* "first" or "second" read, or "delay"
          released    \* history: nothing reported, or the input was high since

triggerVars == <<high, stat, tpc, released>>

Init == high \in BOOLEAN /\ stat = FALSE /\ tpc = "first" /\ released = TRUE

InputChanges == /\ high' = ~high
                /\ released' = (released \/ high')
                /\ UNCHANGED <<stat, tpc>>

DelayEnds == /\ tpc = "delay"
             /\ tpc' = "first"
             /\ UNCHANGED <<high, stat, released>>

Report == /\ tpc = "first"
          /\ ~high /\ ~stat
          /\ stat' = TRUE
          /\ tpc' = "delay"
          /\ released' = FALSE
          /\ UNCHANGED high

FirstRead == /\ tpc = "first"
             /\ high \/ stat
             /\ tpc' = "second"
             /\ UNCHANGED <<high, stat, released>>

\* Mutant of SecondRead: the else-branch lost its condition.
SecondReadAlways == /\ tpc = "second"
                    /\ stat' = FALSE
                    /\ tpc' = "delay"
                    /\ UNCHANGED <<high, released>>

SecondRead == /\ tpc = "second"
              /\ stat' = (stat /\ ~high)
              /\ tpc' = "delay"
              /\ UNCHANGED <<high, released>>

Reset == /\ stat' = FALSE /\ tpc' = "first" /\ released' = TRUE
         /\ UNCHANGED high

Task == DelayEnds \/ Report \/ FirstRead \/ SecondRead

Next == InputChanges \/ Task

Spec == Init /\ [][Next]_triggerVars
-----------------------------------------------------------------------------
\* Every variable stays in its domain.
TypeOK == /\ high \in BOOLEAN /\ stat \in BOOLEAN /\ released \in BOOLEAN
          /\ tpc \in {"delay", "first", "second"}

(* One impulse is reported once: triggerTask is ready to report only if the    *)
(* input was released after the last report, however the level changes         *)
(* between the two reads of a round.                                          *)
ReadyMeansReleased == ~stat => released
=============================================================================
