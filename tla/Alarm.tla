------------------------------- MODULE Alarm -------------------------------
(***************************************************************************)
(* From a fall to the red light: the fall detection thread (FallThread),   *)
(* the LED thread and the voice thread (LedThread) of main.c, which share  *)
(* the semaphore fall_detected_sem.                                        *)
(***************************************************************************)
EXTENDS LedThread

fallOnly == <<now, pc, acc, gyro, last_trigger_time, lastAt>>
vars == <<ledVars, fallOnly>>

Init == FallInit /\ LedInit

Next ==
    \/ FallNext /\ UNCHANGED <<led, voice>>
    \/ LedNext /\ UNCHANGED fallOnly

\* The LED thread has the lowest priority, but the others sleep most of the
\* time: it always gets to run.
Spec == Init /\ [][Next]_vars /\ WF_vars(Led /\ UNCHANGED fallOnly)
-----------------------------------------------------------------------------
\* Once there was a response to a fall the strip ends up blinking red, and
\* nothing that is said to the voice thread puts an end to it.
AlarmBlinks ==
    lastAt # -1 ~> []( /\ shown \in {"red", "black"}
                       /\ <>(shown = "red") /\ <>(shown = "black"))

\* A call for help is shown, unless an emergency is.
HelpShown == askhelp_mode = 1 ~> (shown = "blue" \/ emergency_mode = 1)
=============================================================================
