----------------------------- MODULE LedThread -----------------------------
(***************************************************************************)
(* led_control_thread_entry and voice_command_thread_entry of main.c.  The *)
(* LED thread, the one with the lowest priority, takes the semaphore that  *)
(* trigger_emergency_response (FallThread) releases and chooses what the   *)
(* strip shows; the voice thread sets the modes it chooses by.             *)
(***************************************************************************)
EXTENDS FallThread, Sequences

CONSTANTS
    Uart3Found,     \* does rt_device_find("uart3") find a device?
    BrightSteps     \* steps of the breathing light from dark to bright: 20, as
                    \* 20 additions of 0.05f reach 1.0f and 20 subtractions 0

ASSUME LedAssumption == Uart3Found \in BOOLEAN /\ BrightSteps \in Nat \ {0}

VARIABLES
    ledpc,                    \* where the LED thread is
    emergency_mode, led_state,\* its local variables
    brightness, step,         \* its static variables, in steps
    shown,                    \* colour of the strip
    voicepc,                  \* where the voice thread is
    light_mode, askhelp_mode, vl53l0_mode   \* the modes it sets

led == <<ledpc, emergency_mode, led_state, brightness, step, shown>>
voice == <<voicepc, light_mode, askhelp_mode, vl53l0_mode>>
ledVars == <<fall_detected_sem, led, voice>>

LedInit ==
    /\ ledpc = "take" /\ emergency_mode = 0 /\ led_state = 0
    /\ brightness = 0 /\ step = 1 /\ shown = "black"
    /\ voicepc = "start" /\ light_mode = 0 /\ askhelp_mode = 0 /\ vl53l0_mode = 0
-----------------------------------------------------------------------------
(***************************************************************************)
(* The voice thread.                                                       *)
(***************************************************************************)

\* It returns at once if its device does not exist.
VoiceOpen ==
    /\ voicepc = "start"
    /\ voicepc' = IF Uart3Found THEN "run" ELSE "returned"
    /\ UNCHANGED <<light_mode, askhelp_mode, vl53l0_mode, led, fall_detected_sem>>

Command == {"on", "off", "help", "navigate", "stop"}

\* The order in which the thread looks for the commands in what it has read: of
\* several commands in one buffer it executes the first in this order.
Tries == <<"on", "off", "help", "navigate", "stop">>
IsFirst(c, heard) ==
    \E k \in 1..Len(Tries) : Tries[k] = c /\ c \in heard /\ \A j \in 1..(k - 1) : Tries[j] \notin heard

\* One read with the commands heard in it, of which c is executed.
VoiceCommand(c, heard) ==
    /\ voicepc = "run" /\ IsFirst(c, heard)
    /\ light_mode' = IF c = "on" THEN 1 ELSE IF c = "off" THEN 0 ELSE light_mode
    /\ askhelp_mode' = IF c = "help" THEN 1 ELSE askhelp_mode
    /\ vl53l0_mode' = IF c = "navigate" THEN 1 ELSE IF c = "stop" THEN 0 ELSE vl53l0_mode
    /\ UNCHANGED <<voicepc, led, fall_detected_sem>>
-----------------------------------------------------------------------------
(***************************************************************************)
(* The LED thread.                                                         *)
(***************************************************************************)

\* Mutant: the mode follows the semaphore instead of staying.
TryTake_NotLatched ==
    /\ ledpc = "take"
    /\ IF fall_detected_sem > 0
       THEN fall_detected_sem' = fall_detected_sem - 1 /\ emergency_mode' = 1
       ELSE emergency_mode' = 0 /\ UNCHANGED fall_detected_sem
    /\ ledpc' = "emergency"
    /\ UNCHANGED <<led_state, brightness, step, shown, voice>>

\* rt_sem_trytake.
TryTake ==
    /\ ledpc = "take"
    /\ IF fall_detected_sem > 0
       THEN fall_detected_sem' = fall_detected_sem - 1 /\ emergency_mode' = 1
       ELSE UNCHANGED <<fall_detected_sem, emergency_mode>>
    /\ ledpc' = "emergency"
    /\ UNCHANGED <<led_state, brightness, step, shown, voice>>

\* The strip blinks in a colour: led_state is shared by both blinking modes.
Blink(colour) ==
    /\ led_state' = 1 - led_state
    /\ shown' = IF led_state' = 1 THEN colour ELSE "black"
    /\ ledpc' = "take"
    /\ UNCHANGED <<emergency_mode, brightness, step, voice, fall_detected_sem>>

\* if (emergency_mode)
Emergency == ledpc = "emergency" /\ emergency_mode = 1 /\ Blink("red")

\* Mutant: the help branch also wants the light to be off.
Help_LightOff ==
    ledpc = "emergency" /\ emergency_mode = 0 /\ askhelp_mode = 1 /\ light_mode = 0 /\ Blink("blue")

\* else if (askhelp_mode)
Help == ledpc = "emergency" /\ emergency_mode = 0 /\ askhelp_mode = 1 /\ Blink("blue")
NoHelp ==
    /\ ledpc = "emergency" /\ emergency_mode = 0 /\ askhelp_mode = 0
    /\ ledpc' = "light"
    /\ UNCHANGED <<emergency_mode, led_state, brightness, step, shown, voice, fall_detected_sem>>

\* else if (light_mode)
Light ==
    /\ ledpc = "light" /\ light_mode = 1
    /\ shown' = "white" /\ ledpc' = "take"
    /\ UNCHANGED <<emergency_mode, led_state, brightness, step, voice, fall_detected_sem>>

\* The breathing light turns at both ends.
Turns(b) == b >= BrightSteps \/ b <= 0

\* else: breathing green.
Breathe ==
    /\ ledpc = "light" /\ light_mode = 0
    /\ brightness' = brightness + step
    /\ step' = IF Turns(brightness') THEN -step ELSE step
    /\ shown' = "green" /\ ledpc' = "take"
    /\ UNCHANGED <<emergency_mode, led_state, voice, fall_detected_sem>>

Led == TryTake \/ Emergency \/ Help \/ NoHelp \/ Light \/ Breathe
Voice == VoiceOpen \/ \E c \in Command, heard \in SUBSET Command : VoiceCommand(c, heard)

LedNext == Led \/ Voice
-----------------------------------------------------------------------------
\* Types of the two threads' variables; the brightness, an unsigned char when
\* it is sent to the strip, stays in its range whatever interrupts the
\* breathing.
LedTypeOK ==
    /\ ledpc \in {"take", "emergency", "light"} /\ emergency_mode \in {0, 1}
    /\ led_state \in {0, 1} /\ brightness \in 0..BrightSteps /\ step \in {-1, 1}
    /\ shown \in {"red", "blue", "white", "green", "black"}
    /\ voicepc \in {"start", "run", "returned"}
    /\ light_mode \in {0, 1} /\ askhelp_mode \in {0, 1} /\ vl53l0_mode \in {0, 1}
=============================================================================
