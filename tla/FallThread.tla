----------------------------- MODULE FallThread -----------------------------
(***************************************************************************)
(* fall_detection_thread_entry of main.c: read_imu_data, the threshold     *)
(* test of run_fall_detection_algorithm, and trigger_emergency_response    *)
(* with its minimum distance between two responses, measured in ticks of a *)
(* 32-bit counter that wraps.                                              *)
(*                                                                         *)
(* A sample is the raw 16-bit words of the sensor, which getWT61C scales   *)
(* to 16 g and 2000 degrees/s; the thresholds 30 g and 300 degrees/s are   *)
(* given in the same raw unit.                                             *)
(***************************************************************************)
EXTENDS Integers

CONSTANTS
    AccMax, AccLimit,       \* full scale and threshold: 32768 and 61440
    GyroMax, GyroLimit,     \* 32768 and 4915
    AccSamples, GyroSamples,\* samples the sensor may deliver
    TickMod,                \* 2^32, rt_tick_t wraps
    Gap,                    \* RT_TICK_PER_SECOND * 5
    SemMax,                 \* RT_SEM_VALUE_MAX, 65535
    MaxTime                 \* bound: ticks of time

Axes == 1..3
Words(max) == [Axes -> (-max)..(max - 1)]

ASSUME ScaleAssumption ==
    /\ AccMax \in Nat /\ AccLimit \in Nat /\ GyroMax \in Nat /\ GyroLimit \in Nat
    /\ AccSamples \subseteq Words(AccMax) /\ GyroSamples \subseteq Words(GyroMax)

ASSUME TickAssumption ==
    /\ Gap \in Nat \ {0} /\ TickMod \in Nat /\ Gap < TickMod
    /\ SemMax \in Nat \ {0} /\ MaxTime \in Nat

VARIABLES
    now,                 \* time since the start of the scheduler, in ticks
    pc,                  \* where the thread is
    acc, gyro,           \* its sample
    last_trigger_time,   \* the static variable of trigger_emergency_response
    fall_detected_sem,   \* value of the semaphore
    lastAt               \* history: time of the last response, -1 before it

fallVars == <<now, pc, acc, gyro, last_trigger_time, fall_detected_sem, lastAt>>

Still == [k \in Axes |-> 0]

FallInit ==
    /\ now = 0 /\ pc = "read" /\ acc = Still /\ gyro = Still
    /\ last_trigger_time = 0 /\ fall_detected_sem = 0 /\ lastAt = -1
-----------------------------------------------------------------------------
\* rt_tick_get.
rt_tick_get == now % TickMod

\* The square of a magnitude; sqrtf and the scaling are monotone, so that
\* comparing squares of raw words decides as the code does.
Square(v) == v[1] * v[1] + v[2] * v[2] + v[3] * v[3]

\* run_fall_detection_algorithm.
run_fall_detection_algorithm(a, g) ==
    Square(a) > AccLimit * AccLimit /\ Square(g) > GyroLimit * GyroLimit

\* Time passes.
Tick ==
    /\ now < MaxTime
    /\ now' = now + 1
    /\ UNCHANGED <<pc, acc, gyro, last_trigger_time, fall_detected_sem, lastAt>>

\* read_imu_data.
Read ==
    /\ pc = "read"
    /\ acc' \in AccSamples /\ gyro' \in GyroSamples
    /\ pc' = "run"
    /\ UNCHANGED <<now, last_trigger_time, fall_detected_sem, lastAt>>

\* The test; the thread sleeps if there is no fall.
Run ==
    /\ pc = "run"
    /\ pc' = IF run_fall_detection_algorithm(acc, gyro) THEN "respond" ELSE "read"
    /\ UNCHANGED <<now, acc, gyro, last_trigger_time, fall_detected_sem, lastAt>>

\* Mutant: a comparison of absolute times instead of a difference.
TooSoon_Absolute(t) == t < (last_trigger_time + Gap) % TickMod

\* now - last_trigger_time < RT_TICK_PER_SECOND * 5, in unsigned arithmetic.
TooSoon(t) == (t - last_trigger_time) % TickMod < Gap

\* trigger_emergency_response within the minimum distance: nothing happens.
Suppress ==
    /\ pc = "respond" /\ TooSoon(rt_tick_get)
    /\ pc' = "read"
    /\ UNCHANGED <<now, acc, gyro, last_trigger_time, fall_detected_sem, lastAt>>

\* Otherwise it notes the time and releases the semaphore, which fails at
\* RT_SEM_VALUE_MAX ...
Respond ==
    /\ pc = "respond" /\ ~ TooSoon(rt_tick_get)
    /\ last_trigger_time' = rt_tick_get /\ lastAt' = now
    /\ fall_detected_sem' = IF fall_detected_sem < SemMax THEN fall_detected_sem + 1
                                                          ELSE fall_detected_sem
    /\ pc' = "announce"
    /\ UNCHANGED <<now, acc, gyro>>

\* ... and announces the fall by voice and by SMS over USART1.
Announce ==
    /\ pc = "announce"
    /\ pc' = "read"
    /\ UNCHANGED <<now, acc, gyro, last_trigger_time, fall_detected_sem, lastAt>>

Thread == Read \/ Run \/ Suppress \/ Respond \/ Announce
FallNext == Tick \/ Thread

FallSpec == FallInit /\ [][FallNext]_fallVars
-----------------------------------------------------------------------------
\* Types of the thread's variables.
FallTypeOK ==
    /\ now \in Nat /\ pc \in {"read", "run", "respond", "announce"}
    /\ acc \in Words(AccMax) \union {Still} /\ gyro \in Words(GyroMax) \union {Still}
    /\ last_trigger_time \in 0..(TickMod - 1)
    /\ fall_detected_sem \in 0..SemMax
    /\ lastAt \in Int /\ -1 <= lastAt /\ lastAt <= now

\* Two responses of trigger_emergency_response are at least Gap ticks apart,
\* also when the tick counter has wrapped between them.
Spaced == [][(lastAt' # lastAt /\ lastAt # -1) => lastAt' - lastAt >= Gap]_fallVars

\* trigger_emergency_response suppresses a fall only as a repetition, with two
\* exceptions: in the first Gap ticks, as last_trigger_time starts at 0, and
\* when the tick counter has come round since the last response.
SuppressedIsRepeat ==
    [][(pc = "respond" /\ pc' = "read") =>
          \/ lastAt # -1 /\ now - lastAt < Gap
          \/ lastAt = -1 /\ now < Gap
          \/ now - lastAt >= TickMod]_fallVars

\* A sample at full scale on every axis of both sensors counts as a fall.
FullScale(v, max) == \A k \in Axes : v[k] \in {-max, max - 1}
HardestImpactIsAFall ==
    [][(pc = "run" /\ pc' # pc /\ FullScale(acc, AccMax) /\ FullScale(gyro, GyroMax))
         => pc' = "respond"]_fallVars
=============================================================================
