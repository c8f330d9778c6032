-------------------------- MODULE FallThreadProof --------------------------
(***************************************************************************)
(* For every scale, threshold, tick width and minimum distance: the        *)
(* responses of trigger_emergency_response keep their distance over the    *)
(* wrap of the tick counter; and with a threshold beyond what three axes   *)
(* at full scale add up to there is no response at all, which is the case  *)
(* of the code's 30 g and the sensor's 16 g.                               *)
(***************************************************************************)
EXTENDS FallThread, TLAPS

\* The remainder of a sum in normal form.
LEMMA ModUnique ==
    ASSUME NEW M \in Nat \ {0}, NEW q \in Int, NEW r \in 0..(M - 1), NEW x, x = M * q + r
    PROVE  x % M = r
  OBVIOUS

\* The normal form of a number.
LEMMA ModForm ==
    ASSUME NEW M \in Nat \ {0}, NEW x \in Nat
    PROVE  \E q \in Int, r \in 0..(M - 1) : x = M * q + r /\ x % M = r
  <1>1. PICK q, r : q = x \div M /\ r = x % M
    OBVIOUS
  <1>2. q \in Int /\ r \in 0..(M - 1)
    BY <1>1
  <1>3. x = M * q + r
    BY <1>1, SMTT(30)
  <1> QED BY <1>1, <1>2, <1>3

\* Two times x and y, d apart and less than a full turn of the counter, and the
\* values r and s of the counter at them.
Ticks(M, x, d, y, r, s) ==
    /\ M \in Nat \ {0} /\ x \in Nat /\ d \in 0..(M - 1) /\ y = x + d
    /\ r = x % M /\ s = y % M

\* The unsigned difference of two ticks less than a full turn apart is their
\* distance.
LEMMA TickDifference ==
    ASSUME NEW M, NEW x, NEW d, NEW y, NEW r, NEW s, Ticks(M, x, d, y, r, s)
    PROVE  (s - r) % M = d
  <1> USE DEF Ticks
  <1>1. PICK q \in Int, r0 \in 0..(M - 1) : x = M * q + r0 /\ x % M = r0
    BY ModForm
  <1>p. r = r0 /\ r \in 0..(M - 1)
    BY <1>1
  <1>2. CASE r + d < M
    <2>1. r + d \in 0..(M - 1)
      BY <1>p, <1>2
    <2>2. y = M * q + (r + d)
      BY <1>1, <1>p
    <2>m. y % M = r + d
      <3>1. PICK e \in 0..(M - 1) : e = r + d
        BY <2>1
      <3>2. y = M * q + e
        BY <2>2, <3>1
      <3>3. y % M = e
        BY <3>2, ModUnique
      <3> QED BY <3>1, <3>3
    <2>3. s = r + d
      BY <2>m, Zenon
    <2>4. s - r = M * 0 + d /\ s \in Int
      <3>1. M * 0 = 0
        OBVIOUS
      <3>2. s - r = d /\ s \in Int /\ 0 + d = d
        BY <1>p, <2>3
      <3> QED BY <3>1, <3>2
    <2>5. (s - r) % M = d
      BY <2>4, ModUnique
    <2> QED BY <2>5
  <1>3. CASE ~ (r + d < M)
    <2>1. r + d - M \in 0..(M - 1) /\ q + 1 \in Int
      BY <1>p, <1>3
    <2>2. y = M * (q + 1) + (r + d - M)
      <3>1. PICK u : u = M * q
        OBVIOUS
      <3>2. u \in Int /\ M * (q + 1) = u + M
        BY <3>1
      <3>3. y = u + r + d
        BY <1>1, <1>p, <3>1
      <3> QED BY <1>p, <3>2, <3>3
    <2>3. s = r + d - M
      <3>1. PICK e \in 0..(M - 1), p \in Int : e = r + d - M /\ p = q + 1
        BY <2>1
      <3>2. y = M * p + e
        BY <2>2, <3>1
      <3>3. y % M = e
        BY <3>2, ModUnique
      <3> QED BY <3>1, <3>3
    <2>4. s - r = M * (-1) + d /\ s \in Int /\ -1 \in Int
      <3>1. M * (-1) = - M
        BY <1>p
      <3>2. s - r = - M + d /\ s \in Int
        BY <1>p, <2>3
      <3> QED BY <3>1, <3>2
    <2>5. (s - r) % M = d
      BY <2>4, ModUnique
    <2> QED BY <2>5
  <1> QED BY <1>2, <1>3

\* The inductive invariant: the static variable holds the time of the last
\* response, reduced to the width of the counter, as if there had been one at
\* boot.
LastInv ==
    /\ lastAt = -1 => last_trigger_time = 0
    /\ lastAt # -1 => lastAt \in Nat /\ last_trigger_time = lastAt % TickMod
FallInv == FallTypeOK /\ LastInv

\* FallInit establishes it.
LEMMA FallInitInv == FallInit => FallInv
  BY ScaleAssumption, TickAssumption DEF FallInit, FallInv, FallTypeOK, LastInv, Still

\* Every step preserves it.
LEMMA FallInductive == FallInv /\ [FallNext]_fallVars => FallInv'
  <1> SUFFICES ASSUME FallInv, [FallNext]_fallVars PROVE FallInv'
    OBVIOUS
  <1> USE DEF FallInv, LastInv
  <1>1. CASE Tick
    BY <1>1 DEF Tick, FallTypeOK
  <1>2. CASE Read
    BY <1>2, ScaleAssumption DEF Read, FallTypeOK
  <1>3. CASE Run
    BY <1>3 DEF Run, FallTypeOK
  <1>4. CASE Suppress
    BY <1>4 DEF Suppress, FallTypeOK
  <1>5. CASE Respond
    <2>1. now \in Nat /\ rt_tick_get \in 0..(TickMod - 1)
      BY TickAssumption DEF rt_tick_get, FallTypeOK
    <2>2. /\ last_trigger_time' = rt_tick_get /\ lastAt' = now /\ pc' = "announce"
          /\ UNCHANGED <<now, acc, gyro>>
          /\ fall_detected_sem' = IF fall_detected_sem < SemMax THEN fall_detected_sem + 1
                                                                ELSE fall_detected_sem
      BY <1>5 DEF Respond
    <2>3. FallTypeOK'
      BY <2>1, <2>2, TickAssumption DEF FallTypeOK
    <2> QED BY <2>1, <2>2, <2>3 DEF rt_tick_get
  <1>6. CASE Announce
    BY <1>6 DEF Announce, FallTypeOK
  <1>7. CASE UNCHANGED fallVars
    BY <1>7 DEF fallVars, FallTypeOK
  <1> QED BY <1>1, <1>2, <1>3, <1>4, <1>5, <1>6, <1>7 DEF FallNext, Thread

\* Types of the fall detection thread.
THEOREM FallTypeCorrect == FallSpec => []FallTypeOK
  <1>1. FallInv => FallTypeOK
    BY DEF FallInv
  <1> QED BY FallInitInv, FallInductive, <1>1, PTL DEF FallSpec

\* Less than a full turn after the last response, or after boot, TooSoon
\* compares the true distance with Gap.
LEMMA SinceLast ==
    ASSUME FallInv, NEW x, x = (IF lastAt = -1 THEN 0 ELSE lastAt), now - x < TickMod
    PROVE  TooSoon(rt_tick_get) <=> now - x < Gap
  <1>1. TickMod \in Nat \ {0}
    BY TickAssumption
  <1>2. now \in Nat /\ x \in Nat /\ x <= now
    BY DEF FallInv, FallTypeOK, LastInv
  <1>3. last_trigger_time = x % TickMod
    <2>1. CASE lastAt = -1
      <3>1. PICK z \in 0..(TickMod - 1) : z = 0
        BY <1>1
      <3>2. z = TickMod * 0 + z
        BY <1>1, <3>1
      <3>3. z % TickMod = z
        BY <1>1, <3>2, ModUnique
      <3>4. last_trigger_time = 0 /\ x = 0
        BY <2>1 DEF FallInv, LastInv
      <3> QED BY <3>1, <3>3, <3>4, Zenon
    <2>2. CASE lastAt # -1
      BY <2>2 DEF FallInv, LastInv
    <2> QED BY <2>1, <2>2
  <1>4. PICK d, y, r, s : d = now - x /\ y = now /\ r = x % TickMod /\ s = now % TickMod
    OBVIOUS
  <1>5. d \in 0..(TickMod - 1) /\ y = x + d
    BY <1>1, <1>2, <1>4
  <1>6. s = y % TickMod
    BY <1>4
  <1>7. Ticks(TickMod, x, d, y, r, s)
    BY <1>1, <1>2, <1>4, <1>5, <1>6 DEF Ticks
  <1>8. (s - r) % TickMod = d
    BY <1>7, TickDifference
  <1>9. TooSoon(rt_tick_get) <=> (s - r) % TickMod < Gap
    BY <1>3, <1>4 DEF TooSoon, rt_tick_get
  <1> QED BY <1>4, <1>8, <1>9

\* A response that comes too early is one the guard stops.
LEMMA RespondSpaced ==
    ASSUME FallInv, Respond, lastAt # -1
    PROVE  now - lastAt >= Gap
  <1>1. now \in Nat /\ lastAt \in Nat
    BY DEF FallInv, FallTypeOK, LastInv
  <1>2. SUFFICES ASSUME now - lastAt < Gap PROVE FALSE
    BY <1>1, TickAssumption
  <1>3. now - lastAt < TickMod
    BY <1>1, <1>2, TickAssumption
  <1>4. TooSoon(rt_tick_get)
    BY <1>2, <1>3, SinceLast
  <1> QED BY <1>4 DEF Respond

\* Two responses to a fall are at least five seconds apart.
THEOREM FallSpaced == FallSpec => Spaced
  <1>1. FallInv /\ [FallNext]_fallVars
          => [(lastAt' # lastAt /\ lastAt # -1) => lastAt' - lastAt >= Gap]_fallVars
    <2> SUFFICES ASSUME FallInv, FallNext, lastAt' # lastAt, lastAt # -1
                 PROVE  lastAt' - lastAt >= Gap
      OBVIOUS
    <2>1. Respond
      BY DEF FallNext, Thread, Tick, Read, Run, Suppress, Announce
    <2>2. lastAt' = now
      BY <2>1 DEF Respond
    <2> QED BY <2>1, <2>2, RespondSpaced
  <1> QED BY FallInitInv, FallInductive, <1>1, PTL DEF FallSpec, Spaced

\* A fall is suppressed only as a repetition, within five seconds of boot, or
\* when the counter has come round since the last response.
THEOREM FallSuppressed == FallSpec => SuppressedIsRepeat
  <1>1. FallInv /\ [FallNext]_fallVars
          => [(pc = "respond" /\ pc' = "read") =>
                \/ lastAt # -1 /\ now - lastAt < Gap
                \/ lastAt = -1 /\ now < Gap
                \/ now - lastAt >= TickMod]_fallVars
    <2> SUFFICES ASSUME FallInv, FallNext, pc = "respond", pc' = "read",
                        ~ (now - lastAt >= TickMod)
                 PROVE  \/ lastAt # -1 /\ now - lastAt < Gap
                        \/ lastAt = -1 /\ now < Gap
      OBVIOUS
    <2>1. TooSoon(rt_tick_get)
      BY DEF FallNext, Thread, Tick, Read, Run, Suppress, Respond, Announce
    <2>2. now \in Nat /\ lastAt \in Int /\ TickMod \in Nat
      BY TickAssumption DEF FallInv, FallTypeOK
    <2>3. PICK x : x = (IF lastAt = -1 THEN 0 ELSE lastAt)
      OBVIOUS
    <2>4. now - x < TickMod
      BY <2>2, <2>3
    <2>5. now - x < Gap
      BY <2>1, <2>3, <2>4, SinceLast
    <2> QED BY <2>2, <2>3, <2>5
  <1> QED BY FallInitInv, FallInductive, <1>1, PTL DEF FallSpec, SuppressedIsRepeat
-----------------------------------------------------------------------------
\* The largest square of a word.
LEMMA WordSquare ==
    ASSUME NEW m \in Nat, NEW x \in (-m)..(m - 1)
    PROVE  x * x \in Int /\ x * x <= m * m
  OBVIOUS

\* A threshold that three axes at full scale do not exceed.
OutOfReach == 3 * (AccMax * AccMax) <= AccLimit * AccLimit

\* No sample is a fall then: the acceleration never exceeds the threshold.
LEMMA NoSampleIsAFall ==
    ASSUME OutOfReach, NEW a \in Words(AccMax) \union {Still}, NEW g
    PROVE  ~ run_fall_detection_algorithm(a, g)
  <1>1. CASE a = Still
    BY <1>1, ScaleAssumption DEF run_fall_detection_algorithm, Square, Still, Axes, OutOfReach
  <1>2. CASE a \in Words(AccMax)
    <2>1. /\ a[1] \in (-AccMax)..(AccMax - 1) /\ a[2] \in (-AccMax)..(AccMax - 1)
          /\ a[3] \in (-AccMax)..(AccMax - 1)
      BY <1>2 DEF Words, Axes
    <2>2. PICK x, y, z, m, t :
            /\ x = a[1] * a[1] /\ y = a[2] * a[2] /\ z = a[3] * a[3]
            /\ m = AccMax * AccMax /\ t = AccLimit * AccLimit
      OBVIOUS
    <2>3. x \in Int /\ x <= m
      BY <2>1, <2>2, WordSquare, ScaleAssumption
    <2>4. y \in Int /\ y <= m
      BY <2>1, <2>2, WordSquare, ScaleAssumption
    <2>5. z \in Int /\ z <= m
      BY <2>1, <2>2, WordSquare, ScaleAssumption
    <2>6. m \in Int /\ t \in Int /\ 3 * m <= t
      BY <2>2, ScaleAssumption DEF OutOfReach
    <2>7. ~ (x + y + z > t)
      BY <2>3, <2>4, <2>5, <2>6
    <2> QED BY <2>2, <2>7 DEF run_fall_detection_algorithm, Square
  <1> QED BY <1>1, <1>2

\* trigger_emergency_response was never called and is not about to be.
Deaf == pc \in {"read", "run"} /\ lastAt = -1

\* With the code's threshold no fall is ever detected, so that
\* trigger_emergency_response is never called.
THEOREM NoFallIsDetected == OutOfReach /\ FallSpec => []Deaf
  <1>1. FallInit => Deaf
    BY DEF FallInit, Deaf
  <1>2. ASSUME OutOfReach, FallInv, Deaf, [FallNext]_fallVars
        PROVE  Deaf'
    <2>1. ~ run_fall_detection_algorithm(acc, gyro)
      BY <1>2, NoSampleIsAFall DEF FallInv, FallTypeOK
    <2>2. CASE Tick
      BY <1>2, <2>2 DEF Tick, Deaf
    <2>3. CASE Read
      BY <1>2, <2>3 DEF Read, Deaf
    <2>4. CASE Run
      BY <1>2, <2>1, <2>4 DEF Run, Deaf
    <2>5. CASE Suppress \/ Respond \/ Announce
      BY <1>2, <2>5 DEF Suppress, Respond, Announce, Deaf
    <2>6. CASE UNCHANGED fallVars
      BY <1>2, <2>6 DEF fallVars, Deaf
    <2> QED BY <1>2, <2>2, <2>3, <2>4, <2>5, <2>6 DEF FallNext, Thread
  <1>3. OutOfReach /\ FallInv /\ Deaf /\ [FallNext]_fallVars => Deaf'
    BY <1>2
  <1>4. OutOfReach => OutOfReach'
    BY DEF OutOfReach
  <1> QED BY FallInitInv, FallInductive, <1>1, <1>3, <1>4, PTL DEF FallSpec

\* The numbers of the code: 16 g at full scale in 32768 steps, 30 g as threshold.
LEMMA CodeOutOfReach == AccMax = 32768 /\ AccLimit = 61440 => OutOfReach
  BY DEF OutOfReach
=============================================================================
