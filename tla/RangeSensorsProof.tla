------------------------- MODULE RangeSensorsProof -------------------------
(***************************************************************************)
(* What RangeSensors guarantees for every number of sensors: duty cycles   *)
(* in their range, faults that spread forward only, and motors that follow *)
(* their own sensors as long as no transfer fails.                         *)
(***************************************************************************)
EXTENDS RangeSensors, TLAPS

-----------------------------------------------------------------------------
(***************************************************************************)
(* The duty cycle.                                                         *)
(***************************************************************************)

\* A part of b, a out of c, is between 0 and b: the arithmetic of the linear
\* map from distance to vibration.
LEMMA PartOf ==
    ASSUME NEW a \in Nat, NEW b \in Nat, NEW c \in Nat, c > 0, a <= c
    PROVE  (a * b) \div c \in 0..b
<1> DEFINE q == (a * b) \div c
<1>1. a * b \in Nat /\ a * b <= c * b
    BY SMT
<1>2. q \in Int /\ c * q <= a * b /\ a * b < c * (q + 1)
    BY <1>1, SMT
<1>3. q >= 0
  <2>1. CASE q < 0
    <3>1. q + 1 <= 0
        BY <2>1, <1>2
    <3>2. c * (q + 1) <= 0
        BY <3>1, <1>2, SMT
    <3> QED
        BY <3>2, <1>1, <1>2
  <2> QED
      BY <2>1, <1>2
<1>4. q <= b
  <2>1. CASE q > b
    <3>1. q >= b + 1
        BY <2>1, <1>2
    <3>2. c * q >= c * b + c
        BY <3>1, <1>2, SMT
    <3> QED
        BY <3>2, <1>1, <1>2
  <2> QED
      BY <2>1, <1>2
<1> QED
    BY <1>2, <1>3, <1>4

\* Pwm always gives a duty cycle of update_motor_pwm's range: the clamp there
\* never bites.
LEMMA PwmRange == ASSUME NEW d \in Nat PROVE Pwm(d) \in 0..MAX_VIBRATION
<1>1. CASE d >= MIN_DISTANCE /\ d <= MAX_DISTANCE
  <2>1. ((d - MIN_DISTANCE) * MAX_VIBRATION) \div (MAX_DISTANCE - MIN_DISTANCE) \in 0..MAX_VIBRATION
      BY <1>1, PartOf, VibrationAssumption
  <2>2. MAX_VIBRATION - MIN_VIBRATION = MAX_VIBRATION
      BY VibrationAssumption
  <2> QED
      BY <1>1, <2>1, <2>2, VibrationAssumption DEF Pwm, Linear
<1>2. CASE ~ (d >= MIN_DISTANCE /\ d <= MAX_DISTANCE)
    BY <1>2, VibrationAssumption DEF Pwm, Linear
<1> QED
    BY <1>1, <1>2

\* The part grows with a.
LEMMA PartGrows ==
    ASSUME NEW a \in Nat, NEW e \in Nat, NEW b \in Nat, NEW c \in Nat, c > 0, a <= e
    PROVE  (a * b) \div c <= (e * b) \div c
<1> DEFINE q == (a * b) \div c
           r == (e * b) \div c
<1>1. a * b \in Nat /\ e * b \in Nat /\ a * b <= e * b
    BY SMT
<1>2. q \in Int /\ c * q <= a * b
    BY <1>1, SMT
<1>3. r \in Int /\ e * b < c * (r + 1)
    BY <1>1, SMT
<1>4. CASE q > r
  <2>1. q >= r + 1
      BY <1>2, <1>3, <1>4
  <2>2. c * q >= c * (r + 1)
      BY <2>1, <1>2, <1>3, SMT
  <2> HIDE DEF q, r
  <2> QED
      BY <2>2, <1>1, <1>2, <1>3
<1> QED
    BY <1>2, <1>3, <1>4

\* Pwm falls with the distance.
LEMMA PwmFalls ==
    ASSUME NEW d \in Nat, NEW e \in Nat, d > 0, d <= e
    PROVE  Pwm(e) <= Pwm(d)
<1>1. CASE d < MIN_DISTANCE
  <2>1. Pwm(d) = MAX_VIBRATION
      BY <1>1, VibrationAssumption DEF Pwm, Linear
  <2> QED
      BY <2>1, PwmRange, VibrationAssumption
<1>2. CASE e > MAX_DISTANCE
  <2>1. Pwm(e) = 0
      BY <1>2, VibrationAssumption DEF Pwm, Linear
  <2> QED
      BY <2>1, PwmRange, VibrationAssumption
<1>3. CASE d >= MIN_DISTANCE /\ e <= MAX_DISTANCE
  <2> DEFINE Part(x) == ((x - MIN_DISTANCE) * MAX_VIBRATION) \div (MAX_DISTANCE - MIN_DISTANCE)
  <2>1. Part(d) <= Part(e)
      BY <1>3, PartGrows, VibrationAssumption
  <2>2. Part(d) \in 0..MAX_VIBRATION /\ Part(e) \in 0..MAX_VIBRATION
      BY <1>3, PartOf, VibrationAssumption
  <2>3. MAX_VIBRATION - MIN_VIBRATION = MAX_VIBRATION
      BY VibrationAssumption
  <2>4. Pwm(d) = MAX_VIBRATION - Part(d) /\ Pwm(e) = MAX_VIBRATION - Part(e)
      BY <1>3, <2>3, VibrationAssumption DEF Pwm, Linear
  <2> HIDE DEF Part
  <2> QED
      BY <2>1, <2>2, <2>4, VibrationAssumption
<1> QED
    BY <1>1, <1>2, <1>3, VibrationAssumption
-----------------------------------------------------------------------------
(***************************************************************************)
(* Types.                                                                  *)
(***************************************************************************)

\* The numbers of sensors and addresses that the steps use.
LEMMA Numbers ==
    /\ 1 \in Sensor /\ DEFAULT_ADDR \in Addr
    /\ \A k \in Sensor : k \in Addr /\ (k < N => k + 1 \in Sensor)
BY SensorsAssumption DEF Sensor, Addr, DEFAULT_ADDR

\* A transfer leaves the number of faults within its bound.
LEMMA FaultBound ==
    ASSUME TypeOK, NEW a, Succeeds(a) \/ Fails(a) \/ Fault
    PROVE  faults' \in 0..MaxFaults
BY SensorsAssumption DEF TypeOK, Succeeds, Fails, Fault

\* The loops over the sensors stay in their range.
LEMMA LoopType ==
    ASSUME TypeOK, NEW here, NEW end, NextSensor(here, end)
    PROVE  cur' \in Sensor /\ pc' \in {here, end}
BY Numbers DEF TypeOK, NextSensor

\* No step leaves the types, whatever fails.
LEMMA TypeStep == ASSUME TypeOK, [Next]_vars PROVE TypeOK'
<1> USE Numbers
<1>1. CASE Shut
    BY <1>1 DEF Shut, TypeOK, bringup, haptic
<1>2. CASE Power
    BY <1>2 DEF Power, TypeOK, bringup, haptic
<1>3. CASE StdMode
  <2>1. faults' \in 0..MaxFaults
      BY <1>3, FaultBound DEF StdMode, Ask
  <2> QED
      BY <1>3, <2>1 DEF StdMode, Ask, TypeOK, bringup, haptic
<1>4. CASE ReadId
  <2>1. faults' \in 0..MaxFaults
      BY <1>4, FaultBound DEF ReadId, Ask
  <2> QED
      BY <1>4, <2>1 DEF ReadId, Ask, TypeOK, bringup, haptic
<1>5. CASE SetAddress
  <2>1. faults' \in 0..MaxFaults
      BY <1>5, FaultBound DEF SetAddress
  <2>2. at' \in [Sensor -> Addr] /\ I2cDevAddr' \in [Sensor -> Addr]
    <3>1. at \in [Sensor -> Addr] /\ I2cDevAddr \in [Sensor -> Addr] /\ cur \in Addr
        BY DEF TypeOK
    <3>2. CASE UNCHANGED <<at, I2cDevAddr>>
        BY <3>1, <3>2
    <3>3. CASE \E moved \in SUBSET Answering(DEFAULT_ADDR) :
                  /\ at' = [s \in Sensor |-> IF s \in moved THEN cur ELSE at[s]]
                  /\ I2cDevAddr' = [I2cDevAddr EXCEPT ![cur] = cur]
      <4>1. PICK moved : at' = [s \in Sensor |-> IF s \in moved THEN cur ELSE at[s]]
        BY <3>3
      <4>2. at' \in [Sensor -> Addr]
        BY <3>1, <4>1
      <4>3. I2cDevAddr' = [I2cDevAddr EXCEPT ![cur] = cur]
        BY <3>3
      <4>4. I2cDevAddr' \in [Sensor -> Addr]
        BY <3>1, <4>3
      <4> QED
        BY <4>2, <4>4
    <3> QED
        BY <1>5, <3>2, <3>3 DEF SetAddress, Target
  <2> QED
      BY <1>5, <2>1, <2>2 DEF SetAddress, TypeOK, bringup, haptic
<1>6. CASE DataInit
  <2>1. faults' \in 0..MaxFaults
      BY <1>6, FaultBound DEF DataInit
  <2>2. cur' \in Sensor /\ pc' \in {"mode", "power", "measure"}
      BY <1>6, LoopType DEF DataInit, TypeOK
  <2> QED
      BY <1>6, <2>1, <2>2 DEF DataInit, TypeOK, bringup, haptic
<1>7. CASE SetMode
  <2>1. faults' \in 0..MaxFaults
      BY <1>7, FaultBound DEF SetMode
  <2>2. cur' \in Sensor /\ pc' \in {"power", "measure"}
      BY <1>7, LoopType DEF SetMode
  <2>3. configured' \subseteq Sensor
      BY <1>7 DEF SetMode, TypeOK
  <2> QED
      BY <1>7, <2>1, <2>2, <2>3 DEF SetMode, TypeOK, bringup, haptic
<1>8. CASE Measure
  <2>1. faults' \in 0..MaxFaults
      BY <1>8, FaultBound DEF Measure, TypeOK
  <2>2. cur' \in Sensor /\ pc' \in {"measure", "drive"}
      BY <1>8, LoopType DEF Measure
  <2>3. fresh' \subseteq Sensor
      BY <1>8 DEF Measure, TypeOK
  <2>4. data' \in [Sensor -> [by : SUBSET Sensor, dist : Dist \union {0}]]
    <3>1. \A a : Answering(a) \in SUBSET Sensor
        BY DEF Answering
    <3>2. CASE UNCHANGED data
        BY <3>2 DEF TypeOK
    <3>3. CASE \E d \in Dist \union {0} :
                  data' = [data EXCEPT ![cur] = [by |-> Answering(I2cDevAddr[cur]), dist |-> d]]
        BY <3>1, <3>3 DEF TypeOK
    <3> QED
        BY <1>8, <3>2, <3>3 DEF Measure
  <2> QED
      BY <1>8, <2>1, <2>2, <2>3, <2>4 DEF Measure, TypeOK, bringup, haptic
<1>9. CASE Drive
  <2>1. \A k \in Sensor : Pwm(data[k].dist) \in 0..MAX_VIBRATION
      BY PwmRange, VibrationAssumption DEF TypeOK
  <2>2. motor' \in [Sensor -> 0..MAX_VIBRATION]
      BY <1>9, <2>1 DEF Drive
  <2> QED
      BY <1>9, <2>2 DEF Drive, TypeOK, bringup
<1>10. CASE UNCHANGED vars
    BY <1>10 DEF vars, bringup, haptic, TypeOK
<1> QED
    BY <1>1, <1>2, <1>3, <1>4, <1>5, <1>6, <1>7, <1>8, <1>9, <1>10 DEF Next

\* The types, and duty cycles in their range, hold in every state.
THEOREM SensorsTypeCorrect == Spec => []TypeOK
<1>1. Init => TypeOK
    BY SensorsAssumption, VibrationAssumption DEF Init, TypeOK, Sensor, Addr, DEFAULT_ADDR
<1>2. TypeOK /\ [Next]_vars => TypeOK'
    BY TypeStep
<1> QED
    BY <1>1, <1>2, PTL DEF Spec
-----------------------------------------------------------------------------
(***************************************************************************)
(* Faults spread forward.  A sensor that is still in reset will wake up at *)
(* the default address: that makes the property inductive.                 *)
(***************************************************************************)

Asleep == pc # "shut" => \A s \in Sensor : xshut[s] = 0 => at[s] = DEFAULT_ADDR

\* No step lets trouble reach a sensor before the one at hand.
LEMMA SpreadStep ==
    ASSUME TypeOK, FaultsSpreadForward, Asleep, [Next]_vars
    PROVE  (FaultsSpreadForward /\ Asleep)'
<1> USE SensorsAssumption
<1>1. CASE Shut
    BY <1>1 DEF Shut, FaultsSpreadForward, Asleep, TypeOK, Sensor, Addr, DEFAULT_ADDR, bringup, haptic
<1>2. CASE Power
    BY <1>2 DEF Power, FaultsSpreadForward, Asleep, TypeOK, Sensor, Addr, DEFAULT_ADDR, bringup, haptic
<1>3. CASE StdMode
    BY <1>3 DEF StdMode, Ask, Succeeds, Fails, Fault, FaultsSpreadForward, Asleep, TypeOK, Sensor, Addr, DEFAULT_ADDR, bringup, haptic
<1>4. CASE ReadId
    BY <1>4 DEF ReadId, Ask, Succeeds, Fails, Fault, FaultsSpreadForward, Asleep, TypeOK, Sensor, Addr, DEFAULT_ADDR, bringup, haptic
<1>5. CASE SetAddress
  <2>1. CASE UNCHANGED at
      BY <1>5, <2>1 DEF SetAddress, FaultsSpreadForward, Asleep
  <2>2. CASE ~ UNCHANGED at
    <3>1. PICK moved \in SUBSET Answering(DEFAULT_ADDR) :
              at' = [s \in Sensor |-> IF s \in moved THEN cur ELSE at[s]]
        BY <1>5, <2>2 DEF SetAddress, Target
    <3>2. \A s \in Sensor : xshut[s] = 1 => s <= cur
        BY <1>5 DEF SetAddress, FaultsSpreadForward
    <3>3. \A s \in Sensor : s \in moved => xshut[s] = 1
        BY DEF Answering
    <3>4. cur \in Int /\ pc = "set" /\ pc' = "init" /\ cur' = cur /\ xshut' = xshut
        BY <1>5 DEF SetAddress, TypeOK, Sensor
    <3>5. FaultsSpreadForward'
        BY <3>1, <3>2, <3>4 DEF FaultsSpreadForward
    <3>6. Asleep'
        BY <3>1, <3>3, <3>4 DEF Asleep
    <3> QED
        BY <3>5, <3>6
  <2> QED
      BY <2>1, <2>2
<1>6. CASE DataInit
  <2>1. cur \in Int /\ UNCHANGED <<xshut, at>> /\ pc \notin {"shut", "measure", "drive"}
      BY <1>6 DEF DataInit, TypeOK, Sensor
  <2>2. (pc' = "mode" /\ cur' = cur) \/ (pc' = "power" /\ cur' = cur + 1) \/ pc' = "measure"
      BY <1>6 DEF DataInit, NextSensor
  <2>3. \A s \in Sensor : s \in Int /\ at[s] \in Int
      BY DEF TypeOK, Sensor, Addr
  <2> QED
      BY <2>1, <2>2, <2>3 DEF FaultsSpreadForward, Asleep
<1>7. CASE SetMode
  <2>1. cur \in Int /\ UNCHANGED <<xshut, at>> /\ pc \notin {"shut", "measure", "drive"}
      BY <1>7 DEF SetMode, TypeOK, Sensor
  <2>2. (pc' = "power" /\ cur' = cur + 1) \/ pc' = "measure"
      BY <1>7 DEF SetMode, NextSensor
  <2>3. \A s \in Sensor : s \in Int /\ at[s] \in Int
      BY DEF TypeOK, Sensor, Addr
  <2> QED
      BY <2>1, <2>2, <2>3 DEF FaultsSpreadForward, Asleep
<1>8. CASE Measure
  <2>1. UNCHANGED <<xshut, at>> /\ pc = "measure" /\ pc' \in {"measure", "drive"}
      BY <1>8, LoopType DEF Measure, bringup
  <2> QED
      BY <2>1 DEF FaultsSpreadForward, Asleep
<1>9. CASE Drive
    BY <1>9 DEF Drive, FaultsSpreadForward, Asleep, TypeOK, Sensor, Addr, DEFAULT_ADDR, bringup, haptic
<1>10. CASE UNCHANGED vars
    BY <1>10 DEF vars, bringup, haptic, FaultsSpreadForward, Asleep, TypeOK, Sensor, Addr, DEFAULT_ADDR, bringup, haptic
<1> QED
    BY <1>1, <1>2, <1>3, <1>4, <1>5, <1>6, <1>7, <1>8, <1>9, <1>10 DEF Next

\* At the address of sensor k only sensors up to k answer, for every number of
\* sensors, faults and every state the sensors were in before.
THEOREM SensorsSpreadForward == Spec => []FaultsSpreadForward
<1>1. Init => FaultsSpreadForward /\ Asleep
    BY DEF Init, FaultsSpreadForward, Asleep
<1>2. TypeOK /\ (FaultsSpreadForward /\ Asleep) /\ [Next]_vars => (FaultsSpreadForward /\ Asleep)'
    BY SpreadStep
<1> QED
    BY <1>1, <1>2, SensorsTypeCorrect, PTL DEF Spec
-----------------------------------------------------------------------------
(***************************************************************************)
(* Without faults.  A sensor has its own address from its SetAddress on    *)
(* and the default one before; the sensor at hand is awake.                *)
(***************************************************************************)

Addressed(k) == pc \in {"measure", "drive"} \/ k < cur \/ (k = cur /\ pc \in {"init", "mode"})

InTurn ==
    pc # "shut" =>
        /\ \A k \in Sensor : IF Addressed(k) THEN at[k] = k /\ I2cDevAddr[k] = k
                                             ELSE at[k] = DEFAULT_ADDR
        /\ pc \in {"std", "id", "set", "init", "mode"} => xshut[cur] = 1

OwnInv ==
    /\ pc = "shut" => cur = 1
    /\ faults = 0 => InTurn /\ \A k \in Sensor : data[k].by \subseteq {k}

\* A transfer without a fault leaves the number of faults alone.
LEMMA NoFault ==
    ASSUME TypeOK, NEW a, Succeeds(a) \/ Fails(a) \/ Fault \/ UNCHANGED faults, faults' = 0
    PROVE  faults = 0
BY SensorsAssumption DEF TypeOK, Succeeds, Fails, Fault

\* Behind a sensor that has its address comes one that is asleep, or the end.
LEMMA AfterSensor ==
    ASSUME TypeOK, InTurn, pc \in {"init", "mode"}, NextSensor("power", "measure"),
           UNCHANGED <<xshut, at, I2cDevAddr>>
    PROVE  InTurn'
<1>1. \A k \in Sensor : IF k <= cur THEN at[k] = k /\ I2cDevAddr[k] = k ELSE at[k] = DEFAULT_ADDR
    BY DEF InTurn, Addressed, TypeOK, Sensor
<1>2. CASE cur < N
    BY <1>1, <1>2, SensorsAssumption DEF NextSensor, InTurn, Addressed, TypeOK, Sensor
<1>3. CASE ~ (cur < N)
    BY <1>1, <1>3, SensorsAssumption DEF NextSensor, InTurn, Addressed, TypeOK, Sensor
<1> QED
    BY <1>2, <1>3

\* No step without a fault breaks the order of the bring-up.
LEMMA OwnStep == ASSUME TypeOK, FaultsSpreadForward, OwnInv, [Next]_vars PROVE OwnInv'
<1> USE SensorsAssumption
<1>1. CASE Shut
    BY <1>1 DEF Shut, OwnInv, InTurn, Addressed, TypeOK, Sensor, Addr, DEFAULT_ADDR, bringup, haptic
<1>2. CASE Power
    BY <1>2, SMTT(30) DEF Power, OwnInv, InTurn, Addressed, TypeOK, Sensor, Addr, DEFAULT_ADDR, bringup, haptic
<1>3. CASE StdMode
  <2> SUFFICES ASSUME faults' = 0
               PROVE  InTurn' /\ \A k \in Sensor : (data[k].by)' \subseteq {k}
      BY <1>3 DEF StdMode, Ask, OwnInv
  <2>1. faults = 0
      BY <1>3, NoFault DEF StdMode, Ask
  <2>2. InTurn /\ \A k \in Sensor : data[k].by \subseteq {k}
      BY <2>1 DEF OwnInv
  <2>3. cur \in Answering(DEFAULT_ADDR)
      BY <1>3, <2>2 DEF StdMode, Ask, Answering, InTurn, Addressed, TypeOK, Sensor
  <2>4. pc' = "id"
      BY <1>3, <2>1, <2>3 DEF StdMode, Ask, Fails, Fault
  <2>5. UNCHANGED <<xshut, at, I2cDevAddr, cur, data>>
      BY <1>3 DEF StdMode, Ask, bringup, haptic
  <2>6. InTurn'
      BY <1>3, <2>2, <2>4, <2>5 DEF StdMode, Ask, InTurn, Addressed
  <2> QED
      BY <2>2, <2>5, <2>6
<1>4. CASE ReadId
  <2> SUFFICES ASSUME faults' = 0
               PROVE  InTurn' /\ \A k \in Sensor : (data[k].by)' \subseteq {k}
      BY <1>4 DEF ReadId, Ask, OwnInv
  <2>1. faults = 0
      BY <1>4, NoFault DEF ReadId, Ask
  <2>2. InTurn /\ \A k \in Sensor : data[k].by \subseteq {k}
      BY <2>1 DEF OwnInv
  <2>3. cur \in Answering(DEFAULT_ADDR)
      BY <1>4, <2>2 DEF ReadId, Ask, Answering, InTurn, Addressed, TypeOK, Sensor
  <2>4. pc' = "set"
      BY <1>4, <2>1, <2>3 DEF ReadId, Ask, Fails, Fault
  <2>5. UNCHANGED <<xshut, at, I2cDevAddr, cur, data>>
      BY <1>4 DEF ReadId, Ask, bringup, haptic
  <2>6. InTurn'
      BY <1>4, <2>2, <2>4, <2>5 DEF ReadId, Ask, InTurn, Addressed
  <2> QED
      BY <2>2, <2>5, <2>6
<1>5. CASE SetAddress
  <2> SUFFICES ASSUME faults' = 0
               PROVE  InTurn' /\ \A k \in Sensor : (data[k].by)' \subseteq {k}
      BY <1>5 DEF SetAddress, OwnInv
  <2>1. faults = 0
      BY <1>5 DEF SetAddress, Succeeds, Fails, Fault, TypeOK
  <2>2. cur \in Int /\ cur \in Sensor /\ pc = "set"
      BY <1>5 DEF SetAddress, TypeOK, Sensor
  <2>3. InTurn /\ \A k \in Sensor : data[k].by \subseteq {k}
      BY <2>1 DEF OwnInv
  <2>4. \A k \in Sensor : k < cur => at[k] = k /\ I2cDevAddr[k] = k
      BY <2>2, <2>3 DEF InTurn, Addressed
  <2>5. \A k \in Sensor : k >= cur => at[k] = DEFAULT_ADDR
      BY <2>2, <2>3 DEF InTurn, Addressed, Sensor
  <2>6. xshut[cur] = 1
      BY <2>2, <2>3 DEF InTurn
  <2>7. cur \in Answering(DEFAULT_ADDR)
      BY <2>2, <2>5, <2>6 DEF Answering
  <2>8. /\ at' = [s \in Sensor |-> IF s \in Answering(DEFAULT_ADDR) THEN cur ELSE at[s]]
        /\ I2cDevAddr' = [I2cDevAddr EXCEPT ![cur] = cur]
      BY <1>5, <2>1, <2>7 DEF SetAddress, Succeeds, Fails, Fault, Target
  <2>9. \A s \in Sensor : s \in Answering(DEFAULT_ADDR) => s = cur
      BY <2>2, <2>4 DEF Answering, FaultsSpreadForward, Sensor, DEFAULT_ADDR
  <2>10. at' = [at EXCEPT ![cur] = cur]
      BY <2>7, <2>8, <2>9 DEF TypeOK
  <2>11. cur' = cur /\ pc' = "init" /\ UNCHANGED <<xshut, data>>
      BY <1>5 DEF SetAddress, haptic
  <2>12. InTurn'
      BY <2>2, <2>4, <2>5, <2>6, <2>8, <2>10, <2>11 DEF InTurn, Addressed, TypeOK, Sensor
  <2> QED
      BY <2>3, <2>11, <2>12
<1>6. CASE DataInit
  <2> SUFFICES ASSUME faults' = 0
               PROVE  InTurn' /\ \A k \in Sensor : (data[k].by)' \subseteq {k}
      BY <1>6 DEF DataInit, NextSensor, OwnInv
  <2>1. faults = 0
      BY <1>6, NoFault DEF DataInit
  <2>2. InTurn /\ \A k \in Sensor : data[k].by \subseteq {k}
      BY <2>1 DEF OwnInv
  <2>3. UNCHANGED <<xshut, at, I2cDevAddr, data>> /\ pc = "init"
      BY <1>6 DEF DataInit, haptic
  <2>4. CASE pc' = "mode" /\ cur' = cur
    <3>1. InTurn'
        BY <2>2, <2>3, <2>4 DEF InTurn, Addressed
    <3> QED
        BY <2>2, <2>3, <3>1
  <2>5. CASE NextSensor("power", "measure")
      BY <2>2, <2>3, <2>5, AfterSensor
  <2> QED
      BY <1>6, <2>4, <2>5 DEF DataInit
<1>7. CASE SetMode
  <2> SUFFICES ASSUME faults' = 0
               PROVE  InTurn' /\ \A k \in Sensor : (data[k].by)' \subseteq {k}
      BY <1>7 DEF SetMode, NextSensor, OwnInv
  <2>1. faults = 0
      BY <1>7, NoFault DEF SetMode
  <2>2. InTurn /\ \A k \in Sensor : data[k].by \subseteq {k}
      BY <2>1 DEF OwnInv
  <2> QED
      BY <1>7, <2>2, AfterSensor DEF SetMode, haptic
<1>8. CASE Measure
  <2> SUFFICES ASSUME faults' = 0
               PROVE  InTurn' /\ \A k \in Sensor : (data[k].by)' \subseteq {k}
      BY <1>8 DEF Measure, NextSensor, OwnInv
  <2>1. faults = 0
      BY <1>8, NoFault DEF Measure
  <2>2. InTurn /\ \A k \in Sensor : data[k].by \subseteq {k}
      BY <2>1 DEF OwnInv
  <2>3. /\ UNCHANGED <<xshut, at, I2cDevAddr>>
        /\ pc = "measure" /\ pc' \in {"measure", "drive"}
      BY <1>8, LoopType DEF Measure, bringup
  <2>4. InTurn'
      BY <2>2, <2>3 DEF InTurn, Addressed
  <2>5. Answering(I2cDevAddr[cur]) \subseteq {cur}
      BY <2>2, <2>3 DEF InTurn, Addressed, Answering, TypeOK
  <2>6. \A k \in Sensor : (data[k].by)' \subseteq {k}
    <3>1. CASE UNCHANGED data
        BY <2>2, <3>1
    <3>2. CASE \E d \in Dist \union {0} :
                  data' = [data EXCEPT ![cur] = [by |-> Answering(I2cDevAddr[cur]), dist |-> d]]
        BY <2>2, <2>5, <3>2 DEF TypeOK
    <3> QED
        BY <1>8, <3>1, <3>2 DEF Measure
  <2> QED
      BY <2>4, <2>6
<1>9. CASE Drive
    BY <1>9 DEF Drive, OwnInv, InTurn, Addressed, TypeOK, Sensor, Addr, DEFAULT_ADDR, bringup, haptic
<1>10. CASE UNCHANGED vars
    BY <1>10 DEF vars, bringup, haptic, OwnInv, InTurn, Addressed, TypeOK, Sensor, Addr, DEFAULT_ADDR, bringup, haptic
<1> QED
    BY <1>1, <1>2, <1>3, <1>4, <1>5, <1>6, <1>7, <1>8, <1>9, <1>10 DEF Next

\* As long as no transfer fails every motor follows its own sensor.
THEOREM SensorsOwn == Spec => []OwnSensor
<1>1. Init => OwnInv
    BY DEF Init, OwnInv, InTurn
<1>2. TypeOK /\ FaultsSpreadForward /\ OwnInv /\ [Next]_vars => OwnInv'
    BY OwnStep
<1>3. OwnInv => OwnSensor
    BY DEF OwnInv, OwnSensor
<1> QED
    BY <1>1, <1>2, <1>3, SensorsTypeCorrect, SensorsSpreadForward, PTL DEF Spec
-----------------------------------------------------------------------------
(***************************************************************************)
(* The nearer, the stronger.  Between two rounds the motors show the data. *)
(***************************************************************************)

Shown ==
    /\ pc \notin {"measure", "drive"} =>
            \A k \in Sensor : data[k].dist = 0 /\ motor[k] = 0
    /\ pc = "measure" /\ cur = 1 => \A k \in Sensor : motor[k] = Pwm(data[k].dist)

\* No step lets motors and data differ between two rounds.
LEMMA ShownStep == ASSUME TypeOK, Shown, [Next]_vars PROVE Shown'
<1> USE SensorsAssumption
<1>0. Pwm(0) = 0
    BY DEF Pwm
<1>1. CASE Shut
    BY <1>1, <1>0 DEF Shut, Shown, TypeOK, Sensor, Addr, DEFAULT_ADDR, bringup, haptic
<1>2. CASE Power
    BY <1>2, <1>0 DEF Power, Shown, TypeOK, Sensor, Addr, DEFAULT_ADDR, bringup, haptic
<1>3. CASE StdMode
    BY <1>3, <1>0 DEF StdMode, Ask, Succeeds, Fails, Fault, Shown, TypeOK, Sensor, Addr, DEFAULT_ADDR, bringup, haptic
<1>4. CASE ReadId
    BY <1>4, <1>0 DEF ReadId, Ask, Succeeds, Fails, Fault, Shown, TypeOK, Sensor, Addr, DEFAULT_ADDR, bringup, haptic
<1>5. CASE SetAddress
    BY <1>5, <1>0 DEF SetAddress, Succeeds, Fails, Fault, Answering, Target, Shown, TypeOK, Sensor, Addr, DEFAULT_ADDR, bringup, haptic
<1>6. CASE DataInit
    BY <1>6, <1>0 DEF DataInit, Succeeds, Fails, Fault, NextSensor, Shown, TypeOK, Sensor, Addr, DEFAULT_ADDR, bringup, haptic
<1>7. CASE SetMode
    BY <1>7, <1>0 DEF SetMode, Succeeds, Fails, Fault, NextSensor, Shown, TypeOK, Sensor, Addr, DEFAULT_ADDR, bringup, haptic
<1>8. CASE Measure
    BY <1>8, <1>0 DEF Measure, Succeeds, Fails, Fault, NextSensor, Answering, Shown, TypeOK, Sensor, Addr, DEFAULT_ADDR, bringup, haptic
<1>9. CASE Drive
    BY <1>9, <1>0 DEF Drive, Shown, TypeOK, Sensor, Addr, DEFAULT_ADDR, bringup, haptic
<1>10. CASE UNCHANGED vars
    BY <1>10 DEF vars, bringup, haptic, Shown, TypeOK, Sensor, Addr, DEFAULT_ADDR, bringup, haptic
<1> QED
    BY <1>1, <1>2, <1>3, <1>4, <1>5, <1>6, <1>7, <1>8, <1>9, <1>10 DEF Next

\* Of two obstacles the nearer one makes its motor vibrate at least as strongly,
\* for all distances and limits.
THEOREM SensorsCloserIsStronger == Spec => []CloserIsStronger
<1>1. Init => Shown
    BY DEF Init, Shown
<1>2. TypeOK /\ Shown /\ [Next]_vars => Shown'
    BY ShownStep
<1>3. TypeOK /\ Shown => CloserIsStronger
  <2> SUFFICES ASSUME TypeOK, Shown, pc = "measure", cur = 1,
                      NEW j \in Sensor, NEW k \in Sensor,
                      data[j].dist > 0, data[j].dist <= data[k].dist
               PROVE  motor[j] >= motor[k]
      BY DEF CloserIsStronger
  <2>1. data[j].dist \in Nat /\ data[k].dist \in Nat
    <3>1. data \in [Sensor -> [by : SUBSET Sensor, dist : Dist \union {0}]]
        BY DEF TypeOK
    <3>2. data[j] \in [by : SUBSET Sensor, dist : Dist \union {0}]
        BY <3>1
    <3>3. data[k] \in [by : SUBSET Sensor, dist : Dist \union {0}]
        BY <3>1
    <3>4. data[j].dist \in Dist \union {0} /\ data[k].dist \in Dist \union {0}
        BY <3>2, <3>3
    <3>5. Dist \union {0} \subseteq Nat
        BY VibrationAssumption
    <3> QED
        BY <3>4, <3>5
  <2>2. Pwm(data[k].dist) <= Pwm(data[j].dist)
      BY <2>1, PwmFalls
  <2>3. motor[j] = Pwm(data[j].dist) /\ motor[k] = Pwm(data[k].dist)
      BY DEF Shown
  <2>4. motor[j] \in Int /\ motor[k] \in Int
    <3>1. motor \in [Sensor -> 0..MAX_VIBRATION]
        BY DEF TypeOK
    <3> QED
        BY <3>1, VibrationAssumption
  <2> QED
      BY <2>2, <2>3, <2>4
<1> QED
    BY <1>1, <1>2, <1>3, SensorsTypeCorrect, PTL DEF Spec
-----------------------------------------------------------------------------
(***************************************************************************)
(* Nothing stale without faults.  Every sensor before the one at hand is   *)
(* awake and configured, so every measurement of a round succeeds.         *)
(***************************************************************************)

Rounds ==
    /\ pc # "shut" => \A k \in Sensor : Addressed(k) => xshut[k] = 1
    /\ pc \in {"measure", "drive"} => Sensor \subseteq configured
    /\ pc \notin {"shut", "measure", "drive"} => \A k \in Sensor : k < cur => k \in configured
    /\ pc = "measure" /\ cur = 1 => \A k \in Sensor : motor[k] = 0 \/ k \in fresh
    /\ pc = "measure" /\ cur # 1 => \A k \in Sensor : k < cur => k \in fresh
    /\ pc = "drive" => cur = 1 /\ Sensor \subseteq fresh

RoundsInv == faults = 0 => Rounds

\* A fault-free transfer to a sensor that is there succeeds.
LEMMA MustSucceed ==
    ASSUME TypeOK, NEW a, NEW k \in Answering(a), faults' = faults
    PROVE  ~ Fails(a)
BY DEF TypeOK, Fails, Fault

\* Behind a configured sensor comes the next one, or the rounds begin.
LEMMA AfterRounds ==
    ASSUME TypeOK, Rounds, pc = "mode", NextSensor("power", "measure"),
           UNCHANGED <<xshut, motor, fresh>>, configured' = configured \union {cur},
           \A k \in Sensor : motor[k] = 0
    PROVE  Rounds'
<1>0. cur \in Int /\ cur \in Sensor /\ \A k \in Sensor : k \in Int /\ k <= N
    BY SensorsAssumption DEF TypeOK, Sensor
<1>1. \A k \in Sensor : k <= cur => k \in configured' /\ xshut[k] = 1
    BY <1>0 DEF Rounds, Addressed
<1>2. CASE cur < N
  <2>1. cur' = cur + 1 /\ pc' = "power"
      BY <1>2 DEF NextSensor
  <2>2. \A k \in Sensor : k < cur + 1 => k <= cur
      BY <1>0
  <2> QED
      BY <1>1, <2>1, <2>2 DEF Rounds, Addressed
<1>3. CASE ~ (cur < N)
  <2>1. cur' = 1 /\ pc' = "measure"
      BY <1>3 DEF NextSensor
  <2>2. \A k \in Sensor : k <= cur
      BY <1>0, <1>3, SensorsAssumption
  <2> QED
      BY <1>1, <2>1, <2>2 DEF Rounds, Addressed
<1> QED
    BY <1>2, <1>3

\* No step without a fault lets a round go without a measurement.
LEMMA RoundsStep ==
    ASSUME TypeOK, TypeOK', OwnInv, Shown, RoundsInv, [Next]_vars
    PROVE  RoundsInv'
<1> SUFFICES ASSUME faults' = 0
             PROVE  Rounds'
    BY DEF RoundsInv
<1>0. /\ cur \in Int /\ cur \in Sensor /\ \A k \in Sensor : k \in Int /\ k >= 1 /\ k <= N
      /\ N \in Nat /\ N >= 1
    BY SensorsAssumption DEF TypeOK, Sensor
<1>1. CASE Shut
  <2>1. pc' = "power" /\ cur' = 1
      BY <1>1 DEF Shut, OwnInv
  <2> QED
      BY <1>0, <2>1 DEF Rounds, Addressed
<1>2. CASE Power
  <2>1. faults = 0 /\ pc = "power" /\ pc' = "std" /\ UNCHANGED <<cur, configured>>
        /\ xshut' = [xshut EXCEPT ![cur] = 1]
      BY <1>2 DEF Power
  <2>2. Rounds
      BY <2>1 DEF RoundsInv
  <2> QED
      BY <2>1, <2>2 DEF Rounds, Addressed, TypeOK
<1>3. ASSUME NEW here \in {"std", "id"}, NEW next \in {"id", "set"}, Ask(here, next)
      PROVE  Rounds'
  <2>1. faults = 0
      BY <1>3, NoFault DEF Ask
  <2>2. Rounds /\ InTurn
      BY <2>1 DEF RoundsInv, OwnInv
  <2>3. cur \in Answering(DEFAULT_ADDR)
      BY <1>0, <1>3, <2>2 DEF Ask, Answering, InTurn, Addressed
  <2>4. pc = here /\ pc' = next /\ UNCHANGED <<cur, configured, xshut>>
      BY <1>3, <2>1, <2>3, MustSucceed DEF Ask, bringup
  <2> QED
      BY <2>2, <2>4 DEF Rounds, Addressed
<1>4. CASE SetAddress
  <2>1. faults = 0
      BY <1>4 DEF SetAddress, Succeeds, Fails, Fault, TypeOK
  <2>2. Rounds /\ InTurn
      BY <2>1 DEF RoundsInv, OwnInv
  <2>3. pc = "set" /\ pc' = "init" /\ UNCHANGED <<cur, configured, xshut>>
      BY <1>4 DEF SetAddress
  <2>4. xshut[cur] = 1
      BY <2>2, <2>3 DEF InTurn
  <2> QED
      BY <2>2, <2>3, <2>4 DEF Rounds, Addressed
<1>5. CASE DataInit
  <2>1. faults = 0
      BY <1>5, NoFault DEF DataInit
  <2>2. Rounds /\ InTurn
      BY <2>1 DEF RoundsInv, OwnInv
  <2>3. pc = "init" /\ UNCHANGED <<configured, xshut>>
      BY <1>5 DEF DataInit
  <2>4. xshut[cur] = 1 /\ at[cur] = cur /\ I2cDevAddr[cur] = cur
      BY <1>0, <2>2, <2>3 DEF InTurn, Addressed
  <2>5. cur \in Answering(I2cDevAddr[cur])
      BY <1>0, <2>4 DEF Answering
  <2>6. pc' = "mode" /\ cur' = cur
      BY <1>5, <2>1, <2>4, <2>5, MustSucceed DEF DataInit
  <2> QED
      BY <2>2, <2>3, <2>6 DEF Rounds, Addressed
<1>6. CASE SetMode
  <2>1. faults = 0
      BY <1>6, NoFault DEF SetMode
  <2>2. Rounds /\ InTurn
      BY <2>1 DEF RoundsInv, OwnInv
  <2>3. pc = "mode" /\ UNCHANGED <<xshut, motor, fresh>> /\ NextSensor("power", "measure")
      BY <1>6 DEF SetMode, haptic
  <2>4. xshut[cur] = 1 /\ at[cur] = cur /\ I2cDevAddr[cur] = cur
      BY <1>0, <2>2, <2>3 DEF InTurn, Addressed
  <2>5. cur \in Answering(I2cDevAddr[cur])
      BY <1>0, <2>4 DEF Answering
  <2>6. configured' = configured \union {cur}
      BY <1>6, <2>1, <2>5, MustSucceed DEF SetMode
  <2>7. \A k \in Sensor : motor[k] = 0
      BY <2>3 DEF Shown
  <2> QED
      BY <2>2, <2>3, <2>6, <2>7, AfterRounds
<1>7. CASE Measure
  <2>1. faults = 0
      BY <1>7, NoFault DEF Measure
  <2>2. Rounds /\ InTurn
      BY <2>1 DEF RoundsInv, OwnInv
  <2>3. pc = "measure" /\ UNCHANGED <<xshut, configured>> /\ NextSensor("measure", "drive")
      BY <1>7 DEF Measure, bringup
  <2>4. xshut[cur] = 1 /\ at[cur] = cur /\ I2cDevAddr[cur] = cur /\ cur \in configured
      BY <1>0, <2>2, <2>3 DEF InTurn, Addressed, Rounds
  <2>5. cur \in Answering(I2cDevAddr[cur])
      BY <1>0, <2>4 DEF Answering
  <2>6. fresh' = (IF cur = 1 THEN {} ELSE fresh) \union {cur}
      BY <1>7, <2>1, <2>4, <2>5, MustSucceed DEF Measure
  <2>7. \A k \in Sensor : k <= cur => k \in fresh'
    <3>1. CASE cur = 1
        BY <3>1, <2>6, <1>0
    <3>2. CASE cur # 1
        BY <3>2, <2>2, <2>3, <2>6, <1>0 DEF Rounds
    <3> QED
        BY <3>1, <3>2
  <2>8. CASE cur < N
    <3>1. cur' = cur + 1 /\ pc' = "measure"
        BY <2>3, <2>8 DEF NextSensor
    <3>2. cur' # 1 /\ \A k \in Sensor : k < cur' => k <= cur
        BY <3>1, <1>0
    <3> QED
        BY <2>2, <2>3, <2>7, <3>1, <3>2 DEF Rounds, Addressed
  <2>9. CASE ~ (cur < N)
    <3>1. cur' = 1 /\ pc' = "drive"
        BY <2>3, <2>9 DEF NextSensor
    <3>2. \A k \in Sensor : k <= cur
        BY <2>9, <1>0
    <3> QED
        BY <2>2, <2>3, <2>7, <3>1, <3>2 DEF Rounds, Addressed
  <2> QED
      BY <2>8, <2>9
<1>8. CASE Drive
  <2>1. faults = 0 /\ pc = "drive" /\ pc' = "measure" /\ UNCHANGED <<cur, xshut, configured, fresh>>
      BY <1>8 DEF Drive, bringup
  <2>2. Rounds
      BY <2>1 DEF RoundsInv
  <2> QED
      BY <2>1, <2>2 DEF Rounds, Addressed
<1>9. CASE UNCHANGED vars
    BY <1>9 DEF vars, bringup, haptic, RoundsInv, Rounds, Addressed
<1>10. CASE StdMode \/ ReadId
    BY <1>3, <1>10 DEF StdMode, ReadId
<1> QED
    BY <1>1, <1>2, <1>4, <1>5, <1>6, <1>7, <1>8, <1>9, <1>10 DEF Next

\* As long as no transfer fails, a motor that vibrates between two rounds does
\* so for a measurement of the round before, for any number of sensors.
THEOREM SensorsNoStaleVibration == Spec => []NoStaleVibration
<1>1. Init => OwnInv /\ Shown /\ RoundsInv
    BY DEF Init, OwnInv, InTurn, Shown, RoundsInv, Rounds
<1>2. TypeOK /\ FaultsSpreadForward /\ OwnInv /\ [Next]_vars => OwnInv'
    BY OwnStep
<1>3. TypeOK /\ Shown /\ [Next]_vars => Shown'
    BY ShownStep
<1>4. TypeOK /\ TypeOK' /\ OwnInv /\ Shown /\ RoundsInv /\ [Next]_vars => RoundsInv'
    BY RoundsStep
<1>5. RoundsInv => NoStaleVibration
    BY DEF RoundsInv, Rounds, NoStaleVibration
<1> QED
    BY <1>1, <1>2, <1>3, <1>4, <1>5, SensorsTypeCorrect, SensorsSpreadForward, PTL DEF Spec
-----------------------------------------------------------------------------
(***************************************************************************)
(* One fault.  At most one sensor x is lost: it stays at the default       *)
(* address until the next sensor's SetAddress takes it along, and then     *)
(* nobody answers for it any more.                                         *)
(***************************************************************************)

Lost(x) ==
    /\ faults = 1 /\ Addressed(x) /\ xshut[x] = 1 /\ I2cDevAddr[x] \in {DEFAULT_ADDR, x}
    /\ at[x] = IF x < N /\ Addressed(x + 1) THEN x + 1 ELSE DEFAULT_ADDR

InTurnBut(x) ==
    /\ \A k \in Sensor \ {x} : IF Addressed(k)
                               THEN at[k] = k /\ I2cDevAddr[k] = k /\ xshut[k] = 1
                               ELSE at[k] = DEFAULT_ADDR
    /\ x \in Sensor => Lost(x)
    /\ pc \in {"std", "id", "set", "init", "mode"} => xshut[cur] = 1
    /\ pc \in {"std", "id", "set"} => I2cDevAddr[cur] = DEFAULT_ADDR

OneLost ==
    faults <= 1 =>
        /\ pc # "shut" => \E x \in Addr : InTurnBut(x)
        /\ \A k \in Sensor : data[k].by # {} => k \in data[k].by

\* The transfers of the bring-up when the sensor at hand is at the default
\* address: all of them succeed, or this is the one fault.
LEMMA OneFaultAsk ==
    ASSUME TypeOK, faults' <= 1, NEW a, NEW k \in Answering(a), Fails(a)
    PROVE  faults = 0 /\ faults' = 1
BY SensorsAssumption DEF TypeOK, Fails, Fault

\* Behind a sensor comes the next one, or the rounds begin.
LEMMA AfterOneLost ==
    ASSUME TypeOK, pc \in {"init", "mode"}, NextSensor("power", "measure"),
           UNCHANGED <<xshut, at, I2cDevAddr>>, NEW x \in Addr, InTurnBut(x),
           x \in Sensor => faults' = 1
    PROVE  InTurnBut(x)'
<1>0. /\ cur \in Int /\ cur \in Sensor /\ \A k \in Sensor : k \in Int /\ k >= 1 /\ k <= N
      /\ N \in Nat /\ N >= 1 /\ x \in Int
    BY SensorsAssumption DEF TypeOK, Sensor, Addr
<1>1. \A k \in Int : Addressed(k) <=> k <= cur
    BY <1>0 DEF Addressed
<1>2. CASE cur < N
  <2>1. cur' = cur + 1 /\ pc' = "power"
      BY <1>2 DEF NextSensor
  <2>2. \A k \in Int : Addressed(k)' <=> k <= cur
      BY <1>0, <2>1 DEF Addressed
  <2>3. \A k \in Int : Addressed(k)' <=> Addressed(k)
      BY <1>1, <2>2
  <2>4. x + 1 \in Int
      BY <1>0
  <2> QED
      BY <1>0, <2>1, <2>3, <2>4 DEF InTurnBut, Lost
<1>3. CASE ~ (cur < N)
  <2>1. cur' = 1 /\ pc' = "measure"
      BY <1>3 DEF NextSensor
  <2>2. \A k : Addressed(k)'
      BY <2>1 DEF Addressed
  <2>3. \A k \in Sensor : Addressed(k)
      BY <1>0, <1>1, <1>3
  <2>4. x \in Sensor /\ x < N => x + 1 \in Sensor
      BY <1>0 DEF Sensor
  <2> QED
      BY <2>1, <2>2, <2>3, <2>4 DEF InTurnBut, Lost
<1> QED
    BY <1>2, <1>3

\* No step with at most one fault loses a second sensor, or lets others answer
\* for a sensor.
LEMMA OneLostStep ==
    ASSUME TypeOK, TypeOK', FaultsSpreadForward, OneLost, pc = "shut" => cur = 1, [Next]_vars
    PROVE  OneLost'
<1> DEFINE Own == \A k \in Sensor : data[k].by # {} => k \in data[k].by
<1> SUFFICES ASSUME faults' <= 1
             PROVE  (pc' # "shut" => \E x \in Addr : InTurnBut(x)') /\ Own'
    BY DEF OneLost
<1>0. /\ cur \in Int /\ cur \in Sensor /\ \A k \in Sensor : k \in Int /\ k >= 1 /\ k <= N
      /\ N \in Nat /\ N >= 1 /\ \A x \in Addr : x \in Int
      /\ \A k \in Sensor : k \in Addr /\ k # DEFAULT_ADDR
    BY SensorsAssumption DEF TypeOK, Sensor, Addr, DEFAULT_ADDR
<1>f. faults \in Nat /\ faults' \in Nat
    BY SensorsAssumption DEF TypeOK
<1>1. CASE Shut
  <2>1. /\ pc' = "power" /\ cur' = 1 /\ UNCHANGED data /\ faults' = faults
        /\ \A k \in Sensor : at'[k] = DEFAULT_ADDR
      BY <1>1 DEF Shut, haptic
  <2>2. \A k \in Sensor : ~ Addressed(k)'
      BY <1>0, <2>1 DEF Addressed
  <2>3. DEFAULT_ADDR \in Addr /\ DEFAULT_ADDR \notin Sensor
      BY Numbers, <1>0
  <2>4. InTurnBut(DEFAULT_ADDR)'
      BY <2>1, <2>2, <2>3 DEF InTurnBut
  <2> QED
      BY <2>1, <2>3, <2>4 DEF OneLost
<1>2. CASE Power
  <2>1. /\ pc = "power" /\ pc' = "std" /\ UNCHANGED <<cur, at, data, faults>>
        /\ xshut' = [xshut EXCEPT ![cur] = 1]
        /\ I2cDevAddr' = [I2cDevAddr EXCEPT ![cur] = DEFAULT_ADDR]
      BY <1>2 DEF Power, haptic
  <2>2. PICK x \in Addr : InTurnBut(x)
      BY <1>f, <2>1 DEF OneLost
  <2>3. \A k \in Int : Addressed(k)' <=> Addressed(k)
      BY <2>1 DEF Addressed
  <2>4. ~ Addressed(cur)
      BY <1>0, <2>1 DEF Addressed
  <2>5. x \in Sensor => x # cur /\ Lost(x)
      BY <2>2, <2>4 DEF InTurnBut, Lost
  <2>6. \A k \in Sensor : k # cur => xshut'[k] = xshut[k] /\ I2cDevAddr'[k] = I2cDevAddr[k]
      BY <2>1 DEF TypeOK
  <2>7. xshut'[cur] = 1 /\ I2cDevAddr'[cur] = DEFAULT_ADDR
      BY <1>0, <2>1 DEF TypeOK
  <2>8. x \in Sensor => Lost(x)'
      BY <1>0, <2>1, <2>3, <2>5, <2>6 DEF Lost
  <2>9. InTurnBut(x)'
      BY <1>0, <2>1, <2>2, <2>3, <2>4, <2>6, <2>7, <2>8 DEF InTurnBut
  <2> QED
      BY <2>1, <2>9, <1>f DEF OneLost
<1>3. ASSUME NEW here \in {"std", "id"}, NEW next \in {"id", "set"}, Ask(here, next)
      PROVE  (pc' # "shut" => \E x \in Addr : InTurnBut(x)') /\ Own'
  <2>1. /\ pc = here /\ UNCHANGED <<cur, at, xshut, I2cDevAddr, data>>
        /\ \/ Succeeds(DEFAULT_ADDR) /\ pc' = next
           \/ Fails(DEFAULT_ADDR) /\ pc' = "init"
        /\ faults <= faults'
      BY <1>3, <1>f DEF Ask, bringup, haptic, Succeeds, Fails, Fault
  <2>2. PICK x \in Addr : InTurnBut(x)
      BY <1>f, <2>1 DEF OneLost
  <2>3. ~ Addressed(cur) /\ ~ Addressed(cur + 1)
      BY <1>0, <2>1 DEF Addressed
  <2>4. x # cur /\ at[cur] = DEFAULT_ADDR /\ xshut[cur] = 1 /\ I2cDevAddr[cur] = DEFAULT_ADDR
      BY <1>0, <2>1, <2>2, <2>3 DEF InTurnBut, Lost
  <2>5. cur \in Answering(DEFAULT_ADDR)
      BY <1>0, <2>4 DEF Answering
  <2>6. Own'
      BY <1>f, <2>1 DEF OneLost
  <2>7. CASE Succeeds(DEFAULT_ADDR) /\ pc' = next
    <3>1. faults' = faults
        BY <2>7 DEF Succeeds
    <3>2. \A k \in Int : Addressed(k)' <=> Addressed(k)
        BY <2>1, <2>7 DEF Addressed
    <3>3. x \in Sensor => Lost(x)'
        BY <1>0, <2>1, <2>2, <3>1, <3>2 DEF InTurnBut, Lost
    <3>4. InTurnBut(x)'
        BY <1>0, <2>1, <2>2, <2>4, <2>7, <3>2, <3>3 DEF InTurnBut
    <3> QED
        BY <2>6, <3>4
  <2>8. CASE Fails(DEFAULT_ADDR) /\ pc' = "init"
    <3>1. faults = 0 /\ faults' = 1
        BY <2>5, <2>8, OneFaultAsk
    <3>2. x \notin Sensor
        BY <2>2, <3>1 DEF InTurnBut, Lost
    <3>3. \A k \in Int : Addressed(k)' <=> Addressed(k) \/ k = cur
        BY <1>0, <2>1, <2>8 DEF Addressed
    <3>4. Lost(cur)'
        BY <1>0, <2>1, <2>3, <2>4, <3>1, <3>3 DEF Lost
    <3>5. InTurnBut(cur)'
        BY <1>0, <2>1, <2>2, <2>4, <2>8, <3>2, <3>3, <3>4 DEF InTurnBut
    <3> QED
        BY <1>0, <2>1, <2>6, <3>5
  <2> QED
      BY <2>1, <2>7, <2>8
<1>4. CASE SetAddress
  <2>1. /\ pc = "set" /\ pc' = "init" /\ UNCHANGED <<cur, xshut, data>>
        /\ faults <= faults'
      BY <1>4, <1>f DEF SetAddress, haptic, Succeeds, Fails, Fault
  <2>2. PICK x \in Addr : InTurnBut(x)
      BY <1>f, <2>1 DEF OneLost
  <2>3. ~ Addressed(cur) /\ ~ Addressed(cur + 1)
      BY <1>0, <2>1 DEF Addressed
  <2>4. x # cur /\ at[cur] = DEFAULT_ADDR /\ xshut[cur] = 1 /\ I2cDevAddr[cur] = DEFAULT_ADDR
      BY <1>0, <2>1, <2>2, <2>3 DEF InTurnBut, Lost
  <2>5. cur \in Answering(DEFAULT_ADDR)
      BY <1>0, <2>4 DEF Answering
  <2>6. Own'
      BY <1>f, <2>1 DEF OneLost
  <2>7. \A k \in Int : Addressed(k)' <=> Addressed(k) \/ k = cur
      BY <1>0, <2>1 DEF Addressed
  <2>8. \A k \in Int : Addressed(k) <=> k < cur
      BY <1>0, <2>1 DEF Addressed
  <2>9. \A s \in Answering(DEFAULT_ADDR) : s \in Sensor /\ s <= cur /\ at[s] = DEFAULT_ADDR
      BY <2>1 DEF Answering, FaultsSpreadForward
  <2>10. \A s \in Answering(DEFAULT_ADDR) : s = cur \/ s = x
    <3> SUFFICES ASSUME NEW s \in Answering(DEFAULT_ADDR), s # cur, s # x
                 PROVE  FALSE
        OBVIOUS
    <3>0. s \in Sensor /\ s <= cur /\ at[s] = DEFAULT_ADDR
        BY <2>9
    <3>1. s \in Sensor /\ s < cur /\ s \in Int /\ at[s] = DEFAULT_ADDR
        BY <1>0, <3>0
    <3>2. at[s] = s
        BY <2>2, <2>8, <3>1 DEF InTurnBut
    <3> QED
        BY <1>0, <3>1, <3>2
  <2>11. CASE Fails(DEFAULT_ADDR) /\ UNCHANGED <<at, I2cDevAddr>>
    <3>1. faults = 0 /\ faults' = 1
        BY <2>5, <2>11, OneFaultAsk
    <3>2. x \notin Sensor
        BY <2>2, <3>1 DEF InTurnBut, Lost
    <3>3. Lost(cur)'
        BY <1>0, <2>1, <2>3, <2>4, <2>7, <2>11, <3>1 DEF Lost
    <3>4. InTurnBut(cur)'
        BY <1>0, <2>1, <2>2, <2>4, <2>7, <2>11, <3>2, <3>3 DEF InTurnBut
    <3> QED
      <4>1. \E y \in Addr : InTurnBut(y)'
          BY <1>0, <2>1, <3>4
      <4> QED
          BY <2>6, <4>1
  <2>12. ASSUME NEW moved \in SUBSET Answering(DEFAULT_ADDR),
                (Succeeds(DEFAULT_ADDR) /\ moved = Answering(DEFAULT_ADDR)) \/ Fault,
                at' = [s \in Sensor |-> IF s \in moved THEN cur ELSE at[s]],
                I2cDevAddr' = [I2cDevAddr EXCEPT ![cur] = cur]
         PROVE  \E y \in Addr : InTurnBut(y)'
    <3>1. /\ I2cDevAddr'[cur] = cur /\ \A k \in Sensor : k # cur => I2cDevAddr'[k] = I2cDevAddr[k]
          /\ \A k \in Sensor : at'[k] = IF k \in moved THEN cur ELSE at[k]
        BY <1>0, <2>12 DEF TypeOK
    <3>2. CASE Succeeds(DEFAULT_ADDR) /\ moved = Answering(DEFAULT_ADDR)
      <4>1. faults' = faults
          BY <3>2 DEF Succeeds
      <4>2. at'[cur] = cur
          BY <1>0, <2>5, <3>1, <3>2
      <4>3. \A k \in Sensor \ {x} : k # cur => at'[k] = at[k]
          BY <2>10, <3>1
      <4>4. ASSUME x \in Sensor  PROVE Lost(x)'
        <5>1. Lost(x) /\ x < cur /\ x \in Int
            BY <1>0, <2>2, <2>8, <4>4 DEF InTurnBut, Lost
        <5>2. CASE x + 1 = cur
          <6>1. at[x] = DEFAULT_ADDR /\ xshut[x] = 1
              BY <2>3, <5>1, <5>2 DEF Lost
          <6>2. x \in Answering(DEFAULT_ADDR)
              BY <4>4, <6>1 DEF Answering
          <6>3. at'[x] = x + 1
              BY <3>1, <3>2, <4>4, <5>2, <6>2
          <6>4. Addressed(x)' /\ Addressed(x + 1)' /\ x < N
              BY <1>0, <2>7, <2>8, <5>1, <5>2
          <6> QED
              BY <1>0, <2>1, <3>1, <4>1, <4>4, <5>1, <6>3, <6>4 DEF Lost
        <5>3. CASE x + 1 # cur
          <6>1. x + 1 \in Int /\ x + 1 < cur /\ x < N
              BY <1>0, <5>1, <5>3
          <6>2. Addressed(x + 1) /\ Addressed(x + 1)' /\ Addressed(x)'
              BY <2>7, <2>8, <5>1, <6>1
          <6>3. at[x] = x + 1 /\ x + 1 \in Sensor
            <7>1. at[x] = x + 1
                BY <5>1, <6>1, <6>2 DEF Lost
            <7>2. x + 1 \in Sensor
                BY <1>0, <4>4, <6>1 DEF Sensor
            <7> QED
                BY <7>1, <7>2
          <6>4. x \notin Answering(DEFAULT_ADDR)
              BY <1>0, <2>9, <6>3
          <6>5. at'[x] = x + 1
              BY <3>1, <3>2, <4>4, <6>3, <6>4
          <6> QED
              BY <1>0, <2>1, <3>1, <4>1, <4>4, <5>1, <6>1, <6>2, <6>5 DEF Lost
        <5> QED
            BY <5>2, <5>3
      <4>5. InTurnBut(x)'
          BY <1>0, <2>1, <2>2, <2>4, <2>7, <3>1, <4>2, <4>3, <4>4 DEF InTurnBut
      <4> QED
          BY <4>5
    <3>3. CASE Fault
      <4>1. faults = 0 /\ faults' = 1
          BY <1>f, <3>3 DEF Fault
      <4>2. x \notin Sensor
          BY <2>2, <4>1 DEF InTurnBut, Lost
      <4>3. \A s \in Sensor : s \in moved => s = cur
          BY <2>10, <4>2
      <4>4. \A k \in Sensor : k # cur => at'[k] = at[k]
          BY <3>1, <4>3
      <4>5. CASE cur \in moved
        <5>1. at'[cur] = cur
            BY <1>0, <3>1, <4>5
        <5>2. InTurnBut(x)'
            BY <1>0, <2>1, <2>2, <2>4, <2>7, <3>1, <4>2, <4>4, <5>1 DEF InTurnBut
        <5> QED
            BY <5>2
      <4>6. CASE cur \notin moved
        <5>1. at'[cur] = DEFAULT_ADDR
            BY <1>0, <2>4, <3>1, <4>6
        <5>2. Lost(cur)'
            BY <1>0, <2>1, <2>3, <2>4, <2>7, <3>1, <4>1, <5>1 DEF Lost
        <5>3. InTurnBut(cur)'
            BY <1>0, <2>1, <2>2, <2>4, <2>7, <3>1, <4>2, <4>4, <5>2 DEF InTurnBut
        <5>4. cur \in Addr
            BY <1>0
        <5> QED
            BY <2>1, <5>3, <5>4
      <4> QED
          BY <4>5, <4>6
    <3> QED
        BY <2>12, <3>2, <3>3
  <2> QED
      BY <1>4, <2>6, <2>11, <2>12 DEF SetAddress, Target
<1>5. CASE DataInit \/ SetMode
  <2>1. /\ pc \in {"init", "mode"} /\ UNCHANGED <<at, xshut, I2cDevAddr, data>>
        /\ faults <= faults'
        /\ NextSensor("power", "measure") \/ (pc' = "mode" /\ cur' = cur)
      BY <1>5, <1>f DEF DataInit, SetMode, haptic, Succeeds, Fails, Fault
  <2>2. PICK x \in Addr : InTurnBut(x)
      BY <1>f, <2>1 DEF OneLost
  <2>3. Own'
      BY <1>f, <2>1 DEF OneLost
  <2>4. x \in Sensor => faults' = 1
      BY <1>f, <2>1, <2>2 DEF InTurnBut, Lost
  <2>5. CASE NextSensor("power", "measure")
      BY <2>1, <2>2, <2>3, <2>4, <2>5, AfterOneLost
  <2>6. CASE pc' = "mode" /\ cur' = cur
    <3>1. \A k \in Int : Addressed(k)' <=> Addressed(k)
        BY <2>1, <2>6 DEF Addressed
    <3>2. x \in Sensor => Lost(x)'
        BY <1>0, <2>1, <2>2, <2>4, <3>1 DEF InTurnBut, Lost
    <3>3. InTurnBut(x)'
        BY <1>0, <2>1, <2>2, <2>6, <3>1, <3>2 DEF InTurnBut
    <3> QED
        BY <2>3, <3>3
  <2> QED
      BY <2>1, <2>5, <2>6
<1>6. CASE Measure
  <2>1. /\ pc = "measure" /\ UNCHANGED <<at, xshut, I2cDevAddr>> /\ faults <= faults'
        /\ pc' \in {"measure", "drive"}
      BY <1>6, <1>f, LoopType DEF Measure, bringup, Succeeds, Fails, Fault
  <2>2. PICK x \in Addr : InTurnBut(x)
      BY <1>f, <2>1 DEF OneLost
  <2>3. \A k : Addressed(k) /\ Addressed(k)'
      BY <2>1 DEF Addressed
  <2>4. x \in Sensor => faults' = 1
      BY <1>f, <2>1, <2>2 DEF InTurnBut, Lost
  <2>5. InTurnBut(x)'
    <3>1. x \in Sensor => Lost(x)'
        BY <2>1, <2>2, <2>3, <2>4 DEF InTurnBut, Lost
    <3> QED
        BY <2>1, <2>2, <2>3, <3>1 DEF InTurnBut
  <2>6. ASSUME Answering(I2cDevAddr[cur]) # {}  PROVE cur \in Answering(I2cDevAddr[cur])
    <3>1. CASE cur # x
      <4>1. at[cur] = I2cDevAddr[cur] /\ xshut[cur] = 1
          BY <1>0, <2>2, <2>3, <3>1 DEF InTurnBut
      <4> QED
          BY <1>0, <4>1 DEF Answering
    <3>2. CASE cur = x
      <4>1. Lost(x) /\ x \in Sensor
          BY <1>0, <2>2, <3>2 DEF InTurnBut
      <4>2. PICK s \in Sensor : xshut[s] = 1 /\ at[s] = I2cDevAddr[x]
          BY <2>6, <3>2 DEF Answering
      <4>3. CASE s = x
          BY <3>2, <4>2, <4>3 DEF Answering
      <4>4. CASE s # x
        <5>1. at[s] = s
            BY <2>2, <2>3, <4>4 DEF InTurnBut
        <5> QED
            BY <1>0, <4>1, <4>2, <4>4, <5>1 DEF Lost
      <4> QED
          BY <4>3, <4>4
    <3> QED
        BY <3>1, <3>2
  <2>7. Own'
    <3>0. Own
        BY <1>f, <2>1 DEF OneLost
    <3>1. CASE UNCHANGED data
        BY <3>0, <3>1
    <3>2. CASE \E d \in Dist \union {0} :
                  data' = [data EXCEPT ![cur] = [by |-> Answering(I2cDevAddr[cur]), dist |-> d]]
      <4>1. data'[cur].by = Answering(I2cDevAddr[cur])
            /\ \A k \in Sensor : k # cur => data'[k] = data[k]
          BY <1>0, <3>2 DEF TypeOK
      <4> QED
          BY <2>6, <3>0, <4>1
    <3> QED
        BY <1>6, <3>1, <3>2 DEF Measure
  <2> QED
      BY <2>5, <2>7
<1>7. CASE Drive
  <2>1. /\ pc = "drive" /\ pc' = "measure" /\ UNCHANGED <<at, xshut, I2cDevAddr, data, faults>>
      BY <1>7 DEF Drive, bringup
  <2>2. PICK x \in Addr : InTurnBut(x)
      BY <1>f, <2>1 DEF OneLost
  <2>3. \A k : Addressed(k) /\ Addressed(k)'
      BY <2>1 DEF Addressed
  <2>4. InTurnBut(x)'
      BY <2>1, <2>2, <2>3 DEF InTurnBut, Lost
  <2> QED
      BY <1>f, <2>1, <2>4 DEF OneLost
<1>8. CASE UNCHANGED vars
    BY <1>8 DEF vars, bringup, haptic, OneLost, InTurnBut, Lost, Addressed
<1>9. CASE StdMode \/ ReadId
    BY <1>3, <1>9 DEF StdMode, ReadId
<1> QED
    BY <1>1, <1>2, <1>4, <1>5, <1>6, <1>7, <1>8, <1>9 DEF Next

\* One failed transfer, wherever it happens and whatever the number of sensors,
\* never makes a motor follow other sensors alone.
THEOREM SensorsOneFaultNeverSwaps == Spec => []OneFaultNeverSwaps
<1>1. Init => OneLost /\ OwnInv
    BY DEF Init, OneLost, OwnInv, InTurn
<1>2. TypeOK /\ FaultsSpreadForward /\ OwnInv /\ [Next]_vars => OwnInv'
    BY OwnStep
<1>3. TypeOK /\ TypeOK' /\ FaultsSpreadForward /\ OneLost /\ OwnInv /\ [Next]_vars => OneLost'
    BY OneLostStep DEF OwnInv
<1>4. OneLost => OneFaultNeverSwaps
    BY DEF OneLost, OneFaultNeverSwaps
<1> QED
    BY <1>1, <1>2, <1>3, <1>4, SensorsTypeCorrect, SensorsSpreadForward, PTL DEF Spec
=============================================================================
