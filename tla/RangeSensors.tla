---------------------------- MODULE RangeSensors ----------------------------
(***************************************************************************)
(* The ring of VL53L0X distance sensors and the motors that vibrate in     *)
(* their directions.  All sensors are on one I2C bus and wake up at the    *)
(* address 0x52: VL53L0X_Init (processing.c) holds them in reset, releases *)
(* one after the other and lets vl53l0x_init1 .. 5 (bsp_VL53L0X.c) move    *)
(* each to an address of its own.  haptic_feedback_thread_entry (main.c)   *)
(* then measures and drives the motors in turn, for ever.                  *)
(*                                                                         *)
(* A transfer on the bus may fail: the address is not acknowledged, which  *)
(* the driver notices, or a byte behind it is lost or garbled.  The driver *)
(* looks at the acknowledge of the address only.                           *)
(***************************************************************************)
EXTENDS Integers, FiniteSets

CONSTANTS
    N,                              \* number of sensors, 5 in the code
    Dist,                           \* distances a sensor may measure, in mm
    MIN_DISTANCE, MAX_DISTANCE,     \* 100 and 2000
    MAX_VIBRATION, MIN_VIBRATION,   \* 100 and 0
    MaxFaults                       \* bound: transfers that fail

ASSUME SensorsAssumption == N \in Nat \ {0} /\ MaxFaults \in Nat

ASSUME VibrationAssumption ==
    /\ Dist \subseteq Nat /\ MIN_DISTANCE \in Nat /\ MAX_DISTANCE \in Nat
    /\ MIN_DISTANCE < MAX_DISTANCE
    /\ MIN_VIBRATION = 0 /\ MAX_VIBRATION \in Nat

Sensor == 1..N
DEFAULT_ADDR == 0    \* 0x52; the address of sensor k is k
Addr == 0..N

VARIABLES
    xshut,        \* sensor -> is it out of reset?
    at,           \* sensor -> the address it answers to
    I2cDevAddr,   \* sensor -> the address in its vl53l0x_dev structure
    reported,     \* sensor -> what vl53l0x_init returned
    configured,   \* sensors whose vl53l0x_set_mode went through
    pc, cur,      \* the program, and the sensor it is at
    data,         \* sensor -> who gave the last measurement, and its distance
                  \* (0 if RangeStatus is not 0, as read_vl53l0x_data returns)
    fresh,        \* history: sensors measured in this round
    motor,        \* sensor -> duty cycle of its motor
    faults        \* number of failed transfers

bringup == <<xshut, at, I2cDevAddr, reported, configured>>
haptic == <<data, fresh, motor>>
vars == <<bringup, haptic, pc, cur, faults>>

\* After power-up, or after a reset of the processor alone, which leaves the
\* sensors where the last bring-up put them.
Init ==
    /\ xshut \in [Sensor -> {0, 1}]
    /\ at \in [Sensor -> Addr]
    /\ I2cDevAddr = [k \in Sensor |-> DEFAULT_ADDR]
    /\ reported = [k \in Sensor |-> "none"] /\ configured = {}
    /\ pc = "shut" /\ cur = 1 /\ faults = 0
    /\ data = [k \in Sensor |-> [by |-> {}, dist |-> 0]]
    /\ fresh = {} /\ motor = [k \in Sensor |-> 0]
-----------------------------------------------------------------------------
(***************************************************************************)
(* The bus.                                                                *)
(***************************************************************************)

Answering(a) == {s \in Sensor : xshut[s] = 1 /\ at[s] = a}
Fault == faults < MaxFaults /\ faults' = faults + 1
Succeeds(a) == Answering(a) # {} /\ UNCHANGED faults
Fails(a) == (Answering(a) = {} /\ UNCHANGED faults) \/ Fault
-----------------------------------------------------------------------------
(***************************************************************************)
(* VL53L0X_Init.                                                           *)
(***************************************************************************)

\* All sensors go into reset, which makes them forget their addresses.
Shut ==
    /\ pc = "shut"
    /\ xshut' = [k \in Sensor |-> 0] /\ at' = [k \in Sensor |-> DEFAULT_ADDR]
    /\ pc' = "power"
    /\ UNCHANGED <<I2cDevAddr, reported, configured, haptic, cur, faults>>

\* Mutant: every sensor is released at once.
Power_All ==
    /\ pc = "power"
    /\ xshut' = [k \in Sensor |-> 1]
    /\ I2cDevAddr' = [I2cDevAddr EXCEPT ![cur] = DEFAULT_ADDR]
    /\ pc' = "std"
    /\ UNCHANGED <<at, reported, configured, haptic, cur, faults>>

\* One sensor wakes up, at the default address.
Power ==
    /\ pc = "power"
    /\ xshut' = [xshut EXCEPT ![cur] = 1]
    /\ I2cDevAddr' = [I2cDevAddr EXCEPT ![cur] = DEFAULT_ADDR]
    /\ pc' = "std"
    /\ UNCHANGED <<at, reported, configured, haptic, cur, faults>>

\* vl53l0x_Addr_set: a write and a read of the model id at 0x52; on any error
\* it gives up with I2cDevAddr as it was, at the default.  Its result is
\* thrown away by the caller.
Ask(here, next) ==
    /\ pc = here
    /\ \/ Succeeds(DEFAULT_ADDR) /\ pc' = next
       \/ Fails(DEFAULT_ADDR) /\ pc' = "init"
    /\ UNCHANGED <<bringup, haptic, cur>>

StdMode == Ask("std", "id")
ReadId == Ask("id", "set")

\* Mutant: the third of the copied functions kept the address of the second.
Target_CopyPaste(k) == IF k = 3 THEN 2 ELSE k

\* The address that vl53l0x_init1 .. 5 ask for.
Target(k) == k

\* VL53L0X_SetDeviceAddress at 0x52 moves every sensor that hears it.  If the
\* data byte is lost for some of them the driver does not notice; the read that
\* verifies the new address has no effect but a message.
SetAddress ==
    /\ pc = "set" /\ pc' = "init"
    /\ \/ /\ Fails(DEFAULT_ADDR)
          /\ UNCHANGED <<at, I2cDevAddr>>
       \/ \E moved \in SUBSET Answering(DEFAULT_ADDR) :
            /\ (Succeeds(DEFAULT_ADDR) /\ moved = Answering(DEFAULT_ADDR)) \/ Fault
            /\ at' = [s \in Sensor |-> IF s \in moved THEN Target(cur) ELSE at[s]]
            /\ I2cDevAddr' = [I2cDevAddr EXCEPT ![cur] = Target(cur)]
    /\ UNCHANGED <<xshut, reported, configured, haptic, cur>>

\* The next sensor, or the haptic thread.
NextSensor(here, end) ==
    IF cur < N THEN cur' = cur + 1 /\ pc' = here ELSE cur' = 1 /\ pc' = end

\* VL53L0X_DataInit and VL53L0X_GetDeviceInfo, whatever became of the address.
DataInit ==
    /\ pc = "init"
    /\ \/ /\ Succeeds(I2cDevAddr[cur])
          /\ reported' = [reported EXCEPT ![cur] = "ok"]
          /\ IF I2cDevAddr[cur] = cur THEN pc' = "mode" /\ UNCHANGED cur
                                      ELSE NextSensor("power", "measure")
       \/ /\ Fails(I2cDevAddr[cur])
          /\ reported' = [reported EXCEPT ![cur] = "error"]
          /\ NextSensor("power", "measure")
    /\ UNCHANGED <<xshut, at, I2cDevAddr, configured, haptic>>

\* vl53l0x_set_mode.
SetMode ==
    /\ pc = "mode"
    /\ \/ Succeeds(I2cDevAddr[cur]) /\ configured' = configured \union {cur}
       \/ Fails(I2cDevAddr[cur]) /\ UNCHANGED configured
    /\ NextSensor("power", "measure")
    /\ UNCHANGED <<xshut, at, I2cDevAddr, reported, haptic>>
-----------------------------------------------------------------------------
(***************************************************************************)
(* haptic_feedback_thread_entry.                                           *)
(***************************************************************************)

\* One sensor's part of VL53L0X_GetValue.  A measurement that fails leaves the
\* data of the last one; one without vl53l0x_set_mode may fail at any time.
Measure ==
    /\ pc = "measure"
    /\ LET old == IF cur = 1 THEN {} ELSE fresh IN
       \/ /\ Succeeds(I2cDevAddr[cur])
          /\ \E d \in Dist \union {0} :
                data' = [data EXCEPT ![cur] = [by |-> Answering(I2cDevAddr[cur]), dist |-> d]]
          /\ fresh' = old \union {cur}
       \/ /\ Fails(I2cDevAddr[cur]) \/ (cur \notin configured /\ UNCHANGED faults)
          /\ fresh' = old /\ UNCHANGED data
    /\ NextSensor("measure", "drive")
    /\ UNCHANGED <<bringup, motor>>

\* The linear part of the map from distance to duty cycle.
Linear(d) ==
    MAX_VIBRATION - ((d - MIN_DISTANCE) * (MAX_VIBRATION - MIN_VIBRATION))
                    \div (MAX_DISTANCE - MIN_DISTANCE)

\* Mutant: the distance is not compared with MAX_DISTANCE.
Pwm_NoMax(d) ==
    IF d = 0 THEN 0 ELSE IF d < MIN_DISTANCE THEN MAX_VIBRATION ELSE Linear(d)

\* Mutant: an obstacle that is very near counts as none.
Pwm_NearIsNone(d) ==
    IF d < MIN_DISTANCE \/ d > MAX_DISTANCE THEN MIN_VIBRATION ELSE Linear(d)

\* The duty cycle for a distance; 0 stands for an invalid measurement.
Pwm(d) ==
    IF d = 0 THEN 0
    ELSE IF d < MIN_DISTANCE THEN MAX_VIBRATION
    ELSE IF d > MAX_DISTANCE THEN MIN_VIBRATION
    ELSE Linear(d)

\* The motors are set, and the thread sleeps until the next round.
Drive ==
    /\ pc = "drive"
    /\ motor' = [k \in Sensor |-> Pwm(data[k].dist)]
    /\ pc' = "measure" /\ UNCHANGED <<cur, bringup, data, fresh, faults>>

Next ==
    \/ Shut \/ Power \/ StdMode \/ ReadId \/ SetAddress \/ DataInit \/ SetMode
    \/ Measure \/ Drive

Spec == Init /\ [][Next]_vars
-----------------------------------------------------------------------------
\* Types; a duty cycle is at most MAX_VIBRATION and never negative.
TypeOK ==
    /\ xshut \in [Sensor -> {0, 1}] /\ at \in [Sensor -> Addr]
    /\ I2cDevAddr \in [Sensor -> Addr] /\ configured \subseteq Sensor
    /\ reported \in [Sensor -> {"none", "ok", "error"}]
    /\ pc \in {"shut", "power", "std", "id", "set", "init", "mode", "measure", "drive"}
    /\ cur \in Sensor /\ fresh \subseteq Sensor /\ faults \in 0..MaxFaults
    /\ data \in [Sensor -> [by : SUBSET Sensor, dist : Dist \union {0}]]
    /\ motor \in [Sensor -> 0..MAX_VIBRATION]

\* However many transfers fail, and wherever the sensors were before, trouble
\* with one of them never reaches a sensor before it: at the address of
\* sensor k only sensors up to k answer, and none at all before its turn.
FaultsSpreadForward ==
    pc # "shut" =>
        \A s \in Sensor : xshut[s] = 1 =>
            /\ s <= cur \/ pc \in {"measure", "drive"}
            /\ at[s] # DEFAULT_ADDR => s <= at[s] /\ (at[s] <= cur \/ pc \in {"measure", "drive"})

\* Without a fault every motor follows the sensor in its own direction.
OwnSensor == faults = 0 => \A k \in Sensor : data[k].by \subseteq {k}

\* One failed transfer may silence a motor or mix another sensor's answers into
\* its own, but a motor is not driven by other sensors alone.
OneFaultNeverSwaps ==
    faults <= 1 => \A k \in Sensor : data[k].by # {} => k \in data[k].by

\* Without a fault every sensor is configured and measures, so that a motor that
\* vibrates does so for a measurement of the current round.  A fault leaves the
\* old data in place, which then counts as new.
NoStaleVibration ==
    (faults = 0 /\ pc = "measure" /\ cur = 1) => \A k \in Sensor : motor[k] > 0 => k \in fresh

\* Of two obstacles the nearer one makes its motor vibrate at least as strongly.
CloserIsStronger ==
    (pc = "measure" /\ cur = 1) =>
        \A j, k \in Sensor :
            (data[j].dist > 0 /\ data[j].dist <= data[k].dist) => motor[j] >= motor[k]
=============================================================================
