----------------------------- MODULE ImuUpdate -----------------------------
(***************************************************************************)
(* How a sample of the WT61C gets from the USART2 interrupt to the fall    *)
(* detection thread.  CopeWitData (wit_c_sdk.c) stores the words of a      *)
(* frame in sReg and calls SensorDataUpdata (wt61c_bsp.c), which sets bits *)
(* of s_cDataUpdate; getWT61C, called by the thread through read_imu_data, *)
(* tests s_cDataUpdate, copies sReg word by word and clears the bits one   *)
(* after the other, each by a load and a store.  Nothing masks the         *)
(* interrupt, so it may come between any two of these accesses.            *)
(*                                                                         *)
(* A sample is represented by the number of its frame.  The words of a     *)
(* frame are written by one interrupt, so one number per group of          *)
(* registers stands for sReg.                                              *)
(***************************************************************************)
EXTENDS Naturals, Sequences

CONSTANT MaxFrames     \* bound: frames received from the sensor

ASSUME FramesAssumption == MaxFrames \in Nat

VARIABLES
    sReg,            \* group -> number of the frame stored in its registers
    s_cDataUpdate,   \* the set of bits that are set
    fData,           \* fAcc, fGyro, fAngle: group -> axis -> frame number
    pc, n,           \* where getWT61C is, and its loop counter
    loaded,          \* s_cDataUpdate as loaded by the &= in progress
    atCall,          \* history: sReg when the call began
    frames           \* number of frames received

isr == <<sReg, frames>>
thread == <<fData, pc, n, loaded, atCall>>
imuVars == <<isr, thread, s_cDataUpdate>>

Group == {"acc", "gyro", "angle"}
Axis == 0..2
Bits == {"ACC", "GYRO", "ANGLE", "MAG", "READ"}

\* Frame types that CopeWitData knows by name, one that it stores under a
\* register number nobody looks at, and one that it does not know.
FrameType == {"WIT_ACC", "WIT_GYRO", "WIT_ANGLE", "WIT_MAGNETIC", "WIT_TIME", "unknown"}

\* The registers CopeWitData writes for a frame.
Registers(type) ==
    CASE type = "WIT_ACC"      -> {"AX", "AY", "AZ", "TEMP"}
      [] type = "WIT_GYRO"     -> {"GX", "GY", "GZ"}
      [] type = "WIT_ANGLE"    -> {"Roll", "Pitch", "Yaw", "VERSION"}
      [] type = "WIT_MAGNETIC" -> {"HX", "HY", "HZ"}
      [] type = "WIT_TIME"     -> {"YYMM", "DDHH", "MMSS", "MS"}
      [] OTHER                 -> {}

\* The group of registers that getWT61C reads and a frame writes.
GroupOf(type) ==
    CASE type = "WIT_ACC"   -> {"acc"}
      [] type = "WIT_GYRO"  -> {"gyro"}
      [] type = "WIT_ANGLE" -> {"angle"}
      [] OTHER              -> {}

\* Mutant: the cases that are commented out in the code are back.
RegBit_AllAxes(r) ==
    CASE r \in {"AX", "AY", "AZ"}          -> "ACC"
      [] r \in {"GX", "GY", "GZ"}          -> "GYRO"
      [] r \in {"HX", "HY", "HZ"}          -> "MAG"
      [] r \in {"Roll", "Pitch", "Yaw"}    -> "ANGLE"
      [] OTHER                             -> "READ"

\* The bit that SensorDataUpdata sets for a register.
RegBit(r) ==
    CASE r = "AZ"  -> "ACC"
      [] r = "GZ"  -> "GYRO"
      [] r = "HZ"  -> "MAG"
      [] r = "Yaw" -> "ANGLE"
      [] OTHER     -> "READ"

\* SensorDataUpdata for all registers of a frame.
SensorDataUpdata(regs) == s_cDataUpdate \union {RegBit(r) : r \in regs}

ImuInit ==
    /\ sReg = [g \in Group |-> 0] /\ s_cDataUpdate = {}
    /\ fData = [g \in Group |-> [k \in Axis |-> 0]]
    /\ pc = "idle" /\ n = 0 /\ loaded = {}
    /\ atCall = [g \in Group |-> 0] /\ frames = 0
-----------------------------------------------------------------------------
\* CopeWitData, in the receive interrupt.
CopeWitData(type) ==
    /\ frames < MaxFrames
    /\ frames' = frames + 1
    /\ sReg' = [g \in Group |-> IF g \in GroupOf(type) THEN frames + 1 ELSE sReg[g]]
    /\ s_cDataUpdate' = SensorDataUpdata(Registers(type))
    /\ UNCHANGED thread

\* read_imu_data calls getWT61C.
Call ==
    /\ pc = "idle"
    /\ pc' = "test" /\ atCall' = sReg
    /\ UNCHANGED <<fData, n, loaded, isr, s_cDataUpdate>>

\* if(s_cDataUpdate)
Test ==
    /\ pc = "test"
    /\ pc' = IF s_cDataUpdate = {} THEN "done" ELSE "copy"
    /\ n' = 0
    /\ UNCHANGED <<fData, loaded, atCall, isr, s_cDataUpdate>>

\* Mutant: the registers are read from the third axis to the first.
Copy_Backwards ==
    /\ pc = "copy"
    /\ fData' = [g \in Group |-> [fData[g] EXCEPT ![2 - n] = sReg[g]]]
    /\ IF n = 2 THEN pc' = "bit" /\ n' = 1 ELSE pc' = "copy" /\ n' = n + 1
    /\ UNCHANGED <<loaded, atCall, isr, s_cDataUpdate>>

\* One pass of the copy loop.  The words of different groups are not compared
\* by anyone, so that one step may stand for the three reads.
Copy ==
    /\ pc = "copy"
    /\ fData' = [g \in Group |-> [fData[g] EXCEPT ![n] = sReg[g]]]
    /\ IF n = 2 THEN pc' = "bit" /\ n' = 1 ELSE pc' = "copy" /\ n' = n + 1
    /\ UNCHANGED <<loaded, atCall, isr, s_cDataUpdate>>

\* The bits in the order getWT61C clears them.
BitOrder == <<"ACC", "GYRO", "ANGLE", "MAG">>

\* The next bit, or the end of getWT61C.
NextBit == IF n = 4 THEN pc' = "done" /\ n' = 0 ELSE pc' = "bit" /\ n' = n + 1

\* if(s_cDataUpdate & BIT), and the load of the &= behind it.
TestBit ==
    /\ pc = "bit"
    /\ IF BitOrder[n] \in s_cDataUpdate THEN pc' = "load" /\ UNCHANGED n ELSE NextBit
    /\ UNCHANGED <<fData, loaded, atCall, isr, s_cDataUpdate>>

LoadBits ==
    /\ pc = "load"
    /\ loaded' = s_cDataUpdate /\ pc' = "store"
    /\ UNCHANGED <<fData, n, atCall, isr, s_cDataUpdate>>

\* The store of the &=: what the interrupt has set since the load is lost.
StoreBits ==
    /\ pc = "store"
    /\ s_cDataUpdate' = loaded \ {BitOrder[n]}
    /\ NextBit
    /\ UNCHANGED <<fData, loaded, atCall, isr>>

\* The thread uses fAcc and fGyro and sleeps until its next call.
Return ==
    /\ pc = "done"
    /\ pc' = "idle"
    /\ UNCHANGED <<fData, n, loaded, atCall, isr, s_cDataUpdate>>

Thread == Call \/ Test \/ Copy \/ TestBit \/ LoadBits \/ StoreBits \/ Return

ImuNext == (\E type \in FrameType : CopeWitData(type)) \/ Thread

\* The fall detection thread has the second highest priority and wakes up every
\* 10 ms.
ImuSpec == ImuInit /\ [][ImuNext]_imuVars /\ WF_imuVars(Thread)
-----------------------------------------------------------------------------
\* Types of the shared and of the thread's variables.
ImuTypeOK ==
    /\ sReg \in [Group -> Nat] /\ atCall \in [Group -> Nat] /\ frames \in Nat
    /\ s_cDataUpdate \subseteq Bits /\ loaded \subseteq Bits
    /\ fData \in [Group -> [Axis -> Nat]]
    /\ pc \in {"idle", "test", "copy", "bit", "load", "store", "done"}
    /\ n \in 0..4

\* The stores race with the interrupt and do lose ACC, GYRO and ANGLE bits, but
\* never the information that there is a sample: every frame also sets READ,
\* which getWT61C never clears and which every load finds.
SampleFlagged ==
    /\ s_cDataUpdate # {} => "READ" \in s_cDataUpdate
    /\ (\E g \in Group : sReg[g] # 0) => s_cDataUpdate # {}

\* A call of getWT61C returns samples at least as new as the ones that were in
\* the registers when it was called, on every axis.
Fresh == pc = "done" => \A g \in Group, k \in Axis : fData[g][k] >= atCall[g]

\* The three axes may come from different frames, but only one way: an axis
\* read later is never older, and none is newer than the registers.
TornForward ==
    pc \in {"bit", "load", "store", "done"} =>
        \A g \in Group : /\ fData[g][0] <= fData[g][1] /\ fData[g][1] <= fData[g][2]
                         /\ fData[g][2] <= sReg[g]

\* Every sample is seen by the thread, or a newer one instead.
SampleArrives ==
    \A f \in 1..MaxFrames, g \in Group :
        sReg[g] >= f ~> \A k \in Axis : fData[g][k] >= f
=============================================================================
