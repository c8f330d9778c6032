-------------------------------- MODULE Imu --------------------------------
(***************************************************************************)
(* The way of a sample of the WT61C from the byte stream to the fall       *)
(* detection thread: the USART2 interrupt hands every byte to the parser   *)
(* (WitParser), which hands every frame to CopeWitData (ImuUpdate) within  *)
(* the same interrupt, while getWT61C runs in the thread.                  *)
(***************************************************************************)
EXTENDS WitParser, ImuUpdate

CONSTANT TypeOf     \* byte -> the frame type of the switch in CopeWitData

ASSUME TypeAssumption == TypeOf \in [Byte -> FrameType] /\ FrameLen >= 3

Init == WitInit /\ ImuInit

vars == <<witVars, imuVars>>

\* WitSerialDataIn with the CopeWitData it calls for a frame.
Receive(b) ==
    \/ (NoHead(b) \/ Collect(b) \/ BadSum(b)) /\ UNCHANGED imuVars
    \/ Accept(b) /\ CopeWitData(TypeOf[found'[2]])

Next == (\E b \in Byte : Receive(b)) \/ (Thread /\ UNCHANGED witVars)

\* The fall detection thread has the second highest priority and wakes up every
\* 10 ms.
Spec == Init /\ [][Next]_vars /\ WF_vars(Thread /\ UNCHANGED witVars)
-----------------------------------------------------------------------------
\* Types of the parser's, the shared and the thread's variables.
TypeOK == WitTypeOK /\ ImuTypeOK
=============================================================================
