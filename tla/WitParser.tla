----------------------------- MODULE WitParser -----------------------------
(***************************************************************************)
(* WitSerialDataIn of the Wit SDK (hardware/WT61C/wit_c_sdk.c) in the mode *)
(* the application selects, WIT_PROTOCOL_NORMAL: the USART2 callback hands *)
(* it every byte from the WT61C inertial sensor.  A frame has 11 bytes:    *)
(* 0x55, a type, four 16-bit words and a checksum.                         *)
(***************************************************************************)
EXTENDS Naturals, Sequences, SequencesExt

CONSTANTS
    Byte,                 \* the bytes that can arrive on USART2
    FrameLen,             \* 11 in the code
    HeadByte,             \* 0x55
    Modulus,              \* 256, the checksum is a uint8_t
    WIT_DATA_BUFF_SIZE    \* 256 in the code

ASSUME WitAssumption ==
    /\ Byte \subseteq Nat /\ HeadByte \in Byte /\ Modulus \in Nat \ {0}
    /\ FrameLen \in Nat /\ FrameLen >= 2
    /\ WIT_DATA_BUFF_SIZE \in Nat /\ WIT_DATA_BUFF_SIZE >= FrameLen

VARIABLES
    s_ucWitDataBuff,   \* the receive buffer, an array
    s_uiWitDataCnt,    \* bytes in use in it
    found,             \* the frame handed to CopeWitData last
    window             \* history: the last bytes since that frame

witVars == <<s_ucWitDataBuff, s_uiWitDataCnt, found, window>>

Index == 0..(WIT_DATA_BUFF_SIZE - 1)

WitInit ==
    /\ s_ucWitDataBuff = [k \in Index |-> 0] /\ s_uiWitDataCnt = 0
    /\ found = <<>> /\ window = <<>>
-----------------------------------------------------------------------------
\* __CaliSum over a sequence of bytes.
CaliSum(data) == FoldLeft(LAMBDA x, y : (x + y) % Modulus, 0, data)

\* A frame: the head byte, and the checksum of all bytes but the last in the last.
Valid(f) == f[1] = HeadByte /\ f[FrameLen] = CaliSum([k \in 1..(FrameLen - 1) |-> f[k]])

\* The first n bytes of the buffer as a sequence.
Bytes(buf, n) == [k \in 1..n |-> buf[k - 1]]

\* memcpy(buff, &buff[1], n): the buffer moves down by one byte.
Shift(buf, n) == [k \in Index |-> IF k < n THEN buf[k + 1] ELSE buf[k]]

\* The store at the head of WitSerialDataIn.
Store(b) == [s_ucWitDataBuff EXCEPT ![s_uiWitDataCnt] = b]

\* if(s_uiWitDataCnt == WIT_DATA_BUFF_SIZE) s_uiWitDataCnt = 0;
Wrap(n) == IF n = WIT_DATA_BUFF_SIZE THEN 0 ELSE n

\* The history variable follows the stream and starts afresh behind a frame.
Push(b) ==
    LET w == Append(window, b) IN window' = IF Len(w) = FrameLen THEN Tail(w) ELSE w

\* The first byte in the buffer is no head: drop it.
NoHead(b) ==
    /\ Store(b)[0] # HeadByte
    /\ s_ucWitDataBuff' = Shift(Store(b), s_uiWitDataCnt)
    /\ UNCHANGED <<s_uiWitDataCnt, found>>
    /\ Push(b)

\* The frame is not complete yet.
Collect(b) ==
    /\ Store(b)[0] = HeadByte /\ s_uiWitDataCnt + 1 < FrameLen
    /\ s_ucWitDataBuff' = Store(b)
    /\ s_uiWitDataCnt' = Wrap(s_uiWitDataCnt + 1)
    /\ UNCHANGED found
    /\ Push(b)

\* The checksum in the buffer is the sum of the bytes before it.
SumMatches(buf) == CaliSum(Bytes(buf, FrameLen - 1)) = buf[FrameLen - 1]

\* Mutant of BadSum: the whole frame is dropped.
BadSum_DropsFrame(b) ==
    /\ Store(b)[0] = HeadByte /\ s_uiWitDataCnt + 1 >= FrameLen
    /\ ~ SumMatches(Store(b))
    /\ s_ucWitDataBuff' = Store(b) /\ s_uiWitDataCnt' = 0
    /\ UNCHANGED found
    /\ Push(b)

\* The checksum is wrong: drop one byte, not the frame.
BadSum(b) ==
    /\ Store(b)[0] = HeadByte /\ s_uiWitDataCnt + 1 >= FrameLen
    /\ ~ SumMatches(Store(b))
    /\ s_ucWitDataBuff' = Shift(Store(b), s_uiWitDataCnt)
    /\ UNCHANGED <<s_uiWitDataCnt, found>>
    /\ Push(b)

\* A frame: it goes to CopeWitData and the buffer is empty.
Accept(b) ==
    /\ Store(b)[0] = HeadByte /\ s_uiWitDataCnt + 1 >= FrameLen
    /\ SumMatches(Store(b))
    /\ found' = Bytes(Store(b), FrameLen)
    /\ s_ucWitDataBuff' = Store(b) /\ s_uiWitDataCnt' = 0
    /\ window' = <<>>

\* WitSerialDataIn.
WitSerialDataIn(b) == NoHead(b) \/ Collect(b) \/ BadSum(b) \/ Accept(b)

WitNext == \E b \in Byte : WitSerialDataIn(b)
WitSpec == WitInit /\ [][WitNext]_witVars
-----------------------------------------------------------------------------
\* Types of the parser's static variables.
WitTypeOK ==
    /\ s_ucWitDataBuff \in [Index -> Byte \union {0}]
    /\ s_uiWitDataCnt \in 0..(FrameLen - 1)
    /\ found \in Seq(Byte) /\ window \in Seq(Byte)

\* The buffer holds the newest bytes of the window, and what the parser has
\* dropped of the window contains no head byte: the parser forgets only what no
\* frame can begin with.
BufferIsWindow ==
    LET m == s_uiWitDataCnt
        n == Len(window)
    IN  /\ m <= n /\ n < FrameLen
        /\ \A k \in 1..m : s_ucWitDataBuff[k - 1] = window[n - m + k]
        /\ \A k \in 1..(n - m) : window[k] # HeadByte
        /\ m \in 1..(FrameLen - 2) => s_ucWitDataBuff[0] = HeadByte

\* The parser finds exactly the frames a sliding window over the stream shows:
\* it resynchronises on the next frame after any garbage.
Detector == INSTANCE WitDetector WITH
    window <- window, found <- found, Byte <- Byte, FrameLen <- FrameLen, Valid <- Valid
FindsExactlyTheFrames == Detector!Spec
=============================================================================
