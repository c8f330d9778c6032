------------------------------ MODULE ImuProof ------------------------------
(***************************************************************************)
(* For every frame length, head byte, checksum modulus and byte set, and   *)
(* for any number of frames: WitSerialDataIn finds exactly the frames that *)
(* a sliding window over the stream shows, and the race between getWT61C   *)
(* and the interrupt over s_cDataUpdate loses no sample.                   *)
(***************************************************************************)
EXTENDS Imu, SequenceTheorems, TLAPS
-----------------------------------------------------------------------------
(***************************************************************************)
(* The parser.                                                             *)
(***************************************************************************)

\* The inductive invariant.
WitInv == WitTypeOK /\ BufferIsWindow

\* What appending a byte does to a sequence.
LEMMA AppendByte ==
    ASSUME NEW s \in Seq(Byte), NEW b \in Byte, NEW t, t = Append(s, b)
    PROVE  /\ t \in Seq(Byte) /\ Len(s) \in Nat /\ Len(t) = Len(s) + 1
           /\ \A k \in 1..Len(s) : t[k] = s[k]
           /\ t[Len(s) + 1] = b
  OBVIOUS

\* What the tail of a non-empty sequence is.
LEMMA TailByte ==
    ASSUME NEW s \in Seq(Byte), Len(s) > 0, NEW t, t = Tail(s)
    PROVE  /\ t \in Seq(Byte) /\ Len(t) = Len(s) - 1
           /\ \A k \in 1..(Len(s) - 1) : t[k] = s[k + 1]
  OBVIOUS

\* A sequence is the function of its elements.
LEMMA SeqDefining ==
    ASSUME NEW s \in Seq(Byte)
    PROVE  s = [k \in 1..Len(s) |-> s[k]]
  <1>1. s \in [1..Len(s) -> Byte]
    BY LenProperties
  <1> QED BY <1>1, Zenon

\* WitInit establishes the inductive invariant.
LEMMA InitWit == WitInit => WitInv
  BY WitAssumption DEF WitInit, WitInv, WitTypeOK, BufferIsWindow, Index

\* The state after the store of byte b at the head of WitSerialDataIn, and the
\* window with b: the newest bytes agree.
Sizes(m, len) == m \in Nat /\ len \in Nat /\ m <= len /\ len < FrameLen
Agree(b, w, m, len) == \A k \in 1..(m + 1) : Store(b)[k - 1] = w[len - m + k]
Headless(w, m, len) == \A k \in 1..(len - m) : w[k] # HeadByte
StoredFacts(b, w, m, len) ==
    /\ Sizes(m, len)
    /\ w \in Seq(Byte) /\ Len(w) = len + 1
    /\ Store(b) \in [Index -> Byte \union {0}]
    /\ Agree(b, w, m, len) /\ Headless(w, m, len)
    /\ m \in 1..(FrameLen - 2) => Store(b)[0] = HeadByte

\* They hold after the store.
LEMMA Stored ==
    ASSUME WitInv, NEW b \in Byte, NEW w, w = Append(window, b),
           NEW m, m = s_uiWitDataCnt, NEW len, len = Len(window)
    PROVE  StoredFacts(b, w, m, len)
  <1>1. /\ m \in Nat /\ len \in Nat /\ m <= len /\ len < FrameLen
        /\ window \in Seq(Byte) /\ s_ucWitDataBuff \in [Index -> Byte \union {0}]
    BY WitAssumption DEF WitInv, WitTypeOK, BufferIsWindow
  <1>2. /\ w \in Seq(Byte) /\ Len(w) = len + 1 /\ w[len + 1] = b
        /\ \A k \in 1..len : w[k] = window[k]
    BY <1>1, AppendByte
  <1>3. m \in Index /\ \A k \in 1..m : k - 1 \in Index /\ k - 1 # m
    BY <1>1, WitAssumption DEF Index
  <1>4. /\ Store(b) \in [Index -> Byte \union {0}] /\ Store(b)[m] = b
        /\ \A k \in Index : k # m => Store(b)[k] = s_ucWitDataBuff[k]
    BY <1>1, <1>3 DEF Store
  <1>5. /\ \A k \in 1..m : s_ucWitDataBuff[k - 1] = window[len - m + k]
        /\ \A k \in 1..(len - m) : window[k] # HeadByte
        /\ m \in 1..(FrameLen - 2) => s_ucWitDataBuff[0] = HeadByte
    BY DEF WitInv, BufferIsWindow
  <1>6. \A k \in 1..(m + 1) : Store(b)[k - 1] = w[len - m + k]
    <2> TAKE k \in 1..(m + 1)
    <2>1. CASE k = m + 1
      BY <1>1, <1>2, <1>4, <2>1
    <2>2. CASE k # m + 1
      <3>1. k \in 1..m /\ len - m + k \in 1..len
        BY <1>1, <2>2
      <3> QED BY <1>2, <1>3, <1>4, <1>5, <3>1
    <2> QED BY <2>1, <2>2
  <1>7. \A k \in 1..(len - m) : w[k] # HeadByte
    BY <1>1, <1>2, <1>5
  <1>8. m \in 1..(FrameLen - 2) => Store(b)[0] = HeadByte
    BY <1>1, <1>3, <1>4, <1>5, WitAssumption DEF Index
  <1> QED BY <1>1, <1>2, <1>4, <1>6, <1>7, <1>8 DEF StoredFacts, Sizes, Agree, Headless

\* The parts of the invariant after a step that leaves m bytes in the buffer and
\* len in the window.
After(m, len) ==
    /\ Sizes(m, len) /\ s_uiWitDataCnt' = m /\ Len(window') = len
    /\ window' \in Seq(Byte) /\ found' \in Seq(Byte)
    /\ s_ucWitDataBuff' \in [Index -> Byte \union {0}]
    /\ \A k \in 1..m : s_ucWitDataBuff'[k - 1] = window'[len - m + k]
    /\ \A k \in 1..(len - m) : window'[k] # HeadByte
    /\ m \in 1..(FrameLen - 2) => s_ucWitDataBuff'[0] = HeadByte

\* The invariant, put together after a step.
LEMMA InvIntro ==
    ASSUME NEW m, NEW len, After(m, len)
    PROVE  WitInv'
  <1>1. WitTypeOK'
    BY WitAssumption DEF WitTypeOK, Sizes, After
  <1>2. BufferIsWindow'
    BY DEF BufferIsWindow, Sizes, After
  <1> QED BY <1>1, <1>2 DEF WitInv

\* A byte that completes no frame: the window slides, and the abstract
\* detector takes the same step.
LEMMA NotFound ==
    ASSUME WitInv, NEW b \in Byte, Push(b), UNCHANGED found,
           NEW w, w = Append(window, b), ~ (Len(w) = FrameLen /\ Valid(w))
    PROVE  Detector!Input(b)
  BY DEF Push, Detector!Input, Detector!Slide

\* The first byte in the buffer is no head.
LEMMA NoHeadStep ==
    ASSUME WitInv, NEW b \in Byte, NoHead(b)
    PROVE  WitInv' /\ Detector!Input(b)
  <1>1. PICK w, m, len : w = Append(window, b) /\ m = s_uiWitDataCnt /\ len = Len(window)
    OBVIOUS
  <1>0. StoredFacts(b, w, m, len)
    BY <1>1, Stored
  <1>2. m \in Nat /\ len \in Nat /\ m <= len /\ len < FrameLen
    BY <1>0 DEF StoredFacts, Sizes
  <1>w. w \in Seq(Byte) /\ Len(w) = len + 1
    BY <1>0 DEF StoredFacts
  <1>s. Store(b) \in [Index -> Byte \union {0}]
    BY <1>0 DEF StoredFacts
  <1>a. \A k \in 1..(m + 1) : Store(b)[k - 1] = w[len - m + k]
    BY <1>0 DEF StoredFacts, Agree
  <1>h. \A k \in 1..(len - m) : w[k] # HeadByte
    BY <1>0 DEF StoredFacts, Headless
  <1>3. Store(b)[0] # HeadByte
    BY DEF NoHead
  <1>4. m = 0 \/ (m = len /\ len = FrameLen - 1)
    <2>1. ~ (m \in 1..(FrameLen - 2))
      BY <1>0, <1>3 DEF StoredFacts
    <2> QED BY <1>2, <2>1, WitAssumption
  <1>5. w[len - m + 1] # HeadByte
    <2>1. 1 \in 1..(m + 1)
      BY <1>2
    <2>2. Store(b)[1 - 1] = w[len - m + 1]
      BY <1>a, <2>1
    <2> QED BY <1>3, <2>2
  <1>6. w[1] # HeadByte
    <2>1. CASE len - m = 0
      BY <1>2, <1>5, <2>1
    <2>2. CASE len - m # 0
      BY <1>2, <1>h, <2>2
    <2> QED BY <2>1, <2>2
  <1>7. /\ s_uiWitDataCnt' = m /\ found' = found
        /\ s_ucWitDataBuff' = Shift(Store(b), m)
        /\ window' = IF Len(w) = FrameLen THEN Tail(w) ELSE w
    BY <1>1 DEF NoHead, Push
  <1>8. s_ucWitDataBuff' \in [Index -> Byte \union {0}]
    BY <1>2, <1>s, <1>7, WitAssumption DEF Shift, Index
  <1>9. \A k \in 1..m : s_ucWitDataBuff'[k - 1] = Store(b)[k]
    BY <1>2, <1>7, WitAssumption DEF Shift, Index
  <1>f. found' \in Seq(Byte)
    BY <1>7 DEF WitInv, WitTypeOK
  <1>10. ASSUME Len(w) = FrameLen PROVE WitInv'
    <2>1. /\ window' \in Seq(Byte) /\ Len(window') = len
          /\ \A k \in 1..len : window'[k] = w[k + 1]
      <3>1. Len(w) > 0 /\ Len(w) - 1 = len
        BY <1>2, <1>w
      <3>2. window' = Tail(w)
        BY <1>7, <1>10
      <3> QED BY <1>w, <3>1, <3>2, TailByte
    <2>2. \A k \in 1..m : s_ucWitDataBuff'[k - 1] = window'[len - m + k]
      <3> TAKE k \in 1..m
      <3>1. /\ k + 1 \in 1..(m + 1) /\ len - m + k \in 1..len /\ (k + 1) - 1 = k
            /\ len - m + (k + 1) = (len - m + k) + 1
        BY <1>2
      <3>2. Store(b)[(k + 1) - 1] = w[len - m + (k + 1)]
        BY <1>a, <3>1
      <3>3. window'[len - m + k] = w[(len - m + k) + 1]
        BY <2>1, <3>1
      <3> QED BY <1>9, <3>1, <3>2, <3>3
    <2>3. \A k \in 1..(len - m) : window'[k] # HeadByte
      <3> TAKE k \in 1..(len - m)
      <3>1. m = 0 /\ k \in 1..len
        BY <1>2, <1>4
      <3>2. window'[k] = w[k + 1]
        BY <2>1, <3>1
      <3>3. CASE k = len
        BY <1>2, <1>5, <3>1, <3>2, <3>3
      <3>4. CASE k # len
        BY <1>2, <1>h, <3>1, <3>2, <3>4
      <3> QED BY <3>3, <3>4
    <2>4. m \in 1..(FrameLen - 2) => s_ucWitDataBuff'[0] = HeadByte
      BY <1>2, <1>4, WitAssumption
    <2>5. Sizes(m, len)
      BY <1>2 DEF Sizes
    <2>6. After(m, len)
      BY <1>7, <1>8, <1>f, <2>1, <2>2, <2>3, <2>4, <2>5, Zenon DEF After
    <2> QED BY <2>6, InvIntro
  <1>11. ASSUME Len(w) # FrameLen PROVE WitInv'
    <2>1. window' = w /\ len + 1 < FrameLen /\ m = 0
      BY <1>2, <1>4, <1>w, <1>7, <1>11, WitAssumption
    <2>2. \A k \in 1..((len + 1) - m) : window'[k] # HeadByte
      <3> TAKE k \in 1..((len + 1) - m)
      <3>1. CASE k = len + 1
        BY <1>2, <1>5, <2>1, <3>1
      <3>2. CASE k # len + 1
        BY <1>2, <1>h, <2>1, <3>2
      <3> QED BY <3>1, <3>2
    <2>3. Sizes(m, len + 1)
      BY <1>2, <2>1 DEF Sizes
    <2>4. /\ \A k \in 1..m : s_ucWitDataBuff'[k - 1] = window'[(len + 1) - m + k]
          /\ m \in 1..(FrameLen - 2) => s_ucWitDataBuff'[0] = HeadByte
      BY <2>1
    <2>5. window' \in Seq(Byte) /\ Len(window') = len + 1
      BY <1>w, <2>1
    <2>6. After(m, len + 1)
      BY <1>7, <1>8, <1>f, <2>2, <2>3, <2>4, <2>5, Zenon DEF After
    <2> QED BY <2>6, InvIntro
  <1>12. ~ (Len(w) = FrameLen /\ Valid(w))
    BY <1>6 DEF Valid
  <1>13. Detector!Input(b)
    BY <1>1, <1>12, NotFound DEF NoHead
  <1> QED BY <1>10, <1>11, <1>13

\* A head byte and less than a frame behind it.
LEMMA CollectStep ==
    ASSUME WitInv, NEW b \in Byte, Collect(b)
    PROVE  WitInv' /\ Detector!Input(b)
  <1>1. PICK w, m, len : w = Append(window, b) /\ m = s_uiWitDataCnt /\ len = Len(window)
    OBVIOUS
  <1>0. StoredFacts(b, w, m, len)
    BY <1>1, Stored
  <1>2. m \in Nat /\ len \in Nat /\ m <= len /\ len < FrameLen
    BY <1>0 DEF StoredFacts, Sizes
  <1>w. w \in Seq(Byte) /\ Len(w) = len + 1
    BY <1>0 DEF StoredFacts
  <1>s. Store(b) \in [Index -> Byte \union {0}]
    BY <1>0 DEF StoredFacts
  <1>a. \A k \in 1..(m + 1) : Store(b)[k - 1] = w[len - m + k]
    BY <1>0 DEF StoredFacts, Agree
  <1>h. \A k \in 1..(len - m) : w[k] # HeadByte
    BY <1>0 DEF StoredFacts, Headless
  <1>3. Store(b)[0] = HeadByte /\ m + 1 < FrameLen
    BY <1>1 DEF Collect
  <1>4. /\ s_uiWitDataCnt' = m + 1 /\ found' = found /\ s_ucWitDataBuff' = Store(b)
        /\ window' = IF Len(w) = FrameLen THEN Tail(w) ELSE w
    BY <1>1, <1>2, <1>3, WitAssumption DEF Collect, Push, Wrap
  <1>f. found' \in Seq(Byte)
    BY <1>4 DEF WitInv, WitTypeOK
  <1>8. s_ucWitDataBuff' \in [Index -> Byte \union {0}] /\ s_ucWitDataBuff'[0] = HeadByte
    BY <1>3, <1>4, <1>s
  <1>5. ASSUME Len(w) = FrameLen PROVE WitInv'
    <2>0. m < len
      BY <1>2, <1>3, <1>w, <1>5
    <2>1. /\ window' \in Seq(Byte) /\ Len(window') = len
          /\ \A k \in 1..len : window'[k] = w[k + 1]
      <3>1. Len(w) > 0 /\ Len(w) - 1 = len
        BY <1>2, <1>w
      <3>2. window' = Tail(w)
        BY <1>4, <1>5
      <3> QED BY <1>w, <3>1, <3>2, TailByte
    <2>2. \A k \in 1..(m + 1) : s_ucWitDataBuff'[k - 1] = window'[len - (m + 1) + k]
      <3> TAKE k \in 1..(m + 1)
      <3>1. len - (m + 1) + k \in 1..len /\ (len - (m + 1) + k) + 1 = len - m + k
        BY <1>2, <2>0
      <3>2. window'[len - (m + 1) + k] = w[(len - (m + 1) + k) + 1]
        BY <2>1, <3>1
      <3>3. Store(b)[k - 1] = w[len - m + k]
        BY <1>a
      <3> QED BY <1>4, <3>1, <3>2, <3>3
    <2>3. \A k \in 1..(len - (m + 1)) : window'[k] # HeadByte
      <3> TAKE k \in 1..(len - (m + 1))
      <3>1. k \in 1..len /\ k + 1 \in 1..(len - m)
        BY <1>2, <2>0
      <3>2. window'[k] = w[k + 1]
        BY <2>1, <3>1
      <3> QED BY <1>h, <3>1, <3>2
    <2>4. Sizes(m + 1, len)
      BY <1>2, <2>0 DEF Sizes
    <2>5. After(m + 1, len)
      BY <1>4, <1>8, <1>f, <2>1, <2>2, <2>3, <2>4, Zenon DEF After
    <2> QED BY <2>5, InvIntro
  <1>6. ASSUME Len(w) # FrameLen PROVE WitInv'
    <2>1. window' = w /\ len + 1 < FrameLen
      BY <1>2, <1>4, <1>w, <1>6, WitAssumption
    <2>2. \A k \in 1..(m + 1) : s_ucWitDataBuff'[k - 1] = window'[(len + 1) - (m + 1) + k]
      <3> TAKE k \in 1..(m + 1)
      <3>1. (len + 1) - (m + 1) + k = len - m + k
        BY <1>2
      <3> QED BY <1>a, <1>4, <2>1, <3>1
    <2>3. \A k \in 1..((len + 1) - (m + 1)) : window'[k] # HeadByte
      BY <1>2, <1>h, <2>1
    <2>4. Sizes(m + 1, len + 1)
      BY <1>2, <2>1 DEF Sizes
    <2>5. window' \in Seq(Byte) /\ Len(window') = len + 1
      BY <1>w, <2>1
    <2>6. After(m + 1, len + 1)
      BY <1>4, <1>8, <1>f, <2>2, <2>3, <2>4, <2>5, Zenon DEF After
    <2> QED BY <2>6, InvIntro
  <1>7. ~ (Len(w) = FrameLen /\ Valid(w))
    <2>1. Len(w) = FrameLen => w[1] # HeadByte
      <3>1. Len(w) = FrameLen => 1 \in 1..(len - m)
        BY <1>2, <1>w, <1>3
      <3> QED BY <1>h, <3>1
    <2> QED BY <2>1 DEF Valid
  <1>9. Detector!Input(b)
    BY <1>1, <1>7, NotFound DEF Collect
  <1> QED BY <1>5, <1>6, <1>9

\* A full buffer and the full window show the same bytes.
LEMMA FullBuffer ==
    ASSUME WitInv, NEW b \in Byte, NEW w, w = Append(window, b),
           s_uiWitDataCnt + 1 >= FrameLen
    PROVE  /\ s_uiWitDataCnt = FrameLen - 1 /\ Len(window) = FrameLen - 1
           /\ w \in Seq(Byte) /\ Len(w) = FrameLen
           /\ Store(b) \in [Index -> Byte \union {0}]
           /\ w = Bytes(Store(b), FrameLen)
           /\ Valid(w) <=> (Store(b)[0] = HeadByte /\ SumMatches(Store(b)))
  <1>1. PICK m, len : m = s_uiWitDataCnt /\ len = Len(window)
    OBVIOUS
  <1>0. StoredFacts(b, w, m, len)
    BY <1>1, Stored
  <1>2. m \in Nat /\ len \in Nat /\ m <= len /\ len < FrameLen
    BY <1>0 DEF StoredFacts, Sizes
  <1>w. w \in Seq(Byte) /\ Len(w) = len + 1
    BY <1>0 DEF StoredFacts
  <1>s. Store(b) \in [Index -> Byte \union {0}]
    BY <1>0 DEF StoredFacts
  <1>a. \A k \in 1..(m + 1) : Store(b)[k - 1] = w[len - m + k]
    BY <1>0 DEF StoredFacts, Agree
  <1>h. \A k \in 1..(len - m) : w[k] # HeadByte
    BY <1>0 DEF StoredFacts, Headless
  <1>3. m = FrameLen - 1 /\ len = FrameLen - 1
    BY <1>1, <1>2, WitAssumption
  <1>4. \A k \in 1..FrameLen : Store(b)[k - 1] = w[k]
    <2> TAKE k \in 1..FrameLen
    <2>1. k \in 1..(m + 1) /\ len - m + k = k
      BY <1>2, <1>3, WitAssumption
    <2> QED BY <1>a, <2>1
  <1>5. w = [k \in 1..Len(w) |-> w[k]]
    BY <1>w, SeqDefining
  <1>6. Len(w) = FrameLen
    BY <1>w, <1>3, WitAssumption
  <1>7. w = Bytes(Store(b), FrameLen)
    BY <1>4, <1>5, <1>6 DEF Bytes
  <1>8. Bytes(Store(b), FrameLen - 1) = [k \in 1..(FrameLen - 1) |-> w[k]]
    <2>1. \A k \in 1..(FrameLen - 1) : Store(b)[k - 1] = w[k]
      <3> TAKE k \in 1..(FrameLen - 1)
      <3>1. k \in 1..FrameLen
        BY WitAssumption
      <3> QED BY <1>4, <3>1, Zenon
    <2> QED BY <2>1 DEF Bytes
  <1>9. Store(b)[0] = w[1] /\ Store(b)[FrameLen - 1] = w[FrameLen]
    <2>1. 1 \in 1..FrameLen /\ FrameLen \in 1..FrameLen /\ 1 - 1 = 0
      BY WitAssumption
    <2>2. Store(b)[1 - 1] = w[1] /\ Store(b)[FrameLen - 1] = w[FrameLen]
      BY <1>4, <2>1
    <2> QED BY <2>1, <2>2
  <1>10. Valid(w) <=> (Store(b)[0] = HeadByte /\ SumMatches(Store(b)))
    BY <1>8, <1>9 DEF Valid, SumMatches
  <1> QED BY <1>1, <1>w, <1>s, <1>3, <1>6, <1>7, <1>10

\* A frame with a wrong checksum loses its first byte only.
LEMMA BadSumStep ==
    ASSUME WitInv, NEW b \in Byte, BadSum(b)
    PROVE  WitInv' /\ Detector!Input(b)
  <1>1. PICK w : w = Append(window, b)
    OBVIOUS
  <1>2. /\ s_uiWitDataCnt = FrameLen - 1
        /\ w \in Seq(Byte) /\ Len(w) = FrameLen
        /\ Store(b) \in [Index -> Byte \union {0}]
        /\ w = Bytes(Store(b), FrameLen)
        /\ ~ Valid(w)
    BY <1>1, FullBuffer DEF BadSum
  <1>3. /\ s_uiWitDataCnt' = FrameLen - 1 /\ found' = found
        /\ s_ucWitDataBuff' = Shift(Store(b), FrameLen - 1)
        /\ window' = Tail(w)
    BY <1>1, <1>2 DEF BadSum, Push
  <1>f. found' \in Seq(Byte)
    BY <1>3 DEF WitInv, WitTypeOK
  <1>4. /\ window' \in Seq(Byte) /\ Len(window') = FrameLen - 1
        /\ \A k \in 1..(FrameLen - 1) : window'[k] = w[k + 1]
    BY <1>2, <1>3, TailByte, WitAssumption
  <1>5. s_ucWitDataBuff' \in [Index -> Byte \union {0}]
    BY <1>2, <1>3, WitAssumption DEF Shift, Index
  <1>6. \A k \in 1..(FrameLen - 1) : s_ucWitDataBuff'[k - 1] = Store(b)[k]
    BY <1>2, <1>3, WitAssumption DEF Shift, Index
  <1>7. \A k \in 1..(FrameLen - 1) : w[k + 1] = Store(b)[k]
    BY <1>2, WitAssumption DEF Bytes
  <1>8. \A k \in 1..(FrameLen - 1) :
            s_ucWitDataBuff'[k - 1] = window'[(FrameLen - 1) - (FrameLen - 1) + k]
    BY <1>4, <1>6, <1>7, WitAssumption
  <1>m. PICK m : m = FrameLen - 1
    OBVIOUS
  <1>9. /\ Sizes(m, m) /\ \A k \in 1..(m - m) : window'[k] # HeadByte
        /\ m \in 1..(FrameLen - 2) => s_ucWitDataBuff'[0] = HeadByte
    BY <1>m, WitAssumption DEF Sizes
  <1>11. WitInv'
    <2>1. After(m, m)
      BY <1>3, <1>4, <1>5, <1>8, <1>9, <1>f, <1>m DEF After
    <2> QED BY <2>1, InvIntro
  <1>10. Detector!Input(b)
    BY <1>1, <1>2, NotFound DEF BadSum
  <1> QED BY <1>10, <1>11

\* A frame is found when the window shows one.
LEMMA AcceptStep ==
    ASSUME WitInv, NEW b \in Byte, Accept(b)
    PROVE  WitInv' /\ Detector!Input(b)
  <1>1. PICK w : w = Append(window, b)
    OBVIOUS
  <1>2. /\ w \in Seq(Byte) /\ Len(w) = FrameLen
        /\ Store(b) \in [Index -> Byte \union {0}]
        /\ w = Bytes(Store(b), FrameLen) /\ Valid(w)
    BY <1>1, FullBuffer DEF Accept
  <1>3. /\ found' = w /\ window' = <<>> /\ s_uiWitDataCnt' = 0
        /\ s_ucWitDataBuff' = Store(b)
    BY <1>2 DEF Accept
  <1>4. WitInv'
    BY <1>2, <1>3, WitAssumption DEF WitInv, WitTypeOK, BufferIsWindow
  <1>5. Detector!Input(b)
    BY <1>1, <1>2, <1>3 DEF Detector!Input
  <1> QED BY <1>4, <1>5

\* Every byte preserves the invariant and is a step of the detector.
LEMMA WitStep ==
    ASSUME WitInv, [WitNext]_witVars
    PROVE  WitInv' /\ [Detector!Next]_<<window, found>>
  <1>1. ASSUME NEW b \in Byte, WitSerialDataIn(b)
        PROVE  WitInv' /\ Detector!Input(b)
    BY <1>1, NoHeadStep, CollectStep, BadSumStep, AcceptStep DEF WitSerialDataIn
  <1>2. CASE WitNext
    BY <1>1, <1>2 DEF WitNext, Detector!Next
  <1>3. CASE UNCHANGED witVars
    BY <1>3 DEF witVars, WitInv, WitTypeOK, BufferIsWindow
  <1> QED BY <1>2, <1>3

-----------------------------------------------------------------------------
(***************************************************************************)
(* The registers, the interrupt and getWT61C.                              *)
(***************************************************************************)

\* The part of the invariant about the bits: past the test, READ is set, and
\* a load in progress has seen it.
BitsInv ==
    /\ SampleFlagged
    /\ pc \in {"copy", "bit", "load", "store"} => "READ" \in s_cDataUpdate
    /\ pc = "store" => "READ" \in loaded

\* Where the counter is.
CounterInv ==
    /\ pc = "copy" => n \in 0..2
    /\ pc \in {"bit", "load", "store"} => n \in 1..4

\* Frame numbers only grow.
OrderInv == \A g \in Group : atCall[g] <= sReg[g] /\ sReg[g] <= frames

\* The axes copied so far are fresh and in order.
CopyInv ==
    pc = "copy" => \A g \in Group :
        /\ n > 0 => atCall[g] <= fData[g][0] /\ fData[g][0] <= sReg[g]
        /\ n > 1 => fData[g][0] <= fData[g][1] /\ fData[g][1] <= sReg[g]

\* Outside the loop all of them are in order, and behind it they are fresh.
DataInv ==
    /\ pc # "copy" => \A g \in Group :
            fData[g][0] <= fData[g][1] /\ fData[g][1] <= fData[g][2] /\ fData[g][2] <= sReg[g]
    /\ pc \in {"bit", "load", "store", "done"} => \A g \in Group : atCall[g] <= fData[g][0]

ImuInv == ImuTypeOK /\ BitsInv /\ CounterInv /\ OrderInv /\ CopyInv /\ DataInv

\* ImuInit establishes it.
LEMMA InitImu == ImuInit => ImuInv
  BY DEF ImuInit, ImuInv, ImuTypeOK, BitsInv, SampleFlagged, CounterInv, OrderInv, CopyInv,
         DataInv, Group, Axis, Bits

\* Every frame that is stored sets READ, because AX, GX, Roll, HX and YYMM have
\* no bit of their own.
LEMMA EveryFrameSetsRead ==
    ASSUME NEW type \in FrameType
    PROVE  /\ {RegBit(r) : r \in Registers(type)} \subseteq Bits
           /\ GroupOf(type) # {} => Registers(type) # {}
           /\ Registers(type) # {} => "READ" \in {RegBit(r) : r \in Registers(type)}
  <1>1. \A r : RegBit(r) \in Bits
    BY DEF RegBit, Bits
  <1>2. /\ RegBit("AX") = "READ" /\ RegBit("GX") = "READ" /\ RegBit("Roll") = "READ"
        /\ RegBit("HX") = "READ" /\ RegBit("YYMM") = "READ"
    BY DEF RegBit
  <1>3. CASE type = "WIT_ACC"
    <2>1. "AX" \in Registers(type)
      BY <1>3 DEF Registers
    <2> QED BY <1>1, <1>2, <2>1
  <1>4. CASE type = "WIT_GYRO"
    <2>1. "GX" \in Registers(type)
      BY <1>4 DEF Registers
    <2> QED BY <1>1, <1>2, <2>1
  <1>5. CASE type = "WIT_ANGLE"
    <2>1. "Roll" \in Registers(type)
      BY <1>5 DEF Registers
    <2> QED BY <1>1, <1>2, <2>1
  <1>6. CASE type = "WIT_MAGNETIC"
    <2>1. "HX" \in Registers(type)
      BY <1>6 DEF Registers
    <2> QED BY <1>1, <1>2, <2>1
  <1>7. CASE type = "WIT_TIME"
    <2>1. "YYMM" \in Registers(type)
      BY <1>7 DEF Registers
    <2> QED BY <1>1, <1>2, <2>1
  <1>8. CASE type = "unknown"
    <2>1. Registers(type) = {} /\ GroupOf(type) = {}
      BY <1>8 DEF Registers, GroupOf
    <2> QED BY <2>1
  <1> QED BY <1>3, <1>4, <1>5, <1>6, <1>7, <1>8 DEF FrameType

\* The interrupt preserves the invariant wherever the thread is.
LEMMA CopeStep ==
    ASSUME ImuInv, NEW type \in FrameType, CopeWitData(type)
    PROVE  ImuInv'
  <1>1. PICK bits : /\ bits \subseteq Bits /\ s_cDataUpdate' = s_cDataUpdate \union bits
                    /\ bits # {} => "READ" \in bits
                    /\ GroupOf(type) # {} => "READ" \in bits
    <2>1. s_cDataUpdate' = s_cDataUpdate \union {RegBit(r) : r \in Registers(type)}
      BY DEF CopeWitData, SensorDataUpdata
    <2>2. {RegBit(r) : r \in Registers(type)} # {} => Registers(type) # {}
      OBVIOUS
    <2> QED BY <2>1, <2>2, EveryFrameSetsRead
  <1>2. /\ frames' = frames + 1 /\ UNCHANGED <<fData, pc, n, loaded, atCall>>
        /\ sReg' = [g \in Group |-> IF g \in GroupOf(type) THEN frames + 1 ELSE sReg[g]]
    BY DEF CopeWitData, thread
  <1>3. ImuTypeOK'
    BY <1>1, <1>2 DEF ImuInv, ImuTypeOK
  <1>4. BitsInv'
    <2>1. (\E g \in Group : sReg'[g] # 0) => s_cDataUpdate' # {}
      <3>1. CASE GroupOf(type) = {}
        BY <1>1, <1>2, <3>1 DEF ImuInv, BitsInv, SampleFlagged, ImuTypeOK
      <3>2. CASE GroupOf(type) # {}
        BY <1>1, <3>2
      <3> QED BY <3>1, <3>2
    <2> QED BY <1>1, <1>2, <2>1 DEF ImuInv, BitsInv, SampleFlagged
  <1>5. \A g \in Group : sReg[g] <= sReg'[g] /\ sReg'[g] <= frames'
    BY <1>2 DEF ImuInv, ImuTypeOK, OrderInv
  <1>6. /\ \A g \in Group : sReg[g] \in Nat /\ sReg'[g] \in Nat /\ atCall[g] \in Nat
        /\ \A g \in Group : fData[g][0] \in Nat /\ fData[g][1] \in Nat /\ fData[g][2] \in Nat
    BY <1>3 DEF ImuInv, ImuTypeOK, Axis
  <1>7. CounterInv' /\ OrderInv'
    BY <1>2, <1>5, <1>6 DEF ImuInv, CounterInv, OrderInv
  <1>8. CopyInv' /\ DataInv'
    BY <1>2, <1>5, <1>6 DEF ImuInv, CopyInv, DataInv
  <1> QED BY <1>3, <1>4, <1>7, <1>8 DEF ImuInv

\* One pass of the copy loop.
LEMMA CopyStep ==
    ASSUME ImuInv, Copy
    PROVE  ImuInv'
  <1>1. /\ pc = "copy" /\ n \in 0..2 /\ UNCHANGED <<sReg, frames, s_cDataUpdate, loaded, atCall>>
        /\ fData' = [g \in Group |-> [fData[g] EXCEPT ![n] = sReg[g]]]
        /\ IF n = 2 THEN pc' = "bit" /\ n' = 1 ELSE pc' = "copy" /\ n' = n + 1
    BY DEF ImuInv, CounterInv, Copy, isr
  <1>2. /\ \A g \in Group : sReg[g] \in Nat /\ atCall[g] \in Nat
        /\ fData \in [Group -> [Axis -> Nat]]
    BY DEF ImuInv, ImuTypeOK
  <1>3. /\ fData' \in [Group -> [Axis -> Nat]]
        /\ \A g \in Group : /\ fData'[g][n] = sReg[g]
                            /\ \A k \in Axis : k # n => fData'[g][k] = fData[g][k]
    BY <1>1, <1>2 DEF Axis
  <1>4. ImuTypeOK'
    BY <1>1, <1>3 DEF ImuInv, ImuTypeOK
  <1>5. BitsInv' /\ CounterInv' /\ OrderInv'
    BY <1>1 DEF ImuInv, BitsInv, SampleFlagged, CounterInv, OrderInv
  <1>6. \A g \in Group : /\ atCall[g] <= sReg[g]
                         /\ n > 0 => atCall[g] <= fData[g][0] /\ fData[g][0] <= sReg[g]
                         /\ n > 1 => fData[g][0] <= fData[g][1] /\ fData[g][1] <= sReg[g]
    BY <1>1 DEF ImuInv, CopyInv, OrderInv
  <1>7. \A g \in Group : fData[g][0] \in Nat /\ fData[g][1] \in Nat
    BY <1>2 DEF Axis
  <1>8. CASE n = 0
    <2>1. \A g \in Group : fData'[g][0] = sReg[g]
      BY <1>3, <1>8
    <2> QED BY <1>1, <1>2, <1>4, <1>5, <1>6, <1>8, <2>1 DEF ImuInv, CopyInv, DataInv
  <1>9. CASE n = 1
    <2>1. \A g \in Group : fData'[g][1] = sReg[g] /\ fData'[g][0] = fData[g][0]
      BY <1>3, <1>9 DEF Axis
    <2> QED BY <1>1, <1>2, <1>4, <1>5, <1>6, <1>7, <1>9, <2>1 DEF ImuInv, CopyInv, DataInv
  <1>10. CASE n = 2
    <2>1. \A g \in Group : /\ fData'[g][2] = sReg[g] /\ fData'[g][0] = fData[g][0]
                           /\ fData'[g][1] = fData[g][1]
      BY <1>3, <1>10 DEF Axis
    <2> QED BY <1>1, <1>2, <1>4, <1>5, <1>6, <1>7, <1>10, <2>1 DEF ImuInv, CopyInv, DataInv
  <1> QED BY <1>1, <1>8, <1>9, <1>10

\* The other steps of the thread leave the data alone.
LEMMA ThreadStep ==
    ASSUME ImuInv, Thread
    PROVE  ImuInv'
  <1> USE DEF ImuInv, ImuTypeOK, BitsInv, SampleFlagged, CounterInv, OrderInv, CopyInv, DataInv
  <1>1. CASE Call
    BY <1>1 DEF Call, isr
  <1>2. CASE Test
    <2>1. CASE s_cDataUpdate = {}
      <3>1. \A g \in Group : sReg[g] = 0 /\ atCall[g] = 0
        BY <2>1
      <3>2. \A g \in Group : fData[g][0] \in Nat
        BY DEF Axis
      <3> QED BY <1>2, <2>1, <3>1, <3>2 DEF Test, isr
    <2>2. CASE s_cDataUpdate # {}
      BY <1>2, <2>2 DEF Test, isr
    <2> QED BY <2>1, <2>2
  <1>3. CASE Copy
    BY <1>3, CopyStep
  <1>4. CASE TestBit
    BY <1>4 DEF TestBit, NextBit, isr
  <1>5. CASE LoadBits
    BY <1>5 DEF LoadBits, isr
  <1>6. CASE StoreBits
    <2>1. BitOrder[n] # "READ"
      BY <1>6 DEF BitOrder, StoreBits
    <2>2. "READ" \in s_cDataUpdate' /\ s_cDataUpdate' \subseteq Bits
      BY <1>6, <2>1 DEF StoreBits
    <2> QED BY <1>6, <2>2 DEF StoreBits, NextBit, isr
  <1>7. CASE Return
    BY <1>7 DEF Return, isr
  <1> QED BY <1>1, <1>2, <1>3, <1>4, <1>5, <1>6, <1>7 DEF Thread

\* The invariant is inductive.
LEMMA ImuInductive == ImuInv /\ [ImuNext]_imuVars => ImuInv'
  <1>1. ASSUME ImuInv, UNCHANGED imuVars PROVE ImuInv'
    BY <1>1 DEF ImuInv, ImuTypeOK, BitsInv, SampleFlagged, CounterInv, OrderInv, CopyInv,
                DataInv, imuVars, isr, thread
  <1> QED BY <1>1, CopeStep, ThreadStep DEF ImuNext

-----------------------------------------------------------------------------
(***************************************************************************)
(* The two together.                                                       *)
(***************************************************************************)

Inv == WitInv /\ ImuInv

LEMMA InitInv == Init => Inv
  BY InitWit, InitImu DEF Init, Inv

\* A frame that is found has a type.
LEMMA FoundType ==
    ASSUME WitInv, NEW b \in Byte, Accept(b)
    PROVE  TypeOf[found'[2]] \in FrameType
  <1>1. PICK w : w = Append(window, b)
    OBVIOUS
  <1>2. w \in Seq(Byte) /\ Len(w) = FrameLen /\ found' = w
    BY <1>1, FullBuffer DEF Accept
  <1>3. w[2] \in Byte
    BY <1>2, TypeAssumption, WitAssumption
  <1> QED BY <1>2, <1>3, TypeAssumption

\* A byte that completes a frame.
LEMMA AcceptStores ==
    ASSUME Inv, NEW b \in Byte, Accept(b), CopeWitData(TypeOf[found'[2]])
    PROVE  Inv' /\ Detector!Input(b)
  <1>1. PICK type : type = TypeOf[found'[2]]
    OBVIOUS
  <1>2. type \in FrameType /\ CopeWitData(type)
    BY <1>1, FoundType DEF Inv
  <1> QED BY <1>2, AcceptStep, CopeStep DEF Inv

\* Every step of the interrupt and of the thread preserves the invariant, and is
\* a step of the detector or leaves it alone.
LEMMA Step ==
    ASSUME Inv, [Next]_vars
    PROVE  Inv' /\ [Detector!Next]_<<window, found>>
  <1>0. WitInv /\ ImuInv
    BY DEF Inv
  <1>1. ASSUME NEW b \in Byte, Receive(b)
        PROVE  Inv' /\ Detector!Input(b)
    <2>1. CASE (NoHead(b) \/ Collect(b) \/ BadSum(b)) /\ UNCHANGED imuVars
      <3>1. WitInv' /\ Detector!Input(b) /\ found' = found
        BY <1>0, <2>1, NoHeadStep, CollectStep, BadSumStep DEF NoHead, Collect, BadSum
      <3>2. ImuInv'
        BY <1>0, <2>1, ImuInductive
      <3> QED BY <3>1, <3>2 DEF Inv
    <2>2. CASE Accept(b) /\ CopeWitData(TypeOf[found'[2]])
      BY <2>2, AcceptStores
    <2> QED BY <1>1, <2>1, <2>2 DEF Receive
  <1>2. CASE Thread /\ UNCHANGED witVars
    <2>1. WitInv' /\ UNCHANGED <<window, found>>
      BY <1>0, <1>2 DEF witVars, WitInv, WitTypeOK, BufferIsWindow
    <2>2. ImuInv'
      BY <1>0, <1>2, ThreadStep
    <2> QED BY <2>1, <2>2 DEF Inv
  <1>3. CASE UNCHANGED vars
    <2>1. WitInv' /\ UNCHANGED <<window, found>>
      BY <1>0, <1>3 DEF vars, witVars, WitInv, WitTypeOK, BufferIsWindow
    <2>2. ImuInv'
      BY <1>0, <1>3, ImuInductive DEF vars
    <2> QED BY <2>1, <2>2 DEF Inv
  <1> QED BY <1>1, <1>2, <1>3 DEF Next, Detector!Next

\* The parser, the registers and the thread keep the invariant wherever the
\* receive interrupt comes.
THEOREM ImuInvariant == Spec => []Inv
  <1>1. Inv /\ [Next]_vars => Inv'
    BY Step
  <1> QED BY InitInv, <1>1, PTL DEF Spec

\* The static variables of the parser, the shared words and the variables of
\* getWT61C keep their types.
THEOREM ImuTypeCorrect == Spec => []TypeOK
  <1>1. Inv => TypeOK
    BY DEF Inv, WitInv, ImuInv, TypeOK
  <1> QED BY <1>1, ImuInvariant, PTL

\* WitSerialDataIn drops no byte a frame could begin with.
THEOREM WitBuffer == Spec => []BufferIsWindow
  <1>1. Inv => BufferIsWindow
    BY DEF Inv, WitInv
  <1> QED BY <1>1, ImuInvariant, PTL

\* The parser of the WT61C stream implements the sliding-window detector: it
\* finds every frame that does not overlap one found before, and no other.
THEOREM WitRefines == Spec => FindsExactlyTheFrames
  <1>1. Init => Detector!Init
    BY DEF Init, WitInit, Detector!Init
  <1>2. Inv /\ [Next]_vars => [Detector!Next]_<<window, found>>
    BY Step
  <1> QED BY <1>1, <1>2, ImuInvariant, PTL DEF Spec, FindsExactlyTheFrames, Detector!Spec

\* The unprotected &= of getWT61C loses bits, but s_cDataUpdate is never empty
\* once a sample is in sReg.
THEOREM ImuSampleFlagged == Spec => []SampleFlagged
  <1>1. ImuInv => SampleFlagged
    BY DEF ImuInv, BitsInv
  <1>2. Inv => ImuInv
    BY DEF Inv
  <1> QED BY <1>1, <1>2, ImuInvariant, PTL

\* getWT61C returns nothing older than what it found when it was called.
THEOREM ImuFresh == Spec => []Fresh
  <1>1. ImuInv => Fresh
    <2> SUFFICES ASSUME ImuInv, pc = "done", NEW g \in Group, NEW k \in Axis
                 PROVE  fData[g][k] >= atCall[g]
      BY DEF Fresh
    <2>1. /\ fData[g][0] <= fData[g][1] /\ fData[g][1] <= fData[g][2] /\ atCall[g] <= fData[g][0]
      BY DEF ImuInv, DataInv
    <2>2. /\ fData[g][0] \in Nat /\ fData[g][1] \in Nat /\ fData[g][2] \in Nat
          /\ atCall[g] \in Nat /\ k \in {0, 1, 2}
      BY DEF ImuInv, ImuTypeOK, Axis
    <2> QED BY <2>1, <2>2
  <1>2. Inv => ImuInv
    BY DEF Inv
  <1> QED BY <1>1, <1>2, ImuInvariant, PTL

\* A sample that mixes frames mixes them in the order of the axes only.
THEOREM ImuTornForward == Spec => []TornForward
  <1>1. ImuInv => TornForward
    BY DEF ImuInv, DataInv, TornForward
  <1>2. Inv => ImuInv
    BY DEF Inv
  <1> QED BY <1>1, <1>2, ImuInvariant, PTL
=============================================================================
