------------------------------ MODULE K230Proof ------------------------------
(***************************************************************************)
(* The way of a packet of the K230, for every set of bytes, texts and      *)
(* objects, every buffer size above five and any number of frames and      *)
(* losses: the UART4 callback keeps its stores inside its arrays on every  *)
(* stream, delivers each text whole, and gets stuck after nothing but a    *)
(* text that fills its buffer; the thread that announces the texts never   *)
(* ends up idle with one that it has not announced; and on a line that     *)
(* loses nothing every frame arrives.                                      *)
(***************************************************************************)
EXTENDS K230Link, SequenceTheorems, WellFoundedInduction, TLAPS
-----------------------------------------------------------------------------
(***************************************************************************)
(* The callback.                                                           *)
(***************************************************************************)

\* A text and its NUL never reach the last byte of rx_buffer, which stays 0.
RxTerminated == rx_buffer[MAX_BUFFER_SIZE - 1] = 0

\* The inductive invariant: StoresInBounds alone says too little about where
\* in a packet the parser is.
ParserInv == ParserTypeOK /\ StoresInBounds /\ PhasesAgree /\ RxTerminated

\* Init establishes the inductive invariant.
LEMMA InitInv == ParserInit => ParserInv
  BY SizeAssumption DEF ParserInit, ParserInv, ParserTypeOK, StoresInBounds,
     PhasesAgree, RxTerminated, i, fun3_index, pack_num

\* What appending a byte does to a buffer's live prefix.
LEMMA AppendFacts ==
    ASSUME NEW s \in Seq(Byte), NEW b \in Byte, NEW t, t = Append(s, b)
    PROVE  /\ t \in Seq(Byte) /\ Len(s) \in Nat /\ Len(t) = Len(s) + 1
           /\ \A k \in 1..Len(s) : t[k] = s[k]
           /\ t[Len(s) + 1] = b
  OBVIOUS

\* A buffer that holds one byte.
LEMMA SingletonFacts ==
    ASSUME NEW b \in Byte
    PROVE  <<b>> \in Seq(Byte) /\ Len(<<b>>) = 1 /\ <<b>>[1] = b
  OBVIOUS

\* Appending to an empty buffer.
LEMMA AppendEmpty ==
    ASSUME NEW s \in Seq(Byte), NEW b \in Byte, Len(s) = 0
    PROVE  Append(s, b) = <<b>>
  BY EmptySeq

\* A text copied into rx_buffer leaves it an array of bytes.
LEMMA CopyTextType ==
    ASSUME NEW buf \in [0..(MAX_BUFFER_SIZE - 1) -> Byte \union {0}],
           NEW text \in Seq(Byte)
    PROVE  CopyText(text, buf) \in [0..(MAX_BUFFER_SIZE - 1) -> Byte \union {0}]
  <1> SUFFICES ASSUME NEW k \in 0..(MAX_BUFFER_SIZE - 1)
               PROVE  (IF k < Len(text) THEN text[k + 1]
                       ELSE IF k = Len(text) THEN 0 ELSE buf[k]) \in Byte \union {0}
    BY SMT DEF CopyText
  <1>1. CASE k < Len(text)
    <2>1. k + 1 \in 1..Len(text)
      BY <1>1, SizeAssumption
    <2> QED BY <1>1, <2>1
  <1>2. CASE ~ (k < Len(text))
    BY <1>2
  <1> QED BY <1>1, <1>2

\* Every byte preserves the inductive invariant.
LEMMA StepInv ==
    ASSUME ParserInv, NEW b \in Byte, RxCplt(b)
    PROVE  ParserInv'
  <1>0. /\ k230_data \in Seq(Byte) /\ fun3_buffer \in Seq(Byte)
        /\ Len(k230_data) \in Nat /\ Len(fun3_buffer) \in Nat
        /\ Len(k230_data) < 5 /\ Len(fun3_buffer) < MAX_BUFFER_SIZE
        /\ Len(k230_data) > 0 => fun3_buffer = k230_data
        /\ fun3_state = 0 => Len(k230_data) = 0 /\ Len(fun3_buffer) = 0
        /\ fun3_state = 1 => Len(k230_data) \in {0, 1} /\ Len(fun3_buffer) = 1
        /\ fun3_state = 2 => /\ Len(k230_data) = 0 \/ Len(k230_data) >= 2
                             /\ Len(k230_data) = 0 => Len(fun3_buffer) >= 5
        /\ Len(fun3_buffer) >= 1 => fun3_buffer[1] = pack_head_1
        /\ fun3_state = 2 => fun3_buffer[2] = pack_head_2
        /\ fun3_state \in {0, 1, 2}
        /\ rx_buffer \in [0..(MAX_BUFFER_SIZE - 1) -> Byte \union {0}]
    BY SizeAssumption DEF ParserInv, ParserTypeOK, StoresInBounds, PhasesAgree,
       RxTerminated, i, fun3_index, pack_num
  <1>seq. k230_data \in Seq(Byte) /\ fun3_buffer \in Seq(Byte)
    BY <1>0
  <1>1. CASE Head1(b)
    <2>1. k230_data' = <<b>> /\ fun3_buffer' = <<b>> /\ b = pack_head_1 /\ fun3_state' = 1
      BY <1>0, <1>1, AppendEmpty DEF Head1, i
    <2> QED BY <1>1, <2>1, SingletonFacts, SizeAssumption DEF Head1, ParserInv,
            ParserTypeOK, StoresInBounds, PhasesAgree, RxTerminated, i, fun3_index, pack_num, fun2out, fun3out
  <1>2. CASE Head2(b)
    <2>1. /\ Len(k230_data) = 1 /\ fun3_buffer = k230_data
          /\ k230_data[1] = pack_head_1 /\ b = pack_head_2
          /\ k230_data' = Append(k230_data, b)
          /\ fun3_buffer' = k230_data' /\ fun3_state' = 2
      BY <1>0, <1>2 DEF Head2, i
    <2>2. /\ k230_data' \in Seq(Byte) /\ Len(k230_data') = Len(k230_data) + 1
          /\ \A k \in 1..Len(k230_data) : k230_data'[k] = k230_data[k]
          /\ k230_data'[Len(k230_data) + 1] = b
      BY <1>2, <1>seq, AppendFacts DEF Head2
    <2>3. k230_data'[1] = pack_head_1 /\ k230_data'[2] = pack_head_2
      BY <2>1, <2>2
    <2> QED BY <1>2, <2>1, <2>2, <2>3, SizeAssumption DEF Head2, ParserInv,
            ParserTypeOK, StoresInBounds, PhasesAgree, RxTerminated, i, fun3_index, pack_num, fun2out, fun3out
  <1>3. CASE Body(b)
    <2>1. /\ Len(k230_data) >= 2 /\ Len(k230_data) < 4
          /\ fun3_buffer = k230_data /\ fun3_state = 2
          /\ k230_data[1] = pack_head_1 /\ k230_data[2] = pack_head_2
          /\ k230_data' = Append(k230_data, b)
      BY <1>0, <1>3 DEF Body, i, pack_num
    <2>2. fun3_buffer' = k230_data' /\ fun3_state' = 2
      BY <1>0, <1>3, <2>1, SizeAssumption DEF Body, Full, fun3_index, pack_num
    <2>3. /\ k230_data' \in Seq(Byte) /\ Len(k230_data') = Len(k230_data) + 1
          /\ \A k \in 1..Len(k230_data) : k230_data'[k] = k230_data[k]
      BY <1>3, <1>seq, AppendFacts DEF Body
    <2>4. k230_data'[1] = pack_head_1 /\ k230_data'[2] = pack_head_2
      BY <2>1, <2>3
    <2> QED BY <1>0, <1>3, <2>1, <2>2, <2>3, <2>4, SizeAssumption DEF Body, ParserInv,
            ParserTypeOK, StoresInBounds, PhasesAgree, RxTerminated, i, fun3_index, pack_num, fun2out, fun3out
  <1>4. CASE Fifth(b)
    <2>b. Len(k230_data) = 4
      BY <1>4 DEF Fifth, i, pack_num
    <2>1. /\ Len(k230_data) = 4 /\ fun3_buffer = k230_data /\ fun3_state = 2
          /\ k230_data[1] = pack_head_1 /\ k230_data[2] = pack_head_2
      <3>1. fun3_buffer = k230_data
        BY <1>0, <2>b
      <3>2. fun3_state = 2
        BY <1>0, <2>b
      <3>3. fun3_buffer[1] = pack_head_1
        BY <1>0, <2>b, <3>1
      <3>4. fun3_buffer[2] = pack_head_2
        BY <1>0, <3>2
      <3> QED BY <2>b, <3>1, <3>2, <3>3, <3>4
    <2>0. k230_data' = <<>>
      BY <1>4 DEF Fifth
    <2>2. PICK data : data = Append(k230_data, b)
      OBVIOUS
    <2>a. /\ data \in Seq(Byte) /\ Len(data) = Len(k230_data) + 1
          /\ \A k \in 1..Len(k230_data) : data[k] = k230_data[k]
      BY <1>seq, <2>2, AppendFacts
    <2>3. /\ data \in Seq(Byte) /\ Len(data) = 5
          /\ data[1] = pack_head_1 /\ data[2] = pack_head_2
      BY <2>1, <2>a
    <2>4. data[3] \in Byte /\ data[4] \in Byte
      BY <2>3
    <2>5. CASE IsFun2(data)
      <3>1. /\ receive_x' \in Byte /\ receive_flag' \in Byte /\ current_mode' = 0
            /\ fun3_state' = 0 /\ fun3_buffer' = <<>>
            /\ UNCHANGED <<rx_buffer, message_received>>
        BY <1>4, <2>2, <2>4, <2>5 DEF Fifth, fun3out
      <3> QED BY <2>0, <3>1, SizeAssumption DEF ParserInv, ParserTypeOK,
              StoresInBounds, PhasesAgree, RxTerminated, i, fun3_index, pack_num
    <2>6. CASE ~ IsFun2(data)
      <3>1. /\ fun3_buffer' = data /\ fun3_state' = 2
            /\ UNCHANGED <<receive_x, receive_flag, current_mode, rx_buffer, message_received>>
        BY <1>4, <2>1, <2>2, <2>6 DEF Fifth, fun2out, fun3out
      <3>2. ParserTypeOK'
        BY <2>0, <2>3, <3>1 DEF ParserInv, ParserTypeOK
      <3>3. Len(k230_data') = 0 /\ Len(fun3_buffer') = 5
        BY <2>0, <2>3, <3>1
      <3>4. fun3_buffer'[1] = pack_head_1 /\ fun3_buffer'[2] = pack_head_2
        BY <2>3, <3>1
      <3> QED BY <3>1, <3>2, <3>3, <3>4, SizeAssumption DEF ParserInv,
              StoresInBounds, PhasesAgree, RxTerminated, i, fun3_index, pack_num
    <2> QED BY <2>5, <2>6
  <1>5. CASE TextTail(b)
    <2>1. Len(fun3_buffer) >= 5 /\ k230_data = <<>> /\ b # pack_head_1
      BY <1>0, <1>5, EmptySeq DEF TextTail, Otherwise, i, pack_num, pack_head_1, fun3_tail
    <2> PICK packet : packet = Append(fun3_buffer, b)
      OBVIOUS
    <2>2. packet \in Seq(Byte) /\ Len(packet) = Len(fun3_buffer) + 1
      BY <1>seq, AppendFacts
    <2>3. SubSeq(packet, 3, Len(packet) - 1) \in Seq(Byte)
      BY <2>2, SubSeqProperties
    <2>4. rx_buffer' \in [0..(MAX_BUFFER_SIZE - 1) -> Byte \union {0}]
      <3>1. rx_buffer \in [0..(MAX_BUFFER_SIZE - 1) -> Byte \union {0}]
        BY <1>0
      <3>2. \/ rx_buffer' = CopyText(SubSeq(packet, 3, Len(packet) - 1), rx_buffer)
            \/ rx_buffer' = rx_buffer
        BY <1>5 DEF TextTail, Deliver, fun3out
      <3> QED BY <2>3, <3>1, <3>2, CopyTextType
    <2>5. /\ k230_data' = <<>> /\ fun3_state' = 0 /\ fun3_buffer' = <<>>
          /\ UNCHANGED <<receive_x, receive_flag>>
      BY <1>5, <2>1 DEF TextTail, Restart, fun2out
    <2>6. message_received' \in {0, 1} /\ current_mode' \in {0, 1}
      BY <1>5 DEF TextTail, Deliver, fun3out, ParserInv, ParserTypeOK
    <2>7. rx_buffer'[MAX_BUFFER_SIZE - 1] = 0
      <3>1. /\ Len(SubSeq(packet, 3, Len(packet) - 1)) = Len(packet) - 3
            /\ Len(packet) - 3 < MAX_BUFFER_SIZE - 1
        <4>1. Len(fun3_buffer) \in Nat /\ Len(fun3_buffer) < MAX_BUFFER_SIZE
          BY <1>0
        <4>2. Len(packet) \in Nat /\ Len(packet) >= 6 /\ Len(packet) - 3 < MAX_BUFFER_SIZE - 1
          BY <2>1, <2>2, <4>1, SizeAssumption
        <4>3. Len(SubSeq(packet, 3, Len(packet) - 1)) = Len(packet) - 1 - 3 + 1
          BY <2>2, <4>2, SubSeqProperties
        <4> QED BY <4>2, <4>3
      <3>2. rx_buffer[MAX_BUFFER_SIZE - 1] = 0
        BY DEF ParserInv, RxTerminated
      <3>3. CopyText(SubSeq(packet, 3, Len(packet) - 1), rx_buffer)[MAX_BUFFER_SIZE - 1]
            = rx_buffer[MAX_BUFFER_SIZE - 1]
        BY <3>1, <1>0, SizeAssumption DEF CopyText, pack_num
      <3> QED BY <1>5, <3>2, <3>3 DEF TextTail, Deliver, fun3out
    <2> QED BY <2>4, <2>5, <2>6, <2>7, SizeAssumption DEF ParserInv, ParserTypeOK,
            StoresInBounds, PhasesAgree, RxTerminated, i, fun3_index, pack_num
  <1> USE SizeAssumption DEF ParserInv, ParserTypeOK, StoresInBounds, PhasesAgree, RxTerminated, i,
          fun3_index, pack_num, fun2out, fun3out, parser
  <1>6. CASE TextOverflow(b)
    BY <1>6 DEF TextOverflow, Full, Restart, Otherwise
  <1>7. CASE TextByte(b)
    BY <1>7 DEF TextByte, Full, Otherwise
  <1>8. CASE Skip(b)
    BY <1>8 DEF Skip, Restart, Otherwise
  <1> QED BY <1>1, <1>2, <1>3, <1>4, <1>5, <1>6, <1>7, <1>8 DEF RxCplt

\* The inductive invariant holds throughout.
LEMMA ParserInvariant == ParserSpec => []ParserInv
  <1>1. ParserInv /\ [ParserNext]_parserVars => ParserInv'
    <2> SUFFICES ASSUME ParserInv, [ParserNext]_parserVars PROVE ParserInv'
      OBVIOUS
    <2>1. CASE ParserNext
      BY <2>1, StepInv DEF ParserNext
    <2>2. CASE UNCHANGED parserVars
      BY <2>2 DEF ParserInv, ParserTypeOK, StoresInBounds, PhasesAgree, RxTerminated, i,
         fun3_index, parserVars
    <2> QED BY <2>1, <2>2
  <1> QED BY InitInv, <1>1, PTL DEF ParserSpec

\* The callback's static variables and its results keep their types.
THEOREM ParserTypeCorrect == ParserSpec => []ParserTypeOK
  <1>1. ParserInv => ParserTypeOK
    BY DEF ParserInv
  <1> QED BY ParserInvariant, <1>1, PTL

\* No store of the UART4 callback leaves its array, whatever bytes arrive.
THEOREM ParserSafe == ParserSpec => []StoresInBounds
  <1>1. ParserInv => StoresInBounds
    BY DEF ParserInv
  <1> QED BY ParserInvariant, <1>1, PTL

\* The two parses of the UART4 callback stay in step on every stream.
THEOREM ParserPhases == ParserSpec => []PhasesAgree
  <1>1. ParserInv => PhasesAgree
    BY DEF ParserInv
  <1> QED BY ParserInvariant, <1>1, PTL

\* The UART4 callback comes to wait for header 2 with i = 0, where no byte can
\* get it out again, only when a text fills the whole of fun3_buffer.
THEOREM ParserWedgesOnlyFull == ParserSpec => OnlyOverflowWedges
  <1>1. ASSUME ParserInv, NEW b \in Byte, RxCplt(b), ~ Wedged, Wedged'
        PROVE  fun3_state = 2 /\ i = 0 /\ Full
    <2>0. /\ Len(k230_data) \in Nat /\ Len(fun3_buffer) \in Nat /\ k230_data \in Seq(Byte)
          /\ fun3_state \in {0, 1, 2}
          /\ fun3_state = 0 => Len(k230_data) = 0
          /\ fun3_state = 1 => Len(k230_data) \in {0, 1}
          /\ fun3_state = 2 /\ Len(k230_data) # 0 => Len(k230_data) >= 2
          /\ fun3_state' = 1 /\ Len(k230_data') = 0
      BY <1>1, LenProperties DEF ParserInv, ParserTypeOK, PhasesAgree, Wedged, i
    <2>1. ~ Head1(b)
      <3> SUFFICES ASSUME Head1(b)  PROVE FALSE  OBVIOUS
      <3>1. Len(k230_data') = Len(k230_data) + 1  BY <2>0, AppendFacts DEF Head1
      <3>2. \A n \in Nat : n + 1 # 0  OBVIOUS
      <3> QED BY <2>0, <3>1, <3>2
    <2>2. ~ Head2(b) /\ ~ Body(b) /\ ~ TextByte(b)
      BY <2>0 DEF Head2, Body, TextByte, i
    <2>3. ~ Fifth(b)
      <3> SUFFICES ASSUME Fifth(b)  PROVE FALSE  OBVIOUS
      <3>1. Len(k230_data) = 4  BY DEF Fifth, i, pack_num
      <3>2. fun3_state = 2  BY <2>0, <3>1
      <3>3. fun3_state' \in {0, 2}  BY <3>2 DEF Fifth
      <3> QED BY <2>0, <3>3
    <2>4. ~ TextTail(b)
      BY <2>0 DEF TextTail, Restart, fun3_tail, pack_head_1
    <2>5. ~ Skip(b)
      BY <1>1, <2>0 DEF Skip, Otherwise, Restart, parser, Wedged, i
    <2>6. TextOverflow(b)
      BY <1>1, <2>1, <2>2, <2>3, <2>4, <2>5 DEF RxCplt
    <2>7. fun3_state = 2 /\ Full /\ ~ (Len(k230_data) >= 2 /\ Len(k230_data) < 5)
      BY <2>6 DEF TextOverflow, Otherwise, i, pack_num
    <2>8. Len(k230_data) < 5  BY <1>1 DEF ParserInv, StoresInBounds, i, pack_num
    <2> QED BY <2>0, <2>7, <2>8 DEF i
  <1>2. ParserInv /\ [ParserNext]_parserVars =>
            [(~ Wedged /\ Wedged') => (fun3_state = 2 /\ i = 0 /\ Full)]_parserVars
    BY <1>1 DEF ParserNext
  <1> QED BY ParserInvariant, <1>2, PTL DEF ParserSpec, OnlyOverflowWedges
-----------------------------------------------------------------------------
(***************************************************************************)
(* The texts that are delivered.  While a text is received beyond its      *)
(* fifth byte, that byte was not the tail of fun2 and none behind it the   *)
(* tail of fun3.                                                           *)
(***************************************************************************)

TextSoFar ==
    fun3_state = 2 /\ Len(k230_data) = 0 =>
        /\ fun3_buffer[5] # pack_tail
        /\ \A j \in 6..Len(fun3_buffer) : fun3_buffer[j] # fun3_tail

\* The text of a packet: what stands between its headers and its tail.
LEMMA TextOfPacket ==
    ASSUME NEW buf \in Seq(Byte), NEW b \in Byte, Len(buf) >= 5, NEW text,
           text = SubSeq(Append(buf, b), 3, Len(Append(buf, b)) - 1)
    PROVE  Len(text) = Len(buf) - 2 /\ \A k \in 1..(Len(buf) - 2) : text[k] = buf[k + 2]
  <1> DEFINE packet == Append(buf, b)
  <1>1. /\ packet \in Seq(Byte) /\ Len(buf) \in Nat /\ Len(packet) = Len(buf) + 1
        /\ \A k \in 1..Len(buf) : packet[k] = buf[k]
    BY AppendFacts
  <1> HIDE DEF packet
  <1>2. /\ 3 \in Int /\ Len(packet) - 1 \in Int /\ Len(packet) - 1 = Len(buf)
        /\ \A k \in 3..(Len(packet) - 1) : packet[k] \in Byte
    BY <1>1
  <1>3. /\ Len(text) = IF 3 <= Len(packet) - 1 THEN Len(packet) - 1 - 3 + 1 ELSE 0
        /\ \A k \in 1..(Len(packet) - 1 - 3 + 1) : text[k] = packet[3 + k - 1]
    <2>1. text = SubSeq(packet, 3, Len(packet) - 1)
      BY DEF packet
    <2> QED BY <1>2, <2>1, SubSeqProperties
  <1>4. Len(packet) - 1 - 3 + 1 = Len(buf) - 2 /\ 3 <= Len(packet) - 1
    BY <1>1
  <1>5. ASSUME NEW k \in 1..(Len(buf) - 2)
        PROVE  text[k] = buf[k + 2]
    <2>1. 3 + k - 1 = k + 2 /\ k + 2 \in 1..Len(buf)
      BY <1>1
    <2> QED BY <1>1, <1>3, <1>4, <2>1
  <1> QED BY <1>3, <1>4, <1>5

\* A text that fits, copied into rx_buffer, is the string found there.
LEMMA CopiedText ==
    ASSUME NEW text, Len(text) \in Nat, Len(text) < MAX_BUFFER_SIZE, NEW old, NEW new,
           new = CopyText(text, old)
    PROVE  /\ \A k \in 0..(Len(text) - 1) : new[k] = text[k + 1]
           /\ new[Len(text)] = 0
  BY SizeAssumption DEF CopyText

\* A tail puts the text behind the headers into rx_buffer, and a NUL behind it.
LEMMA DeliveredText ==
    ASSUME ParserInv, NEW b \in Byte, TextTail(b)
    PROVE  /\ Len(fun3_buffer) >= 5 /\ Len(fun3_buffer) < MAX_BUFFER_SIZE
           /\ fun3_buffer \in Seq(Byte) /\ Len(fun3_buffer) \in Nat
           /\ \A k \in 0..(Len(fun3_buffer) - 3) : rx_buffer'[k] = fun3_buffer[k + 3]
           /\ rx_buffer'[Len(fun3_buffer) - 2] = 0
  <1>0. /\ fun3_buffer \in Seq(Byte) /\ Len(fun3_buffer) \in Nat
        /\ Len(fun3_buffer) >= 5 /\ Len(fun3_buffer) < MAX_BUFFER_SIZE
        /\ fun3_buffer[1] = pack_head_1 /\ fun3_buffer[2] = pack_head_2
    <2>1. fun3_buffer \in Seq(Byte) /\ k230_data \in Seq(Byte) /\ Len(fun3_buffer) < MAX_BUFFER_SIZE
      BY DEF ParserInv, ParserTypeOK, StoresInBounds, fun3_index
    <2>2. Len(fun3_buffer) \in Nat /\ Len(k230_data) \in Nat
      BY <2>1, LenProperties
    <2>3. fun3_state = 2 /\ Len(k230_data) = 0
      BY <2>2 DEF TextTail, Otherwise, ParserInv, StoresInBounds, PhasesAgree, i, pack_num
    <2> QED BY <2>1, <2>2, <2>3 DEF ParserInv, PhasesAgree, i, fun3_index, pack_num
  <1> DEFINE packet == Append(fun3_buffer, b)
             text == SubSeq(packet, 3, Len(packet) - 1)
  <1>1. /\ Len(text) = Len(fun3_buffer) - 2
        /\ \A k \in 1..(Len(fun3_buffer) - 2) : text[k] = fun3_buffer[k + 2]
    BY <1>0, TextOfPacket
  <1>2. Len(packet) >= 3 /\ packet[1] = pack_head_1 /\ packet[2] = pack_head_2
    <2>1. Len(packet) = Len(fun3_buffer) + 1 /\ \A k \in 1..Len(fun3_buffer) : packet[k] = fun3_buffer[k]
      BY <1>0, AppendFacts
    <2> HIDE DEF packet
    <2> QED BY <1>0, <2>1
  <1>3. rx_buffer' = CopyText(text, rx_buffer)
    BY <1>2 DEF TextTail, Deliver
  <1> HIDE DEF packet, text
  <1>4. Len(text) \in Nat /\ Len(text) < MAX_BUFFER_SIZE
    BY <1>0, <1>1, SizeAssumption
  <1>5. /\ \A k \in 0..(Len(text) - 1) : rx_buffer'[k] = text[k + 1]
        /\ rx_buffer'[Len(text)] = 0
    BY <1>3, <1>4, CopiedText
  <1>6. ASSUME NEW k \in 0..(Len(fun3_buffer) - 3)
        PROVE  rx_buffer'[k] = fun3_buffer[k + 3]
    <2>1. k \in 0..(Len(text) - 1) /\ k + 1 \in 1..(Len(fun3_buffer) - 2) /\ (k + 1) + 2 = k + 3
      BY <1>0, <1>1
    <2> QED BY <1>1, <1>5, <2>1
  <1> QED BY <1>0, <1>1, <1>5, <1>6

\* Every byte keeps the shape of what is received and of what was delivered.
LEMMA ShapeStep ==
    ASSUME ParserInv, TextSoFar, DeliveredTextShape, NEW b \in Byte, RxCplt(b)
    PROVE  TextSoFar' /\ DeliveredTextShape'
  <1>0. /\ k230_data \in Seq(Byte) /\ fun3_buffer \in Seq(Byte)
        /\ Len(k230_data) \in Nat /\ Len(fun3_buffer) \in Nat
        /\ Len(k230_data) < 5 /\ Len(fun3_buffer) < MAX_BUFFER_SIZE
        /\ fun3_state \in {0, 1, 2}
        /\ fun3_state = 2 /\ Len(k230_data) = 0 => Len(fun3_buffer) >= 5
        /\ fun3_state = 2 => /\ Len(k230_data) = 0 \/ Len(k230_data) >= 2
                             /\ fun3_buffer[2] = pack_head_2
        /\ Len(k230_data) > 0 => fun3_buffer = k230_data
        /\ Len(k230_data) > 1 => fun3_state = 2
        /\ Len(fun3_buffer) >= 1 => fun3_buffer[1] = pack_head_1
    BY SizeAssumption DEF ParserInv, ParserTypeOK, StoresInBounds, PhasesAgree, i,
       fun3_index, pack_num
  <1>1. ASSUME UNCHANGED <<rx_buffer, message_received>>
        PROVE  DeliveredTextShape'
    BY <1>1 DEF DeliveredTextShape, IsTextEnd
  <1>2. CASE Head1(b) \/ Head2(b) \/ Body(b)
    <2>1. UNCHANGED <<rx_buffer, message_received>> /\ k230_data' = Append(k230_data, b)
      BY <1>2 DEF Head1, Head2, Body, fun3out
    <2>2. Len(k230_data') # 0
      BY <1>0, <2>1, AppendFacts
    <2> QED BY <1>1, <2>1, <2>2 DEF TextSoFar
  <1>3. CASE Fifth(b)
    <2>1. UNCHANGED <<rx_buffer, message_received>> /\ Len(k230_data) = 4
      BY <1>3 DEF Fifth, fun3out, i, pack_num
    <2>2. /\ fun3_buffer = k230_data /\ fun3_state = 2
          /\ fun3_buffer[1] = pack_head_1 /\ fun3_buffer[2] = pack_head_2
      <3>1. fun3_buffer = k230_data /\ fun3_state = 2
        BY <1>0, <2>1
      <3>a. Len(fun3_buffer) = 4
        BY <2>1, <3>1
      <3>2. fun3_buffer[1] = pack_head_1
        BY <1>0, <3>a
      <3>3. fun3_buffer[2] = pack_head_2
        BY <1>0, <3>1
      <3> QED BY <3>1, <3>2, <3>3
    <2>3. PICK data : data = Append(k230_data, b)
      OBVIOUS
    <2>4. /\ Len(data) = 5 /\ data[1] = pack_head_1 /\ data[2] = pack_head_2
      <3>1. /\ Len(data) = Len(k230_data) + 1
            /\ \A k \in 1..Len(k230_data) : data[k] = k230_data[k]
        BY <1>0, <2>3, AppendFacts
      <3> QED BY <2>1, <2>2, <3>1
    <2>5. CASE IsFun2(data)
      <3>1. fun3_state' = 0
        BY <1>3, <2>3, <2>5 DEF Fifth
      <3> QED BY <1>1, <2>1, <3>1 DEF TextSoFar
    <2>6. CASE ~ IsFun2(data)
      <3>1. fun3_buffer' = data
        BY <1>3, <2>2, <2>3, <2>6 DEF Fifth
      <3>2. data[5] # pack_tail
        BY <2>4, <2>6 DEF IsFun2, data_test, pack_num
      <3>3. \A j \in 6..Len(data) : FALSE
        BY <2>4
      <3> QED BY <1>1, <2>1, <3>1, <3>2, <3>3 DEF TextSoFar
    <2> QED BY <2>5, <2>6
  <1>4. CASE TextTail(b)
    <2>1. fun3_state = 2 /\ Len(k230_data) = 0 /\ b # pack_head_1
      BY <1>0, <1>4, EmptySeq DEF TextTail, Otherwise, i, pack_num, pack_head_1, fun3_tail
    <2>2. fun3_state' = 0
      BY <1>4, <2>1 DEF TextTail, Restart
    <2>3. TextSoFar'
      BY <2>2 DEF TextSoFar
    <2>4. DeliveredTextShape'
      <3>1. Len(fun3_buffer) >= 5
        BY <1>0, <2>1
      <3>2. /\ \A k \in 0..(Len(fun3_buffer) - 3) : rx_buffer'[k] = fun3_buffer[k + 3]
            /\ rx_buffer'[Len(fun3_buffer) - 2] = 0
        BY <1>4, DeliveredText
      <3> DEFINE k == Len(fun3_buffer) - 2
      <3>3. k \in 3..(MAX_BUFFER_SIZE - 1) /\ k \in Int
        BY <1>0, <3>1, SizeAssumption
      <3>4. ASSUME 0 \notin Byte, NEW j \in 0..(k - 1)
            PROVE  rx_buffer'[j] # 0
        <4>1. j \in 0..(Len(fun3_buffer) - 3) /\ j + 3 \in 1..Len(fun3_buffer)
          BY <1>0, <3>1
        <4>2. fun3_buffer[j + 3] \in Byte
          BY <1>0, <4>1, ElementOfSeq
        <4> QED BY <3>2, <3>4, <4>1, <4>2
      <3>5. rx_buffer'[2] # pack_tail
        <4>1. 2 \in 0..(Len(fun3_buffer) - 3) /\ 2 + 3 = 5
          BY <1>0, <3>1
        <4> QED BY <2>1, <3>2, <4>1 DEF TextSoFar
      <3>6. ASSUME NEW j \in 3..(k - 1)
            PROVE  rx_buffer'[j] # fun3_tail
        <4>1. j \in 0..(Len(fun3_buffer) - 3) /\ j + 3 \in 6..Len(fun3_buffer)
          BY <1>0, <3>1
        <4> QED BY <2>1, <3>2, <4>1 DEF TextSoFar
      <3>7. rx_buffer'[k] = 0
        BY <3>2
      <3> HIDE DEF k
      <3> QED BY <3>3, <3>4, <3>5, <3>6, <3>7 DEF DeliveredTextShape, IsTextEnd
    <2> QED BY <2>3, <2>4
  <1>5. CASE TextOverflow(b)
    <2>1. UNCHANGED <<rx_buffer, message_received>> /\ fun3_state' # 2
      BY <1>5 DEF TextOverflow, Restart, fun3out
    <2> QED BY <1>1, <2>1 DEF TextSoFar
  <1>6. CASE TextByte(b)
    <2>1. /\ UNCHANGED <<rx_buffer, message_received, k230_data, fun3_state>>
          /\ fun3_buffer' = Append(fun3_buffer, b) /\ b # fun3_tail
      BY <1>6 DEF TextByte, fun3out
    <2>2. /\ Len(fun3_buffer') = Len(fun3_buffer) + 1 /\ fun3_buffer'[Len(fun3_buffer) + 1] = b
          /\ \A k \in 1..Len(fun3_buffer) : fun3_buffer'[k] = fun3_buffer[k]
      BY <1>0, <2>1, AppendFacts
    <2>3. ASSUME fun3_state = 2, Len(k230_data) = 0
          PROVE  /\ fun3_buffer'[5] # pack_tail
                 /\ \A j \in 6..Len(fun3_buffer') : fun3_buffer'[j] # fun3_tail
      <3>1. 5 \in 1..Len(fun3_buffer)
        BY <1>0, <2>3
      <3>2. fun3_buffer'[5] # pack_tail
        BY <2>2, <2>3, <3>1 DEF TextSoFar
      <3>3. ASSUME NEW j \in 6..Len(fun3_buffer')
            PROVE  fun3_buffer'[j] # fun3_tail
        <4>1. CASE j = Len(fun3_buffer) + 1
          BY <2>1, <2>2, <4>1
        <4>2. CASE j # Len(fun3_buffer) + 1
          <5>1. j \in 6..Len(fun3_buffer) /\ j \in 1..Len(fun3_buffer)
            BY <1>0, <2>2, <4>2
          <5> QED BY <2>2, <2>3, <5>1 DEF TextSoFar
        <4> QED BY <4>1, <4>2
      <3> QED BY <3>2, <3>3
    <2> QED BY <1>1, <2>1, <2>3 DEF TextSoFar
  <1>7. CASE Skip(b)
    <2>1. UNCHANGED <<rx_buffer, message_received>> /\ fun3_state' # 2
      BY <1>7 DEF Skip, Restart, parser, fun3out
    <2> QED BY <1>1, <2>1 DEF TextSoFar
  <1> QED BY <1>2, <1>3, <1>4, <1>5, <1>6, <1>7 DEF RxCplt

\* Every text that the UART4 callback delivers has at least three bytes, a third
\* byte other than 0x5a and no 0xc3 behind it, on every stream without NULs.
THEOREM ParserDeliveredShape == ParserSpec => []DeliveredTextShape
  <1> DEFINE Shape == TextSoFar /\ DeliveredTextShape
  <1>1. ParserInit => Shape
    BY DEF ParserInit, TextSoFar, DeliveredTextShape
  <1>2. ParserInv /\ Shape /\ [ParserNext]_parserVars => Shape'
    <2> SUFFICES ASSUME ParserInv, Shape, [ParserNext]_parserVars PROVE Shape'
      OBVIOUS
    <2>1. CASE ParserNext
      BY <2>1, ShapeStep DEF ParserNext
    <2>2. CASE UNCHANGED parserVars
      BY <2>2 DEF TextSoFar, DeliveredTextShape, IsTextEnd, parserVars
    <2> QED BY <2>1, <2>2
  <1>3. Shape => DeliveredTextShape
    OBVIOUS
  <1> QED BY <1>1, <1>2, <1>3, ParserInvariant, PTL DEF ParserSpec
-----------------------------------------------------------------------------

\* A set of natural numbers that is not empty has a least member.
LEMMA LeastNumber ==
    ASSUME NEW S \in SUBSET Nat, S # {}
    PROVE  \E x \in S : \A y \in S : x <= y
<1> DEFINE R == {ss \in Nat \X Nat : ss[1] < ss[2]}
<1>1. IsWellFoundedOn(R, Nat)  BY NatLessThanWellFounded DEF OpToRel
<1>2. \A x, y \in Nat : x < y => <<x, y>> \in R  OBVIOUS
<1> HIDE DEF R
<1>3. PICK x \in S : \A y \in S : ~ (<<y, x>> \in R)  BY <1>1, WFMin
<1>4. ASSUME NEW y \in S  PROVE x <= y
  <2>1. x \in Nat /\ y \in Nat /\ ~ (y < x)  BY <1>2, <1>3
  <2> QED  BY <2>1
<1> QED  BY <1>4
-----------------------------------------------------------------------------
(***************************************************************************)
(* The string in rx_buffer.                                                *)
(***************************************************************************)

BufferOK ==
    /\ rx_buffer \in [0..(MAX_BUFFER_SIZE - 1) -> Byte \union {0}] /\ RxTerminated

\* A buffer has one first NUL.
LEMMA FirstNul ==
    ASSUME NEW buf, NEW e \in 0..(MAX_BUFFER_SIZE - 1), buf[e] = 0,
           \A j \in 0..(e - 1) : buf[j] # 0
    PROVE  e = CHOOSE k \in 0..(MAX_BUFFER_SIZE - 1) :
                   buf[k] = 0 /\ \A j \in 0..(k - 1) : buf[j] # 0
<1> DEFINE end == CHOOSE k \in 0..(MAX_BUFFER_SIZE - 1) :
                      buf[k] = 0 /\ \A j \in 0..(k - 1) : buf[j] # 0
<1>1. end \in 0..(MAX_BUFFER_SIZE - 1) /\ buf[end] = 0 /\ \A j \in 0..(end - 1) : buf[j] # 0
  OBVIOUS
<1> HIDE DEF end
<1>2. end \in Int /\ e \in Int /\ 0 <= end /\ 0 <= e  BY <1>1, SizeAssumption
<1>3. ~ (end < e)
  <2> SUFFICES ASSUME end < e  PROVE FALSE  OBVIOUS
  <2>1. end \in 0..(e - 1)  BY <1>2
  <2> QED  BY <1>1, <2>1
<1>4. ~ (e < end)
  <2> SUFFICES ASSUME e < end  PROVE FALSE  OBVIOUS
  <2>1. e \in 0..(end - 1)  BY <1>2
  <2> QED  BY <1>1, <2>1
<1>5. end = e  BY <1>2, <1>3, <1>4
<1> QED  BY <1>5 DEF end

\* Where the NUL of rx_buffer is, CString ends.
LEMMA CStringIs ==
    ASSUME NEW e \in 0..(MAX_BUFFER_SIZE - 1), IsTextEnd(e)
    PROVE  CString = [k \in 1..e |-> rx_buffer[k - 1]]
BY FirstNul DEF CString, IsTextEnd

\* Every text that the UART4 callback delivers replaces the one before it whole,
\* and rx_buffer changes at no other time.
THEOREM ParserTextReplaced == ParserSpec => TextReplaced
<1>1. ASSUME ParserInv, NEW b \in Byte, RxCplt(b), 0 \notin Byte,
             rx_buffer' # rx_buffer \/ message_received' > message_received
      PROVE  CString' = SubSeq(fun3_buffer, 3, fun3_index)
  <2>1. TextTail(b)
    <3>1. UNCHANGED fun3out => ~ (rx_buffer' # rx_buffer \/ message_received' > message_received)
      BY <1>1 DEF fun3out, ParserInv, ParserTypeOK
    <3> QED  BY <1>1, <3>1 DEF RxCplt, Head1, Head2, Body, Fifth, TextOverflow, TextByte, Skip
  <2> DEFINE e == Len(fun3_buffer) - 2
  <2>2. /\ Len(fun3_buffer) >= 5 /\ Len(fun3_buffer) < MAX_BUFFER_SIZE
        /\ fun3_buffer \in Seq(Byte) /\ Len(fun3_buffer) \in Nat
        /\ \A k \in 0..(Len(fun3_buffer) - 3) : rx_buffer'[k] = fun3_buffer[k + 3]
        /\ rx_buffer'[e] = 0
    BY <1>1, <2>1, DeliveredText
  <2>3. e \in 0..(MAX_BUFFER_SIZE - 1) /\ e \in Nat  BY <2>2, SizeAssumption
  <2>4. ASSUME NEW k \in 1..e
        PROVE  /\ rx_buffer'[k - 1] = fun3_buffer[k + 2]
               /\ fun3_buffer[k + 2] \in Byte
    <3>1. k - 1 \in 0..(Len(fun3_buffer) - 3) /\ (k - 1) + 3 = k + 2 /\ k + 2 \in 1..Len(fun3_buffer)
      BY <2>2
    <3>2. fun3_buffer[k + 2] \in Byte  BY <2>2, <3>1, ElementOfSeq
    <3> QED  BY <2>2, <3>1, <3>2
  <2>5. ASSUME NEW j \in 0..(e - 1)  PROVE rx_buffer'[j] # 0
    <3>1. j + 1 \in 1..e /\ (j + 1) - 1 = j  BY <2>3
    <3> QED  BY <1>1, <2>4, <3>1
  <2> HIDE DEF e
  <2>6. CString' = [k \in 1..e |-> rx_buffer'[k - 1]]
    <3>1. e = CHOOSE k \in 0..(MAX_BUFFER_SIZE - 1) :
                  rx_buffer'[k] = 0 /\ \A j \in 0..(k - 1) : rx_buffer'[j] # 0
      BY <2>2, <2>3, <2>5, FirstNul
    <3> QED  BY <3>1 DEF CString, IsTextEnd
  <2> DEFINE r == SubSeq(fun3_buffer, 3, Len(fun3_buffer))
             c == [k \in 1..e |-> rx_buffer'[k - 1]]
  <2>7. /\ r \in Seq(Byte) /\ Len(r) = e
        /\ \A k \in 1..e : r[k] = fun3_buffer[k + 2]
    <3>1. \A k \in 3..Len(fun3_buffer) : fun3_buffer[k] \in Byte  BY <2>2
    <3>2. /\ r \in Seq(Byte)
          /\ Len(r) = IF 3 <= Len(fun3_buffer) THEN Len(fun3_buffer) - 3 + 1 ELSE 0
          /\ \A k \in 1..(Len(fun3_buffer) - 3 + 1) : r[k] = fun3_buffer[3 + k - 1]
      BY <2>2, <3>1, SubSeqProperties
    <3>3. Len(fun3_buffer) - 3 + 1 = e /\ 3 <= Len(fun3_buffer) /\ \A k \in 1..e : 3 + k - 1 = k + 2
      BY <2>2 DEF e
    <3> HIDE DEF r
    <3> QED  BY <3>2, <3>3
  <2>8. c \in Seq(Byte) /\ Len(c) = e /\ \A k \in 1..e : c[k] = rx_buffer'[k - 1]
    <3>1. \A k \in 1..e : rx_buffer'[k - 1] \in Byte  BY <2>4
    <3> QED  BY <2>3, <3>1, IsASeq
  <2> HIDE DEF r, c
  <2>9. c = r  BY <2>4, <2>7, <2>8, SeqEqual
  <2> QED  BY <2>6, <2>9 DEF c, r, fun3_index
<1>2. ParserInv /\ [ParserNext]_parserVars =>
          [(0 \notin Byte /\ (rx_buffer' # rx_buffer \/ message_received' > message_received))
               => CString' = SubSeq(fun3_buffer, 3, fun3_index)]_parserVars
  BY <1>1 DEF ParserNext
<1> QED  BY ParserInvariant, <1>2, PTL DEF ParserSpec, TextReplaced

\* There is a NUL.
LEMMA TextEnds ==
    ASSUME BufferOK
    PROVE  \E e \in 0..(MAX_BUFFER_SIZE - 1) : IsTextEnd(e)
<1> DEFINE S == {k \in 0..(MAX_BUFFER_SIZE - 1) : rx_buffer[k] = 0}
<1>1. S \in SUBSET Nat /\ MAX_BUFFER_SIZE - 1 \in S
  BY SizeAssumption DEF BufferOK, RxTerminated, pack_num
<1>2. PICK e \in S : \A y \in S : e <= y  BY <1>1, LeastNumber
<1>3. e \in Nat /\ e \in 0..(MAX_BUFFER_SIZE - 1) /\ rx_buffer[e] = 0  BY <1>1
<1>4. ASSUME NEW j \in 0..(e - 1)  PROVE rx_buffer[j] # 0
  <2>1. j \in 0..(MAX_BUFFER_SIZE - 1) /\ j < e /\ j \in Int  BY <1>3, SizeAssumption
  <2>2. j \notin S  BY <1>2, <1>3, <2>1
  <2> QED  BY <2>1, <2>2
<1> QED  BY <1>3, <1>4 DEF IsTextEnd

\* A sequence that holds the beginning of the string, and all that the thread's
\* buffer has room for.
Copied(m) ==
    /\ Len(m) <= MsgRoom
    /\ \A j \in 1..Len(m) : m[j] = rx_buffer[j - 1] /\ rx_buffer[j - 1] # 0

Told(m) == Copied(m) /\ (rx_buffer[Len(m)] = 0 \/ Len(m) = MsgRoom)

LEMMA ToldIsTruncated ==
    ASSUME BufferOK, NEW m \in Seq(Byte), Len(m) < MAX_BUFFER_SIZE, Told(m)
    PROVE  m = Truncated(CString)
<1>0. Len(m) \in Nat /\ MsgRoom \in Nat  BY LenProperties, LinkAssumption
<1>1. PICK e \in 0..(MAX_BUFFER_SIZE - 1) : IsTextEnd(e)  BY TextEnds
<1>2. e \in Nat /\ MAX_BUFFER_SIZE \in Nat  BY SizeAssumption
<1> DEFINE c == [k \in 1..e |-> rx_buffer[k - 1]]
<1>3. CString = c  BY <1>1, CStringIs
<1>4. \A k \in 1..e : rx_buffer[k - 1] \in Byte \union {0}
  BY <1>1, <1>2 DEF BufferOK
<1>5. c \in Seq(Byte \union {0}) /\ Len(c) = e
  BY <1>2, <1>4, IsASeq
<1>6. Len(m) <= e
  <2> SUFFICES ASSUME e < Len(m)  PROVE FALSE  BY <1>0, <1>2
  <2>1. e + 1 \in 1..Len(m) /\ (e + 1) - 1 = e  BY <1>0, <1>2
  <2> QED  BY <1>1, <2>1 DEF Told, Copied, IsTextEnd
<1>7. Len(m) = IF e < MsgRoom THEN e ELSE MsgRoom
  <2>1. CASE rx_buffer[Len(m)] = 0
    <3>1. ~ (Len(m) < e)
      <4> SUFFICES ASSUME Len(m) < e  PROVE FALSE  OBVIOUS
      <4>1. Len(m) \in 0..(e - 1)  BY <1>0, <1>2
      <4> QED  BY <1>1, <2>1, <4>1 DEF IsTextEnd
    <3> QED  BY <1>0, <1>2, <1>6, <3>1 DEF Told, Copied
  <2>2. CASE Len(m) = MsgRoom  BY <1>0, <1>2, <1>6, <2>2
  <2> QED  BY <2>1, <2>2 DEF Told
<1> HIDE DEF c
<1> DEFINE r == SubSeq(c, 1, Len(m))
<1>8. Truncated(CString) = r  BY <1>3, <1>5, <1>7 DEF Truncated
<1>9. \A k \in 1..Len(m) : k \in 1..e  BY <1>0, <1>2, <1>6
<1>10. \A k \in 1..Len(m) : c[k] \in Byte \union {0}  BY <1>5, <1>9, ElementOfSeq
<1>11. /\ r \in Seq(Byte \union {0}) /\ Len(r) = Len(m)
       /\ \A k \in 1..Len(m) : r[k] = c[k]
  <2>1. /\ r \in Seq(Byte \union {0})
        /\ Len(r) = IF 1 <= Len(m) THEN Len(m) - 1 + 1 ELSE 0
        /\ \A k \in 1..(Len(m) - 1 + 1) : r[k] = c[1 + k - 1]
    BY <1>0, <1>10, SubSeqProperties
  <2>2. Len(m) - 1 + 1 = Len(m) /\ \A k \in 1..Len(m) : 1 + k - 1 = k  BY <1>0
  <2> QED  BY <1>0, <2>1, <2>2
<1> HIDE DEF r
<1>12. \A k \in 1..Len(m) : r[k] = m[k]
  <2> TAKE k \in 1..Len(m)
  <2>1. c[k] = rx_buffer[k - 1]  BY <1>9 DEF c
  <2> QED  BY <1>11, <2>1 DEF Told, Copied
<1>13. m \in Seq(Byte \union {0})  BY SeqDef
<1> QED  BY <1>8, <1>11, <1>12, <1>13, SeqEqual
-----------------------------------------------------------------------------
(***************************************************************************)
(* The thread.  While the flag is down, what the thread has copied so far  *)
(* is the beginning of what is in rx_buffer: the flag comes up before the  *)
(* buffer can be anything else.                                            *)
(***************************************************************************)

LinkTypes ==
    /\ pc \in {"start", "returned", "poll", "clear", "copy", "queue", "speak"}
    /\ msg_buffer \in Seq(Byte) /\ Len(msg_buffer) < MAX_BUFFER_SIZE
    /\ spoken \in Seq(Byte) /\ Len(spoken) < MAX_BUFFER_SIZE
    /\ out \in Seq(Byte)
    /\ ai_msg_queue \in 0..AI_MSG_QUEUE_SIZE
    /\ frames \in 0..MaxFrames /\ losses \in 0..MaxLoss
    /\ sync \in {"ok", "lost", "text"}

UpToDate ==
    /\ pc = "clear" => message_received = 1
    /\ message_received = 0 =>
          /\ pc = "start" => spoken = <<>> /\ rx_buffer[0] = 0
          /\ pc = "poll" => Told(spoken)
          /\ pc = "copy" => Copied(msg_buffer)
          /\ pc \in {"queue", "speak"} => Told(msg_buffer)

LinkInv == ParserInv /\ LinkTypes /\ UpToDate

\* The bytes of a frame.
LEMMA FrameBytes ==
    ASSUME NEW f \in Frame
    PROVE  f.bytes \in Seq(Byte)
<1>1. ASSUME NEW body \in Seq(Byte), NEW tail \in Byte
      PROVE  <<pack_head_1, pack_head_2>> \o body \o <<tail>> \in Seq(Byte)
  BY LinkAssumption
<1>2. CASE \E t \in Texts : f = Fun3Frame(t)
  <2>1. PICK t \in Texts : f = Fun3Frame(t)  BY <1>2
  <2>2. t \in Seq(Byte)  BY LinkAssumption, SeqMonotonic
  <2> QED  BY <1>1, <2>1, <2>2, LinkAssumption DEF Fun3Frame
<1>3. CASE \E o \in Objects : f = Fun2Frame(o)
  <2>1. PICK o \in Objects : f = Fun2Frame(o)  BY <1>3
  <2>2. PICK x \in Byte, class \in Byte : o = <<x, class>>  BY LinkAssumption
  <2>3. <<x, class>> \in Seq(Byte)  OBVIOUS
  <2> QED  BY <1>1, <2>1, <2>2, <2>3, LinkAssumption DEF Fun2Frame
<1> QED  BY <1>2, <1>3 DEF Frame

\* A byte raises the flag or leaves the text alone.
LEMMA RaisesFlag ==
    ASSUME NEW b, RxCplt(b)
    PROVE  message_received' = 1 \/ UNCHANGED <<rx_buffer, message_received>>
<1>1. CASE TextTail(b)  BY <1>1 DEF TextTail, Deliver, fun3out
<1>2. CASE ~ TextTail(b)
  BY <1>2 DEF RxCplt, Head1, Head2, Body, Fifth, TextOverflow, TextByte, Skip, fun3out
<1> QED  BY <1>1, <1>2

LEMMA LinkInitInv == Init => LinkInv
<1> SUFFICES ASSUME Init  PROVE LinkInv  OBVIOUS
<1>1. ParserInv  BY InitInv DEF Init
<1>2. Len(<<>>) = 0 /\ <<>> \in Seq(Byte)  BY EmptySeq
<1>3. LinkTypes
  BY <1>2, SizeAssumption, LinkAssumption DEF Init, LinkTypes, None, pack_num
<1>4. 0 \in 0..(MAX_BUFFER_SIZE - 1)  BY SizeAssumption DEF pack_num
<1>5. UpToDate  BY <1>4 DEF Init, ParserInit, UpToDate, None
<1> QED  BY <1>1, <1>3, <1>5 DEF LinkInv

\* A step of the line that the parser does not see.
LEMMA ParserSame ==
    ASSUME ParserInv, UNCHANGED parserVars
    PROVE  ParserInv'
BY DEF ParserInv, ParserTypeOK, StoresInBounds, PhasesAgree, RxTerminated, i, fun3_index, parserVars

LEMMA CopyCharInv ==
    ASSUME LinkInv, CopyChar
    PROVE  LinkInv'
<1> DEFINE n == Len(msg_buffer)
<1>0. /\ ParserInv /\ LinkTypes /\ UpToDate /\ pc = "copy"
      /\ UNCHANGED <<ai_msg_queue, spoken, k230_data, fun3_state, fun3_buffer, receive_x, receive_flag>>
      /\ UNCHANGED <<rx_buffer, message_received, current_mode, out, frame, frames, losses, sync>>
  BY DEF LinkInv, CopyChar, parserVars, line
<1>1. ParserInv'  BY <1>0, ParserSame DEF CopyChar
<1>2. n \in Nat /\ msg_buffer \in Seq(Byte) /\ n < MAX_BUFFER_SIZE /\ MsgRoom \in Nat
  BY <1>0, LinkAssumption DEF LinkTypes
<1>3. CASE rx_buffer[n] = 0 \/ n = MsgRoom
  <2>1. pc' = "queue" /\ msg_buffer' = msg_buffer  BY <1>3 DEF CopyChar
  <2>2. LinkTypes'  BY <1>0, <2>1 DEF LinkTypes
  <2>3. message_received = 0 => Told(msg_buffer)  BY <1>0, <1>3 DEF UpToDate, Told
  <2>4. UpToDate'  BY <1>0, <2>1, <2>3 DEF UpToDate, Told, Copied
  <2> QED  BY <1>1, <2>2, <2>4 DEF LinkInv
<1>4. CASE ~ (rx_buffer[n] = 0 \/ n = MsgRoom)
  <2>1. pc' = "copy" /\ msg_buffer' = Append(msg_buffer, rx_buffer[n])  BY <1>0, <1>4 DEF CopyChar
  <2>2. n # MAX_BUFFER_SIZE - 1
    BY <1>0, <1>4 DEF ParserInv, RxTerminated
  <2>3. n + 1 < MAX_BUFFER_SIZE /\ n \in 0..(MAX_BUFFER_SIZE - 1)  BY <1>2, <2>2, SizeAssumption
  <2>4. rx_buffer[n] \in Byte
    BY <1>0, <1>4, <2>3 DEF ParserInv, ParserTypeOK
  <2>5. /\ msg_buffer' \in Seq(Byte) /\ Len(msg_buffer') = n + 1
        /\ \A k \in 1..n : msg_buffer'[k] = msg_buffer[k]
        /\ msg_buffer'[n + 1] = rx_buffer[n]
    BY <1>2, <2>1, <2>4, AppendFacts
  <2>6. LinkTypes'  BY <1>0, <2>1, <2>3, <2>5 DEF LinkTypes
  <2>7. ASSUME message_received = 0  PROVE Copied(msg_buffer)'
    <3>1. Copied(msg_buffer)  BY <1>0, <2>7 DEF UpToDate
    <3>2. n + 1 <= MsgRoom  BY <1>2, <1>4, <3>1 DEF Copied
    <3>3. ASSUME NEW j \in 1..(n + 1)
          PROVE  msg_buffer'[j] = rx_buffer[j - 1] /\ rx_buffer[j - 1] # 0
      <4>1. CASE j = n + 1
        <5>1. j - 1 = n  BY <1>2, <4>1
        <5> QED  BY <1>4, <2>5, <4>1, <5>1
      <4>2. CASE j # n + 1
        <5>1. j \in 1..n  BY <1>2, <4>2
        <5> QED  BY <2>5, <3>1, <5>1 DEF Copied
      <4> QED  BY <4>1, <4>2
    <3> QED  BY <1>0, <2>5, <3>2, <3>3 DEF Copied
  <2>8. UpToDate'  BY <1>0, <2>1, <2>7 DEF UpToDate
  <2> QED  BY <1>1, <2>6, <2>8 DEF LinkInv
<1> QED  BY <1>3, <1>4

LEMMA LinkNextInv == LinkInv /\ [Next]_vars => LinkInv'
<1> SUFFICES ASSUME LinkInv, [Next]_vars  PROVE LinkInv'  OBVIOUS
<1>0. ParserInv /\ LinkTypes /\ UpToDate  BY DEF LinkInv
<1>1. ASSUME NEW f \in Frame, StartFrame(f)  PROVE LinkInv'
  <2>1. /\ UNCHANGED <<parserVars, losses, pc, msg_buffer, ai_msg_queue, spoken>>
        /\ out' = f.bytes /\ frames' = frames + 1 /\ frames < MaxFrames
        /\ sync' = IF sync = "lost" /\ f.kind = "fun3" THEN "text" ELSE sync
    BY <1>1 DEF StartFrame, thread
  <2>2. ParserInv'  BY <1>0, <2>1, ParserSame
  <2>3. frames' \in 0..MaxFrames  BY <1>0, <2>1, LinkAssumption DEF LinkTypes
  <2>4. LinkTypes'  BY <1>0, <2>1, <2>3, FrameBytes DEF LinkTypes
  <2>5. UpToDate'  BY <1>0, <2>1 DEF UpToDate, Told, Copied, parserVars
  <2> QED  BY <2>2, <2>4, <2>5 DEF LinkInv
<1>2. CASE Arrive
  <2>1. /\ RxCplt(Head(out)) /\ out' = Tail(out) /\ out # <<>>
        /\ sync' = IF Len(out) = 1 /\ sync = "text" THEN "ok" ELSE sync
        /\ UNCHANGED <<frames, losses, pc, msg_buffer, ai_msg_queue, spoken>>
    BY <1>2 DEF Arrive, thread
  <2>2. Head(out) \in Byte /\ Tail(out) \in Seq(Byte)
    BY <1>0, <2>1, HeadTailProperties DEF LinkTypes
  <2>3. ParserInv'  BY <1>0, <2>1, <2>2, StepInv
  <2>4. LinkTypes'  BY <1>0, <2>1, <2>2 DEF LinkTypes
  <2>5. UpToDate'
    <3>1. CASE message_received' = 1  BY <3>1 DEF UpToDate
    <3>2. CASE UNCHANGED <<rx_buffer, message_received>>
      BY <1>0, <2>1, <3>2 DEF UpToDate, Told, Copied
    <3> QED  BY <2>1, <3>1, <3>2, RaisesFlag
  <2> QED  BY <2>3, <2>4, <2>5 DEF LinkInv
<1>3. CASE Lose
  <2>1. /\ UNCHANGED <<parserVars, frames, pc, msg_buffer, ai_msg_queue, spoken>>
        /\ out # <<>> /\ out' = Tail(out) /\ losses' = losses + 1 /\ losses < MaxLoss
        /\ sync' = "lost"
    BY <1>3 DEF Lose, thread
  <2>2. ParserInv'  BY <1>0, <2>1, ParserSame
  <2>3. losses' \in 0..MaxLoss  BY <1>0, <2>1, LinkAssumption DEF LinkTypes
  <2>4. Tail(out) \in Seq(Byte)  BY <1>0, <2>1, HeadTailProperties DEF LinkTypes
  <2>5. LinkTypes'  BY <1>0, <2>1, <2>3, <2>4 DEF LinkTypes
  <2>6. UpToDate'  BY <1>0, <2>1 DEF UpToDate, Told, Copied, parserVars
  <2> QED  BY <2>2, <2>5, <2>6 DEF LinkInv
<1>4. CASE Open
  <2>1. /\ UNCHANGED <<parserVars, msg_buffer, ai_msg_queue, spoken, out, frames, losses, sync>>
        /\ pc = "start" /\ pc' \in {"poll", "returned"}
    BY <1>4 DEF Open, line
  <2>2. ParserInv'  BY <1>0, <2>1, ParserSame
  <2>3. LinkTypes'  BY <1>0, <2>1 DEF LinkTypes
  <2>4. message_received = 0 => Told(spoken)
    <3> SUFFICES ASSUME message_received = 0  PROVE Told(spoken)  OBVIOUS
    <3>1. spoken = <<>> /\ rx_buffer[0] = 0  BY <1>0, <2>1 DEF UpToDate
    <3>2. Len(spoken) = 0  BY <3>1
    <3> QED  BY <3>1, <3>2, LinkAssumption DEF Told, Copied
  <2>5. UpToDate'  BY <2>1, <2>4 DEF UpToDate, Told, Copied, parserVars
  <2> QED  BY <2>2, <2>3, <2>5 DEF LinkInv
<1>5. CASE Poll
  <2>1. /\ UNCHANGED <<parserVars, msg_buffer, ai_msg_queue, spoken, out, frames, losses, sync>>
        /\ message_received = 1 /\ pc' = "clear"
    BY <1>5 DEF Poll, line
  <2>2. ParserInv'  BY <1>0, <2>1, ParserSame
  <2>3. LinkTypes'  BY <1>0, <2>1 DEF LinkTypes
  <2>4. UpToDate'  BY <2>1 DEF UpToDate, parserVars
  <2> QED  BY <2>2, <2>3, <2>4 DEF LinkInv
<1>6. CASE Clear
  <2>1. /\ UNCHANGED <<k230_data, fun3_state, fun3_buffer, receive_x, receive_flag, rx_buffer, current_mode>>
        /\ UNCHANGED <<ai_msg_queue, spoken, out, frames, losses, sync>>
        /\ message_received' = 0 /\ pc' = "copy" /\ msg_buffer' = <<>>
    BY <1>6 DEF Clear, line, fun2out
  <2>2. ParserInv'
    BY <1>0, <2>1 DEF ParserInv, ParserTypeOK, StoresInBounds, PhasesAgree, RxTerminated, i, fun3_index
  <2>3. Len(<<>>) = 0 /\ <<>> \in Seq(Byte) /\ 0 < MAX_BUFFER_SIZE
    BY EmptySeq, SizeAssumption DEF pack_num
  <2>4. LinkTypes'  BY <1>0, <2>1, <2>3 DEF LinkTypes
  <2>5. UpToDate'  BY <2>1, <2>3, LinkAssumption DEF UpToDate, Copied
  <2> QED  BY <2>2, <2>4, <2>5 DEF LinkInv
<1>7. CASE CopyChar  BY <1>7, CopyCharInv
<1>8. CASE Queue
  <2>1. /\ UNCHANGED <<parserVars, msg_buffer, spoken, out, frames, losses, sync>>
        /\ pc = "queue" /\ pc' = "speak"
        /\ ai_msg_queue' = IF ai_msg_queue < AI_MSG_QUEUE_SIZE THEN ai_msg_queue + 1 ELSE ai_msg_queue
    BY <1>8 DEF Queue, line
  <2>2. ParserInv'  BY <1>0, <2>1, ParserSame
  <2>3. ai_msg_queue' \in 0..AI_MSG_QUEUE_SIZE  BY <1>0, <2>1, LinkAssumption DEF LinkTypes
  <2>4. LinkTypes'  BY <1>0, <2>1, <2>3 DEF LinkTypes
  <2>5. UpToDate'  BY <1>0, <2>1 DEF UpToDate, Told, Copied, parserVars
  <2> QED  BY <2>2, <2>4, <2>5 DEF LinkInv
<1>9. CASE Speak
  <2>1. /\ UNCHANGED <<parserVars, msg_buffer, ai_msg_queue, out, frames, losses, sync>>
        /\ pc = "speak" /\ pc' = "poll" /\ spoken' = msg_buffer
    BY <1>9 DEF Speak, line
  <2>2. ParserInv'  BY <1>0, <2>1, ParserSame
  <2>3. LinkTypes'  BY <1>0, <2>1 DEF LinkTypes
  <2>4. UpToDate'  BY <1>0, <2>1 DEF UpToDate, Told, Copied, parserVars
  <2> QED  BY <2>2, <2>3, <2>4 DEF LinkInv
<1>10. CASE UNCHANGED vars
  <2>1. UNCHANGED <<parserVars, pc, msg_buffer, ai_msg_queue, spoken, out, frames, losses, sync>>
    BY <1>10 DEF vars, thread, line
  <2>2. ParserInv'  BY <1>0, <2>1, ParserSame
  <2>3. LinkTypes' /\ UpToDate'  BY <1>0, <2>1 DEF LinkTypes, UpToDate, Told, Copied, parserVars
  <2> QED  BY <2>2, <2>3 DEF LinkInv
<1> QED
  BY <1>1, <1>2, <1>3, <1>4, <1>5, <1>6, <1>7, <1>8, <1>9, <1>10 DEF Next, Thread

\* The parser, the line and the thread keep the invariant in every interleaving.
THEOREM LinkInvariant == Spec => []LinkInv
<1> QED  BY LinkInitInv, LinkNextInv, PTL DEF Spec

\* The thread's and the line's state keep their types: the thread's copy of a
\* text never runs past rx_buffer, whenever the interrupt replaces the text.
THEOREM LinkTypeCorrect == Spec => []TypeOK
<1>1. LinkInv => TypeOK  BY DEF LinkInv, LinkTypes, ParserInv, TypeOK
<1> QED  BY <1>1, LinkInvariant, PTL

\* No text is forgotten: whenever ai_data_handler_thread_entry is back at its
\* poll with message_received down, the text it announced last is the one in
\* rx_buffer, wherever the receive interrupt came in between.
THEOREM LinkNoTextForgotten == Spec => []NoTextForgotten
<1>1. LinkInv => NoTextForgotten
  <2> SUFFICES ASSUME LinkInv, pc = "poll", message_received = 0
               PROVE  spoken = Truncated(CString)
    BY DEF NoTextForgotten
  <2>1. Told(spoken) /\ spoken \in Seq(Byte) /\ Len(spoken) < MAX_BUFFER_SIZE
    BY DEF LinkInv, UpToDate, LinkTypes
  <2>2. BufferOK  BY DEF LinkInv, ParserInv, ParserTypeOK, BufferOK
  <2> QED  BY <2>1, <2>2, ToldIsTruncated
<1> QED  BY <1>1, LinkInvariant, PTL
-----------------------------------------------------------------------------
(***************************************************************************)
(* The line.  While nothing is lost, the bytes that have come are the      *)
(* beginning of the frame that was sent last, and the parser holds them.   *)
(* This is so for the texts that the two formats can tell apart.           *)
(***************************************************************************)

\* A text that the callback takes for a text: it fits in fun3_buffer, its third
\* byte, the fifth of the frame, is not the tail of fun2, and no tail of fun3
\* follows (compare DeliveredTextShape).
Sendable(t) ==
    /\ Len(t) >= 3 /\ Len(t) + 2 < MAX_BUFFER_SIZE
    /\ t[3] # pack_tail
    /\ \A j \in 4..Len(t) : t[j] # fun3_tail

\* The parser holds the first p bytes of a frame.
Reads(f, p) ==
    /\ fun3_index = p /\ \A j \in 1..p : fun3_buffer[j] = f.bytes[j]
    /\ i = IF p < pack_num THEN p ELSE 0
    /\ fun3_state = IF p < 2 THEN p ELSE 2

\* The frame has been parsed and its contents are where their readers look.
HoldsText(t) ==
    /\ Len(t) < MAX_BUFFER_SIZE /\ IsTextEnd(Len(t))
    /\ \A k \in 1..Len(t) : rx_buffer[k - 1] = t[k]

Parsed(f) ==
    /\ fun3_state = 0 /\ i = 0
    /\ f.kind = "fun3" => HoldsText(f.text) /\ current_mode = 1
    /\ f.kind = "fun2" => <<receive_x, receive_flag>> = f.text /\ current_mode = 0

\* What is left of a frame on the line, and what the parser has of it.
OnLine(f) ==
    /\ f \in Frame /\ Len(out) <= Len(f.bytes)
    /\ \A j \in 1..Len(out) : out[j] = f.bytes[Len(f.bytes) - Len(out) + j]
    /\ IF out = <<>> THEN Parsed(f) ELSE Reads(f, Len(f.bytes) - Len(out))

InStep ==
    losses = 0 => \/ frame = None /\ out = <<>> /\ fun3_state = 0 /\ i = 0
                  \/ OnLine(frame)

\* How a frame is laid out.
Layout(f, n) ==
    /\ n \in Nat /\ n >= 5 /\ n = Len(f.bytes)
    /\ f.bytes \in Seq(Byte)
    /\ f.bytes[1] = pack_head_1 /\ f.bytes[2] = pack_head_2

IsTextFrame(f, n) ==
    /\ f.kind = "fun3" /\ n >= 6 /\ n <= MAX_BUFFER_SIZE
    /\ f.bytes[5] # pack_tail /\ f.bytes[n] = fun3_tail
    /\ \A j \in 6..(n - 1) : f.bytes[j] # fun3_tail
    /\ f.text \in Seq(Byte \ {0}) /\ Len(f.text) = n - 3
    /\ \A j \in 1..(n - 3) : f.text[j] = f.bytes[j + 2]

IsObjectFrame(f, n) ==
    /\ f.kind = "fun2" /\ n = 5 /\ f.bytes[5] = pack_tail
    /\ f.text = <<f.bytes[3], f.bytes[4]>>

\* A frame: two headers, its contents, its tail.
LEMMA FrameOf ==
    ASSUME NEW body \in Seq(Byte), NEW tail \in Byte,
           NEW bytes, bytes = <<pack_head_1, pack_head_2>> \o body \o <<tail>>
    PROVE  /\ Len(bytes) = Len(body) + 3 /\ bytes[1] = pack_head_1 /\ bytes[2] = pack_head_2
           /\ \A j \in 1..Len(body) : bytes[j + 2] = body[j]
           /\ bytes[Len(body) + 3] = tail
<1> DEFINE h == <<pack_head_1, pack_head_2>>
           hb == h \o body
           l == <<tail>>
<1>0. h \in Seq(Byte) /\ Len(h) = 2 /\ h[1] = pack_head_1 /\ h[2] = pack_head_2  BY LinkAssumption
<1>1. l \in Seq(Byte) /\ Len(l) = 1 /\ l[1] = tail  OBVIOUS
<1>n. Len(body) \in Nat  OBVIOUS
<1> HIDE DEF h, l
<1>2. /\ hb \in Seq(Byte) /\ Len(hb) = 2 + Len(body)
      /\ \A j \in 1..(2 + Len(body)) : hb[j] = IF j <= 2 THEN h[j] ELSE body[j - 2]
  BY <1>0, ConcatProperties, SMTT(30)
<1>3. bytes = hb \o l  BY DEF h, l
<1> HIDE DEF hb
<1>4. /\ Len(bytes) = Len(hb) + 1
      /\ \A j \in 1..(Len(hb) + 1) : bytes[j] = IF j <= Len(hb) THEN hb[j] ELSE l[j - Len(hb)]
  BY <1>1, <1>2, <1>3, ConcatProperties
<1>5. bytes[1] = pack_head_1 /\ bytes[2] = pack_head_2  BY <1>0, <1>2, <1>4, <1>n
<1>6. ASSUME NEW j \in 1..Len(body)  PROVE bytes[j + 2] = body[j]
  <2>1. j + 2 \in 1..(2 + Len(body)) /\ ~ (j + 2 <= 2) /\ (j + 2) - 2 = j  BY <1>n
  <2>2. hb[j + 2] = body[j]  BY <1>2, <2>1
  <2>3. bytes[j + 2] = hb[j + 2]  BY <1>2, <1>4, <1>n, <2>1
  <2> QED  BY <2>2, <2>3
<1>7. bytes[Len(body) + 3] = tail
  <2>1. /\ Len(body) + 3 \in 1..(Len(hb) + 1) /\ ~ (Len(body) + 3 <= Len(hb))
        /\ (Len(body) + 3) - Len(hb) = 1
    BY <1>2, <1>n
  <2> QED  BY <1>1, <1>4, <2>1
<1> QED  BY <1>2, <1>4, <1>5, <1>6, <1>7, <1>n

LEMMA FrameLayout ==
    ASSUME \A t \in Texts : Sendable(t), NEW f \in Frame
    PROVE  LET n == Len(f.bytes) IN Layout(f, n) /\ (IsTextFrame(f, n) \/ IsObjectFrame(f, n))
<1> DEFINE n == Len(f.bytes)
<1>0. f.bytes \in Seq(Byte) /\ n \in Nat  BY FrameBytes
<1>1. CASE \E t \in Texts : f = Fun3Frame(t)
  <2>1. PICK t \in Texts : f = Fun3Frame(t)  BY <1>1
  <2>2. t \in Seq(Byte) /\ t \in Seq(Byte \ {0})  BY LinkAssumption, SeqMonotonic
  <2>3. /\ f.kind = "fun3" /\ f.text = t
        /\ f.bytes = <<pack_head_1, pack_head_2>> \o t \o <<fun3_tail>>
    BY <2>1 DEF Fun3Frame
  <2>4. /\ n = Len(t) + 3 /\ f.bytes[1] = pack_head_1 /\ f.bytes[2] = pack_head_2
        /\ \A j \in 1..Len(t) : f.bytes[j + 2] = t[j]
        /\ f.bytes[Len(t) + 3] = fun3_tail
    BY <2>2, <2>3, FrameOf, LinkAssumption
  <2>5. Len(t) \in Nat /\ Len(t) >= 3 /\ n <= MAX_BUFFER_SIZE
    BY <2>2, <2>4, SizeAssumption DEF Sendable
  <2>6. f.bytes[5] # pack_tail  BY <2>4, <2>5 DEF Sendable
  <2>7. ASSUME NEW j \in 6..(n - 1)  PROVE f.bytes[j] # fun3_tail
    <3>1. j - 2 \in 4..Len(t) /\ j - 2 \in 1..Len(t) /\ (j - 2) + 2 = j  BY <2>4, <2>5
    <3>2. \A k \in 4..Len(t) : t[k] # fun3_tail  BY DEF Sendable
    <3>3. t[j - 2] # fun3_tail  BY <3>1, <3>2
    <3>4. f.bytes[(j - 2) + 2] = t[j - 2]  BY <2>4, <3>1
    <3> QED  BY <3>1, <3>3, <3>4
  <2>8. n - 3 = Len(t) /\ n >= 6  BY <2>4, <2>5
  <2>9. Layout(f, n)  BY <1>0, <2>4, <2>8 DEF Layout
  <2>10. IsTextFrame(f, n)  BY <2>2, <2>3, <2>4, <2>5, <2>6, <2>7, <2>8 DEF IsTextFrame
  <2> QED  BY <2>9, <2>10
<1>2. CASE \E o \in Objects : f = Fun2Frame(o)
  <2>1. PICK o \in Objects : f = Fun2Frame(o)  BY <1>2
  <2>2. PICK x \in Byte, class \in Byte : o = <<x, class>>  BY LinkAssumption
  <2>3. <<x, class>> \in Seq(Byte) /\ Len(<<x, class>>) = 2  OBVIOUS
  <2>4. /\ f.kind = "fun2" /\ f.text = <<x, class>>
        /\ f.bytes = <<pack_head_1, pack_head_2>> \o <<x, class>> \o <<pack_tail>>
    BY <2>1, <2>2 DEF Fun2Frame
  <2>5. /\ n = Len(<<x, class>>) + 3 /\ f.bytes[1] = pack_head_1 /\ f.bytes[2] = pack_head_2
        /\ \A j \in 1..Len(<<x, class>>) : f.bytes[j + 2] = <<x, class>>[j]
        /\ f.bytes[Len(<<x, class>>) + 3] = pack_tail
    BY <2>3, <2>4, FrameOf, LinkAssumption
  <2>6. n = 5 /\ f.bytes[3] = x /\ f.bytes[4] = class /\ f.bytes[5] = pack_tail  BY <2>3, <2>5
  <2> QED  BY <1>0, <2>4, <2>5, <2>6 DEF Layout, IsObjectFrame
<1> QED  BY <1>1, <1>2 DEF Frame

\* The next byte of a frame brings the parser one byte further.
LEMMA ReadsOn ==
    ASSUME ParserInv, NEW f, NEW n, Layout(f, n), IsTextFrame(f, n) \/ IsObjectFrame(f, n),
           NEW p \in Nat, p < n, Reads(f, p),
           NEW b \in Byte, b = f.bytes[p + 1], RxCplt(b)
    PROVE  IF p + 1 = n THEN Parsed(f)' ELSE Reads(f, p + 1)'
<1>0. /\ k230_data \in Seq(Byte) /\ fun3_buffer \in Seq(Byte)
      /\ Len(fun3_buffer) = p /\ \A j \in 1..p : fun3_buffer[j] = f.bytes[j]
      /\ Len(k230_data) = IF p < 5 THEN p ELSE 0
      /\ fun3_state = IF p < 2 THEN p ELSE 2
      /\ Len(k230_data) > 0 => fun3_buffer = k230_data
  BY DEF Reads, ParserInv, ParserTypeOK, PhasesAgree, i, fun3_index, pack_num
<1>1. /\ n \in Nat /\ n >= 5 /\ f.bytes[1] = pack_head_1 /\ f.bytes[2] = pack_head_2
      /\ MAX_BUFFER_SIZE \in Nat /\ MAX_BUFFER_SIZE > 5
  BY SizeAssumption DEF Layout, pack_num
\* A byte that is kept.
<1>2. ASSUME fun3_buffer' = Append(fun3_buffer, b)
      PROVE  Len(fun3_buffer') = p + 1 /\ \A j \in 1..(p + 1) : fun3_buffer'[j] = f.bytes[j]
  <2>1. /\ Len(fun3_buffer') = Len(fun3_buffer) + 1
        /\ \A k \in 1..Len(fun3_buffer) : fun3_buffer'[k] = fun3_buffer[k]
        /\ fun3_buffer'[Len(fun3_buffer) + 1] = b
    BY <1>0, <1>2, AppendFacts
  <2>2. ASSUME NEW j \in 1..(p + 1)  PROVE fun3_buffer'[j] = f.bytes[j]
    <3>1. CASE j = p + 1  BY <1>0, <2>1, <3>1
    <3>2. CASE j # p + 1
      <4>1. j \in 1..p  BY <3>2
      <4> QED  BY <1>0, <2>1, <4>1
    <3> QED  BY <3>1, <3>2
  <2> QED  BY <1>0, <2>1, <2>2
<1>3. CASE p = 0
  <2>1. b = pack_head_1 /\ fun3_state = 0 /\ Len(k230_data) = 0 /\ Len(fun3_buffer) = 0
    BY <1>0, <1>1, <1>3
  <2>2. Head1(b)
    BY <2>1 DEF RxCplt, Head2, Body, Fifth, TextTail, TextOverflow, TextByte, Skip, Otherwise, i, pack_num
  <2>3. k230_data' = <<b>> /\ fun3_buffer' = <<b>> /\ fun3_state' = 1
    BY <1>0, <2>1, <2>2, AppendEmpty DEF Head1
  <2>4. fun3_buffer' = Append(fun3_buffer, b)  BY <1>0, <2>1, <2>3, AppendEmpty
  <2>5. Len(k230_data') = 1  BY <2>3, SingletonFacts
  <2>6. Reads(f, p + 1)'  BY <1>2, <1>3, <2>3, <2>4, <2>5 DEF Reads, i, fun3_index, pack_num
  <2> QED  BY <1>1, <1>3, <2>6
<1>4. CASE p = 1
  <2>1. b = pack_head_2 /\ fun3_state = 1 /\ Len(k230_data) = 1  BY <1>0, <1>1, <1>4
  <2>2. Head2(b)
    BY <2>1 DEF RxCplt, Head1, Body, Fifth, TextTail, TextOverflow, TextByte, Skip, Otherwise, i, pack_num
  <2>3. k230_data' = Append(k230_data, b) /\ fun3_buffer' = Append(fun3_buffer, b) /\ fun3_state' = 2
    BY <2>2 DEF Head2
  <2>4. Len(k230_data') = 2  BY <1>0, <2>1, <2>3, AppendFacts
  <2>5. Reads(f, p + 1)'  BY <1>2, <1>4, <2>3, <2>4 DEF Reads, i, fun3_index, pack_num
  <2> QED  BY <1>1, <1>4, <2>5
<1>5. CASE p \in {2, 3}
  <2>1. fun3_state = 2 /\ Len(k230_data) = p /\ Len(fun3_buffer) = p  BY <1>0, <1>5
  <2>2. Body(b)
    BY <1>5, <2>1 DEF RxCplt, Head1, Head2, Fifth, TextTail, TextOverflow, TextByte, Skip, Otherwise, i, pack_num
  <2>3. k230_data' = Append(k230_data, b) /\ fun3_buffer' = Append(fun3_buffer, b) /\ fun3_state' = 2
    BY <1>1, <1>5, <2>1, <2>2 DEF Body, Full, fun3_index
  <2>4. Len(k230_data') = p + 1  BY <1>0, <2>1, <2>3, AppendFacts
  <2>5. p + 1 < 5 /\ ~ (p + 1 < 2)  BY <1>5
  <2>6. Reads(f, p + 1)'  BY <1>2, <2>3, <2>4, <2>5 DEF Reads, i, fun3_index, pack_num
  <2> QED  BY <1>1, <1>5, <2>6
<1>6. CASE p = 4
  <2>1. fun3_state = 2 /\ Len(k230_data) = 4 /\ fun3_buffer = k230_data  BY <1>0, <1>6
  <2>2. Fifth(b)
    BY <2>1 DEF RxCplt, Head1, Head2, Body, TextTail, TextOverflow, TextByte, Skip, Otherwise, i, pack_num
  <2>3. PICK data : data = Append(k230_data, b)  OBVIOUS
  <2>4. /\ \A k \in 1..4 : data[k] = k230_data[k]
        /\ data[5] = b
    <3>1. /\ \A k \in 1..Len(k230_data) : data[k] = k230_data[k]
          /\ data[Len(k230_data) + 1] = b
      BY <1>0, <2>3, AppendFacts
    <3> QED  BY <2>1, <3>1
  <2>5. data[1] = f.bytes[1] /\ data[2] = f.bytes[2] /\ data[3] = f.bytes[3] /\ data[4] = f.bytes[4]
    BY <1>0, <1>6, <2>1, <2>4
  <2>6. b = f.bytes[5]  BY <1>6
  <2>7. k230_data' = <<>> /\ Len(k230_data') = 0  BY <2>2 DEF Fifth
  <2>8. CASE IsObjectFrame(f, n)
    <3>1. IsFun2(data)
      BY <1>1, <2>4, <2>5, <2>6, <2>8 DEF IsFun2, data_test, IsObjectFrame, pack_num
    <3>2. receive_x' = data[3] /\ receive_flag' = data[4] /\ current_mode' = 0 /\ fun3_state' = 0
      BY <2>2, <2>3, <3>1 DEF Fifth
    <3>3. Parsed(f)'  BY <2>5, <2>7, <2>8, <3>2 DEF Parsed, IsObjectFrame, i
    <3> QED  BY <1>6, <2>8, <3>3 DEF IsObjectFrame
  <2>9. CASE IsTextFrame(f, n)
    <3>1. ~ IsFun2(data)  BY <2>4, <2>6, <2>9 DEF IsFun2, IsTextFrame, pack_num
    <3>2. fun3_buffer' = Append(fun3_buffer, b) /\ fun3_state' = 2
      BY <2>1, <2>2, <2>3, <3>1 DEF Fifth
    <3>3. Reads(f, p + 1)'  BY <1>2, <1>6, <2>7, <3>2 DEF Reads, i, fun3_index, pack_num
    <3> QED  BY <1>1, <1>6, <2>9, <3>3 DEF IsTextFrame
  <2> QED  BY <2>8, <2>9
<1>7. CASE p >= 5
  <2>1. fun3_state = 2 /\ Len(k230_data) = 0 /\ Len(fun3_buffer) = p  BY <1>0, <1>7
  <2>2. IsTextFrame(f, n)  BY <1>7 DEF IsObjectFrame
  <2>3. TextTail(b) \/ TextOverflow(b) \/ TextByte(b)
    BY <2>1 DEF RxCplt, Head1, Head2, Body, Fifth, Skip, i, pack_num
  <2>4. CASE p + 1 = n
    <3>1. b = fun3_tail  BY <2>2, <2>4 DEF IsTextFrame
    <3>2. TextTail(b)  BY <2>3, <3>1 DEF TextOverflow, TextByte
    <3>3. PICK packet : packet = Append(fun3_buffer, b)  OBVIOUS
    <3>4. /\ packet \in Seq(Byte) /\ Len(packet) = p + 1
          /\ \A k \in 1..p : packet[k] = f.bytes[k]
      <4>1. /\ packet \in Seq(Byte) /\ Len(packet) = Len(fun3_buffer) + 1
            /\ \A k \in 1..Len(fun3_buffer) : packet[k] = fun3_buffer[k]
        BY <1>0, <3>3, AppendFacts
      <4> QED  BY <1>0, <2>1, <4>1
    <3>5. packet[1] = pack_head_1 /\ packet[2] = pack_head_2 /\ Len(packet) >= 3  BY <1>1, <1>7, <3>4
    <3>6. PICK text : text = SubSeq(packet, 3, Len(packet) - 1)  OBVIOUS
    <3>7. rx_buffer' = CopyText(text, rx_buffer) /\ current_mode' = 1
      BY <3>2, <3>3, <3>5, <3>6 DEF TextTail, Deliver
    <3>8. /\ text \in Seq(Byte) /\ Len(text) = p - 2
          /\ \A k \in 1..(p - 2) : text[k] = packet[k + 2]
      <4>1. /\ \A k \in 3..p : packet[k] \in Byte
            /\ Len(packet) - 1 = p
        BY <1>7, <3>4
      <4>2. /\ SubSeq(packet, 3, p) \in Seq(Byte)
            /\ Len(SubSeq(packet, 3, p)) = IF 3 <= p THEN p - 3 + 1 ELSE 0
            /\ \A k \in 1..(p - 3 + 1) : SubSeq(packet, 3, p)[k] = packet[3 + k - 1]
        BY <4>1, SubSeqProperties
      <4>3. p - 3 + 1 = p - 2 /\ \A k \in 1..(p - 2) : 3 + k - 1 = k + 2  BY <1>7
      <4> QED  BY <1>7, <3>6, <4>1, <4>2, <4>3
    <3>9. /\ f.text \in Seq(Byte \ {0}) /\ Len(f.text) = p - 2 /\ p - 2 < MAX_BUFFER_SIZE - 1
          /\ \A j \in 1..(p - 2) : f.text[j] = f.bytes[j + 2]
      BY <1>1, <2>2, <2>4 DEF IsTextFrame
    <3>10. \A k \in 1..(p - 2) : f.text[k] # 0 /\ text[k] = f.text[k]
      <4> TAKE k \in 1..(p - 2)
      <4>1. k + 2 \in 1..p  BY <1>7
      <4>2. f.text[k] \in Byte \ {0}  BY <3>9, ElementOfSeq
      <4> QED  BY <3>4, <3>8, <3>9, <4>1, <4>2
    <3>11. \A k \in 1..(p - 2) : rx_buffer'[k - 1] = f.text[k]
      <4> TAKE k \in 1..(p - 2)
      <4>1. k - 1 \in 0..(MAX_BUFFER_SIZE - 1) /\ k - 1 < p - 2 /\ (k - 1) + 1 = k
        BY <1>1, <1>7, <3>9
      <4> QED  BY <3>7, <3>8, <3>10, <4>1 DEF CopyText
    <3>12. rx_buffer'[p - 2] = 0
      <4>1. p - 2 \in 0..(MAX_BUFFER_SIZE - 1) /\ ~ (p - 2 < p - 2)  BY <1>1, <1>7, <3>9
      <4> QED  BY <3>7, <3>8, <4>1 DEF CopyText
    <3>13. ASSUME NEW j \in 0..(p - 2 - 1)  PROVE rx_buffer'[j] # 0
      <4>1. j + 1 \in 1..(p - 2) /\ (j + 1) - 1 = j  BY <1>7
      <4> QED  BY <3>10, <3>11, <4>1
    <3>14. HoldsText(f.text)'
      BY <1>1, <3>9, <3>11, <3>12, <3>13 DEF HoldsText, IsTextEnd
    <3>15. k230_data' = <<>> /\ fun3_state' = 0
      BY <3>1, <3>2 DEF TextTail, Restart, fun3_tail, pack_head_1
    <3>16. Len(k230_data') = 0  BY <3>15
    <3>17. Parsed(f)'  BY <2>2, <3>7, <3>14, <3>15, <3>16 DEF Parsed, IsTextFrame, i
    <3> QED  BY <2>4, <3>17
  <2>5. CASE p + 1 # n
    <3>1. p + 1 \in 6..(n - 1)  BY <1>1, <1>7, <2>5
    <3>2. b # fun3_tail  BY <2>2, <3>1 DEF IsTextFrame
    <3>3. ~ Full  BY <1>1, <2>1, <2>2, <3>1 DEF Full, IsTextFrame, fun3_index
    <3>4. TextByte(b)  BY <2>3, <3>2, <3>3 DEF TextTail, TextOverflow
    <3>5. fun3_buffer' = Append(fun3_buffer, b) /\ UNCHANGED <<k230_data, fun3_state>>
      BY <3>4 DEF TextByte
    <3>6. Reads(f, p + 1)'  BY <1>2, <1>7, <2>1, <3>5 DEF Reads, i, fun3_index, pack_num
    <3> QED  BY <2>5, <3>6
  <2> QED  BY <2>4, <2>5
<1> QED  BY <1>3, <1>4, <1>5, <1>6, <1>7

\* A step that leaves the parser and the line alone.
LEMMA InStepSame ==
    ASSUME InStep,
           UNCHANGED <<k230_data, fun3_state, fun3_buffer, receive_x, receive_flag, rx_buffer, current_mode>>,
           UNCHANGED <<out, frame, losses>>
    PROVE  InStep'
BY DEF InStep, OnLine, Parsed, Reads, HoldsText, IsTextEnd, i, fun3_index

LEMMA ArriveInStep ==
    ASSUME \A t \in Texts : Sendable(t), LinkInv, InStep, Arrive
    PROVE  InStep'
<1>1. /\ RxCplt(Head(out)) /\ out' = Tail(out) /\ out # <<>> /\ UNCHANGED <<frame, losses>>
  BY DEF Arrive
<1> SUFFICES ASSUME losses = 0  PROVE OnLine(frame)'  BY <1>1 DEF InStep
<1>2. PICK f : f = frame  OBVIOUS
<1>3. OnLine(f)  BY <1>1, <1>2 DEF InStep
<1> DEFINE n == Len(f.bytes)
<1>4. f \in Frame /\ out \in Seq(Byte)  BY <1>3 DEF OnLine, LinkInv, LinkTypes
<1>5. Layout(f, n) /\ (IsTextFrame(f, n) \/ IsObjectFrame(f, n))  BY <1>4, FrameLayout
<1>6. /\ Head(out) \in Byte /\ Tail(out) \in Seq(Byte)
      /\ Len(Tail(out)) = Len(out) - 1 /\ \A j \in 1..Len(Tail(out)) : Tail(out)[j] = out[j + 1]
      /\ Head(out) = out[1]
  BY <1>1, <1>4, HeadTailProperties
<1>7. Len(out) \in Nat /\ Len(out) >= 1 /\ n \in Nat /\ Len(out) <= n
  BY <1>1, <1>3, <1>4, <1>5, EmptySeq DEF OnLine, Layout
<1>p. PICK p : p = n - Len(out)  OBVIOUS
<1>b. PICK b : b = Head(out)  OBVIOUS
<1>8. p \in Nat /\ p < n /\ Reads(f, p)  BY <1>1, <1>3, <1>7, <1>p DEF OnLine
<1>9. b \in Byte /\ b = f.bytes[p + 1] /\ RxCplt(b)
  <2>1. out[1] = f.bytes[p + 1]  BY <1>3, <1>7, <1>p DEF OnLine
  <2> QED  BY <1>1, <1>6, <1>b, <2>1
<1>10. ParserInv  BY DEF LinkInv
<1> HIDE DEF n
<1>11. IF p + 1 = n THEN Parsed(f)' ELSE Reads(f, p + 1)'
  BY <1>5, <1>8, <1>9, <1>10, ReadsOn
<1>12. Len(out') = Len(out) - 1 /\ n - Len(out') = p + 1 /\ Len(out') <= n
  BY <1>1, <1>6, <1>7, <1>p
<1>13. ASSUME NEW j \in 1..Len(out')  PROVE out'[j] = f.bytes[n - Len(out') + j]
  <2>1. j + 1 \in 1..Len(out) /\ n - Len(out) + (j + 1) = n - Len(out') + j  BY <1>7, <1>12
  <2>2. out'[j] = out[j + 1]  BY <1>1, <1>6
  <2> QED  BY <1>3, <2>1, <2>2 DEF OnLine, n
<1>14. out' = <<>> <=> p + 1 = n
  <2>1. out' = <<>> <=> Len(out') = 0  BY <1>1, <1>6, EmptySeq
  <2> QED  BY <1>7, <1>8, <1>12, <2>1
<1>15. IF out' = <<>> THEN Parsed(f)' ELSE Reads(f, n - Len(out))'
  BY <1>11, <1>12, <1>14 DEF Reads
<1>16. OnLine(f)'  BY <1>4, <1>12, <1>13, <1>15 DEF OnLine, n
<1> QED  BY <1>1, <1>2, <1>16

LEMMA StartInStep ==
    ASSUME \A t \in Texts : Sendable(t), LinkInv, InStep, NEW f \in Frame, StartFrame(f)
    PROVE  InStep'
<1>1. /\ out = <<>> /\ out' = f.bytes /\ frame' = f
      /\ UNCHANGED <<losses, k230_data, fun3_state, fun3_buffer>>
  BY DEF StartFrame, parserVars
<1> SUFFICES ASSUME losses = 0  PROVE OnLine(f)'  BY <1>1 DEF InStep
<1>2. fun3_state = 0 /\ i = 0  BY <1>1 DEF InStep, OnLine, Parsed
<1>3. fun3_index = 0  BY <1>2 DEF LinkInv, ParserInv, PhasesAgree
<1> DEFINE n == Len(f.bytes)
<1>4. n \in Nat /\ n >= 5 /\ f.bytes \in Seq(Byte)  BY FrameLayout DEF Layout
<1>5. Len(out') = n /\ n - n = 0 /\ out' # <<>> /\ \A j \in 1..n : n - n + j = j
  BY <1>1, <1>4
<1>6. Reads(f, 0)'  BY <1>1, <1>2, <1>3 DEF Reads, i, fun3_index, pack_num
<1> QED  BY <1>1, <1>4, <1>5, <1>6 DEF OnLine

LEMMA NextInStep ==
    ASSUME \A t \in Texts : Sendable(t), LinkInv, InStep, [Next]_vars
    PROVE  InStep'
<1>1. CASE \E f \in Frame : StartFrame(f)  BY <1>1, StartInStep
<1>2. CASE Arrive  BY <1>2, ArriveInStep
<1>3. CASE Lose
  <2>1. losses' = losses + 1 /\ losses \in Nat  BY <1>3, LinkAssumption DEF Lose, LinkInv, LinkTypes
  <2> QED  BY <2>1 DEF InStep
<1>4. CASE Thread
  <2>1. /\ UNCHANGED <<k230_data, fun3_state, fun3_buffer, receive_x, receive_flag, rx_buffer, current_mode>>
        /\ UNCHANGED <<out, frame, losses>>
    BY <1>4 DEF Thread, Open, Poll, Clear, CopyChar, Queue, Speak, parserVars, line, fun2out
  <2> QED  BY <2>1, InStepSame
<1>5. CASE UNCHANGED vars
  <2>1. /\ UNCHANGED <<k230_data, fun3_state, fun3_buffer, receive_x, receive_flag, rx_buffer, current_mode>>
        /\ UNCHANGED <<out, frame, losses>>
    BY <1>5 DEF vars, parserVars, line
  <2> QED  BY <2>1, InStepSame
<1> QED  BY <1>1, <1>2, <1>3, <1>4, <1>5 DEF Next

\* A text that rx_buffer holds is the string that its readers find.
LEMMA HeldText ==
    ASSUME NEW t \in Seq(Byte), HoldsText(t)
    PROVE  CString = t
<1>1. Len(t) \in Nat /\ Len(t) \in 0..(MAX_BUFFER_SIZE - 1)  BY SizeAssumption DEF HoldsText
<1>2. CString = [k \in 1..Len(t) |-> rx_buffer[k - 1]]  BY <1>1, CStringIs DEF HoldsText
<1>3. t = [k \in 1..Len(t) |-> t[k]]  BY SeqDef
<1> QED  BY <1>2, <1>3 DEF HoldsText

\* As long as the line has lost no byte, every frame is parsed when its last
\* byte has come: the callback is idle again, a text is in rx_buffer and an
\* object in receive_x and receive_flag, with current_mode to match.  It is so
\* for every mixture of frames whose texts have the shape the callback accepts.
THEOREM LinkParsesInStep ==
    ASSUME \A t \in Texts : Sendable(t)
    PROVE  Spec => [](losses = 0 => InStepParsed)
<1>1. Init => InStep
  BY EmptySeq DEF Init, ParserInit, InStep, i
<1>2. LinkInv /\ InStep /\ [Next]_vars => InStep'  BY NextInStep
<1>3. LinkInv /\ InStep => (losses = 0 => InStepParsed)
  <2> SUFFICES ASSUME InStep, losses = 0, out = <<>>, frame # None
               PROVE  /\ fun3_state = 0 /\ i = 0
                      /\ CASE frame.kind = "fun3" -> CString = frame.text /\ current_mode = 1
                           [] frame.kind = "fun2" -> <<receive_x, receive_flag>> = frame.text /\ current_mode = 0
    BY DEF InStepParsed
  <2>1. frame \in Frame /\ Parsed(frame)  BY DEF InStep, OnLine
  <2>2. LET n == Len(frame.bytes) IN IsTextFrame(frame, n) \/ IsObjectFrame(frame, n)
    BY <2>1, FrameLayout
  <2>3. CASE frame.kind = "fun3"
    <3>1. frame.text \in Seq(Byte \ {0})  BY <2>2, <2>3 DEF IsTextFrame, IsObjectFrame
    <3>2. frame.text \in Seq(Byte)  BY <3>1, SeqMonotonic
    <3>3. CString = frame.text  BY <2>1, <2>3, <3>2, HeldText DEF Parsed
    <3> QED  BY <2>1, <2>3, <3>3 DEF Parsed
  <2>4. CASE frame.kind = "fun2"  BY <2>1, <2>4 DEF Parsed
  <2>5. frame.kind = "fun3" \/ frame.kind = "fun2"  BY <2>2 DEF IsTextFrame, IsObjectFrame
  <2> QED  BY <2>3, <2>4, <2>5
<1> QED  BY <1>1, <1>2, <1>3, LinkInvariant, PTL DEF Spec
=============================================================================
