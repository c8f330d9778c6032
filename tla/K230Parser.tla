----------------------------- MODULE K230Parser -----------------------------
(***************************************************************************)
(* The UART4 branch of HAL_UART_RxCpltCallback (hardware/processing.c):    *)
(* one call per byte that the K230 vision module sends.  Two packet        *)
(* formats share the header 0xa3 0xb3: "fun2", five bytes with tail 0x5a   *)
(* (x coordinate and class id of an object), and "fun3", a text of any     *)
(* length with tail 0xc3.  The callback parses both at the same time.      *)
(*                                                                         *)
(* The live prefix of each static buffer is kept as a sequence, so the     *)
(* static counters are the lengths: i = Len(k230_data) and                 *)
(* fun3_index = Len(fun3_buffer).  The code never reads past them.         *)
(***************************************************************************)
EXTENDS Naturals, Sequences

CONSTANTS
    Byte,             \* the bytes that can arrive on UART4
    MAX_BUFFER_SIZE   \* size of fun3_buffer and of rx_buffer, 200 in the code

ASSUME ByteAssumption == Byte \subseteq 0..255

pack_head_1 == 163    \* 0xa3
pack_head_2 == 179    \* 0xb3
pack_tail   == 90     \* 0x5a, tail of a fun2 packet
fun3_tail   == 195    \* 0xc3, tail of a fun3 packet
pack_num    == 5      \* useful_bites + 3, length of a fun2 packet

\* The code's 200 leaves room for a whole fun2 packet in fun3_buffer.
ASSUME SizeAssumption == MAX_BUFFER_SIZE \in Nat /\ MAX_BUFFER_SIZE > pack_num

VARIABLES
    k230_data,          \* bytes of the packet read as fun2
    fun3_state,         \* 0 idle, 1 waits for header 2, 2 receives
    fun3_buffer,        \* bytes of the packet read as fun3
    receive_x, receive_flag,        \* contents of the last fun2 packet
    rx_buffer, message_received,    \* text of the last fun3 packet, and its flag
    current_mode                    \* which of the two formats came last

parser  == <<k230_data, fun3_state, fun3_buffer>>
fun2out == <<receive_x, receive_flag>>
fun3out == <<rx_buffer, message_received>>
parserVars == <<k230_data, fun3_state, fun3_buffer, receive_x, receive_flag,
                rx_buffer, message_received, current_mode>>

i == Len(k230_data)
fun3_index == Len(fun3_buffer)

ParserInit ==
    /\ k230_data = <<>> /\ fun3_state = 0 /\ fun3_buffer = <<>>
    /\ receive_x = 0 /\ receive_flag = 0 /\ current_mode = 0
    /\ rx_buffer = [k \in 0..(MAX_BUFFER_SIZE - 1) |-> 0] /\ message_received = 0
-----------------------------------------------------------------------------
(***************************************************************************)
(* The five branches of the callback, in the order the code tries them.    *)
(***************************************************************************)

\* First header byte, of either format.
Head1(b) ==
    /\ fun3_state = 0 /\ i = 0 /\ b = pack_head_1
    /\ k230_data' = Append(k230_data, b)
    /\ fun3_buffer' = <<b>>
    /\ fun3_state' = 1
    /\ UNCHANGED <<fun2out, fun3out, current_mode>>

\* Second header byte.
Head2(b) ==
    /\ fun3_state = 1 /\ i = 1 /\ b = pack_head_2
    /\ k230_data' = Append(k230_data, b)
    /\ fun3_buffer' = Append(fun3_buffer, b)
    /\ fun3_state' = 2
    /\ UNCHANGED <<fun2out, fun3out, current_mode>>

\* Mutant: the bound test is off by one.
Full_OffByOne == fun3_index + 1 > MAX_BUFFER_SIZE

\* After the store of one more byte fun3_buffer is full.
Full == fun3_index + 1 >= MAX_BUFFER_SIZE

\* The two bytes that are payload in both formats.
Body(b) ==
    /\ i >= 2 /\ i < pack_num - 1
    /\ k230_data' = Append(k230_data, b)
    /\ IF fun3_state = 2
       THEN /\ fun3_buffer' = IF Full THEN <<>> ELSE Append(fun3_buffer, b)
            /\ fun3_state'  = IF Full THEN 0 ELSE 2
       ELSE UNCHANGED <<fun3_buffer, fun3_state>>
    /\ UNCHANGED <<fun2out, fun3out, current_mode>>

\* data_test: both headers and the tail are in place.
data_test(data) ==
    data[1] = pack_head_1 /\ data[2] = pack_head_2 /\ data[pack_num] = pack_tail

\* Mutant: the fifth byte is compared with the tail of fun3.
IsFun2_WrongTail(data) == data[pack_num] = fun3_tail /\ data_test(data)

\* Five bytes that make a fun2 packet.
IsFun2(data) == data[pack_num] = pack_tail /\ data_test(data)

\* The fifth byte decides whether the packet was fun2.
Fifth(b) ==
    LET data == Append(k230_data, b)
    IN  /\ i = pack_num - 1
        /\ k230_data' = <<>>
        /\ IF IsFun2(data)
           THEN /\ receive_x' = data[3] /\ receive_flag' = data[4]
                /\ current_mode' = 0
                /\ fun3_state' = 0 /\ fun3_buffer' = <<>>
           ELSE /\ fun3_buffer' = IF fun3_state = 2 THEN Append(fun3_buffer, b)
                                                    ELSE fun3_buffer
                /\ UNCHANGED <<fun2out, current_mode, fun3_state>>
        /\ UNCHANGED fun3out

\* The guard of the last else branch.
Otherwise(b) ==
    /\ ~ (fun3_state = 0 /\ i = 0 /\ b = pack_head_1)
    /\ ~ (fun3_state = 1 /\ i = 1 /\ b = pack_head_2)
    /\ ~ (i >= 2 /\ i < pack_num)

\* Mutant: the text is not terminated.
CopyText_NoNul(text, buf) ==
    [k \in 0..(MAX_BUFFER_SIZE - 1) |-> IF k < Len(text) THEN text[k + 1] ELSE buf[k]]

\* memcpy of a text into rx_buffer and its terminating NUL: what lies behind
\* it in the buffer is left over from earlier texts.
CopyText(text, buf) ==
    [k \in 0..(MAX_BUFFER_SIZE - 1) |->
        IF k < Len(text) THEN text[k + 1] ELSE IF k = Len(text) THEN 0 ELSE buf[k]]

\* A complete fun3 packet: its text goes to rx_buffer.
Deliver(packet) ==
    IF Len(packet) >= 3 /\ packet[1] = pack_head_1 /\ packet[2] = pack_head_2
    THEN /\ rx_buffer' = CopyText(SubSeq(packet, 3, Len(packet) - 1), rx_buffer)
         /\ message_received' = 1
         /\ current_mode' = 1
    ELSE UNCHANGED <<fun3out, current_mode>>

\* What follows in the same call when fun3_state is 0 after the fun3 part:
\* the fun2 index is reset and a first header byte starts a fun3 packet.
Restart(b, buf) ==
    /\ k230_data' = <<>>
    /\ fun3_state' = IF b = pack_head_1 THEN 1 ELSE 0
    /\ fun3_buffer' = IF b = pack_head_1 THEN <<b>> ELSE buf

\* A byte of a fun3 packet beyond the fifth: its tail ...
TextTail(b) ==
    /\ Otherwise(b) /\ fun3_state = 2 /\ b = fun3_tail
    /\ Deliver(Append(fun3_buffer, b))
    /\ Restart(b, <<>>)
    /\ UNCHANGED fun2out

\* ... the byte that fills the buffer, so that the packet is given up ...
TextOverflow(b) ==
    /\ Otherwise(b) /\ fun3_state = 2 /\ b # fun3_tail
    /\ Full
    /\ Restart(b, <<>>)
    /\ UNCHANGED <<fun2out, fun3out, current_mode>>

\* ... or one more byte of text.
TextByte(b) ==
    /\ Otherwise(b) /\ fun3_state = 2 /\ b # fun3_tail
    /\ ~ Full
    /\ fun3_buffer' = Append(fun3_buffer, b)
    /\ UNCHANGED <<k230_data, fun3_state, fun2out, fun3out, current_mode>>

\* Mutant: a byte that is not header 2 drops the fun2 index only.
Skip_DropsIndex(b) ==
    /\ Otherwise(b) /\ fun3_state # 2
    /\ IF fun3_state = 0 THEN Restart(b, fun3_buffer)
       ELSE k230_data' = <<>> /\ UNCHANGED <<fun3_state, fun3_buffer>>
    /\ UNCHANGED <<fun2out, fun3out, current_mode>>

\* A byte outside a packet, or one that is not header 2 while header 2 is due.
Skip(b) ==
    /\ Otherwise(b) /\ fun3_state # 2
    /\ IF fun3_state = 0 THEN Restart(b, fun3_buffer) ELSE UNCHANGED parser
    /\ UNCHANGED <<fun2out, fun3out, current_mode>>

\* HAL_UART_RxCpltCallback for UART4.
RxCplt(b) ==
    \/ Head1(b) \/ Head2(b) \/ Body(b) \/ Fifth(b)
    \/ TextTail(b) \/ TextOverflow(b) \/ TextByte(b) \/ Skip(b)

\* The parser on an arbitrary stream of bytes.
ParserNext == \E b \in Byte : RxCplt(b)
ParserSpec == ParserInit /\ [][ParserNext]_parserVars
-----------------------------------------------------------------------------
\* Types of the callback's static variables and of its results.
ParserTypeOK ==
    /\ k230_data \in Seq(Byte) /\ fun3_buffer \in Seq(Byte)
    /\ fun3_state \in {0, 1, 2}
    /\ receive_x \in Byte \union {0} /\ receive_flag \in Byte \union {0}
    /\ rx_buffer \in [0..(MAX_BUFFER_SIZE - 1) -> Byte \union {0}]
    /\ message_received \in {0, 1} /\ current_mode \in {0, 1}

\* No store of the callback leaves its array: the next byte always fits in
\* fun3_buffer (only two of its four stores are followed by a bound test) and
\* in k230_data; a text and its NUL, one byte shorter, then fit in rx_buffer.
StoresInBounds ==
    /\ i < pack_num
    /\ fun3_index < MAX_BUFFER_SIZE

\* The two parses that run side by side hold the same bytes until the fifth
\* byte decides between them, and the three state variables move in step: a
\* text is being received with i reset only when five or more bytes are held.
PhasesAgree ==
    /\ i > 0 => fun3_buffer = k230_data
    /\ fun3_state = 0 => i = 0 /\ fun3_index = 0
    /\ fun3_state = 1 => i \in {0, 1} /\ fun3_index = 1
    /\ fun3_state = 2 => IF i = 0 THEN fun3_index >= pack_num ELSE i >= 2
    /\ fun3_index >= 1 => fun3_buffer[1] = pack_head_1
    /\ fun3_state = 2 => fun3_buffer[2] = pack_head_2

\* The C string in rx_buffer ends at its first NUL.
IsTextEnd(k) == rx_buffer[k] = 0 /\ \A j \in 0..(k - 1) : rx_buffer[j] # 0

CString ==
    LET end == CHOOSE k \in 0..(MAX_BUFFER_SIZE - 1) : IsTextEnd(k)
    IN  [k \in 1..end |-> rx_buffer[k - 1]]

\* A delivery replaces the text whole: the string in rx_buffer is then what the
\* packet had between its headers and its tail, with nothing of an earlier,
\* longer text behind it.  rx_buffer is never cleared, and it is written at no
\* other time.
TextReplaced ==
    [][(0 \notin Byte /\ (rx_buffer' # rx_buffer \/ message_received' > message_received))
         => CString' = SubSeq(fun3_buffer, 3, fun3_index)]_parserVars

\* Every text that is delivered has at least three bytes, its third byte is not
\* the tail of fun2 and no tail of fun3 follows its third byte: everything else
\* that the K230 sends as text is taken for something else.
DeliveredTextShape ==
    (message_received = 1 /\ 0 \notin Byte) =>
        \E k \in 3..(MAX_BUFFER_SIZE - 1) :
            /\ IsTextEnd(k)
            /\ rx_buffer[2] # pack_tail
            /\ \A j \in 3..(k - 1) : rx_buffer[j] # fun3_tail

\* While the callback waits for header 2 (fun3_state 1), header 2 is accepted.
HeaderTwoAccepted == fun3_state = 1 => ENABLED Head2(pack_head_2)

\* fun3_state 1 with i = 0 is left by no byte.
Wedged == fun3_state = 1 /\ i = 0

\* Only one thing leads there: a text that has filled the whole of fun3_buffer.
\* No packet that fits does, whatever of it is lost, garbled or repeated.
OnlyOverflowWedges ==
    [][(~ Wedged /\ Wedged') => (fun3_state = 2 /\ i = 0 /\ Full)]_parserVars
=============================================================================
