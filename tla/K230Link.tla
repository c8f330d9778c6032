------------------------------ MODULE K230Link ------------------------------
(***************************************************************************)
(* From the K230 to the loudspeaker: the K230 sends frames over a UART     *)
(* that may lose bytes, the UART4 callback (K230Parser) parses them in     *)
(* interrupt context, and ai_data_handler_thread_entry (main.c) polls      *)
(* message_received, copies rx_buffer, queues the message in ai_msg_queue  *)
(* and announces it.  The interrupt may come between any two steps of the  *)
(* thread; the thread never masks it.                                      *)
(***************************************************************************)
EXTENDS K230Parser

CONSTANTS
    Texts,              \* texts the K230 may send in a fun3 frame
    Objects,            \* pairs <<x, class id>> it may send in a fun2 frame
    Uart4Found,         \* does rt_device_find("uart4") find a device?  FALSE with
                        \* drivers/board.h as it is
    MsgRoom,            \* room behind the prefix in msg_buffer: 108 of its 128
                        \* bytes in the code
    AI_MSG_QUEUE_SIZE,  \* capacity of ai_msg_queue, 10 in the code
    MaxFrames,          \* bound: frames the K230 sends
    MaxLoss             \* bound: bytes the line loses

ASSUME LinkAssumption ==
    /\ {pack_head_1, pack_head_2, pack_tail, fun3_tail} \subseteq Byte
    /\ Texts \subseteq Seq(Byte \ {0}) /\ Objects \subseteq Byte \X Byte
    /\ Uart4Found \in BOOLEAN /\ MsgRoom \in Nat
    /\ AI_MSG_QUEUE_SIZE \in Nat /\ MaxFrames \in Nat /\ MaxLoss \in Nat

VARIABLES
    pc,             \* where ai_data_handler_thread_entry is
    msg_buffer,     \* the part of rx_buffer it has copied behind the prefix
    ai_msg_queue,   \* number of messages in the queue
    spoken,         \* the text SYN_FrameInfo was last called with
    out,            \* bytes of the current frame still to be sent
    frame,          \* the frame sent last
    frames, losses, \* how many frames were sent and bytes lost
    sync            \* "ok", "lost" after a lost byte, "text" while the first
                    \* fun3 frame after it is on the line

thread == <<pc, msg_buffer, ai_msg_queue, spoken>>
line == <<out, frame, frames, losses, sync>>
vars == <<parserVars, thread, line>>

None == <<>>
Fun3Frame(t) == [kind |-> "fun3", text |-> t, bytes |-> <<pack_head_1, pack_head_2>> \o t \o <<fun3_tail>>]
Fun2Frame(o) == [kind |-> "fun2", text |-> o, bytes |-> <<pack_head_1, pack_head_2>> \o o \o <<pack_tail>>]
Frame == {Fun3Frame(t) : t \in Texts} \union {Fun2Frame(o) : o \in Objects}

Init ==
    /\ ParserInit
    /\ pc = "start" /\ msg_buffer = <<>> /\ ai_msg_queue = 0 /\ spoken = None
    /\ out = <<>> /\ frame = None /\ frames = 0 /\ losses = 0 /\ sync = "ok"
-----------------------------------------------------------------------------
(***************************************************************************)
(* The K230 and the line.                                                  *)
(***************************************************************************)

\* The K230 starts a frame once the last one is out.
StartFrame(f) ==
    /\ out = <<>> /\ frames < MaxFrames
    /\ out' = f.bytes /\ frame' = f /\ frames' = frames + 1
    /\ sync' = IF sync = "lost" /\ f.kind = "fun3" THEN "text" ELSE sync
    /\ UNCHANGED <<losses, parserVars, thread>>

\* The next byte arrives and the receive interrupt runs.
Arrive ==
    /\ out # <<>>
    /\ RxCplt(Head(out))
    /\ out' = Tail(out)
    /\ sync' = IF Len(out) = 1 /\ sync = "text" THEN "ok" ELSE sync
    /\ UNCHANGED <<frame, frames, losses, thread>>

\* The next byte is lost (noise, or an overrun of the receiver).
Lose ==
    /\ out # <<>> /\ losses < MaxLoss
    /\ out' = Tail(out) /\ losses' = losses + 1 /\ sync' = "lost"
    /\ UNCHANGED <<frame, frames, parserVars, thread>>
-----------------------------------------------------------------------------
(***************************************************************************)
(* ai_data_handler_thread_entry.                                           *)
(***************************************************************************)

\* The thread looks for its device and returns if there is none.
Open ==
    /\ pc = "start"
    /\ pc' = IF Uart4Found THEN "poll" ELSE "returned"
    /\ UNCHANGED <<msg_buffer, ai_msg_queue, spoken, parserVars, line>>

\* if (message_received)
Poll ==
    /\ pc = "poll" /\ message_received = 1
    /\ pc' = "clear"
    /\ UNCHANGED <<msg_buffer, ai_msg_queue, spoken, parserVars, line>>

\* The flag is cleared before the buffer is read.
Clear ==
    /\ pc = "clear"
    /\ message_received' = 0
    /\ pc' = "copy" /\ msg_buffer' = <<>>
    /\ UNCHANGED <<k230_data, fun3_state, fun3_buffer, fun2out, rx_buffer,
                   current_mode, ai_msg_queue, spoken, line>>

\* rt_snprintf copies rx_buffer one character at a time, up to its NUL or to
\* the end of msg_buffer.
CopyChar ==
    /\ pc = "copy"
    /\ IF rx_buffer[Len(msg_buffer)] = 0 \/ Len(msg_buffer) = MsgRoom
       THEN /\ pc' = "queue"
            /\ UNCHANGED msg_buffer
       ELSE /\ msg_buffer' = Append(msg_buffer, rx_buffer[Len(msg_buffer)])
            /\ UNCHANGED pc
    /\ UNCHANGED <<ai_msg_queue, spoken, parserVars, line>>

\* Mutant: the thread waits for room in the queue.
Queue_Waits ==
    /\ pc = "queue" /\ ai_msg_queue < AI_MSG_QUEUE_SIZE
    /\ ai_msg_queue' = ai_msg_queue + 1
    /\ pc' = "speak"
    /\ UNCHANGED <<msg_buffer, spoken, parserVars, line>>

\* rt_mq_send does not wait: on a full queue it fails, which the thread
\* ignores.  No thread ever receives from ai_msg_queue.
Queue ==
    /\ pc = "queue"
    /\ ai_msg_queue' = IF ai_msg_queue < AI_MSG_QUEUE_SIZE THEN ai_msg_queue + 1
                                                           ELSE ai_msg_queue
    /\ pc' = "speak"
    /\ UNCHANGED <<msg_buffer, spoken, parserVars, line>>

\* Mutant: the flag is cleared after the announcement, as k230_run does.
Speak_Clears ==
    /\ pc = "speak"
    /\ spoken' = msg_buffer
    /\ message_received' = 0
    /\ pc' = "poll"
    /\ UNCHANGED <<k230_data, fun3_state, fun3_buffer, fun2out, rx_buffer,
                   current_mode, msg_buffer, ai_msg_queue, line>>

\* SYN_FrameInfo announces the message; the thread sleeps and polls again.
Speak ==
    /\ pc = "speak"
    /\ spoken' = msg_buffer
    /\ pc' = "poll"
    /\ UNCHANGED <<msg_buffer, ai_msg_queue, parserVars, line>>

Thread == Open \/ Poll \/ Clear \/ CopyChar \/ Queue \/ Speak

Next == (\E f \in Frame : StartFrame(f)) \/ Arrive \/ Lose \/ Thread

\* The interrupt is always served; the thread is ready again after its delay
\* and no thread above it runs for ever.
Spec == Init /\ [][Next]_vars /\ WF_vars(Thread) /\ WF_vars(Arrive)
-----------------------------------------------------------------------------
\* As much of a text as rt_snprintf leaves of it.
Truncated(t) == SubSeq(t, 1, IF Len(t) < MsgRoom THEN Len(t) ELSE MsgRoom)

\* Types of the thread's and the line's state.
TypeOK ==
    /\ ParserTypeOK
    /\ pc \in {"start", "returned", "poll", "clear", "copy", "queue", "speak"}
    /\ msg_buffer \in Seq(Byte) /\ spoken \in Seq(Byte)
    /\ ai_msg_queue \in 0..AI_MSG_QUEUE_SIZE
    /\ frames \in 0..MaxFrames /\ losses \in 0..MaxLoss
    /\ sync \in {"ok", "lost", "text"}

\* On a line that is in step, a frame is parsed when its last byte has come:
\* the parser is idle again and the packet's contents are where its readers
\* look for them.
InStepParsed ==
    (out = <<>> /\ frame # None /\ sync = "ok") =>
        /\ fun3_state = 0 /\ i = 0
        /\ losses = 0 =>
            CASE frame.kind = "fun3" -> CString = frame.text /\ current_mode = 1
              [] frame.kind = "fun2" -> <<receive_x, receive_flag>> = frame.text
                                        /\ current_mode = 0

\* The flag protocol loses no update: while the thread is idle and the flag is
\* down, what was announced last is what rx_buffer holds.
NoTextForgotten ==
    (pc = "poll" /\ message_received = 0) => spoken = Truncated(CString)

\* Every text that arrives is announced or overwritten by one that is.  This is
\* what the thread is there for, and as committed (no uart4) it does not do it.
RecognitionAnnounced ==
    message_received = 1 ~> (message_received = 0 /\ pc = "poll" /\ spoken = Truncated(CString))

\* So it is if the thread finds its device, also when the message queue has been
\* full for long.
TextAnnounced == Uart4Found => RecognitionAnnounced
=============================================================================
