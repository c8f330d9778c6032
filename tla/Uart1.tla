------------------------------- MODULE Uart1 -------------------------------
(***************************************************************************)
(* Who writes to USART1.  Three threads of main.c send over it: ai_data    *)
(* announces a recognised object (SYN_FrameInfo, one HAL_UART_Transmit per *)
(* byte), voice sends a call for help (Send_String, one call for the whole *)
(* SMS) and fall does both.  HAL_UART_Transmit polls and refuses with      *)
(* HAL_BUSY while another transmission is in progress; nobody looks at its *)
(* result.  rtconfig.h makes the same USART the console, to which the      *)
(* haptic thread, of the highest priority, prints its measurements without *)
(* asking the HAL.  Bytes that arrive run HAL_UART_RxCpltCallback in       *)
(* interrupt context.                                                      *)
(*                                                                         *)
(* The scheduler runs the ready thread of the highest priority; a thread   *)
(* wakes up at any time and sleeps again when its messages are out.  As    *)
(* the repository stands none of the three gets that far: board.h          *)
(* registers neither uart3 nor uart4, and the fall threshold is out of the *)
(* sensor's range.  Three constants say what of this has been put right.   *)
(***************************************************************************)
EXTENDS Naturals, Sequences, FiniteSets

CONSTANTS
    SynLen,            \* bytes of a SYN6288 frame
    SmsLen,            \* bytes of an SMS command
    USART1_REC_LEN,    \* 200 in the code
    Uart3Found,        \* does rt_device_find("uart3") find a device?
    Uart4Found,        \* does rt_device_find("uart4") find a device?
    FallPossible,      \* can run_fall_detection_algorithm return 1?
    MaxJobs,           \* bound: how often a thread wakes up
    MaxLog             \* bound: bytes the haptic thread prints

ASSUME Uart1Assumption ==
    /\ SynLen \in Nat \ {0} /\ SmsLen \in Nat \ {0} /\ USART1_REC_LEN \in Nat
    /\ Uart3Found \in BOOLEAN /\ Uart4Found \in BOOLEAN /\ FallPossible \in BOOLEAN
    /\ MaxJobs \in Nat /\ MaxLog \in Nat

Threads == {"fall", "voice", "ai"}

\* Smaller is more urgent; the haptic thread has 5.
Prio(t) == CASE t = "fall" -> 6 [] t = "voice" -> 15 [] t = "ai" -> 16

VARIABLES
    gState, Lock,    \* of huart1
    pc,              \* thread -> where in HAL_UART_Transmit it is
    calls,           \* thread -> the calls it still has to make
    no,              \* thread -> bytes of the current call already sent
    jobs,            \* thread -> number of times it woke up
    wire,            \* history: the bytes that left
    outcome,         \* history: thread -> the results of the calls of its job
    armed,           \* is reception armed (RxState BUSY_RX)?
    USART1_RX_STA,   \* bytes received, and the bit that ends reception
    done,            \* that bit, 0x8000
    tim10            \* does the timer run?

tx == <<gState, Lock, pc, calls, no, jobs, wire, outcome>>
rx == <<armed, USART1_RX_STA, done, tim10>>
vars == <<tx, rx>>

\* One call of HAL_UART_Transmit: the bytes first..last of a message.
Call(msg, first, last) == [msg |-> msg, first |-> first, last |-> last]

\* SYN_FrameInfo sends its frame byte by byte.
SynCalls == [k \in 1..SynLen |-> Call("syn", k, k)]

\* Mutant: the SMS is sent byte by byte as well.
SmsCalls_Bytes == [k \in 1..SmsLen |-> Call("sms", k, k)]

\* Send_String sends its string with one call.
SmsCalls == <<Call("sms", 1, SmsLen)>>

\* What a thread sends when it wakes up.
Job(t) ==
    CASE t = "ai"    -> SynCalls
      [] t = "voice" -> SmsCalls
      [] t = "fall"  -> SynCalls \o SmsCalls

Init ==
    /\ gState = "READY" /\ Lock = 0 /\ wire = <<>>
    /\ pc = [t \in Threads |-> "sleep"] /\ calls = [t \in Threads |-> <<>>]
    /\ no = [t \in Threads |-> 0] /\ jobs = [t \in Threads |-> 0]
    /\ outcome = [t \in Threads |-> {}]
    /\ armed = 1 /\ USART1_RX_STA = 0 /\ done = 0 /\ tim10 = 0
-----------------------------------------------------------------------------
\* Mutant: the threads have one priority and share the processor in slices.
Runs_Sliced(t) == pc[t] # "sleep"

\* The scheduler runs t: no thread of higher priority is awake.
Runs(t) == pc[t] # "sleep" /\ \A u \in Threads : pc[u] # "sleep" => Prio(t) <= Prio(u)

\* ai and voice return at once when their device is missing; fall sends only
\* when its algorithm has seen a fall.
GetsToSend(t) ==
    CASE t = "ai" -> Uart4Found [] t = "voice" -> Uart3Found [] t = "fall" -> FallPossible

\* A sleeping thread has something to send; it preempts the ones below it.  (The
\* time between two falls, at least five seconds, is not modelled.)
Wake(t) ==
    /\ GetsToSend(t)
    /\ pc[t] = "sleep" /\ jobs[t] < MaxJobs
    /\ pc' = [pc EXCEPT ![t] = "enter"] /\ calls' = [calls EXCEPT ![t] = Job(t)]
    /\ jobs' = [jobs EXCEPT ![t] = @ + 1] /\ no' = [no EXCEPT ![t] = 0]
    /\ outcome' = [outcome EXCEPT ![t] = {}]
    /\ UNCHANGED <<gState, Lock, wire, rx>>

\* t goes on inside the same call.
Goto(t, label) == pc' = [pc EXCEPT ![t] = label] /\ UNCHANGED outcome

\* HAL_UART_Transmit returns: the next call, or back to sleep.
Return(t, result) ==
    /\ calls' = [calls EXCEPT ![t] = Tail(@)]
    /\ no' = [no EXCEPT ![t] = 0]
    /\ outcome' = [outcome EXCEPT ![t] = @ \union {result}]
    /\ pc' = [pc EXCEPT ![t] = IF Len(calls[t]) = 1 THEN "sleep" ELSE "enter"]

\* Mutant: the call waits for the other transmission to end.
Enter_Waits(t) ==
    /\ Runs(t) /\ pc[t] = "enter"
    /\ gState = "READY" /\ Goto(t, "lock") /\ UNCHANGED <<calls, no>>
    /\ UNCHANGED <<gState, Lock, jobs, wire, rx>>

\* if (huart->gState == HAL_UART_STATE_READY), else HAL_BUSY.
Enter(t) ==
    /\ Runs(t) /\ pc[t] = "enter"
    /\ IF gState = "READY" THEN Goto(t, "lock") /\ UNCHANGED <<calls, no>>
                            ELSE Return(t, "HAL_BUSY")
    /\ UNCHANGED <<gState, Lock, jobs, wire, rx>>

\* Mutant: a refused call leaves through __HAL_UNLOCK as well.
TestLock_Unlocks(t) ==
    /\ Runs(t) /\ pc[t] = "lock"
    /\ IF Lock = 0 THEN Goto(t, "locked") /\ UNCHANGED <<calls, no>> ELSE Return(t, "HAL_BUSY")
    /\ Lock' = 0
    /\ UNCHANGED <<gState, jobs, wire, rx>>

\* __HAL_LOCK: a test, which may end in HAL_BUSY, and then a store.
TestLock(t) ==
    /\ Runs(t) /\ pc[t] = "lock"
    /\ IF Lock = 0 THEN Goto(t, "locked") /\ UNCHANGED <<calls, no>> ELSE Return(t, "HAL_BUSY")
    /\ UNCHANGED <<gState, Lock, jobs, wire, rx>>

SetLock(t) ==
    /\ Runs(t) /\ pc[t] = "locked"
    /\ Lock' = 1 /\ Goto(t, "busy")
    /\ UNCHANGED <<gState, calls, no, jobs, wire, rx>>

SetBusy(t) ==
    /\ Runs(t) /\ pc[t] = "busy"
    /\ gState' = "BUSY_TX" /\ Goto(t, "send")
    /\ UNCHANGED <<Lock, calls, no, jobs, wire, rx>>

\* One pass of the loop: wait for TXE, write DR.
Send(t) ==
    LET c == Head(calls[t]) IN
    /\ Runs(t) /\ pc[t] = "send"
    /\ wire' = Append(wire, [by |-> t, msg |-> c.msg, job |-> jobs[t], k |-> c.first + no[t]])
    /\ IF c.first + no[t] = c.last THEN Goto(t, "sent") /\ UNCHANGED no
                                   ELSE no' = [no EXCEPT ![t] = @ + 1] /\ UNCHANGED <<pc, outcome>>
    /\ UNCHANGED <<gState, Lock, calls, jobs, rx>>

\* Wait for TC, gState = HAL_UART_STATE_READY.
SetReady(t) ==
    /\ Runs(t) /\ pc[t] = "sent"
    /\ gState' = "READY" /\ Goto(t, "unlock")
    /\ UNCHANGED <<Lock, calls, no, jobs, wire, rx>>

\* __HAL_UNLOCK and return HAL_OK.
Unlock(t) ==
    /\ Runs(t) /\ pc[t] = "unlock"
    /\ Lock' = 0 /\ Return(t, "HAL_OK")
    /\ UNCHANGED <<gState, jobs, wire, rx>>
-----------------------------------------------------------------------------
LogBytes == Cardinality({k \in 1..Len(wire) : wire[k].by = "haptic"})

\* The haptic thread wakes up, prints a byte to the console and sleeps: it
\* preempts the others anywhere and writes DR at once.  A byte that HAL_UART_
\* Transmit has written and that has not left DR yet is lost.
Log ==
    /\ LogBytes < MaxLog
    /\ \/ wire' = Append(wire, [by |-> "haptic", msg |-> "log", job |-> 0, k |-> 1])
       \/ /\ wire # <<>> /\ \E t \in Threads : pc[t] \in {"send", "sent"} /\ wire[Len(wire)].by = t
          /\ wire' = [wire EXCEPT ![Len(wire)] = [by |-> "haptic", msg |-> "log", job |-> 0, k |-> 1]]
    /\ UNCHANGED <<gState, Lock, pc, calls, no, jobs, outcome, rx>>

\* Mutant: the byte is stored without a look at the room left.
Store_NoLimit ==
    /\ USART1_RX_STA' = USART1_RX_STA + 1 /\ USART1_RX_STA <= USART1_REC_LEN
    /\ UNCHANGED <<done, tim10>>

\* The USART1 branch of HAL_UART_RxCpltCallback: bytes are stored up to
\* USART1_REC_LEN, the first one starts TIM10 and the others stop it.
Store ==
    IF done = 0
    THEN IF USART1_RX_STA < USART1_REC_LEN
         THEN /\ tim10' = IF USART1_RX_STA = 0 THEN 1 ELSE 0
              /\ USART1_RX_STA' = USART1_RX_STA + 1 /\ UNCHANGED done
         ELSE done' = 1 /\ UNCHANGED <<USART1_RX_STA, tim10>>
    ELSE UNCHANGED <<USART1_RX_STA, done, tim10>>

\* Mutant: a full buffer is not armed again.
RxCplt_NotWhenFull ==
    /\ armed = 1
    /\ Store
    /\ armed' = IF Lock = 0 /\ done = 0 THEN 1 ELSE 0
    /\ UNCHANGED tx

\* A byte arrives.  HAL_UART_Receive_IT at the end of the callback arms the
\* reception again, unless it finds huart1 locked: HAL_BUSY.
RxCplt ==
    /\ armed = 1
    /\ Store
    /\ armed' = IF Lock = 0 THEN 1 ELSE 0
    /\ UNCHANGED tx

HAL_UART_Transmit(t) ==
    Enter(t) \/ TestLock(t) \/ SetLock(t) \/ SetBusy(t) \/ Send(t) \/ SetReady(t) \/ Unlock(t)

Running == \E t \in Threads : HAL_UART_Transmit(t)

Next == Running \/ (\E t \in Threads : Wake(t)) \/ Log \/ RxCplt

\* The thread that the scheduler has chosen goes on.
Spec == Init /\ [][Next]_vars /\ WF_vars(Running)
-----------------------------------------------------------------------------
\* Types of the handle's, the threads' and the receiver's state.
TypeOK ==
    /\ gState \in {"READY", "BUSY_TX"} /\ Lock \in {0, 1} /\ armed \in {0, 1}
    /\ pc \in [Threads -> {"sleep", "enter", "lock", "locked", "busy", "send", "sent", "unlock"}]
    /\ calls \in [Threads -> Seq([msg : {"syn", "sms"}, first : Nat, last : Nat])]
    /\ no \in [Threads -> Nat] /\ jobs \in [Threads -> 0..MaxJobs]
    /\ outcome \in [Threads -> SUBSET {"HAL_OK", "HAL_BUSY"}]
    /\ USART1_RX_STA \in 0..USART1_REC_LEN /\ done \in {0, 1} /\ tim10 \in {0, 1}

\* __HAL_LOCK and gState are tested and set without protection, yet no two
\* threads are ever inside a transmission: the tests suffice because of the
\* priorities, which let a thread that interrupts another finish first.
Exclusive ==
    /\ \A t, u \in Threads :
          pc[t] \in {"send", "sent"} /\ pc[u] \in {"send", "sent"} => t = u
    /\ gState = "BUSY_TX" <=> \E t \in Threads : pc[t] \in {"send", "sent"}

\* Every thread gets rid of its messages, sent or not: nobody waits for a
\* transmission that a thread of lower priority cannot finish.
JobsEnd == \A t \in Threads : pc[t] # "sleep" ~> pc[t] = "sleep"

\* No byte of another thread's message gets into an SMS; only console output
\* does, and it can replace bytes: what is missing at the end of an SMS has been
\* replaced by at least as many console bytes.
SmsNotMixed ==
    \A j \in 1..Len(wire) : \A l \in (j + 1)..Len(wire) :
        LET b == wire[j]
            c == wire[l]
        IN  /\ b.msg = "sms" /\ b.k < SmsLen
            /\ c.by # "haptic" /\ \A m \in (j + 1)..(l - 1) : wire[m].by = "haptic"
            => \/ <<c.by, c.msg, c.job>> = <<b.by, "sms", b.job>> /\ c.k > b.k
               \/ l - j - 1 >= SmsLen - b.k

\* Reception survives a full buffer, received bytes of any number and the
\* console; it can only end because the callback came while a thread had huart1
\* locked, so never before some thread had something to send.
ReceivesUntilFirstSend == armed = 0 => \E t \in Threads : jobs[t] > 0

\* t has interrupted a less urgent thread that has huart1 locked.
Interrupting(t) ==
    \E u \in Threads : Prio(t) < Prio(u) /\ pc[u] \in {"busy", "send", "sent", "unlock"}

\* A thread's messages go out all together or not at all: no fall is announced
\* without its SMS, or the other way round.  They are refused when the thread
\* has interrupted a transmission of a less urgent one, and only then, although
\* every call of its own tests gState and Lock anew.
WholeOrRefused ==
    \A t \in Threads :
        /\ outcome[t] # {"HAL_OK", "HAL_BUSY"}
        /\ pc[t] # "sleep" /\ outcome[t] # {} =>
               ("HAL_BUSY" \in outcome[t] <=> Interrupting(t))
=============================================================================
