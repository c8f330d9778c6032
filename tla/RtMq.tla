-------------------------------- MODULE RtMq --------------------------------
(***************************************************************************)
(* The message queue of RT-Thread (ipc.c): rt_mq_send_wait, rt_mq_send,    *)
(* rt_mq_urgent and rt_mq_recv.  The messages stand in the slots of a      *)
(* pool, which are chained into the queue and into a list of free slots.   *)
(* A call takes a slot with interrupts masked, copies the message with     *)
(* interrupts enabled, and masks them again to give the slot back, so that *)
(* other threads and interrupts use the queue in between.  A thread that   *)
(* is woken up has no claim on the slot or message it was woken for: it    *)
(* looks again, and waits for what is left of its timeout.                 *)
(*                                                                         *)
(* The application creates its queue of recognition results with           *)
(* RT_IPC_FLAG_FIFO.                                                       *)
(***************************************************************************)
EXTENDS RtThread

CONSTANTS
    Node,        \* the slots of the pool
    Calls,       \* thread -> those of send, urgent and recv that its code calls
    Isr,         \* an interrupt that sends
    Nil          \* RT_NULL, no message, no slot

\* A message is told by who has sent it and how.
Msg == (Thread \union {Isr}) \X {"send", "urgent"}
Urgent == {m \in Msg : m[2] = "urgent"}

Receivers == "suspend_thread"
Senders == "suspend_sender_thread"

ASSUME MqAssumption ==
    /\ Object = {Receivers, Senders}
    /\ IsFiniteSet(Node) /\ Node # {} /\ Nil \notin Node \union Msg /\ Isr \notin Thread
    /\ Calls \in [Thread -> SUBSET {"send", "urgent", "recv"}]

VARIABLES
    msg_queue_head, msg_queue_tail, msg_queue_free, entry,   \* the fields of the queue
    next, pool,      \* slot -> the slot behind it, and its content
    pc,              \* thread -> where it is
    node,            \* thread -> the slot it is copying to or from
    buffer,          \* thread -> the message it has received
    timeout,         \* thread -> what is left of the timeout of its call
    tick_delta,      \* thread -> the tick when it began to wait
    asked, waited    \* history: thread -> the timeout of its call, and the ticks
                     \* since its call, at most Half

queueVars == <<msg_queue_head, msg_queue_tail, msg_queue_free, entry, next, pool>>
callVars == <<pc, node, buffer, timeout, tick_delta, asked, waited>>
vars == <<kernelVars, queueVars, callVars>>

\* rt_mq_init chains the slots in the order of their addresses, the last one
\* first.
Slots == SetToSeq(Node)

Init ==
    /\ KernelInit
    /\ msg_queue_head = Nil /\ msg_queue_tail = Nil /\ entry = 0
    /\ msg_queue_free = Last(Slots)
    /\ next = [n \in Node |-> IF n = Head(Slots) THEN Nil
                              ELSE Slots[CHOOSE k \in 1..(Len(Slots) - 1) : Slots[k + 1] = n]]
    /\ pool = [n \in Node |-> Nil]
    /\ pc = [t \in Thread |-> "run"]
    /\ node = [t \in Thread |-> Nil] /\ buffer = [t \in Thread |-> Nil]
    /\ timeout = [t \in Thread |-> 0] /\ tick_delta = [t \in Thread |-> 0]
    /\ asked = [t \in Thread |-> 0] /\ waited = [t \in Thread |-> 0]
-----------------------------------------------------------------------------
\* A thread is between two calls of the kernel.
Free(t) == Executes(t) /\ pc[t] = "run" /\ t # Idle

Goto(t, place) == pc' = [pc EXCEPT ![t] = place]

\* What a call needs to wait is not used any more.
WaitOver(t) ==
    /\ timeout' = [timeout EXCEPT ![t] = 0] /\ tick_delta' = [tick_delta EXCEPT ![t] = 0]
    /\ asked' = [asked EXCEPT ![t] = 0] /\ waited' = [waited EXCEPT ![t] = 0]

\* The call ends.
Ended(t) ==
    /\ Goto(t, "run") /\ WaitOver(t)
    /\ buffer' = [buffer EXCEPT ![t] = Nil] /\ UNCHANGED node

\* The thread waits in a list for limit ticks, up to its call of rt_schedule.
WaitIn(t, list, limit, place) ==
    /\ SuspendSelf(t, limit)
    /\ suspend_thread' = [suspend_thread EXCEPT ![list] = Append(@, t)]
    /\ timeout' = [timeout EXCEPT ![t] = limit]
    /\ tick_delta' = [tick_delta EXCEPT ![t] = IF limit > 0 THEN rt_tick ELSE @]
    /\ Goto(t, place)
    /\ UNCHANGED <<rt_tick, rt_current_thread, yield, ready, lowered, remaining_tick,
                   current_priority, isr, queueVars, node, buffer, waited>>

\* The sender has a slot: it leaves the free list.
TakeSlot(t) ==
    /\ msg_queue_free' = next[msg_queue_free]
    /\ node' = [node EXCEPT ![t] = msg_queue_free]
    /\ WaitOver(t)
    /\ UNCHANGED <<kernelVars, msg_queue_head, msg_queue_tail, entry, next, pool, buffer>>

\* Mutant: the end of the queue is not reset when the last message is taken.
TakeMessage_KeepsTail(t) ==
    /\ node' = [node EXCEPT ![t] = msg_queue_head]
    /\ msg_queue_head' = next[msg_queue_head]
    /\ entry' = entry - 1
    /\ WaitOver(t) /\ Goto(t, "copy_out")
    /\ UNCHANGED <<kernelVars, msg_queue_tail, msg_queue_free, next, pool, buffer>>

\* The receiver takes the first message out of the queue.
TakeMessage(t) ==
    /\ node' = [node EXCEPT ![t] = msg_queue_head]
    /\ msg_queue_head' = next[msg_queue_head]
    /\ msg_queue_tail' = IF msg_queue_tail = msg_queue_head THEN Nil ELSE msg_queue_tail
    /\ entry' = entry - 1
    /\ WaitOver(t) /\ Goto(t, "copy_out")
    /\ UNCHANGED <<kernelVars, msg_queue_free, next, pool, buffer>>

\* rt_mq_send_wait, first section: a slot, or wait for one; without a slot and
\* without a timeout the call returns -RT_EFULL at once and changes nothing.
SendBegins(t, limit) ==
    /\ Free(t) /\ "send" \in Calls[t]
    /\ \/ /\ msg_queue_free # Nil
          /\ TakeSlot(t) /\ Goto(t, "copy_in")
       \/ /\ msg_queue_free = Nil /\ limit # RT_WAITING_NO
          /\ WaitIn(t, Senders, limit, "send_sched")
          /\ asked' = [asked EXCEPT ![t] = limit]

\* rt_mq_urgent never waits.
UrgentBegins(t) ==
    /\ Free(t) /\ "urgent" \in Calls[t] /\ msg_queue_free # Nil
    /\ TakeSlot(t) /\ Goto(t, "copy_in_urgent")

\* rt_mq_recv, first section.
RecvBegins(t, limit) ==
    /\ Free(t) /\ "recv" \in Calls[t]
    /\ \/ entry > 0 /\ TakeMessage(t)
       \/ /\ entry = 0 /\ limit # RT_WAITING_NO
          /\ WaitIn(t, Receivers, limit, "recv_sched")
          /\ asked' = [asked EXCEPT ![t] = limit]

\* The waiting thread calls rt_schedule.
Reschedule(t) ==
    /\ pc[t] \in {"send_sched", "recv_sched", "sched"}
    /\ CallSchedule(t)
    /\ Goto(t, CASE pc[t] = "send_sched" -> "send_back" [] pc[t] = "recv_sched" -> "recv_back"
                 [] OTHER -> "back")
    /\ UNCHANGED <<queueVars, node, buffer, timeout, tick_delta, asked, waited>>

\* Mutant: the timeout starts anew.
Remaining_Restarts(t) == timeout[t]

\* The timeout less the time waited, as a signed number of the width of a tick.
Remaining(t) ==
    LET d == Diff(timeout[t], Diff(rt_tick, tick_delta[t]))
        signed == IF d > Half THEN d - TickMod ELSE d
    IN  IF timeout[t] > 0 THEN (IF signed < 0 THEN 0 ELSE signed) ELSE timeout[t]

\* rt_mq_send_wait has been woken up: a slot, another wait, or -RT_EFULL.
SendRetries(t) ==
    /\ Executes(t) /\ pc[t] = "send_back" /\ error[t] = "RT_EOK"
    /\ \/ msg_queue_free # Nil /\ TakeSlot(t) /\ Goto(t, "copy_in")
       \/ /\ msg_queue_free = Nil /\ Remaining(t) # 0
          /\ WaitIn(t, Senders, Remaining(t), "send_sched") /\ UNCHANGED asked
       \/ /\ msg_queue_free = Nil /\ Remaining(t) = 0
          /\ Ended(t) /\ UNCHANGED <<kernelVars, queueVars>>

\* rt_mq_recv has been woken up: a message, another wait, or -RT_ETIMEOUT.
RecvRetries(t) ==
    /\ Executes(t) /\ pc[t] = "recv_back" /\ error[t] = "RT_EOK"
    /\ \/ entry > 0 /\ TakeMessage(t)
       \/ /\ entry = 0 /\ Remaining(t) # 0
          /\ WaitIn(t, Receivers, Remaining(t), "recv_sched") /\ UNCHANGED asked
       \/ /\ entry = 0 /\ Remaining(t) = 0
          /\ Ended(t) /\ UNCHANGED <<kernelVars, queueVars>>

\* rt_memcpy into the slot, with interrupts enabled.  rt_mq_send_wait also makes
\* it the last of its chain.
CopyIn(t) ==
    /\ Executes(t) /\ pc[t] \in {"copy_in", "copy_in_urgent"}
    /\ pool' = [pool EXCEPT ![node[t]] = <<t, IF pc[t] = "copy_in" THEN "send" ELSE "urgent">>]
    /\ next' = IF pc[t] = "copy_in" THEN [next EXCEPT ![node[t]] = Nil] ELSE next
    /\ Goto(t, IF pc[t] = "copy_in" THEN "link" ELSE "link_urgent")
    /\ UNCHANGED <<kernelVars, msg_queue_head, msg_queue_tail, msg_queue_free, entry,
                   node, buffer, timeout, tick_delta, asked, waited>>

\* Mutant: the message goes in at the front.
LinkLast_First(n, nxt) ==
    /\ next' = [nxt EXCEPT ![n] = msg_queue_head]
    /\ msg_queue_head' = n
    /\ msg_queue_tail' = IF msg_queue_tail = Nil THEN n ELSE msg_queue_tail
    /\ entry' = entry + 1

\* The slot n becomes the last of the queue; nxt is the chain it finds.
LinkLast(n, nxt) ==
    /\ next' = IF msg_queue_tail # Nil THEN [nxt EXCEPT ![msg_queue_tail] = n] ELSE nxt
    /\ msg_queue_tail' = n
    /\ msg_queue_head' = IF msg_queue_head = Nil THEN n ELSE msg_queue_head
    /\ entry' = entry + 1

\* The slot n becomes the first of the queue.
LinkFirst(n) ==
    /\ next' = [next EXCEPT ![n] = msg_queue_head]
    /\ msg_queue_head' = n
    /\ msg_queue_tail' = IF msg_queue_tail = Nil THEN n ELSE msg_queue_tail
    /\ entry' = entry + 1

\* Mutant: only receivers are woken up.
Wake_ReceiversOnly(t, list) ==
    \/ /\ suspend_thread[list] # <<>> /\ list = Receivers
       /\ rt_thread_resume(Head(suspend_thread[list]))
       /\ Goto(t, "sched")
       /\ UNCHANGED <<rt_tick, rt_current_thread, yield, lowered, remaining_tick,
                      current_priority, error, isr>>
    \/ /\ suspend_thread[list] = <<>> \/ list = Senders
       /\ Goto(t, "back")
       /\ UNCHANGED kernelVars

\* The first thread of a list is woken up, and rt_schedule is called next.
Wake(t, list) ==
    \/ /\ suspend_thread[list] # <<>>
       /\ rt_thread_resume(Head(suspend_thread[list]))
       /\ Goto(t, "sched")
       /\ UNCHANGED <<rt_tick, rt_current_thread, yield, lowered, remaining_tick,
                      current_priority, error, isr>>
    \/ /\ suspend_thread[list] = <<>>
       /\ Goto(t, "back")
       /\ UNCHANGED kernelVars

\* The message goes into the queue and a receiver is woken up.
Link(t) ==
    /\ Executes(t)
    /\ \/ pc[t] = "link" /\ LinkLast(node[t], next)
       \/ pc[t] = "link_urgent" /\ LinkFirst(node[t])
    /\ Wake(t, Receivers)
    /\ node' = [node EXCEPT ![t] = Nil]
    /\ UNCHANGED <<msg_queue_free, pool, buffer, timeout, tick_delta, asked, waited>>

\* rt_memcpy out of the slot, with interrupts enabled.
CopyOut(t) ==
    /\ Executes(t) /\ pc[t] = "copy_out"
    /\ buffer' = [buffer EXCEPT ![t] = pool[node[t]]]
    /\ Goto(t, "free")
    /\ UNCHANGED <<kernelVars, queueVars, node, timeout, tick_delta, asked, waited>>

\* The slot goes back to the free list and a sender is woken up.
FreeSlot(t) ==
    /\ Executes(t) /\ pc[t] = "free"
    /\ next' = [next EXCEPT ![node[t]] = msg_queue_free]
    /\ msg_queue_free' = node[t]
    /\ Wake(t, Senders)
    /\ node' = [node EXCEPT ![t] = Nil]
    /\ UNCHANGED <<msg_queue_head, msg_queue_tail, entry, pool, buffer, timeout, tick_delta,
                   asked, waited>>

\* The call returns, with a timeout if its wait has failed; thread->error is not
\* read any more.
Return(t) ==
    /\ Executes(t)
    /\ \/ pc[t] = "back"
       \/ pc[t] \in {"send_back", "recv_back"} /\ error[t] # "RT_EOK"
    /\ Ended(t)
    /\ error' = [error EXCEPT ![t] = "RT_EOK"]
    /\ UNCHANGED <<rt_tick, schedVars, remaining_tick, current_priority, timer_list,
                   suspend_thread, isr, queueVars>>

\* rt_mq_send in an interrupt: no thread runs until it is through, and the
\* rt_schedule at its end takes effect when the interrupt returns.
SendFromInterrupt ==
    LET n == msg_queue_free
        r == Head(suspend_thread[Receivers])
    IN  /\ ~ isr /\ n # Nil
        /\ msg_queue_free' = next[n]
        /\ pool' = [pool EXCEPT ![n] = <<Isr, "send">>]
        /\ LinkLast(n, [next EXCEPT ![n] = Nil])
        /\ \/ /\ suspend_thread[Receivers] # <<>>
              /\ suspend_thread' = [o \in Object |-> RemoveFirst(suspend_thread[o], r)]
              /\ timer_list' = StopTimer(timer_list, r)
              /\ rt_schedule([stat EXCEPT ![r] = InsertStat(r)], InsertThread(r), yield)
              /\ UNCHANGED <<rt_tick, remaining_tick, current_priority, error, isr>>
           \/ /\ suspend_thread[Receivers] = <<>>
              /\ UNCHANGED kernelVars
        /\ UNCHANGED callVars

MqSleep(t, delay) ==
    /\ Free(t)
    /\ Sleep(t, delay)
    /\ Goto(t, "sched")
    /\ UNCHANGED <<queueVars, node, buffer, timeout, tick_delta, asked, waited>>

ThreadStep(t) ==
    \/ \E limit \in Timeout \union {RT_WAITING_NO, RT_WAITING_FOREVER} :
          RecvBegins(t, limit) \/ SendBegins(t, limit)
    \/ UrgentBegins(t)
    \/ Reschedule(t) \/ SendRetries(t) \/ RecvRetries(t)
    \/ CopyIn(t) \/ Link(t) \/ CopyOut(t) \/ FreeSlot(t) \/ Return(t)
    \/ \E delay \in Timeout : MqSleep(t, delay)

\* History: the ticks since a call with a timeout began.
Clock == waited' = [t \in Thread |-> IF asked[t] > 0 /\ waited[t] < Half THEN waited[t] + 1
                                     ELSE waited[t]]

\* Bound: a thread that has been woken up runs before half the range of the tick
\* counter is over (24 days).
NotStarved ==
    \A t \in Thread : asked[t] > 0 => waited[t] < Half - 1 \/ stat[t] = "SUSPEND"

Tick ==
    /\ \/ rt_tick_increase /\ NotStarved /\ Clock
       \/ (TimerExpires \/ TimerCheckEnds) /\ UNCHANGED waited
    /\ UNCHANGED <<queueVars, pc, node, buffer, timeout, tick_delta, asked>>

Next ==
    \/ Tick
    \/ SendFromInterrupt
    \/ \E t \in Thread : ThreadStep(t)

Spec == Init /\ [][Next]_vars
-----------------------------------------------------------------------------
\* Types of the queue and of the callers' variables.
TypeOK ==
    /\ KernelTypeOK
    /\ {msg_queue_head, msg_queue_tail, msg_queue_free} \subseteq Node \union {Nil}
    /\ entry \in 0..Cardinality(Node)
    /\ next \in [Node -> Node \union {Nil}] /\ pool \in [Node -> Msg \union {Nil}]
    /\ pc \in [Thread -> {"run", "send_sched", "send_back", "recv_sched", "recv_back", "copy_in",
                          "copy_in_urgent", "link", "link_urgent", "copy_out", "free", "sched",
                          "back"}]
    /\ node \in [Thread -> Node \union {Nil}] /\ buffer \in [Thread -> Msg \union {Nil}]
    /\ timeout \in [Thread -> -1..(Half - 1)] /\ asked \in [Thread -> -1..(Half - 1)]
    /\ tick_delta \in [Thread -> 0..(TickMod - 1)] /\ waited \in [Thread -> 0..Half]

\* The links lead from the first slot through the slots of s, and end there.
IsChain(s, first) ==
    /\ first = IF s = <<>> THEN Nil ELSE Head(s)
    /\ \A k \in DOMAIN s : next[s[k]] = IF k = Len(s) THEN Nil ELSE s[k + 1]

Chains == SeqOf(Node, Cardinality(Node))
Chain(first) == CHOOSE s \in Chains : IsChain(s, first)

InHand == {t \in Thread : node[t] # Nil}

\* No slot is lost, in use twice or reachable from both chains: the slots of
\* neither chain are the ones that threads copy to or from, one each.  The ends
\* of the queue and the number of entries are what its chain says.
NoSlotLost ==
    \E q, f \in Chains :
        /\ IsChain(q, msg_queue_head) /\ IsChain(f, msg_queue_free)
        /\ ToSet(q) \intersect ToSet(f) = {}
        /\ {node[t] : t \in InHand} = Node \ (ToSet(q) \union ToSet(f))
        /\ \A t, u \in InHand : node[t] = node[u] => t = u
        /\ entry = Len(q)
        /\ msg_queue_tail = IF q = <<>> THEN Nil ELSE Last(q)

\* The threads that have been woken up in a list and have not looked yet.
Woken(places) ==
    {t \in Thread : pc[t] \in places /\ stat[t] # "SUSPEND" /\ error[t] = "RT_EOK"}

\* No wake-up is lost: while threads wait, every message in the queue and every
\* free slot has a thread on its way to it, in spite of others who get in first.
NoLostWakeUp ==
    /\ suspend_thread[Receivers] # <<>> =>
            entry <= Cardinality(Woken({"recv_sched", "recv_back"}))
    /\ suspend_thread[Senders] # <<>> =>
            Len(Chain(msg_queue_free)) <= Cardinality(Woken({"send_sched", "send_back"}))

\* However often a thread is woken up and finds nothing, all its waits together
\* last as long as the timeout of its call.
DeadlineKept ==
    \A k \in DOMAIN timer_list :
        LET t == timer_list[k].thread IN
        asked[t] > 0 =>
            waited[t] + Diff(timer_list[k].at, rt_tick) = asked[t]

\* The slots, chains and copies implement a bounded queue: what is received is
\* the first message, whole, also when the slot is read while others send.
Contents == LET q == Chain(msg_queue_head) IN [k \in DOMAIN q |-> pool[q[k]]]
Received == [t \in Thread |-> CASE pc[t] = "copy_out" -> pool[node[t]]
                                [] pc[t] = "free" -> buffer[t]
                                [] OTHER -> Nil]
Queue == INSTANCE MessageQueue WITH
    queue <- Contents, got <- Received, Client <- Thread, Msg <- Msg, Urgent <- Urgent,
    NoMsg <- Nil, MaxMsgs <- Cardinality(Node)
IsMessageQueue == Queue!Spec
=============================================================================
