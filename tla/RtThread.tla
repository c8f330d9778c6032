----------------------------- MODULE RtThread -----------------------------
(***************************************************************************)
(* The part of the RT-Thread kernel that every IPC object rests on, as the *)
(* board is configured (one processor, no soft timer in use):              *)
(*   scheduler.c  the ready table and rt_schedule,                         *)
(*   thread.c     suspending, resuming, sleeping, the thread's timeout,    *)
(*   timer.c      the list of hard timers, ordered across the wrap of the  *)
(*                tick counter,                                            *)
(*   clock.c      the tick interrupt with its time slices,                 *)
(*   ipc.c        the lists of threads that wait for an object.            *)
(*                                                                         *)
(* A step is a section of code with interrupts masked; the tick interrupt  *)
(* comes between any two of them, in particular between suspending a       *)
(* thread and the call of rt_schedule behind it.  Thread state that only   *)
(* the caller sees is left to the modules that extend this one.            *)
(***************************************************************************)
EXTENDS Integers, Sequences, FiniteSets, SequencesExt

CONSTANTS
    Thread,        \* the threads, one of them is
    Idle,          \* the idle thread, which never waits
    Base,          \* thread -> the priority it was created with, 0 is the highest
    Object,        \* the lists in which threads wait
    TickMod,       \* RT_TICK_MAX + 1, 2^32 in the code
    TimeSlice,     \* init_tick of the threads
    Timeout        \* the timeouts and delays that are asked for

\* rt_timer_control asserts that a timeout is less than RT_TICK_MAX / 2.
Half == (TickMod - 1) \div 2

ASSUME ThreadAssumption ==
    /\ IsFiniteSet(Thread) /\ Idle \in Thread /\ Base \in [Thread -> Nat]
    /\ \A t \in Thread \ {Idle} : Base[t] < Base[Idle]
    /\ TickMod \in Nat /\ TickMod > 2 /\ TimeSlice \in Nat \ {0}
    /\ Timeout \subseteq 1..(Half - 1)

RT_WAITING_FOREVER == -1
RT_WAITING_NO == 0

Prio == {Base[t] : t \in Thread}

VARIABLES
    rt_tick,             \* the tick counter
    rt_current_thread,
    stat,                \* thread -> RUNNING, READY or SUSPEND
    yield,               \* the threads with RT_THREAD_STAT_YIELD
    remaining_tick,      \* thread -> what is left of its time slice
    current_priority,    \* thread -> its priority, inherited ones included
    ready,               \* rt_thread_priority_table: priority -> queue of threads
    timer_list,          \* the active thread timers, the next to expire first
    suspend_thread,      \* object -> the threads that wait for it
    error,               \* thread -> thread->error
    isr,                 \* is the tick interrupt in rt_timer_check?
    lowered              \* history: has a priority been lowered since rt_schedule?

schedVars == <<rt_current_thread, stat, yield, ready, lowered>>
kernelVars == <<rt_tick, schedVars, remaining_tick, current_priority, timer_list,
                suspend_thread, error, isr>>
-----------------------------------------------------------------------------
\* a - b in the arithmetic of rt_tick_t.
Diff(a, b) == (a - b) % TickMod

\* Mutant: the ticks are compared as numbers.
InsertTimer_NoWrap(list, tm) ==
    LET later == SelectInSeq(list, LAMBDA u : u.at > tm.at)
    IN  IF later = 0 THEN Append(list, tm) ELSE InsertAt(list, later, tm)

\* rt_timer_start: before the first timer that expires later.
InsertTimer(list, tm) ==
    LET later == SelectInSeq(list, LAMBDA u : Diff(u.at, tm.at) \in 1..(Half - 1))
    IN  IF later = 0 THEN Append(list, tm) ELSE InsertAt(list, later, tm)

\* rt_timer_stop.
StopTimer(list, t) == RemoveFirstMatch(list, LAMBDA u : u.thread = t)

\* RT_TIMER_CTRL_SET_TIME and rt_timer_start of the timer of a thread.
StartTimer(list, t, timeout) ==
    InsertTimer(StopTimer(list, t), [thread |-> t, at |-> (rt_tick + timeout) % TickMod])

\* _ipc_list_suspend in the order of priorities: before the first thread with a
\* lower one.
InsertByPriority(list, t) ==
    LET lower == SelectInSeq(list, LAMBDA u : current_priority[t] < current_priority[u])
    IN  IF lower = 0 THEN Append(list, t) ELSE InsertAt(list, lower, t)

\* Take a thread out of a queue of the ready table (rt_schedule_remove_thread).
Dequeue(rd, t) == [p \in Prio |-> RemoveFirst(rd[p], t)]

\* rt_schedule_insert_thread for a thread other than the current one: in front
\* of its queue, or behind it when its time slice is used up.
Enqueue(rd, t, p, yielded) ==
    [rd EXCEPT ![p] = IF t \in yielded THEN Append(@, t) ELSE <<t>> \o @]

\* rt_schedule_insert_thread: the current thread is running and not queued.
InsertStat(t) == IF t = rt_current_thread THEN "RUNNING" ELSE "READY"
InsertThread(t) ==
    IF t = rt_current_thread THEN ready ELSE Enqueue(ready, t, current_priority[t], yield)

\* The highest priority in the ready table.
Highest(rd) == CHOOSE p \in Prio : rd[p] # <<>> /\ \A q \in Prio : rd[q] # <<>> => p <= q

\* rt_schedule keeps the current thread.
Stays(st, rd, yielded) ==
    LET me == rt_current_thread IN
    \/ \A p \in Prio : rd[p] = <<>>
    \/ /\ st[me] = "RUNNING"
       /\ \/ current_priority[me] < Highest(rd)
          \/ current_priority[me] = Highest(rd) /\ me \notin yielded

\* Mutant: a thread of a higher priority does not preempt the current one.
rt_schedule_NoPreemption(st, rd, yielded) ==
    LET from    == rt_current_thread
        to      == Head(rd[Highest(rd)])
    IN  /\ lowered' = FALSE /\ yield' = yielded \ {from}
        /\ IF st[from] = "RUNNING"
           THEN UNCHANGED rt_current_thread /\ stat' = st /\ ready' = rd
           ELSE /\ rt_current_thread' = to
                /\ stat' = [st EXCEPT ![to] = "RUNNING"]
                /\ ready' = Dequeue(rd, to)

\* rt_schedule, given the states and the ready table it finds.  The flag YIELD
\* of the current thread is cleared before the thread is queued again.
rt_schedule(st, rd, yielded) ==
    LET from    == rt_current_thread
        to      == Head(rd[Highest(rd)])
        running == st[from] = "RUNNING"
        flags   == IF running /\ \E p \in Prio : rd[p] # <<>> THEN yielded \ {from} ELSE yielded
    IN  /\ lowered' = FALSE /\ yield' = flags
        /\ IF Stays(st, rd, yielded)
           THEN UNCHANGED rt_current_thread /\ stat' = st /\ ready' = rd
           ELSE /\ rt_current_thread' = to
                /\ stat' = [t \in Thread |-> CASE t = to -> "RUNNING"
                                              [] t = from /\ running -> "READY"
                                              [] OTHER -> st[t]]
                /\ ready' = LET queued == IF running
                                          THEN Enqueue(rd, from, current_priority[from], flags)
                                          ELSE rd
                            IN  Dequeue(queued, to)
-----------------------------------------------------------------------------
\* Every thread has been started, none has waited yet, and the scheduler has
\* chosen one of those with the highest priority.
KernelInit ==
    /\ rt_tick = 0
    /\ rt_current_thread \in {t \in Thread : \A u \in Thread : Base[t] <= Base[u]}
    /\ stat = [t \in Thread |-> IF t = rt_current_thread THEN "RUNNING" ELSE "READY"]
    /\ current_priority = Base
    /\ ready = [p \in Prio |->
                    SetToSeq({t \in Thread \ {rt_current_thread} : Base[t] = p})]
    /\ remaining_tick = [t \in Thread |-> TimeSlice]
    /\ suspend_thread = [o \in Object |-> <<>>]
    /\ error = [t \in Thread |-> "RT_EOK"]
    /\ timer_list = <<>> /\ yield = {} /\ isr = FALSE /\ lowered = FALSE

\* The code of a thread runs when the thread is the current one and no
\* interrupt is being served; between _ipc_list_suspend and rt_schedule the
\* current thread is suspended already.
Executes(t) == rt_current_thread = t /\ ~ isr

\* rt_thread_suspend of the caller with the start of its timer; the caller
\* queues it in a list and calls rt_schedule next.
SuspendSelf(t, timeout) ==
    /\ stat' = [stat EXCEPT ![t] = "SUSPEND"]
    /\ timer_list' = IF timeout > 0 THEN StartTimer(timer_list, t, timeout)
                                    ELSE StopTimer(timer_list, t)
    /\ error' = [error EXCEPT ![t] = "RT_EOK"]

\* Mutant: the timer of the thread goes on.
rt_thread_resume_KeepsTimer(t) ==
    /\ stat' = [stat EXCEPT ![t] = InsertStat(t)]
    /\ ready' = InsertThread(t)
    /\ suspend_thread' = [o \in Object |-> RemoveFirst(suspend_thread[o], t)]
    /\ UNCHANGED timer_list

\* rt_thread_resume of a thread that is suspended in a list.
rt_thread_resume(t) ==
    /\ stat' = [stat EXCEPT ![t] = InsertStat(t)]
    /\ ready' = InsertThread(t)
    /\ suspend_thread' = [o \in Object |-> RemoveFirst(suspend_thread[o], t)]
    /\ timer_list' = StopTimer(timer_list, t)

\* rt_schedule called by a thread.
CallSchedule(t) ==
    /\ Executes(t)
    /\ rt_schedule(stat, ready, yield)
    /\ UNCHANGED <<rt_tick, remaining_tick, current_priority, timer_list, suspend_thread,
                   error, isr>>

\* rt_thread_yield.
rt_thread_yield(t) ==
    /\ Executes(t)
    /\ remaining_tick' = [remaining_tick EXCEPT ![t] = TimeSlice]
    /\ rt_schedule(stat, ready, yield \union {t})
    /\ UNCHANGED <<rt_tick, current_priority, timer_list, suspend_thread, error, isr>>

\* rt_thread_sleep up to its call of rt_schedule.
Sleep(t, delay) ==
    /\ Executes(t)
    /\ SuspendSelf(t, delay)
    /\ UNCHANGED <<rt_tick, rt_current_thread, yield, ready, lowered, remaining_tick,
                   current_priority, suspend_thread, isr>>

\* Mutant: the scheduler is not called at the end of a time slice.
rt_tick_increase_NoSlice ==
    /\ ~ isr
    /\ rt_tick' = (rt_tick + 1) % TickMod /\ isr' = TRUE
    /\ UNCHANGED <<schedVars, remaining_tick, current_priority, timer_list, suspend_thread, error>>

\* rt_tick_increase up to rt_timer_check: a thread that has used up its time
\* slice yields.
rt_tick_increase ==
    LET me == rt_current_thread IN
    /\ ~ isr
    /\ rt_tick' = (rt_tick + 1) % TickMod /\ isr' = TRUE
    /\ \/ /\ remaining_tick[me] > 1
          /\ remaining_tick' = [remaining_tick EXCEPT ![me] = @ - 1]
          /\ UNCHANGED schedVars
       \/ /\ remaining_tick[me] = 1
          /\ remaining_tick' = [remaining_tick EXCEPT ![me] = TimeSlice]
          /\ rt_schedule(stat, ready, yield \union {me})
    /\ UNCHANGED <<current_priority, timer_list, suspend_thread, error>>

\* Mutant: one tick too early.
Expired_Early == timer_list # <<>> /\ Diff(rt_tick + 1, Head(timer_list).at) < Half

\* The first timer of the list has expired.
Expired == timer_list # <<>> /\ Diff(rt_tick, Head(timer_list).at) < Half

\* rt_timer_check: the first timer has expired, and _thread_timeout takes its
\* thread out of the list it waits in.
TimerExpires ==
    LET t == Head(timer_list).thread IN
    /\ isr /\ Expired
    /\ timer_list' = Tail(timer_list)
    /\ error' = [error EXCEPT ![t] = "RT_ETIMEOUT"]
    /\ suspend_thread' = [o \in Object |-> RemoveFirst(suspend_thread[o], t)]
    /\ rt_schedule([stat EXCEPT ![t] = InsertStat(t)], InsertThread(t), yield)
    /\ UNCHANGED <<rt_tick, remaining_tick, current_priority, isr>>

\* rt_timer_check: no other timer has expired, the interrupt ends.
TimerCheckEnds ==
    /\ isr /\ ~ Expired
    /\ isr' = FALSE
    /\ UNCHANGED <<rt_tick, schedVars, remaining_tick, current_priority, timer_list,
                   suspend_thread, error>>

SysTick == rt_tick_increase \/ TimerExpires \/ TimerCheckEnds
-----------------------------------------------------------------------------
\* Types of the kernel's variables.
KernelTypeOK ==
    /\ rt_tick \in 0..(TickMod - 1) /\ rt_current_thread \in Thread
    /\ stat \in [Thread -> {"RUNNING", "READY", "SUSPEND"}] /\ yield \subseteq Thread
    /\ remaining_tick \in [Thread -> 1..TimeSlice]
    /\ current_priority \in [Thread -> Prio] /\ ready \in [Prio -> Seq(Thread)]
    /\ timer_list \in Seq([thread : Thread, at : 0..(TickMod - 1)])
    /\ suspend_thread \in [Object -> Seq(Thread)]
    /\ error \in [Thread -> {"RT_EOK", "RT_ETIMEOUT"}]
    /\ isr \in BOOLEAN /\ lowered \in BOOLEAN

\* The list of the threads that have a timer.
Timed == [k \in DOMAIN timer_list |-> timer_list[k].thread]

\* No thread is lost or queued twice, whatever the tick interrupt meets: a READY
\* thread stands once, in the queue of the priority it has now; a suspended
\* one waits in one list, or sleeps, and can be woken; only suspended threads
\* wait and have a timer (the assertion of _thread_timeout).
NoThreadLost ==
    /\ \A p \in Prio :
          /\ IsInjective(ready[p])
          /\ ToSet(ready[p]) = {t \in Thread : stat[t] = "READY" /\ current_priority[t] = p}
    /\ \A o \in Object :
          /\ IsInjective(suspend_thread[o])
          /\ \A t \in ToSet(suspend_thread[o]) :
                stat[t] = "SUSPEND" /\ \A q \in Object \ {o} : t \notin ToSet(suspend_thread[q])
    /\ IsInjective(Timed) /\ \A t \in ToSet(Timed) : stat[t] = "SUSPEND"
    /\ \A t \in Thread :
          /\ stat[t] = "SUSPEND" => \/ t \in ToSet(Timed)
                                    \/ \E o \in Object : t \in ToSet(suspend_thread[o])
          /\ stat[t] = "RUNNING" => t = rt_current_thread

\* Between two tick interrupts no timer is overdue, and the list is in the order
\* in which the timers expire, also across the wrap of the tick counter.
TimersOnTime ==
    ~ isr => \A j, k \in DOMAIN timer_list :
                /\ Diff(timer_list[j].at, rt_tick) \in 1..(Half - 1)
                /\ j <= k => Diff(timer_list[j].at, rt_tick) <= Diff(timer_list[k].at, rt_tick)

\* A wait times out in the tick its timer was set to, never before.
NeverEarly ==
    [][\A t \in Thread : error[t] = "RT_EOK" /\ error'[t] = "RT_ETIMEOUT" /\ stat[t] = "SUSPEND"
            => \E k \in DOMAIN timer_list : timer_list[k] = [thread |-> t, at |-> rt_tick]]_kernelVars
=============================================================================
