------------------------------ MODULE RtMutex ------------------------------
(***************************************************************************)
(* The mutexes of RT-Thread (ipc.c): rt_mutex_take with priority           *)
(* inheritance and timeout, rt_mutex_release with the hand-over of the     *)
(* mutex to the first waiter.  The application guards its ranging sensors  *)
(* with one, which the haptic thread takes twice, in its loop and in       *)
(* read_vl53l0x_data.                                                      *)
(*                                                                         *)
(* Threads take and release the mutexes in any order they are not blocked  *)
(* in, sleep and yield; the tick interrupt may come after every masked     *)
(* section.  Two early returns that only set thread->error, which nobody   *)
(* reads, are left out: rt_mutex_take with timeout 0 of a mutex that is    *)
(* not free, and rt_mutex_release by a thread that is not the owner.       *)
(***************************************************************************)
EXTENDS RtThread

CONSTANTS
    Mutex,         \* the mutexes, the Object of RtThread
    NoThread,      \* RT_NULL
    Uses,          \* thread -> the mutexes its code takes
    HoldMax        \* RT_MUTEX_HOLD_MAX, 255 in the code

ASSUME MutexAssumption ==
    /\ Object = Mutex /\ NoThread \notin Thread \union Mutex /\ Uses \in [Thread -> SUBSET Mutex]
    /\ HoldMax \in Nat \ {0}

NoPrio == 255      \* original_priority of a free mutex

VARIABLES
    value, owner, original_priority, hold,   \* the fields of each mutex
    pc,            \* thread -> run: in its own code; sched: before rt_schedule;
                   \*           back: behind rt_schedule in rt_mutex_take
    asked,         \* thread -> the mutex of its last rt_mutex_take
    held,          \* history: thread -> the mutexes it has taken, in order
    nested,        \* history: has a thread asked for a mutex while it held one?
    crossed        \* history: has one released a mutex before one it took later?

mutexVars == <<value, owner, original_priority, hold>>
vars == <<kernelVars, mutexVars, pc, asked, held, nested, crossed>>

Init ==
    /\ KernelInit
    /\ value = [m \in Mutex |-> 1] /\ owner = [m \in Mutex |-> NoThread]
    /\ original_priority = [m \in Mutex |-> NoPrio] /\ hold = [m \in Mutex |-> 0]
    /\ pc = [t \in Thread |-> "run"] /\ asked = [t \in Thread |-> NoThread]
    /\ held = [t \in Thread |-> <<>>] /\ nested = FALSE /\ crossed = FALSE
-----------------------------------------------------------------------------
\* A thread is between two calls of the kernel.
Free(t) == Executes(t) /\ pc[t] = "run" /\ t # Idle

\* History: a thread that asks for a mutex while it holds one nests them.
Nests(t) == nested' = (nested \/ held[t] # <<>>)

\* What a call that neither waits nor wakes anyone leaves alone.
NoSwitch == UNCHANGED <<rt_tick, rt_current_thread, stat, yield, ready, lowered, remaining_tick,
                        timer_list, suspend_thread, isr>>

\* rt_mutex_take by the owner: one more hold, or -RT_EFULL.
TakeAgain(t, m) ==
    /\ Free(t) /\ owner[m] = t
    /\ hold' = [hold EXCEPT ![m] = IF @ < HoldMax THEN @ + 1 ELSE @]
    /\ NoSwitch
    /\ UNCHANGED <<current_priority, error, value, owner, original_priority, pc, asked, held, nested, crossed>>

\* rt_mutex_take of a mutex that is free.
TakeFree(t, m) ==
    /\ Free(t) /\ owner[m] # t /\ value[m] > 0
    /\ value' = [value EXCEPT ![m] = @ - 1]
    /\ owner' = [owner EXCEPT ![m] = t]
    /\ original_priority' = [original_priority EXCEPT ![m] = current_priority[t]]
    /\ hold' = [hold EXCEPT ![m] = @ + 1]
    /\ held' = [held EXCEPT ![t] = Append(@, m)] /\ Nests(t)
    /\ NoSwitch
    /\ UNCHANGED <<current_priority, error, pc, asked, crossed>>

\* Mutant: a thread in the ready table changes its priority where it stands.
ChangePriority_NotQueued(t, p) ==
    /\ current_priority' = [current_priority EXCEPT ![t] = p] /\ UNCHANGED ready

\* rt_thread_control with RT_THREAD_CTRL_CHANGE_PRIORITY: a READY thread moves
\* to the queue of its new priority.
ChangePriority(t, p) ==
    /\ current_priority' = [current_priority EXCEPT ![t] = p]
    /\ ready' = IF stat[t] = "READY" THEN Enqueue(Dequeue(ready, t), t, p, yield) ELSE ready

\* Mutant: the owner does not inherit.
Inherit_Not(t, m) == UNCHANGED <<current_priority, ready>>

\* The owner inherits the priority of a thread that is about to wait.
Inherit(t, m) ==
    IF current_priority[t] < current_priority[owner[m]]
    THEN ChangePriority(owner[m], current_priority[t])
    ELSE UNCHANGED <<current_priority, ready>>

\* rt_mutex_take of a mutex that another thread holds, up to rt_schedule.
TakeWaits(t, m, timeout) ==
    /\ Free(t) /\ owner[m] # t /\ value[m] = 0
    /\ Inherit(t, m)
    /\ SuspendSelf(t, timeout)
    /\ suspend_thread' = [suspend_thread EXCEPT ![m] = InsertByPriority(@, t)]
    /\ pc' = [pc EXCEPT ![t] = "sched"] /\ asked' = [asked EXCEPT ![t] = m]
    /\ Nests(t)
    /\ UNCHANGED <<rt_tick, rt_current_thread, yield, lowered, remaining_tick, isr, mutexVars, held,
                   crossed>>

\* rt_mutex_take, rt_mutex_release and rt_thread_sleep call rt_schedule.
Reschedule(t) ==
    /\ pc[t] = "sched"
    /\ CallSchedule(t)
    /\ pc' = [pc EXCEPT ![t] = "back"]
    /\ UNCHANGED <<mutexVars, asked, held, nested, crossed>>

\* The call comes back from rt_schedule and returns; rt_mutex_take returns
\* thread->error, which nobody reads after that.
Return(t) ==
    /\ Executes(t) /\ pc[t] = "back"
    /\ pc' = [pc EXCEPT ![t] = "run"] /\ asked' = [asked EXCEPT ![t] = NoThread]
    /\ error' = [error EXCEPT ![t] = "RT_EOK"]
    /\ NoSwitch
    /\ UNCHANGED <<current_priority, mutexVars, held, nested, crossed>>

\* rt_mutex_release of a mutex that was taken more than once.
ReleaseOnce(t, m) ==
    /\ Free(t) /\ owner[m] = t /\ hold[m] > 1
    /\ hold' = [hold EXCEPT ![m] = @ - 1]
    /\ NoSwitch
    /\ UNCHANGED <<current_priority, error, value, owner, original_priority, pc, asked, held, nested, crossed>>

\* Mutant: the priority stays as it was inherited.
Restore_Not(t, m) == UNCHANGED <<current_priority, ready>>

\* The owner gets back the priority it had when it took the mutex.
Restore(t, m) ==
    IF original_priority[m] # current_priority[t]
    THEN ChangePriority(t, original_priority[m])
    ELSE UNCHANGED <<current_priority, ready>>

\* History: nothing asks a thread to release the mutex first that it took last.
Crosses(t, m) == crossed' = (crossed \/ Last(held[t]) # m)

\* rt_mutex_release of a mutex nobody waits for.  The priority may drop, but
\* rt_schedule is not called.
ReleaseToNobody(t, m) ==
    /\ Free(t) /\ owner[m] = t /\ hold[m] = 1 /\ suspend_thread[m] = <<>>
    /\ Restore(t, m)
    /\ value' = [value EXCEPT ![m] = @ + 1]
    /\ owner' = [owner EXCEPT ![m] = NoThread]
    /\ original_priority' = [original_priority EXCEPT ![m] = NoPrio]
    /\ hold' = [hold EXCEPT ![m] = 0]
    /\ lowered' = (lowered \/ current_priority[t] < original_priority[m])
    /\ held' = [held EXCEPT ![t] = RemoveFirst(@, m)] /\ Crosses(t, m)
    /\ UNCHANGED <<rt_tick, rt_current_thread, stat, yield, remaining_tick, timer_list,
                   suspend_thread, error, isr, pc, asked, nested>>

\* rt_mutex_release hands the mutex over to the first waiter, up to rt_schedule.
\* The owner is the current thread, which is not in the ready table.
ReleaseToWaiter(t, m) ==
    LET w == Head(suspend_thread[m]) IN
    /\ Free(t) /\ owner[m] = t /\ hold[m] = 1 /\ suspend_thread[m] # <<>>
    /\ current_priority' = [current_priority EXCEPT ![t] = original_priority[m]]
    /\ owner' = [owner EXCEPT ![m] = w]
    /\ original_priority' = [original_priority EXCEPT ![m] = current_priority[w]]
    /\ rt_thread_resume(w)
    /\ held' = [held EXCEPT ![t] = RemoveFirst(@, m), ![w] = Append(@, m)] /\ Crosses(t, m)
    /\ pc' = [pc EXCEPT ![t] = "sched"]
    /\ UNCHANGED <<rt_tick, rt_current_thread, yield, lowered, remaining_tick, error, isr,
                   value, hold, asked, nested>>

\* rt_thread_sleep, and rt_thread_yield.
MutexSleep(t, delay) ==
    /\ Free(t)
    /\ Sleep(t, delay)
    /\ pc' = [pc EXCEPT ![t] = "sched"]
    /\ UNCHANGED <<mutexVars, asked, held, nested, crossed>>

MutexYield(t) ==
    /\ Free(t)
    /\ rt_thread_yield(t)
    /\ UNCHANGED <<mutexVars, pc, asked, held, nested, crossed>>

ThreadStep(t) ==
    \/ \E m \in Uses[t] :
          \/ TakeAgain(t, m) \/ TakeFree(t, m)
          \/ \E timeout \in Timeout \union {RT_WAITING_FOREVER} : TakeWaits(t, m, timeout)
          \/ ReleaseOnce(t, m) \/ ReleaseToNobody(t, m) \/ ReleaseToWaiter(t, m)
    \/ Reschedule(t) \/ Return(t) \/ MutexYield(t)
    \/ \E delay \in Timeout : MutexSleep(t, delay)

Tick == SysTick /\ UNCHANGED <<mutexVars, pc, asked, held, nested, crossed>>

Next == Tick \/ \E t \in Thread : ThreadStep(t)

\* The tick interrupt comes again and again, and a thread that is the current
\* one goes on inside a call of the kernel.
Spec == Init /\ [][Next]_vars /\ WF_vars(Tick)
-----------------------------------------------------------------------------
\* Types of the mutexes and of the callers' state.
TypeOK ==
    /\ KernelTypeOK
    /\ value \in [Mutex -> 0..1] /\ owner \in [Mutex -> Thread \union {NoThread}]
    /\ original_priority \in [Mutex -> Prio \union {NoPrio}] /\ hold \in [Mutex -> 0..HoldMax]
    /\ pc \in [Thread -> {"run", "sched", "back"}]
    /\ asked \in [Thread -> Mutex \union {NoThread}]
    /\ held \in [Thread -> Seq(Mutex)] /\ nested \in BOOLEAN /\ crossed \in BOOLEAN

\* A thread that comes out of its wait in rt_mutex_take finds RT_EOK exactly
\* when the mutex is its own, also when its timer expires while the owner
\* releases the mutex: neither does it go on without the mutex, nor is it left
\* with a mutex it thinks it did not get.
GrantedIsOwner ==
    \A t \in Thread : asked[t] \in Mutex /\ stat[t] # "SUSPEND" =>
        (error[t] = "RT_EOK" <=> owner[asked[t]] = t)

\* The current thread has the highest priority of all that are ready, but for
\* the time up to the next rt_schedule when it has woken a thread, is about to
\* wait, or has released a mutex nobody waits for at an inherited priority.
HighestRuns ==
    pc[rt_current_thread] = "sched" \/ lowered
    \/ \A t \in Thread : stat[t] = "READY" =>
            current_priority[rt_current_thread] <= current_priority[t]

\* No unbounded priority inversion, as long as no thread takes one mutex inside
\* another: while a thread waits for a mutex whose owner could run, no thread
\* of a lower priority than the waiting one runs.
NoInversion ==
    \A m \in Mutex : \A k \in DOMAIN suspend_thread[m] :
        ~ nested /\ stat[owner[m]] # "SUSPEND" =>
            \/ pc[rt_current_thread] = "sched" \/ lowered
            \/ current_priority[rt_current_thread] <= current_priority[suspend_thread[m][k]]

\* A thread that holds no mutex has the priority it was created with.  What a
\* release gives back is the priority at the time the mutex was taken.
PriorityComesBack ==
    \A t \in Thread : held[t] = <<>> => current_priority[t] = Base[t]

\* That is so as long as every thread releases first what it took last, whatever
\* it has inherited, from whom and in which of its nested mutexes, and whether
\* the waiters have given up since.
Restored == ~ crossed => PriorityComesBack

\* The inversion that rt_mutex_release leaves when it lowers the priority
\* without calling rt_schedule ends, at the latest with the time slice.
LoweredEnds == lowered ~> ~ lowered
=============================================================================
