----------------------------- MODULE RtMqProof -----------------------------
(***************************************************************************)
(* The theorems about the message queue of RtMq, for every number of       *)
(* threads, priorities and slots, and whatever the tick interrupt and the  *)
(* sending interrupt meet.  They rest on the facts about the kernel in     *)
(* RtThreadProof.                                                          *)
(***************************************************************************)
EXTENDS RtMq, RtThreadProof

SendPlaces == {"send_sched", "send_back"}
RecvPlaces == {"recv_sched", "recv_back"}
CopyPlaces == {"copy_in", "copy_in_urgent", "link", "link_urgent", "copy_out", "free"}
Places == SendPlaces \union RecvPlaces \union CopyPlaces \union {"run", "sched", "back"}

CallTypes ==
    /\ pc \in [Thread -> Places]
    /\ timeout \in [Thread -> -1..(Half - 1)] /\ asked \in [Thread -> -1..(Half - 1)]
    /\ tick_delta \in [Thread -> Ticks] /\ waited \in [Thread -> 0..Half]

\* Where a thread is in its call: one that runs its own code or copies is not
\* suspended, one that waits has no timeout yet and stands in the list it asked
\* for.
InCall ==
    /\ pc[Idle] = "run"
    /\ stat[rt_current_thread] = "SUSPEND" =>
          pc[rt_current_thread] \in {"send_sched", "recv_sched", "sched"}
    /\ \A t \in Thread :
          /\ stat[t] = "SUSPEND" =>
                /\ pc[t] \in SendPlaces \union RecvPlaces \union {"sched", "back"}
                /\ error[t] = "RT_EOK"
          /\ t \in ToSet(suspend_thread[Receivers]) => pc[t] \in RecvPlaces
          /\ t \in ToSet(suspend_thread[Senders]) => pc[t] \in SendPlaces

\* What a thread knows of its deadline: the ticks since its call are those that
\* its timeout has lost, and those since it began to wait.
Clocked(t) ==
    /\ asked[t] # 0 <=> pc[t] \in SendPlaces \union RecvPlaces
    /\ asked[t] <= 0 => waited[t] = 0
    /\ asked[t] < 0 => timeout[t] = -1
    /\ asked[t] > 0 =>
          /\ timeout[t] \in 1..asked[t] /\ waited[t] < Half
          /\ waited[t] = (asked[t] - timeout[t]) + Diff(rt_tick, tick_delta[t])
          /\ stat[t] = "SUSPEND" => t \in ToSet(ThreadsOf(timer_list))

\* The timer of a thread that waits is set to its deadline.
Deadline ==
    \A tm \in ToSet(timer_list) :
        asked[tm.thread] > 0 => waited[tm.thread] + Diff(tm.at, rt_tick) = asked[tm.thread]

Control ==
    /\ KernelInv /\ OnTime
    /\ CallTypes /\ InCall
    /\ \A t \in Thread : Clocked(t)
    /\ Deadline
-----------------------------------------------------------------------------
LEMMA ControlInit == Init => Control
<1> SUFFICES ASSUME Init
             PROVE  Control
  OBVIOUS
<1>0. KernelInv  BY KernelInitInv DEF Init
<1>1. /\ timer_list = <<>> /\ rt_tick = 0 /\ suspend_thread = [o \in Object |-> <<>>]
      /\ stat = [t \in Thread |-> IF t = rt_current_thread THEN "RUNNING" ELSE "READY"]
      /\ rt_current_thread \in Thread
      /\ pc = [t \in Thread |-> "run"]
      /\ timeout = [t \in Thread |-> 0] /\ tick_delta = [t \in Thread |-> 0]
      /\ asked = [t \in Thread |-> 0] /\ waited = [t \in Thread |-> 0]
  BY DEF Init, KernelInit
<1>2. Len(<<>>) = 0 /\ ToSet(<<>>) = {}  BY DEF ToSet
<1>3. OnTime  BY <1>1, <1>2 DEF OnTime, Due
<1>4. CallTypes
  BY <1>1, HalfIs, ThreadAssumption DEF CallTypes, Places, Ticks
<1>5. \A o \in Object : ToSet(suspend_thread[o]) = {}  BY <1>1, <1>2
<1>6. InCall
  <2>1. Receivers \in Object /\ Senders \in Object  BY MqAssumption
  <2> QED  BY <1>1, <1>5, <2>1, ThreadAssumption DEF InCall
<1>7. \A t \in Thread : Clocked(t)
  BY <1>1 DEF Clocked, SendPlaces, RecvPlaces
<1>8. Deadline  BY <1>1, <1>2 DEF Deadline
<1> QED  BY <1>0, <1>3, <1>4, <1>6, <1>7, <1>8 DEF Control

\* The threads of a list of timers are threads, one timer each.
LEMMA TimerMember ==
    ASSUME NEW list \in Seq(TimerRec), NEW tm \in ToSet(list)
    PROVE  tm \in TimerRec /\ tm.thread \in Thread /\ tm.at \in Ticks /\ tm.thread \in ToSet(ThreadsOf(list))
<1>1. PICK k \in DOMAIN list : tm = list[k]  BY DEF ToSet
<1>2. k \in 1..Len(list) /\ Len(list) \in Nat  BY <1>1, LenProperties
<1>3. tm \in TimerRec /\ tm.thread \in Thread /\ tm.at \in Ticks
  BY <1>1, <1>2, ElementOfSeq, TimerAt
<1>4. ThreadsOf(list) \in Seq(Thread) /\ Len(ThreadsOf(list)) = Len(list) /\ ThreadsOf(list)[k] = tm.thread
  BY <1>1, <1>2, ThreadsOfSeq
<1>5. k \in DOMAIN ThreadsOf(list)  BY <1>2, <1>4, LenProperties
<1> QED  BY <1>3, <1>4, <1>5 DEF ToSet

\* Both lists are objects of the kernel.
LEMMA Lists == Receivers \in Object /\ Senders \in Object /\ Receivers # Senders
               /\ \A o \in Object : o = Receivers \/ o = Senders
  BY MqAssumption DEF Receivers, Senders

\* A thread that executes and does not call rt_schedule next is not suspended.
LEMMA Awake ==
    ASSUME Control, NEW t \in Thread, Executes(t), pc[t] \notin {"send_sched", "recv_sched", "sched"}
    PROVE  /\ t = rt_current_thread /\ ~ isr /\ stat[t] = "RUNNING"
           /\ \A o \in Object : t \notin ToSet(suspend_thread[o])
<1>1. t = rt_current_thread /\ ~ isr  BY DEF Executes
<1>2. stat[t] # "SUSPEND"  BY <1>1 DEF Control, InCall
<1>3. stat[t] = "RUNNING"  BY <1>1, <1>2 DEF Control, KernelInv, Current, Stat
<1> QED  BY <1>1, <1>2, <1>3, WaitingSuspended DEF Control, KernelInv

\* A thread goes on in its call without touching the kernel; it waits for
\* nothing before and after.
LEMMA ProceedControl ==
    ASSUME Control, NEW t \in Thread, Executes(t), t # Idle,
           pc[t] \notin {"send_sched", "recv_sched", "sched"}, UNCHANGED kernelVars,
           NEW place \in CopyPlaces \union {"run", "back"}, Goto(t, place),
           \/ WaitOver(t)
           \/ pc[t] \notin SendPlaces \union RecvPlaces /\ UNCHANGED <<timeout, tick_delta, asked, waited>>
    PROVE  Control'
<1>0. KernelInv /\ OnTime /\ CallTypes /\ InCall /\ Deadline /\ \A u \in Thread : Clocked(u)
  BY DEF Control
<1>1. /\ UNCHANGED <<rt_tick, rt_current_thread, stat, timer_list, suspend_thread, error, isr>>
  BY DEF kernelVars, schedVars
<1>2. KernelInv' /\ OnTime'
  BY <1>0, <1>1, KernelSame DEF OnTime
<1>3. t = rt_current_thread /\ stat[t] = "RUNNING" /\ \A o \in Object : t \notin ToSet(suspend_thread[o])
  BY Awake
<1>4. pc' = [pc EXCEPT ![t] = place] /\ \A u \in Thread : pc'[u] = IF u = t THEN place ELSE pc[u]
  BY <1>0 DEF Goto, CallTypes
<1>5. /\ asked'[t] = 0 /\ waited'[t] = 0
      /\ \A u \in Thread \ {t} : /\ asked'[u] = asked[u] /\ waited'[u] = waited[u]
                                 /\ timeout'[u] = timeout[u] /\ tick_delta'[u] = tick_delta[u]
      /\ timeout' \in [Thread -> -1..(Half - 1)] /\ asked' \in [Thread -> -1..(Half - 1)]
      /\ tick_delta' \in [Thread -> Ticks] /\ waited' \in [Thread -> 0..Half]
  <2>1. CASE WaitOver(t)
    BY <1>0, <2>1, HalfIs, ThreadAssumption DEF WaitOver, CallTypes, Ticks
  <2>2. CASE /\ pc[t] \notin SendPlaces \union RecvPlaces
             /\ UNCHANGED <<timeout, tick_delta, asked, waited>>
    <3>1. asked[t] = 0  BY <1>0, <2>2 DEF Clocked
    <3>2. waited[t] = 0  BY <1>0, <3>1 DEF Clocked
    <3> QED  BY <1>0, <2>2, <3>1, <3>2 DEF CallTypes
  <2> QED  BY <2>1, <2>2
<1>6. CallTypes'
  BY <1>0, <1>4, <1>5 DEF CallTypes, Places
<1>7. InCall'
  BY <1>0, <1>1, <1>3, <1>4, Lists DEF InCall
<1>8. ASSUME NEW u \in Thread  PROVE Clocked(u)'
  <2>1. CASE u = t
    <3>1. place \notin SendPlaces \union RecvPlaces  BY DEF CopyPlaces, SendPlaces, RecvPlaces
    <3> QED  BY <2>1, <3>1, <1>4, <1>5 DEF Clocked
  <2>2. CASE u # t
    <3>1. Clocked(u)  BY <1>0
    <3> QED  BY <2>2, <3>1, <1>1, <1>4, <1>5 DEF Clocked
  <2> QED  BY <2>1, <2>2
<1>9. Deadline'
  <2> SUFFICES ASSUME NEW tm \in ToSet(timer_list), asked'[tm.thread] > 0
               PROVE  waited'[tm.thread] + Diff(tm.at, rt_tick) = asked'[tm.thread]
    BY <1>1 DEF Deadline
  <2>1. tm.thread \in Thread  BY <1>0, TimerMember DEF KernelInv, TimersOf
  <2>2. tm.thread # t  BY <1>5
  <2> QED  BY <2>1, <2>2, <1>0, <1>5 DEF Deadline
<1> QED  BY <1>2, <1>6, <1>7, <1>8, <1>9 DEF Control

\* The thread is suspended and stands in the list, and nothing else changes for
\* the other threads.
Waits(t, list, place) ==
    /\ \A u \in Thread : /\ stat'[u] = IF u = t THEN "SUSPEND" ELSE stat[u]
                         /\ error'[u] = IF u = t THEN "RT_EOK" ELSE error[u]
                         /\ pc'[u] = IF u = t THEN place ELSE pc[u]
    /\ \A o \in Object : ToSet(suspend_thread'[o]) =
          IF o = list THEN ToSet(suspend_thread[o]) \union {t} ELSE ToSet(suspend_thread[o])

\* The thread waits in a list.  The timer is set so that what it has waited and
\* what it will wait make up the timeout of its call.
LEMMA WaitControl ==
    ASSUME Control, NEW t \in Thread, Executes(t), t # Idle,
           pc[t] \notin {"send_sched", "recv_sched", "sched"},
           NEW list \in Object, NEW limit \in {-1} \union 1..(Half - 1),
           NEW place, place = IF list = Senders THEN "send_sched" ELSE "recv_sched",
           WaitIn(t, list, limit, place),
           NEW a \in -1..(Half - 1), asked' = [asked EXCEPT ![t] = a],
           limit > 0 => a >= limit /\ waited[t] = a - limit,
           limit < 0 => a = -1 /\ waited[t] = 0
    PROVE  Control' /\ Waits(t, list, place)
<1>0. KernelInv /\ OnTime /\ CallTypes /\ InCall /\ Deadline /\ \A u \in Thread : Clocked(u)
  BY DEF Control
<1>a. t = rt_current_thread /\ ~ isr /\ stat[t] = "RUNNING"  BY Awake
<1>b. Half \in Nat /\ Half >= 1 /\ limit \in Int  BY HalfIs
<1>c. place \in {"send_sched", "recv_sched"} /\ place \in Places /\ place \in SendPlaces \union RecvPlaces
  BY DEF Places, SendPlaces, RecvPlaces
<1>1. /\ SuspendSelf(t, limit)
      /\ suspend_thread' = [suspend_thread EXCEPT ![list] = Append(@, t)]
      /\ timeout' = [timeout EXCEPT ![t] = limit]
      /\ tick_delta' = [tick_delta EXCEPT ![t] = IF limit > 0 THEN rt_tick ELSE @]
      /\ pc' = [pc EXCEPT ![t] = place]
      /\ UNCHANGED <<rt_tick, rt_current_thread, yield, ready, lowered, remaining_tick,
                     current_priority, isr, waited>>
  BY DEF WaitIn, Goto
<1>2. /\ stat' = [stat EXCEPT ![t] = "SUSPEND"]
      /\ Current(stat', rt_current_thread)
      /\ Queued(stat', ready, current_priority)
      /\ TimersOf(stat', timer_list')
      /\ ToSet(ThreadsOf(timer_list')) = IF limit > 0 THEN ToSet(ThreadsOf(timer_list)) \union {t}
                                         ELSE ToSet(ThreadsOf(timer_list)) \ {t}
      /\ error' = [error EXCEPT ![t] = "RT_EOK"]
      /\ \A o \in Object : t \notin ToSet(suspend_thread[o])
  BY <1>0, <1>1, <1>a, <1>b, SuspendFacts
<1>3. /\ Waiting(stat', suspend_thread')
      /\ \A o \in Object : ToSet(suspend_thread'[o]) =
            IF o = list THEN ToSet(suspend_thread[o]) \union {t} ELSE ToSet(suspend_thread[o])
  <2> DEFINE s == suspend_thread[list]
             r == Append(s, t)
  <2>1. s \in Seq(Thread) /\ IsInjective(s) /\ t \notin ToSet(s)
    BY <1>0, <1>2 DEF KernelInv, Waiting
  <2> HIDE DEF s
  <2>2. r \in Seq(Thread) /\ IsInjective(r) /\ ToSet(r) = ToSet(s) \union {t}
    BY <2>1, AppendKeeps
  <2>3. suspend_thread' = [suspend_thread EXCEPT ![list] = r]  BY <1>1 DEF s
  <2> HIDE DEF r
  <2> QED  BY <1>0, <1>2, <2>2, <2>3, JoinList DEF s
<1>4. /\ stat \in [Thread -> Stat] /\ KernelScalars /\ Wakeable(stat, timer_list, suspend_thread)
      /\ timer_list \in Seq(TimerRec) /\ IsInjective(ThreadsOf(timer_list)) /\ rt_tick \in Ticks
      /\ error \in [Thread -> {"RT_EOK", "RT_ETIMEOUT"}]
  BY <1>0 DEF KernelInv, Current, TimersOf, KernelScalars, Ticks
<1>5. KernelInv'
  <2>1. KernelScalars'  BY <1>1, <1>2, <1>4 DEF KernelScalars
  <2>2. Wakeable(stat', timer_list', suspend_thread')
    BY <1>2, <1>3, <1>4 DEF Wakeable
  <2> QED  BY <1>1, <1>2, <1>3, <2>1, <2>2 DEF KernelInv
<1>6. OnTime'
  <2>1. CASE limit > 0
    <3>1. limit \in 1..(Half - 1) /\ timer_list' = StartTimer(timer_list, t, limit)
      BY <2>1, <1>1, <1>b DEF SuspendSelf
    <3> QED  BY <3>1, <1>0, <1>1, <1>a, TimerStepKeeps DEF TimerStep
  <2>2. CASE ~ (limit > 0)
    <3>1. timer_list' = StopTimer(timer_list, t)  BY <2>2, <1>1 DEF SuspendSelf
    <3> QED  BY <3>1, <1>0, <1>1, TimerStepKeeps DEF TimerStep
  <2> QED  BY <2>1, <2>2
<1>7. \A u \in Thread : /\ stat'[u] = IF u = t THEN "SUSPEND" ELSE stat[u]
                        /\ error'[u] = IF u = t THEN "RT_EOK" ELSE error[u]
                        /\ pc'[u] = IF u = t THEN place ELSE pc[u]
                        /\ asked'[u] = IF u = t THEN a ELSE asked[u]
                        /\ timeout'[u] = IF u = t THEN limit ELSE timeout[u]
                        /\ u # t => tick_delta'[u] = tick_delta[u]
  BY <1>0, <1>1, <1>2, <1>4 DEF CallTypes
<1>8. CallTypes'
  <2>1. limit \in -1..(Half - 1)  BY <1>b
  <2>2. tick_delta' \in [Thread -> Ticks]  BY <1>0, <1>1, <1>4 DEF CallTypes
  <2> QED  BY <1>0, <1>1, <1>c, <2>1, <2>2 DEF CallTypes
<1>9. InCall'
  <2>1. pc'[Idle] = "run"  BY <1>0, <1>7, ThreadAssumption DEF InCall
  <2>2. pc'[rt_current_thread'] \in {"send_sched", "recv_sched", "sched"}  BY <1>1, <1>7, <1>a, <1>c
  <2>3. ASSUME NEW u \in Thread
        PROVE  /\ stat'[u] = "SUSPEND" =>
                     /\ pc'[u] \in SendPlaces \union RecvPlaces \union {"sched", "back"}
                     /\ error'[u] = "RT_EOK"
               /\ u \in ToSet(suspend_thread'[Receivers]) => pc'[u] \in RecvPlaces
               /\ u \in ToSet(suspend_thread'[Senders]) => pc'[u] \in SendPlaces
    <3>1. CASE u = t
      <4>1. u \in ToSet(suspend_thread'[Receivers]) => list = Receivers  BY <3>1, <1>2, <1>3, Lists
      <4>2. u \in ToSet(suspend_thread'[Senders]) => list = Senders  BY <3>1, <1>2, <1>3, Lists
      <4>3. list = Receivers => place \in RecvPlaces  BY Lists DEF RecvPlaces
      <4>4. list = Senders => place \in SendPlaces  BY Lists DEF SendPlaces
      <4> QED  BY <3>1, <4>1, <4>2, <4>3, <4>4, <1>7, <1>c
    <3>2. CASE u # t
      <4>1. \A o \in Object : u \in ToSet(suspend_thread'[o]) => u \in ToSet(suspend_thread[o])
        BY <3>2, <1>3
      <4> QED  BY <3>2, <4>1, <1>0, <1>7, Lists DEF InCall
    <3> QED  BY <3>1, <3>2
  <2> QED  BY <2>1, <2>2, <2>3 DEF InCall
<1>10. ASSUME NEW u \in Thread  PROVE Clocked(u)'
  <2>1. CASE u = t
    <3>1. asked'[u] = a /\ timeout'[u] = limit /\ waited'[u] = waited[t] /\ pc'[u] \in SendPlaces \union RecvPlaces
      BY <2>1, <1>1, <1>7, <1>c
    <3>2. CASE limit > 0
      <4>1. tick_delta'[u] = rt_tick  BY <2>1, <3>2, <1>0, <1>1 DEF CallTypes
      <4>2. Diff(rt_tick, rt_tick) = 0
        <5>1. Diff(rt_tick, rt_tick) = IF rt_tick >= rt_tick THEN rt_tick - rt_tick ELSE (rt_tick - rt_tick) + TickMod
          BY <1>4, DiffIs
        <5> QED  BY <5>1, <1>4 DEF Ticks
      <4>3. t \in ToSet(ThreadsOf(timer_list'))  BY <3>2, <1>2
      <4>4. limit \in 1..a /\ waited'[u] < Half /\ waited'[u] = (a - limit) + Diff(rt_tick', tick_delta'[u])
        BY <3>1, <3>2, <4>1, <4>2, <1>1, <1>b
      <4>5. a > 0 /\ a # 0 /\ ~ (a <= 0) /\ ~ (a < 0)  BY <4>4, <1>b
      <4> QED  BY <2>1, <3>1, <4>3, <4>4, <4>5 DEF Clocked
    <3>3. CASE limit < 0
      <4>1. limit = -1 /\ a = -1 /\ waited[t] = 0 /\ ~ (a > 0)  BY <3>3, <1>b
      <4> QED  BY <2>1, <3>1, <4>1 DEF Clocked
    <3> QED  BY <3>2, <3>3, <1>b
  <2>2. CASE u # t
    <3>1. Clocked(u)  BY <1>0
    <3>2. u \in ToSet(ThreadsOf(timer_list)) => u \in ToSet(ThreadsOf(timer_list'))  BY <2>2, <1>2
    <3> QED  BY <2>2, <3>1, <3>2, <1>1, <1>7 DEF Clocked
  <2> QED  BY <2>1, <2>2
<1>11. Deadline'
  <2> SUFFICES ASSUME NEW tm \in ToSet(timer_list'), asked'[tm.thread] > 0
               PROVE  waited'[tm.thread] + Diff(tm.at, rt_tick') = asked'[tm.thread]
    BY DEF Deadline
  <2>1. CASE limit > 0
    <3>1. timer_list' = StartTimer(timer_list, t, limit)  BY <2>1, <1>1 DEF SuspendSelf
    <3>2. rt_tick \in Int  BY <1>4 DEF Ticks
    <3>3. \/ tm \in ToSet(timer_list) /\ tm.thread # t
          \/ tm = [thread |-> t, at |-> (rt_tick + limit) % TickMod]
      BY <3>1, <3>2, <1>4, <1>b, TimersStarted
    <3>4. CASE tm \in ToSet(timer_list) /\ tm.thread # t
      <4>1. tm.thread \in Thread  BY <3>4, <1>4, TimerMember
      <4> QED  BY <3>4, <4>1, <1>0, <1>1, <1>7 DEF Deadline
    <3>5. CASE tm = [thread |-> t, at |-> (rt_tick + limit) % TickMod]
      <4>1. Diff(tm.at, rt_tick) = limit  BY <3>5, <2>1, <1>4, <1>b, StartedAt
      <4> QED  BY <3>5, <4>1, <2>1, <1>1, <1>7, <1>b
    <3> QED  BY <3>3, <3>4, <3>5
  <2>2. CASE ~ (limit > 0)
    <3>1. timer_list' = StopTimer(timer_list, t)  BY <2>2, <1>1 DEF SuspendSelf
    <3>2. tm \in ToSet(timer_list) /\ tm.thread # t  BY <3>1, <1>4, TimersLeft
    <3>3. tm.thread \in Thread  BY <3>2, <1>4, TimerMember
    <3> QED  BY <3>2, <3>3, <1>0, <1>1, <1>7 DEF Deadline
  <2> QED  BY <2>1, <2>2
<1> QED  BY <1>3, <1>5, <1>6, <1>7, <1>8, <1>9, <1>10, <1>11 DEF Control, Waits

\* What is left of the timeout, as the code computes it in the arithmetic of the
\* tick counter, is what the deadline leaves.
LEMMA RemainingIs ==
    ASSUME Control, NEW t \in Thread, pc[t] \in SendPlaces \union RecvPlaces
    PROVE  /\ asked[t] > 0 => Remaining(t) = IF waited[t] < asked[t] THEN asked[t] - waited[t] ELSE 0
           /\ asked[t] < 0 => Remaining(t) = -1
           /\ asked[t] \in -1..(Half - 1) /\ asked[t] # 0 /\ waited[t] \in 0..Half
           /\ asked[t] < 0 => waited[t] = 0
<1>0. Clocked(t) /\ CallTypes /\ rt_tick \in Ticks  BY DEF Control, KernelInv, KernelScalars, Ticks
<1>1. /\ asked[t] \in -1..(Half - 1) /\ asked[t] # 0 /\ waited[t] \in 0..Half
      /\ timeout[t] \in -1..(Half - 1) /\ tick_delta[t] \in Ticks
      /\ asked[t] < 0 => waited[t] = 0
  BY <1>0, HalfIs DEF Clocked, CallTypes
<1>2. ASSUME asked[t] < 0  PROVE Remaining(t) = -1
  <2>1. timeout[t] = -1  BY <1>0, <1>2 DEF Clocked
  <2>2. ~ (timeout[t] > 0)  BY <2>1
  <2> QED  BY <2>1, <2>2 DEF Remaining
<1>3. ASSUME asked[t] > 0
      PROVE  Remaining(t) = IF waited[t] < asked[t] THEN asked[t] - waited[t] ELSE 0
  <2> DEFINE e == Diff(rt_tick, tick_delta[t])
             lim == timeout[t]
             d == Diff(lim, e)
             signed == IF d > Half THEN d - TickMod ELSE d
  <2>1. lim \in 1..asked[t] /\ waited[t] < Half /\ waited[t] = (asked[t] - lim) + e
    BY <1>0, <1>3 DEF Clocked
  <2>2. e \in Ticks  BY <1>0, <1>1, DiffIs
  <2>3. Half \in Nat /\ 2 * Half <= TickMod - 1  BY HalfIs
  <2> HIDE DEF e
  <2>4. lim \in Ticks /\ lim \in Int /\ e \in Int /\ e < Half /\ lim < Half
    BY <2>1, <2>2, <2>3, <1>1, ThreadAssumption DEF Ticks
  <2> HIDE DEF lim
  <2>5. d = IF lim >= e THEN lim - e ELSE (lim - e) + TickMod  BY <2>2, <2>4, DiffIs
  <2> HIDE DEF d
  <2>6. CASE lim >= e
    <3>1. signed = lim - e  BY <2>2, <2>3, <2>4, <2>5, <2>6 DEF Ticks
    <3>2. (IF signed < 0 THEN 0 ELSE signed) = IF waited[t] < asked[t] THEN asked[t] - waited[t] ELSE 0
      BY <3>1, <2>1, <2>2, <2>4, <2>6, <1>1 DEF Ticks
    <3>3. lim > 0  BY <2>1, <2>4
    <3> QED  BY <3>2, <3>3 DEF Remaining, d, e, lim
  <2>7. CASE lim < e
    <3>1. signed = lim - e  BY <2>2, <2>3, <2>4, <2>5, <2>7, ThreadAssumption DEF Ticks
    <3>2. (IF signed < 0 THEN 0 ELSE signed) = IF waited[t] < asked[t] THEN asked[t] - waited[t] ELSE 0
      BY <3>1, <2>1, <2>2, <2>4, <2>7, <1>1 DEF Ticks
    <3>3. lim > 0  BY <2>1, <2>4
    <3> QED  BY <3>2, <3>3 DEF Remaining, d, e, lim
  <2> QED  BY <2>4, <2>6, <2>7
<1> QED  BY <1>1, <1>2, <1>3

\* The fields of the calls stay as they are and so does the time.
LEMMA SameClock ==
    ASSUME Control, UNCHANGED <<rt_tick, timeout, tick_delta, asked, waited>>,
           NEW u \in Thread, pc'[u] \in SendPlaces \union RecvPlaces <=> pc[u] \in SendPlaces \union RecvPlaces,
           asked[u] > 0 /\ stat'[u] = "SUSPEND" => u \in ToSet(ThreadsOf(timer_list'))
    PROVE  Clocked(u)'
<1>1. Clocked(u)  BY DEF Control
<1> QED  BY <1>1 DEF Clocked

LEMMA SameDeadline ==
    ASSUME Control, UNCHANGED <<rt_tick, asked, waited>>,
           \A tm \in ToSet(timer_list') : tm \in ToSet(timer_list)
    PROVE  Deadline'
  BY DEF Control, Deadline

\* rt_schedule at the end of a call's section.
LEMMA RescheduleControl ==
    ASSUME Control, NEW t \in Thread, Reschedule(t)
    PROVE  /\ Control'
           /\ \A u \in Thread : stat'[u] = "SUSPEND" <=> stat[u] = "SUSPEND"
           /\ \A u \in Thread : /\ pc'[u] \in RecvPlaces <=> pc[u] \in RecvPlaces
                                /\ pc'[u] \in SendPlaces <=> pc[u] \in SendPlaces
<1>0. KernelInv /\ OnTime /\ CallTypes /\ InCall /\ \A u \in Thread : Clocked(u)
  BY DEF Control
<1>1. /\ pc[t] \in {"send_sched", "recv_sched", "sched"} /\ CallSchedule(t)
      /\ UNCHANGED <<rt_tick, timer_list, suspend_thread, error, isr>>
      /\ UNCHANGED <<timeout, tick_delta, asked, waited>>
  BY DEF Reschedule, CallSchedule
<1> DEFINE place == CASE pc[t] = "send_sched" -> "send_back" [] pc[t] = "recv_sched" -> "recv_back"
                      [] OTHER -> "back"
<1>2. \A u \in Thread : pc'[u] = IF u = t THEN place ELSE pc[u]
  BY <1>0 DEF Reschedule, Goto, CallTypes
<1>3. /\ pc[t] = "send_sched" => place = "send_back"
      /\ pc[t] = "recv_sched" => place = "recv_back"
      /\ pc[t] = "sched" => place = "back"
  OBVIOUS
<1> HIDE DEF place
<1>4. /\ KernelInv' /\ HighestIn(stat', rt_current_thread')
      /\ \A u \in Thread : stat'[u] = "SUSPEND" <=> stat[u] = "SUSPEND"
  BY <1>0, <1>1, CallScheduleKeeps
<1>5. OnTime'  BY <1>0, <1>1 DEF OnTime
<1>6. /\ place \in Places
      /\ place \in RecvPlaces <=> pc[t] \in RecvPlaces
      /\ place \in SendPlaces <=> pc[t] \in SendPlaces
      /\ place \in SendPlaces \union RecvPlaces \union {"sched", "back"}
  BY <1>1, <1>3 DEF Places, SendPlaces, RecvPlaces
<1>7. \A u \in Thread : /\ pc'[u] \in RecvPlaces <=> pc[u] \in RecvPlaces
                        /\ pc'[u] \in SendPlaces <=> pc[u] \in SendPlaces
  BY <1>2, <1>6
<1>8. pc' \in [Thread -> Places]
  BY <1>0, <1>6 DEF CallTypes, Reschedule, Goto, place
<1>9. CallTypes'  BY <1>0, <1>1, <1>8 DEF CallTypes
<1>10. InCall'
  <2>1. t # Idle  BY <1>0, <1>1 DEF InCall
  <2>2. pc'[Idle] = "run"  BY <1>0, <1>2, <2>1, ThreadAssumption DEF InCall
  <2>3. stat'[rt_current_thread'] # "SUSPEND"  BY <1>4 DEF HighestIn
  <2>4. ASSUME NEW u \in Thread, stat'[u] = "SUSPEND"
        PROVE  /\ pc'[u] \in SendPlaces \union RecvPlaces \union {"sched", "back"}
               /\ error'[u] = "RT_EOK"
    BY <2>4, <1>0, <1>1, <1>2, <1>4, <1>6 DEF InCall
  <2>5. ASSUME NEW u \in Thread
        PROVE  /\ u \in ToSet(suspend_thread'[Receivers]) => pc'[u] \in RecvPlaces
               /\ u \in ToSet(suspend_thread'[Senders]) => pc'[u] \in SendPlaces
    BY <1>0, <1>1, <1>7 DEF InCall
  <2> QED  BY <2>2, <2>3, <2>4, <2>5 DEF InCall
<1>11. ASSUME NEW u \in Thread  PROVE Clocked(u)'
  <2>1. asked[u] > 0 /\ stat'[u] = "SUSPEND" => u \in ToSet(ThreadsOf(timer_list'))
    BY <1>0, <1>1, <1>4 DEF Clocked
  <2> QED  BY <2>1, <1>1, <1>7, SameClock
<1>12. Deadline'  BY <1>1, SameDeadline
<1> QED  BY <1>4, <1>5, <1>7, <1>9, <1>10, <1>11, <1>12 DEF Control

\* A waiting thread w is woken up by thread t, or by an interrupt; n is the
\* current thread afterwards.
LEMMA WakeControl ==
    ASSUME Control, NEW w \in Thread, stat[w] = "SUSPEND", KernelInv',
           \A u \in Thread : stat'[u] = "SUSPEND" <=> stat[u] = "SUSPEND" /\ u # w,
           \A o \in Object : ToSet(suspend_thread'[o]) = ToSet(suspend_thread[o]) \ {w},
           timer_list' = StopTimer(timer_list, w),
           UNCHANGED <<rt_tick, isr, error, timeout, tick_delta, asked, waited>>,
           \/ UNCHANGED pc /\ stat'[rt_current_thread'] # "SUSPEND"
           \/ \E t \in Thread : /\ t = rt_current_thread /\ pc[t] \in CopyPlaces
                                /\ Goto(t, "sched") /\ UNCHANGED rt_current_thread
    PROVE  Control'
<1>0. /\ KernelInv /\ OnTime /\ CallTypes /\ InCall /\ \A u \in Thread : Clocked(u)
      /\ timer_list \in Seq(TimerRec) /\ IsInjective(ThreadsOf(timer_list))
  BY DEF Control, KernelInv, TimersOf
<1>1. OnTime'  BY <1>0, TimerStepKeeps DEF TimerStep
<1>2. ToSet(ThreadsOf(timer_list')) = ToSet(ThreadsOf(timer_list)) \ {w}  BY <1>0, StopTimerKeeps
<1>3. \A tm \in ToSet(timer_list') : tm \in ToSet(timer_list)  BY <1>0, TimersLeft
<1>4. CASE UNCHANGED pc /\ stat'[rt_current_thread'] # "SUSPEND"
  <2>1. CallTypes'  BY <1>0, <1>4 DEF CallTypes
  <2>2. InCall'  BY <1>0, <1>4, Lists DEF InCall
  <2>3. ASSUME NEW u \in Thread  PROVE Clocked(u)'
    <3>1. asked[u] > 0 /\ stat'[u] = "SUSPEND" => u \in ToSet(ThreadsOf(timer_list'))
      BY <1>0, <1>2 DEF Clocked
    <3> QED  BY <3>1, <1>4, SameClock
  <2> QED  BY <1>1, <1>3, <2>1, <2>2, <2>3, SameDeadline DEF Control
<1>5. ASSUME NEW t \in Thread, t = rt_current_thread, pc[t] \in CopyPlaces, Goto(t, "sched"),
             UNCHANGED rt_current_thread
      PROVE  Control'
  <2>0. \A u \in Thread : pc'[u] = IF u = t THEN "sched" ELSE pc[u]
    BY <1>0, <1>5 DEF Goto, CallTypes
  <2>1. CallTypes'  BY <1>0, <1>5 DEF CallTypes, Goto, Places
  <2>2. pc[t] \notin SendPlaces \union RecvPlaces \union {"run", "sched"} /\ "sched" \notin SendPlaces \union RecvPlaces
    BY <1>5 DEF CopyPlaces, SendPlaces, RecvPlaces
  <2>3. InCall'
    <3>1. pc'[Idle] = "run"  BY <1>0, <2>0, <2>2, ThreadAssumption DEF InCall
    <3>2. pc'[rt_current_thread'] = "sched"  BY <1>5, <2>0
    <3>3. ASSUME NEW u \in Thread
          PROVE  /\ stat'[u] = "SUSPEND" =>
                       /\ pc'[u] \in SendPlaces \union RecvPlaces \union {"sched", "back"}
                       /\ error'[u] = "RT_EOK"
                 /\ u \in ToSet(suspend_thread'[Receivers]) => pc'[u] \in RecvPlaces
                 /\ u \in ToSet(suspend_thread'[Senders]) => pc'[u] \in SendPlaces
      BY <1>0, <2>0, <2>2, Lists DEF InCall
    <3> QED  BY <3>1, <3>2, <3>3 DEF InCall
  <2>4. ASSUME NEW u \in Thread  PROVE Clocked(u)'
    <3>1. asked[u] > 0 /\ stat'[u] = "SUSPEND" => u \in ToSet(ThreadsOf(timer_list'))
      BY <1>0, <1>2 DEF Clocked
    <3>2. pc'[u] \in SendPlaces \union RecvPlaces <=> pc[u] \in SendPlaces \union RecvPlaces
      BY <2>0, <2>2
    <3> QED  BY <3>1, <3>2, SameClock
  <2> QED  BY <1>1, <1>3, <2>1, <2>3, <2>4, SameDeadline DEF Control
<1> QED  BY <1>4, <1>5

\* The first thread of a list that is not empty is a suspended thread.
LEMMA FirstWaits ==
    ASSUME Control, NEW o \in Object, suspend_thread[o] # <<>>
    PROVE  LET w == Head(suspend_thread[o]) IN
           w \in Thread /\ w \in ToSet(suspend_thread[o]) /\ stat[w] = "SUSPEND"
<1>1. suspend_thread[o] \in Seq(Thread) /\ IsInjective(suspend_thread[o]) /\ Waiting(stat, suspend_thread)
  BY DEF Control, KernelInv, Waiting
<1>2. Head(suspend_thread[o]) \in ToSet(suspend_thread[o])  BY <1>1, TailKeeps
<1> QED  BY <1>1, <1>2, WaitingSuspended

\* rt_mq_send and rt_mq_recv wake up the first thread of a list.
LEMMA ThreadWakes ==
    ASSUME Control, NEW t \in Thread, Executes(t), pc[t] \in CopyPlaces, NEW o \in Object,
           suspend_thread[o] # <<>>, rt_thread_resume(Head(suspend_thread[o])), Goto(t, "sched"),
           UNCHANGED <<rt_tick, rt_current_thread, yield, lowered, remaining_tick,
                       current_priority, error, isr>>,
           UNCHANGED <<timeout, tick_delta, asked, waited>>
    PROVE  /\ Control'
           /\ \A u \in Thread : stat'[u] = "SUSPEND" <=> stat[u] = "SUSPEND" /\ u # Head(suspend_thread[o])
           /\ \A q \in Object : ToSet(suspend_thread'[q]) = ToSet(suspend_thread[q]) \ {Head(suspend_thread[o])}
<1> DEFINE w == Head(suspend_thread[o])
<1>1. w \in Thread /\ stat[w] = "SUSPEND"  BY FirstWaits
<1>2. rt_thread_resume(w)  OBVIOUS
<1> HIDE DEF w
<1>0. KernelInv  BY DEF Control
<1>3. /\ stat' = [stat EXCEPT ![w] = InsertStat(w)]
      /\ Current(stat', rt_current_thread)
      /\ Queued(stat', ready', current_priority)
      /\ Waiting(stat', suspend_thread') /\ TimersOf(stat', timer_list')
      /\ Wakeable(stat', timer_list', suspend_thread')
      /\ \A u \in Thread : stat'[u] = "SUSPEND" <=> stat[u] = "SUSPEND" /\ u # w
      /\ \A q \in Object : ToSet(suspend_thread'[q]) = ToSet(suspend_thread[q]) \ {w}
  BY <1>0, <1>1, <1>2, ResumeFacts
<1>4. KernelInv'
  <2>1. KernelScalars'  BY <1>0 DEF KernelInv, KernelScalars
  <2> QED  BY <1>3, <2>1 DEF KernelInv
<1>5. timer_list' = StopTimer(timer_list, w)  BY <1>2 DEF rt_thread_resume
<1>6. t = rt_current_thread  BY DEF Executes
<1>7. Control'  BY <1>1, <1>3, <1>4, <1>5, <1>6, WakeControl
<1> QED  BY <1>3, <1>7 DEF w

\* rt_mq_send in an interrupt wakes up the first receiver.
LEMMA InterruptWakes ==
    ASSUME Control, suspend_thread[Receivers] # <<>>, NEW r, r = Head(suspend_thread[Receivers]),
           suspend_thread' = [o \in Object |-> RemoveFirst(suspend_thread[o], r)],
           timer_list' = StopTimer(timer_list, r),
           rt_schedule([stat EXCEPT ![r] = InsertStat(r)], InsertThread(r), yield),
           UNCHANGED <<rt_tick, remaining_tick, current_priority, error, isr>>, UNCHANGED callVars
    PROVE  /\ Control'
           /\ \A u \in Thread : stat'[u] = "SUSPEND" <=> stat[u] = "SUSPEND" /\ u # r
           /\ \A o \in Object : ToSet(suspend_thread'[o]) = ToSet(suspend_thread[o]) \ {r}
<1> DEFINE s1 == [stat EXCEPT ![r] = InsertStat(r)]
<1>0. /\ KernelInv /\ KernelScalars /\ Waiting(stat, suspend_thread) /\ stat \in [Thread -> Stat]
      /\ timer_list \in Seq(TimerRec) /\ IsInjective(ThreadsOf(timer_list))
      /\ \A u \in ToSet(ThreadsOf(timer_list)) : stat[u] = "SUSPEND"
      /\ Wakeable(stat, timer_list, suspend_thread)
  BY DEF Control, KernelInv, Current, TimersOf
<1>1. r \in Thread /\ stat[r] = "SUSPEND"  BY Lists, FirstWaits
<1>2. Queued(s1, InsertThread(r), current_priority) /\ Current(s1, rt_current_thread)
  BY <1>0, <1>1, InsertThreadQueued
<1>3. \A u \in Thread : s1[u] = "SUSPEND" <=> stat[u] = "SUSPEND" /\ u # r
  BY <1>0, <1>1 DEF InsertStat
<1>4. /\ Waiting(s1, suspend_thread')
      /\ \A o \in Object : ToSet(suspend_thread'[o]) = ToSet(suspend_thread[o]) \ {r}
  BY <1>0, <1>1, LeftLists
<1>5. /\ timer_list' \in Seq(TimerRec) /\ IsInjective(ThreadsOf(timer_list'))
      /\ ToSet(ThreadsOf(timer_list')) = ToSet(ThreadsOf(timer_list)) \ {r}
  BY <1>0, StopTimerKeeps
<1>6. \A u \in ToSet(ThreadsOf(timer_list)) : u \in Thread
  BY <1>0, ThreadsOfSeq, LenProperties, ElementOfSeq DEF ToSet
<1>7. TimersOf(s1, timer_list')  BY <1>0, <1>3, <1>5, <1>6 DEF TimersOf
<1>8. Wakeable(s1, timer_list', suspend_thread')  BY <1>0, <1>3, <1>4, <1>5 DEF Wakeable
<1> HIDE DEF s1
<1>9. /\ Queued(stat', ready', current_priority)
      /\ Current(stat', rt_current_thread') /\ stat'[rt_current_thread'] = "RUNNING"
      /\ \A u \in Thread : stat'[u] = "SUSPEND" <=> s1[u] = "SUSPEND"
      /\ yield' \in SUBSET Thread /\ lowered' = FALSE
  <2>1. yield \in SUBSET Thread /\ current_priority \in [Thread -> Prio]
    BY <1>0 DEF KernelScalars
  <2>2. rt_schedule(s1, InsertThread(r), yield)  BY DEF s1
  <2> QED  BY <1>2, <2>1, <2>2, ScheduleFacts
<1>10. /\ Waiting(stat', suspend_thread') /\ TimersOf(stat', timer_list')
       /\ Wakeable(stat', timer_list', suspend_thread')
  BY <1>4, <1>7, <1>8, <1>9, SameSuspended
<1>11. KernelInv'
  <2>1. KernelScalars'  BY <1>0, <1>9 DEF KernelScalars
  <2> QED  BY <1>9, <1>10, <2>1 DEF KernelInv
<1>12. \A u \in Thread : stat'[u] = "SUSPEND" <=> stat[u] = "SUSPEND" /\ u # r
  BY <1>3, <1>9
<1>13. UNCHANGED <<timeout, tick_delta, asked, waited>> /\ UNCHANGED pc /\ stat'[rt_current_thread'] # "SUSPEND"
  BY <1>9 DEF callVars
<1>14. Control'  BY <1>1, <1>4, <1>11, <1>12, <1>13, WakeControl
<1> QED  BY <1>4, <1>12, <1>14

\* The call returns.
LEMMA ReturnControl ==
    ASSUME Control, NEW t \in Thread, Return(t)
    PROVE  Control'
<1>0. KernelInv /\ OnTime /\ CallTypes /\ InCall /\ Deadline /\ \A u \in Thread : Clocked(u)
  BY DEF Control
<1>1. /\ Executes(t) /\ pc[t] \in {"back", "send_back", "recv_back"}
      /\ Goto(t, "run") /\ WaitOver(t) /\ error' = [error EXCEPT ![t] = "RT_EOK"]
      /\ UNCHANGED <<rt_tick, rt_current_thread, stat, yield, ready, lowered, remaining_tick>>
      /\ UNCHANGED <<current_priority, timer_list, suspend_thread, isr>>
  BY DEF Return, Ended, schedVars
<1>2. KernelInv' /\ OnTime'
  <2>1. KernelScalars'  BY <1>0, <1>1 DEF KernelInv, KernelScalars
  <2> QED  BY <1>0, <1>1, <2>1 DEF KernelInv, OnTime
<1>3. t = rt_current_thread /\ stat[t] = "RUNNING" /\ \A o \in Object : t \notin ToSet(suspend_thread[o])
  BY <1>1, Awake
<1>4. /\ \A u \in Thread : pc'[u] = IF u = t THEN "run" ELSE pc[u]
      /\ \A u \in Thread : error'[u] = IF u = t THEN "RT_EOK" ELSE error[u]
      /\ \A u \in Thread : asked'[u] = IF u = t THEN 0 ELSE asked[u]
      /\ \A u \in Thread : waited'[u] = IF u = t THEN 0 ELSE waited[u]
      /\ \A u \in Thread \ {t} : timeout'[u] = timeout[u] /\ tick_delta'[u] = tick_delta[u]
  BY <1>0, <1>1 DEF Goto, WaitOver, CallTypes, KernelInv, KernelScalars
<1>5. CallTypes'
  BY <1>0, <1>1, HalfIs, ThreadAssumption DEF CallTypes, Goto, WaitOver, Places, Ticks
<1>6. InCall'
  BY <1>0, <1>1, <1>3, <1>4, Lists, ThreadAssumption DEF InCall
<1>7. ASSUME NEW u \in Thread  PROVE Clocked(u)'
  <2>1. CASE u = t  BY <2>1, <1>4 DEF Clocked, SendPlaces, RecvPlaces
  <2>2. CASE u # t
    <3>1. Clocked(u)  BY <1>0
    <3> QED  BY <2>2, <3>1, <1>1, <1>4 DEF Clocked
  <2> QED  BY <2>1, <2>2
<1>8. Deadline'
  <2> SUFFICES ASSUME NEW tm \in ToSet(timer_list), asked'[tm.thread] > 0
               PROVE  waited'[tm.thread] + Diff(tm.at, rt_tick) = asked'[tm.thread]
    BY <1>1 DEF Deadline
  <2>1. tm.thread \in Thread  BY <1>0, TimerMember DEF KernelInv, TimersOf
  <2>2. tm.thread # t  BY <2>1, <1>4
  <2> QED  BY <2>1, <2>2, <1>0, <1>4 DEF Deadline
<1> QED  BY <1>2, <1>5, <1>6, <1>7, <1>8 DEF Control

\* rt_thread_sleep.
LEMMA SleepControl ==
    ASSUME Control, NEW t \in Thread, NEW delay \in Timeout, MqSleep(t, delay)
    PROVE  /\ Control'
           /\ \A u \in Thread : /\ stat'[u] = IF u = t THEN "SUSPEND" ELSE stat[u]
                                /\ error'[u] = IF u = t THEN "RT_EOK" ELSE error[u]
                                /\ pc'[u] = IF u = t THEN "sched" ELSE pc[u]
<1>0. /\ KernelInv /\ OnTime /\ CallTypes /\ InCall /\ Deadline /\ \A u \in Thread : Clocked(u)
      /\ timer_list \in Seq(TimerRec) /\ IsInjective(ThreadsOf(timer_list)) /\ rt_tick \in Int
  BY DEF Control, KernelInv, TimersOf, KernelScalars
<1>1. /\ Executes(t) /\ pc[t] = "run" /\ t # Idle /\ Sleep(t, delay) /\ SuspendSelf(t, delay)
      /\ UNCHANGED <<timeout, tick_delta, asked, waited>> /\ pc' = [pc EXCEPT ![t] = "sched"]
      /\ UNCHANGED <<rt_tick, rt_current_thread, suspend_thread, isr>>
  BY DEF MqSleep, Free, Sleep, Goto
<1>2. /\ t = rt_current_thread /\ ~ isr /\ stat[t] = "RUNNING"
      /\ \A o \in Object : t \notin ToSet(suspend_thread[o])
  BY <1>1, Awake
<1>3. /\ KernelInv' /\ stat' = [stat EXCEPT ![t] = "SUSPEND"] /\ error' = [error EXCEPT ![t] = "RT_EOK"]
  BY <1>0, <1>1, <1>2, SleepKeeps
<1>4. \A u \in Thread : /\ stat'[u] = IF u = t THEN "SUSPEND" ELSE stat[u]
                        /\ error'[u] = IF u = t THEN "RT_EOK" ELSE error[u]
                        /\ pc'[u] = IF u = t THEN "sched" ELSE pc[u]
  BY <1>0, <1>1, <1>3 DEF CallTypes, KernelInv, KernelScalars, Current
<1>5. delay \in 1..(Half - 1) /\ delay \in Int /\ delay > 0  BY ThreadAssumption, HalfIs
<1>6. timer_list' = StartTimer(timer_list, t, delay)  BY <1>1, <1>5 DEF SuspendSelf
<1>7. OnTime'  BY <1>0, <1>1, <1>2, <1>5, <1>6, TimerStepKeeps DEF TimerStep
<1>8. ToSet(ThreadsOf(timer_list')) = ToSet(ThreadsOf(timer_list)) \union {t}
  BY <1>0, <1>5, <1>6, StartTimerKeeps
<1>9. CallTypes'  BY <1>0, <1>1 DEF CallTypes, Places
<1>10. InCall'
  <2>1. pc'[Idle] = "run"  BY <1>0, <1>1, <1>4, ThreadAssumption DEF InCall
  <2>2. pc'[rt_current_thread'] = "sched"  BY <1>1, <1>2, <1>4
  <2> QED  BY <1>0, <1>1, <1>2, <1>4, <2>1, <2>2, Lists DEF InCall
<1>a. asked[t] = 0
  BY <1>0, <1>1 DEF Clocked, SendPlaces, RecvPlaces
<1>11. ASSUME NEW u \in Thread  PROVE Clocked(u)'
  <2>1. asked[u] > 0 /\ stat'[u] = "SUSPEND" => u \in ToSet(ThreadsOf(timer_list'))
    BY <1>0, <1>4, <1>8, <1>a DEF Clocked
  <2>2. pc'[u] \in SendPlaces \union RecvPlaces <=> pc[u] \in SendPlaces \union RecvPlaces
    BY <1>1, <1>4 DEF SendPlaces, RecvPlaces
  <2> QED  BY <2>1, <2>2, <1>1, SameClock
<1>12. Deadline'
  <2> SUFFICES ASSUME NEW tm \in ToSet(timer_list'), asked[tm.thread] > 0
               PROVE  waited[tm.thread] + Diff(tm.at, rt_tick) = asked[tm.thread]
    BY <1>1 DEF Deadline
  <2>1. \/ tm \in ToSet(timer_list) /\ tm.thread # t
        \/ tm = [thread |-> t, at |-> (rt_tick + delay) % TickMod]
    BY <1>0, <1>5, <1>6, TimersStarted
  <2>2. tm.thread # t  BY <1>a
  <2>3. tm \in ToSet(timer_list)  BY <2>1, <2>2
  <2> QED  BY <2>3, <1>0 DEF Deadline
<1> QED  BY <1>3, <1>4, <1>7, <1>9, <1>10, <1>11, <1>12 DEF Control

\* A timer that expires leaves the list.
LEMMA TimerGone ==
    ASSUME KernelInv, TimerExpires
    PROVE  LET t == Head(timer_list).thread IN
           /\ t \in Thread /\ stat[t] = "SUSPEND" /\ error'[t] = "RT_ETIMEOUT"
           /\ ToSet(ThreadsOf(timer_list')) = ToSet(ThreadsOf(timer_list)) \ {t}
           /\ \A tm \in ToSet(timer_list') : tm \in ToSet(timer_list)
<1> DEFINE t == Head(timer_list).thread
           th == ThreadsOf(timer_list)
<1>0. /\ timer_list # <<>> /\ timer_list' = Tail(timer_list)
      /\ error' = [error EXCEPT ![t] = "RT_ETIMEOUT"]
  BY DEF TimerExpires, Expired
<1>1. /\ timer_list \in Seq(TimerRec) /\ IsInjective(th) /\ error \in [Thread -> {"RT_EOK", "RT_ETIMEOUT"}]
      /\ \A u \in ToSet(th) : stat[u] = "SUSPEND"
  BY DEF KernelInv, TimersOf, KernelScalars
<1>2. /\ timer_list' = RemoveAt(timer_list, 1) /\ 1 \in 1..Len(timer_list)
      /\ timer_list[1] = Head(timer_list)
  BY <1>0, <1>1, TailIsRemoveAt
<1>3. th \in Seq(Thread) /\ Len(th) = Len(timer_list) /\ th[1] = t  BY <1>1, <1>2, ThreadsOfSeq
<1>4. ThreadsOf(timer_list') = RemoveAt(th, 1)  BY <1>1, <1>2, ThreadsOfRemove
<1>5. t \in Thread /\ t \in ToSet(th)
  <2>1. 1 \in DOMAIN th  BY <1>2, <1>3, LenProperties
  <2> QED  BY <1>2, <1>3, <2>1, ElementOfSeq DEF ToSet
<1>6. ToSet(RemoveAt(th, 1)) = ToSet(th) \ {t}
  <2>1. 1 \in 1..Len(th)  BY <1>2, <1>3
  <2> HIDE DEF th, t
  <2> QED  BY <1>1, <1>3, <2>1, RemoveAtKeeps, SMTT(30)
<1>7. ASSUME NEW tm \in ToSet(timer_list')  PROVE tm \in ToSet(timer_list)
  <2>1. PICK j \in DOMAIN timer_list' : tm = timer_list'[j]  BY <1>7 DEF ToSet
  <2>2. Len(timer_list) \in Nat /\ DOMAIN timer_list = 1..Len(timer_list)  BY <1>1, LenProperties
  <2>3. /\ timer_list' \in Seq(TimerRec) /\ Len(timer_list') = Len(timer_list) - 1
        /\ \A i \in 1..(Len(timer_list) - 1) :
              timer_list'[i] = IF i < 1 THEN timer_list[i] ELSE timer_list[i + 1]
    BY <1>1, <1>2, RemoveAtFacts
  <2>4. j \in 1..(Len(timer_list) - 1)  BY <2>1, <2>3, LenProperties
  <2>5. tm = timer_list[j + 1] /\ j + 1 \in DOMAIN timer_list  BY <2>1, <2>2, <2>3, <2>4
  <2> QED  BY <2>5 DEF ToSet
<1>8. stat[t] = "SUSPEND" /\ error'[t] = "RT_ETIMEOUT"  BY <1>0, <1>1, <1>5
<1> QED  BY <1>4, <1>5, <1>6, <1>7, <1>8

\* The time since a tick grows by one with the counter, for less than half a turn.
LEMMA SinceAfterTick ==
    ASSUME NEW a \in Ticks, NEW now \in Ticks, Diff(now, a) < Half
    PROVE  Diff((now + 1) % TickMod, a) = Diff(now, a) + 1
<1> DEFINE n1 == (now + 1) % TickMod
<1>0. Half \in Nat /\ 2 * Half <= TickMod - 1  BY HalfIs
<1>1. n1 = (IF now + 1 < TickMod THEN now + 1 ELSE (now + 1) - TickMod) /\ n1 \in Ticks
  <2>1. 1 \in Ticks  BY ThreadAssumption DEF Ticks
  <2> QED  BY <2>1, SumIs
<1> HIDE DEF n1
<1>2. Diff(now, a) = IF now >= a THEN now - a ELSE (now - a) + TickMod  BY DiffIs
<1>3. Diff(n1, a) = IF n1 >= a THEN n1 - a ELSE (n1 - a) + TickMod  BY <1>1, DiffIs
<1>4. Diff(n1, a) = Diff(now, a) + 1  BY <1>0, <1>1, <1>2, <1>3, ThreadAssumption DEF Ticks
<1> QED  BY <1>4 DEF n1

\* The tick interrupt.  A thread with a deadline is waiting, or was woken up and
\* has been given the processor before half a turn of the counter was over.
LEMMA TickControl ==
    ASSUME Control, Tick
    PROVE  /\ Control' /\ UNCHANGED pc
           /\ \A u \in Thread :
                 /\ stat'[u] = "SUSPEND" => stat[u] = "SUSPEND"
                 /\ IF stat[u] = "SUSPEND" /\ stat'[u] # "SUSPEND"
                    THEN error'[u] = "RT_ETIMEOUT" ELSE error'[u] = error[u]
           /\ \A o \in Object : ToSet(suspend_thread'[o]) \subseteq ToSet(suspend_thread[o])
<1>0. /\ KernelInv /\ OnTime /\ CallTypes /\ InCall /\ Deadline /\ (\A u \in Thread : Clocked(u))
      /\ timer_list \in Seq(TimerRec) /\ rt_tick \in Ticks
  BY DEF Control, KernelInv, TimersOf, KernelScalars, Ticks
<1>1. SysTick /\ UNCHANGED <<pc, timeout, tick_delta, asked>>
  BY DEF Tick, SysTick
<1>2. KernelInv' /\ TickFrame /\ OnTime'
  BY <1>0, <1>1, SysTickKeeps, TimerStepKeeps DEF TimerStep
<1>3. \A u \in Thread :
         /\ stat'[u] = "SUSPEND" => stat[u] = "SUSPEND"
         /\ IF stat[u] = "SUSPEND" /\ stat'[u] # "SUSPEND"
            THEN error'[u] = "RT_ETIMEOUT" ELSE error'[u] = error[u]
         /\ \A o \in Object : u \in ToSet(suspend_thread'[o]) => u \in ToSet(suspend_thread[o])
  BY <1>2 DEF TickFrame
<1>4. \A o \in Object : ToSet(suspend_thread'[o]) \subseteq ToSet(suspend_thread[o])
  <2>1. \A o \in Object : \A u \in ToSet(suspend_thread'[o]) : u \in Thread
    BY <1>2, WaitingSuspended DEF KernelInv
  <2> QED  BY <2>1, <1>3
<1>5. InCall'
  <2>1. stat'[rt_current_thread'] = "SUSPEND" =>
           pc'[rt_current_thread'] \in {"send_sched", "recv_sched", "sched"}
    BY <1>0, <1>1, <1>2 DEF TickFrame, schedVars, HighestIn, InCall
  <2> QED  BY <1>0, <1>1, <1>3, <2>1, Lists DEF InCall
<1>6. /\ CallTypes' /\ Deadline' /\ \A u \in Thread : Clocked(u)'
  <2>1. CASE rt_tick_increase /\ NotStarved /\ Clock
    <3>1. /\ ~ isr /\ rt_tick' = (rt_tick + 1) % TickMod /\ timer_list' = timer_list
      BY <2>1 DEF rt_tick_increase
    <3>2. Due(timer_list, rt_tick, 1) /\ Half \in Nat  BY <1>0, <3>1, HalfIs DEF OnTime
    <3>3. waited' = [u \in Thread |-> IF asked[u] > 0 /\ waited[u] < Half THEN waited[u] + 1 ELSE waited[u]]
      BY <2>1 DEF Clock
    <3>4. \A tm \in ToSet(timer_list) :
             /\ tm.thread \in Thread /\ Diff(tm.at, rt_tick) \in 1..(Half - 1)
             /\ Diff(tm.at, rt_tick') = Diff(tm.at, rt_tick) - 1
      <4> TAKE tm \in ToSet(timer_list)
      <4>1. PICK k \in 1..Len(timer_list) : tm = timer_list[k]  BY <1>0, LenProperties DEF ToSet
      <4>2. tm.thread \in Thread /\ tm.at \in Ticks  BY <4>1, <1>0, TimerAt
      <4>3. Diff(tm.at, rt_tick) \in 1..(Half - 1)  BY <4>1, <3>2 DEF Due
      <4>4. Diff(tm.at, rt_tick') = Diff(tm.at, rt_tick) - 1
        BY <4>2, <4>3, <1>0, <3>1, <3>2, DiffAfterTick
      <4> QED  BY <4>2, <4>3, <4>4
    <3>5. ASSUME NEW u \in Thread, asked[u] > 0
          PROVE  waited[u] < Half - 1 /\ waited'[u] = waited[u] + 1
      <4>0. waited[u] \in 0..Half /\ asked[u] \in -1..(Half - 1)  BY <1>0 DEF CallTypes
      <4>1. CASE stat[u] # "SUSPEND"
        <5>1. waited[u] < Half - 1  BY <2>1, <3>5, <4>1 DEF NotStarved
        <5> QED  BY <5>1, <4>0, <3>2, <3>3, <3>5
      <4>2. CASE stat[u] = "SUSPEND"
        <5>1. u \in ToSet(ThreadsOf(timer_list))  BY <1>0, <3>5, <4>2 DEF Clocked
        <5>2. PICK k \in 1..Len(timer_list) : timer_list[k].thread = u
          <6>1. /\ ThreadsOf(timer_list) \in Seq(Thread) /\ Len(ThreadsOf(timer_list)) = Len(timer_list)
                /\ \A k \in 1..Len(timer_list) : ThreadsOf(timer_list)[k] = timer_list[k].thread
            BY <1>0, ThreadsOfSeq
          <6>2. DOMAIN ThreadsOf(timer_list) = 1..Len(timer_list)  BY <6>1, LenProperties
          <6> QED  BY <5>1, <6>1, <6>2 DEF ToSet
        <5>3. timer_list[k] \in ToSet(timer_list)  BY <5>2, <1>0, LenProperties DEF ToSet
        <5>4. /\ waited[u] + Diff(timer_list[k].at, rt_tick) = asked[u]
              /\ Diff(timer_list[k].at, rt_tick) \in 1..(Half - 1)
          BY <5>2, <5>3, <1>0, <3>4, <3>5 DEF Deadline
        <5>5. waited[u] < Half - 1  BY <5>4, <4>0, <3>2
        <5> QED  BY <5>5, <4>0, <3>2, <3>3, <3>5
      <4> QED  BY <4>1, <4>2
    <3>6. ASSUME NEW u \in Thread, ~ (asked[u] > 0)  PROVE waited'[u] = waited[u]
      BY <3>3, <3>6
    <3>7. CallTypes'
      <4>1. ASSUME NEW u \in Thread  PROVE waited'[u] \in 0..Half
        <5>0. waited[u] \in 0..Half  BY <1>0 DEF CallTypes
        <5>1. CASE asked[u] > 0  BY <5>0, <5>1, <3>2, <3>5
        <5>2. CASE ~ (asked[u] > 0)  BY <5>0, <5>2, <3>6
        <5> QED  BY <5>1, <5>2
      <4>2. waited' \in [Thread -> 0..Half]  BY <3>3, <4>1
      <4> QED  BY <1>0, <1>1, <4>2 DEF CallTypes
    <3>8. Deadline'
      <4> SUFFICES ASSUME NEW tm \in ToSet(timer_list), asked[tm.thread] > 0
                   PROVE  waited'[tm.thread] + Diff(tm.at, rt_tick') = asked[tm.thread]
        BY <1>1, <3>1 DEF Deadline
      <4>1. tm.thread \in Thread /\ waited'[tm.thread] = waited[tm.thread] + 1  BY <3>4, <3>5
      <4>2. /\ waited[tm.thread] + Diff(tm.at, rt_tick) = asked[tm.thread]
            /\ Diff(tm.at, rt_tick) \in 1..(Half - 1) /\ Diff(tm.at, rt_tick') = Diff(tm.at, rt_tick) - 1
        BY <1>0, <3>4 DEF Deadline
      <4>3. waited[tm.thread] \in Int  BY <4>1, <1>0 DEF CallTypes
      <4> QED  BY <4>1, <4>2, <4>3, <3>2
    <3>9. ASSUME NEW u \in Thread  PROVE Clocked(u)'
      <4>0. Clocked(u) /\ waited[u] \in 0..Half /\ asked[u] \in -1..(Half - 1) /\ tick_delta[u] \in Ticks
        BY <1>0 DEF CallTypes
      <4>1. CASE ~ (asked[u] > 0)
        BY <4>0, <4>1, <1>1, <3>6 DEF Clocked
      <4>2. CASE asked[u] > 0
        <5> DEFINE e == Diff(rt_tick, tick_delta[u])
                   e1 == Diff(rt_tick', tick_delta[u])
        <5>1. /\ timeout[u] \in 1..asked[u] /\ waited[u] < Half
              /\ waited[u] = (asked[u] - timeout[u]) + e
              /\ stat[u] = "SUSPEND" => u \in ToSet(ThreadsOf(timer_list))
              /\ pc[u] \in SendPlaces \union RecvPlaces
          BY <4>0, <4>2 DEF Clocked
        <5>2. waited[u] < Half - 1 /\ waited'[u] = waited[u] + 1  BY <4>2, <3>5
        <5>3. e \in Ticks  BY <1>0, <4>0, DiffIs
        <5>6. e < Half  BY <5>1, <5>3, <4>0, <3>2, HalfIs DEF Ticks
        <5>7. e1 = e + 1  BY <5>6, <4>0, <1>0, <3>1, SinceAfterTick
        <5> HIDE DEF e, e1
        <5>8. waited'[u] = (asked[u] - timeout[u]) + e1 /\ waited'[u] < Half
          BY <5>1, <5>2, <5>3, <5>7, <4>0, <3>2 DEF Ticks
        <5>9. ~ (asked[u] <= 0) /\ ~ (asked[u] < 0) /\ asked[u] # 0  BY <4>2, <4>0
        <5> QED  BY <5>1, <5>8, <5>9, <1>1, <1>3, <3>1 DEF Clocked, e1
      <4> QED  BY <4>1, <4>2
    <3> QED  BY <3>7, <3>8, <3>9
  <2>2. CASE TimerExpires /\ UNCHANGED waited
    <3>0. rt_tick' = rt_tick  BY <2>2 DEF TimerExpires
    <3>1. PICK t \in Thread :
             /\ stat[t] = "SUSPEND" /\ error'[t] = "RT_ETIMEOUT"
             /\ ToSet(ThreadsOf(timer_list')) = ToSet(ThreadsOf(timer_list)) \ {t}
             /\ \A tm \in ToSet(timer_list') : tm \in ToSet(timer_list)
      BY <1>0, <2>2, TimerGone
    <3>2. stat'[t] # "SUSPEND"  BY <1>0, <1>3, <3>1 DEF InCall
    <3>3. CallTypes'  BY <1>0, <1>1, <2>2 DEF CallTypes
    <3>4. Deadline'  BY <1>1, <2>2, <3>0, <3>1, SameDeadline
    <3>5. ASSUME NEW u \in Thread  PROVE Clocked(u)'
      <4>1. asked[u] > 0 /\ stat'[u] = "SUSPEND" => u \in ToSet(ThreadsOf(timer_list'))
        BY <1>0, <1>3, <3>1, <3>2 DEF Clocked
      <4> QED  BY <4>1, <1>1, <2>2, <3>0, SameClock
    <3> QED  BY <3>3, <3>4, <3>5
  <2>3. CASE TimerCheckEnds /\ UNCHANGED waited
    <3>0. UNCHANGED <<rt_tick, timer_list>>  BY <2>3 DEF TimerCheckEnds
    <3>3. CallTypes'  BY <1>0, <1>1, <2>3 DEF CallTypes
    <3>4. Deadline'  BY <1>1, <2>3, <3>0, SameDeadline
    <3>5. ASSUME NEW u \in Thread  PROVE Clocked(u)'
      <4>1. asked[u] > 0 /\ stat'[u] = "SUSPEND" => u \in ToSet(ThreadsOf(timer_list'))
        BY <1>0, <1>3, <3>0 DEF Clocked
      <4> QED  BY <4>1, <1>1, <2>3, <3>0, SameClock
    <3> QED  BY <3>3, <3>4, <3>5
  <2> QED  BY <2>1, <2>2, <2>3 DEF Tick
<1> QED  BY <1>1, <1>2, <1>3, <1>4, <1>5, <1>6 DEF Control

\* The sections in which a call asks for the first time.
LEMMA BeginsControl ==
    ASSUME Control, NEW t \in Thread, NEW limit \in Timeout \union {RT_WAITING_FOREVER}, Free(t),
           NEW list \in Object, NEW place, place = IF list = Senders THEN "send_sched" ELSE "recv_sched",
           WaitIn(t, list, limit, place), asked' = [asked EXCEPT ![t] = limit]
    PROVE  Control' /\ Waits(t, list, place)
<1>1. Executes(t) /\ t # Idle /\ pc[t] = "run"  BY DEF Free
<1>2. limit \in {-1} \union 1..(Half - 1)  BY ThreadAssumption DEF RT_WAITING_FOREVER
<1>3. Half \in Nat /\ Half >= 1  BY HalfIs
<1>4. limit \in -1..(Half - 1) /\ limit \in Int  BY <1>2, <1>3
<1>5. asked[t] = 0  BY <1>1 DEF Control, Clocked, SendPlaces, RecvPlaces
<1>6. waited[t] = 0  BY <1>5 DEF Control, Clocked
<1>7. limit > 0 => limit >= limit /\ waited[t] = limit - limit  BY <1>4, <1>6
<1>8. limit < 0 => limit = -1 /\ waited[t] = 0  BY <1>2, <1>3, <1>6
<1> QED  BY <1>1, <1>2, <1>4, <1>7, <1>8, WaitControl

\* The sections in which a call has been woken up and asks again.
LEMMA RetriesControl ==
    ASSUME Control, NEW t \in Thread, Executes(t), pc[t] \in {"send_back", "recv_back"},
           Remaining(t) # 0, UNCHANGED asked,
           NEW list \in Object, NEW place, place = IF list = Senders THEN "send_sched" ELSE "recv_sched",
           WaitIn(t, list, Remaining(t), place)
    PROVE  Control' /\ Waits(t, list, place)
<1>p. PICK a, limit : a = asked[t] /\ limit = Remaining(t)  OBVIOUS
<1>0. t # Idle  BY DEF Control, InCall
<1>1. pc[t] \in SendPlaces \union RecvPlaces  BY DEF SendPlaces, RecvPlaces
<1>2. /\ a > 0 => limit = IF waited[t] < a THEN a - waited[t] ELSE 0
      /\ a < 0 => limit = -1
      /\ a \in -1..(Half - 1) /\ a # 0 /\ waited[t] \in 0..Half
      /\ a < 0 => waited[t] = 0
  BY <1>1, <1>p, RemainingIs
<1>3. limit # 0 /\ WaitIn(t, list, limit, place)  BY <1>p
<1>4. asked' = [asked EXCEPT ![t] = a]  BY <1>p DEF Control, CallTypes
<1>5. Half \in Nat /\ Half >= 1  BY HalfIs
<1>6. pc[t] \notin {"send_sched", "recv_sched", "sched"}  OBVIOUS
<1>7. /\ limit \in {-1} \union 1..(Half - 1)
      /\ limit > 0 => a >= limit /\ waited[t] = a - limit
      /\ limit < 0 => a = -1 /\ waited[t] = 0
  <2>1. CASE a > 0  BY <1>2, <1>3, <1>5, <2>1
  <2>2. CASE a < 0  BY <1>2, <1>5, <2>2
  <2> QED  BY <1>2, <1>5, <2>1, <2>2
<1>8. a \in -1..(Half - 1)  BY <1>2
<1> QED  BY <1>0, <1>3, <1>4, <1>6, <1>7, <1>8, WaitControl, ZenonT(180)

LEMMA ControlNext == Control /\ [Next]_vars => Control'
<1> SUFFICES ASSUME Control, [Next]_vars
             PROVE  Control'
  OBVIOUS
<1>1. CASE Tick  BY <1>1, TickControl
<1>2. CASE SendFromInterrupt
  <2>1. CASE UNCHANGED kernelVars
    <3>1. UNCHANGED <<rt_tick, rt_current_thread, stat, timer_list, suspend_thread, error, isr>>
      BY <2>1 DEF kernelVars, schedVars
    <3>2. UNCHANGED <<pc, timeout, tick_delta, asked, waited>>  BY <1>2 DEF SendFromInterrupt, callVars
    <3>3. KernelInv'  BY <2>1, KernelSame DEF Control
    <3> QED  BY <3>1, <3>2, <3>3 DEF Control, OnTime, CallTypes, InCall, Clocked, Deadline
  <2>2. CASE ~ UNCHANGED kernelVars
    <3> DEFINE r == Head(suspend_thread[Receivers])
    <3>1. /\ suspend_thread[Receivers] # <<>>
          /\ suspend_thread' = [o \in Object |-> RemoveFirst(suspend_thread[o], r)]
          /\ timer_list' = StopTimer(timer_list, r)
          /\ rt_schedule([stat EXCEPT ![r] = InsertStat(r)], InsertThread(r), yield)
          /\ UNCHANGED <<rt_tick, remaining_tick, current_priority, error, isr>>
          /\ UNCHANGED callVars
      BY <1>2, <2>2 DEF SendFromInterrupt
    <3> QED  BY <3>1, InterruptWakes
  <2> QED  BY <2>1, <2>2
<1>3. ASSUME NEW t \in Thread, ThreadStep(t)  PROVE Control'
  <2>0. pc[t] # "run" => t # Idle  BY DEF Control, InCall
  <2>f. Free(t) => Executes(t) /\ t # Idle /\ pc[t] = "run"  BY DEF Free
  <2>p. ASSUME NEW place \in CopyPlaces \union {"run", "back"}, Executes(t), t # Idle,
               pc[t] \notin {"send_sched", "recv_sched", "sched"}, UNCHANGED kernelVars,
               Goto(t, place), WaitOver(t)
        PROVE  Control'
    BY <2>p, ProceedControl
  <2>1. ASSUME NEW limit \in Timeout \union {RT_WAITING_NO, RT_WAITING_FOREVER}, RecvBegins(t, limit)
        PROVE  Control'
    <3>1. CASE TakeMessage(t)
      <4>1. "copy_out" \in CopyPlaces  BY DEF CopyPlaces
      <4> QED  BY <2>f, <2>p, <2>1, <3>1, <4>1 DEF RecvBegins, TakeMessage
    <3>2. CASE limit # RT_WAITING_NO /\ WaitIn(t, Receivers, limit, "recv_sched") /\ asked' = [asked EXCEPT ![t] = limit]
      <4>1. limit \in Timeout \union {RT_WAITING_FOREVER}  BY <3>2
      <4> QED  BY <2>1, <3>2, <4>1, Lists, BeginsControl DEF RecvBegins
    <3> QED  BY <2>1, <3>1, <3>2 DEF RecvBegins
  <2>2. ASSUME NEW limit \in Timeout \union {RT_WAITING_NO, RT_WAITING_FOREVER}, SendBegins(t, limit)
        PROVE  Control'
    <3>1. CASE TakeSlot(t) /\ Goto(t, "copy_in")
      <4>1. "copy_in" \in CopyPlaces  BY DEF CopyPlaces
      <4> QED  BY <2>f, <2>p, <2>2, <3>1, <4>1 DEF SendBegins, TakeSlot
    <3>2. CASE limit # RT_WAITING_NO /\ WaitIn(t, Senders, limit, "send_sched") /\ asked' = [asked EXCEPT ![t] = limit]
      <4>1. limit \in Timeout \union {RT_WAITING_FOREVER}  BY <3>2
      <4> QED  BY <2>2, <3>2, <4>1, Lists, BeginsControl DEF SendBegins
    <3> QED  BY <2>2, <3>1, <3>2 DEF SendBegins
  <2>3. CASE UrgentBegins(t)
    <3>1. "copy_in_urgent" \in CopyPlaces  BY DEF CopyPlaces
    <3> QED  BY <2>f, <2>p, <2>3, <3>1 DEF UrgentBegins, TakeSlot
  <2>4. CASE Reschedule(t)  BY <2>4, RescheduleControl
  <2>5. CASE SendRetries(t)
    <3>0. Executes(t) /\ pc[t] = "send_back" /\ t # Idle  BY <2>0, <2>5 DEF SendRetries
    <3>1. CASE TakeSlot(t) /\ Goto(t, "copy_in")
      <4>1. "copy_in" \in CopyPlaces  BY DEF CopyPlaces
      <4> QED  BY <2>p, <3>0, <3>1, <4>1 DEF TakeSlot
    <3>2. CASE Remaining(t) # 0 /\ WaitIn(t, Senders, Remaining(t), "send_sched") /\ UNCHANGED asked
      BY <3>0, <3>2, Lists, RetriesControl
    <3>3. CASE Ended(t) /\ UNCHANGED <<kernelVars, queueVars>>
      BY <2>p, <3>0, <3>3 DEF Ended
    <3> QED  BY <2>5, <3>1, <3>2, <3>3 DEF SendRetries
  <2>6. CASE RecvRetries(t)
    <3>0. Executes(t) /\ pc[t] = "recv_back" /\ t # Idle  BY <2>0, <2>6 DEF RecvRetries
    <3>1. CASE TakeMessage(t)
      <4>1. "copy_out" \in CopyPlaces  BY DEF CopyPlaces
      <4> QED  BY <2>p, <3>0, <3>1, <4>1 DEF TakeMessage
    <3>2. CASE Remaining(t) # 0 /\ WaitIn(t, Receivers, Remaining(t), "recv_sched") /\ UNCHANGED asked
      BY <3>0, <3>2, Lists, RetriesControl
    <3>3. CASE Ended(t) /\ UNCHANGED <<kernelVars, queueVars>>
      BY <2>p, <3>0, <3>3 DEF Ended
    <3> QED  BY <2>6, <3>1, <3>2, <3>3 DEF RecvRetries
  <2>c. ASSUME NEW place \in CopyPlaces \union {"back"}, Executes(t), pc[t] \in CopyPlaces,
               UNCHANGED kernelVars, Goto(t, place), UNCHANGED <<timeout, tick_delta, asked, waited>>
        PROVE  Control'
    <3>1. pc[t] \notin {"send_sched", "recv_sched", "sched", "run"} /\ pc[t] \notin SendPlaces \union RecvPlaces
      BY <2>c DEF CopyPlaces, SendPlaces, RecvPlaces
    <3>2. place \in CopyPlaces \union {"run", "back"}  OBVIOUS
    <3> QED  BY <2>0, <2>c, <3>1, <3>2, ProceedControl
  <2>7. CASE CopyIn(t)
    <3> DEFINE place == IF pc[t] = "copy_in" THEN "link" ELSE "link_urgent"
    <3>1. place \in CopyPlaces \union {"back"} /\ pc[t] \in CopyPlaces  BY <2>7 DEF CopyIn, CopyPlaces
    <3>2. /\ Executes(t) /\ UNCHANGED kernelVars /\ Goto(t, place)
          /\ UNCHANGED <<timeout, tick_delta, asked, waited>>
      BY <2>7 DEF CopyIn
    <3> HIDE DEF place
    <3> QED  BY <2>c, <3>1, <3>2
  <2>8. CASE CopyOut(t)
    <3>1. "free" \in CopyPlaces \union {"back"} /\ pc[t] \in CopyPlaces  BY <2>8 DEF CopyOut, CopyPlaces
    <3> QED  BY <2>8, <2>c, <3>1 DEF CopyOut
  <2>w. ASSUME NEW o \in Object, Executes(t), pc[t] \in CopyPlaces, Wake(t, o),
               UNCHANGED <<timeout, tick_delta, asked, waited>>
        PROVE  Control'
    <3>1. CASE UNCHANGED kernelVars /\ Goto(t, "back")  BY <2>c, <2>w, <3>1
    <3>2. CASE /\ suspend_thread[o] # <<>>
               /\ rt_thread_resume(Head(suspend_thread[o]))
               /\ Goto(t, "sched")
               /\ UNCHANGED <<rt_tick, rt_current_thread, yield, lowered, remaining_tick,
                              current_priority, error, isr>>
      BY <2>w, <3>2, ThreadWakes
    <3> QED  BY <2>w, <3>1, <3>2 DEF Wake
  <2>9. CASE Link(t)
    <3>1. pc[t] \in CopyPlaces  BY <2>9 DEF Link, CopyPlaces
    <3> QED  BY <2>9, <2>w, <3>1, Lists DEF Link
  <2>10. CASE FreeSlot(t)
    <3>1. pc[t] \in CopyPlaces  BY <2>10 DEF FreeSlot, CopyPlaces
    <3> QED  BY <2>10, <2>w, <3>1, Lists DEF FreeSlot
  <2>11. CASE Return(t)  BY <2>11, ReturnControl
  <2>12. ASSUME NEW delay \in Timeout, MqSleep(t, delay)  PROVE Control'
    BY <2>12, SleepControl
  <2> QED  BY <1>3, <2>1, <2>2, <2>3, <2>4, <2>5, <2>6, <2>7, <2>8, <2>9, <2>10, <2>11, <2>12 DEF ThreadStep
<1>4. CASE UNCHANGED vars
  <2>1. UNCHANGED kernelVars /\ UNCHANGED <<pc, timeout, tick_delta, asked, waited>>
    BY <1>4 DEF vars, callVars
  <2>2. UNCHANGED <<rt_tick, rt_current_thread, stat, timer_list, suspend_thread, error, isr>>
    BY <2>1 DEF kernelVars, schedVars
  <2>3. KernelInv'  BY <2>1, KernelSame DEF Control
  <2> QED  BY <2>1, <2>2, <2>3 DEF Control, OnTime, CallTypes, InCall, Clocked, Deadline
<1> QED  BY <1>1, <1>2, <1>3, <1>4 DEF Next

\* The control of the calls is sound: in every reachable state the kernel's
\* lists are, the timers are on time, and every thread stands where its call
\* says, with the deadline its call has given it.
THEOREM MqControl == Spec => []Control
  BY ControlInit, ControlNext, PTL DEF Spec

\* No thread of the message queue's callers is lost or queued twice by
\* rt_mq_send_wait, rt_mq_recv, the interrupt that sends, or the tick.
THEOREM MqNoThreadLost == Spec => []NoThreadLost
<1>1. Control => NoThreadLost  BY KernelInvImplies DEF Control
<1> QED  BY <1>1, MqControl, PTL

\* The timers that bound the calls stay ordered and none is overdue between two
\* ticks, also when calls that are woken up set their timer again.
THEOREM MqTimersOnTime == Spec => []TimersOnTime
<1>1. Control => TimersOnTime  BY OnTimeImplies DEF Control
<1> QED  BY <1>1, MqControl, PTL

\* All the waits of a call to rt_mq_send_wait or rt_mq_recv together last as long
\* as the timeout that the call was given, however often it is woken up.
THEOREM MqDeadlineKept == Spec => []DeadlineKept
<1>1. Control => DeadlineKept
  <2> SUFFICES ASSUME Control, NEW k \in DOMAIN timer_list, asked[timer_list[k].thread] > 0
               PROVE  waited[timer_list[k].thread] + Diff(timer_list[k].at, rt_tick)
                        = asked[timer_list[k].thread]
    BY DEF DeadlineKept
  <2>1. timer_list[k] \in ToSet(timer_list)  BY DEF ToSet
  <2> QED  BY <2>1 DEF Control, Deadline
<1> QED  BY <1>1, MqControl, PTL

\* Only a timer that expires makes a wait fail.
LEMMA NextErrors == Control /\ [Next]_vars => ErrorStep
<1> SUFFICES ASSUME Control, [Next]_vars, ~ TimerExpires, NEW u \in Thread
             PROVE  error'[u] \in {error[u], "RT_EOK"}
  BY DEF ErrorStep
<1>0. error \in [Thread -> {"RT_EOK", "RT_ETIMEOUT"}]  BY DEF Control, KernelInv, KernelScalars
<1>k. UNCHANGED kernelVars => UNCHANGED error  BY DEF kernelVars
<1>1. CASE Tick  BY <1>1 DEF Tick, rt_tick_increase, TimerCheckEnds
<1>2. CASE SendFromInterrupt  BY <1>2, <1>k DEF SendFromInterrupt
<1>3. ASSUME NEW t \in Thread, ThreadStep(t)  PROVE error'[u] \in {error[u], "RT_EOK"}
  <2>w. ASSUME error' = [error EXCEPT ![t] = "RT_EOK"]  PROVE error'[u] \in {error[u], "RT_EOK"}
    BY <2>w, <1>0
  <2>1. ASSUME NEW limit \in Timeout \union {RT_WAITING_NO, RT_WAITING_FOREVER},
               RecvBegins(t, limit) \/ SendBegins(t, limit)
        PROVE  error'[u] \in {error[u], "RT_EOK"}
    BY <2>1, <2>w, <1>k DEF RecvBegins, SendBegins, TakeMessage, TakeSlot, WaitIn, SuspendSelf
  <2>2. CASE UrgentBegins(t)  BY <2>2, <1>k DEF UrgentBegins, TakeSlot
  <2>3. CASE Reschedule(t)  BY <2>3 DEF Reschedule, CallSchedule
  <2>4. CASE SendRetries(t)  BY <2>4, <2>w, <1>k DEF SendRetries, TakeSlot, WaitIn, SuspendSelf
  <2>5. CASE RecvRetries(t)  BY <2>5, <2>w, <1>k DEF RecvRetries, TakeMessage, WaitIn, SuspendSelf
  <2>6. CASE CopyIn(t) \/ CopyOut(t)  BY <2>6, <1>k DEF CopyIn, CopyOut
  <2>7. CASE Link(t) \/ FreeSlot(t)  BY <2>7, <1>k DEF Link, FreeSlot, Wake
  <2>8. CASE Return(t)  BY <2>8, <2>w DEF Return
  <2>9. ASSUME NEW delay \in Timeout, MqSleep(t, delay)  PROVE error'[u] \in {error[u], "RT_EOK"}
    BY <2>9, <2>w DEF MqSleep, Sleep, SuspendSelf
  <2> QED  BY <1>3, <2>1, <2>2, <2>3, <2>4, <2>5, <2>6, <2>7, <2>8, <2>9 DEF ThreadStep
<1>4. CASE UNCHANGED vars  BY <1>4, <1>k DEF vars
<1> QED  BY <1>1, <1>2, <1>3, <1>4 DEF Next

\* _thread_timeout fails a wait in the tick that its timer was set to: at no
\* time before, whatever was started and stopped in between, and also when the
\* tick counter has wrapped around.
THEOREM MqNeverEarly == Spec => NeverEarly
<1> DEFINE A == \A t \in Thread : error[t] = "RT_EOK" /\ error'[t] = "RT_ETIMEOUT" /\ stat[t] = "SUSPEND"
                   => \E k \in DOMAIN timer_list : timer_list[k] = [thread |-> t, at |-> rt_tick]
<1>1. Control /\ [Next]_vars => [A]_kernelVars
  <2>1. Control => KernelInv /\ OnTime  BY DEF Control
  <2> QED  BY <2>1, NextErrors, NotEarly
<1> QED  BY <1>1, MqControl, PTL DEF Spec, NeverEarly
-----------------------------------------------------------------------------
(* The chains of slots.                                                    *)

\* The links nx lead from the slot first through the slots of s, each of them
\* once, and end there.
Linked(nx, s, first) ==
    /\ s \in Seq(Node) /\ IsInjective(s)
    /\ first = IF s = <<>> THEN Nil ELSE s[1]
    /\ \A k \in 1..Len(s) : nx[s[k]] = IF k = Len(s) THEN Nil ELSE s[k + 1]

\* The elements of a sequence with another one in front.
LEMMA ConsAt ==
    ASSUME NEW S, NEW s \in Seq(S), NEW e \in S
    PROVE  /\ Len(<<e>> \o s) = Len(s) + 1 /\ (<<e>> \o s)[1] = e
           /\ \A k \in 1..Len(s) : (<<e>> \o s)[k + 1] = s[k]
<1>1. <<e>> \in Seq(S) /\ Len(<<e>>) = 1 /\ <<e>>[1] = e  OBVIOUS
<1>2. /\ Len(<<e>> \o s) = Len(<<e>>) + Len(s)
      /\ \A i \in 1..(Len(<<e>>) + Len(s)) :
            (<<e>> \o s)[i] = IF i <= Len(<<e>>) THEN <<e>>[i] ELSE s[i - Len(<<e>>)]
  BY <1>1, ConcatProperties
<1>3. Len(s) \in Nat  BY LenProperties
<1>4. ASSUME NEW k \in 1..Len(s)  PROVE (<<e>> \o s)[k + 1] = s[k]
  <2>1. k + 1 \in 1..(Len(<<e>>) + Len(s)) /\ ~ (k + 1 <= Len(<<e>>)) /\ (k + 1) - Len(<<e>>) = k
    BY <1>1, <1>3
  <2> QED  BY <1>2, <2>1
<1>5. 1 \in 1..(Len(<<e>>) + Len(s)) /\ 1 <= Len(<<e>>) /\ Len(<<e>>) + Len(s) = Len(s) + 1
  BY <1>1, <1>3
<1> QED  BY <1>1, <1>2, <1>4, <1>5

\* The first slot of a chain is taken.
LEMMA LinkedTail ==
    ASSUME NEW nx, NEW first, NEW s, Linked(nx, s, first), first # Nil
    PROVE  /\ s # <<>> /\ first = s[1] /\ first \in Node /\ first \in ToSet(s)
           /\ Linked(nx, Tail(s), nx[first])
           /\ ToSet(Tail(s)) = ToSet(s) \ {first}
           /\ Len(Tail(s)) = Len(s) - 1 /\ Len(s) \in Nat /\ Len(s) > 0
           /\ Tail(s) # <<>> => Tail(s)[Len(Tail(s))] = s[Len(s)]
           /\ Tail(s) = <<>> <=> first = s[Len(s)]
<1> DEFINE r == Tail(s)
<1>1. s \in Seq(Node) /\ IsInjective(s) /\ s # <<>> /\ first = s[1]  BY DEF Linked
<1>2. Len(s) \in Nat /\ Len(s) > 0 /\ DOMAIN s = 1..Len(s)  BY <1>1, EmptySeq, LenProperties
<1>3. /\ r \in Seq(Node) /\ IsInjective(r) /\ Head(s) = s[1]
      /\ ToSet(r) = ToSet(s) \ {first} /\ first \in ToSet(s)
  BY <1>1, TailKeeps, TailIsRemoveAt
<1>4. first \in Node  BY <1>1, <1>2, ElementOfSeq
<1>5. Len(r) = Len(s) - 1 /\ \A k \in 1..Len(r) : r[k] = s[k + 1]
  BY <1>1, HeadTailProperties
<1> HIDE DEF r
<1>a. Len(s) \in Nat /\ Len(s) > 0 /\ Len(r) = Len(s) - 1  BY <1>2, <1>5
<1>6. r = <<>> <=> Len(s) = 1
  <2>1. r = <<>> <=> Len(r) = 0  BY <1>3, EmptySeq
  <2> QED  BY <2>1, <1>a
<1>7. Linked(nx, r, nx[first])
  <2>1. nx[first] = IF r = <<>> THEN Nil ELSE r[1]
    <3>1. 1 \in 1..Len(s)  BY <1>a
    <3>2. nx[s[1]] = IF 1 = Len(s) THEN Nil ELSE s[1 + 1]  BY <3>1 DEF Linked
    <3>3. r # <<>> => 1 \in 1..Len(r)  BY <1>a, <1>6
    <3>4. r # <<>> => r[1] = s[1 + 1]  BY <3>3, <1>5
    <3> QED  BY <1>1, <1>6, <3>2, <3>4
  <2>2. ASSUME NEW k \in 1..Len(r)
        PROVE  nx[r[k]] = IF k = Len(r) THEN Nil ELSE r[k + 1]
    <3>1. k + 1 \in 1..Len(s) /\ k \in Nat  BY <1>a
    <3>2. nx[s[k + 1]] = IF k + 1 = Len(s) THEN Nil ELSE s[(k + 1) + 1]  BY <3>1 DEF Linked
    <3>3. r[k] = s[k + 1]  BY <1>5
    <3>4. k + 1 = Len(s) <=> k = Len(r)  BY <1>a, <3>1
    <3>5. k # Len(r) => k + 1 \in 1..Len(r)  BY <1>a, <3>1
    <3> QED  BY <1>5, <3>2, <3>3, <3>4, <3>5
  <2> QED  BY <1>3, <2>1, <2>2 DEF Linked
<1>8. r # <<>> => r[Len(r)] = s[Len(s)]
  <2> SUFFICES ASSUME r # <<>>  PROVE r[Len(r)] = s[Len(s)]
    OBVIOUS
  <2>1. Len(s) - 1 \in 1..Len(r) /\ (Len(s) - 1) + 1 = Len(s)  BY <1>a, <1>6
  <2> QED  BY <1>5, <2>1
<1>9. first = s[Len(s)] <=> Len(s) = 1
  <2>1. 1 \in DOMAIN s /\ Len(s) \in DOMAIN s  BY <1>2
  <2> QED  BY <1>1, <2>1 DEF IsInjective
<1> QED  BY <1>1, <1>2, <1>3, <1>4, <1>5, <1>6, <1>7, <1>8, <1>9 DEF r

\* A slot goes in front of a chain.
LEMMA LinkedCons ==
    ASSUME NEW nx \in [Node -> Node \union {Nil}], NEW first, NEW s, Linked(nx, s, first),
           NEW n \in Node, n \notin ToSet(s),
           NEW ny, ny[n] = first, \A m \in Node : m # n => ny[m] = nx[m]
    PROVE  /\ Linked(ny, <<n>> \o s, n)
           /\ ToSet(<<n>> \o s) = ToSet(s) \union {n}
           /\ Len(<<n>> \o s) = Len(s) + 1 /\ Len(s) \in Nat
           /\ (<<n>> \o s)[Len(s) + 1] = IF s = <<>> THEN n ELSE s[Len(s)]
<1> DEFINE r == <<n>> \o s
<1>1. s \in Seq(Node) /\ IsInjective(s) /\ first = IF s = <<>> THEN Nil ELSE s[1]  BY DEF Linked
<1>2. Len(s) \in Nat /\ DOMAIN s = 1..Len(s) /\ (s = <<>> <=> Len(s) = 0)
  BY <1>1, EmptySeq, LenProperties
<1>3. r \in Seq(Node) /\ ToSet(r) = ToSet(s) \union {n} /\ IsInjective(r)  BY <1>1, ConsKeeps
<1>4. Len(r) = Len(s) + 1 /\ r[1] = n /\ \A k \in 1..Len(s) : r[k + 1] = s[k]  BY <1>1, ConsAt
<1> HIDE DEF r
<1>5. ASSUME NEW k \in 1..Len(r)
      PROVE  ny[r[k]] = IF k = Len(r) THEN Nil ELSE r[k + 1]
  <2>1. CASE k = 1
    <3>1. ny[r[1]] = first  BY <1>4
    <3>2. CASE s = <<>>  BY <2>1, <3>1, <3>2, <1>1, <1>2, <1>4
    <3>3. CASE s # <<>>
      <4>1. 1 \in 1..Len(s) /\ Len(r) # 1  BY <3>3, <1>2, <1>4
      <4> QED  BY <2>1, <3>1, <3>3, <4>1, <1>1, <1>4
    <3> QED  BY <3>2, <3>3
  <2>2. CASE k # 1
    <3>1. PICK j \in 1..Len(s) : k = j + 1
      <4>1. k - 1 \in 1..Len(s) /\ k = (k - 1) + 1  BY <2>2, <1>2, <1>4
      <4> QED  BY <4>1
    <3>2. r[k] = s[j] /\ s[j] \in ToSet(s) /\ s[j] \in Node
      BY <3>1, <1>1, <1>2, <1>4, ElementOfSeq DEF ToSet
    <3>3. ny[s[j]] = nx[s[j]]  BY <3>2
    <3>4. nx[s[j]] = IF j = Len(s) THEN Nil ELSE s[j + 1]  BY DEF Linked
    <3>a. Len(s) \in Nat /\ Len(r) = Len(s) + 1 /\ j \in 1..Len(s) /\ k = j + 1  BY <3>1, <1>2, <1>4
    <3>5. j = Len(s) <=> k = Len(r)  BY <3>a
    <3>6. j # Len(s) => j + 1 \in 1..Len(s)  BY <3>a
    <3> QED  BY <3>1, <3>2, <3>3, <3>4, <3>5, <3>6, <1>4
  <2> QED  BY <2>1, <2>2
<1>6. r # <<>>  BY <1>2, <1>3, <1>4, EmptySeq
<1>7. Linked(ny, r, n)  BY <1>3, <1>4, <1>5, <1>6 DEF Linked
<1>8. r[Len(s) + 1] = IF s = <<>> THEN n ELSE s[Len(s)]
  <2>1. s # <<>> => Len(s) \in 1..Len(s)  BY <1>2
  <2>2. s = <<>> => Len(s) + 1 = 1  BY <1>2
  <2> QED  BY <2>1, <2>2, <1>4
<1> QED  BY <1>2, <1>3, <1>4, <1>7, <1>8 DEF r

\* A slot goes behind a chain.
LEMMA LinkedAppend ==
    ASSUME NEW nx \in [Node -> Node \union {Nil}], NEW first, NEW s, Linked(nx, s, first),
           NEW n \in Node, n \notin ToSet(s), nx[n] = Nil,
           NEW last, last = IF s = <<>> THEN Nil ELSE s[Len(s)],
           NEW ny, last # Nil => ny[last] = n, \A m \in Node : m # last => ny[m] = nx[m]
    PROVE  /\ Linked(ny, Append(s, n), IF first = Nil THEN n ELSE first)
           /\ ToSet(Append(s, n)) = ToSet(s) \union {n}
           /\ Len(Append(s, n)) = Len(s) + 1 /\ Len(s) \in Nat
           /\ Append(s, n)[Len(s) + 1] = n
           /\ last # Nil => last \in ToSet(s)
<1> DEFINE r == Append(s, n)
<1>1. s \in Seq(Node) /\ IsInjective(s) /\ first = IF s = <<>> THEN Nil ELSE s[1]  BY DEF Linked
<1>2. Len(s) \in Nat /\ DOMAIN s = 1..Len(s) /\ (s = <<>> <=> Len(s) = 0)
  BY <1>1, EmptySeq, LenProperties
<1>3. r \in Seq(Node) /\ ToSet(r) = ToSet(s) \union {n} /\ IsInjective(r)  BY <1>1, AppendKeeps
<1>4. Len(r) = Len(s) + 1 /\ r[Len(s) + 1] = n /\ \A k \in 1..Len(s) : r[k] = s[k]
  BY <1>1, AppendProperties
<1> HIDE DEF r
<1>5. Nil \notin Node  BY MqAssumption
<1>6. last # Nil <=> s # <<>>
  <2>1. s # <<>> => s[Len(s)] \in Node  BY <1>1, <1>2, ElementOfSeq
  <2> QED  BY <2>1, <1>5
<1>7. last # Nil => last \in ToSet(s) /\ last \in Node
  <2>1. s # <<>> => Len(s) \in 1..Len(s)  BY <1>2
  <2> QED  BY <2>1, <1>1, <1>2, <1>6, ElementOfSeq DEF ToSet
<1>9. ASSUME NEW k \in 1..Len(r)
      PROVE  ny[r[k]] = IF k = Len(r) THEN Nil ELSE r[k + 1]
  <2>1. CASE k = Len(r)
    <3>1. r[k] = n /\ n # last  BY <2>1, <1>4, <1>5, <1>7
    <3> QED  BY <2>1, <3>1
  <2>2. CASE k # Len(r)
    <3>1. k \in 1..Len(s) /\ r[k] = s[k] /\ s[k] \in Node  BY <2>2, <1>1, <1>2, <1>4, ElementOfSeq
    <3>2. s # <<>> /\ last = s[Len(s)] /\ last \in Node /\ ny[last] = n
      BY <3>1, <1>2, <1>6, <1>7
    <3>3. nx[s[k]] = IF k = Len(s) THEN Nil ELSE s[k + 1]  BY <3>1 DEF Linked
    <3>4. CASE k = Len(s)  BY <3>1, <3>2, <3>4, <2>2, <1>4
    <3>5. CASE k # Len(s)
      <4>0. Len(s) \in Nat /\ k \in 1..Len(s)  BY <3>1, <1>2
      <4>a. k + 1 \in 1..Len(s)  BY <4>0, <3>5
      <4>1. k + 1 \in 1..Len(s) /\ r[k + 1] = s[k + 1]  BY <4>a, <1>4
      <4>2. s[k] # last
        <5>1. k \in DOMAIN s /\ Len(s) \in DOMAIN s  BY <3>1, <1>2
        <5> QED  BY <5>1, <3>2, <3>5, <1>1 DEF IsInjective
      <4> QED  BY <2>2, <3>1, <3>2, <3>3, <3>5, <4>1, <4>2
    <3> QED  BY <3>4, <3>5
  <2> QED  BY <2>1, <2>2
<1>10. r # <<>>  BY <1>2, <1>3, <1>4, EmptySeq
<1>11. r[1] = IF first = Nil THEN n ELSE first
  <2>1. CASE s = <<>>  BY <2>1, <1>1, <1>2, <1>4
  <2>2. CASE s # <<>>
    <3>1. 1 \in 1..Len(s) /\ s[1] \in Node  BY <2>2, <1>1, <1>2, ElementOfSeq
    <3> QED  BY <2>2, <3>1, <1>1, <1>4, <1>5
  <2> QED  BY <2>1, <2>2
<1>12. Linked(ny, r, IF first = Nil THEN n ELSE first)  BY <1>3, <1>9, <1>10, <1>11 DEF Linked
<1> QED  BY <1>2, <1>3, <1>4, <1>7, <1>12 DEF r

\* A chain does not notice what happens to the other slots.
LEMMA LinkedElsewhere ==
    ASSUME NEW nx, NEW ny, NEW first, NEW s, Linked(nx, s, first),
           \A n \in ToSet(s) : ny[n] = nx[n]
    PROVE  Linked(ny, s, first)
<1>1. s \in Seq(Node) /\ DOMAIN s = 1..Len(s)  BY LenProperties DEF Linked
<1>2. ASSUME NEW k \in 1..Len(s)  PROVE ny[s[k]] = nx[s[k]]
  BY <1>1 DEF ToSet
<1> QED  BY <1>2 DEF Linked

\* There is one chain from a slot.
LEMMA LinkedUnique ==
    ASSUME NEW nx, NEW first, NEW s, Linked(nx, s, first), NEW r \in Seq(Node),
           first = IF r = <<>> THEN Nil ELSE r[1],
           \A k \in 1..Len(r) : nx[r[k]] = IF k = Len(r) THEN Nil ELSE r[k + 1]
    PROVE  r = s
<1>0. /\ s \in Seq(Node) /\ first = IF s = <<>> THEN Nil ELSE s[1]
      /\ \A k \in 1..Len(s) : nx[s[k]] = IF k = Len(s) THEN Nil ELSE s[k + 1]
  BY DEF Linked
<1>1. /\ Len(s) \in Nat /\ DOMAIN s = 1..Len(s) /\ (s = <<>> <=> Len(s) = 0)
      /\ Len(r) \in Nat /\ DOMAIN r = 1..Len(r) /\ (r = <<>> <=> Len(r) = 0)
  BY <1>0, EmptySeq, LenProperties
<1>a. Len(s) \in Nat /\ Len(r) \in Nat  BY <1>1
<1>b. (s = <<>> <=> Len(s) = 0) /\ (r = <<>> <=> Len(r) = 0)  BY <1>1
<1>2. Nil \notin Node  BY MqAssumption
<1>3. /\ \A k \in 1..Len(s) : s[k] \in Node
      /\ \A k \in 1..Len(r) : r[k] \in Node
  BY <1>0, ElementOfSeq
<1> DEFINE D == {k \in Nat : /\ k >= 1
                            /\ \/ ~ (k \in 1..Len(s) <=> k \in 1..Len(r))
                               \/ k \in 1..Len(s) /\ s[k] # r[k]}
<1>d. \A k \in Nat : k \in D <=> /\ k >= 1
                                 /\ \/ ~ (k \in 1..Len(s) <=> k \in 1..Len(r))
                                    \/ k \in 1..Len(s) /\ s[k] # r[k]
  OBVIOUS
<1>e. D \in SUBSET Nat  OBVIOUS
<1> HIDE DEF D
<1>4. D = {}
  <2> SUFFICES ASSUME D # {}  PROVE FALSE
    OBVIOUS
  <2>1. PICK k \in D : \A j \in D : k <= j  BY <1>e, LeastNatural
  <2>2. k \in Nat /\ k >= 1  BY <1>d, <1>e
  <2>3. CASE k = 1
    <3>1. 1 \in 1..Len(s) <=> s # <<>>  BY <1>a, <1>b
    <3>2. 1 \in 1..Len(r) <=> r # <<>>  BY <1>a, <1>b
    <3> QED  BY <1>d, <2>3, <3>1, <3>2, <1>0, <1>2, <1>3
  <2>4. CASE k # 1
    <3>1. PICK j \in Nat : j >= 1 /\ k = j + 1
      <4>1. k - 1 \in Nat /\ k - 1 >= 1 /\ k = (k - 1) + 1  BY <2>2, <2>4
      <4> QED  BY <4>1
    <3>2. j \notin D  BY <2>1, <3>1, <1>e
    <3>3. (j \in 1..Len(s) <=> j \in 1..Len(r)) /\ (j \in 1..Len(s) => s[j] = r[j])
      BY <3>1, <3>2, <1>d
    <3>4. k \in 1..Len(s) => j \in 1..Len(s) /\ j # Len(s)  BY <3>1, <1>a
    <3>5. k \in 1..Len(r) => j \in 1..Len(r) /\ j # Len(r)  BY <3>1, <1>a
    <3>6. j \in 1..Len(s) /\ j # Len(s) => k \in 1..Len(s)  BY <3>1, <1>a
    <3>7. j \in 1..Len(r) /\ j # Len(r) => k \in 1..Len(r)  BY <3>1, <1>a
    <3>8. j \in 1..Len(s) => nx[s[j]] = IF j = Len(s) THEN Nil ELSE s[k]  BY <1>0, <3>1
    <3>9. j \in 1..Len(r) => nx[r[j]] = IF j = Len(r) THEN Nil ELSE r[k]  BY <3>1
    <3>10. k \in 1..Len(s) <=> k \in 1..Len(r)
      BY <3>3, <3>4, <3>5, <3>6, <3>7, <3>8, <3>9, <1>2, <1>3
    <3>11. k \in 1..Len(s) => s[k] = r[k]
      BY <3>3, <3>4, <3>5, <3>8, <3>9, <3>10
    <3> QED  BY <1>d, <2>2, <3>10, <3>11
  <2> QED  BY <2>3, <2>4
<1>5. \A k \in Nat : k >= 1 => (k \in 1..Len(s) <=> k \in 1..Len(r)) /\ (k \in 1..Len(s) => s[k] = r[k])
  BY <1>4, <1>d
<1>6. Len(s) = Len(r)
  <2>1. Len(s) >= 1 => Len(s) \in 1..Len(s)  BY <1>a
  <2>2. Len(r) >= 1 => Len(r) \in 1..Len(r)  BY <1>a
  <2>3. Len(s) >= 1 => Len(s) \in 1..Len(r)  BY <1>a, <1>5, <2>1
  <2>4. Len(r) >= 1 => Len(r) \in 1..Len(s)  BY <1>a, <1>5, <2>2
  <2> QED  BY <1>a, <2>3, <2>4
<1>7. \A k \in 1..Len(s) : s[k] = r[k]
  <2> SUFFICES ASSUME NEW k \in 1..Len(s)  PROVE s[k] = r[k]
    OBVIOUS
  <2>1. k \in Nat /\ k >= 1  BY <1>a
  <2> QED  BY <1>5, <2>1
<1> QED  BY <1>0, <1>6, <1>7, SeqEqual
-----------------------------------------------------------------------------
(* The slots.                                                              *)

\* The slots are those of two chains, A and B, and the ones in the hands of
\* threads; none is in two places.
Parted(A, B, nd) ==
    /\ \A n \in Node : ~ (n \in A /\ n \in B)
    /\ \A t \in Thread : nd[t] \notin A /\ nd[t] \notin B
    /\ \A n \in Node : n \in A \/ n \in B \/ \E t \in Thread : nd[t] = n
    /\ \A t, u \in Thread : nd[t] # Nil /\ nd[t] = nd[u] => t = u

LEMMA PartedTake ==
    ASSUME NEW A \in SUBSET Node, NEW B \in SUBSET Node, NEW nd \in [Thread -> Node \union {Nil}],
           Parted(A, B, nd), NEW t \in Thread, nd[t] = Nil, NEW n, NEW nd2, nd2 = [nd EXCEPT ![t] = n]
    PROVE  /\ n \in A => Parted(A \ {n}, B, nd2)
           /\ n \in B => Parted(A, B \ {n}, nd2)
<1>1. \A u \in Thread : nd2[u] = IF u = t THEN n ELSE nd[u]  OBVIOUS
<1>2. Nil \notin Node  BY MqAssumption
<1>3. ASSUME n \in A  PROVE Parted(A \ {n}, B, nd2)
  <2>1. ASSUME NEW m \in Node  PROVE m \in A \ {n} \/ m \in B \/ \E u \in Thread : nd2[u] = m
    <3>1. CASE m = n  BY <3>1, <1>1
    <3>2. CASE m # n  BY <3>2, <1>1, <1>2 DEF Parted
    <3> QED  BY <3>1, <3>2
  <2>2. ASSUME NEW u \in Thread  PROVE nd2[u] \notin A \ {n} /\ nd2[u] \notin B
    BY <1>1, <1>3 DEF Parted
  <2>3. ASSUME NEW u \in Thread, NEW v \in Thread, nd2[u] # Nil, nd2[u] = nd2[v]  PROVE u = v
    BY <1>1, <1>3, <2>3 DEF Parted
  <2> QED  BY <2>1, <2>2, <2>3 DEF Parted
<1>4. ASSUME n \in B  PROVE Parted(A, B \ {n}, nd2)
  <2>1. ASSUME NEW m \in Node  PROVE m \in A \/ m \in B \ {n} \/ \E u \in Thread : nd2[u] = m
    <3>1. CASE m = n  BY <3>1, <1>1
    <3>2. CASE m # n  BY <3>2, <1>1, <1>2 DEF Parted
    <3> QED  BY <3>1, <3>2
  <2>2. ASSUME NEW u \in Thread  PROVE nd2[u] \notin A /\ nd2[u] \notin B \ {n}
    BY <1>1, <1>4 DEF Parted
  <2>3. ASSUME NEW u \in Thread, NEW v \in Thread, nd2[u] # Nil, nd2[u] = nd2[v]  PROVE u = v
    BY <1>1, <1>4, <2>3 DEF Parted
  <2> QED  BY <2>1, <2>2, <2>3 DEF Parted
<1> QED  BY <1>3, <1>4

SlotTypes ==
    /\ next \in [Node -> Node \union {Nil}] /\ pool \in [Node -> Msg \union {Nil}]
    /\ node \in [Thread -> Node \union {Nil}] /\ buffer \in [Thread -> Msg \union {Nil}]

LEMMA PartedGive ==
    ASSUME NEW A \in SUBSET Node, NEW B \in SUBSET Node, NEW C, SlotTypes, Parted(A, B, node),
           NEW t \in Thread, NEW n, n = node[t], n # Nil, node' = [node EXCEPT ![t] = Nil]
    PROVE  C = A \union {n} => Parted(C, B, node')
<1>0. node \in [Thread -> Node \union {Nil}]  BY DEF SlotTypes
<1>1. \A u \in Thread : node'[u] = IF u = t THEN Nil ELSE node[u]  BY <1>0
<1>2. Nil \notin Node  BY MqAssumption
<1>3. n \in Node /\ n \notin A /\ n \notin B  BY <1>0 DEF Parted
<1>4. \A u \in Thread : node'[u] # n  BY <1>1, <1>2, <1>3 DEF Parted
<1>5. \A u, v \in Thread : node'[u] # Nil /\ node'[u] = node'[v] => u = v  BY <1>1 DEF Parted
<1>6. ASSUME NEW m \in Node, m # n  PROVE m \in A \/ m \in B \/ \E u \in Thread : node'[u] = m
  <2>1. m \in A \/ m \in B \/ \E u \in Thread : node[u] = m  BY DEF Parted
  <2>2. \A u \in Thread : node[u] = m => u # t /\ node'[u] = m  BY <1>1, <1>6
  <2> QED  BY <2>1, <2>2
<1>7. \A u \in Thread : node'[u] \notin A /\ node'[u] \notin B  BY <1>1, <1>2 DEF Parted
<1>8. Parted(A \union {n}, B, node')  BY <1>3, <1>4, <1>5, <1>6, <1>7 DEF Parted
<1> QED  BY <1>8

\* What a thread has in its hands: a slot while it copies, whose content is
\* its own message before it is linked, and one to be received before it is free.
Held(t) ==
    /\ node[t] # Nil <=> pc[t] \in CopyPlaces
    /\ pc[t] = "link" => next[node[t]] = Nil /\ pool[node[t]] = <<t, "send">>
    /\ pc[t] = "link_urgent" => pool[node[t]] = <<t, "urgent">>
    /\ pc[t] = "copy_out" => pool[node[t]] \in Msg
    /\ pc[t] = "free" => buffer[t] \in Msg

\* The chains q and f are the queue and the free slots, and they account, with
\* what the threads hold, for all the slots.
SlotsIn(q, f) ==
    /\ SlotTypes
    /\ \A t \in Thread : Held(t)
    /\ Linked(next, q, msg_queue_head) /\ Linked(next, f, msg_queue_free)
    /\ \A n \in ToSet(q) : pool[n] \in Msg
    /\ entry = Len(q) /\ msg_queue_tail = IF q = <<>> THEN Nil ELSE q[Len(q)]
    /\ Parted(ToSet(q), ToSet(f), node)

\* A thread does not notice what happens to the slots of others.
LEMMA HeldKept ==
    ASSUME NEW u \in Thread, Held(u), pc'[u] = pc[u], node'[u] = node[u], buffer'[u] = buffer[u],
           node[u] # Nil => next'[node[u]] = next[node[u]] /\ pool'[node[u]] = pool[node[u]]
    PROVE  Held(u)'
  BY DEF Held, CopyPlaces

\* The slots of a chain are slots.
LEMMA LinkedSubset ==
    ASSUME NEW nx, NEW s, NEW first, Linked(nx, s, first)
    PROVE  ToSet(s) \in SUBSET Node
<1>1. s \in Seq(Node) /\ DOMAIN s = 1..Len(s)  BY LenProperties DEF Linked
<1>2. \A k \in 1..Len(s) : s[k] \in Node  BY <1>1, ElementOfSeq
<1> QED  BY <1>1, <1>2 DEF ToSet

\* The call takes a slot out of the free list.
LEMMA TakeSlotSlots ==
    ASSUME NEW q, NEW f, SlotsIn(q, f), CallTypes, NEW t \in Thread, pc[t] \notin CopyPlaces,
           msg_queue_free # Nil, TakeSlot(t), NEW place \in {"copy_in", "copy_in_urgent"}, Goto(t, place)
    PROVE  SlotsIn(q, Tail(f))' /\ Len(Tail(f)) = Len(f) - 1 /\ Len(f) \in Nat
<1>0. /\ SlotTypes /\ Parted(ToSet(q), ToSet(f), node) /\ node[t] = Nil
      /\ \A u \in Thread : Held(u)
      /\ Linked(next, q, msg_queue_head) /\ Linked(next, f, msg_queue_free)
  BY DEF SlotsIn, Held
<1>1. PICK n : n = msg_queue_free  OBVIOUS
<1>2. /\ msg_queue_free' = next[n] /\ node' = [node EXCEPT ![t] = n]
      /\ pc' = [pc EXCEPT ![t] = place]
      /\ UNCHANGED <<msg_queue_head, msg_queue_tail, entry, next, pool, buffer>>
  BY <1>1 DEF TakeSlot, Goto
<1>3. /\ n \in ToSet(f) /\ n \in Node /\ Linked(next, Tail(f), next[n])
      /\ ToSet(Tail(f)) = ToSet(f) \ {n} /\ Len(Tail(f)) = Len(f) - 1 /\ Len(f) \in Nat
  BY <1>0, <1>1, LinkedTail
<1>4. SlotTypes'  BY <1>0, <1>2, <1>3 DEF SlotTypes
<1>5. Parted(ToSet(q), ToSet(f) \ {n}, node')
  <2>1. ToSet(q) \in SUBSET Node /\ ToSet(f) \in SUBSET Node  BY <1>0, LinkedSubset
  <2> QED  BY <1>0, <1>2, <1>3, <2>1, PartedTake DEF SlotTypes
<1>6. ASSUME NEW u \in Thread  PROVE Held(u)'
  <2>1. CASE u = t
    <3>1. pc'[u] = place /\ node'[u] = n  BY <2>1, <1>0, <1>2 DEF CallTypes, SlotTypes
    <3>2. n # Nil  BY <1>1
    <3> QED  BY <3>1, <3>2 DEF Held, CopyPlaces
  <2>2. CASE u # t
    <3>1. pc'[u] = pc[u] /\ node'[u] = node[u]  BY <2>2, <1>0, <1>2 DEF CallTypes, SlotTypes
    <3> QED  BY <3>1, <1>0, <1>2, HeldKept
  <2> QED  BY <2>1, <2>2
<1>7. Linked(next', q, msg_queue_head') /\ Linked(next', Tail(f), msg_queue_free')
  BY <1>0, <1>2, <1>3
<1>8. /\ entry' = Len(q) /\ msg_queue_tail' = IF q = <<>> THEN Nil ELSE q[Len(q)]
      /\ \A m \in ToSet(q) : pool'[m] \in Msg
  BY <1>2 DEF SlotsIn
<1> QED  BY <1>3, <1>4, <1>5, <1>6, <1>7, <1>8 DEF SlotsIn

\* The call takes the first message out of the queue.
LEMMA TakeMessageSlots ==
    ASSUME NEW q, NEW f, SlotsIn(q, f), CallTypes, NEW t \in Thread, pc[t] \notin CopyPlaces,
           entry > 0, TakeMessage(t)
    PROVE  SlotsIn(Tail(q), f)' /\ q # <<>> /\ msg_queue_head = q[1] /\ q \in Seq(Node)
<1>0. /\ SlotTypes /\ Parted(ToSet(q), ToSet(f), node) /\ node[t] = Nil
      /\ \A u \in Thread : Held(u)
      /\ Linked(next, q, msg_queue_head) /\ Linked(next, f, msg_queue_free)
      /\ entry = Len(q) /\ msg_queue_tail = (IF q = <<>> THEN Nil ELSE q[Len(q)])
      /\ \A n \in ToSet(q) : pool[n] \in Msg
  BY DEF SlotsIn, Held
<1>1. PICK n : n = msg_queue_head  OBVIOUS
<1>2. /\ msg_queue_head' = next[n] /\ node' = [node EXCEPT ![t] = n]
      /\ msg_queue_tail' = IF msg_queue_tail = n THEN Nil ELSE msg_queue_tail
      /\ entry' = entry - 1 /\ pc' = [pc EXCEPT ![t] = "copy_out"]
      /\ UNCHANGED <<msg_queue_free, next, pool, buffer>>
  BY <1>1 DEF TakeMessage, Goto
<1>a. q # <<>> /\ n # Nil /\ q \in Seq(Node)
  <2>1. q \in Seq(Node)  BY <1>0 DEF Linked
  <2>2. Len(<<>>) = 0 /\ entry # 0  BY <1>0, <2>1, LenProperties
  <2>3. q # <<>>  BY <1>0, <2>2
  <2>4. 1 \in 1..Len(q)  BY <2>1, <2>3, EmptySeq
  <2>5. q[1] \in Node  BY <2>1, <2>4, ElementOfSeq
  <2>6. msg_queue_head = q[1]  BY <1>0, <2>3 DEF Linked
  <2> QED  BY <1>1, <2>1, <2>3, <2>5, <2>6, MqAssumption
<1>3. /\ n = q[1] /\ n \in ToSet(q) /\ n \in Node /\ Linked(next, Tail(q), next[n])
      /\ ToSet(Tail(q)) = ToSet(q) \ {n} /\ Len(Tail(q)) = Len(q) - 1 /\ Len(q) \in Nat
      /\ Tail(q) # <<>> => Tail(q)[Len(Tail(q))] = q[Len(q)]
      /\ Tail(q) = <<>> <=> n = q[Len(q)]
  BY <1>0, <1>1, <1>a, LinkedTail
<1>4. SlotTypes'  BY <1>0, <1>2, <1>3 DEF SlotTypes
<1>5. Parted(ToSet(q) \ {n}, ToSet(f), node')
  <2>1. ToSet(q) \in SUBSET Node /\ ToSet(f) \in SUBSET Node  BY <1>0, LinkedSubset
  <2> QED  BY <1>0, <1>2, <1>3, <2>1, PartedTake DEF SlotTypes
<1>6. ASSUME NEW u \in Thread  PROVE Held(u)'
  <2>1. CASE u = t
    <3>1. pc'[u] = "copy_out" /\ node'[u] = n  BY <2>1, <1>0, <1>2 DEF CallTypes, SlotTypes
    <3>2. n # Nil /\ pool'[n] \in Msg  BY <1>0, <1>2, <1>3, <1>a
    <3> QED  BY <3>1, <3>2 DEF Held, CopyPlaces
  <2>2. CASE u # t
    <3>1. pc'[u] = pc[u] /\ node'[u] = node[u]  BY <2>2, <1>0, <1>2 DEF CallTypes, SlotTypes
    <3> QED  BY <3>1, <1>0, <1>2, HeldKept
  <2> QED  BY <2>1, <2>2
<1>7. Linked(next', Tail(q), msg_queue_head') /\ Linked(next', f, msg_queue_free')
  BY <1>0, <1>2, <1>3
<1>8. /\ entry' = Len(Tail(q))
      /\ msg_queue_tail' = IF Tail(q) = <<>> THEN Nil ELSE Tail(q)[Len(Tail(q))]
      /\ \A m \in ToSet(Tail(q)) : pool'[m] \in Msg
  <2>1. entry' = Len(Tail(q))  BY <1>0, <1>2, <1>3
  <2>2. msg_queue_tail = q[Len(q)]  BY <1>0, <1>a
  <2> QED  BY <1>0, <1>2, <1>3, <2>1, <2>2
<1> QED  BY <1>1, <1>3, <1>4, <1>5, <1>6, <1>7, <1>8, <1>a DEF SlotsIn

\* The message is copied into a slot that is in no chain.
LEMMA CopyInSlots ==
    ASSUME NEW q, NEW f, SlotsIn(q, f), CallTypes, NEW t \in Thread, CopyIn(t)
    PROVE  SlotsIn(q, f)' /\ \A m \in ToSet(q) : pool'[m] = pool[m]
<1>0. /\ SlotTypes /\ Parted(ToSet(q), ToSet(f), node)
      /\ \A u \in Thread : Held(u)
      /\ Linked(next, q, msg_queue_head) /\ Linked(next, f, msg_queue_free)
      /\ \A n \in ToSet(q) : pool[n] \in Msg
  BY DEF SlotsIn
<1>1. PICK n : n = node[t]  OBVIOUS
<1>2. /\ pool' = [pool EXCEPT ![n] = <<t, IF pc[t] = "copy_in" THEN "send" ELSE "urgent">>]
      /\ next' = IF pc[t] = "copy_in" THEN [next EXCEPT ![n] = Nil] ELSE next
      /\ pc' = [pc EXCEPT ![t] = IF pc[t] = "copy_in" THEN "link" ELSE "link_urgent"]
      /\ UNCHANGED <<msg_queue_head, msg_queue_tail, msg_queue_free, entry, node, buffer>>
      /\ pc[t] \in {"copy_in", "copy_in_urgent"}
  BY <1>1 DEF CopyIn, Goto
<1>3. n # Nil  BY <1>0, <1>1, <1>2 DEF Held, CopyPlaces
<1>4. n \in Node /\ n \notin ToSet(q) /\ n \notin ToSet(f)  BY <1>0, <1>1, <1>3 DEF SlotTypes, Parted
<1>5. SlotTypes'
  <2>1. <<t, "send">> \in Msg /\ <<t, "urgent">> \in Msg  BY DEF Msg
  <2>2. pool' \in [Node -> Msg \union {Nil}]
    <3>1. CASE pc[t] = "copy_in"  BY <1>0, <1>2, <2>1, <3>1 DEF SlotTypes
    <3>2. CASE pc[t] # "copy_in"  BY <1>0, <1>2, <2>1, <3>2 DEF SlotTypes
    <3> QED  BY <3>1, <3>2
  <2> QED  BY <1>0, <1>2, <2>2 DEF SlotTypes
<1>6. \A m \in Node : m # n => next'[m] = next[m] /\ pool'[m] = pool[m]  BY <1>0, <1>2 DEF SlotTypes
<1>7. ToSet(q) \in SUBSET Node /\ ToSet(f) \in SUBSET Node  BY <1>0, LinkedSubset
<1>8. ASSUME NEW u \in Thread  PROVE Held(u)'
  <2>1. CASE u = t
    <3>1. CASE pc[t] = "copy_in"
      <4>1. /\ pc'[t] = "link" /\ node'[t] = n /\ next'[n] = Nil /\ pool'[n] = <<t, "send">>
        BY <3>1, <1>0, <1>1, <1>2, <1>4 DEF CallTypes, SlotTypes
      <4> QED  BY <4>1, <2>1, <1>3 DEF Held, CopyPlaces
    <3>2. CASE pc[t] # "copy_in"
      <4>1. /\ pc'[t] = "link_urgent" /\ node'[t] = n /\ pool'[n] = <<t, "urgent">>
        BY <3>2, <1>0, <1>1, <1>2, <1>4 DEF CallTypes, SlotTypes
      <4> QED  BY <4>1, <2>1, <1>3 DEF Held, CopyPlaces
    <3> QED  BY <3>1, <3>2
  <2>2. CASE u # t
    <3>1. pc'[u] = pc[u] /\ node'[u] = node[u] /\ buffer'[u] = buffer[u]
      BY <2>2, <1>2 DEF CallTypes
    <3>2. node[u] # Nil => node[u] # n /\ node[u] \in Node  BY <2>2, <1>0, <1>1 DEF Parted, SlotTypes
    <3> QED  BY <3>1, <3>2, <1>0, <1>6, HeldKept
  <2> QED  BY <2>1, <2>2
<1>9. \A m \in ToSet(q) : pool'[m] = pool[m] /\ next'[m] = next[m]  BY <1>4, <1>6, <1>7
<1>10. Linked(next', q, msg_queue_head)  BY <1>0, <1>9, LinkedElsewhere
<1>11. Linked(next', f, msg_queue_free)
  <2>1. \A m \in ToSet(f) : next'[m] = next[m]  BY <1>4, <1>6, <1>7
  <2> QED  BY <1>0, <2>1, LinkedElsewhere
<1>12. /\ entry' = Len(q) /\ msg_queue_tail' = IF q = <<>> THEN Nil ELSE q[Len(q)]
       /\ \A m \in ToSet(q) : pool'[m] \in Msg
  BY <1>0, <1>2, <1>9 DEF SlotsIn
<1> QED  BY <1>0, <1>2, <1>5, <1>8, <1>9, <1>10, <1>11, <1>12 DEF SlotsIn

\* The slot in the hand of the thread becomes the last one of the queue, or the
\* first one.
LEMMA LinkSlots ==
    ASSUME NEW q, NEW f, SlotsIn(q, f), CallTypes, NEW t \in Thread, Link(t), NEW n, n = node[t]
    PROVE  /\ n \in Node /\ UNCHANGED pool /\ \A u \in Thread \ {t} : pc'[u] = pc[u]
           /\ pc[t] = "link" => SlotsIn(Append(q, n), f)' /\ pool[n] = <<t, "send">>
           /\ pc[t] = "link_urgent" => SlotsIn(<<n>> \o q, f)' /\ pool[n] = <<t, "urgent">>
           /\ pc[t] \in {"link", "link_urgent"}
<1>0. /\ SlotTypes /\ Parted(ToSet(q), ToSet(f), node)
      /\ \A u \in Thread : Held(u)
      /\ Linked(next, q, msg_queue_head) /\ Linked(next, f, msg_queue_free)
      /\ \A m \in ToSet(q) : pool[m] \in Msg
      /\ entry = Len(q) /\ msg_queue_tail = (IF q = <<>> THEN Nil ELSE q[Len(q)])
  BY DEF SlotsIn
<1>2. /\ \/ pc[t] = "link" /\ LinkLast(n, next)
         \/ pc[t] = "link_urgent" /\ LinkFirst(n)
      /\ Wake(t, Receivers) /\ node' = [node EXCEPT ![t] = Nil]
      /\ UNCHANGED <<msg_queue_free, pool, buffer>>
  BY DEF Link
<1>a. PICK place \in {"sched", "back"} : pc' = [pc EXCEPT ![t] = place]
  BY <1>2 DEF Wake, Goto
<1>3. n # Nil  BY <1>0, <1>2 DEF Held, CopyPlaces
<1>4. ToSet(q) \in SUBSET Node /\ ToSet(f) \in SUBSET Node  BY <1>0, LinkedSubset
<1>5. /\ Parted(ToSet(q) \union {n}, ToSet(f), node') /\ n \in Node
      /\ n \notin ToSet(q) /\ n \notin ToSet(f)
  <2>1. n \in Node /\ n \notin ToSet(q) /\ n \notin ToSet(f)  BY <1>0, <1>3 DEF SlotTypes, Parted
  <2>2. PICK A, B, C : A = ToSet(q) /\ B = ToSet(f) /\ C = A \union {n}  OBVIOUS
  <2>3. A \in SUBSET Node /\ B \in SUBSET Node /\ Parted(A, B, node) /\ SlotTypes /\ n # Nil
    BY <1>0, <1>3, <1>4, <2>2
  <2>4. node' = [node EXCEPT ![t] = Nil]  BY <1>2
  <2>5. C = A \union {n}  BY <2>2
  <2>6. Parted(C, B, node')  BY <2>3, <2>4, <2>5, PartedGive
  <2> QED  BY <2>1, <2>2, <2>6
<1>6. ASSUME NEW nx, nx = next', nx \in [Node -> Node \union {Nil}],
             NEW d, d # Nil => d \in ToSet(q) \union {n}, \A m \in Node : m # d => nx[m] = next[m]
      PROVE  SlotTypes' /\ (\A u \in Thread : Held(u)') /\ Linked(next', f, msg_queue_free')
  <2>1. SlotTypes'  BY <1>0, <1>2, <1>6 DEF SlotTypes
  <2>2. ASSUME NEW u \in Thread  PROVE Held(u)'
    <3>1. CASE u = t
      <4>1. node'[u] = Nil /\ pc'[u] = place  BY <3>1, <1>0, <1>2, <1>a DEF SlotTypes, CallTypes
      <4> QED  BY <4>1 DEF Held, CopyPlaces
    <3>2. CASE u # t
      <4>1. pc'[u] = pc[u] /\ node'[u] = node[u] /\ buffer'[u] = buffer[u]
        BY <3>2, <1>0, <1>2, <1>a DEF CallTypes, SlotTypes
      <4>2. node[u] # Nil => node[u] # d /\ node[u] \in Node
        BY <3>2, <1>0, <1>3, <1>6 DEF Parted, SlotTypes
      <4> QED  BY <4>1, <4>2, <1>0, <1>2, <1>6, HeldKept
    <3> QED  BY <3>1, <3>2
  <2>3. Linked(next', f, msg_queue_free')
    <3>1. \A m \in ToSet(f) : next'[m] = next[m]  BY <1>0, <1>4, <1>5, <1>6, MqAssumption DEF Parted
    <3> QED  BY <1>0, <1>2, <3>1, LinkedElsewhere
  <2> QED  BY <2>1, <2>2, <2>3
<1>7. CASE pc[t] = "link"
  <2>0. next[n] = Nil /\ pool[n] = <<t, "send">>  BY <1>0, <1>7 DEF Held
  <2>1. PICK last : last = msg_queue_tail  OBVIOUS
  <2>2. /\ next' = IF last # Nil THEN [next EXCEPT ![last] = n] ELSE next
        /\ msg_queue_tail' = n /\ entry' = entry + 1
        /\ msg_queue_head' = IF msg_queue_head = Nil THEN n ELSE msg_queue_head
    BY <1>2, <1>7, <2>1 DEF LinkLast
  <2>3. /\ Linked(next', Append(q, n), msg_queue_head')
        /\ ToSet(Append(q, n)) = ToSet(q) \union {n}
        /\ Len(Append(q, n)) = Len(q) + 1 /\ Len(q) \in Nat /\ Append(q, n)[Len(q) + 1] = n
        /\ last # Nil => last \in ToSet(q)
        /\ next' \in [Node -> Node \union {Nil}]
    <3>1. next \in [Node -> Node \union {Nil}] /\ last = IF q = <<>> THEN Nil ELSE q[Len(q)]
      BY <1>0, <2>1 DEF SlotTypes
    <3>2. last # Nil => last \in Node
      <4>1. q \in Seq(Node) /\ (q # <<>> => Len(q) \in 1..Len(q))  BY <1>0, EmptySeq DEF Linked
      <4> QED  BY <3>1, <4>1, ElementOfSeq
    <3>3. (last # Nil => next'[last] = n) /\ \A m \in Node : m # last => next'[m] = next[m]
      BY <2>2, <3>1, <3>2
    <3>4. next' \in [Node -> Node \union {Nil}]  BY <1>5, <2>2, <3>1
    <3>5. /\ Linked(next', Append(q, n), IF msg_queue_head = Nil THEN n ELSE msg_queue_head)
          /\ ToSet(Append(q, n)) = ToSet(q) \union {n}
          /\ Len(Append(q, n)) = Len(q) + 1 /\ Len(q) \in Nat /\ Append(q, n)[Len(q) + 1] = n
          /\ last # Nil => last \in ToSet(q)
      BY <1>0, <1>5, <2>0, <3>1, <3>3, LinkedAppend
    <3> QED  BY <2>2, <3>4, <3>5
  <2>4. \A m \in Node : m # last => next'[m] = next[m]  BY <1>0, <2>2 DEF SlotTypes
  <2>5. SlotTypes' /\ (\A u \in Thread : Held(u)') /\ Linked(next', f, msg_queue_free')
    BY <1>6, <2>3, <2>4
  <2>6. Append(q, n) # <<>>
    <3>1. Len(<<>>) = 0 /\ Len(Append(q, n)) # 0  BY <2>3
    <3> QED  BY <3>1
  <2>7. \A m \in ToSet(Append(q, n)) : pool'[m] \in Msg
    <3>1. <<t, "send">> \in Msg  BY DEF Msg
    <3> QED  BY <1>0, <1>2, <2>0, <2>3, <3>1
  <2> QED  BY <1>0, <1>2, <1>5, <1>7, <1>a, <2>0, <2>2, <2>3, <2>5, <2>6, <2>7 DEF SlotsIn, CallTypes
<1>8. CASE pc[t] = "link_urgent"
  <2>0. pool[n] = <<t, "urgent">>  BY <1>0, <1>8 DEF Held
  <2>2. /\ next' = [next EXCEPT ![n] = msg_queue_head] /\ msg_queue_head' = n /\ entry' = entry + 1
        /\ msg_queue_tail' = IF msg_queue_tail = Nil THEN n ELSE msg_queue_tail
    BY <1>2, <1>8 DEF LinkFirst
  <2>3. /\ Linked(next', <<n>> \o q, msg_queue_head')
        /\ ToSet(<<n>> \o q) = ToSet(q) \union {n}
        /\ Len(<<n>> \o q) = Len(q) + 1 /\ Len(q) \in Nat
        /\ (<<n>> \o q)[Len(q) + 1] = IF q = <<>> THEN n ELSE q[Len(q)]
    <3>1. next \in [Node -> Node \union {Nil}]  BY <1>0 DEF SlotTypes
    <3>2. next'[n] = msg_queue_head /\ \A m \in Node : m # n => next'[m] = next[m]
      BY <1>5, <2>2, <3>1
    <3>3. /\ Linked(next', <<n>> \o q, n)
          /\ ToSet(<<n>> \o q) = ToSet(q) \union {n}
          /\ Len(<<n>> \o q) = Len(q) + 1 /\ Len(q) \in Nat
          /\ (<<n>> \o q)[Len(q) + 1] = IF q = <<>> THEN n ELSE q[Len(q)]
      BY <1>0, <1>5, <3>1, <3>2, LinkedCons
    <3> QED  BY <2>2, <3>3
  <2>4. msg_queue_head \in Node \union {Nil} /\ (q # <<>> => q[Len(q)] # Nil)
    <3>1. q \in Seq(Node) /\ msg_queue_head = IF q = <<>> THEN Nil ELSE q[1]  BY <1>0 DEF Linked
    <3>2. q # <<>> => 1 \in 1..Len(q) /\ Len(q) \in 1..Len(q)  BY <3>1, EmptySeq
    <3>3. q # <<>> => q[1] \in Node /\ q[Len(q)] \in Node  BY <3>1, <3>2, ElementOfSeq
    <3> QED  BY <3>1, <3>3, MqAssumption
  <2>5. /\ next' \in [Node -> Node \union {Nil}]
        /\ \A m \in Node : m # n => next'[m] = next[m]
    BY <1>0, <2>2, <2>4 DEF SlotTypes
  <2>6. SlotTypes' /\ (\A u \in Thread : Held(u)') /\ Linked(next', f, msg_queue_free')
    BY <1>6, <2>5
  <2>7. <<n>> \o q # <<>>
    <3>1. Len(<<>>) = 0 /\ Len(<<n>> \o q) # 0  BY <2>3
    <3> QED  BY <3>1
  <2>8. \A m \in ToSet(<<n>> \o q) : pool'[m] \in Msg
    <3>1. <<t, "urgent">> \in Msg  BY DEF Msg
    <3> QED  BY <1>0, <1>2, <2>0, <2>3, <3>1
  <2>9. msg_queue_tail' = (<<n>> \o q)[Len(q) + 1]  BY <1>0, <2>2, <2>3, <2>4
  <2> QED  BY <1>0, <1>2, <1>5, <1>8, <1>a, <2>0, <2>2, <2>3, <2>6, <2>7, <2>8, <2>9 DEF SlotsIn, CallTypes
<1> QED  BY <1>2, <1>7, <1>8

\* The message has been copied: the slot goes back to the free ones.
LEMMA FreeSlotSlots ==
    ASSUME NEW q, NEW f, SlotsIn(q, f), CallTypes, NEW t \in Thread, FreeSlot(t), NEW n, n = node[t]
    PROVE  /\ SlotsIn(q, <<n>> \o f)' /\ Len(<<n>> \o f) = Len(f) + 1 /\ Len(f) \in Nat
           /\ UNCHANGED pool
           /\ \A u \in Thread \ {t} : pc'[u] = pc[u]
           /\ pc'[t] \in {"sched", "back"}
<1>0. /\ SlotTypes /\ Parted(ToSet(q), ToSet(f), node)
      /\ \A u \in Thread : Held(u)
      /\ Linked(next, q, msg_queue_head) /\ Linked(next, f, msg_queue_free)
      /\ \A m \in ToSet(q) : pool[m] \in Msg
      /\ entry = Len(q) /\ msg_queue_tail = (IF q = <<>> THEN Nil ELSE q[Len(q)])
  BY DEF SlotsIn
<1>1. /\ next' = [next EXCEPT ![n] = msg_queue_free] /\ msg_queue_free' = n
      /\ Wake(t, Senders) /\ node' = [node EXCEPT ![t] = Nil]
      /\ UNCHANGED <<msg_queue_head, msg_queue_tail, entry, pool, buffer>> /\ pc[t] = "free"
  BY DEF FreeSlot
<1>2. PICK place \in {"sched", "back"} : pc' = [pc EXCEPT ![t] = place]
  BY <1>1 DEF Wake, Goto
<1>3. n # Nil  BY <1>0, <1>1 DEF Held, CopyPlaces
<1>4. ToSet(q) \in SUBSET Node /\ ToSet(f) \in SUBSET Node  BY <1>0, LinkedSubset
<1>5. n \in Node /\ n \notin ToSet(q) /\ n \notin ToSet(f)  BY <1>0, <1>3 DEF SlotTypes, Parted
<1>6. Parted(ToSet(q), ToSet(f) \union {n}, node')
  <2>1. PICK A, B, C : A = ToSet(q) /\ B = ToSet(f) /\ C = B \union {n}  OBVIOUS
  <2>2. A \in SUBSET Node /\ B \in SUBSET Node /\ Parted(A, B, node) /\ SlotTypes /\ n # Nil
    BY <1>0, <1>3, <1>4, <2>1
  <2>3. node' = [node EXCEPT ![t] = Nil]  BY <1>1
  <2>4. C = B \union {n}  BY <2>1
  <2>5. Parted(B, A, node)  BY <2>2 DEF Parted
  <2>6. Parted(C, A, node')  BY <2>2, <2>3, <2>4, <2>5, PartedGive
  <2>7. Parted(A, C, node')  BY <2>6 DEF Parted
  <2> QED  BY <2>1, <2>7
<1>7. next \in [Node -> Node \union {Nil}] /\ msg_queue_free \in Node \union {Nil}
  <2>1. f \in Seq(Node) /\ msg_queue_free = IF f = <<>> THEN Nil ELSE f[1]  BY <1>0 DEF Linked
  <2>2. f # <<>> => 1 \in 1..Len(f)  BY <2>1, EmptySeq
  <2> QED  BY <1>0, <2>1, <2>2, ElementOfSeq DEF SlotTypes
<1>8. next'[n] = msg_queue_free /\ \A m \in Node : m # n => next'[m] = next[m]
  BY <1>1, <1>5, <1>7
<1>9. /\ Linked(next', <<n>> \o f, n)
      /\ ToSet(<<n>> \o f) = ToSet(f) \union {n}
      /\ Len(<<n>> \o f) = Len(f) + 1 /\ Len(f) \in Nat
  BY <1>0, <1>5, <1>7, <1>8, LinkedCons
<1>10. Linked(next', q, msg_queue_head)
  <2>1. \A m \in ToSet(q) : next'[m] = next[m]  BY <1>4, <1>5, <1>8
  <2> QED  BY <1>0, <2>1, LinkedElsewhere
<1>11. SlotTypes'  BY <1>0, <1>1, <1>7 DEF SlotTypes
<1>12. /\ \A u \in Thread \ {t} : pc'[u] = pc[u] /\ node'[u] = node[u]
       /\ pc'[t] = place /\ node'[t] = Nil
  BY <1>0, <1>1, <1>2 DEF CallTypes, SlotTypes
<1>13. ASSUME NEW u \in Thread  PROVE Held(u)'
  <2>1. CASE u = t  BY <2>1, <1>12 DEF Held, CopyPlaces
  <2>2. CASE u # t
    <3>1. pc'[u] = pc[u] /\ node'[u] = node[u] /\ buffer'[u] = buffer[u]  BY <2>2, <1>1, <1>12
    <3>2. node[u] # Nil => node[u] # n /\ node[u] \in Node  BY <2>2, <1>0 DEF Parted, SlotTypes
    <3> QED  BY <3>1, <3>2, <1>0, <1>1, <1>8, HeldKept
  <2> QED  BY <2>1, <2>2
<1> QED  BY <1>0, <1>1, <1>6, <1>9, <1>10, <1>11, <1>12, <1>13 DEF SlotsIn

LEMMA PartedMove ==
    ASSUME NEW A, NEW B, NEW nd \in [Thread -> Node \union {Nil}], Parted(A, B, nd),
           NEW n \in Node, n \in B, NEW C, C = A \union {n}, NEW D, D = B \ {n}
    PROVE  Parted(C, D, nd)
<1>1. \A m \in Node : ~ (m \in C /\ m \in D)  BY DEF Parted
<1>2. \A t \in Thread : nd[t] \notin C /\ nd[t] \notin D  BY DEF Parted
<1>3. \A m \in Node : m \in C \/ m \in D \/ \E t \in Thread : nd[t] = m  BY DEF Parted
<1> QED  BY <1>1, <1>2, <1>3 DEF Parted

\* The interrupt moves a slot from the free ones to the end of the queue.
LEMMA InterruptSlots ==
    ASSUME NEW q, NEW f, SlotsIn(q, f), SendFromInterrupt, NEW n, n = msg_queue_free
    PROVE  /\ SlotsIn(Append(q, n), Tail(f))' /\ Len(Tail(f)) = Len(f) - 1 /\ Len(f) \in Nat
           /\ n \in Node /\ pool'[n] = <<Isr, "send">>
           /\ \A m \in Node : m # n => pool'[m] = pool[m]
           /\ \A u \in Thread : node[u] # n
           /\ n \notin ToSet(q)
<1>0. /\ SlotTypes /\ Parted(ToSet(q), ToSet(f), node)
      /\ \A u \in Thread : Held(u)
      /\ Linked(next, q, msg_queue_head) /\ Linked(next, f, n)
      /\ \A m \in ToSet(q) : pool[m] \in Msg
      /\ entry = Len(q) /\ msg_queue_tail = (IF q = <<>> THEN Nil ELSE q[Len(q)])
  BY DEF SlotsIn
<1>1. PICK nx, last : nx = [next EXCEPT ![n] = Nil] /\ last = msg_queue_tail  OBVIOUS
<1>2. /\ n # Nil /\ msg_queue_free' = next[n] /\ pool' = [pool EXCEPT ![n] = <<Isr, "send">>]
      /\ LinkLast(n, nx) /\ UNCHANGED callVars
  BY <1>1 DEF SendFromInterrupt
<1>3. /\ n \in ToSet(f) /\ n \in Node /\ Linked(next, Tail(f), next[n])
      /\ ToSet(Tail(f)) = ToSet(f) \ {n} /\ Len(Tail(f)) = Len(f) - 1 /\ Len(f) \in Nat
  BY <1>0, <1>2, LinkedTail
<1>4. ToSet(q) \in SUBSET Node /\ ToSet(f) \in SUBSET Node  BY <1>0, LinkedSubset
<1>5. n \notin ToSet(q) /\ \A u \in Thread : node[u] # n  BY <1>0, <1>3 DEF Parted
<1>6. /\ nx \in [Node -> Node \union {Nil}] /\ nx[n] = Nil
      /\ \A m \in Node : m # n => nx[m] = next[m]
  BY <1>0, <1>1, <1>3 DEF SlotTypes
<1>7. Linked(nx, q, msg_queue_head)
  <2>1. \A m \in ToSet(q) : nx[m] = next[m]  BY <1>4, <1>5, <1>6
  <2> QED  BY <1>0, <2>1, LinkedElsewhere
<1>8. last = (IF q = <<>> THEN Nil ELSE q[Len(q)]) /\ (last # Nil => last \in ToSet(q) /\ last \in Node)
  <2>1. q \in Seq(Node) /\ DOMAIN q = 1..Len(q) /\ (q # <<>> => Len(q) \in 1..Len(q))
    BY <1>0, EmptySeq, LenProperties DEF Linked
  <2> QED  BY <1>0, <1>1, <2>1, ElementOfSeq DEF ToSet
<1>9. /\ next' = IF last # Nil THEN [nx EXCEPT ![last] = n] ELSE nx
      /\ msg_queue_tail' = n /\ entry' = entry + 1
      /\ msg_queue_head' = IF msg_queue_head = Nil THEN n ELSE msg_queue_head
  BY <1>1, <1>2 DEF LinkLast
<1>10. (last # Nil => next'[last] = n) /\ \A m \in Node : m # last => next'[m] = nx[m]
  BY <1>6, <1>8, <1>9
<1>11. /\ Linked(next', Append(q, n), IF msg_queue_head = Nil THEN n ELSE msg_queue_head)
       /\ ToSet(Append(q, n)) = ToSet(q) \union {n}
       /\ Len(Append(q, n)) = Len(q) + 1 /\ Len(q) \in Nat /\ Append(q, n)[Len(q) + 1] = n
  BY <1>3, <1>5, <1>6, <1>7, <1>8, <1>10, LinkedAppend
<1>12. next' \in [Node -> Node \union {Nil}]  BY <1>3, <1>6, <1>8, <1>9
<1>13. \A m \in Node : m # n /\ m \notin ToSet(q) => next'[m] = next[m]
  <2> SUFFICES ASSUME NEW m \in Node, m # n, m \notin ToSet(q)  PROVE next'[m] = next[m]
    OBVIOUS
  <2>1. m # last  BY <1>8, MqAssumption
  <2> QED  BY <2>1, <1>6, <1>10
<1>14. Linked(next', Tail(f), msg_queue_free')
  <2>1. \A m \in ToSet(Tail(f)) : next'[m] = next[m]  BY <1>0, <1>3, <1>4, <1>13 DEF Parted
  <2> QED  BY <1>2, <1>3, <2>1, LinkedElsewhere
<1>15. /\ pool' \in [Node -> Msg \union {Nil}] /\ pool'[n] = <<Isr, "send">> /\ <<Isr, "send">> \in Msg
       /\ \A m \in Node : m # n => pool'[m] = pool[m]
  <2>1. <<Isr, "send">> \in Msg  BY DEF Msg
  <2> QED  BY <2>1, <1>0, <1>2, <1>3 DEF SlotTypes
<1>16. UNCHANGED <<pc, node, buffer>>  BY <1>2 DEF callVars
<1>17. SlotTypes'  BY <1>0, <1>12, <1>15, <1>16 DEF SlotTypes
<1>18. ASSUME NEW u \in Thread  PROVE Held(u)'
  <2>1. node[u] # Nil => node[u] # n /\ node[u] \in Node /\ node[u] \notin ToSet(q)
    BY <1>0, <1>5 DEF Parted, SlotTypes
  <2> QED  BY <2>1, <1>0, <1>13, <1>15, <1>16, HeldKept
<1>19. Parted(ToSet(Append(q, n)), ToSet(Tail(f)), node')
  <2>1. node \in [Thread -> Node \union {Nil}]  BY <1>0 DEF SlotTypes
  <2>2. PICK A, B, C, D : A = ToSet(q) /\ B = ToSet(f) /\ C = A \union {n} /\ D = B \ {n}  OBVIOUS
  <2>3. Parted(A, B, node) /\ n \in B /\ n \in Node  BY <1>0, <1>3, <2>2
  <2>4. C = A \union {n} /\ D = B \ {n}  BY <2>2
  <2>5. Parted(C, D, node)  BY <2>1, <2>3, <2>4, PartedMove
  <2> QED  BY <1>3, <1>11, <1>16, <2>2, <2>5
<1>20. Append(q, n) # <<>>
  <2>1. Len(<<>>) = 0 /\ Len(Append(q, n)) # 0  BY <1>11
  <2> QED  BY <2>1
<1>21. \A m \in ToSet(Append(q, n)) : pool'[m] \in Msg  BY <1>0, <1>4, <1>11, <1>15
<1>22. /\ entry' = Len(Append(q, n)) /\ Linked(next', Append(q, n), msg_queue_head')
       /\ msg_queue_tail' = Append(q, n)[Len(Append(q, n))]
  BY <1>0, <1>9, <1>11
<1>23. SlotsIn(Append(q, n), Tail(f))'
  BY <1>14, <1>17, <1>18, <1>19, <1>20, <1>21, <1>22 DEF SlotsIn
<1> QED  BY <1>3, <1>5, <1>15, <1>23

\* The message has been copied out of the slot.
LEMMA CopyOutSlots ==
    ASSUME NEW q, NEW f, SlotsIn(q, f), CallTypes, NEW t \in Thread, CopyOut(t)
    PROVE  SlotsIn(q, f)' /\ buffer'[t] = pool[node[t]]
<1>0. /\ SlotTypes /\ \A u \in Thread : Held(u)  BY DEF SlotsIn
<1>1. /\ buffer' = [buffer EXCEPT ![t] = pool[node[t]]] /\ pc' = [pc EXCEPT ![t] = "free"]
      /\ UNCHANGED <<queueVars, node>> /\ pc[t] = "copy_out"
  BY DEF CopyOut, Goto
<1>2. pool[node[t]] \in Msg /\ node[t] # Nil  BY <1>0, <1>1 DEF Held, CopyPlaces
<1>3. UNCHANGED <<msg_queue_head, msg_queue_tail, msg_queue_free, entry, next, pool>>
  BY <1>1 DEF queueVars
<1>4. SlotTypes'  BY <1>0, <1>1, <1>2, <1>3 DEF SlotTypes
<1>5. buffer'[t] = pool[node[t]]  BY <1>0, <1>1 DEF SlotTypes
<1>6. ASSUME NEW u \in Thread  PROVE Held(u)'
  <2>1. CASE u = t
    <3>1. pc'[u] = "free" /\ node'[u] = node[u] /\ node[u] # Nil /\ buffer'[u] \in Msg
      BY <2>1, <1>1, <1>2, <1>5 DEF CallTypes
    <3> QED  BY <3>1 DEF Held, CopyPlaces
  <2>2. CASE u # t
    <3>1. pc'[u] = pc[u] /\ node'[u] = node[u] /\ buffer'[u] = buffer[u]
      BY <2>2, <1>0, <1>1 DEF CallTypes, SlotTypes
    <3> QED  BY <3>1, <1>0, <1>3, HeldKept
  <2> QED  BY <2>1, <2>2
<1> QED  BY <1>1, <1>3, <1>4, <1>5, <1>6 DEF SlotsIn

\* The slots do not change and no thread begins or ends a copy.
LEMMA SameSlots ==
    ASSUME NEW q, NEW f, SlotsIn(q, f), UNCHANGED <<queueVars, node>>,
           buffer' \in [Thread -> Msg \union {Nil}],
           \A u \in Thread : pc'[u] \in CopyPlaces \/ pc[u] \in CopyPlaces =>
                                pc'[u] = pc[u] /\ buffer'[u] = buffer[u]
    PROVE  SlotsIn(q, f)'
<1>1. UNCHANGED <<msg_queue_head, msg_queue_tail, msg_queue_free, entry, next, pool>>
  BY DEF queueVars
<1>2. SlotTypes'  BY <1>1 DEF SlotTypes, SlotsIn
<1>3. ASSUME NEW u \in Thread  PROVE Held(u)'
  <2>0. Held(u)  BY DEF SlotsIn
  <2>1. CASE pc[u] \in CopyPlaces \/ pc'[u] \in CopyPlaces
    BY <2>0, <2>1, <1>1, HeldKept
  <2>2. CASE pc[u] \notin CopyPlaces /\ pc'[u] \notin CopyPlaces
    <3>1. node'[u] = Nil  BY <2>0, <2>2 DEF Held
    <3>2. pc'[u] \notin {"link", "link_urgent", "copy_out", "free"}  BY <2>2 DEF CopyPlaces
    <3> QED  BY <2>2, <3>1, <3>2 DEF Held
  <2> QED  BY <2>1, <2>2
<1> QED  BY <1>1, <1>2, <1>3 DEF SlotsIn

\* rt_mq_init chains all the slots into the free list.
LEMMA SlotsInit == Init => \E q, f : SlotsIn(q, f)
<1> SUFFICES ASSUME Init
             PROVE  \E q, f : SlotsIn(q, f)
  OBVIOUS
<1> DEFINE sl == Slots
           N == Len(sl)
           f == [k \in 1..N |-> sl[(N + 1) - k]]
<1>0. IsFiniteSet(Node) /\ Node # {} /\ Nil \notin Node  BY MqAssumption
<1>1. sl \in Seq(Node) /\ ToSet(sl) = Node /\ IsInjective(sl)  BY <1>0, SetToSeqFacts DEF Slots
<1>2. N \in Nat /\ DOMAIN sl = 1..N /\ \A k \in 1..N : sl[k] \in Node
  BY <1>1, LenProperties, ElementOfSeq
<1>3. sl # <<>> /\ N > 0
  <2>1. sl # <<>>  BY <1>0, <1>1 DEF ToSet
  <2> QED  BY <2>1, <1>1, EmptySeq
<1>4. /\ msg_queue_head = Nil /\ msg_queue_tail = Nil /\ entry = 0 /\ msg_queue_free = sl[N]
      /\ next = [n \in Node |-> IF n = Head(sl) THEN Nil ELSE sl[CHOOSE k \in 1..(N - 1) : sl[k + 1] = n]]
      /\ pool = [n \in Node |-> Nil] /\ pc = [t \in Thread |-> "run"]
      /\ node = [t \in Thread |-> Nil] /\ buffer = [t \in Thread |-> Nil]
  BY DEF Init, Last
<1>5. Head(sl) = sl[1]  BY <1>1, <1>3, TailIsRemoveAt
<1> HIDE DEF sl
<1>6. N \in Nat /\ N > 0  BY <1>2, <1>3
<1> HIDE DEF N
<1>7. \A j, k \in 1..N : sl[j] = sl[k] => j = k  BY <1>1, <1>2 DEF IsInjective
<1>8. next[sl[1]] = Nil /\ \A j \in 1..(N - 1) : next[sl[j + 1]] = sl[j]
  <2>1. 1 \in 1..N  BY <1>6
  <2>2. ASSUME NEW j \in 1..(N - 1)  PROVE next[sl[j + 1]] = sl[j]
    <3>1. j + 1 \in 1..N /\ j \in 1..N /\ j + 1 # 1  BY <1>6
    <3>2. sl[j + 1] \in Node /\ sl[j + 1] # sl[1]  BY <3>1, <2>1, <1>2, <1>7
    <3>3. next[sl[j + 1]] = sl[CHOOSE k \in 1..(N - 1) : sl[k + 1] = sl[j + 1]]
      BY <1>4, <1>5, <3>2
    <3>4. \A k \in 1..(N - 1) : sl[k + 1] = sl[j + 1] => k = j
      <4> SUFFICES ASSUME NEW k \in 1..(N - 1), sl[k + 1] = sl[j + 1]  PROVE k = j
        OBVIOUS
      <4>1. k + 1 \in 1..N  BY <1>6
      <4>2. k + 1 = j + 1  BY <4>1, <3>1, <1>7
      <4> QED  BY <4>2
    <3>5. (CHOOSE k \in 1..(N - 1) : sl[k + 1] = sl[j + 1]) = j  BY <3>4
    <3> QED  BY <3>3, <3>5
  <2> QED  BY <2>1, <2>2, <1>2, <1>4, <1>5
<1>9. f \in Seq(Node) /\ Len(f) = N /\ DOMAIN f = 1..N /\ \A k \in 1..N : f[k] = sl[(N + 1) - k]
  <2>1. ASSUME NEW k \in 1..N  PROVE sl[(N + 1) - k] \in Node
    <3>1. (N + 1) - k \in 1..N  BY <1>6
    <3> QED  BY <3>1, <1>2
  <2>2. f \in [1..N -> Node]  BY <2>1
  <2>3. f \in Seq(Node)  BY <2>2, <1>6, SeqDef
  <2>4. DOMAIN f = 1..N /\ DOMAIN f = 1..Len(f) /\ Len(f) \in Nat  BY <2>3, LenProperties
  <2>5. Len(f) = N  BY <2>3, <2>2, <1>6, LenProperties
  <2> QED  BY <2>3, <2>4, <2>5
<1> HIDE DEF f
<1>10. IsInjective(f)
  <2> SUFFICES ASSUME NEW j \in 1..N, NEW k \in 1..N, f[j] = f[k]  PROVE j = k
    BY <1>9 DEF IsInjective
  <2>1. (N + 1) - j \in 1..N /\ (N + 1) - k \in 1..N  BY <1>6
  <2>2. (N + 1) - j = (N + 1) - k  BY <1>7, <1>9, <2>1
  <2> QED  BY <2>2, <1>6
<1>11. ToSet(f) = Node
  <2>1. ASSUME NEW n \in Node  PROVE n \in ToSet(f)
    <3>1. PICK k \in 1..N : sl[k] = n  BY <1>1, <1>2 DEF ToSet
    <3>2. (N + 1) - k \in 1..N /\ (N + 1) - ((N + 1) - k) = k  BY <1>6
    <3>3. f[(N + 1) - k] = n  BY <1>9, <3>1, <3>2
    <3> QED  BY <1>9, <3>2, <3>3 DEF ToSet
  <2>2. \A k \in 1..N : f[k] \in Node  BY <1>9, ElementOfSeq
  <2> QED  BY <1>9, <2>1, <2>2 DEF ToSet
<1>12. Linked(next, f, msg_queue_free)
  <2>1. f # <<>>
    <3>1. Len(<<>>) = 0 /\ Len(f) # 0  BY <1>6, <1>9
    <3> QED  BY <3>1
  <2>2. msg_queue_free = f[1]
    <3>1. 1 \in 1..N /\ (N + 1) - 1 = N  BY <1>6
    <3> QED  BY <3>1, <1>4, <1>9
  <2>3. ASSUME NEW k \in 1..Len(f)  PROVE next[f[k]] = IF k = Len(f) THEN Nil ELSE f[k + 1]
    <3>0. k \in 1..N /\ Len(f) = N /\ f[k] = sl[(N + 1) - k]  BY <1>9
    <3>1. CASE k = N
      <4>1. (N + 1) - k = 1  BY <3>1, <1>6
      <4> QED  BY <3>0, <3>1, <4>1, <1>8
    <3>2. CASE k # N
      <4>1. N - k \in 1..(N - 1) /\ (N - k) + 1 = (N + 1) - k  BY <3>0, <3>2, <1>6
      <4>2. k + 1 \in 1..N /\ (N + 1) - (k + 1) = N - k  BY <3>0, <3>2, <1>6
      <4>3. next[sl[(N - k) + 1]] = sl[N - k]  BY <4>1, <1>8
      <4>4. f[k + 1] = sl[N - k]  BY <4>2, <1>9
      <4> QED  BY <3>0, <3>2, <4>1, <4>3, <4>4
    <3> QED  BY <3>1, <3>2
  <2> QED  BY <1>9, <1>10, <2>1, <2>2, <2>3 DEF Linked
<1>13. Len(<<>>) = 0 /\ ToSet(<<>>) = {} /\ <<>> \in Seq(Node) /\ IsInjective(<<>>)
  BY DEF ToSet, IsInjective
<1>14. Linked(next, <<>>, msg_queue_head)  BY <1>4, <1>13 DEF Linked
<1>15. SlotTypes
  <2>1. \A j \in 1..(N - 1) : sl[j] \in Node
    <3>1. \A j \in 1..(N - 1) : j \in 1..N  BY <1>6
    <3> QED  BY <3>1, <1>2
  <2>2. ASSUME NEW n \in Node  PROVE next[n] \in Node \union {Nil}
    <3>1. PICK k \in 1..N : sl[k] = n  BY <1>1, <1>2 DEF ToSet
    <3>2. CASE k = 1  BY <3>1, <3>2, <1>8
    <3>3. CASE k # 1
      <4>1. k - 1 \in 1..(N - 1) /\ (k - 1) + 1 = k  BY <3>3, <1>6
      <4>2. next[sl[(k - 1) + 1]] = sl[k - 1]  BY <4>1, <1>8
      <4> QED  BY <3>1, <4>1, <4>2, <2>1
    <3> QED  BY <3>2, <3>3
  <2>3. next \in [Node -> Node \union {Nil}]  BY <1>4, <2>2
  <2> QED  BY <1>4, <2>3 DEF SlotTypes
<1>16. \A t \in Thread : Held(t)  BY <1>4 DEF Held, CopyPlaces
<1>17. Parted(ToSet(<<>>), ToSet(f), node)  BY <1>0, <1>4, <1>11, <1>13 DEF Parted
<1>18. SlotsIn(<<>>, f)  BY <1>4, <1>12, <1>13, <1>14, <1>15, <1>16, <1>17 DEF SlotsIn
<1> QED  BY <1>18
-----------------------------------------------------------------------------
(* What the steps do to the queue that the callers see.                    *)

\* The message that a thread has received: Received at the thread.
Got(t) == CASE pc[t] = "copy_out" -> pool[node[t]] [] pc[t] = "free" -> buffer[t] [] OTHER -> Nil

\* A step of MessageQueue, on chains.
QueueStep(q, q2) ==
    \/ /\ q2 = q /\ \A m \in ToSet(q) : pool'[m] = pool[m]
       /\ \A u \in Thread : Got(u)' = Got(u)
    \/ \E n \in Node \ ToSet(q) :
          /\ q2 = Append(q, n) /\ pool'[n] \in Msg /\ pool'[n] \notin Urgent
          /\ \A m \in ToSet(q) : pool'[m] = pool[m]
          /\ \A u \in Thread : Got(u)' = Got(u)
    \/ \E n \in Node \ ToSet(q) :
          /\ q2 = <<n>> \o q /\ pool'[n] \in Msg /\ pool'[n] \in Urgent
          /\ \A m \in ToSet(q) : pool'[m] = pool[m]
          /\ \A u \in Thread : Got(u)' = Got(u)
    \/ \E t \in Thread :
          /\ q # <<>> /\ q2 = Tail(q) /\ UNCHANGED pool
          /\ Got(t) = Nil /\ Got(t)' = pool[q[1]]
          /\ \A u \in Thread : u # t => Got(u)' = Got(u)
    \/ \E t \in Thread :
          /\ q2 = q /\ UNCHANGED pool
          /\ Got(t) \in Msg /\ Got(t)' = Nil
          /\ \A u \in Thread : u # t => Got(u)' = Got(u)

\* A thread that copies nothing has received nothing.
LEMMA GotNothing ==
    ASSUME NEW u \in Thread
    PROVE  /\ pc[u] \notin {"copy_out", "free"} => Got(u) = Nil
           /\ pc'[u] \notin {"copy_out", "free"} => Got(u)' = Nil
  BY DEF Got

LEMMA GotSame ==
    ASSUME NEW u \in Thread, pc'[u] = pc[u], node'[u] = node[u], buffer'[u] = buffer[u],
           pc[u] = "copy_out" => pool'[node[u]] = pool[node[u]]
    PROVE  Got(u)' = Got(u)
<1>1. CASE pc[u] = "copy_out"  BY <1>1 DEF Got
<1>2. CASE pc[u] = "free"  BY <1>2 DEF Got
<1>3. CASE pc[u] \notin {"copy_out", "free"}  BY <1>3, GotNothing
<1> QED  BY <1>1, <1>2, <1>3

\* A thread goes on from one place to another and copies at neither.
LEMMA ProceedQueue ==
    ASSUME NEW q, NEW f, SlotsIn(q, f), CallTypes, NEW t \in Thread, pc[t] \notin CopyPlaces,
           NEW place, place \notin CopyPlaces, Goto(t, place), UNCHANGED <<queueVars, node>>,
           buffer' = buffer \/ buffer' = [buffer EXCEPT ![t] = Nil]
    PROVE  SlotsIn(q, f)' /\ QueueStep(q, q)
<1>0. SlotTypes  BY DEF SlotsIn
<1>1. /\ \A u \in Thread : u # t => pc'[u] = pc[u] /\ buffer'[u] = buffer[u] /\ node'[u] = node[u]
      /\ pc'[t] = place /\ buffer' \in [Thread -> Msg \union {Nil}]
  BY <1>0 DEF Goto, CallTypes, SlotTypes
<1>2. UNCHANGED pool  BY DEF queueVars
<1>3. SlotsIn(q, f)'  BY <1>1, SameSlots
<1>4. ASSUME NEW u \in Thread  PROVE Got(u)' = Got(u)
  <2>1. CASE u = t
    <3>1. pc[u] \notin {"copy_out", "free"} /\ pc'[u] \notin {"copy_out", "free"}
      BY <2>1, <1>1 DEF CopyPlaces
    <3> QED  BY <3>1, GotNothing
  <2>2. CASE u # t  BY <2>2, <1>1, <1>2, GotSame
  <2> QED  BY <2>1, <2>2
<1> QED  BY <1>2, <1>3, <1>4 DEF QueueStep

\* No thread goes on.
LEMMA StayQueue ==
    ASSUME NEW q, NEW f, SlotsIn(q, f), UNCHANGED <<queueVars, pc, node, buffer>>
    PROVE  SlotsIn(q, f)' /\ QueueStep(q, q)
<1>1. SlotTypes /\ UNCHANGED pool  BY DEF SlotsIn, queueVars
<1>2. SlotsIn(q, f)'  BY <1>1, SameSlots DEF SlotTypes
<1>3. \A u \in Thread : Got(u)' = Got(u)  BY <1>1, GotSame
<1> QED  BY <1>1, <1>2, <1>3 DEF QueueStep

LEMMA TakeSlotQueue ==
    ASSUME NEW q, NEW f, SlotsIn(q, f), CallTypes, NEW t \in Thread, pc[t] \notin CopyPlaces,
           msg_queue_free # Nil, TakeSlot(t), NEW place \in {"copy_in", "copy_in_urgent"}, Goto(t, place)
    PROVE  QueueStep(q, q)
<1>1. SlotTypes  BY DEF SlotsIn
<1>2. /\ \A u \in Thread : u # t => pc'[u] = pc[u] /\ buffer'[u] = buffer[u] /\ node'[u] = node[u]
      /\ pc'[t] = place /\ UNCHANGED pool
  BY <1>1 DEF Goto, CallTypes, SlotTypes, TakeSlot
<1>3. ASSUME NEW u \in Thread  PROVE Got(u)' = Got(u)
  <2>1. CASE u = t
    <3>1. pc[u] \notin {"copy_out", "free"} /\ pc'[u] \notin {"copy_out", "free"}
      BY <2>1, <1>2 DEF CopyPlaces
    <3> QED  BY <3>1, GotNothing
  <2>2. CASE u # t  BY <2>2, <1>2, GotSame
  <2> QED  BY <2>1, <2>2
<1> QED  BY <1>2, <1>3 DEF QueueStep

LEMMA TakeMessageQueue ==
    ASSUME NEW q, NEW f, SlotsIn(q, f), CallTypes, NEW t \in Thread, pc[t] \notin CopyPlaces,
           entry > 0, TakeMessage(t)
    PROVE  QueueStep(q, Tail(q))
<1>1. SlotTypes  BY DEF SlotsIn
<1>2. /\ \A u \in Thread : u # t => pc'[u] = pc[u] /\ buffer'[u] = buffer[u] /\ node'[u] = node[u]
      /\ pc'[t] = "copy_out" /\ node'[t] = msg_queue_head /\ UNCHANGED pool
  BY <1>1 DEF Goto, CallTypes, SlotTypes, TakeMessage
<1>3. q # <<>> /\ msg_queue_head = q[1]  BY TakeMessageSlots
<1>4. pc[t] \notin {"copy_out", "free"}  BY DEF CopyPlaces
<1>5. Got(t) = Nil  BY <1>4, GotNothing
<1>6. Got(t)' = pool[q[1]]  BY <1>2, <1>3 DEF Got
<1>7. \A u \in Thread : u # t => Got(u)' = Got(u)  BY <1>2, GotSame
<1> QED  BY <1>2, <1>3, <1>5, <1>6, <1>7 DEF QueueStep

LEMMA CopyInQueue ==
    ASSUME NEW q, NEW f, SlotsIn(q, f), CallTypes, NEW t \in Thread, CopyIn(t)
    PROVE  QueueStep(q, q)
<1>0. SlotTypes /\ Parted(ToSet(q), ToSet(f), node) /\ \A u \in Thread : Held(u)  BY DEF SlotsIn
<1>1. \A m \in ToSet(q) : pool'[m] = pool[m]  BY CopyInSlots
<1>2. /\ \A u \in Thread : u # t => pc'[u] = pc[u]
      /\ UNCHANGED <<buffer, node>> /\ pc'[t] \in {"link", "link_urgent"}
      /\ pc[t] \in {"copy_in", "copy_in_urgent"}
      /\ \A m \in Node : m # node[t] => pool'[m] = pool[m]
  BY <1>0 DEF Goto, CallTypes, SlotTypes, CopyIn
<1>3. ASSUME NEW u \in Thread  PROVE Got(u)' = Got(u)
  <2>1. CASE u = t
    <3>1. pc[u] \notin {"copy_out", "free"} /\ pc'[u] \notin {"copy_out", "free"}  BY <2>1, <1>2
    <3> QED  BY <3>1, GotNothing
  <2>2. CASE u # t
    <3>1. pc[u] = "copy_out" => node[u] # Nil  BY <1>0 DEF Held, CopyPlaces
    <3>2. node[u] # Nil => node[u] # node[t] /\ node[u] \in Node  BY <2>2, <1>0 DEF Parted, SlotTypes
    <3> QED  BY <2>2, <3>1, <3>2, <1>2, GotSame
  <2> QED  BY <2>1, <2>2
<1> QED  BY <1>1, <1>3 DEF QueueStep

\* Which messages are urgent.
LEMMA Messages ==
    ASSUME NEW t \in Thread \union {Isr}
    PROVE  /\ <<t, "send">> \in Msg /\ <<t, "send">> \notin Urgent
           /\ <<t, "urgent">> \in Msg /\ <<t, "urgent">> \in Urgent
  BY DEF Msg, Urgent

LEMMA LinkQueue ==
    ASSUME NEW q, NEW f, SlotsIn(q, f), CallTypes, NEW t \in Thread, Link(t)
    PROVE  \E q2, f2 : SlotsIn(q2, f2)' /\ QueueStep(q, q2)
<1>0. SlotTypes /\ Parted(ToSet(q), ToSet(f), node) /\ \A u \in Thread : Held(u)  BY DEF SlotsIn
<1>1. PICK n : n = node[t]  OBVIOUS
<1>2. /\ n \in Node /\ UNCHANGED pool /\ \A u \in Thread \ {t} : pc'[u] = pc[u]
      /\ pc[t] = "link" => SlotsIn(Append(q, n), f)' /\ pool[n] = <<t, "send">>
      /\ pc[t] = "link_urgent" => SlotsIn(<<n>> \o q, f)' /\ pool[n] = <<t, "urgent">>
      /\ pc[t] \in {"link", "link_urgent"}
  BY <1>1, LinkSlots
<1>3. n \notin ToSet(q)  BY <1>0, <1>1 DEF Parted
<1>4. pc'[t] \in {"sched", "back"}  BY DEF Link, Wake, Goto, CallTypes
<1>5. \A u \in Thread : u # t => node'[u] = node[u] /\ buffer'[u] = buffer[u]
  BY <1>0 DEF Link, SlotTypes
<1>6. ASSUME NEW u \in Thread  PROVE Got(u)' = Got(u)
  <2>1. CASE u = t
    <3>1. pc[u] \notin {"copy_out", "free"} /\ pc'[u] \notin {"copy_out", "free"}  BY <2>1, <1>2, <1>4
    <3> QED  BY <3>1, GotNothing
  <2>2. CASE u # t  BY <2>2, <1>2, <1>5, GotSame
  <2> QED  BY <2>1, <2>2
<1>7. CASE pc[t] = "link"
  <2>1. pool'[n] \in Msg /\ pool'[n] \notin Urgent  BY <1>2, <1>7, Messages
  <2>2. QueueStep(q, Append(q, n))  BY <1>2, <1>3, <1>6, <2>1 DEF QueueStep
  <2> QED  BY <1>2, <1>7, <2>2
<1>8. CASE pc[t] = "link_urgent"
  <2>1. pool'[n] \in Msg /\ pool'[n] \in Urgent  BY <1>2, <1>8, Messages
  <2>2. QueueStep(q, <<n>> \o q)  BY <1>2, <1>3, <1>6, <2>1 DEF QueueStep
  <2> QED  BY <1>2, <1>8, <2>2
<1> QED  BY <1>2, <1>7, <1>8

LEMMA CopyOutQueue ==
    ASSUME NEW q, NEW f, SlotsIn(q, f), CallTypes, NEW t \in Thread, CopyOut(t)
    PROVE  QueueStep(q, q)
<1>0. SlotTypes  BY DEF SlotsIn
<1>1. buffer'[t] = pool[node[t]]  BY CopyOutSlots
<1>2. /\ pc[t] = "copy_out" /\ pc'[t] = "free" /\ UNCHANGED <<pool, node>>
      /\ \A u \in Thread : u # t => pc'[u] = pc[u] /\ buffer'[u] = buffer[u]
  BY <1>0 DEF CopyOut, queueVars, Goto, CallTypes, SlotTypes
<1>3. ASSUME NEW u \in Thread  PROVE Got(u)' = Got(u)
  <2>1. CASE u = t
    <3>1. Got(t) = pool[node[t]]  BY <1>2 DEF Got
    <3>2. Got(t)' = buffer'[t]  BY <1>2 DEF Got
    <3> QED  BY <2>1, <3>1, <3>2, <1>1
  <2>2. CASE u # t  BY <2>2, <1>2, GotSame
  <2> QED  BY <2>1, <2>2
<1> QED  BY <1>2, <1>3 DEF QueueStep

LEMMA FreeSlotQueue ==
    ASSUME NEW q, NEW f, SlotsIn(q, f), CallTypes, NEW t \in Thread, FreeSlot(t)
    PROVE  (\E f2 : SlotsIn(q, f2)') /\ QueueStep(q, q)
<1>0. SlotTypes /\ \A u \in Thread : Held(u)  BY DEF SlotsIn
<1>1. PICK n : n = node[t]  OBVIOUS
<1>2. /\ SlotsIn(q, <<n>> \o f)' /\ UNCHANGED pool
      /\ \A u \in Thread \ {t} : pc'[u] = pc[u]
      /\ pc'[t] \in {"sched", "back"}
  BY <1>1, FreeSlotSlots
<1>3. pc[t] = "free" /\ UNCHANGED buffer /\ \A u \in Thread : u # t => node'[u] = node[u]
  BY <1>0 DEF FreeSlot, SlotTypes
<1>4. Got(t) \in Msg
  <2>1. Got(t) = buffer[t]  BY <1>3 DEF Got
  <2> QED  BY <2>1, <1>0, <1>3 DEF Held
<1>5. Got(t)' = Nil
  <2>1. pc'[t] \notin {"copy_out", "free"}  BY <1>2
  <2> QED  BY <2>1, GotNothing
<1>6. \A u \in Thread : u # t => Got(u)' = Got(u)  BY <1>2, <1>3, GotSame
<1>7. QueueStep(q, q)  BY <1>2, <1>4, <1>5, <1>6 DEF QueueStep
<1> QED  BY <1>2, <1>7

LEMMA InterruptQueue ==
    ASSUME NEW q, NEW f, SlotsIn(q, f), SendFromInterrupt
    PROVE  \E q2, f2 : SlotsIn(q2, f2)' /\ QueueStep(q, q2)
<1>1. PICK n : n = msg_queue_free  OBVIOUS
<1>2. /\ SlotsIn(Append(q, n), Tail(f))' /\ n \in Node /\ pool'[n] = <<Isr, "send">>
      /\ \A m \in Node : m # n => pool'[m] = pool[m]
      /\ \A u \in Thread : node[u] # n
      /\ n \notin ToSet(q)
  BY <1>1, InterruptSlots
<1>3. UNCHANGED <<pc, node, buffer>>  BY DEF SendFromInterrupt, callVars
<1>4. \A m \in ToSet(q) : pool'[m] = pool[m]
  <2>1. ToSet(q) \in SUBSET Node  BY LinkedSubset DEF SlotsIn
  <2> QED  BY <1>2, <2>1
<1>5. ASSUME NEW u \in Thread  PROVE Got(u)' = Got(u)
  <2>1. pc[u] = "copy_out" => node[u] \in Node  BY DEF SlotsIn, Held, CopyPlaces, SlotTypes
  <2> QED  BY <2>1, <1>2, <1>3, GotSame
<1>6. pool'[n] \in Msg /\ pool'[n] \notin Urgent  BY <1>2, Messages
<1>7. QueueStep(q, Append(q, n))  BY <1>2, <1>4, <1>5, <1>6 DEF QueueStep
<1> QED  BY <1>2, <1>7

\* Every step of the kernel is a step of the queue of messages, or none.
LEMMA NextQueue ==
    ASSUME NEW q, NEW f, SlotsIn(q, f), Control, [Next]_vars
    PROVE  \E q2, f2 : SlotsIn(q2, f2)' /\ QueueStep(q, q2)
<1>0. CallTypes  BY DEF Control
<1>1. CASE Tick  BY <1>1, StayQueue DEF Tick
<1>2. CASE SendFromInterrupt  BY <1>2, InterruptQueue
<1>3. ASSUME NEW t \in Thread, ThreadStep(t)  PROVE \E q2, f2 : SlotsIn(q2, f2)' /\ QueueStep(q, q2)
  <2>f. Free(t) => pc[t] = "run"  BY DEF Free
  <2>c. \A p \in {"run", "back", "sched"} \union SendPlaces \union RecvPlaces : p \notin CopyPlaces
    BY DEF CopyPlaces, SendPlaces, RecvPlaces
  <2>s. ASSUME pc[t] \notin CopyPlaces, msg_queue_free # Nil, TakeSlot(t),
               NEW place \in {"copy_in", "copy_in_urgent"}, Goto(t, place)
        PROVE  \E q2, f2 : SlotsIn(q2, f2)' /\ QueueStep(q, q2)
    BY <2>s, <1>0, TakeSlotSlots, TakeSlotQueue
  <2>m. ASSUME pc[t] \notin CopyPlaces, entry > 0, TakeMessage(t)
        PROVE  \E q2, f2 : SlotsIn(q2, f2)' /\ QueueStep(q, q2)
    BY <2>m, <1>0, TakeMessageSlots, TakeMessageQueue
  <2>p. ASSUME pc[t] \notin CopyPlaces, NEW place, place \notin CopyPlaces, Goto(t, place),
               UNCHANGED <<queueVars, node>>, buffer' = buffer \/ buffer' = [buffer EXCEPT ![t] = Nil]
        PROVE  \E q2, f2 : SlotsIn(q2, f2)' /\ QueueStep(q, q2)
    BY <2>p, <1>0, ProceedQueue
  <2>w. ASSUME pc[t] \notin CopyPlaces, NEW list, NEW limit, NEW place, place \notin CopyPlaces,
               WaitIn(t, list, limit, place)
        PROVE  \E q2, f2 : SlotsIn(q2, f2)' /\ QueueStep(q, q2)
    BY <2>w, <2>p DEF WaitIn
  <2>e. ASSUME pc[t] \notin CopyPlaces, Ended(t), UNCHANGED queueVars
        PROVE  \E q2, f2 : SlotsIn(q2, f2)' /\ QueueStep(q, q2)
    BY <2>e, <2>c, <2>p DEF Ended
  <2>1. ASSUME NEW limit \in Timeout \union {RT_WAITING_NO, RT_WAITING_FOREVER}, RecvBegins(t, limit)
        PROVE  \E q2, f2 : SlotsIn(q2, f2)' /\ QueueStep(q, q2)
    <3>1. pc[t] \notin CopyPlaces /\ "recv_sched" \notin CopyPlaces  BY <2>1, <2>f DEF RecvBegins, CopyPlaces
    <3> QED  BY <2>1, <3>1, <2>m, <2>w DEF RecvBegins
  <2>2. ASSUME NEW limit \in Timeout \union {RT_WAITING_NO, RT_WAITING_FOREVER}, SendBegins(t, limit)
        PROVE  \E q2, f2 : SlotsIn(q2, f2)' /\ QueueStep(q, q2)
    <3>1. pc[t] \notin CopyPlaces /\ "send_sched" \notin CopyPlaces  BY <2>2, <2>f DEF SendBegins, CopyPlaces
    <3> QED  BY <2>2, <3>1, <2>s, <2>w DEF SendBegins
  <2>3. CASE UrgentBegins(t)
    <3>1. pc[t] \notin CopyPlaces  BY <2>3, <2>f DEF UrgentBegins, CopyPlaces
    <3> QED  BY <2>3, <3>1, <2>s DEF UrgentBegins
  <2>4. CASE Reschedule(t)
    <3>1. pc[t] \notin CopyPlaces  BY <2>4 DEF Reschedule, CopyPlaces
    <3>2. PICK place : place = CASE pc[t] = "send_sched" -> "send_back" [] pc[t] = "recv_sched" -> "recv_back"
                                 [] OTHER -> "back"
      OBVIOUS
    <3>3. place \notin CopyPlaces  BY <3>2 DEF CopyPlaces
    <3>4. Goto(t, place) /\ UNCHANGED <<queueVars, node>> /\ buffer' = buffer
      BY <2>4, <3>2 DEF Reschedule
    <3> QED  BY <3>1, <3>3, <3>4, <2>p
  <2>5. CASE SendRetries(t)
    <3>1. pc[t] \notin CopyPlaces /\ "send_sched" \notin CopyPlaces  BY <2>5 DEF SendRetries, CopyPlaces
    <3> QED  BY <2>5, <3>1, <2>s, <2>w, <2>e DEF SendRetries
  <2>6. CASE RecvRetries(t)
    <3>1. pc[t] \notin CopyPlaces /\ "recv_sched" \notin CopyPlaces  BY <2>6 DEF RecvRetries, CopyPlaces
    <3> QED  BY <2>6, <3>1, <2>m, <2>w, <2>e DEF RecvRetries
  <2>7. CASE CopyIn(t)  BY <2>7, <1>0, CopyInSlots, CopyInQueue
  <2>8. CASE Link(t)  BY <2>8, <1>0, LinkQueue
  <2>9. CASE CopyOut(t)  BY <2>9, <1>0, CopyOutSlots, CopyOutQueue
  <2>10. CASE FreeSlot(t)  BY <2>10, <1>0, FreeSlotQueue
  <2>11. CASE Return(t)
    <3>1. pc[t] \notin CopyPlaces  BY <2>11 DEF Return, CopyPlaces
    <3> QED  BY <2>11, <3>1, <2>e DEF Return
  <2>12. ASSUME NEW delay \in Timeout, MqSleep(t, delay)
         PROVE  \E q2, f2 : SlotsIn(q2, f2)' /\ QueueStep(q, q2)
    <3>1. pc[t] \notin CopyPlaces  BY <2>12, <2>f DEF MqSleep, CopyPlaces
    <3> QED  BY <2>12, <3>1, <2>c, <2>p DEF MqSleep
  <2> QED  BY <1>3, <2>1, <2>2, <2>3, <2>4, <2>5, <2>6, <2>7, <2>8, <2>9, <2>10, <2>11, <2>12 DEF ThreadStep
<1>4. CASE UNCHANGED vars  BY <1>4, StayQueue DEF vars, callVars
<1> QED  BY <1>1, <1>2, <1>3, <1>4 DEF Next

\* The messages in the slots of a chain.
Image(pl, s) == [k \in DOMAIN s |-> pl[s[k]]]

LEMMA ImageSeq ==
    ASSUME NEW S, NEW pl \in [Node -> S], NEW s \in Seq(Node)
    PROVE  /\ Image(pl, s) \in Seq(S) /\ Len(Image(pl, s)) = Len(s) /\ Len(s) \in Nat
           /\ \A k \in 1..Len(s) : Image(pl, s)[k] = pl[s[k]]
<1>1. Len(s) \in Nat /\ DOMAIN s = 1..Len(s) /\ \A k \in 1..Len(s) : s[k] \in Node
  BY LenProperties, ElementOfSeq
<1>2. Image(pl, s) \in [1..Len(s) -> S]  BY <1>1 DEF Image
<1>3. Image(pl, s) \in Seq(S)  BY <1>1, <1>2, SeqDef
<1>4. Len(Image(pl, s)) = Len(s)  BY <1>1, <1>2, <1>3, LenProperties
<1> QED  BY <1>1, <1>3, <1>4 DEF Image

LEMMA ImageAppend ==
    ASSUME NEW S, NEW pl \in [Node -> S], NEW s \in Seq(Node), NEW n \in Node
    PROVE  Image(pl, Append(s, n)) = Append(Image(pl, s), pl[n])
<1> DEFINE a == Image(pl, Append(s, n))
           b == Append(Image(pl, s), pl[n])
<1>1. /\ Append(s, n) \in Seq(Node) /\ Len(Append(s, n)) = Len(s) + 1 /\ Append(s, n)[Len(s) + 1] = n
      /\ \A j \in 1..Len(s) : Append(s, n)[j] = s[j]
  BY AppendProperties
<1>2. /\ Image(pl, s) \in Seq(S) /\ Len(Image(pl, s)) = Len(s) /\ Len(s) \in Nat
      /\ \A k \in 1..Len(s) : Image(pl, s)[k] = pl[s[k]]
  BY ImageSeq
<1>3. /\ a \in Seq(S) /\ Len(a) = Len(s) + 1
      /\ \A k \in 1..(Len(s) + 1) : a[k] = pl[Append(s, n)[k]]
  <2>1. PICK r : r = Append(s, n)  OBVIOUS
  <2>2. r \in Seq(Node) /\ Len(r) = Len(s) + 1  BY <1>1, <2>1
  <2>3. /\ Image(pl, r) \in Seq(S) /\ Len(Image(pl, r)) = Len(r)
        /\ \A k \in 1..Len(r) : Image(pl, r)[k] = pl[r[k]]
    BY <2>2, ImageSeq
  <2> QED  BY <2>1, <2>2, <2>3
<1>4. pl[n] \in S  OBVIOUS
<1>5. /\ b \in Seq(S) /\ Len(b) = Len(Image(pl, s)) + 1 /\ b[Len(Image(pl, s)) + 1] = pl[n]
      /\ \A j \in 1..Len(Image(pl, s)) : b[j] = Image(pl, s)[j]
  BY <1>2, <1>4, AppendProperties
<1> HIDE DEF a, b
<1>6. Len(b) = Len(s) + 1 /\ b[Len(s) + 1] = pl[n] /\ \A j \in 1..Len(s) : b[j] = pl[s[j]]
  BY <1>2, <1>5
<1>7. ASSUME NEW k \in 1..Len(a)  PROVE a[k] = b[k]
  <2>1. CASE k = Len(s) + 1  BY <2>1, <1>1, <1>3, <1>6
  <2>2. CASE k # Len(s) + 1
    <3>1. k \in 1..Len(s) /\ k \in 1..(Len(s) + 1)  BY <2>2, <1>2, <1>3
    <3> QED  BY <3>1, <1>1, <1>3, <1>6
  <2> QED  BY <2>1, <2>2
<1>8. a = b  BY <1>3, <1>5, <1>6, <1>7, SeqEqual
<1> QED  BY <1>8 DEF a, b

LEMMA ImageCons ==
    ASSUME NEW S, NEW pl \in [Node -> S], NEW s \in Seq(Node), NEW n \in Node
    PROVE  Image(pl, <<n>> \o s) = <<pl[n]>> \o Image(pl, s)
<1> DEFINE a == Image(pl, <<n>> \o s)
           b == <<pl[n]>> \o Image(pl, s)
<1>0. pl[n] \in S  OBVIOUS
<1>1. /\ <<n>> \o s \in Seq(Node) /\ Len(<<n>> \o s) = Len(s) + 1 /\ (<<n>> \o s)[1] = n
      /\ \A j \in 1..Len(s) : (<<n>> \o s)[j + 1] = s[j]
  BY ConsAt, ConsKeeps
<1>2. /\ Image(pl, s) \in Seq(S) /\ Len(Image(pl, s)) = Len(s) /\ Len(s) \in Nat
      /\ \A k \in 1..Len(s) : Image(pl, s)[k] = pl[s[k]]
  BY ImageSeq
<1>3. /\ a \in Seq(S) /\ Len(a) = Len(s) + 1
      /\ \A k \in 1..(Len(s) + 1) : a[k] = pl[(<<n>> \o s)[k]]
  <2>1. PICK r : r = <<n>> \o s  OBVIOUS
  <2>2. r \in Seq(Node) /\ Len(r) = Len(s) + 1  BY <1>1, <2>1
  <2>3. /\ Image(pl, r) \in Seq(S) /\ Len(Image(pl, r)) = Len(r)
        /\ \A k \in 1..Len(r) : Image(pl, r)[k] = pl[r[k]]
    BY <2>2, ImageSeq
  <2> QED  BY <2>1, <2>2, <2>3
<1>5. /\ b \in Seq(S) /\ Len(b) = Len(Image(pl, s)) + 1 /\ b[1] = pl[n]
      /\ \A j \in 1..Len(Image(pl, s)) : b[j + 1] = Image(pl, s)[j]
  BY <1>0, <1>2, ConsAt, ConsKeeps
<1> HIDE DEF a, b
<1>6. Len(b) = Len(s) + 1 /\ b[1] = pl[n] /\ \A j \in 1..Len(s) : b[j + 1] = pl[s[j]]
  BY <1>2, <1>5
<1>7. ASSUME NEW k \in 1..Len(a)  PROVE a[k] = b[k]
  <2>0. k \in 1..(Len(s) + 1)  BY <1>3
  <2>1. CASE k = 1  BY <2>0, <2>1, <1>1, <1>3, <1>6
  <2>2. CASE k # 1
    <3>1. PICK j \in 1..Len(s) : k = j + 1
      <4>1. k - 1 \in 1..Len(s) /\ k = (k - 1) + 1  BY <2>0, <2>2, <1>2
      <4> QED  BY <4>1
    <3> QED  BY <2>0, <3>1, <1>1, <1>3, <1>6
  <2> QED  BY <2>1, <2>2
<1>8. a = b
  <2>1. a \in Seq(S) /\ b \in Seq(S) /\ Len(a) = Len(b)  BY <1>3, <1>5, <1>6
  <2>2. \A k \in 1..Len(a) : a[k] = b[k]  BY <1>7
  <2> QED  BY <2>1, <2>2, SeqEqual
<1> QED  BY <1>8 DEF a, b

LEMMA ImageTail ==
    ASSUME NEW S, NEW pl \in [Node -> S], NEW s \in Seq(Node), s # <<>>
    PROVE  /\ Image(pl, Tail(s)) = Tail(Image(pl, s)) /\ Head(Image(pl, s)) = pl[s[1]]
           /\ Image(pl, s) # <<>>
<1> DEFINE a == Image(pl, Tail(s))
           i == Image(pl, s)
           b == Tail(i)
<1>1. Len(s) \in Nat /\ Len(s) > 0  BY EmptySeq
<1>2. /\ Tail(s) \in Seq(Node) /\ Len(Tail(s)) = Len(s) - 1
      /\ \A k \in 1..Len(Tail(s)) : Tail(s)[k] = s[k + 1]
  BY HeadTailProperties
<1>3. i \in Seq(S) /\ Len(i) = Len(s) /\ \A k \in 1..Len(s) : i[k] = pl[s[k]]  BY ImageSeq
<1>4. a \in Seq(S) /\ Len(a) = Len(Tail(s)) /\ \A k \in 1..Len(Tail(s)) : a[k] = pl[Tail(s)[k]]
  <2>1. PICK ts \in Seq(Node) : ts = Tail(s)  BY <1>2
  <2>2. /\ Image(pl, ts) \in Seq(S) /\ Len(Image(pl, ts)) = Len(ts)
        /\ \A k \in 1..Len(ts) : Image(pl, ts)[k] = pl[ts[k]]
    BY ImageSeq
  <2> QED  BY <2>1, <2>2
<1> HIDE DEF i, a
<1>5. i # <<>>
  <2>1. Len(<<>>) = 0 /\ Len(i) # 0  BY <1>1, <1>3
  <2> QED  BY <2>1
<1>6. b \in Seq(S) /\ Len(b) = Len(i) - 1 /\ \A k \in 1..Len(b) : b[k] = i[k + 1]
  BY <1>3, <1>5, HeadTailProperties
<1>7. Head(i) = i[1]  BY <1>3, <1>5, TailIsRemoveAt
<1> HIDE DEF b
<1>8. Len(a) = Len(s) - 1 /\ Len(b) = Len(s) - 1 /\ Len(Tail(s)) = Len(s) - 1  BY <1>2, <1>3, <1>4, <1>6
<1>9. ASSUME NEW k \in 1..Len(a)  PROVE a[k] = b[k]
  <2>1. k \in 1..Len(Tail(s)) /\ k \in 1..Len(b)  BY <1>8
  <2>2. k + 1 \in 1..Len(s)  BY <1>1, <1>8
  <2>3. i[k + 1] = pl[s[k + 1]]  BY <2>2, <1>3
  <2>4. a[k] = pl[s[k + 1]]  BY <2>1, <1>2, <1>4
  <2> QED  BY <2>1, <2>3, <2>4, <1>6
<1>10. a = b  BY <1>4, <1>6, <1>8, <1>9, SeqEqual
<1>11. 1 \in 1..Len(s)  BY <1>1
<1> QED  BY <1>3, <1>5, <1>7, <1>10, <1>11 DEF a, b, i

\* A chain is no longer than there are slots.
LEMMA ChainBound ==
    ASSUME NEW s \in Seq(Node), IsInjective(s)
    PROVE  /\ Len(s) \in Nat /\ Cardinality(Node) \in Nat /\ Len(s) <= Cardinality(Node)
           /\ s \in Chains
<1>1. Len(s) \in Nat /\ DOMAIN s = 1..Len(s) /\ s \in [1..Len(s) -> Node]  BY LenProperties
<1>2. IsFiniteSet(Node) /\ Cardinality(Node) \in Nat  BY MqAssumption, FS_CardinalityType
<1>3. s \in Injection(1..Len(s), Node)  BY <1>1 DEF Injection, IsInjective
<1>4. Cardinality(1..Len(s)) = Len(s)  BY <1>1, FS_Interval
<1>5. Len(s) <= Cardinality(Node)  BY <1>2, <1>3, <1>4, FS_Injection
<1>6. Len(s) \in 0..Cardinality(Node)  BY <1>1, <1>2, <1>5
<1> QED  BY <1>1, <1>2, <1>5, <1>6 DEF Chains, SeqOf

LEMMA ChainsAreSeqs == \A s \in Chains : s \in Seq(Node)
<1>1. Cardinality(Node) \in Nat  BY MqAssumption, FS_CardinalityType
<1>2. ASSUME NEW m \in 0..Cardinality(Node), NEW s \in [1..m -> Node]  PROVE s \in Seq(Node)
  BY <1>1, <1>2, SeqDef
<1> QED  BY <1>2 DEF Chains, SeqOf

\* The chains that the properties speak of are those of the proof.
LEMMA ChainIs ==
    \A q, f : SlotsIn(q, f) => /\ q \in Chains /\ IsChain(q, msg_queue_head)
                               /\ f \in Chains /\ IsChain(f, msg_queue_free)
                               /\ Chain(msg_queue_head) = q /\ Chain(msg_queue_free) = f
<1>1. ASSUME NEW s, NEW first, Linked(next, s, first)
      PROVE  s \in Chains /\ IsChain(s, first) /\ Chain(first) = s
  <2>1. s \in Seq(Node) /\ IsInjective(s) /\ DOMAIN s = 1..Len(s)  BY <1>1, LenProperties DEF Linked
  <2>2. s \in Chains  BY <2>1, ChainBound
  <2>3. IsChain(s, first)
    <3>1. s # <<>> => Head(s) = s[1]  BY <2>1, TailIsRemoveAt
    <3> QED  BY <1>1, <2>1, <3>1 DEF Linked, IsChain
  <2>4. ASSUME NEW r \in Chains, IsChain(r, first)  PROVE r = s
    <3>1. r \in Seq(Node)  BY ChainsAreSeqs
    <3>2. DOMAIN r = 1..Len(r) /\ (r # <<>> => Head(r) = r[1])  BY <3>1, LenProperties, TailIsRemoveAt
    <3>3. /\ first = IF r = <<>> THEN Nil ELSE r[1]
          /\ \A k \in 1..Len(r) : next[r[k]] = IF k = Len(r) THEN Nil ELSE r[k + 1]
      BY <2>4, <3>2 DEF IsChain
    <3> QED  BY <1>1, <3>1, <3>3, LinkedUnique
  <2> QED  BY <2>2, <2>3, <2>4 DEF Chain
<1> QED  BY <1>1 DEF SlotsIn
-----------------------------------------------------------------------------
\* The inductive invariant of the message queue.
MqInv == Control /\ \E q, f : SlotsIn(q, f)

\* The invariant of the message queue holds in every reachable state.
THEOREM MqInvariant == Spec => []MqInv
<1>1. Init => MqInv  BY ControlInit, SlotsInit DEF MqInv
<1>2. MqInv /\ [Next]_vars => MqInv'
  <2> SUFFICES ASSUME MqInv, [Next]_vars
               PROVE  MqInv'
    OBVIOUS
  <2>1. PICK q, f : SlotsIn(q, f)  BY DEF MqInv
  <2>2. \E q2, f2 : SlotsIn(q2, f2)' /\ QueueStep(q, q2)  BY <2>1, NextQueue DEF MqInv
  <2>3. Control'  BY ControlNext DEF MqInv
  <2> QED  BY <2>2, <2>3 DEF MqInv
<1> QED  BY <1>1, <1>2, PTL DEF Spec

\* The slots of rt_mq_init are never lost, never in use twice and never reachable
\* from both chains, although a call holds its slot over two sections between
\* which other calls and the interrupt change the chains; entry and the ends of
\* the queue are what its chain says.
THEOREM MqNoSlotLost == Spec => []NoSlotLost
<1>1. MqInv => NoSlotLost
  <2> SUFFICES ASSUME MqInv
               PROVE  NoSlotLost
    OBVIOUS
  <2>1. PICK q, f : SlotsIn(q, f)  BY DEF MqInv
  <2>2. /\ q \in Chains /\ IsChain(q, msg_queue_head) /\ q \in Seq(Node)
        /\ f \in Chains /\ IsChain(f, msg_queue_free)
    BY <2>1, ChainIs DEF SlotsIn, Linked
  <2>3. /\ Parted(ToSet(q), ToSet(f), node) /\ node \in [Thread -> Node \union {Nil}]
        /\ entry = Len(q) /\ msg_queue_tail = IF q = <<>> THEN Nil ELSE q[Len(q)]
        /\ ToSet(q) \in SUBSET Node /\ ToSet(f) \in SUBSET Node
    BY <2>1, LinkedSubset DEF SlotsIn, SlotTypes
  <2>4. ToSet(q) \intersect ToSet(f) = {}  BY <2>3 DEF Parted
  <2>5. {node[t] : t \in InHand} = Node \ (ToSet(q) \union ToSet(f))
    <3>1. ASSUME NEW t \in InHand  PROVE node[t] \in Node /\ node[t] \notin ToSet(q) /\ node[t] \notin ToSet(f)
      BY <2>3 DEF InHand, Parted
    <3>2. ASSUME NEW n \in Node, n \notin ToSet(q), n \notin ToSet(f)
          PROVE  \E t \in InHand : node[t] = n
      <4>1. PICK t \in Thread : node[t] = n  BY <2>3, <3>2 DEF Parted
      <4>2. n # Nil  BY MqAssumption
      <4> QED  BY <4>1, <4>2 DEF InHand
    <3> QED  BY <3>1, <3>2
  <2>6. \A t, u \in InHand : node[t] = node[u] => t = u  BY <2>3 DEF InHand, Parted
  <2>7. Last(q) = q[Len(q)]  BY DEF Last
  <2> QED  BY <2>2, <2>3, <2>4, <2>5, <2>6, <2>7 DEF NoSlotLost
<1> QED  BY <1>1, MqInvariant, PTL

\* Types of the queue and of the callers' variables.
THEOREM MqTypeCorrect == Spec => []TypeOK
<1>1. MqInv => TypeOK
  <2> SUFFICES ASSUME MqInv
               PROVE  TypeOK
    OBVIOUS
  <2>0. Control  BY DEF MqInv
  <2>1. PICK q, f : SlotsIn(q, f)  BY DEF MqInv
  <2>2. KernelTypeOK  BY <2>0, KernelInvImplies DEF Control
  <2>3. /\ Linked(next, q, msg_queue_head) /\ Linked(next, f, msg_queue_free) /\ SlotTypes
        /\ entry = Len(q) /\ msg_queue_tail = IF q = <<>> THEN Nil ELSE q[Len(q)]
    BY <2>1 DEF SlotsIn
  <2>4. ASSUME NEW s, NEW first, Linked(next, s, first)
        PROVE  first \in Node \union {Nil} /\ (s # <<>> => s[Len(s)] \in Node)
    <3>1. s \in Seq(Node) /\ first = IF s = <<>> THEN Nil ELSE s[1]  BY <2>4 DEF Linked
    <3>2. s # <<>> => 1 \in 1..Len(s) /\ Len(s) \in 1..Len(s)  BY <3>1, EmptySeq
    <3> QED  BY <3>1, <3>2, ElementOfSeq
  <2>5. {msg_queue_head, msg_queue_tail, msg_queue_free} \subseteq Node \union {Nil}  BY <2>3, <2>4
  <2>6. entry \in 0..Cardinality(Node)
    <3>1. q \in Seq(Node) /\ IsInjective(q)  BY <2>3 DEF Linked
    <3>2. Len(q) \in Nat /\ Cardinality(Node) \in Nat /\ Len(q) <= Cardinality(Node)  BY <3>1, ChainBound
    <3> QED  BY <2>3, <3>2
  <2>7. pc \in [Thread -> {"run", "send_sched", "send_back", "recv_sched", "recv_back", "copy_in",
                           "copy_in_urgent", "link", "link_urgent", "copy_out", "free", "sched", "back"}]
    <3>1. Places = {"run", "send_sched", "send_back", "recv_sched", "recv_back", "copy_in",
                    "copy_in_urgent", "link", "link_urgent", "copy_out", "free", "sched", "back"}
      BY DEF Places, SendPlaces, RecvPlaces, CopyPlaces
    <3> QED  BY <2>0, <3>1 DEF Control, CallTypes
  <2> QED  BY <2>0, <2>2, <2>3, <2>5, <2>6, <2>7 DEF TypeOK, SlotTypes, Control, CallTypes, Ticks
<1> QED  BY <1>1, MqInvariant, PTL

\* The contents of the queue, from its chain.
ContentsOfChain == \A q, f : SlotsIn(q, f) => Contents = Image(pool, q)

LEMMA ContentsIs == ContentsOfChain
  BY ChainIs DEF ContentsOfChain, Contents, Image

LEMMA ReceivedIs == /\ Received = [t \in Thread |-> Got(t)]
                    /\ Received' = [t \in Thread |-> Got(t)']
  BY DEF Received, Got

\* Every step of the kernel is one of the abstract queue or leaves it alone.
LEMMA QueueRefines == MqInv /\ [Next]_vars => [Queue!Next]_<<Contents, Received>>
<1> SUFFICES ASSUME MqInv, [Next]_vars
             PROVE  [Queue!Next]_<<Contents, Received>>
  OBVIOUS
<1>1. PICK q, f : SlotsIn(q, f)  BY DEF MqInv
<1>2. PICK q2, f2 : SlotsIn(q2, f2)' /\ QueueStep(q, q2)  BY <1>1, NextQueue DEF MqInv
<1>3. Contents = Image(pool, q)  BY <1>1, ContentsIs DEF ContentsOfChain
<1>4. ContentsOfChain'  BY ContentsIs, PTL
<1>5. Contents' = Image(pool', q2)  BY <1>2, <1>4 DEF ContentsOfChain
<1>6. /\ pool \in [Node -> Msg \union {Nil}] /\ pool' \in [Node -> Msg \union {Nil}]
      /\ q \in Seq(Node) /\ DOMAIN q = 1..Len(q)
  BY <1>1, <1>2, LenProperties DEF SlotsIn, SlotTypes, Linked
<1>7. /\ Received = [t \in Thread |-> Got(t)] /\ Received' = [t \in Thread |-> Got(t)']
  BY ReceivedIs
<1>8. Nil \notin Msg  BY MqAssumption
<1>s. ASSUME \A m \in ToSet(q) : pool'[m] = pool[m]  PROVE Image(pool', q) = Image(pool, q)
  <2>1. \A k \in DOMAIN q : pool'[q[k]] = pool[q[k]]  BY <1>s DEF ToSet
  <2> QED  BY <2>1 DEF Image
<1>r. ASSUME \A u \in Thread : Got(u)' = Got(u)  PROVE Received' = Received
  BY <1>7, <1>r
<1>e. ASSUME NEW t \in Thread, NEW m, Got(t)' = m, \A u \in Thread : u # t => Got(u)' = Got(u)
      PROVE  Received' = [Received EXCEPT ![t] = m]
  BY <1>7, <1>e
<1>l. ASSUME NEW r \in Seq(Node), IsInjective(r), Len(r) = Len(q) + 1
      PROVE  Len(Contents) < Cardinality(Node)
  <2>1. Len(r) \in Nat /\ Cardinality(Node) \in Nat /\ Len(r) <= Cardinality(Node)  BY <1>l, ChainBound
  <2>2. Len(Contents) = Len(q) /\ Len(q) \in Nat  BY <1>3, <1>6, ImageSeq
  <2> QED  BY <1>l, <2>1, <2>2
<1>9. CASE /\ q2 = q /\ \A m \in ToSet(q) : pool'[m] = pool[m]
           /\ \A u \in Thread : Got(u)' = Got(u)
  BY <1>3, <1>5, <1>9, <1>s, <1>r
<1>10. ASSUME NEW n \in Node \ ToSet(q),
              q2 = Append(q, n), pool'[n] \in Msg, pool'[n] \notin Urgent,
              \A m \in ToSet(q) : pool'[m] = pool[m],
              \A u \in Thread : Got(u)' = Got(u)
       PROVE  \E m \in Msg : Queue!Put(m)
  <2>1. Contents' = Append(Contents, pool'[n])
    <3>1. Image(pool', Append(q, n)) = Append(Image(pool', q), pool'[n])  BY <1>6, ImageAppend
    <3> QED  BY <3>1, <1>3, <1>5, <1>10, <1>s
  <2>2. Len(Contents) < Cardinality(Node)
    <3>1. q2 \in Seq(Node) /\ IsInjective(q2)  BY <1>2 DEF SlotsIn, Linked
    <3>2. Len(q2) = Len(q) + 1  BY <1>6, <1>10, AppendProperties
    <3> QED  BY <3>1, <3>2, <1>l
  <2>3. Queue!Put(pool'[n])  BY <1>10, <2>1, <2>2, <1>r DEF Queue!Put
  <2> QED  BY <1>10, <2>3
<1>11. ASSUME NEW n \in Node \ ToSet(q),
              q2 = <<n>> \o q, pool'[n] \in Msg, pool'[n] \in Urgent,
              \A m \in ToSet(q) : pool'[m] = pool[m],
              \A u \in Thread : Got(u)' = Got(u)
       PROVE  \E m \in Msg : Queue!PutUrgent(m)
  <2>1. Contents' = <<pool'[n]>> \o Contents
    <3>1. Image(pool', <<n>> \o q) = <<pool'[n]>> \o Image(pool', q)  BY <1>6, ImageCons
    <3> QED  BY <3>1, <1>3, <1>5, <1>11, <1>s
  <2>2. Len(Contents) < Cardinality(Node)
    <3>1. q2 \in Seq(Node) /\ IsInjective(q2)  BY <1>2 DEF SlotsIn, Linked
    <3>2. Len(q2) = Len(q) + 1  BY <1>6, <1>11, ConsAt
    <3> QED  BY <3>1, <3>2, <1>l
  <2>3. Queue!PutUrgent(pool'[n])  BY <1>11, <2>1, <2>2, <1>r DEF Queue!PutUrgent
  <2> QED  BY <1>11, <2>3
<1>12. ASSUME NEW t \in Thread, q # <<>>, q2 = Tail(q), UNCHANGED pool,
              Got(t) = Nil, Got(t)' = pool[q[1]],
              \A u \in Thread : u # t => Got(u)' = Got(u)
       PROVE  Queue!Get(t)
  <2>1. /\ Image(pool, Tail(q)) = Tail(Image(pool, q)) /\ Head(Image(pool, q)) = pool[q[1]]
        /\ Image(pool, q) # <<>>
    BY <1>6, <1>12, ImageTail
  <2>2. Contents' = Tail(Contents) /\ Contents # <<>> /\ pool[q[1]] = Head(Contents)
    BY <2>1, <1>3, <1>5, <1>12
  <2>3. Received' = [Received EXCEPT ![t] = Head(Contents)]  BY <2>2, <1>12, <1>e
  <2>4. Received[t] = Nil  BY <1>7, <1>12
  <2> QED  BY <2>2, <2>3, <2>4 DEF Queue!Get
<1>13. ASSUME NEW t \in Thread, q2 = q, UNCHANGED pool, Got(t) \in Msg, Got(t)' = Nil,
              \A u \in Thread : u # t => Got(u)' = Got(u)
       PROVE  Queue!Done(t)
  <2>1. Contents' = Contents  BY <1>3, <1>5, <1>13
  <2>2. Received' = [Received EXCEPT ![t] = Nil]  BY <1>13, <1>e
  <2>3. Received[t] # Nil  BY <1>7, <1>8, <1>13
  <2> QED  BY <2>1, <2>2, <2>3 DEF Queue!Done
<1>14. \/ q2 = q /\ (\A m \in ToSet(q) : pool'[m] = pool[m]) /\ (\A u \in Thread : Got(u)' = Got(u))
       \/ \E m \in Msg : Queue!Put(m) \/ Queue!PutUrgent(m)
       \/ \E t \in Thread : Queue!Get(t) \/ Queue!Done(t)
  BY <1>2, <1>10, <1>11, <1>12, <1>13 DEF QueueStep
<1> QED  BY <1>9, <1>14 DEF Queue!Next

\* The slots, chains, copies and sections of ipc.c implement a bounded queue:
\* a message goes in once and whole, at the end or urgently at the front, and the
\* first one comes out, to one receiver, also when the slot is read with
\* interrupts enabled while others send.
THEOREM MqIsMessageQueue == Spec => IsMessageQueue
<1>1. Init => Queue!Init
  <2> SUFFICES ASSUME Init
               PROVE  Queue!Init
    OBVIOUS
  <2>1. PICK q, f : SlotsIn(q, f)  BY SlotsInit
  <2>2. q \in Seq(Node) /\ Len(q) = 0 /\ pool \in [Node -> Msg \union {Nil}]
    BY <2>1 DEF SlotsIn, Linked, SlotTypes, Init
  <2>3. Contents = Image(pool, q)  BY <2>1, ContentsIs DEF ContentsOfChain
  <2>4. Contents \in Seq(Msg \union {Nil}) /\ Len(Contents) = 0  BY <2>2, <2>3, ImageSeq
  <2>5. Contents = <<>>  BY <2>4, EmptySeq
  <2>6. \A t \in Thread : Got(t) = Nil
    <3>1. \A t \in Thread : pc[t] = "run"  BY DEF Init
    <3> QED  BY <3>1 DEF Got
  <2>7. Received = [t \in Thread |-> Nil]  BY <2>6, ReceivedIs
  <2> QED  BY <2>5, <2>7 DEF Queue!Init
<1> QED  BY <1>1, QueueRefines, MqInvariant, PTL DEF Spec, IsMessageQueue, Queue!Spec
-----------------------------------------------------------------------------
(* Wake-ups.                                                               *)

\* Counting: a set that has gained a member for what has been added, or lost at
\* most one for what has been taken, is still large enough.
LEMMA StillEnough ==
    ASSUME NEW W \in SUBSET Thread, NEW V \in SUBSET Thread, NEW c \in Nat, NEW d \in Nat,
           c <= Cardinality(W),
           \/ d <= c /\ W \subseteq V
           \/ d = c - 1 /\ \E t : W \ {t} \subseteq V
           \/ d = c + 1 /\ W \subseteq V /\ \E r \in V : r \notin W
    PROVE  d <= Cardinality(V)
<1>1. IsFiniteSet(W) /\ IsFiniteSet(V)  BY ThreadAssumption, FS_Subset
<1>2. Cardinality(W) \in Nat /\ Cardinality(V) \in Nat  BY <1>1, FS_CardinalityType
<1>3. ASSUME d <= c, W \subseteq V  PROVE d <= Cardinality(V)
  <2>1. Cardinality(W) <= Cardinality(V)  BY <1>1, <1>3, FS_Subset
  <2> QED  BY <1>2, <1>3, <2>1
<1>4. ASSUME d = c - 1, NEW t, W \ {t} \subseteq V  PROVE d <= Cardinality(V)
  <2>1. Cardinality(W \ {t}) = IF t \in W THEN Cardinality(W) - 1 ELSE Cardinality(W)
    BY <1>1, FS_RemoveElement
  <2>2. Cardinality(W \ {t}) <= Cardinality(V)  BY <1>1, <1>4, FS_Subset
  <2>3. CASE t \in W  BY <2>1, <2>2, <2>3, <1>2, <1>4
  <2>4. CASE t \notin W  BY <2>1, <2>2, <2>4, <1>2, <1>4
  <2> QED  BY <2>3, <2>4
<1>5. ASSUME d = c + 1, W \subseteq V, NEW r \in V, r \notin W  PROVE d <= Cardinality(V)
  <2>1. Cardinality(W \union {r}) = Cardinality(W) + 1  BY <1>1, <1>5, FS_AddElement
  <2>2. W \union {r} \in SUBSET V  BY <1>5
  <2>3. Cardinality(W \union {r}) <= Cardinality(V)  BY <1>1, <2>2, FS_Subset
  <2> QED  BY <2>1, <2>3, <1>2, <1>5
<1> QED  BY <1>3, <1>4, <1>5

\* What a step does to a list, to the number of things its threads wait for, and
\* to the threads on their way to them.
WakeStep(list, places, c, d) ==
    suspend_thread'[list] # <<>> /\ d # 0 =>
        /\ suspend_thread[list] # <<>>
        /\ \/ d <= c /\ Woken(places) \subseteq Woken(places)'
           \/ d = c - 1 /\ \E t : Woken(places) \ {t} \subseteq Woken(places)'
           \/ /\ d = c + 1 /\ Woken(places) \subseteq Woken(places)'
              /\ \E r \in Woken(places)' : r \notin Woken(places)

\* There is a thread on its way to each of the c things.
Enough(list, places, c) == suspend_thread[list] # <<>> => c <= Cardinality(Woken(places))

LEMMA WakeStepKeeps ==
    ASSUME NEW list, NEW places, NEW c \in Nat, NEW d \in Nat,
           Enough(list, places, c), WakeStep(list, places, c, d)
    PROVE  Enough(list, places, d)'
<1> SUFFICES ASSUME suspend_thread'[list] # <<>>
             PROVE  d <= Cardinality(Woken(places)')
  BY DEF Enough
<1>1. PICK W, V : W = Woken(places) /\ V = Woken(places)'  OBVIOUS
<1>2. W \in SUBSET Thread /\ V \in SUBSET Thread  BY <1>1 DEF Woken
<1>3. CASE d = 0
  <2>1. Cardinality(V) \in Nat  BY <1>2, ThreadAssumption, FS_Subset, FS_CardinalityType
  <2> QED  BY <1>1, <1>3, <2>1
<1>4. CASE d # 0
  <2>1. /\ c <= Cardinality(W)
        /\ \/ d <= c /\ W \subseteq V
           \/ d = c - 1 /\ \E t : W \ {t} \subseteq V
           \/ d = c + 1 /\ W \subseteq V /\ \E r \in V : r \notin W
    BY <1>1, <1>4 DEF Enough, WakeStep
  <2> QED  BY <1>1, <1>2, <2>1, StillEnough
<1> QED  BY <1>3, <1>4

\* A list is empty when no thread stands in it.
EmptyLists == \A o \in Object : suspend_thread[o] = <<>> <=> ToSet(suspend_thread[o]) = {}

LEMMA ListsAreEmpty == Control => EmptyLists
<1> SUFFICES ASSUME Control, NEW o \in Object
             PROVE  suspend_thread[o] = <<>> <=> ToSet(suspend_thread[o]) = {}
  BY DEF EmptyLists
<1>1. suspend_thread[o] \in Seq(Thread)  BY DEF Control, KernelInv, Waiting
<1>2. suspend_thread[o] # <<>> => 1 \in DOMAIN suspend_thread[o]  BY <1>1, EmptySeq, LenProperties
<1>3. suspend_thread[o] = <<>> => ToSet(suspend_thread[o]) = {}  BY DEF ToSet
<1> QED  BY <1>2, <1>3 DEF ToSet

\* A woken thread that the step does not touch is still on its way.
WokenKept(places, t) ==
    \A u \in Thread : u # t /\ pc[u] \in places /\ stat[u] # "SUSPEND" /\ error[u] = "RT_EOK" =>
                      pc'[u] \in places /\ stat'[u] # "SUSPEND" /\ error'[u] = "RT_EOK"

LEMMA WakeSame ==
    ASSUME Control, Control', NEW list \in Object,
           ToSet(suspend_thread'[list]) \subseteq ToSet(suspend_thread[list]),
           NEW places, NEW t, WokenKept(places, t), NEW c \in Nat, NEW d \in Nat
    PROVE  /\ d <= c /\ t \notin Woken(places) => WakeStep(list, places, c, d)
           /\ d = c - 1 => WakeStep(list, places, c, d)
<1>1. EmptyLists /\ EmptyLists'
  <2>1. Control' => EmptyLists'  BY ListsAreEmpty, PTL
  <2> QED  BY <2>1, ListsAreEmpty
<1>2. suspend_thread'[list] # <<>> => suspend_thread[list] # <<>>
  BY <1>1 DEF EmptyLists
<1>3. Woken(places) \ {t} \subseteq Woken(places)'
  BY DEF Woken, WokenKept
<1>4. t \notin Woken(places) => Woken(places) \subseteq Woken(places)'  BY <1>3
<1> QED  BY <1>2, <1>3, <1>4 DEF WakeStep

\* What a step does to both lists.
Wakes(q, f, q2, f2) ==
    /\ SlotsIn(q2, f2)'
    /\ WakeStep(Receivers, RecvPlaces, Len(q), Len(q2))
    /\ WakeStep(Senders, SendPlaces, Len(f), Len(f2))

LEMMA SlotNumbers ==
    ASSUME NEW q, NEW f
    PROVE  /\ SlotsIn(q, f) => Len(q) \in Nat /\ Len(f) \in Nat /\ entry = Len(q)
                               /\ (msg_queue_free = Nil => Len(f) = 0)
           /\ SlotsIn(q, f)' => Len(q) \in Nat /\ Len(f) \in Nat /\ entry' = Len(q)
<1>1. ASSUME SlotsIn(q, f)
      PROVE  Len(q) \in Nat /\ Len(f) \in Nat /\ entry = Len(q) /\ (msg_queue_free = Nil => Len(f) = 0)
  <2>1. q \in Seq(Node) /\ f \in Seq(Node) /\ entry = Len(q) /\ Linked(next, f, msg_queue_free)
    BY <1>1 DEF SlotsIn, Linked
  <2>2. msg_queue_free = Nil => f = <<>>
    <3> SUFFICES ASSUME f # <<>>
                 PROVE  msg_queue_free # Nil
      OBVIOUS
    <3>1. 1 \in 1..Len(f)  BY <2>1, EmptySeq
    <3>2. msg_queue_free = f[1] /\ f[1] \in Node  BY <2>1, <3>1, ElementOfSeq DEF Linked
    <3> QED  BY <3>2, MqAssumption
  <2> QED  BY <2>1, <2>2
<1>2. ASSUME SlotsIn(q, f)'  PROVE Len(q) \in Nat /\ Len(f) \in Nat /\ entry' = Len(q)
  BY <1>2 DEF SlotsIn, Linked
<1> QED  BY <1>1, <1>2

\* The lists lose threads at most, and thread t at most stops being on its way.
LEMMA WakesSame ==
    ASSUME Control, Control', NEW q, NEW f, SlotsIn(q, f), NEW q2, NEW f2, SlotsIn(q2, f2)',
           \A o \in Object : ToSet(suspend_thread'[o]) \subseteq ToSet(suspend_thread[o]),
           NEW t, WokenKept(RecvPlaces, t), WokenKept(SendPlaces, t),
           Len(q2) = Len(q) - 1 \/ (Len(q2) <= Len(q) /\ t \notin Woken(RecvPlaces)),
           Len(f2) = Len(f) - 1 \/ (Len(f2) <= Len(f) /\ t \notin Woken(SendPlaces))
    PROVE  Wakes(q, f, q2, f2)
<1>1. Len(q) \in Nat /\ Len(f) \in Nat /\ Len(q2) \in Nat /\ Len(f2) \in Nat  BY SlotNumbers
<1>2. WakeStep(Receivers, RecvPlaces, Len(q), Len(q2))  BY <1>1, WakeSame, Lists
<1>3. WakeStep(Senders, SendPlaces, Len(f), Len(f2))  BY <1>1, WakeSame, Lists
<1> QED  BY <1>2, <1>3 DEF Wakes

\* Thread t goes on in its call without touching the kernel.
LEMMA ProceedWakes ==
    ASSUME Control, Control', NEW q, NEW f, SlotsIn(q, f), NEW q2, NEW f2, SlotsIn(q2, f2)',
           NEW t \in Thread, NEW place, Goto(t, place), UNCHANGED kernelVars,
           Len(q2) = Len(q) - 1 \/ (Len(q2) = Len(q) /\ t \notin Woken(RecvPlaces)),
           Len(f2) = Len(f) - 1 \/ (Len(f2) = Len(f) /\ t \notin Woken(SendPlaces))
    PROVE  Wakes(q, f, q2, f2)
<1>1. UNCHANGED <<stat, error, suspend_thread>>  BY DEF kernelVars, schedVars
<1>2. \A u \in Thread : u # t => pc'[u] = pc[u]  BY DEF Goto, Control, CallTypes
<1>3. WokenKept(RecvPlaces, t) /\ WokenKept(SendPlaces, t)  BY <1>1, <1>2 DEF WokenKept
<1>4. Len(q) \in Nat /\ Len(f) \in Nat /\ Len(q2) \in Nat /\ Len(f2) \in Nat  BY SlotNumbers
<1>5. /\ Len(q2) = Len(q) - 1 \/ (Len(q2) <= Len(q) /\ t \notin Woken(RecvPlaces))
      /\ Len(f2) = Len(f) - 1 \/ (Len(f2) <= Len(f) /\ t \notin Woken(SendPlaces))
  BY <1>4
<1>6. \A o \in Object : ToSet(suspend_thread'[o]) \subseteq ToSet(suspend_thread[o])  BY <1>1
<1> QED  BY <1>3, <1>5, <1>6, WakesSame

\* A thread begins to wait, as there is nothing to be had.
LEMMA WaitWakes ==
    ASSUME Control, Control', NEW q, NEW f, SlotsIn(q, f), SlotsIn(q, f)',
           NEW t \in Thread, NEW list \in Object, NEW place, Waits(t, list, place),
           IF list = Senders THEN msg_queue_free = Nil /\ pc[t] \notin RecvPlaces
                             ELSE entry = 0 /\ pc[t] \notin SendPlaces
    PROVE  Wakes(q, f, q, f)
<1>1. Len(q) \in Nat /\ Len(f) \in Nat  BY SlotNumbers
<1>2. WokenKept(RecvPlaces, t) /\ WokenKept(SendPlaces, t)  BY DEF Waits, WokenKept
<1>3. CASE list = Senders
  <2>1. Len(f) = 0  BY <1>3, SlotNumbers
  <2>2. ToSet(suspend_thread'[Receivers]) \subseteq ToSet(suspend_thread[Receivers])
    BY <1>3, Lists DEF Waits
  <2>3. t \notin Woken(RecvPlaces)  BY <1>3 DEF Woken
  <2>4. WakeStep(Receivers, RecvPlaces, Len(q), Len(q))  BY <1>1, <1>2, <2>2, <2>3, Lists, WakeSame
  <2>5. WakeStep(Senders, SendPlaces, Len(f), Len(f))  BY <2>1 DEF WakeStep
  <2> QED  BY <2>4, <2>5 DEF Wakes
<1>4. CASE list # Senders
  <2>1. Len(q) = 0 /\ list = Receivers  BY <1>4, SlotNumbers, Lists
  <2>2. ToSet(suspend_thread'[Senders]) \subseteq ToSet(suspend_thread[Senders])
    BY <1>4, Lists DEF Waits
  <2>3. t \notin Woken(SendPlaces)  BY <1>4 DEF Woken
  <2>4. WakeStep(Senders, SendPlaces, Len(f), Len(f))  BY <1>1, <1>2, <2>2, <2>3, Lists, WakeSame
  <2>5. WakeStep(Receivers, RecvPlaces, Len(q), Len(q))  BY <2>1 DEF WakeStep
  <2> QED  BY <2>4, <2>5 DEF Wakes
<1> QED  BY <1>3, <1>4

\* The places of the threads of a list.
PlacesOf(list) == IF list = Receivers THEN RecvPlaces ELSE SendPlaces

\* Thread r is woken up for what has come, and the other list is left alone.
LEMMA HeadWoken ==
    ASSUME Control, Control', NEW list \in Object, suspend_thread[list] # <<>>,
           NEW r, r = Head(suspend_thread[list]),
           \A u \in Thread : stat'[u] = "SUSPEND" <=> stat[u] = "SUSPEND" /\ u # r,
           \A o \in Object : ToSet(suspend_thread'[o]) = ToSet(suspend_thread[o]) \ {r},
           UNCHANGED error,
           NEW t, \A u \in Thread : u # t => pc'[u] = pc[u], t \in Thread => pc[t] \in CopyPlaces,
           NEW c \in Nat, NEW d \in Nat
    PROVE  /\ d = c + 1 => WakeStep(list, PlacesOf(list), c, d)
           /\ d <= c => \A o \in Object : WakeStep(o, PlacesOf(o), c, d)
<1>1. r \in Thread /\ r \in ToSet(suspend_thread[list]) /\ stat[r] = "SUSPEND"  BY FirstWaits
<1>2. pc[r] \in PlacesOf(list) /\ error[r] = "RT_EOK"
  BY <1>1, Lists DEF Control, InCall, PlacesOf
<1>3. \A p \in RecvPlaces \union SendPlaces : p \notin CopyPlaces
  BY DEF RecvPlaces, SendPlaces, CopyPlaces
<1>4. \A o \in Object : t \in Thread => pc[t] \notin PlacesOf(o)  BY <1>3 DEF PlacesOf
<1>5. r # t  BY <1>1, <1>2, <1>4
<1>6. \A o \in Object : Woken(PlacesOf(o)) \subseteq Woken(PlacesOf(o))'
  <2> SUFFICES ASSUME NEW o \in Object, NEW u \in Woken(PlacesOf(o))
               PROVE  u \in Woken(PlacesOf(o))'
    OBVIOUS
  <2>1. u \in Thread /\ pc[u] \in PlacesOf(o) /\ stat[u] # "SUSPEND" /\ error[u] = "RT_EOK"  BY DEF Woken
  <2>2. u # t  BY <2>1, <1>4
  <2> QED  BY <2>1, <2>2 DEF Woken
<1>7. r \notin Woken(PlacesOf(list))  BY <1>1 DEF Woken
<1>8. r \in Woken(PlacesOf(list))'  BY <1>1, <1>2, <1>5 DEF Woken
<1>9. d = c + 1 => WakeStep(list, PlacesOf(list), c, d)  BY <1>6, <1>7, <1>8 DEF WakeStep
<1>10. ASSUME d <= c, NEW o \in Object  PROVE WakeStep(o, PlacesOf(o), c, d)
  <2>1. EmptyLists /\ EmptyLists'
    <3>1. Control' => EmptyLists'  BY ListsAreEmpty, PTL
    <3> QED  BY <3>1, ListsAreEmpty
  <2>2. suspend_thread'[o] # <<>> => suspend_thread[o] # <<>>  BY <2>1 DEF EmptyLists
  <2> QED  BY <1>6, <1>10, <2>2 DEF WakeStep
<1> QED  BY <1>9, <1>10

\* A message goes into the queue or a slot becomes free, and the first thread of
\* the list is woken up, if there is one.
LEMMA GiveWakes ==
    ASSUME Control, Control', NEW t \in Thread, Executes(t), pc[t] \in CopyPlaces,
           NEW list \in Object, Wake(t, list), UNCHANGED <<timeout, tick_delta, asked, waited>>,
           NEW c \in Nat, NEW d \in Nat
    PROVE  /\ d = c + 1 => WakeStep(list, PlacesOf(list), c, d)
           /\ d = c => \A o \in Object : WakeStep(o, PlacesOf(o), c, d)
<1>1. CASE suspend_thread[list] # <<>>
  <2>1. /\ rt_thread_resume(Head(suspend_thread[list])) /\ Goto(t, "sched")
        /\ UNCHANGED <<rt_tick, rt_current_thread, yield, lowered, remaining_tick,
                       current_priority, error, isr>>
    BY <1>1 DEF Wake
  <2>2. PICK r : r = Head(suspend_thread[list])  OBVIOUS
  <2>3. /\ \A u \in Thread : stat'[u] = "SUSPEND" <=> stat[u] = "SUSPEND" /\ u # r
        /\ \A o \in Object : ToSet(suspend_thread'[o]) = ToSet(suspend_thread[o]) \ {r}
    BY <1>1, <2>1, <2>2, ThreadWakes
  <2>4. UNCHANGED error /\ \A u \in Thread : u # t => pc'[u] = pc[u]
    BY <2>1 DEF Goto, Control, CallTypes
  <2>5. d = c => d <= c  OBVIOUS
  <2> QED  BY <1>1, <2>2, <2>3, <2>4, <2>5, HeadWoken
<1>2. CASE suspend_thread[list] = <<>>
  <2>1. Goto(t, "back") /\ UNCHANGED kernelVars  BY <1>2 DEF Wake
  <2>2. UNCHANGED <<stat, error, suspend_thread>>  BY <2>1 DEF kernelVars, schedVars
  <2>3. WakeStep(list, PlacesOf(list), c, d)  BY <1>2, <2>2 DEF WakeStep
  <2>4. ASSUME NEW o \in Object, d = c  PROVE WakeStep(o, PlacesOf(o), c, d)
    <3>1. \A u \in Thread : u # t => pc'[u] = pc[u]  BY <2>1 DEF Goto, Control, CallTypes
    <3>2. pc[t] \notin PlacesOf(o)  BY DEF PlacesOf, CopyPlaces, SendPlaces, RecvPlaces
    <3>3. WokenKept(PlacesOf(o), t)  BY <2>2, <3>1 DEF WokenKept
    <3>4. t \notin Woken(PlacesOf(o)) /\ d <= c  BY <2>4, <3>2 DEF Woken
    <3>5. ToSet(suspend_thread'[o]) \subseteq ToSet(suspend_thread[o])  BY <2>2
    <3> QED  BY <3>3, <3>4, <3>5, WakeSame
  <2> QED  BY <2>3, <2>4
<1> QED  BY <1>1, <1>2

LEMMA ListPlaces == PlacesOf(Receivers) = RecvPlaces /\ PlacesOf(Senders) = SendPlaces
  BY Lists DEF PlacesOf

\* The interrupt sends: it takes a free slot and wakes up a receiver.
LEMMA InterruptSendWakes ==
    ASSUME Control, Control', NEW q, NEW f, SlotsIn(q, f), SendFromInterrupt
    PROVE  \E q2, f2 : Wakes(q, f, q2, f2)
<1>1. PICK n : n = msg_queue_free  OBVIOUS
<1>2. /\ SlotsIn(Append(q, n), Tail(f))' /\ Len(Tail(f)) = Len(f) - 1 /\ Len(f) \in Nat /\ n \in Node
  BY <1>1, InterruptSlots
<1>3. PICK q2, f2 : q2 = Append(q, n) /\ f2 = Tail(f)  OBVIOUS
<1>4. q \in Seq(Node)  BY DEF SlotsIn, Linked
<1>5. Len(q2) = Len(q) + 1  BY <1>2, <1>3, <1>4, AppendProperties
<1>6. SlotsIn(q2, f2)' /\ Len(f2) = Len(f) - 1  BY <1>2, <1>3
<1>7. Len(q) \in Nat /\ Len(q2) \in Nat /\ Len(f) \in Nat /\ Len(f2) \in Nat  BY <1>6, SlotNumbers
<1>8. UNCHANGED callVars /\ UNCHANGED pc  BY DEF SendFromInterrupt, callVars
<1>9. Isr \notin Thread  BY MqAssumption
<1>10. CASE suspend_thread[Receivers] = <<>>
  <2>1. UNCHANGED kernelVars  BY <1>10 DEF SendFromInterrupt
  <2>2. UNCHANGED <<stat, error, suspend_thread>>  BY <2>1 DEF kernelVars, schedVars
  <2>3. WakeStep(Receivers, RecvPlaces, Len(q), Len(q2))  BY <1>10, <2>2 DEF WakeStep
  <2>4. WokenKept(SendPlaces, Isr)  BY <1>8, <2>2 DEF WokenKept
  <2>5. ToSet(suspend_thread'[Senders]) \subseteq ToSet(suspend_thread[Senders])  BY <2>2
  <2>6. WakeStep(Senders, SendPlaces, Len(f), Len(f2))  BY <1>6, <1>7, <2>4, <2>5, Lists, WakeSame
  <2> QED  BY <1>6, <2>3, <2>6 DEF Wakes
<1>11. CASE suspend_thread[Receivers] # <<>>
  <2>1. PICK r : r = Head(suspend_thread[Receivers])  OBVIOUS
  <2>2. /\ suspend_thread' = [o \in Object |-> RemoveFirst(suspend_thread[o], r)]
        /\ timer_list' = StopTimer(timer_list, r)
        /\ rt_schedule([stat EXCEPT ![r] = InsertStat(r)], InsertThread(r), yield)
        /\ UNCHANGED <<rt_tick, remaining_tick, current_priority, error, isr>>
    BY <1>11, <2>1 DEF SendFromInterrupt
  <2>3. /\ \A u \in Thread : stat'[u] = "SUSPEND" <=> stat[u] = "SUSPEND" /\ u # r
        /\ \A o \in Object : ToSet(suspend_thread'[o]) = ToSet(suspend_thread[o]) \ {r}
    BY <1>8, <1>11, <2>1, <2>2, InterruptWakes
  <2>4. UNCHANGED error /\ \A u \in Thread : u # Isr => pc'[u] = pc[u]  BY <1>8, <2>2
  <2>5. Isr \in Thread => pc[Isr] \in CopyPlaces  BY <1>9
  <2>6. WakeStep(Receivers, PlacesOf(Receivers), Len(q), Len(q2))
    BY <1>5, <1>7, <1>11, <2>1, <2>3, <2>4, <2>5, Lists, HeadWoken
  <2>7. Len(f2) <= Len(f)  BY <1>6, <1>7
  <2>8. WakeStep(Senders, PlacesOf(Senders), Len(f), Len(f2))
    BY <1>7, <1>11, <2>1, <2>3, <2>4, <2>5, <2>7, Lists, HeadWoken
  <2> QED  BY <1>6, <2>6, <2>8, ListPlaces DEF Wakes
<1> QED  BY <1>10, <1>11

\* A sender links its message.
LEMMA LinkWakes ==
    ASSUME Control, Control', NEW q, NEW f, SlotsIn(q, f), NEW t \in Thread, Link(t)
    PROVE  \E q2, f2 : Wakes(q, f, q2, f2)
<1>0. CallTypes /\ q \in Seq(Node)  BY DEF Control, SlotsIn, Linked
<1>1. PICK n : n = node[t]  OBVIOUS
<1>2. /\ n \in Node /\ pc[t] \in {"link", "link_urgent"}
      /\ pc[t] = "link" => SlotsIn(Append(q, n), f)'
      /\ pc[t] = "link_urgent" => SlotsIn(<<n>> \o q, f)'
  BY <1>0, <1>1, LinkSlots
<1>3. Len(Append(q, n)) = Len(q) + 1  BY <1>0, <1>2, AppendProperties
<1>4. Len(<<n>> \o q) = Len(q) + 1  BY <1>0, <1>2, ConsAt
<1>5. PICK q2 : SlotsIn(q2, f)' /\ Len(q2) = Len(q) + 1  BY <1>2, <1>3, <1>4
<1>6. Len(q) \in Nat /\ Len(q2) \in Nat /\ Len(f) \in Nat  BY <1>5, SlotNumbers
<1>7. /\ Executes(t) /\ Wake(t, Receivers) /\ UNCHANGED <<timeout, tick_delta, asked, waited>>
      /\ pc[t] \in CopyPlaces
  BY <1>2 DEF Link, CopyPlaces
<1>8. WakeStep(Receivers, PlacesOf(Receivers), Len(q), Len(q2))
  BY <1>5, <1>6, <1>7, Lists, GiveWakes
<1>9. WakeStep(Senders, PlacesOf(Senders), Len(f), Len(f))
  BY <1>6, <1>7, Lists, GiveWakes
<1> QED  BY <1>5, <1>8, <1>9, ListPlaces DEF Wakes

\* A receiver gives its slot back.
LEMMA FreeWakes ==
    ASSUME Control, Control', NEW q, NEW f, SlotsIn(q, f), NEW t \in Thread, FreeSlot(t)
    PROVE  \E q2, f2 : Wakes(q, f, q2, f2)
<1>0. CallTypes  BY DEF Control
<1>1. PICK n : n = node[t]  OBVIOUS
<1>2. SlotsIn(q, <<n>> \o f)' /\ Len(<<n>> \o f) = Len(f) + 1  BY <1>0, <1>1, FreeSlotSlots
<1>5. PICK f2 : SlotsIn(q, f2)' /\ Len(f2) = Len(f) + 1  BY <1>2
<1>6. Len(q) \in Nat /\ Len(f2) \in Nat /\ Len(f) \in Nat  BY <1>5, SlotNumbers
<1>7. /\ Executes(t) /\ Wake(t, Senders) /\ UNCHANGED <<timeout, tick_delta, asked, waited>>
      /\ pc[t] \in CopyPlaces
  BY DEF FreeSlot, CopyPlaces
<1>8. WakeStep(Senders, PlacesOf(Senders), Len(f), Len(f2))
  BY <1>5, <1>6, <1>7, Lists, GiveWakes
<1>9. WakeStep(Receivers, PlacesOf(Receivers), Len(q), Len(q))
  BY <1>6, <1>7, Lists, GiveWakes
<1> QED  BY <1>5, <1>8, <1>9, ListPlaces DEF Wakes

\* Every step keeps a thread on its way to each message and each free slot.
LEMMA NextWakes ==
    ASSUME Control, [Next]_vars, NEW q, NEW f, SlotsIn(q, f)
    PROVE  \E q2, f2 : Wakes(q, f, q2, f2)
<1>0. Control' /\ CallTypes  BY ControlNext DEF Control
<1>n. Len(q) \in Nat /\ Len(f) \in Nat /\ entry = Len(q)  BY SlotNumbers
<1>i. Isr \notin Woken(RecvPlaces) /\ Isr \notin Woken(SendPlaces)  BY MqAssumption DEF Woken
<1>1. CASE Tick
  <2>1. SlotsIn(q, f)'  BY <1>1, StayQueue DEF Tick
  <2>2. WokenKept(RecvPlaces, Isr) /\ WokenKept(SendPlaces, Isr)
    BY <1>1, TickControl DEF WokenKept
  <2>3. \A o \in Object : ToSet(suspend_thread'[o]) \subseteq ToSet(suspend_thread[o])  BY <1>1, TickControl
  <2> QED  BY <1>0, <1>i, <1>n, <2>1, <2>2, <2>3, WakesSame
<1>2. CASE SendFromInterrupt  BY <1>0, <1>2, InterruptSendWakes
<1>3. ASSUME NEW t \in Thread, ThreadStep(t)  PROVE \E q2, f2 : Wakes(q, f, q2, f2)
  <2>f. Free(t) => pc[t] = "run"  BY DEF Free
  <2>k. ASSUME pc[t] \notin SendPlaces \union RecvPlaces
        PROVE  t \notin Woken(RecvPlaces) /\ t \notin Woken(SendPlaces)
    BY <2>k DEF Woken
  <2>x. \A p \in CopyPlaces \union {"run", "sched", "back"} : p \notin SendPlaces \union RecvPlaces
    BY DEF CopyPlaces, SendPlaces, RecvPlaces
  <2>s. ASSUME pc[t] \in {"run", "send_back"}, msg_queue_free # Nil, TakeSlot(t),
               NEW place \in {"copy_in", "copy_in_urgent"}, Goto(t, place)
        PROVE  \E q2, f2 : Wakes(q, f, q2, f2)
    <3>1. pc[t] \notin CopyPlaces /\ t \notin Woken(RecvPlaces)
      BY <2>s DEF Woken, CopyPlaces, RecvPlaces
    <3>2. PICK f2 : f2 = Tail(f)  OBVIOUS
    <3>3. SlotsIn(q, f2)' /\ Len(f2) = Len(f) - 1  BY <2>s, <1>0, <3>1, <3>2, TakeSlotSlots
    <3>4. UNCHANGED kernelVars  BY <2>s DEF TakeSlot
    <3>5. Wakes(q, f, q, f2)
      <4>1. /\ Len(q) = Len(q) - 1 \/ (Len(q) = Len(q) /\ t \notin Woken(RecvPlaces))
            /\ Len(f2) = Len(f) - 1 \/ (Len(f2) = Len(f) /\ t \notin Woken(SendPlaces))
        BY <3>1, <3>3
      <4>2. Goto(t, place) /\ SlotsIn(q, f2)' /\ Control'  BY <1>0, <2>s, <3>3
      <4> QED  BY <3>4, <4>1, <4>2, ProceedWakes
    <3> QED  BY <3>5
  <2>m. ASSUME pc[t] \in {"run", "recv_back"}, entry > 0, TakeMessage(t)
        PROVE  \E q2, f2 : Wakes(q, f, q2, f2)
    <3>1. pc[t] \notin CopyPlaces /\ t \notin Woken(SendPlaces)
      BY <2>m DEF Woken, CopyPlaces, SendPlaces
    <3>2. PICK q2 : q2 = Tail(q)  OBVIOUS
    <3>3. SlotsIn(q2, f)' /\ q # <<>> /\ q \in Seq(Node)  BY <2>m, <1>0, <3>1, <3>2, TakeMessageSlots
    <3>4. Len(q2) = Len(q) - 1  BY <3>2, <3>3, HeadTailProperties
    <3>5. UNCHANGED kernelVars /\ Goto(t, "copy_out")  BY <2>m DEF TakeMessage
    <3>6. Wakes(q, f, q2, f)
      <4>1. /\ Len(q2) = Len(q) - 1 \/ (Len(q2) = Len(q) /\ t \notin Woken(RecvPlaces))
            /\ Len(f) = Len(f) - 1 \/ (Len(f) = Len(f) /\ t \notin Woken(SendPlaces))
        BY <3>1, <3>4
      <4>2. SlotsIn(q2, f)' /\ Control'  BY <1>0, <3>3
      <4> QED  BY <3>5, <4>1, <4>2, ProceedWakes
    <3> QED  BY <3>6
  <2>w. ASSUME NEW list \in Object, NEW limit, NEW place \in SendPlaces \union RecvPlaces,
               WaitIn(t, list, limit, place), Waits(t, list, place), pc[t] \notin CopyPlaces,
               IF list = Senders THEN msg_queue_free = Nil /\ pc[t] \notin RecvPlaces
                                 ELSE entry = 0 /\ pc[t] \notin SendPlaces
        PROVE  \E q2, f2 : Wakes(q, f, q2, f2)
    <3>1. place \notin CopyPlaces  BY <2>x
    <3>2. Goto(t, place) /\ UNCHANGED <<queueVars, node>> /\ buffer' = buffer  BY <2>w DEF WaitIn
    <3>3. SlotsIn(q, f)'  BY <2>w, <1>0, <3>1, <3>2, ProceedQueue
    <3> QED  BY <2>w, <1>0, <3>3, WaitWakes
  <2>1. ASSUME NEW limit \in Timeout \union {RT_WAITING_NO, RT_WAITING_FOREVER}, RecvBegins(t, limit)
        PROVE  \E q2, f2 : Wakes(q, f, q2, f2)
    <3>1. Free(t) /\ pc[t] = "run"  BY <2>1, <2>f DEF RecvBegins
    <3>2. CASE entry > 0 /\ TakeMessage(t)  BY <3>1, <3>2, <2>m
    <3>3. CASE /\ entry = 0 /\ limit # RT_WAITING_NO
               /\ WaitIn(t, Receivers, limit, "recv_sched") /\ asked' = [asked EXCEPT ![t] = limit]
      <4>1. limit \in Timeout \union {RT_WAITING_FOREVER}  BY <3>3
      <4>2. Waits(t, Receivers, "recv_sched")  BY <3>1, <3>3, <4>1, Lists, BeginsControl
      <4>3. "recv_sched" \in SendPlaces \union RecvPlaces /\ pc[t] \notin CopyPlaces /\ pc[t] \notin SendPlaces
        BY <3>1 DEF SendPlaces, RecvPlaces, CopyPlaces
      <4> QED  BY <3>3, <4>2, <4>3, <2>w, Lists
    <3> QED  BY <2>1, <3>2, <3>3 DEF RecvBegins
  <2>2. ASSUME NEW limit \in Timeout \union {RT_WAITING_NO, RT_WAITING_FOREVER}, SendBegins(t, limit)
        PROVE  \E q2, f2 : Wakes(q, f, q2, f2)
    <3>1. Free(t) /\ pc[t] = "run"  BY <2>2, <2>f DEF SendBegins
    <3>2. CASE msg_queue_free # Nil /\ TakeSlot(t) /\ Goto(t, "copy_in")  BY <3>1, <3>2, <2>s
    <3>3. CASE /\ msg_queue_free = Nil /\ limit # RT_WAITING_NO
               /\ WaitIn(t, Senders, limit, "send_sched") /\ asked' = [asked EXCEPT ![t] = limit]
      <4>1. limit \in Timeout \union {RT_WAITING_FOREVER}  BY <3>3
      <4>2. Waits(t, Senders, "send_sched")  BY <3>1, <3>3, <4>1, Lists, BeginsControl
      <4>3. "send_sched" \in SendPlaces \union RecvPlaces /\ pc[t] \notin CopyPlaces /\ pc[t] \notin RecvPlaces
        BY <3>1 DEF SendPlaces, RecvPlaces, CopyPlaces
      <4> QED  BY <3>3, <4>2, <4>3, <2>w, Lists
    <3> QED  BY <2>2, <3>2, <3>3 DEF SendBegins
  <2>3. CASE UrgentBegins(t)  BY <2>3, <2>f, <2>s DEF UrgentBegins
  <2>4. CASE Reschedule(t)
    <3>1. SlotsIn(q, f)'
      <4>1. pc[t] \notin CopyPlaces  BY <2>4 DEF Reschedule, CopyPlaces
      <4>2. PICK place : place = CASE pc[t] = "send_sched" -> "send_back" [] pc[t] = "recv_sched" -> "recv_back"
                                   [] OTHER -> "back"
        OBVIOUS
      <4>3. place \notin CopyPlaces  BY <4>2 DEF CopyPlaces
      <4>4. Goto(t, place) /\ UNCHANGED <<queueVars, node>> /\ buffer' = buffer
        BY <2>4, <4>2 DEF Reschedule
      <4> QED  BY <1>0, <4>1, <4>3, <4>4, ProceedQueue
    <3>2. UNCHANGED <<suspend_thread, error>>  BY <2>4 DEF Reschedule, CallSchedule
    <3>3. /\ \A u \in Thread : stat'[u] = "SUSPEND" <=> stat[u] = "SUSPEND"
          /\ \A u \in Thread : /\ pc'[u] \in RecvPlaces <=> pc[u] \in RecvPlaces
                               /\ pc'[u] \in SendPlaces <=> pc[u] \in SendPlaces
      BY <2>4, RescheduleControl
    <3>4. WokenKept(RecvPlaces, Isr) /\ WokenKept(SendPlaces, Isr)  BY <3>2, <3>3 DEF WokenKept
    <3>5. \A o \in Object : ToSet(suspend_thread'[o]) \subseteq ToSet(suspend_thread[o])  BY <3>2
    <3> QED  BY <1>0, <1>i, <1>n, <3>1, <3>4, <3>5, WakesSame
  <2>e. ASSUME Ended(t), UNCHANGED queueVars, pc[t] \notin CopyPlaces  PROVE SlotsIn(q, f)'
    <3>1. "run" \notin CopyPlaces  BY DEF CopyPlaces
    <3>2. Goto(t, "run") /\ UNCHANGED <<queueVars, node>> /\ buffer' = [buffer EXCEPT ![t] = Nil]
      BY <2>e DEF Ended
    <3> QED  BY <1>0, <2>e, <3>1, <3>2, ProceedQueue
  <2>5. CASE SendRetries(t)
    <3>1. Executes(t) /\ pc[t] = "send_back"  BY <2>5 DEF SendRetries
    <3>2. CASE msg_queue_free # Nil /\ TakeSlot(t) /\ Goto(t, "copy_in")  BY <3>1, <3>2, <2>s
    <3>3. pc[t] \notin CopyPlaces /\ pc[t] \notin RecvPlaces  BY <3>1 DEF RecvPlaces, CopyPlaces
    <3>4. CASE /\ msg_queue_free = Nil /\ Remaining(t) # 0
               /\ WaitIn(t, Senders, Remaining(t), "send_sched") /\ UNCHANGED asked
      <4>2. Waits(t, Senders, "send_sched")  BY <3>1, <3>4, Lists, RetriesControl
      <4>3. "send_sched" \in SendPlaces \union RecvPlaces  BY DEF SendPlaces
      <4> QED  BY <3>3, <3>4, <4>2, <4>3, <2>w, Lists
    <3>5. CASE msg_queue_free = Nil /\ Ended(t) /\ UNCHANGED <<kernelVars, queueVars>>
      <4>1. SlotsIn(q, f)'  BY <3>3, <3>5, <2>e
      <4>2. Len(f) = 0  BY <3>5, SlotNumbers
      <4>3. WakeStep(Senders, SendPlaces, Len(f), Len(f))  BY <4>2 DEF WakeStep
      <4>4. UNCHANGED <<stat, error, suspend_thread>>  BY <3>5 DEF kernelVars, schedVars
      <4>5. \A u \in Thread : u # t => pc'[u] = pc[u]  BY <1>0, <3>5 DEF Ended, Goto, CallTypes
      <4>6. WokenKept(RecvPlaces, t) /\ t \notin Woken(RecvPlaces)
        BY <3>3, <4>4, <4>5 DEF WokenKept, Woken
      <4>7. ToSet(suspend_thread'[Receivers]) \subseteq ToSet(suspend_thread[Receivers])  BY <4>4
      <4>8. WakeStep(Receivers, RecvPlaces, Len(q), Len(q))
        BY <1>0, <1>n, <4>6, <4>7, Lists, WakeSame
      <4> QED  BY <4>1, <4>3, <4>8 DEF Wakes
    <3> QED  BY <2>5, <3>2, <3>4, <3>5 DEF SendRetries
  <2>6. CASE RecvRetries(t)
    <3>1. Executes(t) /\ pc[t] = "recv_back"  BY <2>6 DEF RecvRetries
    <3>2. CASE entry > 0 /\ TakeMessage(t)  BY <3>1, <3>2, <2>m
    <3>3. pc[t] \notin CopyPlaces /\ pc[t] \notin SendPlaces  BY <3>1 DEF SendPlaces, CopyPlaces
    <3>4. CASE /\ entry = 0 /\ Remaining(t) # 0
               /\ WaitIn(t, Receivers, Remaining(t), "recv_sched") /\ UNCHANGED asked
      <4>2. Waits(t, Receivers, "recv_sched")  BY <3>1, <3>4, Lists, RetriesControl
      <4>3. "recv_sched" \in SendPlaces \union RecvPlaces  BY DEF RecvPlaces
      <4> QED  BY <3>3, <3>4, <4>2, <4>3, <2>w, Lists
    <3>5. CASE entry = 0 /\ Ended(t) /\ UNCHANGED <<kernelVars, queueVars>>
      <4>1. SlotsIn(q, f)'  BY <3>3, <3>5, <2>e
      <4>2. Len(q) = 0  BY <1>n, <3>5
      <4>3. WakeStep(Receivers, RecvPlaces, Len(q), Len(q))  BY <4>2 DEF WakeStep
      <4>4. UNCHANGED <<stat, error, suspend_thread>>  BY <3>5 DEF kernelVars, schedVars
      <4>5. \A u \in Thread : u # t => pc'[u] = pc[u]  BY <1>0, <3>5 DEF Ended, Goto, CallTypes
      <4>6. WokenKept(SendPlaces, t) /\ t \notin Woken(SendPlaces)
        BY <3>3, <4>4, <4>5 DEF WokenKept, Woken
      <4>7. ToSet(suspend_thread'[Senders]) \subseteq ToSet(suspend_thread[Senders])  BY <4>4
      <4>8. WakeStep(Senders, SendPlaces, Len(f), Len(f))
        BY <1>0, <1>n, <4>6, <4>7, Lists, WakeSame
      <4> QED  BY <4>1, <4>3, <4>8 DEF Wakes
    <3> QED  BY <2>6, <3>2, <3>4, <3>5 DEF RecvRetries
  <2>c. ASSUME pc[t] \notin SendPlaces \union RecvPlaces, NEW place, Goto(t, place), UNCHANGED kernelVars,
               SlotsIn(q, f)'
        PROVE  \E q2, f2 : Wakes(q, f, q2, f2)
    BY <1>0, <2>k, <2>c, ProceedWakes
  <2>7. CASE CopyIn(t)
    <3>1. pc[t] \notin SendPlaces \union RecvPlaces  BY <2>7, <2>x DEF CopyIn, CopyPlaces
    <3>2. PICK place : place = IF pc[t] = "copy_in" THEN "link" ELSE "link_urgent"  OBVIOUS
    <3>3. Goto(t, place) /\ UNCHANGED kernelVars  BY <2>7, <3>2 DEF CopyIn
    <3> QED  BY <1>0, <2>7, <2>c, <3>1, <3>3, CopyInSlots
  <2>8. CASE Link(t)  BY <1>0, <2>8, LinkWakes
  <2>9. CASE CopyOut(t)
    <3>1. pc[t] \notin SendPlaces \union RecvPlaces  BY <2>9, <2>x DEF CopyOut, CopyPlaces
    <3>2. Goto(t, "free") /\ UNCHANGED kernelVars  BY <2>9 DEF CopyOut
    <3> QED  BY <1>0, <2>9, <2>c, <3>1, <3>2, CopyOutSlots
  <2>10. CASE FreeSlot(t)  BY <1>0, <2>10, FreeWakes
  <2>11. CASE Return(t)
    <3>1. pc[t] \notin CopyPlaces  BY <2>11 DEF Return, CopyPlaces
    <3>2. Ended(t) /\ UNCHANGED queueVars /\ UNCHANGED <<stat, suspend_thread>>
          /\ error' = [error EXCEPT ![t] = "RT_EOK"]
      BY <2>11 DEF Return, schedVars
    <3>3. SlotsIn(q, f)'  BY <3>1, <3>2, <2>e
    <3>4. t \notin Woken(RecvPlaces) /\ t \notin Woken(SendPlaces)
      BY <2>11 DEF Return, Woken, SendPlaces, RecvPlaces
    <3>5. \A u \in Thread : u # t => pc'[u] = pc[u] /\ error'[u] = error[u]
      BY <1>0, <3>2 DEF Ended, Goto, CallTypes, Control, KernelInv, KernelScalars
    <3>6. WokenKept(RecvPlaces, t) /\ WokenKept(SendPlaces, t)  BY <3>2, <3>5 DEF WokenKept
    <3>7. \A o \in Object : ToSet(suspend_thread'[o]) \subseteq ToSet(suspend_thread[o])  BY <3>2
    <3> QED  BY <1>0, <1>n, <3>3, <3>4, <3>6, <3>7, WakesSame
  <2>12. ASSUME NEW delay \in Timeout, MqSleep(t, delay)  PROVE \E q2, f2 : Wakes(q, f, q2, f2)
    <3>1. pc[t] = "run"  BY <2>12, <2>f DEF MqSleep
    <3>2. Goto(t, "sched") /\ UNCHANGED <<queueVars, node>> /\ buffer' = buffer /\ UNCHANGED suspend_thread
      BY <2>12 DEF MqSleep, Sleep
    <3>3. pc[t] \notin CopyPlaces /\ "sched" \notin CopyPlaces /\ pc[t] \notin SendPlaces \union RecvPlaces
      BY <3>1 DEF CopyPlaces, SendPlaces, RecvPlaces
    <3>4. SlotsIn(q, f)'  BY <1>0, <3>2, <3>3, ProceedQueue
    <3>5. WokenKept(RecvPlaces, t) /\ WokenKept(SendPlaces, t)  BY <2>12, SleepControl DEF WokenKept
    <3>6. \A o \in Object : ToSet(suspend_thread'[o]) \subseteq ToSet(suspend_thread[o])  BY <3>2
    <3> QED  BY <1>0, <1>n, <2>k, <3>3, <3>4, <3>5, <3>6, WakesSame
  <2> QED  BY <1>3, <2>1, <2>2, <2>3, <2>4, <2>5, <2>6, <2>7, <2>8, <2>9, <2>10, <2>11, <2>12 DEF ThreadStep
<1>4. CASE UNCHANGED vars
  <2>1. SlotsIn(q, f)'  BY <1>4, StayQueue DEF vars, callVars
  <2>2. UNCHANGED <<stat, error, suspend_thread, pc>>  BY <1>4 DEF vars, kernelVars, schedVars, callVars
  <2>3. WokenKept(RecvPlaces, Isr) /\ WokenKept(SendPlaces, Isr)  BY <2>2 DEF WokenKept
  <2>4. \A o \in Object : ToSet(suspend_thread'[o]) \subseteq ToSet(suspend_thread[o])  BY <2>2
  <2> QED  BY <1>0, <1>i, <1>n, <2>1, <2>3, <2>4, WakesSame
<1> QED  BY <1>1, <1>2, <1>3, <1>4 DEF Next

\* What NoLostWakeUp says, in terms of the chains of the proof.
WakeUps == \A q, f : SlotsIn(q, f) => (NoLostWakeUp <=> /\ Enough(Receivers, RecvPlaces, Len(q))
                                                        /\ Enough(Senders, SendPlaces, Len(f)))

LEMMA WakeUpsAre == WakeUps
<1> SUFFICES ASSUME NEW q, NEW f, SlotsIn(q, f)
             PROVE  NoLostWakeUp <=> /\ Enough(Receivers, RecvPlaces, Len(q))
                                     /\ Enough(Senders, SendPlaces, Len(f))
  BY DEF WakeUps
<1>1. entry = Len(q) /\ Chain(msg_queue_free) = f  BY SlotNumbers, ChainIs
<1>2. RecvPlaces = {"recv_sched", "recv_back"} /\ SendPlaces = {"send_sched", "send_back"}
  BY DEF RecvPlaces, SendPlaces
<1> QED  BY <1>1, <1>2 DEF NoLostWakeUp, Enough

\* No wake-up is lost: as long as threads wait, each message in the queue and
\* each free slot has a thread of its own on its way to it, although the thread
\* that is woken up has no claim on it and others, and the interrupt, get in
\* first.
THEOREM MqNoLostWakeUp == Spec => []NoLostWakeUp
<1>1. Init => NoLostWakeUp
  <2> SUFFICES ASSUME Init
               PROVE  NoLostWakeUp
    OBVIOUS
  <2>1. suspend_thread[Receivers] = <<>> /\ suspend_thread[Senders] = <<>>
    BY Lists DEF Init, KernelInit
  <2> QED  BY <2>1 DEF NoLostWakeUp
<1>2. MqInv /\ NoLostWakeUp /\ [Next]_vars => NoLostWakeUp'
  <2> SUFFICES ASSUME MqInv, NoLostWakeUp, [Next]_vars
               PROVE  NoLostWakeUp'
    OBVIOUS
  <2>1. PICK q, f : SlotsIn(q, f)  BY DEF MqInv
  <2>2. PICK q2, f2 : Wakes(q, f, q2, f2)  BY <2>1, NextWakes DEF MqInv
  <2>3. SlotsIn(q2, f2)'  BY <2>2 DEF Wakes
  <2>4. Len(q) \in Nat /\ Len(f) \in Nat /\ Len(q2) \in Nat /\ Len(f2) \in Nat
    BY <2>1, <2>3, SlotNumbers
  <2>5. Enough(Receivers, RecvPlaces, Len(q)) /\ Enough(Senders, SendPlaces, Len(f))
    BY <2>1, WakeUpsAre DEF WakeUps
  <2>6. Enough(Receivers, RecvPlaces, Len(q2))'  BY <2>2, <2>4, <2>5, WakeStepKeeps DEF Wakes
  <2>7. Enough(Senders, SendPlaces, Len(f2))'  BY <2>2, <2>4, <2>5, WakeStepKeeps DEF Wakes
  <2>8. WakeUps'  BY WakeUpsAre, PTL
  <2> QED  BY <2>3, <2>6, <2>7, <2>8 DEF WakeUps
<1> QED  BY <1>1, <1>2, MqInvariant, PTL DEF Spec
=============================================================================
