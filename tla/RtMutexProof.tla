---------------------------- MODULE RtMutexProof ----------------------------
(***************************************************************************)
(* The theorems about the mutexes of RtMutex, for every number of threads, *)
(* priorities and mutexes, and whatever the tick interrupt meets.  They    *)
(* rest on the facts about the kernel in RtThreadProof.                    *)
(***************************************************************************)
EXTENDS RtMutex, RtThreadProof

MutexTypes ==
    /\ value \in [Mutex -> 0..1] /\ owner \in [Mutex -> Thread \union {NoThread}]
    /\ original_priority \in [Mutex -> Prio \union {NoPrio}] /\ hold \in [Mutex -> 0..HoldMax]
    /\ pc \in [Thread -> {"run", "sched", "back"}]
    /\ asked \in [Thread -> Mutex \union {NoThread}]
    /\ held \in [Thread -> Seq(Mutex)] /\ nested \in BOOLEAN /\ crossed \in BOOLEAN

\* The fields of a mutex agree, and nobody waits for a free one.
FieldsAgree ==
    \A m \in Mutex :
        /\ value[m] = 1 <=> owner[m] = NoThread
        /\ hold[m] = 0 <=> owner[m] = NoThread
        /\ owner[m] # NoThread => original_priority[m] \in Prio
        /\ owner[m] = NoThread => ToSet(suspend_thread[m]) = {}

\* What a thread holds is what it owns.  As long as no two mutexes have been
\* released across one another, the first of them keeps the thread's own priority.
Holding ==
    \A t \in Thread :
        /\ IsInjective(held[t]) /\ \A m \in Mutex : m \in ToSet(held[t]) <=> owner[m] = t
        /\ ~ crossed /\ held[t] = <<>> => current_priority[t] = Base[t]
        /\ ~ crossed /\ held[t] # <<>> => original_priority[held[t][1]] = Base[t]

\* Where a thread is in its call.  One that runs its own code is not suspended,
\* one that waits for a mutex has neither got it nor a timeout.
InCall ==
    /\ stat[rt_current_thread] = "SUSPEND" => pc[rt_current_thread] = "sched"
    /\ \A t \in Thread :
          /\ stat[t] = "SUSPEND" => pc[t] # "run"
          /\ pc[t] = "run" => asked[t] = NoThread
          /\ asked[t] # NoThread /\ stat[t] = "SUSPEND" =>
                error[t] = "RT_EOK" /\ owner[asked[t]] # t
          /\ asked[t] # NoThread /\ stat[t] # "SUSPEND" =>
                (error[t] = "RT_EOK" <=> owner[asked[t]] = t)
          /\ \A m \in Mutex : t \in ToSet(suspend_thread[m]) => asked[t] = m

InOrder(s, cp) == \A j, k \in DOMAIN s : j <= k => cp[s[j]] <= cp[s[k]]

\* Without nesting a thread owns one mutex or waits for one, the list of a mutex
\* is in the order of the priorities, and its owner has inherited.
Inherited ==
    /\ \A m, n \in Mutex : owner[m] = owner[n] /\ owner[m] # NoThread => m = n
    /\ \A m, n \in Mutex : owner[n] \notin ToSet(suspend_thread[m])
    /\ \A m \in Mutex : InOrder(suspend_thread[m], current_priority)
    /\ \A m \in Mutex : \A w \in ToSet(suspend_thread[m]) :
          current_priority[owner[m]] <= current_priority[w]

\* HighestRuns, with the state of the current thread.
Chosen ==
    pc[rt_current_thread] = "sched" \/ lowered \/ HighestIn(stat, rt_current_thread)

MutexInv ==
    /\ KernelInv
    /\ MutexTypes
    /\ FieldsAgree
    /\ Holding
    /\ InCall
    /\ Chosen
    /\ ~ nested => Inherited
-----------------------------------------------------------------------------
(* Lists in the order of the priorities.                                   *)

LEMMA RemoveAtInOrder ==
    ASSUME NEW s \in Seq(Thread), NEW cp, InOrder(s, cp), NEW i \in 1..Len(s)
    PROVE  InOrder(RemoveAt(s, i), cp)
<1> DEFINE r == RemoveAt(s, i)
<1>0. Len(s) \in Nat /\ DOMAIN s = 1..Len(s) /\ i \in Int  BY LenProperties
<1>1. /\ r \in Seq(Thread) /\ Len(r) = Len(s) - 1
      /\ \A j \in 1..(Len(s) - 1) : r[j] = IF j < i THEN s[j] ELSE s[j + 1]
  BY RemoveAtFacts
<1>2. DOMAIN r = 1..(Len(s) - 1)  BY <1>1, LenProperties
<1> HIDE DEF r
<1>3. ASSUME NEW j \in DOMAIN r, NEW k \in DOMAIN r, j <= k
      PROVE  cp[r[j]] <= cp[r[k]]
  <2> DEFINE pj == IF j < i THEN j ELSE j + 1
             pk == IF k < i THEN k ELSE k + 1
  <2>1. pj \in DOMAIN s /\ pk \in DOMAIN s /\ pj <= pk /\ r[j] = s[pj] /\ r[k] = s[pk]
    BY <1>0, <1>1, <1>2, <1>3
  <2> HIDE DEF pj, pk
  <2> QED  BY <2>1 DEF InOrder
<1> QED  BY <1>3 DEF InOrder, r

LEMMA InsertAtInOrder ==
    ASSUME NEW s \in Seq(Thread), NEW cp \in [Thread -> Nat], InOrder(s, cp),
           NEW i \in 1..(Len(s) + 1), NEW t \in Thread,
           \A j \in 1..(i - 1) : ~ (cp[t] < cp[s[j]]),
           i <= Len(s) => cp[t] < cp[s[i]]
    PROVE  InOrder(InsertAt(s, i, t), cp)
<1> DEFINE r == InsertAt(s, i, t)
<1>0. /\ Len(s) \in Nat /\ DOMAIN s = 1..Len(s) /\ i \in Int
      /\ \A j \in 1..Len(s) : s[j] \in Thread /\ cp[s[j]] \in Nat
  BY LenProperties, ElementOfSeq
<1>1. /\ r \in Seq(Thread) /\ Len(r) = Len(s) + 1
      /\ \A j \in 1..(Len(s) + 1) : r[j] = IF j < i THEN s[j] ELSE IF j = i THEN t ELSE s[j - 1]
  <2>1. r \in Seq(Thread) /\ Inserted(r, s, i, t)  BY InsertAtFacts
  <2> HIDE DEF r
  <2> QED  BY <2>1 DEF Inserted
<1>2. DOMAIN r = 1..(Len(s) + 1)  BY <1>1, LenProperties
<1> HIDE DEF r
<1>3. ASSUME NEW j \in 1..Len(s), j < i  PROVE cp[s[j]] <= cp[t]
  <2>1. j \in 1..(i - 1)  BY <1>0, <1>3
  <2> QED  BY <2>1, <1>0
<1>4. ASSUME NEW j \in 1..Len(s), i <= j  PROVE cp[t] <= cp[s[j]]
  <2>1. i \in 1..Len(s) /\ cp[t] < cp[s[i]]  BY <1>0, <1>4
  <2>2. cp[s[i]] <= cp[s[j]]  BY <2>1, <1>0, <1>4 DEF InOrder
  <2> QED  BY <2>1, <2>2, <1>0
<1>5. ASSUME NEW j \in DOMAIN r, NEW k \in DOMAIN r, j <= k
      PROVE  cp[r[j]] <= cp[r[k]]
  <2> DEFINE pj == IF j < i THEN j ELSE j - 1
             pk == IF k < i THEN k ELSE k - 1
  <2>0. j \in 1..(Len(s) + 1) /\ k \in 1..(Len(s) + 1)  BY <1>2
  <2>1. CASE j = i /\ k = i  BY <2>0, <2>1, <1>1, <1>0
  <2>2. CASE j = i /\ k # i
    <3>0. k - 1 \in 1..Len(s) /\ i <= k - 1 /\ ~ (k < i)  BY <2>0, <2>2, <1>0, <1>5
    <3>1. k - 1 \in 1..Len(s) /\ i <= k - 1 /\ r[k] = s[k - 1] /\ r[j] = t
      BY <3>0, <2>0, <2>2, <1>1
    <3> QED  BY <3>1, <1>4
  <2>3. CASE j # i /\ k = i
    <3>1. j \in 1..Len(s) /\ j < i /\ r[j] = s[j] /\ r[k] = t
      BY <2>0, <2>3, <1>0, <1>1, <1>5
    <3> QED  BY <3>1, <1>3
  <2>4. CASE j # i /\ k # i
    <3>a. j \in Int /\ k \in Int  BY <2>0, <1>0
    <3>b. pj \in DOMAIN s  BY <3>a, <2>0, <2>4, <1>0
    <3>c. pk \in DOMAIN s  BY <3>a, <2>0, <2>4, <1>0
    <3>d. pj <= pk
      <4>1. CASE j < i /\ k < i  BY <4>1, <3>a, <1>5
      <4>2. CASE j < i /\ k > i  BY <4>2, <3>a, <1>0
      <4>3. CASE j > i /\ k > i  BY <4>3, <3>a, <1>0, <1>5
      <4> QED  BY <4>1, <4>2, <4>3, <3>a, <2>4, <1>0, <1>5
    <3>0. pj \in DOMAIN s /\ pk \in DOMAIN s /\ pj <= pk  BY <3>b, <3>c, <3>d
    <3>1. r[j] = s[pj]
      <4>1. CASE j < i  BY <4>1, <2>0, <1>1
      <4>2. CASE ~ (j < i)  BY <4>2, <2>0, <2>4, <1>1
      <4> QED  BY <4>1, <4>2
    <3>2. r[k] = s[pk]
      <4>1. CASE k < i  BY <4>1, <2>0, <1>1
      <4>2. CASE ~ (k < i)  BY <4>2, <2>0, <2>4, <1>1
      <4> QED  BY <4>1, <4>2
    <3> HIDE DEF pj, pk
    <3> QED  BY <3>0, <3>1, <3>2 DEF InOrder
  <2> QED  BY <2>1, <2>2, <2>3, <2>4
<1> QED  BY <1>5 DEF InOrder, r

LEMMA SameInOrder ==
    ASSUME NEW s, NEW cp, NEW cp2, InOrder(s, cp), \A u \in ToSet(s) : cp2[u] = cp[u]
    PROVE  InOrder(s, cp2)
<1>1. \A k \in DOMAIN s : s[k] \in ToSet(s)  BY DEF ToSet
<1> QED  BY <1>1 DEF InOrder

-----------------------------------------------------------------------------
(* The steps.                                                              *)

LEMMA InitInv == Init => MutexInv
<1> SUFFICES ASSUME Init
             PROVE  MutexInv
  OBVIOUS
<1>1. KernelInv /\ HighestIn(stat, rt_current_thread)  BY KernelInitInv DEF Init
<1>2. MutexTypes
  <2>1. [t \in Thread |-> <<>>] \in [Thread -> Seq(Mutex)]  BY EmptySeq
  <2>2. 0 \in 0..HoldMax /\ 1 \in 0..1  BY MutexAssumption
  <2>3. /\ value \in [Mutex -> 0..1] /\ hold \in [Mutex -> 0..HoldMax]
        /\ held \in [Thread -> Seq(Mutex)]
    BY <2>1, <2>2 DEF Init
  <2> QED  BY <2>3 DEF Init, MutexTypes
<1>3. ToSet(<<>>) = {} /\ IsInjective(<<>>)  BY DEF ToSet, IsInjective
<1>4. FieldsAgree
  BY <1>3, MutexAssumption DEF Init, FieldsAgree, KernelInit
<1>5. Holding
  BY <1>3, MutexAssumption DEF Init, Holding, KernelInit
<1>6. InCall
  <2>1. \A t \in Thread : stat[t] # "SUSPEND"  BY DEF Init, KernelInit
  <2>2. rt_current_thread \in Thread  BY DEF Init, KernelInit
  <2> QED  BY <1>3, <2>1, <2>2, MutexAssumption DEF Init, InCall, KernelInit
<1>7. ~ nested => Inherited
  <2>1. \A m \in Mutex : suspend_thread[m] = <<>> /\ owner[m] = NoThread
    BY MutexAssumption DEF Init, KernelInit
  <2>2. InOrder(<<>>, current_priority)  BY DEF InOrder
  <2> QED  BY <1>3, <2>1, <2>2 DEF Inherited
<1> QED  BY <1>1, <1>2, <1>4, <1>5, <1>6, <1>7 DEF MutexInv, Chosen

\* The thread that calls is running and waits in no list.
LEMMA FreeFacts ==
    ASSUME MutexInv, NEW t \in Thread, Free(t)
    PROVE  /\ t = rt_current_thread /\ t # Idle /\ stat[t] = "RUNNING"
           /\ pc[t] = "run" /\ asked[t] = NoThread
           /\ \A m \in Mutex : t \notin ToSet(suspend_thread[m])
           /\ \A u \in Thread : stat[u] = "RUNNING" => u = t
<1>1. t = rt_current_thread /\ t # Idle /\ pc[t] = "run"  BY DEF Free, Executes
<1>2. stat[t] # "SUSPEND" /\ asked[t] = NoThread  BY <1>1 DEF MutexInv, InCall
<1>3. stat[t] \in Stat /\ stat[t] # "READY" /\ Waiting(stat, suspend_thread)
  BY <1>1 DEF MutexInv, KernelInv, Current
<1>4. \A u \in Thread : stat[u] = "RUNNING" => u = t  BY <1>1 DEF MutexInv, KernelInv, Current
<1> QED  BY <1>1, <1>2, <1>3, <1>4, WaitingSuspended, MutexAssumption DEF Stat

LEMMA TickInv == MutexInv /\ Tick => MutexInv'
<1> SUFFICES ASSUME MutexInv, Tick
             PROVE  MutexInv'
  OBVIOUS
<1>0. /\ KernelInv /\ MutexTypes /\ FieldsAgree /\ Holding /\ InCall /\ Chosen /\ (~ nested => Inherited)
      /\ UNCHANGED <<mutexVars, pc, asked, held, nested, crossed>>
  BY DEF MutexInv, Tick
<1>1. KernelInv' /\ TickFrame  BY <1>0, SysTickKeeps DEF Tick
<1>2. current_priority' = current_priority  BY <1>1 DEF TickFrame
<1>3. MutexTypes' /\ Holding'
  BY <1>0, <1>2 DEF MutexTypes, Holding, mutexVars
<1>4. \A m \in Mutex : \A w \in ToSet(suspend_thread'[m]) : w \in Thread /\ w \in ToSet(suspend_thread[m])
  <2>1. Waiting(stat', suspend_thread')  BY <1>1 DEF KernelInv
  <2>2. \A m \in Mutex : \A w \in ToSet(suspend_thread'[m]) : w \in Thread
    BY <2>1, WaitingSuspended, MutexAssumption
  <2> QED  BY <2>2, <1>1, MutexAssumption DEF TickFrame
<1>5. FieldsAgree'
  BY <1>0, <1>4 DEF FieldsAgree, mutexVars
<1>6. InCall'
  <2>1. stat'[rt_current_thread'] = "SUSPEND" => pc'[rt_current_thread'] = "sched"
    BY <1>0, <1>1 DEF TickFrame, schedVars, HighestIn, InCall
  <2>2. ASSUME NEW t \in Thread
        PROVE  /\ stat'[t] = "SUSPEND" => pc'[t] # "run"
               /\ pc'[t] = "run" => asked'[t] = NoThread
               /\ \A m \in Mutex : t \in ToSet(suspend_thread'[m]) => asked'[t] = m
    BY <1>0, <1>1, <1>4 DEF TickFrame, InCall
  <2>3. ASSUME NEW t \in Thread, asked'[t] # NoThread
        PROVE  /\ stat'[t] = "SUSPEND" => error'[t] = "RT_EOK" /\ owner'[asked'[t]] # t
               /\ stat'[t] # "SUSPEND" => (error'[t] = "RT_EOK" <=> owner'[asked'[t]] = t)
    BY <2>3, <1>0, <1>1 DEF TickFrame, InCall, mutexVars
  <2> QED  BY <2>1, <2>2, <2>3 DEF InCall
<1>7. Chosen'
  <2>1. CASE UNCHANGED schedVars
    BY <1>0, <1>2, <2>1 DEF Chosen, HighestIn, schedVars
  <2>2. CASE HighestIn(stat', rt_current_thread')
    BY <1>2, <2>2 DEF Chosen, HighestIn
  <2> QED  BY <1>1, <2>1, <2>2 DEF TickFrame
<1>8. ASSUME ~ nested'  PROVE Inherited'
  <2>1. Inherited  BY <1>0, <1>8
  <2>2. ASSUME NEW m \in Mutex  PROVE InOrder(suspend_thread'[m], current_priority')
    <3>1. suspend_thread[m] \in Seq(Thread)  BY <1>0, MutexAssumption DEF KernelInv, Waiting
    <3>2. InOrder(suspend_thread[m], current_priority)  BY <2>1 DEF Inherited
    <3>3. \/ suspend_thread'[m] = suspend_thread[m]
          \/ \E i \in 1..Len(suspend_thread[m]) : suspend_thread'[m] = RemoveAt(suspend_thread[m], i)
      BY <1>1, MutexAssumption DEF TickFrame
    <3> QED  BY <1>2, <3>1, <3>2, <3>3, RemoveAtInOrder
  <2> QED  BY <1>0, <1>2, <1>4, <2>1, <2>2 DEF Inherited, mutexVars
<1> QED  BY <1>1, <1>3, <1>5, <1>6, <1>7, <1>8 DEF MutexInv

LEMMA HoldInv ==
    ASSUME MutexInv, NEW t \in Thread, NEW m \in Mutex, TakeAgain(t, m) \/ ReleaseOnce(t, m)
    PROVE  MutexInv'
<1>0. /\ KernelInv /\ MutexTypes /\ FieldsAgree /\ Holding /\ InCall /\ Chosen /\ (~ nested => Inherited)
  BY DEF MutexInv
<1>1. /\ UNCHANGED <<value, owner, original_priority, pc, asked, held, nested, crossed>>
      /\ UNCHANGED <<rt_tick, rt_current_thread, stat, yield, ready, lowered, remaining_tick>>
      /\ UNCHANGED <<current_priority, timer_list, suspend_thread, error, isr>>
      /\ owner[m] = t
  BY DEF TakeAgain, ReleaseOnce, NoSwitch
<1>2. KernelInv' /\ (HighestIn(stat, rt_current_thread))' = HighestIn(stat, rt_current_thread)
  <2>1. UNCHANGED kernelVars  BY <1>1 DEF kernelVars, schedVars
  <2> QED  BY <1>0, <2>1, KernelSame
<1>3. owner[m] # NoThread /\ hold[m] \in 1..HoldMax
  <2>1. owner[m] # NoThread  BY <1>1, MutexAssumption
  <2> QED  BY <2>1, <1>0 DEF FieldsAgree, MutexTypes
<1>4. hold' \in [Mutex -> 0..HoldMax] /\ \A n \in Mutex : hold'[n] = 0 <=> hold[n] = 0
  <2>1. CASE TakeAgain(t, m)
    <3> DEFINE h == IF hold[m] < HoldMax THEN hold[m] + 1 ELSE hold[m]
    <3>1. h \in 1..HoldMax  BY <1>3, MutexAssumption
    <3>2. hold' = [hold EXCEPT ![m] = h]  BY <2>1 DEF TakeAgain
    <3> HIDE DEF h
    <3>3. h \in 0..HoldMax /\ h # 0  BY <3>1, MutexAssumption
    <3> QED  BY <1>0, <1>3, <3>2, <3>3 DEF MutexTypes
  <2>2. CASE ReleaseOnce(t, m)
    <3> DEFINE h == hold[m] - 1
    <3>1. h \in 0..HoldMax /\ h # 0  BY <1>3, <2>2, MutexAssumption DEF ReleaseOnce
    <3>2. hold' = [hold EXCEPT ![m] = h]  BY <2>2 DEF ReleaseOnce
    <3> HIDE DEF h
    <3> QED  BY <1>0, <1>3, <3>1, <3>2 DEF MutexTypes
  <2> QED  BY <2>1, <2>2
<1>5. MutexTypes'  BY <1>0, <1>1, <1>4 DEF MutexTypes
<1>6. FieldsAgree'  BY <1>0, <1>1, <1>4 DEF FieldsAgree
<1>7. Holding' /\ InCall'  BY <1>0, <1>1 DEF Holding, InCall
<1>8. Chosen'  BY <1>0, <1>1, <1>2 DEF Chosen
<1>9. ~ nested' => Inherited'  BY <1>0, <1>1 DEF Inherited
<1> QED  BY <1>2, <1>5, <1>6, <1>7, <1>8, <1>9 DEF MutexInv

\* A thread that holds nothing owns nothing.
LEMMA HoldsNothing ==
    ASSUME Holding, NEW t \in Thread, held[t] = <<>>, NEW m \in Mutex
    PROVE  owner[m] # t
<1>1. ToSet(<<>>) = {}  BY DEF ToSet
<1> QED  BY <1>1 DEF Holding

LEMMA TakeFreeInv ==
    ASSUME MutexInv, NEW t \in Thread, NEW m \in Mutex, TakeFree(t, m)
    PROVE  MutexInv'
<1>0. /\ KernelInv /\ MutexTypes /\ FieldsAgree /\ Holding /\ InCall /\ Chosen /\ (~ nested => Inherited)
  BY DEF MutexInv
<1>1. /\ Free(t) /\ owner[m] # t /\ value[m] > 0
      /\ value' = [value EXCEPT ![m] = @ - 1]
      /\ owner' = [owner EXCEPT ![m] = t]
      /\ original_priority' = [original_priority EXCEPT ![m] = current_priority[t]]
      /\ hold' = [hold EXCEPT ![m] = @ + 1]
      /\ held' = [held EXCEPT ![t] = Append(@, m)]
      /\ nested' = (nested \/ held[t] # <<>>)
      /\ UNCHANGED <<current_priority, error, pc, asked, crossed>>
      /\ UNCHANGED <<rt_tick, rt_current_thread, stat, yield, ready, lowered, remaining_tick>>
      /\ UNCHANGED <<timer_list, suspend_thread, isr>>
  BY DEF TakeFree, Nests, NoSwitch
<1>2. KernelInv' /\ (HighestIn(stat, rt_current_thread))' = HighestIn(stat, rt_current_thread)
  <2>1. UNCHANGED kernelVars  BY <1>1 DEF kernelVars, schedVars
  <2> QED  BY <1>0, <2>1, KernelSame
<1>3. /\ t = rt_current_thread /\ stat[t] = "RUNNING" /\ pc[t] = "run" /\ asked[t] = NoThread
      /\ \A n \in Mutex : t \notin ToSet(suspend_thread[n])
  BY <1>1, FreeFacts
<1>4. /\ value[m] = 1 /\ owner[m] = NoThread /\ hold[m] = 0 /\ ToSet(suspend_thread[m]) = {}
      /\ current_priority[t] \in Prio /\ t # NoThread
  <2>1. value[m] \in 0..1 /\ value[m] > 0  BY <1>0, <1>1 DEF MutexTypes
  <2>2. value[m] = 1  BY <2>1
  <2>3. owner[m] = NoThread /\ hold[m] = 0 /\ ToSet(suspend_thread[m]) = {}
    BY <1>0, <2>2 DEF FieldsAgree
  <2> QED  BY <1>0, <2>2, <2>3, MutexAssumption DEF KernelInv, KernelScalars
<1>5. /\ held[t] \in Seq(Mutex) /\ m \notin ToSet(held[t]) /\ IsInjective(held[t])
  BY <1>0, <1>1 DEF Holding, MutexTypes
<1>6. /\ held'[t] \in Seq(Mutex) /\ ToSet(held'[t]) = ToSet(held[t]) \union {m} /\ IsInjective(held'[t])
      /\ held'[t] = Append(held[t], m)
      /\ \A u \in Thread : u # t => held'[u] = held[u]
  <2>1. held'[t] = Append(held[t], m) /\ \A u \in Thread : u # t => held'[u] = held[u]
    BY <1>0, <1>1 DEF MutexTypes
  <2> QED  BY <2>1, <1>5, AppendKeeps
<1>7. MutexTypes'
  <2>1. held' \in [Thread -> Seq(Mutex)]  BY <1>0, <1>1, <1>5, <1>6 DEF MutexTypes
  <2>2. value' \in [Mutex -> 0..1]  BY <1>0, <1>1, <1>4 DEF MutexTypes
  <2>3. hold' \in [Mutex -> 0..HoldMax]  BY <1>0, <1>1, <1>4, MutexAssumption DEF MutexTypes
  <2>4. nested' \in BOOLEAN  BY <1>1
  <2>5. original_priority' \in [Mutex -> Prio \union {NoPrio}]  BY <1>0, <1>1, <1>4 DEF MutexTypes
  <2>6. owner' \in [Mutex -> Thread \union {NoThread}]  BY <1>0, <1>1 DEF MutexTypes
  <2> QED  BY <1>0, <1>1, <2>1, <2>2, <2>3, <2>4, <2>5, <2>6 DEF MutexTypes
<1>8. FieldsAgree'
  <2>1. ASSUME NEW n \in Mutex, n # m
        PROVE  /\ value'[n] = value[n] /\ owner'[n] = owner[n] /\ hold'[n] = hold[n]
               /\ original_priority'[n] = original_priority[n]
    BY <2>1, <1>0, <1>1 DEF MutexTypes
  <2>2. /\ value'[m] = 0 /\ owner'[m] = t /\ hold'[m] = 1
        /\ original_priority'[m] = current_priority[t]
    BY <1>0, <1>1, <1>4 DEF MutexTypes
  <2> QED  BY <1>0, <1>1, <1>4, <2>1, <2>2 DEF FieldsAgree
<1>9. \A n \in Mutex : /\ owner'[n] = IF n = m THEN t ELSE owner[n]
                       /\ original_priority'[n] = IF n = m THEN current_priority[t] ELSE original_priority[n]
  BY <1>0, <1>1 DEF MutexTypes
<1>10. Holding'
  <2>1. ASSUME NEW u \in Thread, u # t
        PROVE  /\ IsInjective(held'[u]) /\ \A n \in Mutex : n \in ToSet(held'[u]) <=> owner'[n] = u
               /\ ~ crossed' /\ held'[u] = <<>> => current_priority'[u] = Base[u]
               /\ ~ crossed' /\ held'[u] # <<>> => original_priority'[held'[u][1]] = Base[u]
    <3>1. held'[u] = held[u]  BY <1>6, <2>1
    <3>2. \A n \in Mutex : n \in ToSet(held[u]) <=> owner'[n] = u
      BY <1>0, <1>4, <1>9, <2>1, MutexAssumption DEF Holding
    <3>3. ASSUME ~ crossed', held[u] # <<>>  PROVE original_priority'[held[u][1]] = Base[u]
      <4>1. held[u] \in Seq(Mutex)  BY <1>0 DEF MutexTypes
      <4>2. 1 \in DOMAIN held[u] /\ held[u][1] \in Mutex
        BY <3>3, <4>1, TailIsRemoveAt, ElementOfSeq, LenProperties
      <4>3. held[u][1] \in ToSet(held[u])  BY <4>2 DEF ToSet
      <4>4. held[u][1] # m  BY <4>2, <4>3, <3>2, <1>9, <2>1
      <4> QED  BY <3>3, <4>2, <4>4, <1>0, <1>1, <1>9 DEF Holding
    <3> QED  BY <3>1, <3>2, <3>3, <1>0, <1>1 DEF Holding
  <2>2. \A n \in Mutex : n \in ToSet(held'[t]) <=> owner'[n] = t
    BY <1>0, <1>6, <1>9 DEF Holding
  <2>3. held'[t] # <<>>  BY <1>5, <1>6, AppendProperties
  <2>4. ASSUME ~ crossed'  PROVE original_priority'[held'[t][1]] = Base[t]
    <3>1. CASE held[t] = <<>>
      <4>1. held'[t][1] = m
        <5>1. Len(held[t]) = 0  BY <3>1, EmptySeq
        <5> QED  BY <5>1, <1>5, <1>6, AppendProperties
      <4> QED  BY <2>4, <4>1, <3>1, <1>0, <1>1, <1>9 DEF Holding
    <3>2. CASE held[t] # <<>>
      <4>1. 1 \in 1..Len(held[t]) /\ held[t][1] \in Mutex
        BY <3>2, <1>5, TailIsRemoveAt, ElementOfSeq
      <4>2. held'[t][1] = held[t][1]  BY <4>1, <1>5, <1>6, AppendProperties
      <4>3. held[t][1] \in ToSet(held[t])  BY <4>1, <1>5, LenProperties DEF ToSet
      <4>4. held[t][1] # m  BY <4>3, <1>5
      <4> QED  BY <2>4, <3>2, <4>1, <4>2, <4>4, <1>0, <1>1, <1>9 DEF Holding
    <3> QED  BY <3>1, <3>2
  <2> QED  BY <1>6, <2>1, <2>2, <2>3, <2>4 DEF Holding
<1>11. InCall'
  <2>1. ASSUME NEW u \in Thread, asked[u] # NoThread
        PROVE  owner'[asked[u]] = u <=> owner[asked[u]] = u
    <3>1. u # t /\ asked[u] \in Mutex  BY <1>0, <1>3, <2>1 DEF MutexTypes
    <3>2. CASE asked[u] = m  BY <3>1, <3>2, <1>4, <1>9, MutexAssumption
    <3>3. CASE asked[u] # m  BY <3>1, <3>3, <1>9
    <3> QED  BY <3>2, <3>3
  <2> QED  BY <1>0, <1>1, <2>1 DEF InCall
<1>12. Chosen'  BY <1>0, <1>1, <1>2 DEF Chosen
<1>13. ASSUME ~ nested'  PROVE Inherited'
  <2>1. ~ nested /\ held[t] = <<>> /\ Inherited  BY <1>0, <1>1, <1>13
  <2>2. \A n \in Mutex : owner[n] # t  BY <1>0, <2>1, HoldsNothing
  <2>3. \A n1, n2 \in Mutex : owner'[n1] = owner'[n2] /\ owner'[n1] # NoThread => n1 = n2
    BY <1>9, <2>1, <2>2 DEF Inherited
  <2>4. \A n1, n2 \in Mutex : owner'[n2] \notin ToSet(suspend_thread'[n1])
    BY <1>1, <1>3, <1>9, <2>1 DEF Inherited
  <2>5. \A n \in Mutex : \A w \in ToSet(suspend_thread'[n]) : current_priority'[owner'[n]] <= current_priority'[w]
    BY <1>1, <1>4, <1>9, <2>1 DEF Inherited
  <2> QED  BY <1>1, <2>1, <2>3, <2>4, <2>5 DEF Inherited
<1> QED  BY <1>2, <1>7, <1>8, <1>10, <1>11, <1>12, <1>13 DEF MutexInv

\* rt_schedule, rt_thread_yield.
LEMMA ScheduleInv ==
    ASSUME MutexInv, NEW t \in Thread, Reschedule(t) \/ MutexYield(t)
    PROVE  MutexInv'
<1>0. /\ KernelInv /\ MutexTypes /\ FieldsAgree /\ Holding /\ InCall /\ Chosen /\ (~ nested => Inherited)
  BY DEF MutexInv
<1>1. /\ CallSchedule(t) \/ rt_thread_yield(t)
      /\ UNCHANGED <<mutexVars, asked, held, nested, crossed>>
      /\ UNCHANGED <<current_priority, suspend_thread, error>>
  BY DEF Reschedule, MutexYield, CallSchedule, rt_thread_yield
<1>2. /\ KernelInv' /\ HighestIn(stat', rt_current_thread') /\ lowered' = FALSE
      /\ \A u \in Thread : stat'[u] = "SUSPEND" <=> stat[u] = "SUSPEND"
  BY <1>0, <1>1, CallScheduleKeeps
<1>3. pc' \in [Thread -> {"run", "sched", "back"}] /\ \A u \in Thread : pc'[u] = "run" <=> pc[u] = "run"
  BY <1>0 DEF Reschedule, MutexYield, MutexTypes
<1>4. MutexTypes' /\ FieldsAgree' /\ Holding'
  BY <1>0, <1>1, <1>3 DEF MutexTypes, FieldsAgree, Holding, mutexVars
<1>5. InCall'
  <2>1. stat'[rt_current_thread'] # "SUSPEND"  BY <1>2 DEF HighestIn
  <2> QED  BY <1>0, <1>1, <1>2, <1>3, <2>1 DEF InCall, mutexVars
<1>6. Chosen'  BY <1>1, <1>2 DEF Chosen, HighestIn
<1>7. ~ nested' => Inherited'  BY <1>0, <1>1 DEF Inherited, mutexVars
<1> QED  BY <1>2, <1>4, <1>5, <1>6, <1>7 DEF MutexInv

LEMMA ReturnInv ==
    ASSUME MutexInv, NEW t \in Thread, Return(t)
    PROVE  MutexInv'
<1>0. /\ KernelInv /\ MutexTypes /\ FieldsAgree /\ Holding /\ InCall /\ Chosen /\ (~ nested => Inherited)
  BY DEF MutexInv
<1>1. /\ t = rt_current_thread /\ pc[t] = "back"
      /\ pc' = [pc EXCEPT ![t] = "run"] /\ asked' = [asked EXCEPT ![t] = NoThread]
      /\ error' = [error EXCEPT ![t] = "RT_EOK"]
      /\ UNCHANGED <<mutexVars, held, nested, crossed>>
      /\ UNCHANGED <<rt_tick, rt_current_thread, stat, yield, ready, lowered, remaining_tick>>
      /\ UNCHANGED <<timer_list, suspend_thread, isr, current_priority>>
  BY DEF Return, NoSwitch, Executes
<1>2. KernelInv'
  <2>1. KernelScalars'  BY <1>0, <1>1 DEF KernelInv, KernelScalars
  <2> QED  BY <1>0, <1>1, <2>1 DEF KernelInv
<1>3. stat[t] # "SUSPEND" /\ \A m \in Mutex : t \notin ToSet(suspend_thread[m])
  <2>1. stat[t] # "SUSPEND"  BY <1>0, <1>1 DEF InCall
  <2> QED  BY <1>0, <2>1, WaitingSuspended, MutexAssumption DEF KernelInv
<1>4. \A u \in Thread : /\ pc'[u] = IF u = t THEN "run" ELSE pc[u]
                        /\ asked'[u] = IF u = t THEN NoThread ELSE asked[u]
                        /\ error'[u] = IF u = t THEN "RT_EOK" ELSE error[u]
  BY <1>0, <1>1 DEF MutexTypes, KernelInv, KernelScalars
<1>5. MutexTypes' /\ FieldsAgree' /\ Holding'
  BY <1>0, <1>1 DEF MutexTypes, FieldsAgree, Holding, mutexVars
<1>6. InCall'
  BY <1>0, <1>1, <1>3, <1>4 DEF InCall, mutexVars
<1>7. Chosen'  BY <1>0, <1>1 DEF Chosen, HighestIn
<1>8. ~ nested' => Inherited'  BY <1>0, <1>1 DEF Inherited, mutexVars
<1> QED  BY <1>2, <1>5, <1>6, <1>7, <1>8 DEF MutexInv

LEMMA SleepInv ==
    ASSUME MutexInv, NEW t \in Thread, NEW delay \in Timeout, MutexSleep(t, delay)
    PROVE  MutexInv'
<1>0. /\ KernelInv /\ MutexTypes /\ FieldsAgree /\ Holding /\ InCall /\ Chosen /\ (~ nested => Inherited)
  BY DEF MutexInv
<1>1. /\ Free(t) /\ Sleep(t, delay) /\ pc' = [pc EXCEPT ![t] = "sched"]
      /\ UNCHANGED <<mutexVars, asked, held, nested, crossed>>
      /\ UNCHANGED <<rt_current_thread, current_priority, suspend_thread>>
  BY DEF MutexSleep, Sleep
<1>2. /\ t = rt_current_thread /\ t # Idle /\ stat[t] = "RUNNING" /\ asked[t] = NoThread
      /\ \A m \in Mutex : t \notin ToSet(suspend_thread[m])
  BY <1>1, FreeFacts
<1>3. /\ KernelInv' /\ stat' = [stat EXCEPT ![t] = "SUSPEND"]
      /\ error' = [error EXCEPT ![t] = "RT_EOK"]
  BY <1>0, <1>1, <1>2, SleepKeeps
<1>4. \A u \in Thread : /\ pc'[u] = IF u = t THEN "sched" ELSE pc[u]
                        /\ stat'[u] = IF u = t THEN "SUSPEND" ELSE stat[u]
                        /\ error'[u] = IF u = t THEN "RT_EOK" ELSE error[u]
  BY <1>0, <1>1, <1>3 DEF MutexTypes, KernelInv, KernelScalars, Current
<1>5. MutexTypes' /\ FieldsAgree' /\ Holding'
  BY <1>0, <1>1 DEF MutexTypes, FieldsAgree, Holding, mutexVars
<1>6. InCall'
  <2>1. pc'[rt_current_thread'] = "sched"  BY <1>1, <1>2, <1>4
  <2> QED  BY <1>0, <1>1, <1>2, <1>4, <2>1 DEF InCall, mutexVars
<1>7. Chosen'  BY <1>1, <1>2, <1>4 DEF Chosen
<1>8. ~ nested' => Inherited'  BY <1>0, <1>1 DEF Inherited, mutexVars
<1> QED  BY <1>3, <1>5, <1>6, <1>7, <1>8 DEF MutexInv

\* The owner inherits, if anything, a higher priority.
LEMMA InheritFacts ==
    ASSUME MutexInv, NEW t \in Thread, NEW m \in Mutex, owner[m] \in Thread, Inherit(t, m)
    PROVE  /\ current_priority' \in [Thread -> Prio]
           /\ \A x \in Thread : x # owner[m] => current_priority'[x] = current_priority[x]
           /\ current_priority'[owner[m]] <= current_priority[t]
           /\ current_priority'[owner[m]] <= current_priority[owner[m]]
           /\ \A st : st \in [Thread -> Stat] /\ st[owner[m]] = stat[owner[m]]
                        /\ Queued(st, ready, current_priority)
                      => Queued(st, ready', current_priority')
<1> DEFINE u == owner[m]
           p == current_priority[t]
<1>0. current_priority \in [Thread -> Prio] /\ p \in Prio
  BY DEF MutexInv, KernelInv, KernelScalars
<1>1. p \in Nat /\ current_priority[u] \in Nat  BY <1>0, PrioNat
<1>2. CASE p < current_priority[u]
  <2>1. /\ current_priority' = [current_priority EXCEPT ![u] = p]
        /\ ready' = IF stat[u] = "READY" THEN Enqueue(Dequeue(ready, u), u, p, yield) ELSE ready
    BY <1>2 DEF Inherit, ChangePriority
  <2>2. ASSUME NEW st, st \in [Thread -> Stat], st[u] = stat[u], Queued(st, ready, current_priority)
        PROVE  Queued(st, ready', current_priority')
    <3> HIDE DEF p, u
    <3>1. u \in Thread  BY DEF u
    <3>2. Queued(st, IF st[u] = "READY" THEN Enqueue(Dequeue(ready, u), u, p, yield) ELSE ready,
                 [current_priority EXCEPT ![u] = p])
      BY <1>0, <2>2, <3>1, RequeueQueued
    <3> QED  BY <2>1, <2>2, <3>2
  <2>3. current_priority'[u] = p /\ current_priority' \in [Thread -> Prio]
        /\ \A x \in Thread : x # u => current_priority'[x] = current_priority[x]
    BY <2>1, <1>0
  <2> QED  BY <1>1, <1>2, <2>2, <2>3
<1>3. CASE ~ (p < current_priority[u])
  <2>1. UNCHANGED <<current_priority, ready>>  BY <1>3 DEF Inherit
  <2>2. current_priority[u] <= p  BY <1>1, <1>3
  <2> QED  BY <1>0, <1>1, <2>1, <2>2
<1> QED  BY <1>2, <1>3

LEMMA TakeWaitsInv ==
    ASSUME MutexInv, NEW t \in Thread, NEW m \in Mutex, NEW timeout \in Int,
           TakeWaits(t, m, timeout)
    PROVE  MutexInv'
<1> DEFINE u == owner[m]
<1>0. /\ KernelInv /\ MutexTypes /\ FieldsAgree /\ Holding /\ InCall /\ Chosen /\ (~ nested => Inherited)
      /\ KernelScalars /\ stat \in [Thread -> Stat] /\ Waiting(stat, suspend_thread)
      /\ Wakeable(stat, timer_list, suspend_thread)
  BY DEF MutexInv, KernelInv, Current
<1>1. /\ Free(t) /\ owner[m] # t /\ value[m] = 0 /\ Inherit(t, m) /\ SuspendSelf(t, timeout)
      /\ suspend_thread' = [suspend_thread EXCEPT ![m] = InsertByPriority(@, t)]
      /\ pc' = [pc EXCEPT ![t] = "sched"] /\ asked' = [asked EXCEPT ![t] = m]
      /\ nested' = (nested \/ held[t] # <<>>)
      /\ UNCHANGED <<rt_tick, rt_current_thread, yield, lowered, remaining_tick, isr>>
      /\ UNCHANGED <<value, owner, original_priority, hold, held, crossed>>
  BY DEF TakeWaits, Nests, mutexVars
<1>2. /\ t = rt_current_thread /\ t # Idle /\ stat[t] = "RUNNING" /\ asked[t] = NoThread
      /\ \A n \in Mutex : t \notin ToSet(suspend_thread[n])
  BY <1>1, FreeFacts
<1>3. u \in Thread /\ u # t /\ u # NoThread
  BY <1>0, <1>1, MutexAssumption DEF FieldsAgree, MutexTypes
<1>4. /\ current_priority' \in [Thread -> Prio]
      /\ \A x \in Thread : x # u => current_priority'[x] = current_priority[x]
      /\ current_priority'[u] <= current_priority[t]
      /\ current_priority'[u] <= current_priority[u]
      /\ \A st : st \in [Thread -> Stat] /\ st[u] = stat[u] /\ Queued(st, ready, current_priority)
                    => Queued(st, ready', current_priority')
  BY <1>1, <1>3, InheritFacts
<1>5. /\ stat' = [stat EXCEPT ![t] = "SUSPEND"]
      /\ Current(stat', rt_current_thread)
      /\ Queued(stat', ready, current_priority)
      /\ TimersOf(stat', timer_list')
      /\ ToSet(ThreadsOf(timer_list')) = IF timeout > 0 THEN ToSet(ThreadsOf(timer_list)) \union {t}
                                         ELSE ToSet(ThreadsOf(timer_list)) \ {t}
      /\ error' = [error EXCEPT ![t] = "RT_EOK"]
      /\ \A o \in Object : t \notin ToSet(suspend_thread[o])
  BY <1>0, <1>1, <1>2, SuspendFacts
<1>6. PICK i \in 1..(Len(suspend_thread[m]) + 1) :
         /\ InsertByPriority(suspend_thread[m], t) = InsertAt(suspend_thread[m], i, t)
         /\ \A j \in 1..(i - 1) : ~ (current_priority[t] < current_priority[suspend_thread[m][j]])
         /\ i <= Len(suspend_thread[m]) => current_priority[t] < current_priority[suspend_thread[m][i]]
  <2>1. suspend_thread[m] \in Seq(Thread)  BY <1>0, MutexAssumption DEF Waiting
  <2> QED  BY <2>1, InsertByPriorityFacts
<1> DEFINE s == suspend_thread[m]
           r == InsertAt(s, i, t)
<1>7. s \in Seq(Thread) /\ IsInjective(s) /\ t \notin ToSet(s) /\ i \in 1..(Len(s) + 1)
  BY <1>0, <1>2, MutexAssumption DEF Waiting
<1> HIDE DEF s
<1>8. r \in Seq(Thread) /\ IsInjective(r) /\ ToSet(r) = ToSet(s) \union {t}
  <2>1. r \in Seq(Thread)  BY <1>7, InsertAtFacts, SMTT(30)
  <2>2. ToSet(r) = ToSet(s) \union {t}  BY <1>7, InsertAtKeeps, SMTT(30)
  <2>3. IsInjective(r)  BY <1>7, InsertAtKeeps, SMTT(30)
  <2> QED  BY <2>1, <2>2, <2>3
<1> HIDE DEF r
<1>9. suspend_thread' = [suspend_thread EXCEPT ![m] = r]
  BY <1>1, <1>6 DEF r, s
<1>10. /\ Waiting(stat', suspend_thread')
       /\ \A n \in Mutex : ToSet(suspend_thread'[n]) = IF n = m THEN ToSet(suspend_thread[n]) \union {t}
                                                       ELSE ToSet(suspend_thread[n])
  <2>1. ToSet(r) = ToSet(suspend_thread[m]) \union {t}  BY <1>8 DEF s
  <2>2. m \in Object  BY MutexAssumption
  <2>3. /\ Waiting(stat', suspend_thread')
        /\ \A q \in Object : ToSet(suspend_thread'[q]) = IF q = m THEN ToSet(suspend_thread[q]) \union {t}
                                                         ELSE ToSet(suspend_thread[q])
    BY <1>0, <1>5, <1>8, <1>9, <2>1, <2>2, JoinList
  <2> QED  BY <2>3, MutexAssumption
<1>11. \A x \in Thread : /\ stat'[x] = IF x = t THEN "SUSPEND" ELSE stat[x]
                         /\ error'[x] = IF x = t THEN "RT_EOK" ELSE error[x]
                         /\ pc'[x] = IF x = t THEN "sched" ELSE pc[x]
                         /\ asked'[x] = IF x = t THEN m ELSE asked[x]
  BY <1>0, <1>1, <1>5 DEF KernelScalars, MutexTypes
<1>12. KernelInv'
  <2>1. KernelScalars'
    BY <1>0, <1>1, <1>4, <1>5 DEF KernelScalars
  <2>2. Queued(stat', ready', current_priority')
    <3>1. stat' \in [Thread -> Stat]  BY <1>5 DEF Current
    <3> QED  BY <3>1, <1>3, <1>4, <1>5, <1>11
  <2>3. Wakeable(stat', timer_list', suspend_thread')
    <3> SUFFICES ASSUME NEW x \in Thread, stat'[x] = "SUSPEND"
                 PROVE  \/ x \in ToSet(ThreadsOf(timer_list'))
                        \/ \E o \in Object : x \in ToSet(suspend_thread'[o])
      BY DEF Wakeable
    <3>1. CASE x = t
      <4>1. x \in ToSet(suspend_thread'[m])  BY <1>10, <3>1
      <4> QED  BY <4>1, MutexAssumption
    <3>2. CASE x # t
      <4>1. stat[x] = "SUSPEND"  BY <1>11, <3>2
      <4>2. \/ x \in ToSet(ThreadsOf(timer_list))
            \/ \E o \in Object : x \in ToSet(suspend_thread[o])
        BY <4>1, <1>0 DEF Wakeable
      <4>3. ASSUME x \in ToSet(ThreadsOf(timer_list))  PROVE x \in ToSet(ThreadsOf(timer_list'))
        BY <1>5, <3>2, <4>3
      <4>4. ASSUME NEW o \in Object, x \in ToSet(suspend_thread[o])  PROVE x \in ToSet(suspend_thread'[o])
        BY <1>10, <4>4, MutexAssumption
      <4> QED  BY <4>2, <4>3, <4>4
    <3> QED  BY <3>1, <3>2
  <2> QED  BY <1>1, <1>5, <1>10, <2>1, <2>2, <2>3 DEF KernelInv
<1>13. MutexTypes'
  BY <1>0, <1>1 DEF MutexTypes
<1>14. FieldsAgree'
  BY <1>0, <1>1, <1>3, <1>10 DEF FieldsAgree
<1>15. Holding'
  <2>1. held[u] # <<>>  BY <1>0, <1>3, HoldsNothing
  <2>2. \A x \in Thread : held[x] = <<>> => current_priority'[x] = current_priority[x]
    BY <2>1, <1>4
  <2> QED  BY <1>0, <1>1, <2>2 DEF Holding
<1>16. InCall'
  <2>1. pc'[rt_current_thread'] = "sched"  BY <1>1, <1>2, <1>11
  <2>2. ASSUME NEW x \in Thread, NEW n \in Mutex, x \in ToSet(suspend_thread'[n])
        PROVE  asked'[x] = n
    <3>1. CASE x = t
      <4>1. n = m  BY <3>1, <1>2, <1>10, <2>2
      <4> QED  BY <4>1, <3>1, <1>11
    <3>2. CASE x # t
      <4>1. x \in ToSet(suspend_thread[n])
        <5>1. CASE n = m  BY <5>1, <3>2, <1>10, <2>2
        <5>2. CASE n # m  BY <5>2, <3>2, <1>10, <2>2
        <5> QED  BY <5>1, <5>2
      <4>2. asked[x] = n  BY <4>1, <1>0 DEF InCall
      <4> QED  BY <4>2, <3>2, <1>11
    <3> QED  BY <3>1, <3>2
  <2>3. ASSUME NEW x \in Thread
        PROVE  /\ stat'[x] = "SUSPEND" => pc'[x] # "run"
               /\ pc'[x] = "run" => asked'[x] = NoThread
               /\ asked'[x] # NoThread /\ stat'[x] = "SUSPEND" =>
                     error'[x] = "RT_EOK" /\ owner'[asked'[x]] # x
               /\ asked'[x] # NoThread /\ stat'[x] # "SUSPEND" =>
                     (error'[x] = "RT_EOK" <=> owner'[asked'[x]] = x)
    <3>1. CASE x = t  BY <3>1, <1>1, <1>11
    <3>2. CASE x # t  BY <3>2, <1>0, <1>1, <1>11 DEF InCall
    <3> QED  BY <3>1, <3>2
  <2> QED  BY <2>1, <2>2, <2>3 DEF InCall
<1>17. Chosen'  BY <1>1, <1>2, <1>11 DEF Chosen
<1>18. ASSUME ~ nested'  PROVE Inherited'
  <2>1. held[t] = <<>> /\ Inherited  BY <1>0, <1>1, <1>18
  <2>2. \A n \in Mutex : owner[n] # t  BY <1>0, <2>1, HoldsNothing
  <2>3. \A n, k \in Mutex : owner'[k] \notin ToSet(suspend_thread'[n])
    <3> TAKE n, k \in Mutex
    <3>1. owner'[k] = owner[k] /\ owner[k] # t /\ owner[k] \notin ToSet(suspend_thread[n])
      BY <1>1, <2>1, <2>2 DEF Inherited
    <3>2. CASE n = m  BY <3>1, <3>2, <1>10
    <3>3. CASE n # m  BY <3>1, <3>3, <1>10
    <3> QED  BY <3>2, <3>3
  <2>4. \A n \in Mutex : \A w \in ToSet(suspend_thread'[n]) :
           w \in Thread /\ w # u /\ current_priority'[w] = current_priority[w]
    <3>1. \A n \in Mutex : \A w \in ToSet(suspend_thread'[n]) : w \in Thread
      BY <1>10, WaitingSuspended, MutexAssumption
    <3>2. \A n \in Mutex : \A w \in ToSet(suspend_thread'[n]) : w # u  BY <1>1, <2>3
    <3> QED  BY <3>1, <3>2, <1>4
  <2>5. \A n \in Mutex : InOrder(suspend_thread'[n], current_priority')
    <3> TAKE n \in Mutex
    <3>1. CASE n = m
      <4>1. suspend_thread'[n] = r  BY <1>0, <1>9, <3>1, MutexAssumption DEF Waiting
      <4>2. InOrder(s, current_priority)  BY <2>1 DEF Inherited, s
      <4>3. current_priority \in [Thread -> Nat]  BY <1>0, PrioNat DEF KernelScalars
      <4>4. /\ \A j \in 1..(i - 1) : ~ (current_priority[t] < current_priority[s[j]])
            /\ i <= Len(s) => current_priority[t] < current_priority[s[i]]
        BY <1>6 DEF s
      <4>5. InOrder(r, current_priority)
        BY <1>7, <4>2, <4>3, <4>4, InsertAtInOrder DEF r
      <4> QED  BY <4>1, <4>5, <2>4, SameInOrder
    <3>2. CASE n # m
      <4>1. suspend_thread'[n] = suspend_thread[n]  BY <1>0, <1>9, <3>2, MutexAssumption DEF Waiting
      <4>2. InOrder(suspend_thread'[n], current_priority)  BY <4>1, <2>1 DEF Inherited
      <4> QED  BY <4>2, <2>4, SameInOrder
    <3> QED  BY <3>1, <3>2
  <2>6. ASSUME NEW n \in Mutex, NEW w \in ToSet(suspend_thread'[n])
        PROVE  current_priority'[owner'[n]] <= current_priority'[w]
    <3>0. w \in Thread /\ current_priority'[w] = current_priority[w] /\ owner'[n] = owner[n]
      BY <1>1, <2>4, <2>6
    <3>1. CASE n = m
      <4>1. CASE w = t  BY <4>1, <3>0, <3>1, <1>4
      <4>2. CASE w # t
        <5>1. w \in ToSet(suspend_thread[m])  BY <1>10, <2>6, <3>1, <4>2
        <5>2. current_priority[u] <= current_priority[w]  BY <5>1, <2>1 DEF Inherited
        <5>3. /\ current_priority'[u] \in Nat /\ current_priority[u] \in Nat
              /\ current_priority[w] \in Nat
          BY <1>0, <1>3, <1>4, <3>0, PrioNat DEF KernelScalars
        <5> QED  BY <5>2, <5>3, <3>0, <3>1, <1>4
      <4> QED  BY <4>1, <4>2
    <3>2. CASE n # m
      <4>1. w \in ToSet(suspend_thread[n])  BY <1>10, <2>6, <3>2
      <4>2. owner[n] # NoThread  BY <4>1, <1>0 DEF FieldsAgree
      <4>3. owner[n] \in Thread /\ owner[n] # u  BY <4>2, <3>2, <2>1, <1>0 DEF Inherited, MutexTypes
      <4>4. current_priority[owner[n]] <= current_priority[w]  BY <4>1, <2>1 DEF Inherited
      <4> QED  BY <4>3, <4>4, <3>0, <1>4
    <3> QED  BY <3>1, <3>2
  <2> QED  BY <1>1, <2>1, <2>3, <2>5, <2>6 DEF Inherited
<1> QED  BY <1>12, <1>13, <1>14, <1>15, <1>16, <1>17, <1>18 DEF MutexInv

\* RemoveFirst of the last element leaves the first one, or nothing.
LEMMA RemoveLast ==
    ASSUME NEW S, NEW s \in Seq(S), s # <<>>, IsInjective(s), NEW e, Last(s) = e
    PROVE  /\ RemoveFirst(s, e) = <<>> => s[1] = e
           /\ RemoveFirst(s, e) # <<>> => RemoveFirst(s, e)[1] = s[1] /\ s[1] # e
<1> DEFINE n == Len(s)
           r == RemoveFirst(s, e)
<1>1. n \in Nat /\ n > 0 /\ DOMAIN s = 1..n  BY EmptySeq, LenProperties
<1>2. n \in 1..n /\ 1 \in 1..n /\ s[n] = e  BY <1>1 DEF Last
<1>3. e \in ToSet(s)  BY <1>1, <1>2 DEF ToSet
<1>4. ToSet(r) = ToSet(s) \ {e} /\ (r = s \/ \E i \in 1..n : r = RemoveAt(s, i))
  BY RemoveFirstKeeps
<1> HIDE DEF r
<1>5. r # s  BY <1>3, <1>4
<1>6. PICK i \in 1..n : r = RemoveAt(s, i)  BY <1>4, <1>5
<1>7. ToSet(r) = ToSet(s) \ {s[i]}  BY <1>6, RemoveAtKeeps
<1>8. s[i] = e
  <2>1. s[i] \in ToSet(s)  BY <1>1, <1>6 DEF ToSet
  <2> QED  BY <2>1, <1>3, <1>4, <1>7
<1>9. i = n  BY <1>1, <1>2, <1>6, <1>8 DEF IsInjective
<1>10. /\ r \in Seq(S) /\ Len(r) = n - 1
       /\ \A j \in 1..(n - 1) : r[j] = IF j < n THEN s[j] ELSE s[j + 1]
  BY <1>2, <1>6, <1>9, RemoveAtFacts
<1> HIDE DEF n
<1>11. ASSUME r = <<>>  PROVE s[1] = e
  <2>1. n = 1  BY <1>11, <1>1, <1>10, EmptySeq
  <2> QED  BY <2>1, <1>2
<1>12. ASSUME r # <<>>  PROVE r[1] = s[1] /\ s[1] # e
  <2>1. 1 \in 1..(n - 1) /\ 1 < n  BY <1>12, <1>1, <1>10, EmptySeq
  <2>2. r[1] = s[1]  BY <2>1, <1>10
  <2>3. s[1] # s[n]  BY <2>1, <1>1, <1>2 DEF IsInjective
  <2> QED  BY <2>2, <2>3, <1>2
<1> QED  BY <1>11, <1>12 DEF r

\* What the owner that releases a mutex holds, before and after.
LEMMA ReleaseFacts ==
    ASSUME MutexInv, NEW t \in Thread, NEW m \in Mutex, Free(t), owner[m] = t,
           crossed' = (crossed \/ Last(held[t]) # m)
    PROVE  LET f == RemoveFirst(held[t], m) IN
           /\ f \in Seq(Mutex) /\ IsInjective(f) /\ ToSet(f) = ToSet(held[t]) \ {m}
           /\ ~ crossed' /\ f = <<>> => original_priority[m] = Base[t]
           /\ ~ crossed' /\ f # <<>> =>
                f[1] \in Mutex /\ f[1] # m /\ original_priority[f[1]] = Base[t]
           /\ original_priority[m] \in Prio /\ original_priority[m] \in Nat
           /\ current_priority[t] \in Nat /\ t # NoThread
<1> DEFINE f == RemoveFirst(held[t], m)
<1>1. held[t] \in Seq(Mutex) /\ IsInjective(held[t]) /\ held[t] # <<>>
  BY HoldsNothing DEF MutexInv, MutexTypes, Holding
<1>2. f \in Seq(Mutex) /\ IsInjective(f) /\ ToSet(f) = ToSet(held[t]) \ {m}
  BY <1>1, RemoveFirstKeeps
<1>3. ASSUME ~ crossed'
      PROVE  /\ original_priority[held[t][1]] = Base[t] /\ held[t][1] \in Mutex
             /\ f = <<>> => held[t][1] = m
             /\ f # <<>> => f[1] = held[t][1] /\ held[t][1] # m
  <2>1. ~ crossed /\ Last(held[t]) = m  BY <1>3
  <2>2. original_priority[held[t][1]] = Base[t]  BY <1>1, <2>1 DEF MutexInv, Holding
  <2>3. held[t][1] \in Mutex  BY <1>1, TailIsRemoveAt, ElementOfSeq
  <2> QED  BY <1>1, <2>1, <2>2, <2>3, RemoveLast
<1>4. t # NoThread  BY MutexAssumption
<1>5. original_priority[m] \in Prio  BY <1>4 DEF MutexInv, FieldsAgree
<1>6. current_priority[t] \in Prio  BY DEF MutexInv, KernelInv, KernelScalars
<1> QED  BY <1>2, <1>3, <1>4, <1>5, <1>6, PrioNat

LEMMA ReleaseToNobodyInv ==
    ASSUME MutexInv, NEW t \in Thread, NEW m \in Mutex, ReleaseToNobody(t, m)
    PROVE  MutexInv'
<1> DEFINE p == original_priority[m]
           f == RemoveFirst(held[t], m)
<1>0. /\ KernelInv /\ MutexTypes /\ FieldsAgree /\ Holding /\ InCall /\ Chosen /\ (~ nested => Inherited)
      /\ KernelScalars
  BY DEF MutexInv, KernelInv
<1>1. /\ Free(t) /\ owner[m] = t /\ hold[m] = 1 /\ suspend_thread[m] = <<>>
      /\ Restore(t, m)
      /\ value' = [value EXCEPT ![m] = @ + 1]
      /\ owner' = [owner EXCEPT ![m] = NoThread]
      /\ original_priority' = [original_priority EXCEPT ![m] = NoPrio]
      /\ hold' = [hold EXCEPT ![m] = 0]
      /\ lowered' = (lowered \/ current_priority[t] < p)
      /\ held' = [held EXCEPT ![t] = f]
      /\ UNCHANGED <<rt_tick, rt_current_thread, stat, yield, remaining_tick, timer_list>>
      /\ UNCHANGED <<suspend_thread, error, isr, pc, asked, nested>>
      /\ crossed' = (crossed \/ Last(held[t]) # m)
  BY DEF ReleaseToNobody, Crosses
<1>2. /\ t = rt_current_thread /\ stat[t] = "RUNNING" /\ pc[t] = "run" /\ asked[t] = NoThread
      /\ \A n \in Mutex : t \notin ToSet(suspend_thread[n])
  BY <1>1, FreeFacts
<1>3. /\ f \in Seq(Mutex) /\ IsInjective(f) /\ ToSet(f) = ToSet(held[t]) \ {m}
      /\ ~ crossed' /\ f = <<>> => p = Base[t]
      /\ ~ crossed' /\ f # <<>> => f[1] \in Mutex /\ f[1] # m /\ original_priority[f[1]] = Base[t]
      /\ p \in Prio /\ p \in Nat /\ current_priority[t] \in Nat /\ t # NoThread
  <2>1. Free(t) /\ owner[m] = t /\ crossed' = (crossed \/ Last(held[t]) # m)  BY <1>1
  <2> QED  BY <2>1, ReleaseFacts
<1> HIDE DEF f
<1>4. current_priority' = [current_priority EXCEPT ![t] = p] /\ ready' = ready
  <2>1. CASE p # current_priority[t]  BY <1>1, <1>2, <2>1 DEF Restore, ChangePriority
  <2>2. CASE p = current_priority[t]
    BY <1>0, <1>1, <2>2 DEF Restore, KernelScalars
  <2> QED  BY <2>1, <2>2
<1>5. KernelInv'
  <2>1. Queued(stat, ready, current_priority')  BY <1>0, <1>2, <1>4, QueuedPrio DEF KernelInv, KernelScalars
  <2>2. current_priority' \in [Thread -> Prio]  BY <1>0, <1>3, <1>4 DEF KernelScalars
  <2>3. KernelScalars'  BY <1>0, <1>1, <2>2 DEF KernelScalars
  <2> QED  BY <1>0, <1>1, <1>4, <2>1, <2>3 DEF KernelInv
<1>a. ~ crossed' => ~ crossed  BY <1>1
<1>6. \A n \in Mutex : /\ owner'[n] = IF n = m THEN NoThread ELSE owner[n]
                       /\ original_priority'[n] = IF n = m THEN NoPrio ELSE original_priority[n]
                       /\ hold'[n] = IF n = m THEN 0 ELSE hold[n]
                       /\ n # m => value'[n] = value[n]
  BY <1>0, <1>1 DEF MutexTypes
<1>7. \A u \in Thread : /\ held'[u] = IF u = t THEN f ELSE held[u]
                        /\ current_priority'[u] = IF u = t THEN p ELSE current_priority[u]
  BY <1>0, <1>1, <1>4 DEF MutexTypes, KernelScalars
<1>8. value[m] = 0 /\ value'[m] = 1
  <2>1. value[m] \in 0..1 /\ value[m] # 1  BY <1>0, <1>1, <1>3 DEF MutexTypes, FieldsAgree
  <2>2. value[m] = 0  BY <2>1
  <2> QED  BY <2>2, <1>0, <1>1 DEF MutexTypes
<1>9. MutexTypes'
  <2>1. held' \in [Thread -> Seq(Mutex)]  BY <1>0, <1>1, <1>3 DEF MutexTypes
  <2>2. value' \in [Mutex -> 0..1]  BY <1>0, <1>1, <1>8 DEF MutexTypes
  <2>3. hold' \in [Mutex -> 0..HoldMax]  BY <1>0, <1>1, MutexAssumption DEF MutexTypes
  <2> QED  BY <1>0, <1>1, <2>1, <2>2, <2>3 DEF MutexTypes
<1>10. ToSet(suspend_thread[m]) = {}  BY <1>1 DEF ToSet
<1>11. FieldsAgree'
  BY <1>0, <1>1, <1>6, <1>8, <1>10 DEF FieldsAgree
<1>12. Holding'
  <2>1. ASSUME NEW u \in Thread, u # t
        PROVE  /\ IsInjective(held'[u]) /\ \A n \in Mutex : n \in ToSet(held'[u]) <=> owner'[n] = u
               /\ ~ crossed' /\ held'[u] = <<>> => current_priority'[u] = Base[u]
               /\ ~ crossed' /\ held'[u] # <<>> => original_priority'[held'[u][1]] = Base[u]
    <3>0. u # NoThread  BY MutexAssumption
    <3>1. held'[u] = held[u] /\ current_priority'[u] = current_priority[u]  BY <1>7, <2>1
    <3>2. \A n \in Mutex : n \in ToSet(held[u]) <=> owner'[n] = u
      BY <1>0, <1>1, <1>6, <2>1, <3>0 DEF Holding
    <3>3. ASSUME ~ crossed', held[u] # <<>>  PROVE original_priority'[held[u][1]] = Base[u]
      <4>1. held[u] \in Seq(Mutex)  BY <1>0 DEF MutexTypes
      <4>2. 1 \in DOMAIN held[u] /\ held[u][1] \in Mutex
        BY <3>3, <4>1, TailIsRemoveAt, ElementOfSeq, LenProperties
      <4>3. held[u][1] \in ToSet(held[u])  BY <4>2 DEF ToSet
      <4>4. held[u][1] # m  BY <4>2, <4>3, <3>0, <3>2, <1>6
      <4> QED  BY <3>3, <4>2, <4>4, <1>a, <1>0, <1>6 DEF Holding
    <3> QED  BY <3>1, <3>2, <3>3, <1>a, <1>0 DEF Holding
  <2>2. held'[t] = f /\ current_priority'[t] = p  BY <1>7
  <2>3. \A n \in Mutex : n \in ToSet(f) <=> owner'[n] = t
    BY <1>0, <1>3, <1>6 DEF Holding
  <2>4. ~ crossed' /\ f # <<>> => original_priority'[f[1]] = Base[t]  BY <1>3, <1>6
  <2> QED  BY <1>3, <2>1, <2>2, <2>3, <2>4 DEF Holding
<1>13. InCall'
  <2>1. ASSUME NEW u \in Thread, asked[u] # NoThread
        PROVE  owner'[asked[u]] = u <=> owner[asked[u]] = u
    <3>1. u # t /\ asked[u] \in Mutex /\ u # NoThread  BY <1>0, <1>2, <2>1, MutexAssumption DEF MutexTypes
    <3>2. CASE asked[u] = m  BY <3>1, <3>2, <1>1, <1>6
    <3>3. CASE asked[u] # m  BY <3>1, <3>3, <1>6
    <3> QED  BY <3>2, <3>3
  <2> QED  BY <1>0, <1>1, <2>1 DEF InCall
<1>14. Chosen'
  <2>1. ASSUME ~ lowered'  PROVE (HighestIn(stat, rt_current_thread))'
    <3>1. ~ lowered /\ ~ (current_priority[t] < p)  BY <1>1, <2>1
    <3>2. HighestIn(stat, t)  BY <1>0, <1>2, <3>1 DEF Chosen
    <3>3. p <= current_priority[t]  BY <1>3, <3>1
    <3>4. ASSUME NEW x \in Thread, stat[x] = "READY"
          PROVE  current_priority'[t] <= current_priority'[x]
      <4>1. x # t /\ current_priority'[x] = current_priority[x] /\ current_priority'[t] = p
        BY <1>2, <1>7, <3>4
      <4>2. current_priority[t] <= current_priority[x]  BY <3>2, <3>4 DEF HighestIn
      <4>3. current_priority[x] \in Nat  BY <1>0, PrioNat DEF KernelScalars
      <4> QED  BY <4>1, <4>2, <4>3, <3>3, <1>3
    <3> QED  BY <1>1, <1>2, <3>4 DEF HighestIn
  <2> QED  BY <2>1 DEF Chosen
<1>15. ASSUME ~ nested'  PROVE Inherited'
  <2>1. Inherited  BY <1>0, <1>1, <1>15
  <2>2. \A n \in Mutex : \A w \in ToSet(suspend_thread[n]) :
           w \in Thread /\ w # t /\ current_priority'[w] = current_priority[w]
    <3>1. \A n \in Mutex : \A w \in ToSet(suspend_thread[n]) : w \in Thread
      BY <1>0, WaitingSuspended, MutexAssumption DEF KernelInv
    <3> QED  BY <3>1, <1>2, <1>7
  <2>3. \A n \in Mutex : InOrder(suspend_thread[n], current_priority')
    BY <2>1, <2>2, SameInOrder DEF Inherited
  <2>4. ASSUME NEW n \in Mutex, NEW w \in ToSet(suspend_thread[n])
        PROVE  current_priority'[owner'[n]] <= current_priority'[w]
    <3>1. n # m  BY <1>10, <2>4
    <3>2. owner[n] # NoThread  BY <1>0, <2>4 DEF FieldsAgree
    <3>3. owner[n] \in Thread /\ owner[n] # t  BY <3>1, <3>2, <1>0, <1>1, <2>1 DEF Inherited, MutexTypes
    <3>4. current_priority[owner[n]] <= current_priority[w]  BY <2>1, <2>4 DEF Inherited
    <3> QED  BY <3>1, <3>3, <3>4, <2>2, <2>4, <1>6, <1>7
  <2>5. \A k, n \in Mutex : owner'[k] \notin ToSet(suspend_thread[n])
    <3> TAKE k, n \in Mutex
    <3>1. CASE k = m
      <4>1. owner'[k] = NoThread  BY <3>1, <1>6
      <4>2. NoThread \notin ToSet(suspend_thread[n])  BY <2>2, MutexAssumption
      <4> QED  BY <4>1, <4>2
    <3>2. CASE k # m  BY <3>2, <1>6, <2>1 DEF Inherited
    <3> QED  BY <3>1, <3>2
  <2>6. \A k, n \in Mutex : owner'[k] = owner'[n] /\ owner'[k] # NoThread => k = n
    BY <1>6, <2>1 DEF Inherited
  <2> QED  BY <1>1, <2>3, <2>4, <2>5, <2>6 DEF Inherited
<1> QED  BY <1>5, <1>9, <1>11, <1>12, <1>13, <1>14, <1>15 DEF MutexInv

LEMMA ReleaseToWaiterInv ==
    ASSUME MutexInv, NEW t \in Thread, NEW m \in Mutex, ReleaseToWaiter(t, m)
    PROVE  MutexInv'
<1> DEFINE p == original_priority[m]
           f == RemoveFirst(held[t], m)
           w == Head(suspend_thread[m])
<1>0. /\ KernelInv /\ MutexTypes /\ FieldsAgree /\ Holding /\ InCall /\ Chosen /\ (~ nested => Inherited)
      /\ KernelScalars /\ Waiting(stat, suspend_thread)
  BY DEF MutexInv, KernelInv
<1>1. /\ Free(t) /\ owner[m] = t /\ hold[m] = 1 /\ suspend_thread[m] # <<>>
      /\ current_priority' = [current_priority EXCEPT ![t] = p]
      /\ owner' = [owner EXCEPT ![m] = w]
      /\ original_priority' = [original_priority EXCEPT ![m] = current_priority[w]]
      /\ rt_thread_resume(w)
      /\ held' = [held EXCEPT ![t] = f, ![w] = Append(@, m)]
      /\ pc' = [pc EXCEPT ![t] = "sched"]
      /\ UNCHANGED <<rt_tick, rt_current_thread, yield, lowered, remaining_tick, error, isr>>
      /\ UNCHANGED <<value, hold, asked, nested>>
      /\ crossed' = (crossed \/ Last(held[t]) # m)
  BY DEF ReleaseToWaiter, Crosses
<1>2. /\ t = rt_current_thread /\ stat[t] = "RUNNING" /\ pc[t] = "run" /\ asked[t] = NoThread
      /\ \A n \in Mutex : t \notin ToSet(suspend_thread[n])
  BY <1>1, FreeFacts
<1>3. /\ f \in Seq(Mutex) /\ IsInjective(f) /\ ToSet(f) = ToSet(held[t]) \ {m}
      /\ ~ crossed' /\ f = <<>> => p = Base[t]
      /\ ~ crossed' /\ f # <<>> => f[1] \in Mutex /\ f[1] # m /\ original_priority[f[1]] = Base[t]
      /\ p \in Prio /\ p \in Nat /\ current_priority[t] \in Nat /\ t # NoThread
  <2>1. Free(t) /\ owner[m] = t /\ crossed' = (crossed \/ Last(held[t]) # m)  BY <1>1
  <2> QED  BY <2>1, ReleaseFacts
<1> HIDE DEF f
<1>4. /\ w \in ToSet(suspend_thread[m]) /\ suspend_thread[m][1] = w /\ 1 \in DOMAIN suspend_thread[m]
      /\ suspend_thread[m] \in Seq(Thread)
  <2>1. suspend_thread[m] \in Seq(Thread) /\ IsInjective(suspend_thread[m])
    BY <1>0, MutexAssumption DEF Waiting
  <2>2. 1 \in DOMAIN suspend_thread[m] /\ suspend_thread[m][1] = w
    BY <2>1, <1>1, TailIsRemoveAt, LenProperties
  <2> QED  BY <2>1, <2>2 DEF ToSet
<1> HIDE DEF w
<1>5. w \in Thread /\ stat[w] = "SUSPEND" /\ w # t /\ asked[w] = m /\ w # NoThread
  <2>1. w \in Thread /\ stat[w] = "SUSPEND"  BY <1>0, <1>4, WaitingSuspended, MutexAssumption
  <2> QED  BY <2>1, <1>0, <1>2, <1>4, MutexAssumption DEF InCall
<1>6. /\ stat' = [stat EXCEPT ![w] = InsertStat(w)]
      /\ Current(stat', rt_current_thread)
      /\ Queued(stat', ready', current_priority)
      /\ Waiting(stat', suspend_thread') /\ TimersOf(stat', timer_list')
      /\ Wakeable(stat', timer_list', suspend_thread')
      /\ \A u \in Thread : stat'[u] = "SUSPEND" <=> stat[u] = "SUSPEND" /\ u # w
      /\ \A o \in Object : ToSet(suspend_thread'[o]) = ToSet(suspend_thread[o]) \ {w}
  BY <1>0, <1>1, <1>5, ResumeFacts
<1>7. \A n \in Mutex : ToSet(suspend_thread'[n]) = ToSet(suspend_thread[n]) \ {w}
  BY <1>6, MutexAssumption
<1>8. KernelInv'
  <2>1. stat'[t] = "RUNNING"  BY <1>2, <1>5, <1>6, <1>0 DEF KernelInv, Current
  <2>2. Queued(stat', ready', current_priority')
    BY <1>0, <1>1, <1>6, <2>1, QueuedPrio DEF KernelScalars
  <2>3. current_priority' \in [Thread -> Prio]  BY <1>0, <1>1, <1>3 DEF KernelScalars
  <2>4. KernelScalars'  BY <1>0, <1>1, <2>3 DEF KernelScalars
  <2> QED  BY <1>1, <1>6, <2>2, <2>4 DEF KernelInv
<1>a. ~ crossed' => ~ crossed  BY <1>1
<1>9. \A n \in Mutex : /\ owner'[n] = IF n = m THEN w ELSE owner[n]
                       /\ original_priority'[n] = IF n = m THEN current_priority[w] ELSE original_priority[n]
  BY <1>0, <1>1 DEF MutexTypes
<1>10. \A u \in Thread : /\ held'[u] = IF u = t THEN f ELSE IF u = w THEN Append(held[u], m) ELSE held[u]
                         /\ current_priority'[u] = IF u = t THEN p ELSE current_priority[u]
                         /\ pc'[u] = IF u = t THEN "sched" ELSE pc[u]
  BY <1>0, <1>1, <1>5 DEF MutexTypes, KernelScalars
<1>11. /\ held[w] \in Seq(Mutex) /\ IsInjective(held[w]) /\ m \notin ToSet(held[w])
       /\ Append(held[w], m) \in Seq(Mutex) /\ IsInjective(Append(held[w], m))
       /\ ToSet(Append(held[w], m)) = ToSet(held[w]) \union {m}
  <2>1. held[w] \in Seq(Mutex) /\ IsInjective(held[w]) /\ m \notin ToSet(held[w])
    BY <1>0, <1>1, <1>5 DEF Holding, MutexTypes
  <2> QED  BY <2>1, AppendKeeps
<1>12. current_priority[w] \in Prio  BY <1>0, <1>5 DEF KernelScalars
<1>13. MutexTypes'
  <2>1. held' \in [Thread -> Seq(Mutex)]  BY <1>0, <1>1, <1>3, <1>5, <1>11 DEF MutexTypes
  <2>2. owner' \in [Mutex -> Thread \union {NoThread}]  BY <1>0, <1>1, <1>5 DEF MutexTypes
  <2>3. original_priority' \in [Mutex -> Prio \union {NoPrio}]  BY <1>0, <1>1, <1>12 DEF MutexTypes
  <2> QED  BY <1>0, <1>1, <2>1, <2>2, <2>3 DEF MutexTypes
<1>14. FieldsAgree'
  <2>1. ASSUME NEW n \in Mutex, n = m
        PROVE  /\ value'[n] = 1 <=> owner'[n] = NoThread
               /\ hold'[n] = 0 <=> owner'[n] = NoThread
               /\ owner'[n] # NoThread => original_priority'[n] \in Prio
               /\ owner'[n] = NoThread => ToSet(suspend_thread'[n]) = {}
    BY <2>1, <1>0, <1>1, <1>3, <1>5, <1>9, <1>12 DEF FieldsAgree
  <2>2. ASSUME NEW n \in Mutex, n # m
        PROVE  /\ value'[n] = 1 <=> owner'[n] = NoThread
               /\ hold'[n] = 0 <=> owner'[n] = NoThread
               /\ owner'[n] # NoThread => original_priority'[n] \in Prio
               /\ owner'[n] = NoThread => ToSet(suspend_thread'[n]) = {}
    BY <2>2, <1>0, <1>1, <1>7, <1>9 DEF FieldsAgree
  <2> QED  BY <2>1, <2>2 DEF FieldsAgree
<1>15. Holding'
  <2>1. ASSUME NEW u \in Thread, u # t, u # w
        PROVE  /\ IsInjective(held'[u]) /\ \A n \in Mutex : n \in ToSet(held'[u]) <=> owner'[n] = u
               /\ ~ crossed' /\ held'[u] = <<>> => current_priority'[u] = Base[u]
               /\ ~ crossed' /\ held'[u] # <<>> => original_priority'[held'[u][1]] = Base[u]
    <3>1. held'[u] = held[u] /\ current_priority'[u] = current_priority[u]  BY <1>10, <2>1
    <3>2. \A n \in Mutex : n \in ToSet(held[u]) <=> owner'[n] = u
      BY <1>0, <1>1, <1>9, <2>1 DEF Holding
    <3>3. ASSUME ~ crossed', held[u] # <<>>  PROVE original_priority'[held[u][1]] = Base[u]
      <4>1. held[u] \in Seq(Mutex)  BY <1>0 DEF MutexTypes
      <4>2. 1 \in DOMAIN held[u] /\ held[u][1] \in Mutex
        BY <3>3, <4>1, TailIsRemoveAt, ElementOfSeq, LenProperties
      <4>3. held[u][1] \in ToSet(held[u])  BY <4>2 DEF ToSet
      <4>4. held[u][1] # m  BY <4>2, <4>3, <3>2, <1>9, <2>1
      <4> QED  BY <3>3, <4>2, <4>4, <1>a, <1>0, <1>9 DEF Holding
    <3> QED  BY <3>1, <3>2, <3>3, <1>a, <1>0 DEF Holding
  <2>2. /\ IsInjective(held'[t]) /\ \A n \in Mutex : n \in ToSet(held'[t]) <=> owner'[n] = t
        /\ ~ crossed' /\ held'[t] = <<>> => current_priority'[t] = Base[t]
        /\ ~ crossed' /\ held'[t] # <<>> => original_priority'[held'[t][1]] = Base[t]
    <3>1. held'[t] = f /\ current_priority'[t] = p  BY <1>10
    <3>2. \A n \in Mutex : n \in ToSet(f) <=> owner'[n] = t
      BY <1>0, <1>3, <1>5, <1>9 DEF Holding
    <3>3. ~ crossed' /\ f # <<>> => original_priority'[f[1]] = Base[t]  BY <1>3, <1>9
    <3> QED  BY <1>3, <3>1, <3>2, <3>3
  <2>3. /\ IsInjective(held'[w]) /\ \A n \in Mutex : n \in ToSet(held'[w]) <=> owner'[n] = w
        /\ held'[w] # <<>> /\ (~ crossed' => original_priority'[held'[w][1]] = Base[w])
    <3>1. held'[w] = Append(held[w], m)  BY <1>5, <1>10
    <3>2. \A n \in Mutex : n \in ToSet(Append(held[w], m)) <=> owner'[n] = w
      BY <1>0, <1>5, <1>9, <1>11 DEF Holding
    <3>3. Append(held[w], m) # <<>>  BY <1>11, AppendProperties
    <3>4. ASSUME ~ crossed'  PROVE original_priority'[Append(held[w], m)[1]] = Base[w]
      <4>1. CASE held[w] = <<>>
        <5>1. Append(held[w], m)[1] = m
          <6>1. Len(held[w]) = 0  BY <4>1, EmptySeq
          <6> QED  BY <6>1, <1>11, AppendProperties
        <5> QED  BY <3>4, <5>1, <4>1, <1>a, <1>0, <1>5, <1>9 DEF Holding
      <4>2. CASE held[w] # <<>>
        <5>1. 1 \in 1..Len(held[w]) /\ held[w][1] \in Mutex
          BY <4>2, <1>11, TailIsRemoveAt, ElementOfSeq
        <5>2. Append(held[w], m)[1] = held[w][1]  BY <5>1, <1>11, AppendProperties
        <5>3. held[w][1] \in ToSet(held[w])  BY <5>1, <1>11, LenProperties DEF ToSet
        <5>4. held[w][1] # m  BY <5>3, <1>11
        <5> QED  BY <3>4, <4>2, <5>1, <5>2, <5>4, <1>a, <1>0, <1>5, <1>9 DEF Holding
      <4> QED  BY <4>1, <4>2
    <3> QED  BY <1>11, <3>1, <3>2, <3>3, <3>4
  <2> QED  BY <2>1, <2>2, <2>3 DEF Holding
<1>16. InCall'
  <2>1. pc'[rt_current_thread'] = "sched"  BY <1>1, <1>2, <1>10
  <2>2. ASSUME NEW x \in Thread, NEW n \in Mutex, x \in ToSet(suspend_thread'[n])
        PROVE  asked'[x] = n
    BY <1>0, <1>1, <1>7, <2>2 DEF InCall
  <2>3. ASSUME NEW x \in Thread
        PROVE  /\ stat'[x] = "SUSPEND" => pc'[x] # "run"
               /\ pc'[x] = "run" => asked'[x] = NoThread
    BY <1>0, <1>1, <1>6, <1>10 DEF InCall
  <2>4. ASSUME NEW x \in Thread, asked'[x] # NoThread
        PROVE  /\ stat'[x] = "SUSPEND" => error'[x] = "RT_EOK" /\ owner'[asked'[x]] # x
               /\ stat'[x] # "SUSPEND" => (error'[x] = "RT_EOK" <=> owner'[asked'[x]] = x)
    <3>1. x # t /\ asked'[x] = asked[x] /\ asked[x] \in Mutex /\ error'[x] = error[x]
      BY <1>0, <1>1, <1>2, <2>4 DEF MutexTypes
    <3>2. CASE x = w
      <4>1. error[x] = "RT_EOK" /\ owner'[asked[x]] = x /\ stat'[x] # "SUSPEND"
        <5>0. asked[w] # NoThread  BY <1>5, MutexAssumption
        <5>1. error[w] = "RT_EOK"  BY <5>0, <1>0, <1>5 DEF InCall
        <5>2. owner'[m] = w /\ asked[w] = m  BY <1>5, <1>9
        <5>3. stat'[w] # "SUSPEND"  BY <1>5, <1>6
        <5> QED  BY <3>2, <5>1, <5>2, <5>3
      <4> QED  BY <4>1, <3>1
    <3>3. CASE x # w
      <4>1. owner'[asked[x]] = x <=> owner[asked[x]] = x
        <5>1. CASE asked[x] = m  BY <5>1, <3>1, <3>3, <1>1, <1>9
        <5>2. CASE asked[x] # m  BY <5>2, <3>1, <1>9
        <5> QED  BY <5>1, <5>2
      <4>2. stat'[x] = "SUSPEND" <=> stat[x] = "SUSPEND"  BY <3>3, <1>6
      <4> QED  BY <4>1, <4>2, <3>1, <2>4, <1>0 DEF InCall
    <3> QED  BY <3>2, <3>3
  <2> QED  BY <2>1, <2>2, <2>3, <2>4 DEF InCall
<1>17. Chosen'  BY <1>1, <1>2, <1>10 DEF Chosen
<1>18. ASSUME ~ nested'  PROVE Inherited'
  <2>1. Inherited  BY <1>0, <1>1, <1>18
  <2>2. \A n \in Mutex : owner[n] # w  BY <1>4, <2>1 DEF Inherited
  <2>3. \A n \in Mutex : \A x \in ToSet(suspend_thread[n]) :
           x \in Thread /\ x # t /\ current_priority'[x] = current_priority[x]
    <3>1. \A n \in Mutex : \A x \in ToSet(suspend_thread[n]) : x \in Thread
      BY <1>0, WaitingSuspended, MutexAssumption
    <3> QED  BY <3>1, <1>2, <1>10
  <2>4. \A k, n \in Mutex : owner'[k] = owner'[n] /\ owner'[k] # NoThread => k = n
    BY <1>9, <2>1, <2>2 DEF Inherited
  <2>5. \A n, k \in Mutex : owner'[k] \notin ToSet(suspend_thread'[n])
    <3> TAKE n, k \in Mutex
    <3>1. CASE k = m  BY <3>1, <1>7, <1>9
    <3>2. CASE k # m
      <4>1. owner'[k] = owner[k] /\ owner[k] \notin ToSet(suspend_thread[n])
        BY <3>2, <1>9, <2>1 DEF Inherited
      <4> QED  BY <4>1, <1>7
    <3> QED  BY <3>1, <3>2
  <2>6. \A n \in Mutex : InOrder(suspend_thread'[n], current_priority')
    <3> TAKE n \in Mutex
    <3>1. suspend_thread[n] \in Seq(Thread) /\ IsInjective(suspend_thread[n])
      BY <1>0, MutexAssumption DEF Waiting
    <3>2. InOrder(suspend_thread[n], current_priority)  BY <2>1 DEF Inherited
    <3>3. suspend_thread'[n] = RemoveFirst(suspend_thread[n], w)
      BY <1>1, MutexAssumption DEF rt_thread_resume
    <3>4. \/ RemoveFirst(suspend_thread[n], w) = suspend_thread[n]
          \/ \E i \in 1..Len(suspend_thread[n]) :
                RemoveFirst(suspend_thread[n], w) = RemoveAt(suspend_thread[n], i)
      BY <3>1, RemoveFirstKeeps
    <3>5. InOrder(suspend_thread'[n], current_priority)  BY <3>1, <3>2, <3>3, <3>4, RemoveAtInOrder
    <3>6. \A x \in ToSet(suspend_thread'[n]) : current_priority'[x] = current_priority[x]
      BY <1>7, <2>3
    <3> QED  BY <3>5, <3>6, SameInOrder
  <2>7. ASSUME NEW n \in Mutex, NEW x \in ToSet(suspend_thread'[n])
        PROVE  current_priority'[owner'[n]] <= current_priority'[x]
    <3>1. x \in ToSet(suspend_thread[n])  BY <1>7, <2>7
    <3>2. CASE n = m
      <4>1. PICK k \in DOMAIN suspend_thread[m] : x = suspend_thread[m][k]  BY <3>1, <3>2 DEF ToSet
      <4>2. 1 <= k  BY <4>1, <1>4, LenProperties
      <4>3. current_priority[w] <= current_priority[x]  BY <4>1, <4>2, <1>4, <2>1 DEF Inherited, InOrder
      <4> QED  BY <4>3, <3>1, <3>2, <2>3, <1>5, <1>9, <1>10
    <3>3. CASE n # m
      <4>1. owner[n] # NoThread  BY <1>0, <3>1 DEF FieldsAgree
      <4>2. owner[n] \in Thread /\ owner[n] # t  BY <3>3, <4>1, <1>0, <1>1, <2>1 DEF Inherited, MutexTypes
      <4>3. current_priority[owner[n]] <= current_priority[x]  BY <2>1, <3>1 DEF Inherited
      <4> QED  BY <3>1, <3>3, <4>2, <4>3, <2>3, <1>9, <1>10
    <3> QED  BY <3>2, <3>3
  <2> QED  BY <2>4, <2>5, <2>6, <2>7 DEF Inherited
<1> QED  BY <1>8, <1>13, <1>14, <1>15, <1>16, <1>17, <1>18 DEF MutexInv
-----------------------------------------------------------------------------
LEMMA NextInv == MutexInv /\ [Next]_vars => MutexInv'
<1> SUFFICES ASSUME MutexInv, [Next]_vars
             PROVE  MutexInv'
  OBVIOUS
<1>1. CASE Tick  BY <1>1, TickInv
<1>2. ASSUME NEW t \in Thread, ThreadStep(t)  PROVE MutexInv'
  <2>1. ASSUME NEW m \in Uses[t],
               \/ TakeAgain(t, m) \/ TakeFree(t, m)
               \/ \E timeout \in Timeout \union {RT_WAITING_FOREVER} : TakeWaits(t, m, timeout)
               \/ ReleaseOnce(t, m) \/ ReleaseToNobody(t, m) \/ ReleaseToWaiter(t, m)
        PROVE  MutexInv'
    <3>1. m \in Mutex  BY MutexAssumption
    <3>2. CASE TakeAgain(t, m) \/ ReleaseOnce(t, m)  BY <3>1, <3>2, HoldInv
    <3>3. CASE TakeFree(t, m)  BY <3>1, <3>3, TakeFreeInv
    <3>4. ASSUME NEW timeout \in Timeout \union {RT_WAITING_FOREVER}, TakeWaits(t, m, timeout)
          PROVE  MutexInv'
      <4>1. timeout \in Int  BY ThreadAssumption DEF RT_WAITING_FOREVER, Half
      <4> QED  BY <3>1, <3>4, <4>1, TakeWaitsInv
    <3>5. CASE ReleaseToNobody(t, m)  BY <3>1, <3>5, ReleaseToNobodyInv
    <3>6. CASE ReleaseToWaiter(t, m)  BY <3>1, <3>6, ReleaseToWaiterInv
    <3> QED  BY <2>1, <3>2, <3>3, <3>4, <3>5, <3>6
  <2>2. CASE Reschedule(t) \/ MutexYield(t)  BY <2>2, ScheduleInv
  <2>3. CASE Return(t)  BY <2>3, ReturnInv
  <2>4. ASSUME NEW delay \in Timeout, MutexSleep(t, delay)  PROVE MutexInv'
    BY <2>4, SleepInv
  <2> QED  BY <1>2, <2>1, <2>2, <2>3, <2>4 DEF ThreadStep
<1>3. CASE UNCHANGED vars
  <2>1. UNCHANGED <<kernelVars, mutexVars, pc, asked, held, nested, crossed>>  BY <1>3 DEF vars
  <2>2. /\ KernelInv' /\ (HighestIn(stat, rt_current_thread))' = HighestIn(stat, rt_current_thread)
    BY <2>1, KernelSame DEF MutexInv
  <2>3. UNCHANGED <<value, owner, original_priority, hold, pc, asked, held, nested, crossed>>  BY <2>1 DEF mutexVars
  <2>4. UNCHANGED <<rt_current_thread, stat, lowered, current_priority, suspend_thread, error>>
    BY <2>1 DEF kernelVars, schedVars
  <2>5. MutexTypes' /\ FieldsAgree' /\ Holding'
    BY <2>3, <2>4 DEF MutexInv, MutexTypes, FieldsAgree, Holding
  <2>6. InCall' /\ Chosen' /\ (~ nested' => Inherited')
    BY <2>2, <2>3, <2>4 DEF MutexInv, InCall, Chosen, Inherited
  <2> QED  BY <2>2, <2>5, <2>6 DEF MutexInv
<1> QED  BY <1>1, <1>2, <1>3 DEF Next

\* The inductive invariant of the mutexes and of the kernel below them holds in
\* every behaviour of rt_mutex_take, rt_mutex_release, rt_thread_sleep,
\* rt_thread_yield and the tick interrupt.
THEOREM MutexInvariant == Spec => []MutexInv
<1>1. Init => MutexInv  BY InitInv
<1>2. MutexInv /\ [Next]_vars => MutexInv'  BY NextInv
<1> QED  BY <1>1, <1>2, PTL DEF Spec

\* The fields of the kernel and of the mutexes keep their types: among them, the
\* hold counter stays within RT_MUTEX_HOLD_MAX and an inherited priority is the
\* priority of some thread.
THEOREM MutexTypeCorrect == Spec => []TypeOK
<1>1. MutexInv => TypeOK
  BY KernelInvImplies DEF MutexInv, MutexTypes, TypeOK
<1> QED  BY <1>1, MutexInvariant, PTL

\* No thread is lost or queued twice by the mutexes: inheriting and restoring a
\* priority moves a thread in the ready table, a timeout and a release take a
\* waiting thread out of its list once.
THEOREM MutexNoThreadLost == Spec => []NoThreadLost
<1>1. MutexInv => NoThreadLost  BY KernelInvImplies DEF MutexInv
<1> QED  BY <1>1, MutexInvariant, PTL

\* rt_mutex_take returns RT_EOK exactly to the thread that owns the mutex,
\* whether the owner's release or the waiter's timeout comes first.
THEOREM MutexGrantedIsOwner == Spec => []GrantedIsOwner
<1>1. MutexInv => GrantedIsOwner
  <2> SUFFICES ASSUME MutexInv, NEW t \in Thread, asked[t] \in Mutex, stat[t] # "SUSPEND"
               PROVE  error[t] = "RT_EOK" <=> owner[asked[t]] = t
    BY DEF GrantedIsOwner
  <2>1. asked[t] # NoThread  BY MutexAssumption
  <2> QED  BY <2>1 DEF MutexInv, InCall
<1> QED  BY <1>1, MutexInvariant, PTL

\* The current thread has the highest priority of those that are ready, except
\* before a pending rt_schedule or after a release that lowered the priority.
THEOREM MutexHighestRuns == Spec => []HighestRuns
<1>1. MutexInv => HighestRuns  BY DEF MutexInv, Chosen, HighestIn, HighestRuns
<1> QED  BY <1>1, MutexInvariant, PTL

\* Priority inheritance works for every number of threads and mutexes: unless a
\* thread nests its mutexes, nothing of a lower priority runs while a thread
\* waits for a mutex whose owner could run.
THEOREM MutexNoInversion == Spec => []NoInversion
<1>1. MutexInv => NoInversion
  <2> SUFFICES ASSUME MutexInv, NEW m \in Mutex, NEW k \in DOMAIN suspend_thread[m],
                      ~ nested, stat[owner[m]] # "SUSPEND",
                      pc[rt_current_thread] # "sched", ~ lowered
               PROVE  current_priority[rt_current_thread] <= current_priority[suspend_thread[m][k]]
    BY DEF NoInversion
  <2> DEFINE cur == rt_current_thread
             w == suspend_thread[m][k]
             u == owner[m]
  <2>1. w \in ToSet(suspend_thread[m])  BY DEF ToSet
  <2>2. HighestIn(stat, cur) /\ Inherited  BY DEF MutexInv, Chosen
  <2>3. w \in Thread  BY <2>1, WaitingSuspended, MutexAssumption DEF MutexInv, KernelInv
  <2>4. u \in Thread  BY <2>1 DEF MutexInv, FieldsAgree, MutexTypes
  <2>5. cur \in Thread /\ stat[u] \in Stat  BY <2>4 DEF MutexInv, KernelInv, Current
  <2>6. current_priority[cur] \in Nat /\ current_priority[u] \in Nat /\ current_priority[w] \in Nat
    BY <2>3, <2>4, <2>5, PrioNat DEF MutexInv, KernelInv, KernelScalars
  <2>7. current_priority[u] <= current_priority[w]  BY <2>1, <2>2 DEF Inherited
  <2>8. current_priority[cur] <= current_priority[u]
    <3>1. CASE stat[u] = "READY"  BY <3>1, <2>2, <2>4 DEF HighestIn
    <3>2. CASE stat[u] = "RUNNING"
      <4>1. u = cur  BY <3>2, <2>4 DEF MutexInv, KernelInv, Current
      <4> QED  BY <4>1, <2>6
    <3> QED  BY <3>1, <3>2, <2>5 DEF Stat
  <2> QED  BY <2>6, <2>7, <2>8
<1> QED  BY <1>1, MutexInvariant, PTL

\* As long as every thread releases first what it took last, a thread that has
\* released all its mutexes is back at the priority it was created with, however
\* deep it nested them, whatever it inherited meanwhile and whoever timed out.
\* Without that precondition it is not so (see PriorityComesBack).
THEOREM MutexRestored == Spec => []Restored
<1>1. MutexInv => Restored  BY DEF MutexInv, Holding, Restored, PriorityComesBack
<1> QED  BY <1>1, MutexInvariant, PTL

-----------------------------------------------------------------------------
(* The timers of the waits.                                                *)

\* What the calls and the tick interrupt do to the timers and to thread->error.
LEMMA NextTimers == MutexInv /\ [Next]_vars => TimerStep /\ ErrorStep
<1> SUFFICES ASSUME MutexInv, [Next]_vars
             PROVE  TimerStep /\ ErrorStep
  OBVIOUS
<1>0. KernelInv /\ error \in [Thread -> {"RT_EOK", "RT_ETIMEOUT"}]
  BY DEF MutexInv, KernelInv, KernelScalars
<1>1. CASE Tick
  <2>1. CASE TimerExpires  BY <1>1, <2>1 DEF Tick, TimerStep, ErrorStep
  <2>2. CASE rt_tick_increase \/ TimerCheckEnds
    <3>1. error' = error  BY <2>2 DEF rt_tick_increase, TimerCheckEnds
    <3> QED  BY <1>1, <3>1 DEF Tick, TimerStep, ErrorStep
  <2> QED  BY <1>1, <2>1, <2>2 DEF Tick, SysTick
<1>2. ASSUME NEW t \in Thread, ThreadStep(t)  PROVE TimerStep /\ ErrorStep
  <2>1. ASSUME NEW delay \in Int, delay \in Timeout \/ delay <= 0, SuspendSelf(t, delay), ~ isr,
               UNCHANGED <<rt_tick, isr>>
        PROVE  TimerStep /\ ErrorStep
    <3>1. ErrorStep  BY <1>0, <2>1 DEF SuspendSelf, ErrorStep
    <3>2. CASE delay > 0
      <4>1. delay \in 1..(Half - 1)  BY <2>1, <3>2, ThreadAssumption
      <4>2. timer_list' = StartTimer(timer_list, t, delay)  BY <2>1, <3>2 DEF SuspendSelf
      <4> QED  BY <2>1, <3>1, <4>1, <4>2 DEF TimerStep
    <3>3. CASE ~ (delay > 0)
      <4>1. timer_list' = StopTimer(timer_list, t)  BY <2>1, <3>3 DEF SuspendSelf
      <4> QED  BY <2>1, <3>1, <4>1 DEF TimerStep
    <3> QED  BY <3>2, <3>3
  <2>2. ASSUME NEW m \in Mutex,
               \/ TakeAgain(t, m) \/ TakeFree(t, m)
               \/ \E timeout \in Timeout \union {RT_WAITING_FOREVER} : TakeWaits(t, m, timeout)
               \/ ReleaseOnce(t, m) \/ ReleaseToNobody(t, m) \/ ReleaseToWaiter(t, m)
        PROVE  TimerStep /\ ErrorStep
    <3>1. CASE TakeAgain(t, m) \/ TakeFree(t, m) \/ ReleaseOnce(t, m) \/ ReleaseToNobody(t, m)
      <4>1. UNCHANGED <<rt_tick, isr, timer_list, error>>
        BY <3>1 DEF TakeAgain, TakeFree, ReleaseOnce, ReleaseToNobody, NoSwitch
      <4> QED  BY <4>1, <1>0 DEF TimerStep, ErrorStep
    <3>2. ASSUME NEW timeout \in Timeout \union {RT_WAITING_FOREVER}, TakeWaits(t, m, timeout)
          PROVE  TimerStep /\ ErrorStep
      <4>1. timeout \in Int /\ (timeout \in Timeout \/ timeout <= 0)
        BY ThreadAssumption DEF RT_WAITING_FOREVER, Half
      <4> QED  BY <3>2, <4>1, <2>1 DEF TakeWaits, Free, Executes
    <3>3. CASE ReleaseToWaiter(t, m)
      <4> DEFINE w == Head(suspend_thread[m])
      <4>1. /\ suspend_thread[m] # <<>> /\ timer_list' = StopTimer(timer_list, w)
            /\ UNCHANGED <<rt_tick, isr, error>>
        BY <3>3 DEF ReleaseToWaiter, rt_thread_resume
      <4>2. suspend_thread[m] \in Seq(Thread)  BY <1>0, MutexAssumption DEF KernelInv, Waiting
      <4>3. w \in Thread  BY <4>1, <4>2, HeadTailProperties
      <4> QED  BY <4>1, <4>3, <1>0 DEF TimerStep, ErrorStep
    <3> QED  BY <2>2, <3>1, <3>2, <3>3
  <2>3. CASE Reschedule(t) \/ MutexYield(t)
    <3>1. UNCHANGED <<rt_tick, isr, timer_list, error>>
      BY <2>3 DEF Reschedule, MutexYield, CallSchedule, rt_thread_yield
    <3> QED  BY <3>1, <1>0 DEF TimerStep, ErrorStep
  <2>4. CASE Return(t)
    <3>1. UNCHANGED <<rt_tick, isr, timer_list>> /\ error' = [error EXCEPT ![t] = "RT_EOK"]
      BY <2>4 DEF Return, NoSwitch
    <3> QED  BY <3>1, <1>0 DEF TimerStep, ErrorStep
  <2>5. ASSUME NEW delay \in Timeout, MutexSleep(t, delay)  PROVE TimerStep /\ ErrorStep
    <3>1. delay \in Int  BY ThreadAssumption
    <3> QED  BY <2>1, <2>5, <3>1 DEF MutexSleep, Sleep, Executes
  <2>6. \A m \in Uses[t] : m \in Mutex  BY MutexAssumption
  <2> QED  BY <1>2, <2>2, <2>3, <2>4, <2>5, <2>6 DEF ThreadStep
<1>3. CASE UNCHANGED vars
  <2>1. UNCHANGED <<rt_tick, isr, timer_list, error>>  BY <1>3 DEF vars, kernelVars
  <2> QED  BY <2>1, <1>0 DEF TimerStep, ErrorStep
<1> QED  BY <1>1, <1>2, <1>3 DEF Next

\* Whatever the threads do with the mutexes and however often the tick counter
\* wraps, no timer is overdue between two tick interrupts, and the list is in the
\* order in which the timers expire.
THEOREM MutexTimersOnTime == Spec => []TimersOnTime
<1>1. Init => OnTime
  <2>1. Init => timer_list = <<>>  BY DEF Init, KernelInit
  <2>2. Len(<<>>) = 0  OBVIOUS
  <2> QED  BY <2>1, <2>2 DEF OnTime, Due
<1>2. MutexInv /\ OnTime /\ [Next]_vars => OnTime'
  BY NextTimers, TimerStepKeeps DEF MutexInv
<1>3. MutexInv /\ OnTime => TimersOnTime  BY OnTimeImplies DEF MutexInv
<1> QED  BY <1>1, <1>2, <1>3, MutexInvariant, PTL DEF Spec
=============================================================================
