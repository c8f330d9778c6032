----------------------------- MODULE Uart1Proof -----------------------------
(***************************************************************************)
(* Proofs about Uart1: the unprotected tests of HAL_UART_Transmit exclude  *)
(* a second sender because a thread that interrupts another one either     *)
(* comes back before the other goes on, or finds the handle busy.          *)
(***************************************************************************)
EXTENDS Uart1, SequenceTheorems, TLAPS

Records == [msg : {"syn", "sms"}, first : Nat, last : Nat]

\* The thread has huart1 locked.
Holds == {"busy", "send", "sent", "unlock"}

\* A thread that has interrupted the holder of the lock has not got past the
\* tests.
Preempted ==
    \A t, u \in Threads :
        Prio(t) < Prio(u) /\ pc[u] \in Holds => pc[t] \in {"sleep", "enter", "lock"}

\* The state and the lock of the handle tell what the threads do.
HandleTells ==
    /\ Lock = 1 <=> \E t \in Threads : pc[t] \in Holds
    /\ gState = "BUSY_TX" <=> \E t \in Threads : pc[t] \in {"send", "sent"}

\* A thread that is awake has woken up, and has a call to make.
Awake == \A t \in Threads : pc[t] # "sleep" => jobs[t] > 0 /\ calls[t] # <<>>

Inv == TypeOK /\ Preempted /\ HandleTells /\ Awake /\ ReceivesUntilFirstSend /\ WholeOrRefused

-----------------------------------------------------------------------------
\* The priorities are natural numbers, different for different threads.
LEMMA PrioDistinct ==
    /\ \A t \in Threads : Prio(t) \in Nat
    /\ \A t, u \in Threads : t # u => Prio(t) < Prio(u) \/ Prio(u) < Prio(t)
BY DEF Prio, Threads

\* What a thread sends is a non-empty sequence of calls.
LEMMA JobType == ASSUME NEW t \in Threads PROVE Job(t) \in Seq(Records) /\ Job(t) # <<>>
<1>1. SynCalls \in Seq(Records) /\ Len(SynCalls) = SynLen /\ SynLen \in Nat \ {0}
  BY Uart1Assumption DEF SynCalls, Call, Records
<1>2. SmsCalls \in Seq(Records) /\ Len(SmsCalls) = 1
  BY Uart1Assumption DEF SmsCalls, Call, Records
<1>3. SynCalls \o SmsCalls \in Seq(Records) /\ Len(SynCalls \o SmsCalls) = SynLen + 1
  BY <1>1, <1>2, ConcatProperties
<1>. QED  BY <1>1, <1>2, <1>3 DEF Job, Threads

\* HAL_UART_Transmit returns to a thread that goes on or sleeps.
LEMMA ReturnStep ==
    ASSUME TypeOK, Awake, NEW t \in Threads, pc[t] # "sleep",
           NEW result \in {"HAL_OK", "HAL_BUSY"}, Return(t, result)
    PROVE  /\ outcome' \in [Threads -> SUBSET {"HAL_OK", "HAL_BUSY"}]
           /\ outcome' = [outcome EXCEPT ![t] = @ \union {result}]
           /\ calls' \in [Threads -> Seq(Records)] /\ no' \in [Threads -> Nat]
           /\ \A u \in Threads \ {t} : pc'[u] = pc[u] /\ calls'[u] = calls[u]
           /\ pc'[t] \in {"sleep", "enter"} /\ (pc'[t] = "enter" => calls'[t] # <<>>)
           /\ pc' = [pc EXCEPT ![t] = pc'[t]]
<1>1. calls[t] \in Seq(Records) /\ calls[t] # <<>>
  BY DEF TypeOK, Awake, Records
<1>2. Tail(calls[t]) \in Seq(Records) /\ Len(Tail(calls[t])) = Len(calls[t]) - 1
  BY <1>1, HeadTailProperties
<1>3. Len(calls[t]) # 1 => Tail(calls[t]) # <<>>
  <2>1. Len(calls[t]) \in Nat  BY <1>1, LenProperties
  <2>2. Tail(calls[t]) = <<>> => Len(Tail(calls[t])) = 0  BY <1>2, EmptySeq
  <2>. QED  BY <1>2, <2>1, <2>2
<1>4. outcome' \in [Threads -> SUBSET {"HAL_OK", "HAL_BUSY"}]
  BY DEF Return, TypeOK
<1>. QED  BY <1>1, <1>2, <1>3, <1>4 DEF Return, TypeOK, Records

\* A step of a thread that runs leaves the others where they are; nobody above
\* it is awake.
LEMMA RunsAlone ==
    ASSUME NEW t \in Threads, Runs(t)
    PROVE  \A u \in Threads : Prio(u) < Prio(t) => pc[u] = "sleep"
BY PrioDistinct DEF Runs

\* The lock is free when a thread that runs is about to set it.
LEMMA OnlyHolder ==
    ASSUME Preempted, NEW t \in Threads, Runs(t), pc[t] \in Holds \union {"locked"}
    PROVE  \A u \in Threads \ {t} : pc[u] \notin Holds
<1>1. \A u \in Threads : Prio(u) < Prio(t) => pc[u] = "sleep"
  BY RunsAlone
<1>2. \A u \in Threads : Prio(t) < Prio(u) => pc[u] \notin Holds
  BY DEF Preempted, Holds
<1>. QED  BY <1>1, <1>2, PrioDistinct DEF Holds

-----------------------------------------------------------------------------
\* The initial state.
LEMMA InitInv == Init => Inv
<1>1. Init => TypeOK /\ Preempted /\ HandleTells /\ Awake /\ ReceivesUntilFirstSend
  BY Uart1Assumption DEF Init, TypeOK, Preempted, HandleTells, Awake, ReceivesUntilFirstSend, Holds, Threads
<1>2. Init => WholeOrRefused
  BY DEF Init, WholeOrRefused
<1>. QED  BY <1>1, <1>2 DEF Inv

\* While a thread is awake the ones below it do not move, so it goes on
\* interrupting what it has interrupted.
LEMMA StillInterrupting ==
    ASSUME NEW t \in Threads, Runs(t), NEW u \in Threads, u # t, pc[u] # "sleep",
           pc \in [Threads -> {"sleep", "enter", "lock", "locked", "busy", "send", "sent", "unlock"}],
           pc' = [pc EXCEPT ![t] = pc'[t]]
    PROVE  Prio(t) < Prio(u) /\ (Interrupting(u)' <=> Interrupting(u))
<1>1. Prio(t) < Prio(u)  BY RunsAlone, PrioDistinct
<1>2. \A v \in Threads : Prio(u) < Prio(v) => pc'[v] = pc[v]
  <2>1. \A v \in Threads : Prio(u) < Prio(v) => v # t
    BY <1>1, PrioDistinct
  <2>. QED  BY <2>1
<1>. QED  BY <1>1, <1>2 DEF Interrupting

\* Calls that come back all the same way, as long as the thread's place among the
\* others asks for it, keep the jobs whole.
LEMMA StaysWhole ==
    ASSUME Inv, NEW t \in Threads, Runs(t), pc' = [pc EXCEPT ![t] = pc'[t]],
           \A u \in Threads \ {t} : outcome'[u] = outcome[u],
           \/ outcome'[t] = outcome[t]
           \/ Interrupting(t) /\ outcome'[t] = outcome[t] \union {"HAL_BUSY"}
           \/ ~ Interrupting(t) /\ outcome'[t] = outcome[t] \union {"HAL_OK"}
    PROVE  WholeOrRefused'
<1>1. /\ pc \in [Threads -> {"sleep", "enter", "lock", "locked", "busy", "send", "sent", "unlock"}]
      /\ outcome \in [Threads -> SUBSET {"HAL_OK", "HAL_BUSY"}] /\ WholeOrRefused /\ pc[t] # "sleep"
  BY DEF Inv, TypeOK, Runs
<1>2. Interrupting(t)' <=> Interrupting(t)
  <2>1. \A v \in Threads : Prio(t) < Prio(v) => v # t  BY PrioDistinct
  <2>2. \A v \in Threads : Prio(t) < Prio(v) => pc'[v] = pc[v]  BY <1>1, <2>1
  <2>. QED  BY <2>2 DEF Interrupting
<1>3. /\ outcome'[t] # {"HAL_OK", "HAL_BUSY"}
      /\ outcome'[t] # {} => ("HAL_BUSY" \in outcome'[t] <=> Interrupting(t))
  <2>1. outcome[t] \in SUBSET {"HAL_OK", "HAL_BUSY"}  BY <1>1
  <2>2. outcome[t] # {} => ("HAL_BUSY" \in outcome[t] <=> Interrupting(t))
    BY <1>1 DEF WholeOrRefused
  <2>3. outcome[t] # {"HAL_OK", "HAL_BUSY"}  BY <1>1 DEF WholeOrRefused
  <2>4. outcome[t] \in {{}, {"HAL_OK"}, {"HAL_BUSY"}}  BY <2>1, <2>3
  <2>5. {"HAL_OK"} # {"HAL_OK", "HAL_BUSY"} /\ {"HAL_BUSY"} # {"HAL_OK", "HAL_BUSY"}  OBVIOUS
  <2>. QED  BY <2>2, <2>4, <2>5
<1>4. ASSUME NEW u \in Threads, u # t
      PROVE  /\ outcome'[u] # {"HAL_OK", "HAL_BUSY"}
             /\ pc'[u] # "sleep" /\ outcome'[u] # {} =>
                    ("HAL_BUSY" \in outcome'[u] <=> Interrupting(u)')
  <2>1. pc'[u] = pc[u] /\ outcome'[u] = outcome[u]  BY <1>1, <1>4
  <2>2. pc[u] # "sleep" => (Interrupting(u)' <=> Interrupting(u))
    BY <1>1, <1>4, StillInterrupting
  <2>. QED  BY <1>1, <2>1, <2>2 DEF WholeOrRefused
<1>. QED  BY <1>2, <1>3, <1>4 DEF WholeOrRefused

\* A step that moves t between places outside the lock, and leaves handle, lock
\* and receiver alone, keeps the invariant.
LEMMA OutsideLock ==
    ASSUME Inv, NEW t \in Threads, Runs(t), pc[t] \in {"enter", "lock"},
           UNCHANGED <<gState, Lock, jobs, wire, rx>>,
           \/ /\ pc[t] = "enter" /\ gState # "READY" /\ Return(t, "HAL_BUSY")
           \/ /\ pc[t] = "lock" /\ Lock # 0 /\ Return(t, "HAL_BUSY")
           \/ /\ pc[t] = "enter" /\ Goto(t, "lock") /\ UNCHANGED <<calls, no>>
           \/ /\ pc[t] = "lock" /\ Lock = 0 /\ Goto(t, "locked") /\ UNCHANGED <<calls, no>>
    PROVE  Inv'
<1>1. pc \in [Threads -> {"sleep", "enter", "lock", "locked", "busy", "send", "sent", "unlock"}]
  BY DEF Inv, TypeOK
<1>2. /\ pc'[t] \in {"sleep", "enter", "lock", "locked"} /\ pc' = [pc EXCEPT ![t] = pc'[t]]
      /\ pc'[t] = "locked" => Lock = 0
      /\ pc'[t] # "sleep" => calls'[t] # <<>>
      /\ \A u \in Threads \ {t} : calls'[u] = calls[u]
      /\ calls' \in [Threads -> Seq(Records)] /\ no' \in [Threads -> Nat]
      /\ outcome' \in [Threads -> SUBSET {"HAL_OK", "HAL_BUSY"}]
      /\ \/ UNCHANGED outcome
         \/ /\ gState # "READY" \/ Lock # 0
            /\ outcome' = [outcome EXCEPT ![t] = @ \union {"HAL_BUSY"}]
  <2>1. CASE (gState # "READY" \/ Lock # 0) /\ Return(t, "HAL_BUSY")
    BY <2>1, ReturnStep DEF Inv, TypeOK
  <2>2. CASE pc[t] = "enter" /\ Goto(t, "lock") /\ UNCHANGED <<calls, no>>
    BY <1>1, <2>2 DEF Inv, Goto, Awake, TypeOK, Records
  <2>3. CASE pc[t] = "lock" /\ Lock = 0 /\ Goto(t, "locked") /\ UNCHANGED <<calls, no>>
    BY <1>1, <2>3 DEF Inv, Goto, Awake, TypeOK, Records
  <2>. QED  BY <2>1, <2>2, <2>3
<1>3. TypeOK'
  <2>1. pc' \in [Threads -> {"sleep", "enter", "lock", "locked", "busy", "send", "sent", "unlock"}]
    BY <1>1, <1>2
  <2>2. /\ calls' \in [Threads -> Seq(Records)] /\ no' \in [Threads -> Nat]
        /\ outcome' \in [Threads -> SUBSET {"HAL_OK", "HAL_BUSY"}]
    BY <1>2
  <2>. QED  BY <2>1, <2>2 DEF Inv, TypeOK, Records, rx
<1>4. Preempted'
  <2>. SUFFICES ASSUME NEW v \in Threads, NEW u \in Threads, Prio(v) < Prio(u), pc'[u] \in Holds
                PROVE  pc'[v] \in {"sleep", "enter", "lock"}
    BY DEF Preempted
  <2>1. pc'[t] \notin Holds  BY <1>2 DEF Holds
  <2>2. u # t /\ pc'[u] = pc[u]  BY <1>1, <1>2, <2>1
  <2>3. pc[v] \in {"sleep", "enter", "lock"}  BY <2>2 DEF Inv, Preempted
  <2>4. CASE v # t  BY <1>1, <1>2, <2>3, <2>4
  <2>5. CASE v = t
    <3>1. Lock = 1  BY <2>2 DEF Inv, HandleTells
    <3>2. pc'[t] # "locked"  BY <1>2, <3>1
    <3>. QED  BY <1>2, <2>5, <3>2
  <2>. QED  BY <2>4, <2>5
<1>5. HandleTells'
  BY <1>1, <1>2 DEF Inv, HandleTells, Holds
<1>6. Awake'
  BY <1>1, <1>2 DEF Inv, Awake
<1>7. ReceivesUntilFirstSend'
  BY DEF Inv, ReceivesUntilFirstSend, rx
<1>8. WholeOrRefused'
  <2>1. gState # "READY" \/ Lock # 0 => Interrupting(t)
    <3>. SUFFICES ASSUME gState # "READY" \/ Lock # 0  PROVE Interrupting(t)  OBVIOUS
    <3>1. PICK u \in Threads : pc[u] \in Holds
      BY DEF Inv, TypeOK, HandleTells, Holds
    <3>2. u # t /\ pc[u] # "sleep"  BY <3>1 DEF Holds
    <3>3. Prio(t) < Prio(u)  BY <3>2, RunsAlone, PrioDistinct
    <3>. QED  BY <3>1, <3>3 DEF Interrupting, Holds
  <2>2. /\ \A u \in Threads \ {t} : outcome'[u] = outcome[u]
        /\ \/ outcome'[t] = outcome[t]
           \/ Interrupting(t) /\ outcome'[t] = outcome[t] \union {"HAL_BUSY"}
    <3>1. outcome \in [Threads -> SUBSET {"HAL_OK", "HAL_BUSY"}]  BY DEF Inv, TypeOK
    <3>. QED  BY <1>2, <2>1, <3>1
  <2>. QED  BY <1>2, <2>2, StaysWhole
<1>. QED  BY <1>3, <1>4, <1>5, <1>6, <1>7, <1>8 DEF Inv

\* A step that moves the only holder, or the one about to become it, from one
\* place to the next, and sets handle and lock to what the new place means.
LEMMA InsideLock ==
    ASSUME Inv, NEW t \in Threads, Runs(t), pc[t] \in Holds \union {"locked"},
           pc' = [pc EXCEPT ![t] = pc'[t]], pc'[t] \in Holds \union {"sleep", "enter"},
           pc'[t] # "sleep" => calls'[t] # <<>>,
           \A u \in Threads \ {t} : calls'[u] = calls[u],
           calls' \in [Threads -> Seq(Records)], no' \in [Threads -> Nat],
           UNCHANGED <<jobs, rx>>,
           outcome' \in [Threads -> SUBSET {"HAL_OK", "HAL_BUSY"}],
           \/ UNCHANGED outcome
           \/ pc[t] \in Holds /\ outcome' = [outcome EXCEPT ![t] = @ \union {"HAL_OK"}],
           Lock' = IF pc'[t] \in Holds THEN 1 ELSE 0,
           gState' = IF pc'[t] \in {"send", "sent"} THEN "BUSY_TX" ELSE "READY"
    PROVE  Inv'
<1>1. pc \in [Threads -> {"sleep", "enter", "lock", "locked", "busy", "send", "sent", "unlock"}]
  BY DEF Inv, TypeOK
<1>2. \A u \in Threads \ {t} : pc[u] \notin Holds /\ pc'[u] = pc[u]
  BY <1>1, OnlyHolder DEF Inv
<1>3. \A u \in Threads : Prio(u) < Prio(t) => pc[u] = "sleep"
  BY RunsAlone
<1>4. TypeOK'
  BY <1>1 DEF Inv, TypeOK, Records, rx, Holds
<1>5. Preempted'
  <2>. SUFFICES ASSUME NEW v \in Threads, NEW u \in Threads, Prio(v) < Prio(u), pc'[u] \in Holds
                PROVE  pc'[v] \in {"sleep", "enter", "lock"}
    BY DEF Preempted
  <2>1. u = t  BY <1>2
  <2>2. v # t  BY <2>1, PrioDistinct
  <2>. QED  BY <1>2, <1>3, <2>1, <2>2
<1>6. HandleTells'
  <2>1. (\E u \in Threads : pc'[u] \in Holds) <=> pc'[t] \in Holds
    BY <1>2
  <2>2. (\E u \in Threads : pc'[u] \in {"send", "sent"}) <=> pc'[t] \in {"send", "sent"}
    BY <1>2 DEF Holds
  <2>3. Lock' = 1 <=> pc'[t] \in Holds
    OBVIOUS
  <2>4. gState' = "BUSY_TX" <=> pc'[t] \in {"send", "sent"}
    OBVIOUS
  <2>. QED  BY <2>1, <2>2, <2>3, <2>4 DEF HandleTells, Holds
<1>7. Awake'
  BY <1>1, <1>2 DEF Inv, Awake, Holds
<1>8. ReceivesUntilFirstSend'
  BY DEF Inv, ReceivesUntilFirstSend, rx
<1>9. WholeOrRefused'
  <2>1. ~ Interrupting(t)  BY <1>2, PrioDistinct DEF Interrupting, Holds
  <2>2. /\ \A u \in Threads \ {t} : outcome'[u] = outcome[u]
        /\ outcome'[t] = outcome[t] \/ outcome'[t] = outcome[t] \union {"HAL_OK"}
    <3>1. outcome \in [Threads -> SUBSET {"HAL_OK", "HAL_BUSY"}]  BY DEF Inv, TypeOK
    <3>. QED  BY <3>1
  <2>. QED  BY <2>1, <2>2, StaysWhole
<1>. QED  BY <1>4, <1>5, <1>6, <1>7, <1>8, <1>9 DEF Inv

\* Every step of HAL_UART_Transmit.
LEMMA TransmitInv ==
    ASSUME Inv, NEW t \in Threads, HAL_UART_Transmit(t)
    PROVE  Inv'
<1>1. /\ pc \in [Threads -> {"sleep", "enter", "lock", "locked", "busy", "send", "sent", "unlock"}]
      /\ calls \in [Threads -> Seq(Records)] /\ no \in [Threads -> Nat]
      /\ pc[t] # "sleep" => calls[t] # <<>>
      /\ outcome \in [Threads -> SUBSET {"HAL_OK", "HAL_BUSY"}]
  BY DEF Inv, TypeOK, Awake, Records
<1>2. CASE Enter(t)
  BY <1>2, OutsideLock DEF Enter
<1>3. CASE TestLock(t)
  BY <1>3, OutsideLock DEF TestLock
<1>4. gState = (IF pc[t] \in {"send", "sent"} THEN "BUSY_TX" ELSE "READY")
      \/ ~ Runs(t) \/ pc[t] \notin Holds \union {"locked"}
  <2>. SUFFICES ASSUME Runs(t), pc[t] \in Holds \union {"locked"}
                PROVE  gState = IF pc[t] \in {"send", "sent"} THEN "BUSY_TX" ELSE "READY"
    OBVIOUS
  <2>1. \A u \in Threads \ {t} : pc[u] \notin Holds
    BY OnlyHolder DEF Inv
  <2>. QED  BY <2>1 DEF Inv, HandleTells, Holds, TypeOK
<1>5. Runs(t) /\ pc[t] \in Holds => Lock = 1
  BY DEF Inv, HandleTells
<1>6. CASE SetLock(t)
  BY <1>1, <1>4, <1>6, InsideLock DEF SetLock, Goto, Holds
<1>7. CASE SetBusy(t)
  BY <1>1, <1>5, <1>7, InsideLock DEF SetBusy, Goto, Holds
<1>8. CASE Send(t)
  <2>1. Runs(t) /\ pc[t] = "send" /\ UNCHANGED <<gState, Lock, calls, jobs, outcome, rx>>
    BY <1>8 DEF Send, Goto
  <2>2. /\ pc' = [pc EXCEPT ![t] = pc'[t]] /\ pc'[t] \in {"send", "sent"}
        /\ no' \in [Threads -> Nat]
    BY <1>1, <1>8 DEF Send, Goto
  <2>3. Lock' = 1 /\ gState' = "BUSY_TX"
    BY <1>4, <1>5, <2>1 DEF Holds
  <2>. QED  BY <1>1, <2>1, <2>2, <2>3, InsideLock DEF Holds
<1>9. CASE SetReady(t)
  BY <1>1, <1>5, <1>9, InsideLock DEF SetReady, Goto, Holds
<1>10. CASE Unlock(t)
  <2>1. Return(t, "HAL_OK") /\ pc[t] = "unlock" /\ Runs(t) /\ TypeOK /\ Awake
    BY <1>10 DEF Unlock, Inv
  <2>. QED  BY <1>4, <1>10, <2>1, ReturnStep, InsideLock DEF Unlock, Holds
<1>. QED  BY <1>2, <1>3, <1>6, <1>7, <1>8, <1>9, <1>10 DEF HAL_UART_Transmit

\* The invariant is inductive.
LEMMA NextInv == Inv /\ [Next]_vars => Inv'
<1>. SUFFICES ASSUME Inv, [Next]_vars PROVE Inv'
  OBVIOUS
<1>1. CASE Running
  BY <1>1, TransmitInv DEF Running
<1>2. ASSUME NEW t \in Threads, Wake(t) PROVE Inv'
  <2>1. /\ pc \in [Threads -> {"sleep", "enter", "lock", "locked", "busy", "send", "sent", "unlock"}]
        /\ pc[t] = "sleep" /\ pc' = [pc EXCEPT ![t] = "enter"]
        /\ calls' = [calls EXCEPT ![t] = Job(t)] /\ calls \in [Threads -> Seq(Records)]
        /\ jobs' = [jobs EXCEPT ![t] = @ + 1] /\ jobs \in [Threads -> 0..MaxJobs]
        /\ jobs[t] < MaxJobs /\ MaxJobs \in Nat
        /\ outcome' = [outcome EXCEPT ![t] = {}] /\ outcome \in [Threads -> SUBSET {"HAL_OK", "HAL_BUSY"}]
    BY <1>2, Uart1Assumption DEF Wake, Inv, TypeOK, Records
  <2>2. jobs' \in [Threads -> 0..MaxJobs] /\ jobs'[t] > 0 /\ \A u \in Threads \ {t} : jobs'[u] = jobs[u]
    BY <2>1
  <2>3. TypeOK'
    BY <1>2, <2>1, <2>2, JobType DEF Wake, Inv, TypeOK, Records, rx
  <2>4. Preempted'
    BY <2>1 DEF Inv, Preempted, Holds
  <2>5. HandleTells'
    BY <1>2, <2>1 DEF Wake, Inv, HandleTells, Holds
  <2>6. Awake'
    BY <2>1, <2>2, JobType DEF Inv, Awake
  <2>7. ReceivesUntilFirstSend'
    BY <1>2, <2>2 DEF Wake, Inv, ReceivesUntilFirstSend, rx
  <2>8. WholeOrRefused'
    <3>1. \A u \in Threads : Interrupting(u)' <=> Interrupting(u)
      <4>1. \A v \in Threads : (pc'[v] \in {"busy", "send", "sent", "unlock"})
                                 <=> (pc[v] \in {"busy", "send", "sent", "unlock"})
        BY <2>1
      <4>. QED  BY <4>1 DEF Interrupting
    <3>2. outcome'[t] = {} /\ {} # {"HAL_OK", "HAL_BUSY"}  BY <2>1
    <3>3. \A u \in Threads \ {t} : outcome'[u] = outcome[u] /\ pc'[u] = pc[u]  BY <2>1
    <3>. QED  BY <3>1, <3>2, <3>3 DEF Inv, WholeOrRefused
  <2>. QED  BY <2>3, <2>4, <2>5, <2>6, <2>7, <2>8 DEF Inv
<1>3. CASE Log
  <2>1. TypeOK' /\ Preempted' /\ HandleTells' /\ Awake' /\ ReceivesUntilFirstSend'
    BY <1>3 DEF Log, Inv, TypeOK, Preempted, HandleTells, Awake, ReceivesUntilFirstSend, rx
  <2>2. WholeOrRefused'
    BY <1>3 DEF Log, Inv, WholeOrRefused, Interrupting
  <2>. QED  BY <2>1, <2>2 DEF Inv
<1>4. CASE RxCplt
  <2>1. TypeOK'
    BY <1>4, Uart1Assumption DEF RxCplt, Store, Inv, TypeOK, tx
  <2>2. Preempted' /\ HandleTells' /\ Awake'
    BY <1>4 DEF RxCplt, Inv, Preempted, HandleTells, Awake, tx
  <2>4. WholeOrRefused'
    BY <1>4 DEF RxCplt, Inv, WholeOrRefused, Interrupting, tx
  <2>3. ReceivesUntilFirstSend'
    <3>1. CASE Lock = 0
      BY <1>4, <3>1 DEF RxCplt, ReceivesUntilFirstSend
    <3>2. CASE Lock = 1
      <4>1. PICK t \in Threads : pc[t] \in Holds
        BY <3>2 DEF Inv, HandleTells
      <4>. QED  BY <1>4, <4>1 DEF RxCplt, Inv, Awake, Holds, ReceivesUntilFirstSend, tx
    <3>. QED  BY <3>1, <3>2 DEF Inv, TypeOK
  <2>. QED  BY <2>1, <2>2, <2>3, <2>4 DEF Inv
<1>5. CASE UNCHANGED vars
  <2>1. TypeOK' /\ Preempted' /\ HandleTells' /\ Awake' /\ ReceivesUntilFirstSend'
    BY <1>5 DEF vars, tx, rx, Inv, TypeOK, Preempted, HandleTells, Awake, ReceivesUntilFirstSend
  <2>2. WholeOrRefused'
    BY <1>5 DEF vars, tx, Inv, WholeOrRefused, Interrupting
  <2>. QED  BY <2>1, <2>2 DEF Inv
<1>. QED  BY <1>1, <1>2, <1>3, <1>4, <1>5 DEF Next

\* Holds in every reachable state.
LEMMA InvHolds == Spec => []Inv
BY InitInv, NextInv, PTL DEF Spec
-----------------------------------------------------------------------------
\* The handle's, the threads' and the receiver's variables keep their types; in
\* particular USART1_RX_STA never passes USART1_REC_LEN, for buffers of any size.
THEOREM Uart1TypeCorrect == Spec => []TypeOK
BY InvHolds, PTL DEF Inv

\* No two threads are inside a transmission of HAL_UART_Transmit, for messages of
\* any length and any number of wake-ups.
THEOREM Uart1Exclusive == Spec => []Exclusive
<1>1. Inv => Exclusive
  BY PrioDistinct DEF Inv, Preempted, HandleTells, Holds, Exclusive
<1>. QED  BY <1>1, InvHolds, PTL

\* The receive callback always re-arms reception as long as no thread has had
\* anything to send.
THEOREM Uart1Receives == Spec => []ReceivesUntilFirstSend
BY InvHolds, PTL DEF Inv

\* The messages of a fall, or of any other job, go out all together or are all
\* refused with HAL_BUSY, and they are refused exactly when the thread has
\* interrupted a less urgent one that has huart1 locked: for messages of any
\* length and any number of wake-ups.
THEOREM Uart1WholeOrRefused == Spec => []WholeOrRefused
BY InvHolds, PTL DEF Inv
-----------------------------------------------------------------------------
(***************************************************************************)
(* What is on the wire.  A byte of an SMS that is not its last is Cut      *)
(* unless the rest follows; while a thread is inside the SMS, the console  *)
(* has put at least as many bytes behind the last byte as are missing up   *)
(* to where the thread is.                                                 *)
(***************************************************************************)

WireByte == [by : Threads \union {"haptic"}, msg : {"syn", "sms", "log"}, job : Nat, k : Nat]

Cut(j) == wire[j].msg = "sms" /\ wire[j].k < SmsLen

\* Only console bytes between the positions j and l.
Quiet(j, l) == \A m \in (j + 1)..(l - 1) : wire[m].by = "haptic"

\* The byte at l goes on with the SMS of the byte at j, and every byte between
\* them has been replaced.
GoesOn(j, l) ==
    /\ wire[l].by = wire[j].by /\ wire[l].msg = "sms" /\ wire[l].job = wire[j].job
    /\ wire[l].k > wire[j].k /\ l - j >= wire[l].k - wire[j].k

\* The rest of the SMS has been replaced before position l.
Ended(j, l) == l - j - 1 >= SmsLen - wire[j].k

\* Thread t is going on with the SMS of the byte at j.
Going(j, t) ==
    /\ pc[t] = "send" /\ Head(calls[t]).msg = "sms"
    /\ wire[j].by = t /\ wire[j].job = jobs[t]
    /\ wire[j].k <= no[t] /\ Len(wire) - j >= no[t] - wire[j].k

\* Neighbours on the wire.
Neighbours ==
    \A j \in 1..Len(wire) : \A l \in (j + 1)..Len(wire) :
        Cut(j) /\ wire[l].by # "haptic" /\ Quiet(j, l) => GoesOn(j, l) \/ Ended(j, l)

\* The last byte of an SMS on the wire.
LastByte ==
    \A j \in 1..Len(wire) :
        Cut(j) /\ Quiet(j, Len(wire) + 1) =>
            Ended(j, Len(wire) + 1) \/ \E t \in Threads : Going(j, t)

\* An SMS is sent with one call.
OneCall ==
    \A t \in Threads : \A q \in 1..Len(calls[t]) :
        calls[t][q].msg = "sms" => calls[t][q].first = 1 /\ calls[t][q].last = SmsLen

WireInv == wire \in Seq(WireByte) /\ Neighbours /\ LastByte

MixInv == Inv /\ WireInv /\ OneCall

\* A step that writes nothing and leaves the thread that sends where it is.
LEMMA SameWire ==
    ASSUME WireInv, UNCHANGED wire,
           \A t \in Threads : pc[t] = "send" => /\ pc'[t] = "send" /\ calls'[t] = calls[t]
                                                /\ no'[t] = no[t] /\ jobs'[t] = jobs[t]
    PROVE  WireInv'
<1>1. (wire \in Seq(WireByte))' /\ Neighbours'
  BY DEF WireInv, Neighbours, Cut, Quiet, GoesOn, Ended
<1>2. \A j : \A t \in Threads : Going(j, t) => Going(j, t)'
  BY DEF Going
<1>3. LastByte'
  <2>. SUFFICES ASSUME NEW j \in 1..Len(wire), Cut(j), Quiet(j, Len(wire) + 1)
                PROVE  Ended(j, Len(wire) + 1) \/ \E t \in Threads : Going(j, t)'
    BY DEF LastByte, Cut, Quiet, Ended
  <2>. QED  BY <1>2 DEF WireInv, LastByte
<1>. QED  BY <1>1, <1>3 DEF WireInv

\* What a thread sends.
LEMMA JobOneCall ==
    ASSUME NEW t \in Threads
    PROVE  \A q \in 1..Len(Job(t)) : Job(t)[q].msg = "sms" => Job(t)[q].first = 1 /\ Job(t)[q].last = SmsLen
<1>1. SynCalls \in Seq(Records) /\ Len(SynCalls) = SynLen /\ SynLen \in Nat
  BY Uart1Assumption DEF SynCalls, Call, Records
<1>2. SmsCalls \in Seq(Records) /\ Len(SmsCalls) = 1 /\ SmsCalls[1].first = 1 /\ SmsCalls[1].last = SmsLen
  BY Uart1Assumption DEF SmsCalls, Call, Records
<1>3. \A q \in 1..SynLen : SynCalls[q].msg = "syn"
  BY <1>1 DEF SynCalls, Call
<1>4. /\ Len(SynCalls \o SmsCalls) = SynLen + 1
      /\ \A q \in 1..(SynLen + 1) :
            (SynCalls \o SmsCalls)[q] = IF q <= SynLen THEN SynCalls[q] ELSE SmsCalls[q - SynLen]
  <2>1. /\ Len(SynCalls \o SmsCalls) = Len(SynCalls) + Len(SmsCalls)
        /\ \A q \in 1..(Len(SynCalls) + Len(SmsCalls)) :
              (SynCalls \o SmsCalls)[q] = IF q <= Len(SynCalls) THEN SynCalls[q]
                                                               ELSE SmsCalls[q - Len(SynCalls)]
    BY <1>1, <1>2, ConcatProperties
  <2>. QED  BY <1>1, <1>2, <2>1
<1>5. \A q \in 1..(SynLen + 1) : ~ (q <= SynLen) => q - SynLen = 1
  BY <1>1
<1>6. ASSUME NEW q \in 1..(SynLen + 1), (SynCalls \o SmsCalls)[q].msg = "sms"
      PROVE  (SynCalls \o SmsCalls)[q].first = 1 /\ (SynCalls \o SmsCalls)[q].last = SmsLen
  <2>1. CASE q <= SynLen
    <3>1. q \in 1..SynLen  BY <1>1, <2>1
    <3>. QED  BY <1>3, <1>4, <1>6, <2>1, <3>1
  <2>2. CASE ~ (q <= SynLen)
    BY <1>2, <1>4, <1>5, <2>2
  <2>. QED  BY <2>1, <2>2
<1>7. CASE t = "ai"
  BY <1>1, <1>3, <1>7 DEF Job
<1>8. CASE t = "voice"
  <2>1. Job(t) = SmsCalls  BY <1>8 DEF Job
  <2>2. \A q \in 1..1 : q = 1  OBVIOUS
  <2>. QED  BY <1>2, <2>1, <2>2
<1>9. CASE t = "fall"
  <2>1. Job(t) = SynCalls \o SmsCalls  BY <1>9 DEF Job
  <2>. QED  BY <1>4, <1>6, <2>1
<1>. QED  BY <1>7, <1>8, <1>9 DEF Threads

\* OneCall survives the end of a call.
LEMMA ReturnOneCall ==
    ASSUME Inv, OneCall, NEW t \in Threads, pc[t] # "sleep", NEW result, Return(t, result)
    PROVE  OneCall'
<1>1. calls[t] \in Seq(Records) /\ calls[t] # <<>> /\ calls \in [Threads -> Seq(Records)]
  BY DEF Inv, TypeOK, Awake, Records
<1>2. /\ Len(Tail(calls[t])) = Len(calls[t]) - 1
      /\ \A q \in 1..Len(Tail(calls[t])) : Tail(calls[t])[q] = calls[t][q + 1]
  BY <1>1, HeadTailProperties
<1>3. calls'[t] = Tail(calls[t]) /\ \A u \in Threads \ {t} : calls'[u] = calls[u]
  BY <1>1 DEF Return
<1>4. ASSUME NEW q \in 1..Len(Tail(calls[t])), Tail(calls[t])[q].msg = "sms"
      PROVE  Tail(calls[t])[q].first = 1 /\ Tail(calls[t])[q].last = SmsLen
  <2>1. q + 1 \in 1..Len(calls[t])  BY <1>1, <1>2
  <2>. QED  BY <1>2, <1>4, <2>1 DEF OneCall
<1>5. ASSUME NEW u \in Threads, NEW q \in 1..Len(calls'[u]), calls'[u][q].msg = "sms"
      PROVE  calls'[u][q].first = 1 /\ calls'[u][q].last = SmsLen
  <2>1. CASE u = t  BY <1>3, <1>4, <1>5, <2>1
  <2>2. CASE u # t  BY <1>3, <1>5, <2>2 DEF OneCall
  <2>. QED  BY <2>1, <2>2
<1>. QED  BY <1>5 DEF OneCall

\* A byte of thread t.
LEMMA SendWire ==
    ASSUME MixInv, NEW t \in Threads, Send(t)
    PROVE  WireInv'
<1>1. PICK c : c = Head(calls[t])  OBVIOUS
<1>2. PICK e : e = [by |-> t, msg |-> c.msg, job |-> jobs[t], k |-> c.first + no[t]]  OBVIOUS
<1>3. PICK n : n = Len(wire)  OBVIOUS
<1>4. /\ Runs(t) /\ pc[t] = "send" /\ wire' = Append(wire, e)
      /\ UNCHANGED <<calls, jobs>>
      /\ IF c.first + no[t] = c.last THEN Goto(t, "sent") /\ UNCHANGED no
                                     ELSE no' = [no EXCEPT ![t] = @ + 1] /\ UNCHANGED pc
  BY <1>1, <1>2 DEF Send
<1>5. /\ calls[t] \in Seq(Records) /\ calls[t] # <<>> /\ jobs[t] \in Nat /\ no[t] \in Nat
      /\ no \in [Threads -> Nat] /\ Preempted /\ wire \in Seq(WireByte) /\ n \in Nat
  BY <1>3, <1>4 DEF MixInv, WireInv, Inv, TypeOK, Awake, Records
<1>6. 1 \in 1..Len(calls[t]) /\ c = calls[t][1] /\ c \in Records
  BY <1>1, <1>5, EmptySeq, HeadTailProperties
<1>7. c.msg \in {"syn", "sms"} /\ c.first \in Nat /\ (c.msg = "sms" => c.first = 1)
  BY <1>6 DEF MixInv, OneCall, Records
<1>8. e \in WireByte /\ e.by = t /\ e.msg = c.msg /\ e.job = jobs[t] /\ e.k = c.first + no[t] /\ e.k \in Nat
  BY <1>2, <1>5, <1>7 DEF WireByte
<1>9. /\ wire' \in Seq(WireByte) /\ Len(wire') = n + 1 /\ wire'[n + 1] = e
      /\ \A j \in 1..n : wire'[j] = wire[j]
  BY <1>3, <1>4, <1>5, <1>8, AppendProperties
<1>t. t # "haptic"  BY DEF Threads
<1>10. \A j \in 1..n : wire[j].k \in Nat
  <2>1. \A j \in 1..n : wire[j] \in WireByte  BY <1>3, <1>5, ElementOfSeq
  <2>. QED  BY <2>1 DEF WireByte
<1>11. SmsLen \in Nat  BY Uart1Assumption
\* The byte behind the last one that is not the console's.
<1>12. ASSUME NEW j \in 1..n, Cut(j)', Quiet(j, n + 1)'  PROVE GoesOn(j, n + 1)' \/ Ended(j, n + 1)'
  <2>1. Cut(j) /\ Quiet(j, n + 1)  BY <1>5, <1>9, <1>12 DEF Cut, Quiet
  <2>2. wire'[j] = wire[j] /\ wire[j].k \in Nat /\ j \in Nat  BY <1>9, <1>10
  <2>3. CASE Ended(j, n + 1)  BY <2>2, <2>3 DEF Ended
  <2>4. CASE \E u \in Threads : Going(j, u)
    <3>1. PICK u \in Threads : Going(j, u)  BY <2>4
    <3>2. u = t
      <4>1. \A v \in Threads \ {t} : pc[v] \notin Holds  BY <1>4, <1>5, OnlyHolder DEF Holds
      <4>. QED  BY <3>1, <4>1 DEF Going, Holds
    <3>3. /\ c.msg = "sms" /\ wire[j].by = t /\ wire[j].job = jobs[t]
          /\ wire[j].k <= no[t] /\ n - j >= no[t] - wire[j].k
      BY <1>1, <1>3, <3>1, <3>2 DEF Going
    <3>4. e.k = no[t] + 1  BY <1>5, <1>7, <1>8, <3>3
    <3>5. e.k > wire[j].k /\ (n + 1) - j >= e.k - wire[j].k
      <4>1. PICK w \in Nat, m \in Nat : w = wire[j].k /\ m = no[t]  BY <1>5, <2>2
      <4>2. w <= m /\ n - j >= m - w  BY <3>3, <4>1
      <4>3. m + 1 > w /\ (n + 1) - j >= (m + 1) - w  BY <1>5, <2>2, <4>2
      <4>. QED  BY <3>4, <4>1, <4>3
    <3>6. GoesOn(j, n + 1)'  BY <1>8, <1>9, <2>2, <3>3, <3>5 DEF GoesOn
    <3>. QED  BY <3>6
  <2>. QED  BY <1>3, <2>1, <2>3, <2>4 DEF MixInv, WireInv, LastByte
<1>13. Neighbours'
  <2>. SUFFICES ASSUME NEW j \in 1..(n + 1), NEW l \in (j + 1)..(n + 1),
                       Cut(j)', wire'[l].by # "haptic", Quiet(j, l)'
                PROVE  GoesOn(j, l)' \/ Ended(j, l)'
    BY <1>9 DEF Neighbours
  <2>1. j \in 1..n  BY <1>5
  <2>2. CASE l = n + 1  BY <1>12, <2>1, <2>2
  <2>3. CASE l # n + 1
    <3>1. l \in (j + 1)..n /\ l \in 1..n  BY <1>5, <2>3
    <3>2. \A m \in (j + 1)..(l - 1) : m \in 1..n  BY <1>5, <3>1
    <3>3. Cut(j) /\ wire[l].by # "haptic" /\ Quiet(j, l)
      BY <1>9, <2>1, <3>1, <3>2 DEF Cut, Quiet
    <3>4. GoesOn(j, l) \/ Ended(j, l)  BY <1>3, <2>1, <3>1, <3>3 DEF MixInv, WireInv, Neighbours
    <3>. QED  BY <1>9, <2>1, <3>1, <3>4 DEF GoesOn, Ended
  <2>. QED  BY <2>2, <2>3
<1>14. LastByte'
  <2>. SUFFICES ASSUME NEW j \in 1..(n + 1), Cut(j)', \A m \in (j + 1)..(n + 1) : wire'[m].by = "haptic"
                PROVE  \E u \in Threads : Going(j, u)'
    <3>1. Len(wire') + 1 = n + 2 /\ n + 2 - 1 = n + 1  BY <1>5, <1>9
    <3>. QED  BY <1>9, <3>1 DEF LastByte, Quiet
  <2>1. j = n + 1
    <3>. SUFFICES ASSUME j # n + 1  PROVE FALSE  OBVIOUS
    <3>1. n + 1 \in (j + 1)..(n + 1)  BY <1>5
    <3>. QED  BY <1>8, <1>9, <1>t, <3>1
  <2>2. c.msg = "sms" /\ e.k < SmsLen /\ e.k = 1 + no[t]  BY <1>7, <1>8, <1>9, <2>1 DEF Cut
  <2>3. c.last = SmsLen
    BY <1>6, <2>2 DEF MixInv, OneCall
  <2>4. no' = [no EXCEPT ![t] = @ + 1] /\ UNCHANGED pc  BY <1>4, <1>8, <2>2, <2>3, <1>5, <1>11
  <2>5. no'[t] = no[t] + 1  BY <1>5, <2>4
  <2>6. Going(j, t)'
    BY <1>1, <1>4, <1>5, <1>8, <1>9, <2>1, <2>2, <2>4, <2>5 DEF Going
  <2>. QED  BY <2>6
<1>. QED  BY <1>9, <1>13, <1>14 DEF WireInv

\* A byte of the console, behind the others or in the place of the last one.
LEMMA LogWire ==
    ASSUME MixInv, Log
    PROVE  WireInv'
<1>1. PICK e : e = [by |-> "haptic", msg |-> "log", job |-> 0, k |-> 1]  OBVIOUS
<1>2. PICK n : n = Len(wire)  OBVIOUS
<1>3. e \in WireByte /\ e.by = "haptic" /\ e.msg = "log"  BY <1>1 DEF WireByte
<1>4. wire \in Seq(WireByte) /\ n \in Nat /\ SmsLen \in Nat
  BY <1>2, Uart1Assumption DEF MixInv, WireInv
<1>5. \A j \in 1..n : wire[j].k \in Nat
  <2>1. \A j \in 1..n : wire[j] \in WireByte  BY <1>2, <1>4, ElementOfSeq
  <2>. QED  BY <2>1 DEF WireByte
<1>6. UNCHANGED <<pc, calls, no, jobs>>  BY DEF Log
<1>7. CASE wire' = Append(wire, e)
  <2>1. /\ wire' \in Seq(WireByte) /\ Len(wire') = n + 1 /\ wire'[n + 1] = e
        /\ \A j \in 1..n : wire'[j] = wire[j]
    BY <1>2, <1>3, <1>4, <1>7, AppendProperties
  <2>2. Neighbours'
    <3>. SUFFICES ASSUME NEW j \in 1..(n + 1), NEW l \in (j + 1)..(n + 1),
                         Cut(j)', wire'[l].by # "haptic", Quiet(j, l)'
                  PROVE  GoesOn(j, l)' \/ Ended(j, l)'
      BY <2>1 DEF Neighbours
    <3>1. l # n + 1  BY <1>3, <2>1
    <3>2. j \in 1..n /\ l \in (j + 1)..n /\ l \in 1..n  BY <1>4, <3>1
    <3>3. \A m \in (j + 1)..(l - 1) : m \in 1..n  BY <1>4, <3>2
    <3>4. Cut(j) /\ wire[l].by # "haptic" /\ Quiet(j, l)
      BY <2>1, <3>2, <3>3 DEF Cut, Quiet
    <3>5. GoesOn(j, l) \/ Ended(j, l)  BY <1>2, <3>2, <3>4 DEF MixInv, WireInv, Neighbours
    <3>. QED  BY <2>1, <3>2, <3>5 DEF GoesOn, Ended
  <2>3. LastByte'
    <3>. SUFFICES ASSUME NEW j \in 1..(n + 1), Cut(j)', Quiet(j, n + 2)'
                  PROVE  Ended(j, n + 2)' \/ \E t \in Threads : Going(j, t)'
      <4>1. Len(wire') + 1 = n + 2  BY <1>4, <2>1
      <4>. QED  BY <2>1, <4>1 DEF LastByte, Quiet, Ended
    <3>1. j # n + 1  BY <1>3, <2>1 DEF Cut
    <3>2. j \in 1..n  BY <1>4, <3>1
    <3>3. \A m \in (j + 1)..n : m \in (j + 1)..(n + 2 - 1) /\ m \in 1..n  BY <1>4, <3>2
    <3>4. Cut(j) /\ Quiet(j, n + 1)
      BY <1>4, <2>1, <3>2, <3>3 DEF Cut, Quiet
    <3>5. wire[j].k \in Nat /\ wire'[j] = wire[j]  BY <1>5, <2>1, <3>2
    <3>6. CASE Ended(j, n + 1)
      <4>1. (n + 2) - j - 1 >= SmsLen - wire'[j].k  BY <1>4, <3>2, <3>5, <3>6 DEF Ended
      <4>2. Ended(j, n + 2)'  BY <4>1 DEF Ended
      <4>. QED  BY <4>2
    <3>7. ASSUME NEW t \in Threads, Going(j, t)  PROVE Going(j, t)'
      <4>1. n - j >= no[t] - wire[j].k /\ no[t] \in Nat  BY <1>2, <3>7 DEF Going, MixInv, Inv, TypeOK
      <4>2. Len(wire') - j >= no'[t] - wire'[j].k  BY <1>4, <1>6, <2>1, <3>2, <3>5, <4>1
      <4>. QED  BY <1>6, <2>1, <3>5, <3>7, <4>2 DEF Going
    <3>. QED  BY <1>2, <3>2, <3>4, <3>6, <3>7 DEF MixInv, WireInv, LastByte
  <2>. QED  BY <2>1, <2>2, <2>3 DEF WireInv
<1>8. CASE /\ wire # <<>> /\ \E t \in Threads : wire[Len(wire)].by = t
           /\ wire' = [wire EXCEPT ![Len(wire)] = e]
  <2>0. n >= 1 /\ n \in 1..n /\ wire[n].by # "haptic"
    BY <1>2, <1>4, <1>8, EmptySeq DEF Threads
  <2>1. /\ wire' \in Seq(WireByte) /\ Len(wire') = n /\ wire'[n] = e
        /\ \A j \in 1..n : j # n => wire'[j] = wire[j]
    BY <1>2, <1>3, <1>4, <1>8, <2>0, ExceptSeq
  <2>2. Neighbours'
    <3>. SUFFICES ASSUME NEW j \in 1..n, NEW l \in (j + 1)..n,
                         Cut(j)', wire'[l].by # "haptic", Quiet(j, l)'
                  PROVE  GoesOn(j, l)' \/ Ended(j, l)'
      BY <2>1 DEF Neighbours
    <3>1. l # n  BY <1>3, <2>1
    <3>2. j # n /\ l \in 1..n  BY <1>4
    <3>3. \A m \in (j + 1)..(l - 1) : m \in 1..n /\ m # n  BY <1>4
    <3>4. Cut(j) /\ wire[l].by # "haptic" /\ Quiet(j, l)
      BY <2>1, <3>1, <3>2, <3>3 DEF Cut, Quiet
    <3>5. GoesOn(j, l) \/ Ended(j, l)  BY <1>2, <3>4 DEF MixInv, WireInv, Neighbours
    <3>. QED  BY <2>1, <3>1, <3>2, <3>5 DEF GoesOn, Ended
  <2>3. LastByte'
    <3>. SUFFICES ASSUME NEW j \in 1..n, Cut(j)', Quiet(j, n + 1)'
                  PROVE  Ended(j, n + 1)' \/ \E t \in Threads : Going(j, t)'
      BY <2>1 DEF LastByte
    <3>1. j # n  BY <1>3, <2>1 DEF Cut
    <3>2. n \in (j + 1)..n /\ j \in Nat  BY <1>4, <3>1
    <3>3. \A m \in (j + 1)..(n - 1) : m \in 1..n /\ m # n /\ m \in (j + 1)..(n + 1 - 1)  BY <1>4
    <3>4. Cut(j) /\ Quiet(j, n)  BY <2>1, <3>1, <3>3 DEF Cut, Quiet
    <3>5. GoesOn(j, n) \/ Ended(j, n)  BY <1>2, <2>0, <3>2, <3>4 DEF MixInv, WireInv, Neighbours
    <3>6. wire[j].k \in Nat /\ wire[n].k \in Nat /\ wire'[j] = wire[j]  BY <1>5, <2>0, <2>1, <3>1
    <3>7. CASE Ended(j, n)
      <4>1. (n + 1) - j - 1 >= SmsLen - wire'[j].k  BY <1>4, <3>2, <3>6, <3>7, SMTT(30) DEF Ended
      <4>2. Ended(j, n + 1)'  BY <4>1 DEF Ended
      <4>. QED  BY <4>2
    <3>8. CASE GoesOn(j, n)
      <4>1. CASE wire[n].k >= SmsLen
        <5>1. (n + 1) - j - 1 >= SmsLen - wire'[j].k  BY <1>4, <3>2, <3>6, <3>8, <4>1, SMTT(30) DEF GoesOn
        <5>2. Ended(j, n + 1)'  BY <5>1 DEF Ended
        <5>. QED  BY <5>2
      <4>2. CASE wire[n].k < SmsLen
        <5>1. Cut(n)  BY <3>8, <4>2 DEF Cut, GoesOn
        <5>2. Quiet(n, n + 1)  BY <1>4 DEF Quiet
        <5>3. ~ Ended(n, n + 1)
          <6>1. (n + 1) - n - 1 = 0  BY <1>4
          <6>2. ~ (0 >= SmsLen - wire[n].k)  BY <1>4, <3>6, <4>2
          <6>. QED  BY <6>1, <6>2 DEF Ended
        <5>4. PICK t \in Threads : Going(n, t)
          BY <1>2, <2>0, <5>1, <5>2, <5>3 DEF MixInv, WireInv, LastByte
        <5>5. no[t] \in Nat  BY DEF MixInv, Inv, TypeOK
        <5>6. wire[n].k = no[t]
          <6>1. wire[n].k <= no[t] /\ n - n >= no[t] - wire[n].k  BY <1>2, <5>4 DEF Going
          <6>. QED  BY <1>4, <3>6, <5>5, <6>1
        <5>7. n - j >= no[t] - wire[j].k /\ wire[j].k <= no[t]
          BY <1>4, <3>2, <3>6, <3>8, <5>5, <5>6 DEF GoesOn
        <5>8. Going(j, t)'  BY <1>6, <2>1, <3>6, <3>8, <5>4, <5>7 DEF Going, GoesOn
        <5>. QED  BY <5>8
      <4>. QED  BY <1>4, <3>6, <4>1, <4>2
    <3>. QED  BY <3>5, <3>7, <3>8
  <2>. QED  BY <2>1, <2>2, <2>3 DEF WireInv
<1>. QED  BY <1>1, <1>7, <1>8 DEF Log

\* Every step of HAL_UART_Transmit.
LEMMA TransmitMix ==
    ASSUME MixInv, NEW t \in Threads, HAL_UART_Transmit(t)
    PROVE  WireInv' /\ OneCall'
<1>1. WireInv /\ OneCall /\ Inv /\ pc \in [Threads -> {"sleep", "enter", "lock", "locked", "busy", "send", "sent", "unlock"}]
      /\ calls \in [Threads -> Seq(Records)] /\ no \in [Threads -> Nat]
  BY DEF MixInv, Inv, TypeOK, Records
<1>2. ASSUME pc[t] # "send", pc[t] # "sleep", UNCHANGED <<wire, jobs>>,
             \/ \E result : Return(t, result)
             \/ UNCHANGED <<calls, no>> /\ \E label : Goto(t, label)
      PROVE  WireInv' /\ OneCall'
  <2>1. /\ \A u \in Threads \ {t} : pc'[u] = pc[u] /\ calls'[u] = calls[u] /\ no'[u] = no[u]
        /\ OneCall'
    <3>1. CASE \E result : Return(t, result)  BY <1>1, <1>2, <3>1, ReturnOneCall DEF Return
    <3>2. CASE UNCHANGED <<calls, no>> /\ \E label : Goto(t, label)  BY <1>1, <3>2 DEF Goto, OneCall
    <3>. QED  BY <1>2, <3>1, <3>2
  <2>. QED  BY <1>1, <1>2, <2>1, SameWire
<1>3. CASE Enter(t)  BY <1>2, <1>3 DEF Enter
<1>4. CASE TestLock(t)  BY <1>2, <1>4 DEF TestLock
<1>5. CASE SetLock(t)  BY <1>2, <1>5 DEF SetLock
<1>6. CASE SetBusy(t)  BY <1>2, <1>6 DEF SetBusy
<1>7. CASE Send(t)
  <2>1. UNCHANGED calls  BY <1>7 DEF Send
  <2>. QED  BY <1>1, <1>7, <2>1, SendWire DEF OneCall
<1>8. CASE SetReady(t)  BY <1>2, <1>8 DEF SetReady
<1>9. CASE Unlock(t)  BY <1>2, <1>9 DEF Unlock
<1>. QED  BY <1>3, <1>4, <1>5, <1>6, <1>7, <1>8, <1>9 DEF HAL_UART_Transmit

LEMMA MixNext == MixInv /\ [Next]_vars => MixInv'
<1>. SUFFICES ASSUME MixInv, [Next]_vars  PROVE WireInv' /\ OneCall'
  BY NextInv DEF MixInv
<1>1. WireInv /\ OneCall /\ Inv /\ pc \in [Threads -> {"sleep", "enter", "lock", "locked", "busy", "send", "sent", "unlock"}]
      /\ calls \in [Threads -> Seq(Records)] /\ no \in [Threads -> Nat] /\ jobs \in [Threads -> 0..MaxJobs]
  BY DEF MixInv, Inv, TypeOK, Records
<1>2. CASE Running  BY <1>2, TransmitMix DEF Running
<1>3. ASSUME NEW t \in Threads, Wake(t)  PROVE WireInv' /\ OneCall'
  <2>1. /\ \A u \in Threads \ {t} : /\ pc'[u] = pc[u] /\ calls'[u] = calls[u]
                                     /\ no'[u] = no[u] /\ jobs'[u] = jobs[u]
        /\ pc[t] = "sleep" /\ calls'[t] = Job(t) /\ UNCHANGED wire
    BY <1>1, <1>3 DEF Wake
  <2>2. WireInv'  BY <1>1, <2>1, SameWire
  <2>3. ASSUME NEW u \in Threads, NEW q \in 1..Len(calls'[u]), calls'[u][q].msg = "sms"
        PROVE  calls'[u][q].first = 1 /\ calls'[u][q].last = SmsLen
    <3>1. CASE u = t  BY <2>1, <2>3, <3>1, JobOneCall
    <3>2. CASE u # t  BY <1>1, <2>1, <2>3, <3>2 DEF OneCall
    <3>. QED  BY <3>1, <3>2
  <2>4. OneCall'  BY <2>3 DEF OneCall
  <2>. QED  BY <2>2, <2>4
<1>4. CASE Log
  <2>1. UNCHANGED calls  BY <1>4 DEF Log
  <2>. QED  BY <1>1, <1>4, <2>1, LogWire DEF OneCall
<1>5. CASE RxCplt \/ UNCHANGED vars
  <2>1. UNCHANGED <<pc, calls, no, jobs, wire>>  BY <1>5 DEF RxCplt, vars, tx
  <2>. QED  BY <1>1, <2>1, SameWire DEF OneCall
<1>. QED  BY <1>2, <1>3, <1>4, <1>5 DEF Next

\* No byte of another message gets into an SMS of Send_String, however long it
\* is and however often the threads wake up: between two of its bytes there is
\* console output only, and an SMS whose end is missing was overwritten by at
\* least as many console bytes.
THEOREM Uart1SmsNotMixed == Spec => []SmsNotMixed
<1>1. Init => MixInv
  <2>. SUFFICES ASSUME Init  PROVE MixInv  OBVIOUS
  <2>1. wire = <<>> /\ Len(wire) = 0 /\ wire \in Seq(WireByte)
        /\ \A t \in Threads : calls[t] = <<>> /\ Len(calls[t]) = 0
    BY DEF Init
  <2>2. \A j \in 1..0 : FALSE  OBVIOUS
  <2>3. WireInv /\ OneCall  BY <2>1, <2>2 DEF WireInv, Neighbours, LastByte, OneCall
  <2>. QED  BY <2>3, InitInv DEF MixInv
<1>2. MixInv => SmsNotMixed
  <2>. SUFFICES ASSUME MixInv, NEW j \in 1..Len(wire), NEW l \in (j + 1)..Len(wire),
                       wire[j].msg = "sms", wire[j].k < SmsLen, wire[l].by # "haptic",
                       \A m \in (j + 1)..(l - 1) : wire[m].by = "haptic"
                PROVE  \/ /\ <<wire[l].by, wire[l].msg, wire[l].job>> = <<wire[j].by, "sms", wire[j].job>>
                          /\ wire[l].k > wire[j].k
                       \/ l - j - 1 >= SmsLen - wire[j].k
    BY DEF SmsNotMixed
  <2>1. GoesOn(j, l) \/ Ended(j, l)  BY DEF MixInv, WireInv, Neighbours, Cut, Quiet
  <2>. QED  BY <2>1 DEF GoesOn, Ended
<1>. QED  BY <1>1, <1>2, MixNext, PTL DEF Spec
=============================================================================
