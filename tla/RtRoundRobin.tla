---------------------------- MODULE RtRoundRobin ----------------------------
(***************************************************************************)
(* Threads of equal priority that compute and now and then yield: the      *)
(* processor goes round among them by rt_thread_yield and by the end of    *)
(* their time slices in the tick interrupt (RtThread).                     *)
(***************************************************************************)
EXTENDS RtThread

\* All threads but the idle one have the same priority.
EqualBase == [t \in Thread |-> IF t = Idle THEN 1 ELSE 0]

Next == SysTick \/ \E t \in Thread \ {Idle} : rt_thread_yield(t)

\* The tick interrupt comes again and again.
Spec == KernelInit /\ [][Next]_kernelVars /\ WF_kernelVars(SysTick)

\* A thread whose time slice is used up goes behind the others of its priority
\* ("there is no time slices left(YIELD), inserting thread before ready list"
\* in rt_schedule_insert_thread), so that every ready thread gets its turn.
TurnComes == \A t \in Thread \ {Idle} : stat[t] = "READY" ~> rt_current_thread = t
=============================================================================
