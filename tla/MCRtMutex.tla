----------------------------- MODULE MCRtMutex -----------------------------
(* RtMutex with three threads, the idle thread and two mutexes: high       *)
(* shares m1 with low, mid gets in between, low nests m1 and m2.           *)
EXTENDS RtMutex

CONSTANTS high, mid, low, idle, m1, m2

MCThread == {high, mid, low, idle}
MCIdle == idle
MCMutex == {m1, m2}
MCUses == [t \in MCThread |-> CASE t = low -> {m1, m2} [] t = high -> {m1} [] OTHER -> {}]
MCBase == [t \in MCThread |-> CASE t = high -> 0 [] t = mid -> 1 [] t = low -> 2 [] t = idle -> 3]
=============================================================================
