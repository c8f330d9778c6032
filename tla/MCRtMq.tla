------------------------------- MODULE MCRtMq -------------------------------
(* RtMq with two threads, the idle thread and two slots.                   *)
EXTENDS RtMq

CONSTANTS high, low, idle

MCThread == {high, low, idle}
MCIdle == idle
MCBase == [t \in MCThread |-> CASE t = high -> 0 [] t = low -> 1 [] t = idle -> 2]
MCCalls == [t \in MCThread |-> CASE t = high -> {"send", "recv"} [] t = low -> {"recv", "urgent"}
                                [] t = idle -> {}]
MCObject == {Receivers, Senders}
=============================================================================
