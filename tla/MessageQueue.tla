--------------------------- MODULE MessageQueue ---------------------------
(***************************************************************************)
(* What a message queue promises its callers: a bounded queue.  A message  *)
(* goes in at the end, an urgent one at the front; whoever receives gets   *)
(* the first one, whole and once.                                          *)
(***************************************************************************)
EXTENDS Naturals, Sequences

CONSTANTS
    Client,      \* who receives
    Msg,         \* the messages, some of which are
    Urgent,      \* urgent
    NoMsg,       \* content of a buffer nothing was received into
    MaxMsgs      \* capacity

VARIABLES
    queue,       \* the messages, first to last
    got          \* client -> what it received last, NoMsg while it does not receive

Init == queue = <<>> /\ got = [c \in Client |-> NoMsg]

Put(m) == m \notin Urgent /\ Len(queue) < MaxMsgs /\ queue' = Append(queue, m) /\ UNCHANGED got

PutUrgent(m) == m \in Urgent /\ Len(queue) < MaxMsgs /\ queue' = <<m>> \o queue /\ UNCHANGED got

Get(c) ==
    /\ queue # <<>> /\ got[c] = NoMsg
    /\ got' = [got EXCEPT ![c] = Head(queue)]
    /\ queue' = Tail(queue)

\* The client has used the message.
Done(c) == got[c] # NoMsg /\ got' = [got EXCEPT ![c] = NoMsg] /\ UNCHANGED queue

Next ==
    \/ \E m \in Msg : Put(m) \/ PutUrgent(m)
    \/ \E c \in Client : Get(c) \/ Done(c)

Spec == Init /\ [][Next]_<<queue, got>>
=============================================================================
