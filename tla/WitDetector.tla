---------------------------- MODULE WitDetector ----------------------------
(***************************************************************************)
(* What the WT61C byte parser promises: it looks at the last FrameLen      *)
(* bytes of the stream through a sliding window that starts afresh behind  *)
(* every frame found, and finds a frame exactly when the window shows one. *)
(* No frame is missed because of bytes lost or garbled before it.          *)
(***************************************************************************)
EXTENDS Naturals, Sequences

CONSTANTS
    Byte,       \* the bytes of the stream
    FrameLen,   \* length of a frame
    Valid(_)    \* is this sequence of FrameLen bytes a frame?

VARIABLES
    window,     \* the last bytes since the last frame, less than FrameLen
    found       \* the frame found last, <<>> before the first

Init == window = <<>> /\ found = <<>>

\* The window moves on by one byte.
Slide(w) == IF Len(w) = FrameLen THEN Tail(w) ELSE w

\* One more byte of the stream.
Input(b) ==
    LET w == Append(window, b) IN
    \/ /\ Len(w) = FrameLen /\ Valid(w)
       /\ found' = w /\ window' = <<>>
    \/ /\ ~ (Len(w) = FrameLen /\ Valid(w))
       /\ window' = Slide(w) /\ UNCHANGED found

Next == \E b \in Byte : Input(b)
Spec == Init /\ [][Next]_<<window, found>>
=============================================================================
