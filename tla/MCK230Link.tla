----------------------------- MODULE MCK230Link -----------------------------
(* K230Link with a few frames; 65 to 71 are text, 1 and 2 coordinates.      *)
EXTENDS K230Link

MCByte == {1, 2, 163, 179, 90, 195} \union 65..71
\* Texts of at least three bytes whose third byte is not 0x5a.
LongTexts == {<<65, 66, 67>>, <<68, 69, 70, 71>>}
MCObjects == {<<1, 2>>}
=============================================================================
