---------------------------- MODULE MCK230Parser ----------------------------
(* K230Parser on every stream over the four bytes the parser tells apart.   *)
EXTENDS K230Parser

MCByte == {163, 179, 90, 195}
=============================================================================
