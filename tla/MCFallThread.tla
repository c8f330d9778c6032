---------------------------- MODULE MCFallThread ----------------------------
(* FallThread with a few samples: at rest, a turn, a fall, full scale.      *)
EXTENDS FallThread

Vec(x, y, z) == <<x, y, z>>
MCAcc == {Vec(0, 0, 1), Vec(-16, 15, 15), Vec(-16, -16, -16)}
MCGyro == {Vec(0, 0, 0), Vec(-20, 19, -20), Vec(-20, -20, -20)}
=============================================================================
