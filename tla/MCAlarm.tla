------------------------------ MODULE MCAlarm ------------------------------
(* Alarm with two samples, one of them a fall.                              *)
EXTENDS Alarm

MCAcc == {<<-16, -16, -16>>}
MCGyro == {<<0, 0, 0>>, <<-20, -20, -20>>}
=============================================================================
