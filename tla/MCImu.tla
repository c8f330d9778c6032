------------------------------- MODULE MCImu -------------------------------
(* Imu with short frames and few bytes.                                    *)
EXTENDS Imu

MCByte == 0..2
MCTypeOf == [b \in MCByte |-> CASE b = 0 -> "WIT_ACC" [] b = 1 -> "WIT_GYRO" [] b = 2 -> "unknown"]
=============================================================================
