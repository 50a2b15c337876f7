----------------------------- MODULE MCImuReader -----------------------------
(* ImuReader on small instances.                                             *)
EXTENDS ImuReader

CONSTANTS loop, c1, c2

\* A yaw the IMU may measure and one that only a damaged frame holds.
MCYaws == {10, 1000}

\* A zero a little less than a turn above the first.
MCOffsets == {350}
=============================================================================
