--------------------------- MODULE MCEncoderReader ----------------------------
(* EncoderReader on small instances.                                         *)
EXTENDS EncoderReader

CONSTANTS owner, user, loop

\* The owner starts, stops, calibrates and destroys; the user reads and calibrates.
MCApplications ==
    {[c \in Callers |-> IF c = owner THEN {"initialize", "start", "stop", "destroy", "calibrate"}
                                     ELSE {"calibrate", "set_calibration", "get_angles"}]}

\* The owner may start, stop and start or destroy.
MCMaxCalls == [c \in Callers |-> IF c = owner THEN 3 ELSE 1]

\* Both ends of the scale.
MCPoses == {100, 65000}
===============================================================================
