------------------------------ MODULE MCPolling -------------------------------
(* Polling on small instances.                                               *)
EXTENDS Polling, TLC

CONSTANTS t1, t2

Calls(a, b) == (t1 :> a) @@ (t2 :> b)
MCApplications ==
    [calls : {Calls({m}, {}) : m \in Methods} \cup {Calls({"update", "calibrate"}, {})},
     in_step : {TRUE}]
    \cup
    [calls : {Calls({"initialize"}, {}), Calls({"update"}, {}),
              Calls({"calibrate"}, {"get_status"}), Calls({"set"}, {"get_status"})},
     in_step : {FALSE}]
===============================================================================
