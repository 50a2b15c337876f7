------------------------------ MODULE MCGloveSDK ------------------------------
(* GloveSDK on small instances.                                               *)
EXTENDS GloveSDK

CONSTANTS c1, c2

\* An application: what the first client calls, and what the others call.
App(first, others) == [c \in Clients |-> IF c = c1 THEN first ELSE others]

\* One thread owns the SDK and calls everything, as the examples do; or every
\* thread brings it up and down, with the two methods that take the mutex.
Owned  == App(Methods, {})
Shared == App({"initialize", "shutdown"}, {"initialize", "shutdown"})

MCApplications == {Owned, Shared}

\* The example of the reference manual, "safe to call from multiple threads",
\* with one of the threads that shuts the SDK down.
MCUseAndShutdown == {App({"initialize", "shutdown"}, {"use"})}

\* Two threads that start the update loop.
MCConcurrentStart == {App({"initialize", "start"}, {"start"})}
===============================================================================
