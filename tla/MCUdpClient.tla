----------------------------- MODULE MCUdpClient -----------------------------
(* UdpClient on small instances.                                             *)
EXTENDS UdpTransport

CONSTANTS t1, t2
=============================================================================
