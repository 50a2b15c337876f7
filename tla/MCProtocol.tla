------------------------------ MODULE MCProtocol ------------------------------
(* Protocol with the values of the document's examples, and samples whose     *)
(* bytes meet the frames' own marks.                                          *)
EXTENDS Protocol

AllDamages  == 1..255
MCWords     == {500, 1000, 2048}
\* 322 = 0x0142; 32341 = 0x7E55 ends a shortened frame in a tail byte;
\* 21930 = 0x55AA begins a sensor's body like a motor packet.
MCSamples   == {322, 32341, 21930}
=============================================================================
