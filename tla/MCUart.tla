-------------------------------- MODULE MCUart --------------------------------
(* Uart for TLC: a ring of two, a character time of two clocks, and enough    *)
(* bytes to fill the ring, wrap it and drop one.                              *)
EXTENDS Uart
===============================================================================
