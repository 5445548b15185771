---------------------------- MODULE MCInterrupts ----------------------------
(* Interrupts for TLC: a firmware that uses one source of each kind -- INT0,  *)
(* whose flag the firmware clears, and T0 and SER, whose request the vector   *)
(* clears -- enables all of them or none, and gives high priority to none or  *)
(* to the first and the last polled.                                          *)
EXTENDS Interrupts

MCIeValues == { {}, {"INT0", "T0", "SER"} }
MCIpValues == { {}, {"INT0", "SER"} }
MCScales == {1, 2}
MCOpReturns == {0, 2}
=============================================================================
