------------------------------ MODULE MCIdleSkip ------------------------------
(* IdleSkip for TLC: slices of one clock, of less than an idle period and of   *)
(* several, and main loops that idle at once, between work, with Timer 1       *)
(* running across the idle, and with Timer 1 measured after it.                *)
EXTENDS IdleSkip

MCReloads == {0, 5}
MCSlices == {2, 30}
MCMainLoops == {
  << "idle" >>,
  << "idle", "work" >>,
  << "t1on", "idle", "t1off", "t1clr", "idle" >>,
  << "idle", "t1on", "work", "work", "t1off", "t1clr" >> }
===============================================================================
