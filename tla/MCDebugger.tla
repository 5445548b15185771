------------------------------ MODULE MCDebugger ------------------------------
(* Debugger for TLC: two slots, an address of the main program and that of    *)
(* the handler, a byte of two values.                                         *)
EXTENDS Debugger

\* The last report is written and not read.  Of a step that is over only its kind and
\* count could matter, if the code forgot that it is over.  Only a watchpoint has a
\* shadow to be touched.
Stepping == state = "running" /\ step_count > 0
LiveState ==
  << core, state, bps, next_bp_id, tasks, step_count,
     {i \in touched : bps[i].kind = "write"},
     IF Stepping THEN << step_kind, limit >> ELSE << step_kind = "cycle", limit = Never >>,
     IF Stepping /\ step_kind \in {"over", "out"} THEN step_entry_sp ELSE 0,
     IF Stepping /\ step_kind = "block" THEN step_task_state ELSE Zero >>
===============================================================================
