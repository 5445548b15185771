------------------------------- MODULE Debugger -------------------------------
(***************************************************************************)
(* The debugger of debug.c over a running core: breakpoints, watchpoints   *)
(* that compare a byte with its shadow, and the kinds of step.             *)
(*                                                                         *)
(* The core is what the debugger can see of one: where the program counter *)
(* is, how high the stack, one watched byte.  Its firmware is any that     *)
(* balances its stack; where an opcode leads and what it stores are left   *)
(* open.  `frames` holds, for every call and interrupt under way, the      *)
(* stack pointer it was entered with.                                      *)
(***************************************************************************)
EXTENDS Integers, Sequences, FiniteSetsExt

CONSTANTS
  Slot,      \* 1 .. DBG_MAX_BP
  Place,     \* code addresses told apart
  Entry,     \* where a reset starts
  Handler,   \* where the interrupt vectors
  Value,     \* of the watched byte
  Zero,      \* its value after a reset that clears it
  MaxSP,     \* bound: how far the stack pointer rises
  MaxId,     \* bound: breakpoints set in all
  MaxCount   \* bound: steps asked for at once

ASSUME CodeAssumption == Entry \in Place /\ Handler \in Place
ASSUME ValueAssumption == Zero \in Value
ASSUME SlotAssumption == Slot \subseteq Nat
ASSUME BoundsAssumption == MaxSP \in Nat /\ MaxId \in Nat /\ MaxCount \in Nat \ {0}

StepKind == {"insn", "block", "over", "out", "cycle"}

VARIABLES
  pc, sp, frames,
  isr,        \* the depth of the service routine under way, or 0
  busy,       \* mTickDelay: the next clock ends no instruction
  byte,       \* the watched byte, which is also the state of the one task
  state,      \* "halted" or "running"
  bps,        \* the breakpoint in each slot, with its watch_shadow
  next_bp_id,
  step_kind, step_count, step_entry_sp,
  tasks,      \* the symbol table names a task
  step_task_state,
  last_halt,  \* its cause and bp_id
  limit,      \* history: the depth at which the step asked for may end at most
  touched     \* history: slots whose byte has changed since shadow and byte agreed

core == << pc, sp, frames, isr, busy, byte >>
step == << step_kind, step_count, step_entry_sp, step_task_state >>
vars == << core, state, bps, next_bp_id, step, tasks, last_halt, limit, touched >>

Free == [kind |-> "none", id |-> 0, at |-> Entry, shadow |-> Zero]
Report(cause, id) == [cause |-> cause, bp_id |-> id]
NoBp == -1
Never == -1       \* no depth: nothing was stepped
Anywhere == MaxSP \* deeper than any stack

Init ==
  /\ pc = Entry /\ sp = 0 /\ frames = << >> /\ isr = 0 /\ busy = FALSE /\ byte = Zero
  /\ state = "halted" /\ bps = [i \in Slot |-> Free] /\ next_bp_id = 1
  /\ step_kind = "insn" /\ step_count = 0 /\ step_entry_sp = 0
  /\ tasks = FALSE /\ step_task_state = Zero
  /\ last_halt = Report("bp", 0)  \* zeroed, as dbg_init leaves it
  /\ limit = Never /\ touched = {}

-------------------------------------------------------------------------------
(* One clock of the core: tick() and stc12_tick() *)

Depth == Len(frames)
\* The stack pointer when nothing is pushed above the innermost frame.
Base == IF frames = << >> THEN 0 ELSE frames[Depth] + 2

\* CALL and the interrupt push a return address, PUSH a byte.
Enter ==
  /\ sp + 2 <= MaxSP
  /\ frames' = Append(frames, sp)
  /\ sp' = sp + 2

Leave ==
  /\ frames # << >> /\ sp = Base
  /\ frames' = SubSeq(frames, 1, Depth - 1)
  /\ sp' = frames[Depth]

\* An opcode, or a clock of PCON.IDL, which ends like an opcode that leads nowhere.
Opcode ==
  /\ pc' \in Place
  /\ busy' \in BOOLEAN
  /\ \/ UNCHANGED << sp, frames, isr >>
     \/ Enter /\ UNCHANGED isr                                    \* CALL
     \/ Depth # isr /\ Leave /\ UNCHANGED isr                     \* RET
     \/ Depth = isr /\ Leave /\ isr' = 0                          \* RETI
     \/ sp < MaxSP /\ sp' = sp + 1 /\ UNCHANGED << frames, isr >> \* PUSH
     \/ sp > Base /\ sp' = sp - 1 /\ UNCHANGED << frames, isr >>  \* POP

\* A clock that ends no instruction, as tick() reports it: the second of an opcode
\* or of a vector, and the one that takes an interrupt.
Inside ==
  \/ busy /\ busy' = FALSE /\ UNCHANGED << pc, sp, frames, isr >>
  \/ ~busy /\ isr = 0 /\ Enter /\ isr' = Depth + 1 /\ pc' = Handler /\ busy' = TRUE

\* The byte may change on any clock: an opcode stores it, or a peripheral does.
Clock(ends) ==
  /\ IF ends THEN ~busy /\ Opcode ELSE Inside
  /\ byte' \in Value

\* The slots that may differ from the byte on good grounds.
Touched == IF byte' = byte THEN touched ELSE Slot

-------------------------------------------------------------------------------
(* dbg_tick *)

Hit(bp, p, v) ==
  \/ bp.kind = "code" /\ bp.at = p
  \/ bp.kind = "write" /\ bp.shadow # v
\* slip: the scan leaves the loop at the first slot that is not active
HitsToFirstFree(p, v) ==
  {i \in Slot : Hit(bps[i], p, v) /\ \A j \in Slot : j < i => bps[j].kind # "none"}
Hits(p, v) == {i \in Slot : Hit(bps[i], p, v)}

Halt(cause, id) == state' = "halted" /\ last_halt' = Report(cause, id)

\* slip: a cycle step that is over keeps counting
CycleSteppingByKind == step_kind = "cycle"
CycleStepping == step_count > 0 /\ step_kind = "cycle"

\* A cycle step counts clocks, and looks at nothing else.
CycleTick ==
  /\ step_count' = step_count - 1
  /\ IF step_count = 1 THEN Halt("step", NoBp) ELSE UNCHANGED << state, last_halt >>
  /\ UNCHANGED << bps, step_task_state >>
  /\ touched' = Touched

\* The first slot that is hit halts the target; of watchpoints, only its shadow is
\* brought up to date.
Resync(i) ==
  IF bps[i].kind = "write" THEN [bps EXCEPT ![i].shadow = byte'] ELSE bps
Synced(i) == IF bps[i].kind = "write" THEN {i} ELSE {}
HitTick(hits) ==
  LET i == Min(hits) IN
  /\ Halt("bp", bps[i].id)
  /\ bps' = Resync(i)
  /\ touched' = Touched \ Synced(i)
  /\ UNCHANGED << step_count, step_task_state >>

\* A step of several tasks' blocks ends with the first; the others count down.
ByTask == step_kind = "block" /\ tasks
OverAt == sp' <= step_entry_sp
OutAtEntry == sp' <= step_entry_sp  \* slip: <= where the code has <
OutAt == sp' < step_entry_sp
StepCounts ==
  CASE step_kind = "over" -> OverAt
    [] step_kind = "out" -> OutAt
    [] OTHER -> ByTask => byte' # step_task_state
StepTick ==
  /\ step_count' = IF StepCounts /\ ~ByTask THEN step_count - 1 ELSE step_count
  /\ step_task_state' = IF StepCounts /\ ByTask THEN byte' ELSE step_task_state
  /\ IF StepCounts /\ (ByTask \/ step_count = 1)
       THEN Halt("step", NoBp) ELSE UNCHANGED << state, last_halt >>

DbgTick ==
  /\ state = "running"
  /\ \E ends \in BOOLEAN :
       /\ Clock(ends)
       /\ \/ /\ CycleStepping
             /\ CycleTick
          \/ /\ ~CycleStepping
             /\ ends /\ Hits(pc', byte') # {}
             /\ HitTick(Hits(pc', byte'))
          \/ /\ ~CycleStepping
             /\ ends => Hits(pc', byte') = {}
             /\ IF ends /\ step_count > 0
                  THEN StepTick ELSE UNCHANGED << step_count, step_task_state, state, last_halt >>
             /\ UNCHANGED bps
             /\ touched' = Touched
  /\ UNCHANGED << next_bp_id, step_kind, step_entry_sp, tasks, limit >>

-------------------------------------------------------------------------------
(* The front end *)

\* One step over ends no deeper than it began; one step out of a frame with nothing
\* pushed above it ends outside that frame.
Promise(kind, count) ==
  CASE kind = "over" /\ count = 1 -> Depth
    [] kind = "out" /\ count = 1 /\ sp = Base -> Depth - 1
    [] OTHER -> Anywhere

DbgRun ==
  /\ state' = "running"
  /\ step_count' = 0
  /\ limit' = Never
  /\ UNCHANGED << core, bps, next_bp_id, step_kind, step_entry_sp, step_task_state,
                  tasks, last_halt, touched >>

DbgHalt ==
  /\ state = "running"
  /\ Halt("user", NoBp)
  /\ UNCHANGED << core, bps, next_bp_id, step, tasks, limit, touched >>

DbgStep(kind, count) ==
  /\ state' = "running"
  /\ step_kind' = kind /\ step_count' = count /\ step_entry_sp' = sp
  /\ step_task_state' = IF kind = "block" /\ tasks THEN byte ELSE step_task_state
  /\ limit' = Promise(kind, count)
  /\ UNCHANGED << core, bps, next_bp_id, tasks, last_halt, touched >>

\* emu_dbg_set_bp_code, _yield and _write: the first free slot, and a new handle.
SlotHandle(i) == i  \* slip: the slot's number for a handle
NewHandle(i) == next_bp_id
FreeSlots == {i \in Slot : bps[i].kind = "none"}
SetBreakpoint(kind, p) ==
  /\ FreeSlots # {} /\ next_bp_id <= MaxId
  /\ LET i == Min(FreeSlots) IN
     /\ bps' = [bps EXCEPT ![i] =
                  [kind |-> kind, id |-> NewHandle(i), at |-> p,
                   shadow |-> IF kind = "write" THEN byte ELSE Zero]]
     /\ touched' = touched \ {i}
  /\ next_bp_id' = next_bp_id + 1
  /\ UNCHANGED << core, state, step, tasks, last_halt, limit >>

ClearBreakpoint(handle) ==
  /\ \E i \in Slot :
       /\ bps[i].kind # "none" /\ bps[i].id = handle
       /\ bps' = [bps EXCEPT ![i] = Free]
  /\ UNCHANGED << core, state, next_bp_id, step, tasks, last_halt, limit, touched >>

\* emu_dbg_write_mem.
WriteMem ==
  /\ byte' \in Value \ {byte}
  /\ touched' = Slot
  /\ UNCHANGED << pc, sp, frames, isr, busy, state, bps, next_bp_id, step, tasks,
                  last_halt, limit >>

\* emu_dbg_set_task: the symbols may come while a step is under way.
SetTask ==
  /\ ~tasks /\ tasks' = TRUE
  /\ UNCHANGED << core, state, bps, next_bp_id, step, last_halt, limit, touched >>

\* A warm reset clears the special function registers and leaves the memories alone.
NotReseeded(v) == bps  \* slip: the shadows stay as they were before the reset
Reseeded(v) ==
  [i \in Slot |-> IF bps[i].kind = "write" THEN [bps[i] EXCEPT !.shadow = v] ELSE bps[i]]
DbgReset ==
  /\ pc' = Entry /\ sp' = 0 /\ frames' = << >> /\ isr' = 0 /\ busy' = FALSE
  /\ byte' \in {byte, Zero}
  /\ Halt("reset", NoBp)
  /\ step_count' = 0
  /\ bps' = Reseeded(byte')
  /\ touched' = {}
  /\ UNCHANGED << next_bp_id, step_kind, step_entry_sp, step_task_state, tasks, limit >>

\* The host may run a halted machine without the debugger (emu_tick, emu_run).
EmuTick ==
  /\ state = "halted"
  /\ \E ends \in BOOLEAN : Clock(ends)
  /\ touched' = Touched
  /\ UNCHANGED << state, bps, next_bp_id, step, tasks, last_halt, limit >>

Next ==
  \/ DbgTick \/ EmuTick \/ DbgRun \/ DbgHalt \/ DbgReset \/ WriteMem \/ SetTask
  \/ \E kind \in StepKind, count \in 1..MaxCount : DbgStep(kind, count)
  \/ \E p \in Place : SetBreakpoint("code", p)
  \/ SetBreakpoint("write", Entry)
  \/ \E handle \in 1..MaxId : ClearBreakpoint(handle)

Spec == Init /\ [][Next]_vars

-------------------------------------------------------------------------------
(* Properties *)

Breakpoint ==
  [kind: {"none", "code", "write"}, id: 0..MaxId, at: Place, shadow: Value]

TypeOK ==
  /\ pc \in Place /\ sp \in 0..MaxSP /\ frames \in Seq(0..MaxSP)
  /\ isr \in 0..Depth /\ busy \in BOOLEAN /\ byte \in Value
  /\ state \in {"halted", "running"}
  /\ bps \in [Slot -> Breakpoint] /\ next_bp_id \in 1 .. MaxId + 1
  /\ step_kind \in StepKind /\ step_count \in 0..MaxCount /\ step_entry_sp \in 0..MaxSP
  /\ tasks \in BOOLEAN /\ step_task_state \in Value
  /\ last_halt \in [cause: {"bp", "step", "user", "reset"}, bp_id: NoBp..MaxId]
  /\ limit \in Never..Anywhere /\ touched \subseteq Slot

\* A handle names one breakpoint for ever: cleared, it is not given out again, so
\* that a stale handle clears nothing of anyone else's.
Active(handle) == \E i \in Slot : bps[i].kind # "none" /\ bps[i].id = handle
HandlesNotReused ==
  [][\A h \in 1 .. next_bp_id - 1 : ~Active(h) => ~Active(h)']_vars

\* A step ends where it was asked to: a step over not inside what it stepped over,
\* interrupts and recursion included, a step out not inside the frame it leaves,
\* and no step ends a plain run.
EndsStep == state = "running" /\ state' = "halted" /\ last_halt'.cause = "step"
StepEndsInBounds == [][EndsStep => Len(frames') <= limit]_vars

\* A watchpoint differs from its shadow only if the byte has moved since it was set,
\* reported or reset: no reset and no other breakpoint makes it fire.
WatchHasCause ==
  \A i \in Slot : bps[i].kind = "write" /\ bps[i].shadow # byte => i \in touched

\* A run passes no breakpoint at an instruction boundary: with every slot scanned
\* and one hit, the target halts, and says which.
Vectors == isr = 0 /\ isr' # 0
PassesNoBreakpoint ==
  [][DbgTick /\ state' = "running" /\ ~busy /\ ~Vectors
       => CycleStepping \/ \A i \in Slot : ~Hit(bps[i], pc', byte')]_vars
===============================================================================
