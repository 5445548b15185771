---------------------------- MODULE DebuggerProofs ----------------------------
(***************************************************************************)
(* Proofs about Debugger: that steps end in bounds, that no breakpoint is  *)
(* passed and no watchpoint halts without cause, and that handles are      *)
(* given once, for every number of slots, depth of stack and firmware.     *)
(***************************************************************************)
EXTENDS Debugger, SequenceTheorems, WellFoundedInduction, TLAPS

USE CodeAssumption, ValueAssumption, SlotAssumption, BoundsAssumption

\* The scan of the slots comes to a first one that is hit.
LEMMA FirstSlot ==
  ASSUME NEW S \in SUBSET Slot, S # {}
  PROVE  Min(S) \in S
<1>1. \E x \in S : \A y \in S : ~(<< y, x >> \in OpToRel(<, Nat))
  BY NatLessThanWellFounded, WFMin, S \subseteq Nat
<1>2. PICK x \in S : \A y \in S : ~(<< y, x >> \in OpToRel(<, Nat)) BY <1>1
<1>3. \A y \in Nat, z \in Nat : y < z => << y, z >> \in OpToRel(<, Nat) BY Zenon DEF OpToRel
<1>4. \A y \in S : ~(y < x) BY <1>2, <1>3, S \subseteq Nat, Zenon
<1>5. \A y \in S : x =< y BY <1>4, S \subseteq Nat
<1> QED BY <1>5, Zenon DEF Min

-------------------------------------------------------------------------------
(* The stack *)

StackType == sp \in 0..MaxSP /\ frames \in Seq(0..MaxSP)

\* Every frame leaves room for its return address below the next, and below SP.
Piled ==
  /\ \A k \in 1..Depth : 2 * (k - 1) <= frames[k] /\ frames[k] + 2 <= sp
  /\ \A j, k \in 1..Depth : j < k => frames[j] + 2 <= frames[k]

Moves ==
  \/ UNCHANGED << sp, frames >>
  \/ Enter
  \/ frames # << >> /\ Leave
  \/ sp < MaxSP /\ sp' = sp + 1 /\ UNCHANGED frames
  \/ sp > Base /\ sp' = sp - 1 /\ UNCHANGED frames

\* A clock of the core moves the stack in one of five ways, if at all.
LEMMA ClockMoves ==
  ASSUME NEW ends \in BOOLEAN, Clock(ends)
  PROVE  Moves
BY DEF Clock, Opcode, Inside, Moves, Leave

\* Entering a frame adds it on top of those there are.
LEMMA Entered ==
  ASSUME StackType, Enter
  PROVE  /\ StackType' /\ Depth' = Depth + 1 /\ frames'[Depth + 1] = sp
         /\ \A k \in 1..Depth : frames'[k] = frames[k]
<1>1. sp' \in 0..MaxSP BY DEF StackType, Enter
<1>2. frames' = Append(frames, sp) BY DEF Enter
<1>3. frames \in Seq(0..MaxSP) /\ sp \in 0..MaxSP BY DEF StackType
<1> QED BY <1>1, <1>2, <1>3, AppendProperties DEF StackType, Depth

\* Leaving one takes it away and uncovers those below.
LEMMA Left ==
  ASSUME StackType, frames # << >>, Leave
  PROVE  /\ StackType' /\ Depth' = Depth - 1 /\ sp' = frames[Depth] /\ Depth > 0
         /\ \A k \in 1 .. Depth - 1 : frames'[k] = frames[k]
<1>1. frames \in Seq(0..MaxSP) /\ Depth \in Nat \ {0} BY DEF StackType, Depth
<1>2. sp' = frames[Depth] /\ frames' = SubSeq(frames, 1, Depth - 1) BY DEF Leave
<1>3. frames[Depth] \in 0..MaxSP BY <1>1 DEF Depth
<1> DEFINE n == Depth - 1
<1>4. n \in Int /\ 1 \in Int /\ \A k \in 1..n : frames[k] \in 0..MaxSP BY <1>1 DEF Depth
<1>5. /\ SubSeq(frames, 1, n) \in Seq(0..MaxSP)
      /\ Len(SubSeq(frames, 1, n)) = IF 1 <= n THEN n - 1 + 1 ELSE 0
      /\ \A k \in 1 .. n - 1 + 1 : SubSeq(frames, 1, n)[k] = frames[1 + k - 1]
  <2> HIDE DEF n
  <2> QED BY <1>4, SubSeqProperties
<1>6. /\ frames' \in Seq(0..MaxSP) /\ Len(frames') = Depth - 1
      /\ \A k \in 1 .. Depth - 1 : frames'[k] = frames[k]
  BY <1>1, <1>2, <1>5
<1> QED BY <1>1, <1>2, <1>3, <1>6 DEF StackType, Depth

\* The frames below are in range, and there is room for as many as there are.
LEMMA PileRoom ==
  ASSUME StackType, Piled
  PROVE  /\ Depth \in Nat /\ \A k \in 1..Depth : frames[k] \in 0..MaxSP
         /\ 2 * Depth <= sp /\ Depth <= MaxSP
<1>1. Depth \in Nat /\ \A k \in 1..Depth : frames[k] \in 0..MaxSP
  BY DEF StackType, Depth
<1>2. CASE Depth = 0 BY <1>2 DEF StackType
<1>3. CASE Depth # 0
  <2>1. 2 * (Depth - 1) <= frames[Depth] /\ frames[Depth] + 2 <= sp BY <1>1, <1>3 DEF Piled
  <2> QED BY <2>1, <1>1, <1>3 DEF StackType
<1> QED BY <1>1, <1>2, <1>3

\* However it moves, the stack stays a pile.
LEMMA PileStep ==
  ASSUME StackType, Piled, Moves
  PROVE  StackType' /\ Piled' /\ Depth' \in 0..MaxSP
<1>1. /\ Depth \in Nat /\ \A k \in 1..Depth : frames[k] \in 0..MaxSP
      /\ 2 * Depth <= sp /\ Depth <= MaxSP /\ sp \in 0..MaxSP
  BY PileRoom DEF StackType
<1>2. CASE UNCHANGED << sp, frames >>
  BY <1>1, <1>2 DEF StackType, Piled, Depth
<1>3. CASE Enter
  <2>1. /\ StackType' /\ Depth' = Depth + 1 /\ frames'[Depth + 1] = sp
        /\ \A k \in 1..Depth : frames'[k] = frames[k]
    BY <1>3, Entered
  <2>2. sp' = sp + 2 /\ sp + 2 <= MaxSP BY <1>3 DEF Enter
  <2>3. Piled' BY <1>1, <2>1, <2>2 DEF Piled
  <2> QED BY <1>1, <2>1, <2>2, <2>3
<1>4. CASE frames # << >> /\ Leave
  <2>1. /\ StackType' /\ Depth' = Depth - 1 /\ sp' = frames[Depth] /\ Depth > 0
        /\ \A k \in 1 .. Depth - 1 : frames'[k] = frames[k]
    BY <1>4, Left
  <2>2. Piled' BY <1>1, <2>1 DEF Piled
  <2> QED BY <1>1, <2>1, <2>2
<1>5. CASE sp < MaxSP /\ sp' = sp + 1 /\ UNCHANGED frames
  BY <1>1, <1>5 DEF StackType, Piled, Depth
<1>6. CASE sp > Base /\ sp' = sp - 1 /\ UNCHANGED frames
  <2>1. frames = << >> => Depth = 0 BY DEF Depth
  <2>2. frames # << >> => Depth > 0 BY <1>1 DEF StackType, Depth
  <2>3. sp' \in 0..MaxSP
    BY <1>1, <1>6, <2>1, <2>2 DEF Base
  <2>4. \A k \in 1..Depth : frames[k] + 2 <= sp - 1
    BY <1>1, <1>6, <2>1, <2>2 DEF Base, Piled
  <2>5. UNCHANGED Depth BY <1>6 DEF Depth
  <2> QED BY <1>1, <1>6, <2>3, <2>4, <2>5 DEF StackType, Piled
<1> QED BY <1>2, <1>3, <1>4, <1>5, <1>6 DEF Moves

-------------------------------------------------------------------------------
(* Types *)

CoreType ==
  /\ pc \in Place /\ StackType
  /\ isr \in 0..Depth /\ busy \in BOOLEAN /\ byte \in Value

DebugType ==
  /\ state \in {"halted", "running"}
  /\ bps \in [Slot -> Breakpoint] /\ next_bp_id \in 1 .. MaxId + 1
  /\ step_kind \in StepKind /\ step_count \in 0..MaxCount /\ step_entry_sp \in 0..MaxSP
  /\ tasks \in BOOLEAN /\ step_task_state \in Value
  /\ last_halt \in [cause: {"bp", "step", "user", "reset"}, bp_id: NoBp..MaxId]
  /\ limit \in Never..Anywhere /\ touched \subseteq Slot

LEMMA TypeParts == CoreType /\ DebugType => TypeOK
BY DEF TypeOK, CoreType, StackType, DebugType

\* A clock keeps the core's state in range.
LEMMA ClockType ==
  ASSUME CoreType, Piled, NEW ends \in BOOLEAN, Clock(ends)
  PROVE  CoreType' /\ Piled'
<1>1. StackType' /\ Piled' /\ Depth' \in 0..MaxSP
  BY ClockMoves, PileStep DEF CoreType
<1>2. Depth \in Nat BY PileRoom DEF CoreType
<1>3. pc' \in Place /\ busy' \in BOOLEAN /\ byte' \in Value
  BY DEF CoreType, Clock, Opcode, Inside
<1>4. isr' \in 0..Depth'
  <2>1. UNCHANGED frames => UNCHANGED Depth BY DEF Depth
  <2>2. Enter => Depth' = Depth + 1 BY Entered DEF CoreType
  <2>3. Leave => Depth' = Depth - 1 /\ Depth > 0 BY Left DEF CoreType, Leave
  <2> QED BY <1>2, <2>1, <2>2, <2>3 DEF CoreType, Clock, Opcode, Inside
<1> QED BY <1>1, <1>3, <1>4 DEF CoreType

LEMMA TouchedType ==
  ASSUME DebugType
  PROVE  Touched \subseteq Slot
BY DEF DebugType, Touched

LEMMA HitType ==
  ASSUME DebugType, byte' \in Value, NEW hits \in SUBSET Slot, hits # {}, HitTick(hits)
  PROVE  /\ bps' \in [Slot -> Breakpoint] /\ touched' \subseteq Slot /\ state' = "halted"
         /\ last_halt' \in [cause: {"bp", "step", "user", "reset"}, bp_id: NoBp..MaxId]
<1> DEFINE i == Min(hits)
<1>1. i \in Slot BY FirstSlot
<1> HIDE DEF i
<1>2. bps[i] \in Breakpoint BY <1>1 DEF DebugType
<1>3. Halt("bp", bps[i].id) /\ bps' = Resync(i) /\ touched' = Touched \ Synced(i)
  BY DEF HitTick, i
<1>4. bps[i].id \in NoBp..MaxId BY <1>2 DEF Breakpoint, NoBp
<1>5. last_halt' \in [cause: {"bp", "step", "user", "reset"}, bp_id: NoBp..MaxId]
  BY <1>3, <1>4 DEF Halt, Report
<1>6. bps' \in [Slot -> Breakpoint]
  BY <1>1, <1>3 DEF Resync, DebugType, Breakpoint
<1> QED BY <1>3, <1>5, <1>6, TouchedType DEF Halt

\* dbg_tick keeps the debugger's state in range.
LEMMA TickType ==
  ASSUME CoreType, DebugType, Piled, DbgTick
  PROVE  CoreType' /\ DebugType' /\ Piled'
<1> PICK ends \in BOOLEAN :
      /\ Clock(ends)
      /\ \/ CycleStepping /\ CycleTick
         \/ ends /\ Hits(pc', byte') # {} /\ HitTick(Hits(pc', byte'))
         \/ /\ \/ step_count > 0 /\ StepTick
               \/ UNCHANGED << step_count, step_task_state, state, last_halt >>
            /\ UNCHANGED bps /\ touched' = Touched
  BY DEF DbgTick
<1>1. CoreType' /\ Piled' BY ClockType
<1>2. UNCHANGED << next_bp_id, step_kind, step_entry_sp, tasks, limit >> BY DEF DbgTick
<1>3. Report("step", NoBp) \in [cause: {"bp", "step", "user", "reset"}, bp_id: NoBp..MaxId]
  BY DEF Report, NoBp
<1>4. CASE CycleStepping /\ CycleTick
  BY <1>1, <1>2, <1>3, <1>4, TouchedType
     DEF DebugType, CycleStepping, CycleTick, Halt
<1>5. CASE Hits(pc', byte') # {} /\ HitTick(Hits(pc', byte'))
  <2>1. UNCHANGED << step_count, step_task_state >> BY <1>5 DEF HitTick
  <2> QED BY <1>1, <1>2, <1>5, <2>1, HitType DEF DebugType, Hits, CoreType
<1>6. CASE /\ step_count > 0 /\ StepTick /\ UNCHANGED bps /\ touched' = Touched
  <2>1. step_count' \in 0..MaxCount /\ step_task_state' \in Value
    BY <1>1, <1>6 DEF StepTick, DebugType, CoreType
  <2>2. /\ state' \in {"halted", "running"}
        /\ last_halt' \in [cause: {"bp", "step", "user", "reset"}, bp_id: NoBp..MaxId]
    BY <1>3, <1>6 DEF StepTick, DebugType, Halt
  <2> QED BY <1>1, <1>2, <1>6, <2>1, <2>2, TouchedType DEF DebugType
<1>7. CASE /\ UNCHANGED << step_count, step_task_state, state, last_halt >>
           /\ UNCHANGED bps /\ touched' = Touched
  BY <1>1, <1>2, <1>7, TouchedType DEF DebugType
<1> QED BY <1>4, <1>5, <1>6, <1>7

-------------------------------------------------------------------------------
(* What a step promises *)

\* A step over is still above where it was asked for, and so is all it has entered.
OverPromise ==
  /\ step_count = 1 /\ limit \in Nat
  /\ step_entry_sp <= sp
  /\ Depth > limit => step_entry_sp <= frames[limit + 1]

\* A step out is still inside the frame it was asked to leave.
OutPromise ==
  /\ step_count = 1
  /\ step_entry_sp <= sp
  /\ Depth > limit
  /\ step_entry_sp = IF limit = Never THEN 0 ELSE frames[limit + 1] + 2

Promised ==
  state = "running" /\ step_count > 0 =>
    \/ limit = Anywhere
    \/ step_kind = "over" /\ OverPromise
    \/ step_kind = "out" /\ OutPromise

\* At most the innermost frame comes or goes.
LEMMA FrameMoves ==
  ASSUME StackType, Piled, Moves
  PROVE  \/ Depth' = Depth /\ UNCHANGED frames
         \/ /\ Depth' = Depth + 1 /\ frames'[Depth + 1] = sp
            /\ \A k \in 1..Depth : frames'[k] = frames[k]
         \/ /\ Depth' = Depth - 1 /\ sp' = frames[Depth] /\ Depth > 0
            /\ \A k \in 1 .. Depth - 1 : frames'[k] = frames[k]
<1>1. UNCHANGED frames => UNCHANGED Depth BY DEF Depth
<1> QED BY <1>1, Entered, Left DEF Moves

LEMMA OverStep ==
  ASSUME StackType, Piled, Moves, OverPromise, step_entry_sp \in 0..MaxSP,
         UNCHANGED << step_entry_sp, limit >>
  PROVE  /\ sp' >= step_entry_sp /\ step_count' = step_count => OverPromise'
         /\ sp' <= step_entry_sp => Depth' <= limit
<1>1. StackType' /\ Piled' /\ Depth' \in 0..MaxSP BY PileStep
<1>2. /\ Depth \in Nat /\ \A k \in 1..Depth : frames[k] \in 0..MaxSP
      /\ \A k \in 1..Depth' : frames'[k] \in 0..MaxSP /\ frames'[k] + 2 <= sp'
      /\ sp \in 0..MaxSP /\ sp' \in 0..MaxSP
  <2>1. StackType' /\ Piled' => \A k \in 1..Depth' : frames'[k] \in 0..MaxSP
    BY <1>1 DEF StackType, Depth
  <2> QED BY <1>1, <2>1, PileRoom DEF Piled, StackType
<1>3. Depth' > limit => step_entry_sp <= frames'[limit + 1]
  BY <1>1, <1>2, FrameMoves DEF OverPromise
<1>4. sp' <= step_entry_sp => Depth' <= limit
  BY <1>1, <1>2, <1>3 DEF OverPromise
<1> QED BY <1>3, <1>4 DEF OverPromise

LEMMA OutStep ==
  ASSUME StackType, Piled, Moves, OutPromise, step_entry_sp \in 0..MaxSP,
         limit \in Never..Anywhere, UNCHANGED << step_entry_sp, limit >>
  PROVE  /\ sp' >= step_entry_sp /\ step_count' = step_count => OutPromise'
         /\ sp' < step_entry_sp => Depth' <= limit
<1>1. StackType' /\ Piled' /\ Depth' \in 0..MaxSP BY PileStep
<1>2. /\ Depth \in Nat /\ \A k \in 1..Depth : frames[k] \in 0..MaxSP
      /\ \A k \in 1..Depth' : frames'[k] \in 0..MaxSP /\ frames'[k] + 2 <= sp'
      /\ sp \in 0..MaxSP /\ sp' \in 0..MaxSP
  <2>1. StackType' /\ Piled' => \A k \in 1..Depth' : frames'[k] \in 0..MaxSP
    BY <1>1 DEF StackType, Depth
  <2> QED BY <1>1, <2>1, PileRoom DEF Piled, StackType
<1>3. CASE limit = Never
  BY <1>1, <1>2, <1>3 DEF OutPromise, Never
<1>4. CASE limit # Never
  <2>1. limit \in Nat BY <1>4 DEF Never, Anywhere
  <2>2. Depth' > limit => frames'[limit + 1] = frames[limit + 1]
    BY <1>1, <1>2, <2>1, FrameMoves DEF OutPromise
  <2>3. Depth' <= limit => sp' < step_entry_sp
    BY <1>1, <1>2, <1>4, <2>1, FrameMoves DEF OutPromise
  <2> QED BY <1>1, <1>2, <1>4, <2>1, <2>2, <2>3 DEF OutPromise
<1> QED BY <1>3, <1>4

\* A clock that does not end a step keeps its promise, one that does fulfils it.
LEMMA PromiseTick ==
  ASSUME CoreType, DebugType, Piled, Promised, DbgTick
  PROVE  Promised' /\ (EndsStep => Depth' <= limit)
<1> PICK ends \in BOOLEAN :
      /\ Clock(ends)
      /\ \/ CycleStepping /\ CycleTick
         \/ ends /\ Hits(pc', byte') # {} /\ HitTick(Hits(pc', byte'))
         \/ IF ends /\ step_count > 0
              THEN StepTick ELSE UNCHANGED << step_count, step_task_state, state, last_halt >>
  BY DEF DbgTick
<1>1. /\ StackType /\ Moves /\ Depth' \in 0..MaxSP /\ state = "running"
      /\ sp \in 0..MaxSP /\ sp' \in 0..MaxSP /\ step_entry_sp \in 0..MaxSP
      /\ step_count \in Nat /\ limit \in Never..Anywhere
      /\ UNCHANGED << step_kind, step_entry_sp, limit >>
  BY ClockMoves, PileStep DEF CoreType, DebugType, StackType, DbgTick
<1>2. CASE CycleStepping /\ CycleTick
  <2>1. limit = Anywhere BY <1>1, <1>2 DEF Promised, CycleStepping
  <2> QED BY <1>1, <2>1 DEF Promised, Anywhere
<1>3. CASE Hits(pc', byte') # {} /\ HitTick(Hits(pc', byte'))
  BY <1>3 DEF HitTick, Halt, Report, Promised, EndsStep
<1>4. CASE ends /\ step_count > 0 /\ StepTick
  <2>1. CASE limit = Anywhere
    BY <1>1, <2>1 DEF Promised, Anywhere
  <2>2. CASE step_kind = "over" /\ OverPromise
    <3>1. ~ByTask /\ (StepCounts <=> sp' <= step_entry_sp) /\ step_count = 1
      BY <2>2 DEF ByTask, StepCounts, OverAt, OverPromise
    <3>2. CASE sp' <= step_entry_sp
      <4>1. state' = "halted" BY <1>4, <3>1, <3>2 DEF StepTick, Halt
      <4>2. Depth' <= limit BY <1>1, <2>2, <3>2, OverStep
      <4> QED BY <4>1, <4>2 DEF Promised
    <3>3. CASE ~(sp' <= step_entry_sp)
      <4>1. UNCHANGED << state, step_count >> BY <1>4, <3>1, <3>3 DEF StepTick
      <4>2. sp' >= step_entry_sp BY <1>1, <3>3
      <4>3. OverPromise' BY <1>1, <2>2, <4>1, <4>2, OverStep
      <4> QED BY <1>1, <2>2, <4>1, <4>3 DEF Promised, EndsStep
    <3> QED BY <3>2, <3>3
  <2>3. CASE step_kind = "out" /\ OutPromise
    <3>1. ~ByTask /\ (StepCounts <=> sp' < step_entry_sp) /\ step_count = 1
      BY <2>3 DEF ByTask, StepCounts, OutAt, OutPromise
    <3>2. CASE sp' < step_entry_sp
      <4>1. state' = "halted" BY <1>4, <3>1, <3>2 DEF StepTick, Halt
      <4>2. Depth' <= limit BY <1>1, <2>3, <3>2, OutStep
      <4> QED BY <4>1, <4>2 DEF Promised
    <3>3. CASE ~(sp' < step_entry_sp)
      <4>1. UNCHANGED << state, step_count >> BY <1>4, <3>1, <3>3 DEF StepTick
      <4>2. sp' >= step_entry_sp BY <1>1, <3>3
      <4>3. OutPromise' BY <1>1, <2>3, <4>1, <4>2, OutStep
      <4> QED BY <1>1, <2>3, <4>1, <4>3 DEF Promised, EndsStep
    <3> QED BY <3>2, <3>3
  <2> QED BY <1>1, <1>4, <2>1, <2>2, <2>3 DEF Promised
<1>5. CASE /\ ~(ends /\ step_count > 0)
           /\ UNCHANGED << step_count, step_task_state, state, last_halt >>
  <2>1. ~EndsStep BY <1>1, <1>5 DEF EndsStep
  <2>2. CASE ~(step_count > 0) BY <1>5, <2>1, <2>2 DEF Promised
  <2>3. CASE ~ends /\ step_count > 0
    <3>1. sp' >= sp BY <1>1, <2>3 DEF Clock, Inside, Enter
    <3>2. OverPromise => OverPromise'
      BY <1>1, <1>5, <3>1, OverStep DEF OverPromise
    <3>3. OutPromise => OutPromise'
      BY <1>1, <1>5, <3>1, OutStep DEF OutPromise
    <3> QED BY <1>1, <1>5, <2>1, <2>3, <3>2, <3>3 DEF Promised
  <2> QED BY <1>5, <2>2, <2>3
<1> QED BY <1>2, <1>3, <1>4, <1>5

\* A step promises what it can keep from where it is asked for.
LEMMA PromiseMade ==
  ASSUME CoreType, Piled, NEW kind \in StepKind, NEW count \in 1..MaxCount,
         DbgStep(kind, count)
  PROVE  Promised' /\ limit' \in Never..Anywhere
<1>1. /\ Depth \in Nat /\ Depth <= MaxSP /\ \A k \in 1..Depth : frames[k] \in 0..MaxSP
      /\ sp \in 0..MaxSP /\ UNCHANGED Depth
      /\ \A k \in 1..Depth : frames[k] + 2 <= sp
  BY PileRoom DEF CoreType, StackType, DbgStep, core, Depth, Piled
<1>2. /\ step_kind' = kind /\ step_count' = count /\ step_entry_sp' = sp
      /\ limit' = Promise(kind, count) /\ UNCHANGED << sp, frames >>
  BY DEF DbgStep, core
<1>3. CASE kind = "over" /\ count = 1
  <2>1. limit' = Depth BY <1>2, <1>3 DEF Promise
  <2> QED BY <1>1, <1>2, <1>3, <2>1 DEF Promised, OverPromise, Never, Anywhere
<1>4. CASE kind = "out" /\ count = 1 /\ sp = Base
  <2>1. limit' = Depth - 1 BY <1>2, <1>4 DEF Promise
  <2>2. frames = << >> <=> Depth = 0 BY EmptySeq DEF CoreType, StackType, Depth
  <2> QED BY <1>1, <1>2, <1>4, <2>1, <2>2 DEF Promised, OutPromise, Never, Anywhere, Base
<1>5. CASE ~(kind = "over" /\ count = 1) /\ ~(kind = "out" /\ count = 1 /\ sp = Base)
  <2>1. limit' = Anywhere BY <1>2, <1>5 DEF Promise
  <2> QED BY <2>1 DEF Promised, Never, Anywhere
<1> QED BY <1>3, <1>4, <1>5

-------------------------------------------------------------------------------
(* The invariant *)

IInv == CoreType /\ DebugType /\ Piled /\ Promised /\ WatchHasCause

LEMMA InitInv == Init => IInv
<1> SUFFICES ASSUME Init PROVE IInv OBVIOUS
<1>1. frames = << >> /\ Depth = 0 BY DEF Init, Depth
<1>2. StackType BY <1>1 DEF Init, StackType
<1>3. CoreType
  <2>1. isr \in 0..Depth BY <1>1 DEF Init
  <2> QED BY <1>2, <2>1 DEF Init, CoreType
<1>4. DebugType
  <2>1. Free \in Breakpoint BY DEF Free, Breakpoint
  <2>2. Report("bp", 0) \in [cause: {"bp", "step", "user", "reset"}, bp_id: NoBp..MaxId]
    BY DEF Report, NoBp
  <2>3. bps \in [Slot -> Breakpoint] BY <2>1 DEF Init
  <2>4. last_halt \in [cause: {"bp", "step", "user", "reset"}, bp_id: NoBp..MaxId]
    BY <2>2 DEF Init
  <2>5. limit \in Never..Anywhere BY DEF Init, Never, Anywhere
  <2>6. /\ step_count \in 0..MaxCount /\ step_entry_sp \in 0..MaxSP
        /\ next_bp_id \in 1 .. MaxId + 1
    BY DEF Init
  <2>7. state \in {"halted", "running"} /\ tasks \in BOOLEAN BY DEF Init
  <2>8. step_kind \in StepKind /\ step_task_state \in Value /\ touched \subseteq Slot
    BY DEF Init, StepKind
  <2> QED BY <2>3, <2>4, <2>5, <2>6, <2>7, <2>8 DEF DebugType
<1>5. WatchHasCause BY DEF Init, WatchHasCause, Free
<1> QED BY <1>1, <1>3, <1>4, <1>5 DEF IInv, Init, Piled, Promised

\* Each clock that moves the byte touches every slot, and a report only its own.
LEMMA WatchTick ==
  ASSUME CoreType, DebugType, WatchHasCause, DbgTick
  PROVE  WatchHasCause'
<1>1. CASE UNCHANGED bps /\ touched' = Touched
  BY <1>1 DEF WatchHasCause, Touched, DebugType
<1>2. CASE Hits(pc', byte') # {} /\ HitTick(Hits(pc', byte'))
  <2> DEFINE i == Min(Hits(pc', byte'))
  <2>1. i \in Slot BY <1>2, FirstSlot DEF Hits
  <2> HIDE DEF i
  <2>2. bps' = Resync(i) /\ touched' = Touched \ Synced(i) BY <1>2 DEF HitTick, i
  <2>3. CASE bps[i].kind = "write"
    <3>1. /\ bps' = [bps EXCEPT ![i].shadow = byte'] /\ touched' = Touched \ {i}
      BY <2>2, <2>3 DEF Resync, Synced
    <3>2. bps'[i].shadow = byte' /\ \A j \in Slot \ {i} : bps'[j] = bps[j]
      BY <2>1, <3>1 DEF DebugType, Breakpoint
    <3> QED BY <3>1, <3>2 DEF WatchHasCause, Touched, DebugType
  <2>4. CASE bps[i].kind # "write"
    BY <2>2, <2>4 DEF Resync, Synced, WatchHasCause, Touched, DebugType
  <2> QED BY <2>3, <2>4
<1> QED BY <1>1, <1>2 DEF DbgTick, CycleTick

\* Setting a breakpoint seeds its shadow; only its own slot changes.
LEMMA SetInv ==
  ASSUME IInv, NEW kind \in {"code", "write"}, NEW p \in Place, SetBreakpoint(kind, p)
  PROVE  IInv'
<1> USE DEF IInv
<1> DEFINE i == Min(FreeSlots)
           bp == [kind |-> kind, id |-> NewHandle(i), at |-> p,
                  shadow |-> IF kind = "write" THEN byte ELSE Zero]
<1>1. i \in Slot BY FirstSlot DEF SetBreakpoint, FreeSlots
<1>2. next_bp_id \in 1..MaxId /\ byte \in Value BY DEF SetBreakpoint, DebugType, CoreType
<1>3. bp \in Breakpoint BY <1>2 DEF Breakpoint, NewHandle
<1>4. bps' = [bps EXCEPT ![i] = bp] /\ touched' = touched \ {i} /\ next_bp_id' = next_bp_id + 1
  BY DEF SetBreakpoint
<1>5. UNCHANGED << core, state, step, tasks, last_halt, limit >> BY DEF SetBreakpoint
<1>6. bp.kind = "write" => bp.shadow = byte OBVIOUS
<1> HIDE DEF i, bp
<1>7. DebugType' BY <1>1, <1>2, <1>3, <1>4, <1>5 DEF DebugType, step
<1>8. CoreType' /\ Piled' BY <1>5 DEF CoreType, core, StackType, Depth, Piled
<1>9. Promised' BY <1>5 DEF Promised, OverPromise, OutPromise, core, step, Depth
<1>10. WatchHasCause'
  <2>1. bps'[i] = bp /\ \A j \in Slot \ {i} : bps'[j] = bps[j] BY <1>1, <1>4 DEF DebugType
  <2> QED BY <1>4, <1>5, <1>6, <2>1 DEF WatchHasCause, core
<1> QED BY <1>7, <1>8, <1>9, <1>10

\* Clearing one leaves a free slot and the others.
LEMMA ClearInv ==
  ASSUME IInv, NEW handle \in 1..MaxId, ClearBreakpoint(handle)
  PROVE  IInv'
<1> USE DEF IInv
<1> PICK i \in Slot : bps' = [bps EXCEPT ![i] = Free] BY DEF ClearBreakpoint
<1>1. UNCHANGED << core, state, next_bp_id, step, tasks, last_halt, limit, touched >>
  BY DEF ClearBreakpoint
<1>2. Free \in Breakpoint /\ Free.kind = "none" BY DEF Free, Breakpoint
<1>3. DebugType' BY <1>1, <1>2 DEF DebugType, step
<1>4. CoreType' /\ Piled' BY <1>1 DEF CoreType, core, StackType, Depth, Piled
<1>5. Promised' BY <1>1 DEF Promised, OverPromise, OutPromise, core, step, Depth
<1>6. WatchHasCause' BY <1>1, <1>2 DEF WatchHasCause, core, DebugType
<1> QED BY <1>3, <1>4, <1>5, <1>6

\* A reset empties the stack and seeds every shadow again.
LEMMA ResetInv ==
  ASSUME IInv, DbgReset
  PROVE  IInv'
<1> USE DEF IInv
<1>1. byte' \in Value BY DEF DbgReset, CoreType
<1>2. frames' = << >> /\ Depth' = 0 /\ sp' = 0 BY DEF DbgReset, Depth
<1>3. StackType' BY <1>2 DEF StackType
<1>4. isr' \in 0..Depth' BY <1>2 DEF DbgReset
<1>5. CoreType' BY <1>1, <1>3, <1>4 DEF DbgReset, CoreType
<1>6. Piled' BY <1>2 DEF Piled
<1>7. Promised' BY DEF DbgReset, Halt, Promised
<1>8. bps' = Reseeded(byte') /\ touched' = {} BY DEF DbgReset
<1>9. bps' \in [Slot -> Breakpoint]
  BY <1>1, <1>8 DEF Reseeded, DebugType, Breakpoint
<1>10. WatchHasCause'
  <2>1. ASSUME NEW i \in Slot, bps'[i].kind = "write" PROVE bps'[i].shadow = byte'
    <3>1. bps'[i] = IF bps[i].kind = "write" THEN [bps[i] EXCEPT !.shadow = byte'] ELSE bps[i]
      BY <1>8 DEF Reseeded
    <3>2. bps[i] \in Breakpoint BY DEF DebugType
    <3>3. CASE bps[i].kind = "write" BY <3>1, <3>2, <3>3 DEF Breakpoint
    <3>4. CASE bps[i].kind # "write" BY <2>1, <3>1, <3>4
    <3> QED BY <3>3, <3>4
  <2> QED BY <2>1 DEF WatchHasCause
<1>11. last_halt' \in [cause: {"bp", "step", "user", "reset"}, bp_id: NoBp..MaxId]
       /\ state' = "halted"
  BY DEF DbgReset, Halt, Report, NoBp
<1>12. DebugType'
  <2>1. UNCHANGED << next_bp_id, step_kind, step_entry_sp, step_task_state, tasks, limit >>
        /\ step_count' = 0
    BY DEF DbgReset
  <2> QED BY <2>1, <1>8, <1>9, <1>11 DEF DebugType
<1> QED BY <1>5, <1>6, <1>7, <1>10, <1>12

LEMMA StepInv == IInv /\ [Next]_vars => IInv'
<1> SUFFICES ASSUME IInv, [Next]_vars PROVE IInv' OBVIOUS
<1> USE DEF IInv
<1>1. CASE DbgTick
  BY <1>1, TickType, PromiseTick, WatchTick
<1>2. CASE EmuTick
  <2>1. PICK ends \in BOOLEAN : Clock(ends) BY <1>2 DEF EmuTick
  <2>2. CoreType' /\ Piled' BY <2>1, ClockType
  <2>3. /\ UNCHANGED << state, bps, next_bp_id, step, tasks, last_halt, limit >>
        /\ state = "halted" /\ touched' = Touched
    BY <1>2 DEF EmuTick
  <2>4. DebugType' BY <2>3, TouchedType DEF DebugType, step
  <2>5. Promised' BY <2>3 DEF Promised
  <2>6. WatchHasCause' BY <2>3 DEF WatchHasCause, Touched
  <2> QED BY <2>2, <2>4, <2>5, <2>6
<1>3. CASE UNCHANGED << core, bps, touched >> /\ DebugType' /\ Promised'
  BY <1>3 DEF CoreType, core, StackType, Depth, Piled, WatchHasCause
<1>4. CASE DbgRun
  <2>1. DebugType' BY <1>4 DEF DbgRun, DebugType, Never, Anywhere
  <2>2. Promised' BY <1>4 DEF DbgRun, Promised
  <2> QED BY <1>3, <1>4, <2>1, <2>2 DEF DbgRun
<1>5. CASE DbgHalt
  <2>1. DebugType' BY <1>5 DEF DbgHalt, DebugType, Halt, Report, NoBp, step
  <2>2. Promised' BY <1>5 DEF DbgHalt, Promised, Halt
  <2> QED BY <1>3, <1>5, <2>1, <2>2 DEF DbgHalt
<1>6. ASSUME NEW kind \in StepKind, NEW count \in 1..MaxCount, DbgStep(kind, count)
      PROVE  IInv'
  <2>1. Promised' /\ limit' \in Never..Anywhere BY <1>6, PromiseMade
  <2>2. DebugType' BY <1>6, <2>1 DEF DbgStep, DebugType, CoreType, StackType
  <2> QED BY <1>3, <1>6, <2>1, <2>2 DEF DbgStep
<1>7. CASE DbgReset BY <1>7, ResetInv
<1>8. CASE WriteMem
  <2>1. UNCHANGED << pc, sp, frames, isr, busy, Depth >> /\ byte' \in Value /\ touched' = Slot
    BY <1>8 DEF WriteMem, Depth
  <2>2. UNCHANGED << state, bps, next_bp_id, step, tasks, last_halt, limit >>
    BY <1>8 DEF WriteMem
  <2>3. CoreType' /\ Piled' BY <2>1 DEF CoreType, StackType, Piled
  <2>4. DebugType' BY <2>1, <2>2 DEF DebugType, step
  <2>5. Promised' BY <2>1, <2>2 DEF Promised, OverPromise, OutPromise, step
  <2>6. WatchHasCause' BY <2>1, <2>2 DEF WatchHasCause
  <2> QED BY <2>3, <2>4, <2>5, <2>6
<1>9. CASE SetTask
  <2>1. DebugType' BY <1>9 DEF SetTask, DebugType, step
  <2>2. Promised' BY <1>9 DEF SetTask, Promised, OverPromise, OutPromise, step, core, Depth
  <2> QED BY <1>3, <1>9, <2>1, <2>2 DEF SetTask
<1>10. ASSUME NEW p \in Place, SetBreakpoint("code", p) \/ SetBreakpoint("write", Entry)
       PROVE  IInv'
  BY <1>10, SetInv
<1>11. ASSUME NEW handle \in 1..MaxId, ClearBreakpoint(handle) PROVE IInv'
  BY <1>11, ClearInv
<1>12. CASE UNCHANGED vars
  BY <1>3, <1>12 DEF vars, step, DebugType, Promised, OverPromise, OutPromise, core, Depth
<1> QED BY <1>1, <1>2, <1>4, <1>5, <1>6, <1>7, <1>8, <1>9, <1>10, <1>11, <1>12 DEF Next

THEOREM Invariance == Spec => []IInv
BY InitInv, StepInv, PTL DEF Spec

-------------------------------------------------------------------------------
(* Theorems *)

\* Every variable keeps to its range; in particular no stack of frames outgrows the
\* stack pointer's.
THEOREM TypeCorrect == Spec => []TypeOK
<1>1. IInv => TypeOK BY TypeParts DEF IInv
<1> QED BY <1>1, Invariance, PTL

\* No reset and no other breakpoint's report makes a watchpoint fire: the byte moved.
THEOREM WatchTheorem == Spec => []WatchHasCause
<1>1. IInv => WatchHasCause BY DEF IInv
<1> QED BY <1>1, Invariance, PTL

\* A step over ends no deeper than it began, a step out outside its frame, and a run
\* does not end as a step does, however calls, pushes and interrupts nest.
THEOREM StepTheorem == Spec => StepEndsInBounds
<1>1. IInv /\ [Next]_vars => [EndsStep => Len(frames') <= limit]_vars
  <2> SUFFICES ASSUME IInv, Next, EndsStep PROVE Len(frames') <= limit OBVIOUS
  <2>1. DbgTick
    BY DEF Next, EndsStep, EmuTick, DbgRun, DbgHalt, DbgReset, WriteMem, SetTask, DbgStep,
           SetBreakpoint, ClearBreakpoint, Halt, Report
  <2> QED BY <2>1, PromiseTick DEF IInv, Depth
<1> QED BY <1>1, Invariance, PTL DEF Spec, StepEndsInBounds

\* At an instruction boundary the scan misses no slot.
THEOREM PassTheorem == Spec => PassesNoBreakpoint
<1>1. [Next]_vars => [DbgTick /\ state' = "running" /\ ~busy /\ ~Vectors
         => CycleStepping \/ \A i \in Slot : ~Hit(bps[i], pc', byte')]_vars
  <2> SUFFICES ASSUME DbgTick, state' = "running", ~busy, ~Vectors, ~CycleStepping
               PROVE  \A i \in Slot : ~Hit(bps[i], pc', byte')
    OBVIOUS
  <2>1. PICK ends \in BOOLEAN :
          /\ Clock(ends)
          /\ \/ HitTick(Hits(pc', byte'))
             \/ ends => Hits(pc', byte') = {}
    BY DEF DbgTick
  <2>2. ends BY <2>1 DEF Clock, Inside, Vectors, Depth
  <2>3. ~HitTick(Hits(pc', byte')) BY DEF HitTick, Halt
  <2> QED BY <2>1, <2>2, <2>3 DEF Hits
<1> QED BY <1>1, PTL DEF Spec, PassesNoBreakpoint

\* A handle that was cleared names nothing again.
THEOREM HandleTheorem == Spec => HandlesNotReused
<1>1. IInv /\ [Next]_vars
        => [\A h \in 1 .. next_bp_id - 1 : ~Active(h) => ~Active(h)']_vars
  <2> SUFFICES ASSUME IInv, Next, NEW h \in 1 .. next_bp_id - 1, Active(h)'
               PROVE  Active(h)
    OBVIOUS
  <2>1. PICK i \in Slot : bps'[i].kind # "none" /\ bps'[i].id = h BY DEF Active
  <2>2. bps \in [Slot -> Breakpoint] /\ next_bp_id \in Nat BY DEF IInv, DebugType
  <2>3. ASSUME bps'[i].id = bps[i].id, bps'[i].kind = bps[i].kind PROVE Active(h)
    BY <2>1, <2>3 DEF Active
  <2>4. CASE UNCHANGED bps BY <2>3, <2>4
  <2>5. CASE DbgTick
    <3>1. CASE UNCHANGED bps BY <2>4, <3>1
    <3>2. CASE HitTick(Hits(pc', byte'))
      BY <2>2, <2>3, <3>2 DEF HitTick, Resync, Breakpoint
    <3> QED BY <2>5, <3>1, <3>2 DEF DbgTick, CycleTick
  <2>6. CASE DbgReset
    BY <2>2, <2>3, <2>6 DEF DbgReset, Reseeded, Breakpoint
  <2>7. ASSUME NEW kind \in {"code", "write"}, NEW p \in Place, SetBreakpoint(kind, p)
        PROVE  Active(h)
    <3> DEFINE j == Min(FreeSlots)
    <3>1. j \in Slot BY <2>7, FirstSlot DEF SetBreakpoint, FreeSlots
    <3> HIDE DEF j
    <3>2. bps' = [bps EXCEPT ![j] =
                    [kind |-> kind, id |-> next_bp_id, at |-> p,
                     shadow |-> IF kind = "write" THEN byte ELSE Zero]]
      BY <2>7 DEF SetBreakpoint, NewHandle, j
    <3>3. i # j BY <2>1, <2>2, <3>1, <3>2
    <3>4. bps'[i] = bps[i] BY <2>2, <3>2, <3>3
    <3> QED BY <2>3, <3>4
  <2>8. ASSUME NEW handle \in 1..MaxId, ClearBreakpoint(handle) PROVE Active(h)
    <3>1. PICK j \in Slot : bps' = [bps EXCEPT ![j] = Free] BY <2>8 DEF ClearBreakpoint
    <3>2. i # j BY <2>1, <2>2, <3>1 DEF Free
    <3> QED BY <2>2, <2>3, <3>1, <3>2
  <2> QED
    BY <2>4, <2>5, <2>6, <2>7, <2>8
       DEF Next, EmuTick, DbgRun, DbgHalt, DbgStep, WriteMem, SetTask
<1> QED BY <1>1, Invariance, PTL DEF Spec, HandlesNotReused
===============================================================================
