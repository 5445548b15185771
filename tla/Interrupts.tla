------------------------------ MODULE Interrupts ------------------------------
(***************************************************************************)
(* The core's clock: tick() and handle_interrupts() of core.c, the RETI    *)
(* handler of opcodes.c, and the warm reset, as one 8051 with a firmware   *)
(* of any shape around them.                                               *)
(*                                                                         *)
(* A program point is a record: the routine it belongs to ("main", or the  *)
(* source whose service routine it is) and how many subroutine calls deep  *)
(* it is.  The stack holds program points, one for the two bytes the code  *)
(* pushes.  Firmware is any sequence of instructions that balances its     *)
(* stack: RET only inside a subroutine, RETI only at the top level of a    *)
(* service routine.                                                        *)
(***************************************************************************)
EXTENDS Naturals, Sequences

CONSTANTS
  IeValues,   \* the sets of enabled sources the firmware writes (IE and ECCFn)
  IpValues,   \* the sets of high-priority sources the firmware writes (IP)
  Scales,     \* values of mMachineCycleScale: 1 on a 1T part, 12 on the STC89
  OpReturns,  \* what opcode handlers return
  MaxCalls    \* bound: subroutine calls one routine nests

\* The interrupt sources handle_interrupts knows, in the order it polls them.
Polled == << "INT0", "T0", "INT1", "T1", "SER", "PCA" >>
Source == { Polled[i] : i \in 1..6 }

\* Vectoring to one of these clears its request; the rest the firmware clears.
HwCleared == {"T0", "T1", "SER"}
\* Requests the peripherals raise.  Nothing in the emulator samples P3.2 or P3.3.
Peripheral == {"T0", "T1", "SER", "PCA"}

ASSUME SetsAssumption ==
  /\ IeValues \subseteq SUBSET Source
  /\ IpValues \subseteq SUBSET Source
ASSUME NumbersAssumption ==
  /\ Scales \subseteq Nat \ {0}
  /\ OpReturns \subseteq Nat
  /\ MaxCalls \in Nat

VARIABLES
  ea, ie, ip,  \* IE.7, the other enables, IP
  flag,        \* requests: TCON flags, serial_interrupt_trigger, CCON flags
  idl, pd,     \* PCON.0, PCON.1
  active,      \* mInterruptActive: bit 0 a low-level, bit 1 a high-level routine
  delay,       \* mTickDelay
  scale,       \* mMachineCycleScale
  pc,          \* the program point about to execute
  stack,       \* the return points in internal RAM, SP at its end
  int_sp,      \* SP saved per level, 0 low and 1 high, for RETI's check
  mismatch,    \* RETI has reported EXCEPTION_IRET_SP_MISMATCH
  nest         \* history: the service routines entered and not yet left

masks == << ea, ie, ip >>
power == << idl, pd >>
frames == << pc, stack, nest >>
vars == << masks, flag, power, active, delay, scale, frames, int_sp, mismatch >>

MainEntry == [routine |-> "main", calls |-> 0]
ProgramPoint == [routine : Source \cup {"main"}, calls : Nat]
Frame == [level : 0..1, base : Nat]

Init ==
  /\ ea = FALSE /\ ie = {} /\ ip = {} /\ flag = {}
  /\ idl = FALSE /\ pd = FALSE
  /\ active = 0 /\ delay = 0 /\ scale \in Scales
  /\ pc = MainEntry /\ stack = << >> /\ nest = << >>
  /\ int_sp = [level \in 0..1 |-> 0] /\ mismatch = FALSE

-------------------------------------------------------------------------------
(* Polling: the chain of ifs in handle_interrupts. *)

Requests == IF ea THEN ie \cap flag ELSE {}

NoWinner == [dest |-> "main", lo |-> FALSE, hi |-> FALSE]

\* Slip: every if of the chain overwrites dest_ip.
ConsiderLastWins(best, s) ==
  IF s \in Requests /\ ~best.hi
  THEN [dest |-> s, lo |-> TRUE, hi |-> s \in ip]
  ELSE best

\* One if of the chain: the first request wins, a later one only by its level.
Consider(best, s) ==
  IF s \in Requests /\ ~best.hi
  THEN [dest |-> IF best.lo /\ s \notin ip THEN best.dest ELSE s,
        lo |-> TRUE, hi |-> s \in ip]
  ELSE best

Poll == Consider(Consider(Consider(Consider(Consider(Consider(
          NoWinner, "INT0"), "T0"), "INT1"), "T1"), "SER"), "PCA")

\* Slip: the same-level test left out, so a low request nests in a low routine.
AcceptedAnyLevel == active <= 1 /\ Poll.lo

\* A request that handle_interrupts acts on now.
Accepted ==
  /\ active <= 1
  /\ Poll.lo
  /\ active = 1 => Poll.hi

-------------------------------------------------------------------------------
(* tick() *)

\* mTickDelay has run out in this call: only then is anything but the countdown
\* done.  With a scale above 1 the call that reaches 0 returns early.
AtBoundary == delay = 0 \/ (delay = 1 /\ scale = 1)

Countdown ==
  /\ ~AtBoundary
  /\ delay' = delay - 1
  /\ UNCHANGED << masks, flag, power, active, scale, frames, int_sp, mismatch >>

PowerDownTick ==
  /\ AtBoundary /\ pd
  /\ delay' = 1
  /\ UNCHANGED << masks, flag, power, active, scale, frames, int_sp, mismatch >>

\* The levels a vectoring leaves in mInterruptActive.
RaisedOverwrites(hi) == IF hi THEN 2 ELSE 1  \* slip: = where the code has |=
Raised(hi) == IF hi THEN (IF active >= 2 THEN active ELSE active + 2) ELSE 1

\* The requests left after the vector to s.
AcknowledgeAll(s) == flag \ HwCleared  \* slip: clears every timer flag
Acknowledge(s) == flag \ ({s} \cap HwCleared)

\* hi as handle_interrupts uses it to index the saved registers.
PolledLevel == IF Poll.hi THEN 1 ELSE 0

\* PCON.0 after a vector.
IdleKept == idl  \* slip: the vector leaves PCON alone
IdleAfterVector == FALSE

TakeInterrupt ==
  /\ AtBoundary /\ ~pd /\ Accepted
  /\ idl' = IdleAfterVector
  /\ stack' = Append(stack, pc)
  /\ pc' = [routine |-> Poll.dest, calls |-> 0]
  /\ delay' = 2
  /\ flag' = Acknowledge(Poll.dest)
  /\ active' = Raised(Poll.hi)
  /\ int_sp' = [int_sp EXCEPT ![PolledLevel] = Len(stack')]
  /\ nest' = Append(nest, [level |-> PolledLevel, base |-> Len(stack')])
  /\ UNCHANGED << masks, pd, scale, mismatch >>

IdleTick ==
  /\ AtBoundary /\ ~pd /\ ~Accepted /\ idl
  /\ delay' = 1
  /\ UNCHANGED << masks, flag, power, active, scale, frames, int_sp, mismatch >>

\* mTickDelay after an opcode whose handler returned r.
OpDelay(r) == IF scale > 1 THEN (r + 1) * scale - 1 ELSE r

\* The calls of tick() that run the opcode at pc.
RunsWhenParked == AtBoundary /\ ~Accepted  \* slip: PCON is not looked at
Runs == AtBoundary /\ ~pd /\ ~Accepted /\ ~idl

Execute(r) ==
  /\ Runs
  /\ delay' = OpDelay(r)
  /\ UNCHANGED scale

\* An opcode that touches nothing modelled here; pc stays in its routine.
Plain == \E r \in OpReturns :
  /\ Execute(r)
  /\ UNCHANGED << masks, flag, power, active, frames, int_sp, mismatch >>

Call ==
  /\ Execute(2)
  /\ pc.calls < MaxCalls
  /\ stack' = Append(stack, pc)
  /\ pc' = [pc EXCEPT !.calls = @ + 1]
  /\ UNCHANGED << masks, flag, power, active, nest, int_sp, mismatch >>

Top(s) == s[Len(s)]
Popped(s) == SubSeq(s, 1, Len(s) - 1)

Ret ==
  /\ Execute(2)
  /\ pc.calls > 0
  /\ pc' = Top(stack)
  /\ stack' = Popped(stack)
  /\ UNCHANGED << masks, flag, power, active, nest, int_sp, mismatch >>

\* mInterruptActive after RETI: the high bit goes first.
LoweredByTwo == active - 2  \* slip: -= 2 where the code has &= ~2
Lowered == IF active >= 2 THEN active - 2 ELSE 0

\* The slot of int_sp that RETI compares with SP.
CheckedSlotByBit == IF active = 2 THEN 1 ELSE 0  \* slip: wrong while both levels are in service
CheckedSlot == IF active > 1 THEN 1 ELSE 0

Reti ==
  /\ Execute(2)
  /\ pc.routine # "main" /\ pc.calls = 0
  /\ mismatch' = (mismatch \/ (active # 0 /\ int_sp[CheckedSlot] # Len(stack)))
  /\ active' = Lowered
  /\ pc' = Top(stack)
  /\ stack' = Popped(stack)
  /\ nest' = Popped(nest)
  /\ UNCHANGED << masks, flag, power, int_sp >>

WriteIE == \E on \in BOOLEAN, s \in IeValues :
  /\ Execute(2)
  /\ ea' = on /\ ie' = s
  /\ UNCHANGED << ip, flag, power, active, frames, int_sp, mismatch >>

WriteIP == \E s \in IpValues :
  /\ Execute(2)
  /\ ip' = s
  /\ UNCHANGED << ea, ie, flag, power, active, frames, int_sp, mismatch >>

\* SETB and CLR reach every request but serial_interrupt_trigger, which is no SFR bit.
\* A request of a source that is never enabled changes nothing and is left out.
ClearFlag(s) ==
  /\ Execute(0)
  /\ s \in flag \ {"SER"}
  /\ flag' = flag \ {s}
  /\ UNCHANGED << masks, power, active, frames, int_sp, mismatch >>

SetFlag(s) ==
  /\ Execute(0)
  /\ s \in (UNION IeValues) \ {"SER"}
  /\ flag' = flag \cup {s}
  /\ UNCHANGED << masks, power, active, frames, int_sp, mismatch >>

WritePCON == \E i, p \in BOOLEAN :
  /\ Execute(2)
  /\ idl' = i /\ pd' = p
  /\ UNCHANGED << masks, flag, active, frames, int_sp, mismatch >>

Firmware ==
  \/ Plain \/ Call \/ Ret \/ Reti \/ WriteIE \/ WriteIP \/ WritePCON
  \/ \E s \in Source : ClearFlag(s) \/ SetFlag(s)

Tick == Countdown \/ PowerDownTick \/ TakeInterrupt \/ IdleTick \/ Firmware

-------------------------------------------------------------------------------
(* What runs between two calls of tick(). *)

\* The peripherals' tick raises a request; the serial one only while ES is set.
Raise(s) ==
  /\ s \in Peripheral \cap (UNION IeValues)
  /\ s = "SER" => s \in ie
  /\ flag' = flag \cup {s}
  /\ UNCHANGED << masks, power, active, delay, scale, frames, int_sp, mismatch >>

\* reset(cpu, false), from the host.  The saved registers of RETI's check stay.
Reset ==
  /\ ea' = FALSE /\ ie' = {} /\ ip' = {} /\ flag' = {}
  /\ idl' = FALSE /\ pd' = FALSE
  /\ active' = 0 /\ delay' = 0
  /\ pc' = MainEntry /\ stack' = << >> /\ nest' = << >>
  /\ UNCHANGED << scale, int_sp, mismatch >>

Next == Tick \/ Reset \/ \E s \in Source : Raise(s)

\* Every embedder calls tick() in a loop; nothing is assumed of the firmware.
Spec == Init /\ [][Next]_vars /\ WF_vars(Tick)

-------------------------------------------------------------------------------
(* Properties *)

TypeOK ==
  /\ ea \in BOOLEAN /\ ie \in SUBSET Source /\ ip \in SUBSET Source
  /\ flag \in SUBSET Source
  /\ idl \in BOOLEAN /\ pd \in BOOLEAN
  /\ active \in 0..3 /\ delay \in Nat /\ scale \in Nat \ {0}
  /\ pc \in ProgramPoint /\ stack \in Seq(ProgramPoint)
  /\ int_sp \in [0..1 -> Nat] /\ mismatch \in BOOLEAN
  /\ nest \in Seq(Frame)

\* mInterruptActive names exactly the service routines on the stack, in an order
\* the priority levels allow: none, one of either level, or a high one inside a
\* low one -- whatever IP was rewritten to since they were entered.
NestingOK ==
  \/ active = 0 /\ nest = << >>
  \/ active = 1 /\ Len(nest) = 1 /\ nest[1].level = 0
  \/ active = 2 /\ Len(nest) = 1 /\ nest[1].level = 1
  \/ active = 3 /\ Len(nest) = 2 /\ nest[1].level = 0 /\ nest[2].level = 1

\* Three routines at most share the stack (main, a low and a high one), so a
\* firmware whose routines nest MaxCalls calls needs this many return addresses.
StackBound == Len(stack) <= 3 * MaxCalls + 2

\* RETI never reports an SP mismatch of a firmware that balances its stack,
\* however the levels nest: the slot it compares is the one its entry filled.
NoFalseMismatch == ~mismatch

\* The request s is polled before t.
PolledBefore(s, t) == \E i, j \in 1..6 : i < j /\ s = Polled[i] /\ t = Polled[j]
Outranks(s, t) ==
  \/ s \in ip /\ t \notin ip
  \/ (s \in ip <=> t \in ip) /\ PolledBefore(s, t)

\* What the chain of ifs computes: of all requests, the one of the highest level
\* and, within it, the first in polling order.
PollPicksHighest ==
  /\ Poll.lo <=> Requests # {}
  /\ Poll.lo =>
       /\ Poll.dest \in Requests
       /\ Poll.hi <=> Poll.dest \in ip
       /\ \A s \in Requests \ {Poll.dest} : Outranks(Poll.dest, s)

\* A raised request leaves only by its own vector, by a firmware that clears it,
\* or by a reset: a vector never swallows another source's request.
RequestKept ==
  [][\A s \in flag \ flag' :
       \/ Len(nest') = Len(nest) + 1 /\ pc'.routine = s
       \/ ClearFlag(s)
       \/ Reset]_vars

\* While PCON parks the core no opcode runs: what idles is moved by a vector or
\* a reset only, what is powered down by a reset only.
ParkedCoreStays ==
  [][/\ idl /\ idl' /\ ~Reset => UNCHANGED << frames, masks, active >>
     /\ pd /\ ~Reset => UNCHANGED << frames, masks, active, power >>]_vars

\* A core that idles with a request it may act on leaves idle, under nothing but
\* the host's loop: the firmware, which would have to help, is parked.
IdleWakes == (idl /\ ~pd /\ Accepted) ~> ~idl
===============================================================================
