------------------------------- MODULE IdleSkip -------------------------------
(***************************************************************************)
(* stc12_advance_to of stc12.c and its idle fast-forward.  Two machines run *)
(* one firmware through the same slices of time: "slow" with the fast-      *)
(* forward switched off, "fast" with it on.  Between the host's calls they  *)
(* should be told apart by nothing but the work they did.                   *)
(*                                                                         *)
(* A machine is a 1T part (STC12 or STC15) with Timer 0, Timer 1 and the    *)
(* receive queue; the other peripherals stand still, or the fast-forward    *)
(* stands aside.  Its firmware is a main loop and two service routines.     *)
(***************************************************************************)
EXTENDS Integers, Sequences

CONSTANTS
  TimerTop,   \* bound: counts of a timer, 2^16 or 2^8 in the code
  Reloads,    \* bound: what Timer 0 starts again from: 0 in mode 1, TH0 in mode 2
  Prescale,   \* clocks of a 12T count
  Quantum,    \* ns_per_clock_x256, in parts of FixedPoint
  FixedPoint, \* 256 in the code
  Slices,     \* nanoseconds the host asks for
  MainLoops,  \* the main loops of the firmware
  Queued,     \* bytes waiting in the receive queue at the start
  CharClocks, \* clocks of one character time on the serial line
  MixedRates  \* Timer 1 may be used while Timer 0 counts clocks

ASSUME SizesAssumption ==
  /\ TimerTop \in Nat \ {0, 1} /\ Prescale \in Nat \ {0, 1}
  /\ FixedPoint \in Nat \ {0} /\ Slices \subseteq Nat \ {0} /\ Queued \in Nat
  /\ Reloads \subseteq 0 .. TimerTop - 1
  /\ CharClocks \in Nat
  /\ MixedRates \in BOOLEAN
\* A clock takes time: a frequency of 32 bits leaves a quantum of 60 at least.
ASSUME QuantumAssumption == Quantum \in Nat \ {0}

Op == {"idle", "work", "t1on", "t1off", "t1clr", "riclr", "reti"}
ASSUME MainLoopsAssumption ==
  \A loop \in MainLoops : loop \in Seq(Op) /\ loop # << >>

VARIABLES
  conf,  \* what the firmware has set up, and its main loop
  slow, fast

vars == << conf, slow, fast >>

UsesT1(loop) == \E i \in 1..Len(loop) : loop[i] = "t1on"

Conf ==
  { c \in [main : MainLoops,
           one_t : BOOLEAN,           \* AUXR.T0x12: Timer 0 counts clocks
           reload : Reloads,
           tr0 : BOOLEAN, et0 : BOOLEAN] :
      c.one_t /\ UsesT1(c.main) => MixedRates }

Machine ==
  [ in : {"main", "T0", "SER"}, at : Nat, ret : Nat, \* PC and the return address
    delay : 0..2, idl : BOOLEAN,       \* mTickDelay, PCON.0; mInterruptActive is in # "main"
    t0 : 0 .. TimerTop - 1, pre0 : 0 .. Prescale - 1, tf0 : BOOLEAN,
    t1 : 0 .. TimerTop - 1, pre1 : 0 .. Prescale - 1, tf1 : BOOLEAN, tr1 : BOOLEAN,
    rx : 0..Queued, gap : 0..CharClocks,      \* rx_len, rx_next_clock - osc_clocks or 0
    ri : BOOLEAN, trigger : BOOLEAN,          \* SCON.RI, serial_interrupt_trigger
    frac : 0 .. FixedPoint - 1, left : Int ]           \* osc_clocks, as the time left in the slice

PowerOn ==
  [ in |-> "main", at |-> 1, ret |-> 1, delay |-> 0, idl |-> FALSE,
    t0 |-> 0, pre0 |-> 0, tf0 |-> FALSE,
    t1 |-> 0, pre1 |-> 0, tf1 |-> FALSE, tr1 |-> FALSE,
    rx |-> Queued, gap |-> CharClocks, ri |-> FALSE, trigger |-> FALSE,
    frac |-> 0, left |-> 0 ]

Init ==
  /\ conf \in Conf
  /\ slow = PowerOn /\ fast = PowerOn

-------------------------------------------------------------------------------
(* tick(): the core *)

Code(routine) ==
  CASE routine = "main" -> conf.main
    [] routine = "T0"   -> << "work", "reti" >>
    [] routine = "SER"  -> << "riclr", "reti" >>

Effect(m, op) ==
  CASE op = "idle"  -> [m EXCEPT !.idl = TRUE]
    [] op = "work"  -> m
    [] op = "t1on"  -> [m EXCEPT !.tr1 = TRUE]
    [] op = "t1off" -> [m EXCEPT !.tr1 = FALSE]
    [] op = "t1clr" -> [m EXCEPT !.tf1 = FALSE]
    [] op = "riclr" -> [m EXCEPT !.ri = FALSE]
    [] op = "reti"  -> [m EXCEPT !.in = "main", !.at = m.ret]

\* What the handlers return: SETB and CLR return 0.
OpReturn(op) == IF op \in {"t1on", "t1off", "t1clr", "riclr"} THEN 0 ELSE 2

Execute(m) ==
  LET op == Code(m.in)[m.at]
      next == [m EXCEPT !.at = 1 + (m.at % Len(Code(m.in))), !.delay = OpReturn(op)]
  IN Effect(next, op)

Request(m) ==
  CASE conf.et0 /\ m.tf0 -> "T0"
    [] ~(conf.et0 /\ m.tf0) /\ m.trigger -> "SER"
    [] OTHER -> "none"

Vector(m, s) ==
  [m EXCEPT !.in = s, !.at = 1, !.ret = m.at, !.idl = FALSE, !.delay = 2,
            !.tf0 = @ /\ s # "T0", !.trigger = @ /\ s # "SER"]

CoreTick(m) ==
  IF m.delay > 1 THEN [m EXCEPT !.delay = @ - 1]
  ELSE IF m.in = "main" /\ Request(m) # "none" THEN Vector(m, Request(m))
  ELSE IF m.idl THEN [m EXCEPT !.delay = 1]
  ELSE Execute(m)

-------------------------------------------------------------------------------
(* stc12_tick(): the peripherals *)

\* The next queued byte; the firmware has ES set.
RxTick(m) ==
  IF m.rx > 0 /\ ~m.ri /\ m.gap = 0
  THEN [m EXCEPT !.rx = @ - 1, !.gap = CharClocks, !.ri = TRUE, !.trigger = TRUE]
  ELSE m

\* A 12T prescaler that stands at p counts.
WrapsLate(p) == p + 1 > Prescale  \* slip: <= 12 where the code has < 12
Wraps(p) == p + 1 = Prescale

T0Tick(m) ==
  LET wraps == Wraps(m.pre0)
      counts == (conf.one_t \/ wraps) /\ conf.tr0
      overflows == counts /\ m.t0 + 1 = TimerTop
  IN [m EXCEPT !.pre0 = IF conf.one_t THEN @ ELSE IF wraps THEN 0 ELSE @ + 1,
               !.t0 = IF overflows THEN conf.reload ELSE IF counts THEN @ + 1 ELSE @,
               !.tf0 = @ \/ overflows]

\* The prescaler runs on while Timer 1 is stopped.
T1Tick(m) ==
  LET wraps == Wraps(m.pre1)
      counts == wraps /\ m.tr1
      overflows == counts /\ m.t1 + 1 = TimerTop
  IN [m EXCEPT !.pre1 = IF wraps THEN 0 ELSE @ + 1,
               !.t1 = IF overflows THEN 0 ELSE IF counts THEN @ + 1 ELSE @,
               !.tf1 = @ \/ overflows]

\* osc_clocks += n, seen through stc12_get_time_ns.
Passed(m, n) ==
  [m EXCEPT !.frac = (@ + n * Quantum) % FixedPoint,
            !.left = @ - ((m.frac + n * Quantum) \div FixedPoint),
            !.gap = IF n < @ THEN @ - n ELSE 0]

Clock(m) == T1Tick(T0Tick(RxTick(Passed(CoreTick(m), 1))))

-------------------------------------------------------------------------------
(* The fast-forward *)

\* The conditions under which stc12_idle_skip_clocks does not return 0.
Skippable(m) ==
  /\ m.idl
  /\ conf.et0
  /\ ~m.tf0 /\ ~m.tf1 /\ ~m.trigger
  /\ m.in = "main"
  /\ conf.tr0
  /\ ~m.tr1

Divisor == IF conf.one_t THEN 1 ELSE Prescale

\* Clocks that still fit inside this slice.
ClocksLeftRoundedUp(m) == 1 + ((m.left * FixedPoint) \div Quantum)  \* slip: rounded up
ClocksLeft(m) == (m.left * FixedPoint) \div Quantum

TicksToOverflow(m) == TimerTop - m.t0  \* slip: the jump goes through the overflow
TicksBeforeOverflow(m) == TimerTop - m.t0 - 1

Least(i, j) == IF i <= j THEN i ELSE j

\* Counter ticks that may be skipped: whole ones, and never the overflow.
SkipTicks(m) == Least(TicksBeforeOverflow(m), ClocksLeft(m) \div Divisor)

\* slip: counter ticks taken for clocks
JumpedByTicks(m) == Passed([m EXCEPT !.t0 = (@ + SkipTicks(m)) % TimerTop], SkipTicks(m))
Jumped(m) == Passed([m EXCEPT !.t0 = (@ + SkipTicks(m)) % TimerTop], SkipTicks(m) * Divisor)

CanSkip(m) == Skippable(m) /\ SkipTicks(m) > 0

-------------------------------------------------------------------------------
(* stc12_advance_to, on the one machine and then on the other *)

SlowClock ==
  /\ slow.left > 0
  /\ slow' = Clock(slow)
  /\ UNCHANGED << conf, fast >>

FastSkip ==
  /\ slow.left <= 0 /\ fast.left > 0
  /\ CanSkip(fast)
  /\ fast' = Jumped(fast)
  /\ UNCHANGED << conf, slow >>

FastClock ==
  /\ slow.left <= 0 /\ fast.left > 0
  /\ ~CanSkip(fast)
  /\ fast' = Clock(fast)
  /\ UNCHANGED << conf, slow >>

\* The host asks both for its next slice.
NextSlice == \E n \in Slices :
  /\ slow.left <= 0 /\ fast.left <= 0
  /\ slow' = [slow EXCEPT !.left = n]
  /\ fast' = [fast EXCEPT !.left = n]
  /\ UNCHANGED conf

Next == SlowClock \/ FastSkip \/ FastClock \/ NextSlice

\* The host never stops asking.
Spec == Init /\ [][Next]_vars /\ WF_vars(Next)

-------------------------------------------------------------------------------
(* Properties *)

TypeOK == conf \in Conf /\ slow \in Machine /\ fast \in Machine

\* What the host can tell: neither how far an instruction has got, nor the phase
\* of a stopped timer's prescaler.
Seen(m) == [m EXCEPT !.delay = 0, !.pre1 = 0]

\* Whenever the host gets control, at any cut of the slices, the fast machine has
\* run the same instructions, taken the same interrupts at the same clocks and
\* counted the same as the slow one.
SlicesAgree == slow.left <= 0 /\ fast.left <= 0 => Seen(slow) = Seen(fast)

\* No jump passes the time the host asked for, however the nanoseconds are
\* rounded.
NeverPastTarget == [][FastSkip => fast'.left >= 0]_vars

\* A core that idles with Timer 0 armed wakes: no jump steps over the overflow it
\* waits for, in this slice or across slices.
IdleWakes == (fast.idl /\ conf.tr0 /\ conf.et0) ~> ~fast.idl
===============================================================================
