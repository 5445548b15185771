---------------------------- MODULE IdleSkipProofs ----------------------------
(***************************************************************************)
(* Proofs about IdleSkip: that the machines keep their shape, that no jump  *)
(* of the fast-forward passes the time the host asked for, however          *)
(* nanoseconds and clocks are rounded into each other, and that the host    *)
(* cannot tell a machine that jumps from one that does not.                 *)
(***************************************************************************)
EXTENDS IdleSkip, TLAPS

USE SizesAssumption, QuantumAssumption

\* What every step keeps of a machine: its type, and that its program counter and
\* its return address are inside their routines, so that there is an opcode to run.
Shape(m) ==
  /\ m \in Machine
  /\ m.at \in 1 .. Len(Code(m.in))
  /\ m.ret \in 1 .. Len(Code("main"))

\* A machine whose program counter and return address have not moved.
LEMMA SamePlace ==
  ASSUME NEW m, Shape(m), NEW n \in Machine, n.in = m.in, n.at = m.at, n.ret = m.ret
  PROVE  Shape(n)
  BY Zenon DEF Shape

-------------------------------------------------------------------------------
(* stc12_tick() and the clock keep the shape. *)

\* What the receiver writes.
LEMMA RxExcept ==
  ASSUME NEW m \in Machine, NEW x \in 0 .. Queued, NEW g \in 0 .. CharClocks, NEW a \in BOOLEAN, NEW b \in BOOLEAN
  PROVE  [m EXCEPT !.rx = x, !.gap = g, !.ri = a, !.trigger = b] \in Machine
  BY DEF Machine

\* A byte received.
LEMMA RxShape == ASSUME NEW m, Shape(m) PROVE Shape(RxTick(m))
<1>1. m \in Machine BY DEF Shape
<1>2. RxTick(m) \in Machine
  <2>1. CASE ~(m.rx > 0 /\ ~m.ri /\ m.gap = 0) BY <1>1, <2>1 DEF RxTick
  <2>2. CASE m.rx > 0 /\ ~m.ri /\ m.gap = 0
    <3>1. m.rx - 1 \in 0 .. Queued BY <1>1, <2>2 DEF Machine
    <3>2. CharClocks \in 0 .. CharClocks /\ TRUE \in BOOLEAN OBVIOUS
    <3>3. RxTick(m) = [m EXCEPT !.rx = m.rx - 1, !.gap = CharClocks, !.ri = TRUE, !.trigger = TRUE]
      BY <2>2, Zenon DEF RxTick
    <3>4. [m EXCEPT !.rx = m.rx - 1, !.gap = CharClocks, !.ri = TRUE, !.trigger = TRUE] \in Machine
      BY <1>1, <3>1, <3>2, RxExcept
    <3> QED BY <3>3, <3>4, Zenon
  <2> QED BY <2>1, <2>2, Zenon
<1>3. RxTick(m).in = m.in /\ RxTick(m).at = m.at /\ RxTick(m).ret = m.ret
  BY <1>1 DEF RxTick, Machine
<1> QED BY <1>2, <1>3, SamePlace, Zenon

\* What Timer 1 writes.
LEMMA T1Except ==
  ASSUME NEW m \in Machine, NEW p \in 0 .. Prescale - 1, NEW v \in 0 .. TimerTop - 1, NEW b \in BOOLEAN
  PROVE  [m EXCEPT !.pre1 = p, !.t1 = v, !.tf1 = b] \in Machine
  BY DEF Machine

\* Timer 1 stays below its overflow.
LEMMA T1Shape == ASSUME NEW m, Shape(m) PROVE Shape(T1Tick(m))
<1> DEFINE wraps == Wraps(m.pre1)
           counts == wraps /\ m.tr1
           overflows == counts /\ m.t1 + 1 = TimerTop
           p == IF wraps THEN 0 ELSE m.pre1 + 1
           v == IF overflows THEN 0 ELSE IF counts THEN m.t1 + 1 ELSE m.t1
           b == m.tf1 \/ overflows
           n == [m EXCEPT !.pre1 = p, !.t1 = v, !.tf1 = b]
<1>1. T1Tick(m) = n BY Zenon DEF T1Tick
<1>2. m \in Machine BY DEF Shape
<1>3. m.t1 \in 0 .. TimerTop - 1 /\ m.pre1 \in 0 .. Prescale - 1 /\ m.tf1 \in BOOLEAN
  BY <1>2 DEF Machine
<1>4. p \in 0 .. Prescale - 1 BY <1>3 DEF Wraps
<1>5. v \in 0 .. TimerTop - 1
  <2> HIDE DEF wraps
  <2> QED BY <1>3
<1>6. b \in BOOLEAN BY <1>3, Zenon
<1> HIDE DEF p, v, b
<1>7. n \in Machine BY <1>2, <1>4, <1>5, <1>6, T1Except, Zenon
<1>8. n.in = m.in /\ n.at = m.at /\ n.ret = m.ret BY <1>2 DEF Machine
<1> HIDE DEF n
<1> QED BY <1>1, <1>7, <1>8, SamePlace, Zenon

\* What Timer 0 writes.
LEMMA T0Except ==
  ASSUME NEW m \in Machine, NEW p \in 0 .. Prescale - 1, NEW v \in 0 .. TimerTop - 1, NEW b \in BOOLEAN
  PROVE  [m EXCEPT !.pre0 = p, !.t0 = v, !.tf0 = b] \in Machine
  BY DEF Machine

\* Timer 0 stays below its overflow.
LEMMA T0Shape ==
  ASSUME NEW m, Shape(m), conf.reload \in 0 .. TimerTop - 1
  PROVE  Shape(T0Tick(m))
<1> DEFINE wraps == Wraps(m.pre0)
           counts == (conf.one_t \/ wraps) /\ conf.tr0
           overflows == counts /\ m.t0 + 1 = TimerTop
           p == IF conf.one_t THEN m.pre0 ELSE IF wraps THEN 0 ELSE m.pre0 + 1
           v == IF overflows THEN conf.reload ELSE IF counts THEN m.t0 + 1 ELSE m.t0
           b == m.tf0 \/ overflows
           n == [m EXCEPT !.pre0 = p, !.t0 = v, !.tf0 = b]
<1>1. T0Tick(m) = n BY Zenon DEF T0Tick
<1>2. m \in Machine BY DEF Shape
<1>3. m.t0 \in 0 .. TimerTop - 1 /\ m.pre0 \in 0 .. Prescale - 1 /\ m.tf0 \in BOOLEAN
  BY <1>2 DEF Machine
<1>4. p \in 0 .. Prescale - 1 BY <1>3 DEF Wraps
<1>5. v \in 0 .. TimerTop - 1
  <2> HIDE DEF counts
  <2> QED BY <1>3
<1>6. b \in BOOLEAN BY <1>3, Zenon
<1> HIDE DEF p, v, b
<1>7. n \in Machine BY <1>2, <1>4, <1>5, <1>6, T0Except, Zenon
<1>8. n.in = m.in /\ n.at = m.at /\ n.ret = m.ret BY <1>2 DEF Machine
<1> HIDE DEF n
<1> QED BY <1>1, <1>7, <1>8, SamePlace, Zenon

\* What the clock writes.
LEMMA PassedExcept ==
  ASSUME NEW m \in Machine, NEW f \in 0 .. FixedPoint - 1, NEW l \in Int, NEW g \in 0 .. CharClocks
  PROVE  [m EXCEPT !.frac = f, !.left = l, !.gap = g] \in Machine
  BY DEF Machine

\* A quotient rounded down, multiplied back, is no more than what was divided.
LEMMA DivMul == ASSUME NEW c \in Nat \ {0}, NEW x \in Nat
                PROVE x \div c \in Nat /\ c * (x \div c) <= x
  BY SMTT(30)

\* Any number of clocks leave a remainder of less than a nanosecond.
LEMMA PassedShape == ASSUME NEW m, Shape(m), NEW n \in Nat PROVE Shape(Passed(m, n))
<1> DEFINE acc == m.frac + n * Quantum
           g == IF n < m.gap THEN m.gap - n ELSE 0
           l == m.left - (acc \div FixedPoint)
           k == [m EXCEPT !.frac = acc % FixedPoint, !.left = l, !.gap = g]
<1>1. m \in Machine BY DEF Shape
<1>2. m.frac \in 0 .. FixedPoint - 1 /\ m.left \in Int /\ m.gap \in 0 .. CharClocks
  BY <1>1 DEF Machine
<1>3. acc \in Nat BY <1>2
<1>4. acc % FixedPoint \in 0 .. FixedPoint - 1 /\ l \in Int
  <2> HIDE DEF acc
  <2> QED BY <1>2, <1>3
<1>5. g \in 0 .. CharClocks BY <1>2
<1>6. Passed(m, n) = k BY Zenon DEF Passed
<1> HIDE DEF acc, g, l
<1>7. k \in Machine BY <1>1, <1>4, <1>5, PassedExcept, Zenon
<1>8. k.in = m.in /\ k.at = m.at /\ k.ret = m.ret BY <1>1 DEF Machine
<1> HIDE DEF k
<1> QED BY <1>6, <1>7, <1>8, SamePlace, Zenon

-------------------------------------------------------------------------------
(* tick() keeps the shape. *)

\* The main loop is a program.
LEMMA MainType == ASSUME conf \in Conf PROVE conf.main \in Seq(Op) /\ Len(conf.main) \in Nat \ {0}
<1>1. conf.main \in MainLoops BY DEF Conf
<1>2. conf.main \in Seq(Op) /\ conf.main # << >> BY <1>1, MainLoopsAssumption
<1> QED BY <1>2

\* So are the service routines.
LEMMA CodeType ==
  ASSUME conf \in Conf, NEW r \in {"main", "T0", "SER"}
  PROVE  /\ Code(r) \in Seq(Op)
         /\ Len(Code(r)) \in Nat \ {0}
         /\ r # "main" => Len(Code(r)) = 2
<1>1. CASE r = "main" BY <1>1, MainType DEF Code
<1>2. CASE r = "T0" BY <1>2 DEF Code, Op
<1>3. CASE r = "SER" BY <1>3 DEF Code, Op
<1> QED BY <1>1, <1>2, <1>3

\* The places a vector writes, and the flags.
LEMMA PlaceExcept ==
  ASSUME NEW m \in Machine, NEW s \in {"main", "T0", "SER"}, NEW x \in Nat, NEW y \in Nat
  PROVE  [m EXCEPT !.in = s, !.at = x, !.ret = y] \in Machine
  BY DEF Machine

\* The flags a vector writes.
LEMMA FlagsExcept ==
  ASSUME NEW m \in Machine, NEW a \in BOOLEAN, NEW b \in BOOLEAN, NEW d \in 0 .. 2
  PROVE  [m EXCEPT !.idl = FALSE, !.delay = d, !.tf0 = a, !.trigger = b] \in Machine
  BY DEF Machine

\* What a vector writes.
LEMMA VectorExcept ==
  ASSUME NEW m \in Machine, NEW s \in {"T0", "SER"}, NEW a \in BOOLEAN, NEW b \in BOOLEAN
  PROVE  [m EXCEPT !.in = s, !.at = 1, !.ret = m.at, !.idl = FALSE,
                   !.delay = 2, !.tf0 = a, !.trigger = b] \in Machine
<1> DEFINE k == [m EXCEPT !.in = s, !.at = 1, !.ret = m.at]
<1>1. m.at \in Nat BY DEF Machine
<1>2. 1 \in Nat /\ 2 \in 0 .. 2 OBVIOUS
<1>3. k \in Machine BY <1>1, <1>2, PlaceExcept
<1>4. [m EXCEPT !.in = s, !.at = 1, !.ret = m.at, !.idl = FALSE, !.delay = 2, !.tf0 = a, !.trigger = b]
      = [k EXCEPT !.idl = FALSE, !.delay = 2, !.tf0 = a, !.trigger = b]
  BY DEF Machine
<1> HIDE DEF k
<1>5. [k EXCEPT !.idl = FALSE, !.delay = 2, !.tf0 = a, !.trigger = b] \in Machine
  BY <1>2, <1>3, FlagsExcept, Zenon
<1> QED BY <1>4, <1>5, Zenon

\* Both vectors.
LEMMA VectorShape ==
  ASSUME NEW m, Shape(m), NEW s \in {"T0", "SER"}, m.in = "main", Len(Code(s)) = 2
  PROVE  Shape(Vector(m, s))
<1> DEFINE a == m.tf0 /\ s # "T0"
           b == m.trigger /\ s # "SER"
           n == [m EXCEPT !.in = s, !.at = 1, !.ret = m.at, !.idl = FALSE,
                          !.delay = 2, !.tf0 = a, !.trigger = b]
<1>1. Vector(m, s) = n BY Zenon DEF Vector
<1>2. m \in Machine BY DEF Shape
<1>3. m.tf0 \in BOOLEAN /\ m.trigger \in BOOLEAN BY <1>2 DEF Machine
<1>4. a \in BOOLEAN /\ b \in BOOLEAN BY <1>3, Zenon
<1> HIDE DEF a, b
<1>5a. n \in Machine BY <1>2, <1>4, VectorExcept, Zenon
<1>5b. n.in = s /\ n.at = 1 /\ n.ret = m.at BY <1>2 DEF Machine
<1>5. n \in Machine /\ n.in = s /\ n.at = 1 /\ n.ret = m.at BY <1>5a, <1>5b, Zenon
<1> HIDE DEF n
<1>6. n.at \in 1 .. Len(Code(n.in))
  <2>1. Len(Code(n.in)) = 2 BY <1>5, Zenon
  <2>2. 1 \in 1 .. 2 OBVIOUS
  <2> QED BY <1>5, <2>1, <2>2, Zenon
<1>7. n.ret \in 1 .. Len(Code("main")) BY <1>5, Zenon DEF Shape
<1> QED BY <1>1, <1>5, <1>6, <1>7, Zenon DEF Shape

\* The effect of each opcode.
LEMMA EffectShape == ASSUME NEW m, Shape(m), NEW op \in Op PROVE Shape(Effect(m, op))
<1> DEFINE n == Effect(m, op)
<1>0. m \in Machine BY DEF Shape
<1>1. CASE op \in {"idle", "work", "t1on", "t1off", "t1clr", "riclr"}
  <2>1. n \in Machine BY <1>0, <1>1 DEF Effect, Machine
  <2>2. n.in = m.in /\ n.at = m.at /\ n.ret = m.ret BY <1>0, <1>1 DEF Effect, Machine
  <2> QED BY <2>1, <2>2, SamePlace, Zenon
<1>2. CASE op = "reti"
  <2>1. Effect(m, op) = [m EXCEPT !.in = "main", !.at = m.ret] BY <1>2 DEF Effect
  <2>2. n \in Machine /\ n.in = "main" /\ n.at = m.ret /\ n.ret = m.ret
    BY <1>0, <2>1 DEF Machine
  <2> HIDE DEF n
  <2>3. Shape(n) BY <2>2, Zenon DEF Shape
  <2> QED BY <2>3 DEF n
<1> QED BY <1>1, <1>2 DEF Op

\* One opcode: the program counter goes round its routine.
LEMMA ExecuteShape == ASSUME NEW m, Shape(m), conf \in Conf PROVE Shape(Execute(m))
<1> DEFINE op == Code(m.in)[m.at]
           d == OpReturn(op)
           a == 1 + (m.at % Len(Code(m.in)))
           n == [m EXCEPT !.at = a, !.delay = d]
<1>0. m \in Machine BY DEF Shape
<1>1. m.in \in {"main", "T0", "SER"} /\ m.at \in 1..Len(Code(m.in)) BY <1>0 DEF Shape, Machine
<1>2. Code(m.in) \in Seq(Op) /\ Len(Code(m.in)) \in Nat \ {0} BY <1>1, CodeType
<1>3. op \in Op BY <1>1, <1>2
<1>4. a \in 1..Len(Code(m.in)) /\ a \in Nat BY <1>1, <1>2
<1>5. d \in 0 .. 2 BY DEF OpReturn
<1> HIDE DEF op, d, a
<1>6. n \in Machine /\ n.at = a /\ n.in = m.in /\ n.ret = m.ret BY <1>0, <1>4, <1>5 DEF Machine
<1>7. Execute(m) = Effect(n, op) BY Zenon DEF Execute, op, d, a
<1> HIDE DEF n
<1>8. Shape(n) BY <1>4, <1>6, Zenon DEF Shape
<1> QED BY <1>3, <1>7, <1>8, EffectShape

\* A tick that only runs the instruction's delay down, or idles.
LEMMA DelayShape == ASSUME NEW m, Shape(m), NEW d \in 0 .. 2 PROVE Shape([m EXCEPT !.delay = d])
<1> DEFINE n == [m EXCEPT !.delay = d]
<1>1. m \in Machine BY DEF Shape
<1>2. n \in Machine /\ n.in = m.in /\ n.at = m.at /\ n.ret = m.ret BY <1>1 DEF Machine
<1> HIDE DEF n
<1>3. Shape(n) BY <1>2, SamePlace, Zenon
<1> QED BY <1>3 DEF n

\* One call of tick().
LEMMA CoreShape == ASSUME NEW m, Shape(m), conf \in Conf PROVE Shape(CoreTick(m))
<1>0. m \in Machine BY DEF Shape
<1>1. CASE m.delay > 1
  <2>1. CoreTick(m) = [m EXCEPT !.delay = m.delay - 1] BY <1>1, Zenon DEF CoreTick
  <2>2. m.delay - 1 \in 0 .. 2 BY <1>0, <1>1 DEF Machine
  <2> QED BY <2>1, <2>2, DelayShape, Zenon
<1>2. CASE ~(m.delay > 1) /\ m.in = "main" /\ Request(m) # "none"
  <2>1. Request(m) \in {"T0", "SER"} BY <1>2 DEF Request
  <2>2. CoreTick(m) = Vector(m, Request(m)) BY <1>2, Zenon DEF CoreTick
  <2>3. Shape(Vector(m, Request(m))) BY <1>2, <2>1, CodeType, VectorShape
  <2> QED BY <2>2, <2>3, Zenon
<1>3. CASE ~(m.delay > 1) /\ ~(m.in = "main" /\ Request(m) # "none") /\ m.idl
  <2>1. CoreTick(m) = [m EXCEPT !.delay = 1] BY <1>3, Zenon DEF CoreTick
  <2>2. 1 \in 0 .. 2 OBVIOUS
  <2>3. Shape([m EXCEPT !.delay = 1]) BY <2>2, DelayShape, Zenon
  <2> QED BY <2>1, <2>3, Zenon
<1>4. CASE ~(m.delay > 1) /\ ~(m.in = "main" /\ Request(m) # "none") /\ ~m.idl
  <2>1. CoreTick(m) = Execute(m) BY <1>4, Zenon DEF CoreTick
  <2> QED BY <2>1, ExecuteShape, Zenon
<1> QED BY <1>1, <1>2, <1>3, <1>4, Zenon

\* One oscillator clock: tick() and stc12_tick().
LEMMA ClockShape == ASSUME NEW m, Shape(m), conf \in Conf PROVE Shape(Clock(m))
<1>1. Shape(CoreTick(m)) BY CoreShape, Zenon
<1>2. Shape(Passed(CoreTick(m), 1)) BY <1>1, PassedShape
<1>3. Shape(RxTick(Passed(CoreTick(m), 1))) BY <1>2, RxShape, Zenon
<1>4. conf.reload \in 0 .. TimerTop - 1 BY DEF Conf
<1>5. Shape(T0Tick(RxTick(Passed(CoreTick(m), 1)))) BY <1>3, <1>4, T0Shape, Zenon
<1> QED BY <1>5, T1Shape, Zenon DEF Clock

-------------------------------------------------------------------------------
(* The jump. *)

\* A number below the next multiple has no larger quotient.
LEMMA DivLe == ASSUME NEW c \in Nat \ {0}, NEW x \in Nat, NEW k \in Nat, x < c * (k + 1)
               PROVE x \div c <= k
  BY SMTT(30)

\* Multiplication by a natural number is monotone.
LEMMA MulMono == ASSUME NEW a \in Nat, NEW b \in Nat, NEW q \in Nat, a <= b
                 PROVE a * q <= b * q
  BY SMTT(30)

\* As many clocks as fit the nanoseconds left, rounded down, take no more than
\* those nanoseconds, whatever fraction of one has already been counted.
LEMMA RoundTrip ==
  ASSUME NEW fp \in Nat \ {0}, NEW q \in Nat \ {0}, NEW left \in Nat,
         NEW frac \in 0 .. fp - 1, NEW n \in Nat, n <= (left * fp) \div q
  PROVE  (frac + n * q) \div fp <= left
<1>1. q * ((left * fp) \div q) <= left * fp BY DivMul
<1>2. n * q <= ((left * fp) \div q) * q BY DivMul, MulMono
<1>3. n * q <= left * fp BY <1>1, <1>2, DivMul
<1>4. n * q \in Nat OBVIOUS
<1>5. frac + n * q < fp * (left + 1) BY <1>3, <1>4
<1> QED BY <1>4, <1>5, DivLe

\* The clocks skipped fit the slice, and the count stays short of the overflow.
LEMMA SkipFits ==
  ASSUME NEW m \in Machine, CanSkip(m), m.left > 0
  PROVE  /\ SkipTicks(m) \in Nat \ {0}
         /\ SkipTicks(m) * Divisor \in Nat
         /\ SkipTicks(m) * Divisor <= (m.left * FixedPoint) \div Quantum
         /\ m.t0 + SkipTicks(m) \in 0 .. TimerTop - 1
<1> DEFINE c == (m.left * FixedPoint) \div Quantum
<1>0. m.t0 \in 0 .. TimerTop - 1 BY DEF Machine
<1>1. Divisor \in Nat \ {0} BY DEF Divisor
<1>2. m.left \in Nat BY DEF Machine
<1>3. m.left * FixedPoint \in Nat BY <1>2
<1>4. c \in Nat BY <1>3, DivMul
<1>5. c \div Divisor \in Nat /\ Divisor * (c \div Divisor) <= c BY <1>1, <1>4, DivMul
<1>6. SkipTicks(m) = Least(TimerTop - m.t0 - 1, c \div Divisor)
  BY Zenon DEF SkipTicks, TicksBeforeOverflow, ClocksLeft
<1> HIDE DEF c
<1>7. SkipTicks(m) \in Nat \ {0} /\ SkipTicks(m) <= c \div Divisor /\ SkipTicks(m) <= TimerTop - m.t0 - 1
  BY <1>0, <1>5, <1>6 DEF Least, CanSkip
<1>8. SkipTicks(m) * Divisor <= (c \div Divisor) * Divisor BY <1>1, <1>5, <1>7, MulMono
<1>9. SkipTicks(m) * Divisor \in Nat /\ SkipTicks(m) * Divisor <= c BY <1>1, <1>4, <1>5, <1>7, <1>8
<1>10. m.t0 + SkipTicks(m) \in 0 .. TimerTop - 1 BY <1>0, <1>7
<1> QED BY <1>7, <1>9, <1>10, Zenon DEF c

\* A jump keeps the shape and does not pass the target.
LEMMA JumpFacts ==
  ASSUME NEW m, Shape(m), CanSkip(m), m.left > 0
  PROVE  Shape(Jumped(m)) /\ Jumped(m).left >= 0
<1> DEFINE n == SkipTicks(m) * Divisor
           v == (m.t0 + SkipTicks(m)) % TimerTop
           k == [m EXCEPT !.t0 = v]
<1>0. m \in Machine BY DEF Shape
<1>1. n \in Nat /\ n <= (m.left * FixedPoint) \div Quantum BY <1>0, SkipFits
<1>2. v \in 0 .. TimerTop - 1 BY <1>0, SkipFits
<1>3. Jumped(m) = Passed(k, n) BY Zenon DEF Jumped
<1> HIDE DEF n, v
<1>4. k \in Machine BY <1>0, <1>2 DEF Machine
<1>5. k.in = m.in /\ k.at = m.at /\ k.ret = m.ret /\ k.left = m.left BY <1>0 DEF Machine
<1> HIDE DEF k
<1>6. Shape(k) BY <1>4, <1>5, SamePlace, Zenon
<1>7. Passed(k, n).left = k.left - ((k.frac + n * Quantum) \div FixedPoint)
  BY <1>4 DEF Passed, Machine
<1>8. k.left \in Nat /\ k.frac \in 0 .. FixedPoint - 1 BY <1>4, <1>5 DEF Machine
<1>9. n \in Nat /\ n <= (k.left * FixedPoint) \div Quantum BY <1>1, <1>5
<1>10. Quantum \in Nat \ {0} OBVIOUS
<1>11. (k.frac + n * Quantum) \div FixedPoint <= k.left BY <1>8, <1>9, <1>10, RoundTrip
<1>12. n * Quantum \in Nat BY <1>1
<1>13. k.frac + n * Quantum \in Nat BY <1>8, <1>12
<1>14. (k.frac + n * Quantum) \div FixedPoint \in Nat BY <1>8, <1>13, DivMul
<1>15. Passed(k, n).left >= 0 BY <1>7, <1>11, <1>14, <1>8
<1>16. Shape(Passed(k, n)) BY <1>1, <1>6, PassedShape
<1> QED BY <1>3, <1>15, <1>16

-------------------------------------------------------------------------------
(* Every step keeps the shape. *)

IInv == conf \in Conf /\ Shape(slow) /\ Shape(fast)

\* Power-on machines have the shape.
LEMMA InitShape == Init => IInv
<1> SUFFICES ASSUME Init PROVE IInv OBVIOUS
<1>1. conf \in Conf BY DEF Init
<1>2. Len(Code("main")) \in Nat \ {0} BY <1>1, CodeType
<1>3. PowerOn \in Machine BY DEF PowerOn, Machine
<1>4. PowerOn.in = "main" /\ PowerOn.at = 1 /\ PowerOn.ret = 1 BY DEF PowerOn
<1>5. 1 \in 1 .. Len(Code("main")) BY <1>2
<1>6. Shape(PowerOn) BY <1>3, <1>4, <1>5, Zenon DEF Shape
<1> QED BY <1>1, <1>6, Zenon DEF Init, IInv

\* The routines depend on the state through conf only, which no step changes.
LEMMA SameCode == ASSUME conf' = conf, NEW r PROVE Code(r)' = Code(r)
  BY DEF Code

\* So the shape does.
LEMMA SlowShape == ASSUME conf' = conf, NEW m, Shape(m), slow' = m PROVE Shape(slow)'
  BY SameCode, Zenon DEF Shape

\* The same of the other machine.
LEMMA FastShape == ASSUME conf' = conf, NEW m, Shape(m), fast' = m PROVE Shape(fast)'
  BY SameCode, Zenon DEF Shape

\* A new slice changes only the time left.
LEMMA LeftShape == ASSUME NEW m, Shape(m), NEW n \in Int PROVE Shape([m EXCEPT !.left = n])
<1> DEFINE k == [m EXCEPT !.left = n]
<1>1. m \in Machine BY DEF Shape
<1>2. k \in Machine /\ k.in = m.in /\ k.at = m.at /\ k.ret = m.ret BY <1>1 DEF Machine
<1> HIDE DEF k
<1>3. Shape(k) BY <1>2, SamePlace, Zenon
<1> QED BY <1>3 DEF k

\* Every step keeps both shapes: one case per action.
LEMMA ShapeStep == IInv /\ [Next]_vars => IInv'
<1> SUFFICES ASSUME IInv, [Next]_vars PROVE IInv' OBVIOUS
<1>1. conf \in Conf /\ Shape(slow) /\ Shape(fast) BY DEF IInv
<1>2. conf' = conf BY DEF Next, vars, SlowClock, FastSkip, FastClock, NextSlice
<1>3. (conf \in Conf)' BY <1>1, <1>2 DEF Conf
<1>4. CASE SlowClock
  <2>1. Shape(Clock(slow)) BY <1>1, ClockShape
  <2>2. Shape(slow)' BY <1>2, <1>4, <2>1, SlowShape DEF SlowClock
  <2>3. Shape(fast)' BY <1>1, <1>2, <1>4, FastShape DEF SlowClock
  <2> QED BY <1>3, <2>2, <2>3 DEF IInv
<1>5. CASE FastSkip
  <2>1. Shape(Jumped(fast)) BY <1>1, <1>5, JumpFacts DEF FastSkip
  <2>2. Shape(fast)' BY <1>2, <1>5, <2>1, FastShape DEF FastSkip
  <2>3. Shape(slow)' BY <1>1, <1>2, <1>5, SlowShape DEF FastSkip
  <2> QED BY <1>3, <2>2, <2>3 DEF IInv
<1>6. CASE FastClock
  <2>1. Shape(Clock(fast)) BY <1>1, ClockShape
  <2>2. Shape(fast)' BY <1>2, <1>6, <2>1, FastShape DEF FastClock
  <2>3. Shape(slow)' BY <1>1, <1>2, <1>6, SlowShape DEF FastClock
  <2> QED BY <1>3, <2>2, <2>3 DEF IInv
<1>7. CASE NextSlice
  <2>1. PICK n \in Slices : slow' = [slow EXCEPT !.left = n] /\ fast' = [fast EXCEPT !.left = n]
    BY <1>7 DEF NextSlice
  <2>2. n \in Int OBVIOUS
  <2>3. Shape([slow EXCEPT !.left = n]) /\ Shape([fast EXCEPT !.left = n]) BY <1>1, <2>2, LeftShape
  <2>4. Shape(slow)' BY <1>2, <2>1, <2>3, SlowShape
  <2>5. Shape(fast)' BY <1>2, <2>1, <2>3, FastShape
  <2> QED BY <1>3, <2>4, <2>5 DEF IInv
<1>8. CASE UNCHANGED vars
  <2>1. Shape(slow)' BY <1>1, <1>2, <1>8, SlowShape DEF vars
  <2>2. Shape(fast)' BY <1>1, <1>2, <1>8, FastShape DEF vars
  <2> QED BY <1>3, <2>1, <2>2 DEF IInv
<1> QED BY <1>4, <1>5, <1>6, <1>7, <1>8 DEF Next

\* Both machines keep their shape: every step finds an opcode to run inside its
\* routine.
THEOREM Invariance == Spec => []IInv
  BY InitShape, ShapeStep, PTL DEF Spec

\* Every field of both machines stays in its range: timers, prescalers, delay, the
\* fixed-point remainder of the clock.
THEOREM TypeCorrect == Spec => []TypeOK
<1>1. IInv => TypeOK BY Zenon DEF IInv, Shape, TypeOK
<1> QED BY <1>1, Invariance, PTL

\* No jump of stc12_advance_to passes the time the host asked for, for every clock
\* frequency, fixed-point width, slice, timer width and firmware.
THEOREM NeverPastTargetTheorem == Spec => NeverPastTarget
<1>1. IInv /\ [Next]_vars => [FastSkip => fast'.left >= 0]_vars
  <2> SUFFICES ASSUME IInv, FastSkip PROVE fast'.left >= 0 OBVIOUS
  <2>1. Shape(fast) /\ CanSkip(fast) /\ fast.left > 0 /\ fast' = Jumped(fast) BY DEF IInv, FastSkip
  <2> QED BY <2>1, JumpFacts
<1> QED BY <1>1, Invariance, PTL DEF Spec, NeverPastTarget

-------------------------------------------------------------------------------
(* Two machines that the host cannot tell apart stay so, clock by clock. *)

\* The same in every field but the delay, and but the phase of Timer 1's prescaler
\* when Timer 0 counts clocks.
Same(a, b) ==
  /\ a.in = b.in /\ a.at = b.at /\ a.ret = b.ret /\ a.idl = b.idl
  /\ a.t0 = b.t0 /\ a.pre0 = b.pre0 /\ a.tf0 = b.tf0
  /\ a.t1 = b.t1 /\ a.tf1 = b.tf1 /\ a.tr1 = b.tr1
  /\ a.rx = b.rx /\ a.gap = b.gap /\ a.ri = b.ri /\ a.trigger = b.trigger
  /\ a.frac = b.frac /\ a.left = b.left
  /\ conf.one_t \/ a.pre1 = b.pre1

\* The core is parked and nothing is about to wake it.
Dozing(m) == m.idl /\ m.in = "main" /\ ~m.tf0 /\ ~m.trigger

Near(a, b) == Same(a, b) /\ a.delay = b.delay

\* What the invariant says of the two machines: the delay may differ in a core that
\* dozes, which forgets it on its next tick.
Alike(a, b) == Same(a, b) /\ (a.delay = b.delay \/ Dozing(a))

\* No byte waits, nothing asks for the serial interrupt, and Timer 1 is left alone
\* by a firmware whose Timer 0 counts clocks.
Quiet(m) == m.rx = 0 /\ ~m.trigger /\ (conf.one_t => ~m.tr1)

\* A machine is its fields.
LEMMA SameFields ==
  ASSUME NEW a \in Machine, NEW b \in Machine,
         a.in = b.in, a.at = b.at, a.ret = b.ret, a.delay = b.delay, a.idl = b.idl,
         a.t0 = b.t0, a.pre0 = b.pre0, a.tf0 = b.tf0,
         a.t1 = b.t1, a.pre1 = b.pre1, a.tf1 = b.tf1, a.tr1 = b.tr1,
         a.rx = b.rx, a.gap = b.gap, a.ri = b.ri, a.trigger = b.trigger,
         a.frac = b.frac, a.left = b.left
  PROVE  a = b
  BY DEF Machine

\* What the host does not see.
LEMMA HiddenExcept ==
  ASSUME NEW m \in Machine, NEW d \in 0 .. 2, NEW p \in 0 .. Prescale - 1
  PROVE  [m EXCEPT !.delay = d, !.pre1 = p] \in Machine
  BY DEF Machine

\* The host sees no difference between machines that are alike.
LEMMA AlikeSeen == ASSUME NEW a \in Machine, NEW b \in Machine, Alike(a, b) PROVE Seen(a) = Seen(b)
<1> DEFINE x == Seen(a)
           y == Seen(b)
<1>1. 0 \in 0 .. 2 /\ 0 \in 0 .. Prescale - 1 OBVIOUS
<1>2. x \in Machine /\ y \in Machine BY <1>1, HiddenExcept, Zenon DEF Seen
<1>3. Same(a, b) BY Zenon DEF Alike
<1>4. /\ x.in = y.in /\ x.at = y.at /\ x.ret = y.ret /\ x.delay = y.delay /\ x.idl = y.idl
      /\ x.t0 = y.t0 /\ x.pre0 = y.pre0 /\ x.tf0 = y.tf0
      /\ x.t1 = y.t1 /\ x.pre1 = y.pre1 /\ x.tf1 = y.tf1 /\ x.tr1 = y.tr1
      /\ x.rx = y.rx /\ x.gap = y.gap /\ x.ri = y.ri /\ x.trigger = y.trigger
      /\ x.frac = y.frac /\ x.left = y.left
  BY <1>3 DEF Seen, Same, Machine
<1> HIDE DEF x, y
<1>5. x = y BY <1>2, <1>4, SameFields
<1> QED BY <1>5 DEF x, y

\* Being alike is symmetric.
LEMMA AlikeSym == ASSUME NEW a, NEW b, Alike(a, b) PROVE Alike(b, a)
  BY DEF Alike, Same, Dozing

\* And transitive.
LEMMA AlikeTrans == ASSUME NEW a, NEW b, NEW c, Alike(a, b), Alike(b, c) PROVE Alike(a, c)
  BY DEF Alike, Same, Dozing

\* Each opcode does the same to both.
LEMMA EffectNear ==
  ASSUME NEW a \in Machine, NEW b \in Machine, Near(a, b), NEW op \in Op
  PROVE  Near(Effect(a, op), Effect(b, op))
<1>1. CASE op = "idle" BY <1>1 DEF Effect, Near, Same, Machine
<1>2. CASE op = "work" BY <1>2 DEF Effect
<1>3. CASE op = "t1on" BY <1>3 DEF Effect, Near, Same, Machine
<1>4. CASE op = "t1off" BY <1>4 DEF Effect, Near, Same, Machine
<1>5. CASE op = "t1clr" BY <1>5 DEF Effect, Near, Same, Machine
<1>6. CASE op = "riclr" BY <1>6 DEF Effect, Near, Same, Machine
<1>7. CASE op = "reti" BY <1>7 DEF Effect, Near, Same, Machine
<1> QED BY <1>1, <1>2, <1>3, <1>4, <1>5, <1>6, <1>7 DEF Op

\* Both execute the same opcode.
LEMMA ExecuteNear ==
  ASSUME NEW a, NEW b, Shape(a), Shape(b), Near(a, b), conf \in Conf
  PROVE  Near(Execute(a), Execute(b))
<1> DEFINE op == Code(a.in)[a.at]
           d == OpReturn(op)
           x == 1 + (a.at % Len(Code(a.in)))
           p == [a EXCEPT !.at = x, !.delay = d]
           q == [b EXCEPT !.at = x, !.delay = d]
<1>0. a \in Machine /\ b \in Machine BY DEF Shape
<1>1. a.in \in {"main", "T0", "SER"} /\ a.at \in 1..Len(Code(a.in)) BY <1>0 DEF Shape, Machine
<1>2. Code(a.in) \in Seq(Op) /\ Len(Code(a.in)) \in Nat \ {0} BY <1>1, CodeType
<1>3. op \in Op BY <1>1, <1>2
<1>4. x \in Nat BY <1>1, <1>2
<1>5. d \in 0 .. 2 BY DEF OpReturn
<1>6. a.in = b.in /\ a.at = b.at BY Zenon DEF Near, Same
<1>7. Execute(a) = Effect(p, op) BY Zenon DEF Execute
<1>8. Execute(b) = Effect(q, op) BY <1>6, Zenon DEF Execute
<1> HIDE DEF op, d, x
<1>9. p \in Machine BY <1>0, <1>4, <1>5 DEF Machine
<1>10. q \in Machine BY <1>0, <1>4, <1>5 DEF Machine
<1>11. Near(p, q) BY <1>0 DEF Near, Same, Machine
<1> HIDE DEF p, q
<1>12. Near(Effect(p, op), Effect(q, op)) BY <1>3, <1>9, <1>10, <1>11, EffectNear
<1> QED BY <1>7, <1>8, <1>12, Zenon

\* Both take the same interrupt.
LEMMA VectorNear ==
  ASSUME NEW a \in Machine, NEW b \in Machine, Near(a, b), NEW s \in {"T0", "SER"}
  PROVE  Near(Vector(a, s), Vector(b, s))
<1> DEFINE f == a.tf0 /\ s # "T0"
           g == a.trigger /\ s # "SER"
           p == [a EXCEPT !.in = s, !.at = 1, !.ret = a.at, !.idl = FALSE,
                          !.delay = 2, !.tf0 = f, !.trigger = g]
           q == [b EXCEPT !.in = s, !.at = 1, !.ret = b.at, !.idl = FALSE,
                          !.delay = 2, !.tf0 = f, !.trigger = g]
<1>1. a.tf0 = b.tf0 /\ a.trigger = b.trigger BY Zenon DEF Near, Same
<1>2. Vector(a, s) = p BY Zenon DEF Vector
<1>3. Vector(b, s) = q BY <1>1, Zenon DEF Vector
<1> HIDE DEF f, g
<1>4. Near(p, q) BY DEF Near, Same, Machine
<1> QED BY <1>2, <1>3, <1>4, Zenon

\* A tick of a core that dozes leaves it dozing, whatever its delay was.
LEMMA DozingTick ==
  ASSUME NEW m \in Machine, Dozing(m)
  PROVE  CoreTick(m) = [m EXCEPT !.delay = 1]
<1>1. CASE m.delay > 1
  <2>1. m.delay - 1 = 1 BY <1>1 DEF Machine
  <2>2. CoreTick(m) = [m EXCEPT !.delay = m.delay - 1] BY <1>1, Zenon DEF CoreTick
  <2> QED BY <2>1, <2>2
<1>2. CASE ~(m.delay > 1)
  <2>1. Request(m) = "none" BY DEF Request, Dozing
  <2> QED BY <1>2, <2>1, Zenon DEF CoreTick, Dozing
<1> QED BY <1>1, <1>2, Zenon

\* One call of tick() on each.
LEMMA CoreNear ==
  ASSUME NEW a, NEW b, Shape(a), Shape(b), Alike(a, b), conf \in Conf
  PROVE  Near(CoreTick(a), CoreTick(b))
<1>0. a \in Machine /\ b \in Machine BY DEF Shape
<1>1. CASE Dozing(a)
  <2>1. Dozing(b) BY <1>1 DEF Alike, Same, Dozing
  <2>2. CoreTick(a) = [a EXCEPT !.delay = 1] BY <1>0, <1>1, DozingTick
  <2>3. CoreTick(b) = [b EXCEPT !.delay = 1] BY <1>0, <2>1, DozingTick
  <2>4. Near([a EXCEPT !.delay = 1], [b EXCEPT !.delay = 1])
    BY <1>0 DEF Near, Alike, Same, Machine
  <2> QED BY <2>2, <2>3, <2>4, Zenon
<1>2. CASE ~Dozing(a)
  <2>1. Near(a, b) BY <1>2, Zenon DEF Alike, Near
  <2>2. a.delay = b.delay /\ a.in = b.in /\ a.idl = b.idl BY <2>1, Zenon DEF Near, Same
  <2>3. Request(a) = Request(b) BY <2>1 DEF Near, Same, Request
  <2>4. CASE a.delay > 1
    <3>1. CoreTick(a) = [a EXCEPT !.delay = a.delay - 1] BY <2>4, Zenon DEF CoreTick
    <3>2. CoreTick(b) = [b EXCEPT !.delay = a.delay - 1] BY <2>2, <2>4, Zenon DEF CoreTick
    <3>3. Near([a EXCEPT !.delay = a.delay - 1], [b EXCEPT !.delay = a.delay - 1])
      BY <1>0, <2>1 DEF Near, Same, Machine
    <3> QED BY <3>1, <3>2, <3>3, Zenon
  <2>5. CASE ~(a.delay > 1) /\ a.in = "main" /\ Request(a) # "none"
    <3>1. Request(a) \in {"T0", "SER"} BY <2>5 DEF Request
    <3>2. CoreTick(a) = Vector(a, Request(a)) BY <2>5, Zenon DEF CoreTick
    <3>3. CoreTick(b) = Vector(b, Request(a)) BY <2>2, <2>3, <2>5, Zenon DEF CoreTick
    <3>4. Near(Vector(a, Request(a)), Vector(b, Request(a))) BY <1>0, <2>1, <3>1, VectorNear
    <3> QED BY <3>2, <3>3, <3>4, Zenon
  <2>6. CASE ~(a.delay > 1) /\ ~(a.in = "main" /\ Request(a) # "none") /\ a.idl
    <3>1. CoreTick(a) = [a EXCEPT !.delay = 1] BY <2>6, Zenon DEF CoreTick
    <3>2. CoreTick(b) = [b EXCEPT !.delay = 1] BY <2>2, <2>3, <2>6, Zenon DEF CoreTick
    <3>3. Near([a EXCEPT !.delay = 1], [b EXCEPT !.delay = 1]) BY <1>0, <2>1 DEF Near, Same, Machine
    <3> QED BY <3>1, <3>2, <3>3, Zenon
  <2>7. CASE ~(a.delay > 1) /\ ~(a.in = "main" /\ Request(a) # "none") /\ ~a.idl
    <3>1. CoreTick(a) = Execute(a) BY <2>7, Zenon DEF CoreTick
    <3>2. CoreTick(b) = Execute(b) BY <2>2, <2>3, <2>7, Zenon DEF CoreTick
    <3>3. Near(Execute(a), Execute(b)) BY <2>1, ExecuteNear
    <3> QED BY <3>1, <3>2, <3>3, Zenon
  <2> QED BY <2>4, <2>5, <2>6, <2>7, Zenon
<1> QED BY <1>1, <1>2, Zenon

\* Both clocks advance by as much.
LEMMA PassedNear ==
  ASSUME NEW a \in Machine, NEW b \in Machine, Same(a, b), NEW n
  PROVE  /\ Same(Passed(a, n), Passed(b, n))
         /\ Passed(a, n).delay = a.delay /\ Passed(b, n).delay = b.delay
<1> DEFINE f == (a.frac + n * Quantum) % FixedPoint
           l == a.left - ((a.frac + n * Quantum) \div FixedPoint)
           g == IF n < a.gap THEN a.gap - n ELSE 0
           p == [a EXCEPT !.frac = f, !.left = l, !.gap = g]
           q == [b EXCEPT !.frac = f, !.left = l, !.gap = g]
<1>1. a.frac = b.frac /\ a.left = b.left /\ a.gap = b.gap BY Zenon DEF Same
<1>2. Passed(a, n) = p BY Zenon DEF Passed
<1>3. Passed(b, n) = q BY <1>1, Zenon DEF Passed
<1> HIDE DEF f, l, g
<1>4. Same(p, q) /\ p.delay = a.delay /\ q.delay = b.delay BY DEF Same, Machine
<1> QED BY <1>2, <1>3, <1>4, Zenon

\* Both receive the same.
LEMMA RxNear ==
  ASSUME NEW a \in Machine, NEW b \in Machine, Near(a, b)
  PROVE  Near(RxTick(a), RxTick(b))
<1>1. a.rx = b.rx /\ a.ri = b.ri /\ a.gap = b.gap BY Zenon DEF Near, Same
<1>2. CASE a.rx > 0 /\ ~a.ri /\ a.gap = 0
  <2>1. RxTick(a) = [a EXCEPT !.rx = a.rx - 1, !.gap = CharClocks, !.ri = TRUE, !.trigger = TRUE]
    BY <1>2, Zenon DEF RxTick
  <2>2. RxTick(b) = [b EXCEPT !.rx = a.rx - 1, !.gap = CharClocks, !.ri = TRUE, !.trigger = TRUE]
    BY <1>1, <1>2, Zenon DEF RxTick
  <2> QED BY <2>1, <2>2 DEF Near, Same, Machine
<1>3. CASE ~(a.rx > 0 /\ ~a.ri /\ a.gap = 0)
  <2>1. RxTick(a) = a BY <1>3, Zenon DEF RxTick
  <2>2. RxTick(b) = b BY <1>1, <1>3, Zenon DEF RxTick
  <2> QED BY <2>1, <2>2, Zenon
<1> QED BY <1>2, <1>3, Zenon

\* Both count the same on Timer 0.
LEMMA T0Near ==
  ASSUME NEW a \in Machine, NEW b \in Machine, Near(a, b)
  PROVE  Near(T0Tick(a), T0Tick(b))
<1> DEFINE wraps == Wraps(a.pre0)
           counts == (conf.one_t \/ wraps) /\ conf.tr0
           overflows == counts /\ a.t0 + 1 = TimerTop
           x == IF conf.one_t THEN a.pre0 ELSE IF wraps THEN 0 ELSE a.pre0 + 1
           v == IF overflows THEN conf.reload ELSE IF counts THEN a.t0 + 1 ELSE a.t0
           f == a.tf0 \/ overflows
           p == [a EXCEPT !.pre0 = x, !.t0 = v, !.tf0 = f]
           q == [b EXCEPT !.pre0 = x, !.t0 = v, !.tf0 = f]
<1>1. a.pre0 = b.pre0 /\ a.t0 = b.t0 /\ a.tf0 = b.tf0 BY Zenon DEF Near, Same
<1>2. T0Tick(a) = p BY Zenon DEF T0Tick
<1>3. T0Tick(b) = q BY <1>1, Zenon DEF T0Tick
<1> HIDE DEF x, v, f
<1>4. Near(p, q) BY DEF Near, Same, Machine
<1> QED BY <1>2, <1>3, <1>4, Zenon

\* Both count the same on Timer 1, whose prescalers may differ only while it is
\* never started.
LEMMA T1Near ==
  ASSUME NEW a \in Machine, NEW b \in Machine, Near(a, b), conf.one_t => ~a.tr1
  PROVE  Near(T1Tick(a), T1Tick(b))
<1> DEFINE wraps(m) == Wraps(m.pre1)
           counts(m) == wraps(m) /\ m.tr1
           overflows(m) == counts(m) /\ m.t1 + 1 = TimerTop
           x(m) == IF wraps(m) THEN 0 ELSE m.pre1 + 1
           v(m) == IF overflows(m) THEN 0 ELSE IF counts(m) THEN m.t1 + 1 ELSE m.t1
           f(m) == m.tf1 \/ overflows(m)
           p == [a EXCEPT !.pre1 = x(a), !.t1 = v(a), !.tf1 = f(a)]
           q == [b EXCEPT !.pre1 = x(b), !.t1 = v(b), !.tf1 = f(b)]
<1>1. a.t1 = b.t1 /\ a.tf1 = b.tf1 /\ a.tr1 = b.tr1 /\ (conf.one_t \/ a.pre1 = b.pre1)
  BY Zenon DEF Near, Same
<1>2. T1Tick(a) = p BY Zenon DEF T1Tick
<1>3. T1Tick(b) = q BY Zenon DEF T1Tick
<1>4. v(a) = v(b)
  <2>1. CASE a.tr1 BY <1>1, <2>1, Zenon
  <2>2. CASE ~a.tr1 BY <1>1, <2>2, Zenon
  <2> QED BY <2>1, <2>2
<1>5. f(a) = f(b)
  <2>1. CASE a.tr1 BY <1>1, <2>1, Zenon
  <2>2. CASE ~a.tr1
    <3>1. ~overflows(a) /\ ~overflows(b) BY <1>1, <2>2, Zenon
    <3> HIDE DEF overflows
    <3> QED BY <1>1, <3>1
  <2> QED BY <2>1, <2>2
<1>6. conf.one_t \/ x(a) = x(b) BY <1>1, Zenon
<1> HIDE DEF x, v, f
<1>7. Near(p, q) BY <1>4, <1>5, <1>6 DEF Near, Same, Machine
<1> QED BY <1>2, <1>3, <1>7, Zenon

\* One clock of each.
LEMMA ClockAlike ==
  ASSUME NEW a, NEW b, Shape(a), Shape(b), Alike(a, b), conf \in Conf,
         conf.one_t => ~CoreTick(a).tr1
  PROVE  Alike(Clock(a), Clock(b))
<1> DEFINE a1 == CoreTick(a)      b1 == CoreTick(b)
           a2 == Passed(a1, 1)    b2 == Passed(b1, 1)
           a3 == RxTick(a2)       b3 == RxTick(b2)
           a4 == T0Tick(a3)       b4 == T0Tick(b3)
<1>0. conf.reload \in 0 .. TimerTop - 1 BY DEF Conf
<1>1. Shape(a1) /\ Shape(b1) /\ Near(a1, b1) BY CoreShape, CoreNear, Zenon
<1>2. Shape(a2) /\ Shape(b2)
  <2> HIDE DEF a1, b1
  <2> QED BY <1>1, PassedShape
<1>3. Near(a2, b2)
  <2>1. a1 \in Machine /\ b1 \in Machine BY <1>1, Zenon DEF Shape
  <2> HIDE DEF a1, b1
  <2> QED BY <1>1, <2>1, PassedNear DEF Near
<1>4. a2.tr1 = a1.tr1
  <2>1. a1 \in Machine BY <1>1, Zenon DEF Shape
  <2> HIDE DEF a1
  <2> QED BY <2>1 DEF Passed, Machine
<1>5. a2 \in Machine /\ b2 \in Machine BY <1>2, Zenon DEF Shape
<1> HIDE DEF a2, b2
<1>6. Shape(a3) /\ Shape(b3) BY <1>2, RxShape, Zenon
<1>7. Near(a3, b3) BY <1>3, <1>5, RxNear, Zenon
<1>8. a3.tr1 = a2.tr1 BY <1>5 DEF RxTick, Machine
<1>9. a3 \in Machine /\ b3 \in Machine BY <1>6, Zenon DEF Shape
<1> HIDE DEF a3, b3
<1>10. Shape(a4) /\ Shape(b4) BY <1>0, <1>6, T0Shape, Zenon
<1>11. Near(a4, b4) BY <1>7, <1>9, T0Near, Zenon
<1>12. a4.tr1 = a3.tr1 BY <1>9 DEF T0Tick, Machine
<1>13. a4 \in Machine /\ b4 \in Machine BY <1>10, Zenon DEF Shape
<1> HIDE DEF a4, b4
<1>14. conf.one_t => ~a4.tr1 BY <1>4, <1>8, <1>12, Zenon DEF a1
<1>15. Near(T1Tick(a4), T1Tick(b4)) BY <1>11, <1>13, <1>14, T1Near, Zenon
<1> QED BY <1>15, Zenon DEF Near, Alike, Clock, a4, b4, a3, b3, a2, b2, a1, b1

\* The opcodes a firmware runs while Timer 0 counts clocks leave Timer 1 stopped.
LEMMA NoTimer1 ==
  ASSUME conf \in Conf, ~MixedRates, conf.one_t, NEW r \in {"main", "T0", "SER"},
         NEW i \in 1 .. Len(Code(r))
  PROVE  Code(r)[i] # "t1on"
<1>1. ~UsesT1(conf.main) BY DEF Conf
<1>2. CASE r = "main"
  <2>1. Code(r) = conf.main BY <1>2 DEF Code
  <2> QED BY <1>1, <2>1, Zenon DEF UsesT1
<1>3. CASE r \in {"T0", "SER"}
  <2>1. Len(Code(r)) = 2 BY <1>3, CodeType
  <2>2. i = 1 \/ i = 2 BY <2>1
  <2> QED BY <1>3, <2>2 DEF Code
<1> QED BY <1>2, <1>3

\* A core tick keeps the line quiet.
LEMMA CoreQuiet ==
  ASSUME NEW m, Shape(m), Quiet(m), conf \in Conf, ~MixedRates
  PROVE  Quiet(CoreTick(m))
<1>0. m \in Machine BY DEF Shape
<1>1. CASE m.delay > 1
  <2>1. CoreTick(m) = [m EXCEPT !.delay = m.delay - 1] BY <1>1, Zenon DEF CoreTick
  <2> QED BY <1>0, <2>1 DEF Quiet, Machine
<1>2. CASE ~(m.delay > 1) /\ m.in = "main" /\ Request(m) # "none"
  <2>1. Request(m) = "T0" BY <1>2 DEF Request, Quiet
  <2>2. CoreTick(m) = Vector(m, "T0") BY <1>2, <2>1, Zenon DEF CoreTick
  <2> DEFINE f == m.tf0 /\ "T0" # "T0"
             g == m.trigger /\ "T0" # "SER"
             n == [m EXCEPT !.in = "T0", !.at = 1, !.ret = m.at, !.idl = FALSE,
                            !.delay = 2, !.tf0 = f, !.trigger = g]
  <2>3. CoreTick(m) = n BY <2>2, Zenon DEF Vector
  <2>4. ~g BY Zenon DEF Quiet
  <2> HIDE DEF f, g
  <2> QED BY <1>0, <2>3, <2>4 DEF Quiet, Machine
<1>3. CASE ~(m.delay > 1) /\ ~(m.in = "main" /\ Request(m) # "none") /\ m.idl
  <2>1. CoreTick(m) = [m EXCEPT !.delay = 1] BY <1>3, Zenon DEF CoreTick
  <2> QED BY <1>0, <2>1 DEF Quiet, Machine
<1>4. CASE ~(m.delay > 1) /\ ~(m.in = "main" /\ Request(m) # "none") /\ ~m.idl
  <2> DEFINE op == Code(m.in)[m.at]
             d == OpReturn(op)
             x == 1 + (m.at % Len(Code(m.in)))
             n == [m EXCEPT !.at = x, !.delay = d]
  <2>1. m.in \in {"main", "T0", "SER"} /\ m.at \in 1..Len(Code(m.in)) BY <1>0 DEF Shape, Machine
  <2>2. Code(m.in) \in Seq(Op) /\ Len(Code(m.in)) \in Nat \ {0} BY <2>1, CodeType
  <2>3. op \in Op BY <2>1, <2>2
  <2>4. conf.one_t => op # "t1on" BY <2>1, NoTimer1
  <2>5. x \in Nat BY <2>1, <2>2
  <2>6. d \in 0 .. 2 BY DEF OpReturn
  <2>7. CoreTick(m) = Execute(m) BY <1>4, Zenon DEF CoreTick
  <2>8. CoreTick(m) = Effect(n, op) BY <2>7, Zenon DEF Execute
  <2> HIDE DEF op, d, x
  <2>9. n \in Machine BY <1>0, <2>5, <2>6 DEF Machine
  <2>10. Quiet(n) BY <1>0 DEF Quiet, Machine
  <2> HIDE DEF n
  <2>11. Quiet(Effect(n, op)) BY <2>3, <2>4, <2>9, <2>10 DEF Quiet, Effect, Machine, Op
  <2> QED BY <2>8, <2>11, Zenon
<1> QED BY <1>1, <1>2, <1>3, <1>4, Zenon

\* A clock keeps the line quiet.
LEMMA ClockQuiet ==
  ASSUME NEW m, Shape(m), Quiet(m), conf \in Conf, ~MixedRates
  PROVE  Quiet(Clock(m)) /\ (conf.one_t => ~CoreTick(m).tr1)
<1> DEFINE a1 == CoreTick(m)
           a2 == Passed(a1, 1)
           a3 == RxTick(a2)
           a4 == T0Tick(a3)
           a5 == T1Tick(a4)
<1>0. conf.reload \in 0 .. TimerTop - 1 BY DEF Conf
<1>1. Shape(a1) /\ Quiet(a1) BY CoreShape, CoreQuiet, Zenon
<1>2. a1 \in Machine BY <1>1, Zenon DEF Shape
<1> HIDE DEF a1
<1>3. Shape(a2) BY <1>1, PassedShape
<1>4. Quiet(a2) BY <1>1, <1>2 DEF Passed, Quiet, Machine
<1>5. a2 \in Machine BY <1>3, Zenon DEF Shape
<1> HIDE DEF a2
<1>6. Shape(a3) BY <1>3, RxShape, Zenon
<1>7. a3 = a2
  <2>1. ~(a2.rx > 0) BY <1>4 DEF Quiet
  <2> QED BY <2>1, Zenon DEF RxTick
<1>8. Quiet(a3) /\ a3 \in Machine BY <1>4, <1>5, <1>7, Zenon
<1> HIDE DEF a3
<1>9. Shape(a4) BY <1>0, <1>6, T0Shape, Zenon
<1>10. Quiet(a4) BY <1>8 DEF T0Tick, Quiet, Machine
<1>11. a4 \in Machine BY <1>9, Zenon DEF Shape
<1> HIDE DEF a4
<1>12. Quiet(a5) BY <1>10, <1>11 DEF T1Tick, Quiet, Machine
<1>13. Quiet(Clock(m)) BY <1>12, Zenon DEF Clock, a4, a3, a2, a1
<1>14. conf.one_t => ~CoreTick(m).tr1 BY <1>1, Zenon DEF Quiet, a1
<1> QED BY <1>13, <1>14

-------------------------------------------------------------------------------
(* Quotients and remainders. *)

\* Quotient and remainder are the only ones.
LEMMA DivUnique == ASSUME NEW c \in Nat \ {0}, NEW k \in Nat, NEW r \in 0 .. c - 1
  PROVE (c * k + r) \div c = k /\ (c * k + r) % c = r
  BY SMTT(30)

\* Every natural number is its quotient's multiple and its remainder.
LEMMA DivMod == ASSUME NEW c \in Nat \ {0}, NEW x \in Nat
  PROVE x = c * (x \div c) + (x % c) /\ x \div c \in Nat /\ (x % c) \in 0 .. c - 1
<1> DEFINE k == x \div c  r == x - c * k
<1>1. k \in Nat /\ c * k <= x BY SMTT(30)
<1>2. x < c * (x \div c + 1) BY SMTT(30)
<1>3. c * (k + 1) = c * k + c BY <1>1
<1>4. r \in 0 .. c - 1 /\ x = c * k + r BY <1>1, <1>2, <1>3
<1> HIDE DEF k, r
<1>5. (x % c) = r BY <1>1, <1>4, DivUnique
<1>6. x = c * k + (x % c) BY <1>4, <1>5
<1>7. (x % c) \in 0 .. c - 1 BY <1>4, <1>5
<1> QED BY <1>1, <1>6, <1>7, Zenon DEF k

\* Counting on from a remainder, with the carry added to the quotient, is counting on
\* from the number.
LEMMA AddSplit == ASSUME NEW c \in Nat \ {0}, NEW x \in Nat, NEW q \in Nat
  PROVE ((x % c) + q) % c = (x + q) % c /\ x \div c + ((x % c) + q) \div c = (x + q) \div c
<1> DEFINE k == x \div c   r == (x % c)   j == (r + q) \div c   s == (r + q) % c
<1>1. x = c * k + r /\ k \in Nat /\ r \in 0 .. c - 1 BY DivMod
<1> HIDE DEF k, r
<1>2. r + q = c * j + s /\ j \in Nat /\ s \in 0 .. c - 1
  <2>1. r + q \in Nat BY <1>1
  <2> QED BY <2>1, DivMod
<1> HIDE DEF j, s
<1>3. c * (k + j) = c * k + c * j BY <1>1, <1>2
<1>4. x + q = c * (k + j) + s BY <1>1, <1>2, <1>3
<1>5. k + j \in Nat BY <1>1, <1>2
<1>6. (x + q) \div c = k + j /\ (x + q) % c = s BY <1>2, <1>4, <1>5, DivUnique
<1> QED BY <1>6 DEF k, r, j, s

\* One more: the remainder wraps and carries, or goes up by one.
LEMMA Wrap == ASSUME NEW c \in Nat \ {0}, NEW x \in Nat
  PROVE IF (x % c) + 1 = c THEN (x + 1) % c = 0 /\ (x + 1) \div c = x \div c + 1
        ELSE (x + 1) % c = (x % c) + 1 /\ (x + 1) \div c = x \div c
<1> DEFINE k == x \div c   r == x % c
<1>1. x = c * k + r /\ k \in Nat /\ r \in 0 .. c - 1 BY DivMod
<1> HIDE DEF k, r
<1>2. CASE r + 1 = c
  <2>1. x + 1 = c * (k + 1) + 0 BY <1>1, <1>2
  <2>2. k + 1 \in Nat /\ 0 \in 0 .. c - 1 BY <1>1
  <2>3. (c * (k + 1) + 0) \div c = k + 1 /\ (c * (k + 1) + 0) % c = 0 BY <2>2, DivUnique
  <2> QED BY <1>2, <2>1, <2>3 DEF k, r
<1>3. CASE r + 1 # c
  <2>1. x + 1 = c * k + (r + 1) /\ r + 1 \in 0 .. c - 1 BY <1>1, <1>3
  <2>2. (x + 1) \div c = k /\ (x + 1) % c = r + 1 BY <1>1, <2>1, DivUnique
  <2> QED BY <1>3, <2>2 DEF k, r
<1> QED BY <1>2, <1>3

-------------------------------------------------------------------------------
(* An idle machine, a number of clocks later. *)

\* What Timer 0 counts in that many clocks.
Growth(m, d) == IF conf.one_t THEN d ELSE (m.pre0 + d) \div Prescale

Later(m, d) ==
  Passed([m EXCEPT !.t0 = m.t0 + Growth(m, d),
                   !.pre0 = IF conf.one_t THEN m.pre0 ELSE (m.pre0 + d) % Prescale,
                   !.pre1 = (m.pre1 + d) % Prescale], d)

\* The fields it changes and the ones it keeps.
LEMMA LaterFields ==
  ASSUME NEW m \in Machine, NEW d \in Nat
  PROVE  LET n == Later(m, d) IN
         /\ n.t0 = m.t0 + Growth(m, d)
         /\ n.pre0 = IF conf.one_t THEN m.pre0 ELSE (m.pre0 + d) % Prescale
         /\ n.pre1 = (m.pre1 + d) % Prescale
         /\ n.frac = (m.frac + d * Quantum) % FixedPoint
         /\ n.left = m.left - ((m.frac + d * Quantum) \div FixedPoint)
         /\ n.gap = IF d < m.gap THEN m.gap - d ELSE 0
         /\ n.in = m.in /\ n.at = m.at /\ n.ret = m.ret /\ n.delay = m.delay /\ n.idl = m.idl
         /\ n.tf0 = m.tf0 /\ n.t1 = m.t1 /\ n.tf1 = m.tf1 /\ n.tr1 = m.tr1
         /\ n.rx = m.rx /\ n.ri = m.ri /\ n.trigger = m.trigger
<1> DEFINE g == m.t0 + Growth(m, d)
           p == IF conf.one_t THEN m.pre0 ELSE (m.pre0 + d) % Prescale
           q == (m.pre1 + d) % Prescale
           f == (m.frac + d * Quantum) % FixedPoint
           l == m.left - ((m.frac + d * Quantum) \div FixedPoint)
           h == IF d < m.gap THEN m.gap - d ELSE 0
           k == [m EXCEPT !.t0 = g, !.pre0 = p, !.pre1 = q]
           n == [k EXCEPT !.frac = f, !.left = l, !.gap = h]
<1>1. k.frac = m.frac /\ k.left = m.left /\ k.gap = m.gap BY DEF Machine
<1>2. Later(m, d) = Passed(k, d) BY Zenon DEF Later
<1> HIDE DEF k
<1>3. Passed(k, d) = n BY <1>1, Zenon DEF Passed
<1> HIDE DEF g, p, q, f, l, h
<1>4. /\ n.t0 = g /\ n.pre0 = p /\ n.pre1 = q /\ n.frac = f /\ n.left = l /\ n.gap = h
      /\ n.in = m.in /\ n.at = m.at /\ n.ret = m.ret /\ n.delay = m.delay /\ n.idl = m.idl
      /\ n.tf0 = m.tf0 /\ n.t1 = m.t1 /\ n.tf1 = m.tf1 /\ n.tr1 = m.tr1
      /\ n.rx = m.rx /\ n.ri = m.ri /\ n.trigger = m.trigger
  BY DEF Machine, k
<1> HIDE DEF n
<1>5. Later(m, d) = n BY <1>2, <1>3, Zenon
<1> QED BY <1>4, <1>5, Zenon DEF g, p, q, f, l, h

\* Another three fields.
LEMMA LaterExcept ==
  ASSUME NEW m \in Machine, NEW t \in 0 .. TimerTop - 1, NEW p \in 0 .. Prescale - 1,
         NEW q \in 0 .. Prescale - 1
  PROVE  [m EXCEPT !.t0 = t, !.pre0 = p, !.pre1 = q] \in Machine
  BY DEF Machine

\* Until Timer 0 overflows it is a machine at the same place.
LEMMA LaterShape ==
  ASSUME NEW m, Shape(m), NEW d \in Nat, m.t0 + Growth(m, d) < TimerTop
  PROVE  Shape(Later(m, d))
<1> DEFINE g == m.t0 + Growth(m, d)
           p == IF conf.one_t THEN m.pre0 ELSE (m.pre0 + d) % Prescale
           q == (m.pre1 + d) % Prescale
           k == [m EXCEPT !.t0 = g, !.pre0 = p, !.pre1 = q]
<1>1. m \in Machine BY DEF Shape
<1>2. m.pre0 \in 0 .. Prescale - 1 /\ m.pre1 \in 0 .. Prescale - 1 /\ m.t0 \in 0 .. TimerTop - 1
  BY <1>1 DEF Machine
<1>3. m.pre0 + d \in Nat /\ m.pre1 + d \in Nat BY <1>2
<1>4. Prescale \in Nat \ {0} OBVIOUS
<1>5. p \in 0 .. Prescale - 1 BY <1>2, <1>3, <1>4, DivMod
<1>6. q \in 0 .. Prescale - 1 BY <1>3, <1>4, DivMod
<1>7. Growth(m, d) \in Nat BY <1>3, <1>4, DivMod DEF Growth
<1>8. g \in 0 .. TimerTop - 1 BY <1>2, <1>7
<1>9. Later(m, d) = Passed(k, d) BY Zenon DEF Later
<1> HIDE DEF g, p, q
<1>10. k \in Machine BY <1>1, <1>5, <1>6, <1>8, LaterExcept, Zenon
<1>11. k.in = m.in /\ k.at = m.at /\ k.ret = m.ret BY <1>1 DEF Machine
<1> HIDE DEF k
<1>12. Shape(k) BY <1>10, <1>11, SamePlace, Zenon
<1> QED BY <1>9, <1>12, PassedShape

\* No clocks later it is as it was.
LEMMA LaterZero == ASSUME NEW m \in Machine PROVE Alike(Later(m, 0), m) /\ Growth(m, 0) = 0
<1>1. /\ m.pre0 \in 0 .. Prescale - 1 /\ m.pre1 \in 0 .. Prescale - 1
      /\ m.t0 \in 0 .. TimerTop - 1 /\ m.frac \in 0 .. FixedPoint - 1
      /\ m.left \in Int /\ m.gap \in 0 .. CharClocks
  BY DEF Machine
<1>2. Prescale \in Nat \ {0} /\ FixedPoint \in Nat \ {0} OBVIOUS
<1>3. \A c \in Nat \ {0} : \A r \in 0 .. c - 1 : r \div c = 0 /\ r % c = r
  <2>1. SUFFICES ASSUME NEW c \in Nat \ {0}, NEW r \in 0 .. c - 1 PROVE r \div c = 0 /\ r % c = r
    OBVIOUS
  <2>2. (c * 0 + r) \div c = 0 /\ (c * 0 + r) % c = r BY DivUnique
  <2>3. c * 0 + r = r OBVIOUS
  <2> QED BY <2>2, <2>3
<1>4. m.pre0 \div Prescale = 0 /\ m.pre0 % Prescale = m.pre0 BY <1>1, <1>2, <1>3, Zenon
<1>5. m.pre1 % Prescale = m.pre1 BY <1>1, <1>2, <1>3, Zenon
<1>6. m.frac \div FixedPoint = 0 /\ m.frac % FixedPoint = m.frac BY <1>1, <1>2, <1>3, Zenon
<1>7. m.pre0 + 0 = m.pre0 /\ m.pre1 + 0 = m.pre1 /\ m.frac + 0 * Quantum = m.frac BY <1>1
<1>8. Growth(m, 0) = 0 BY <1>4, <1>7 DEF Growth
<1> DEFINE n == Later(m, 0)
<1>9. 0 \in Nat OBVIOUS
<1>10. /\ n.in = m.in /\ n.at = m.at /\ n.ret = m.ret /\ n.delay = m.delay /\ n.idl = m.idl
       /\ n.tf0 = m.tf0 /\ n.t1 = m.t1 /\ n.tf1 = m.tf1 /\ n.tr1 = m.tr1
       /\ n.rx = m.rx /\ n.ri = m.ri /\ n.trigger = m.trigger
  BY <1>9, LaterFields
<1>11. n.t0 = m.t0
  <2>1. n.t0 = m.t0 + Growth(m, 0) BY <1>9, LaterFields, Zenon
  <2> HIDE DEF n
  <2> QED BY <1>1, <1>8, <2>1
<1>12. n.pre0 = m.pre0
  <2>1. n.pre0 = IF conf.one_t THEN m.pre0 ELSE (m.pre0 + 0) % Prescale BY <1>9, LaterFields, Zenon
  <2> HIDE DEF n
  <2> QED BY <1>4, <1>7, <2>1, Zenon
<1>13. n.pre1 = m.pre1
  <2>1. n.pre1 = (m.pre1 + 0) % Prescale BY <1>9, LaterFields, Zenon
  <2> HIDE DEF n
  <2> QED BY <1>5, <1>7, <2>1, Zenon
<1>14. n.frac = m.frac
  <2>1. n.frac = (m.frac + 0 * Quantum) % FixedPoint BY <1>9, LaterFields, Zenon
  <2> HIDE DEF n
  <2> QED BY <1>6, <1>7, <2>1, Zenon
<1>15. n.left = m.left
  <2>1. n.left = m.left - ((m.frac + 0 * Quantum) \div FixedPoint) BY <1>9, LaterFields, Zenon
  <2>2. n.left = m.left - 0 BY <1>6, <1>7, <2>1, Zenon
  <2> HIDE DEF n
  <2> QED BY <1>1, <2>2
<1>16. n.gap = m.gap
  <2>1. n.gap = IF 0 < m.gap THEN m.gap - 0 ELSE 0 BY <1>9, LaterFields, Zenon
  <2> HIDE DEF n
  <2> QED BY <1>1, <2>1
<1> HIDE DEF n
<1>17. Alike(n, m) BY <1>10, <1>11, <1>12, <1>13, <1>14, <1>15, <1>16, Zenon DEF Alike, Same
<1> QED BY <1>8, <1>17 DEF n

\* The fields of an idle machine after a clock in which Timer 0 does not overflow.
LEMMA IdleClock ==
  ASSUME NEW x \in Machine, Dozing(x), x.rx = 0, conf.tr0, ~x.tr1,
         conf.one_t \/ Wraps(x.pre0) => x.t0 + 1 # TimerTop
  PROVE  LET n == Clock(x) IN
         /\ n.t0 = IF conf.one_t \/ Wraps(x.pre0) THEN x.t0 + 1 ELSE x.t0
         /\ n.pre0 = IF conf.one_t THEN x.pre0 ELSE IF Wraps(x.pre0) THEN 0 ELSE x.pre0 + 1
         /\ n.pre1 = IF Wraps(x.pre1) THEN 0 ELSE x.pre1 + 1
         /\ n.frac = (x.frac + 1 * Quantum) % FixedPoint
         /\ n.left = x.left - ((x.frac + 1 * Quantum) \div FixedPoint)
         /\ n.gap = IF 1 < x.gap THEN x.gap - 1 ELSE 0
         /\ n.in = x.in /\ n.at = x.at /\ n.ret = x.ret /\ n.delay = 1 /\ n.idl = x.idl
         /\ n.tf0 = x.tf0 /\ n.t1 = x.t1 /\ n.tf1 = x.tf1 /\ n.tr1 = x.tr1
         /\ n.rx = x.rx /\ n.ri = x.ri /\ n.trigger = x.trigger
<1>0. x.tf0 \in BOOLEAN /\ x.tf1 \in BOOLEAN BY DEF Machine
<1> DEFINE f == (x.frac + 1 * Quantum) % FixedPoint
           l == x.left - ((x.frac + 1 * Quantum) \div FixedPoint)
           g == IF 1 < x.gap THEN x.gap - 1 ELSE 0
           c == conf.one_t \/ Wraps(x.pre0)
           p == IF conf.one_t THEN x.pre0 ELSE IF Wraps(x.pre0) THEN 0 ELSE x.pre0 + 1
           t == IF c THEN x.t0 + 1 ELSE x.t0
           q == IF Wraps(x.pre1) THEN 0 ELSE x.pre1 + 1
           a1 == CoreTick(x)
           a2 == [a1 EXCEPT !.frac = f, !.left = l, !.gap = g]
           a4 == [a2 EXCEPT !.pre0 = p, !.t0 = t, !.tf0 = x.tf0]
           a5 == [a4 EXCEPT !.pre1 = q, !.t1 = x.t1, !.tf1 = x.tf1]
<1>1. a1 = [x EXCEPT !.delay = 1] BY DozingTick
<1>2. Passed(a1, 1) = a2
  <2>1. a1.frac = x.frac /\ a1.left = x.left /\ a1.gap = x.gap BY <1>1 DEF Machine
  <2> HIDE DEF a1
  <2> QED BY <2>1, Zenon DEF Passed
<1> HIDE DEF f, l, g
<1>3. RxTick(a2) = a2
  <2>1. a2.rx = x.rx BY <1>1 DEF Machine
  <2>2. ~(a2.rx > 0) BY <2>1
  <2> HIDE DEF a2
  <2> QED BY <2>2, Zenon DEF RxTick
<1>4. T0Tick(a2) = a4
  <2>1. a2.pre0 = x.pre0 /\ a2.t0 = x.t0 /\ a2.tf0 = x.tf0 BY <1>1 DEF Machine
  <2> DEFINE o == ((conf.one_t \/ Wraps(x.pre0)) /\ conf.tr0) /\ x.t0 + 1 = TimerTop
             v == IF o THEN conf.reload ELSE IF (conf.one_t \/ Wraps(x.pre0)) /\ conf.tr0 THEN x.t0 + 1 ELSE x.t0
             b == x.tf0 \/ o
  <2> HIDE DEF a2
  <2>2. T0Tick(a2) = [a2 EXCEPT !.pre0 = p, !.t0 = v, !.tf0 = b] BY <2>1, Zenon DEF T0Tick
  <2>3. ~o BY Zenon
  <2>4. v = t BY <2>3, Zenon
  <2>5. b = x.tf0
    <3> HIDE DEF o
    <3> QED BY <1>0, <2>3
  <2> HIDE DEF v, b, p, t
  <2> QED BY <2>2, <2>4, <2>5, Zenon
<1> HIDE DEF p, t
<1>5. T1Tick(a4) = a5
  <2>1. /\ a4.pre1 = x.pre1 /\ a4.t1 = x.t1 /\ a4.tf1 = x.tf1 /\ a4.tr1 = x.tr1
    BY <1>1 DEF Machine
  <2> DEFINE o == (Wraps(x.pre1) /\ x.tr1) /\ x.t1 + 1 = TimerTop
             v == IF o THEN 0 ELSE IF Wraps(x.pre1) /\ x.tr1 THEN x.t1 + 1 ELSE x.t1
             b == x.tf1 \/ o
  <2> HIDE DEF a4
  <2>2. T1Tick(a4) = [a4 EXCEPT !.pre1 = q, !.t1 = v, !.tf1 = b] BY <2>1, Zenon DEF T1Tick
  <2>3. ~o BY Zenon
  <2>4. v = x.t1 BY <2>3, Zenon
  <2>5. b = x.tf1
    <3> HIDE DEF o
    <3> QED BY <1>0, <2>3
  <2> HIDE DEF v, b, q
  <2> QED BY <2>2, <2>4, <2>5, Zenon
<1> HIDE DEF q
<1>6. Clock(x) = a5
  <2> HIDE DEF a5
  <2>1. Clock(x) = T1Tick(T0Tick(RxTick(Passed(a1, 1)))) BY Zenon DEF Clock
  <2> HIDE DEF a4
  <2>2. Clock(x) = T1Tick(T0Tick(RxTick(a2))) BY <1>2, <2>1, Zenon
  <2> HIDE DEF a2
  <2>3. Clock(x) = T1Tick(a4) BY <1>3, <1>4, <2>2, Zenon
  <2> QED BY <1>5, <2>3, Zenon
<1>7. /\ a5.t0 = t /\ a5.pre0 = p /\ a5.pre1 = q /\ a5.frac = f /\ a5.left = l /\ a5.gap = g
      /\ a5.in = x.in /\ a5.at = x.at /\ a5.ret = x.ret /\ a5.delay = 1 /\ a5.idl = x.idl
      /\ a5.tf0 = x.tf0 /\ a5.t1 = x.t1 /\ a5.tf1 = x.tf1 /\ a5.tr1 = x.tr1
      /\ a5.rx = x.rx /\ a5.ri = x.ri /\ a5.trigger = x.trigger
  BY <1>1 DEF Machine
<1> HIDE DEF a5
<1> QED BY <1>6, <1>7, Zenon DEF t, p, q, f, l, g

\* A clock of an idle machine is one clock later, as long as Timer 0 does not
\* overflow in it.
LEMMA LaterOne ==
  ASSUME NEW m, Shape(m), Skippable(m), m.rx = 0, NEW d \in Nat,
         m.t0 + Growth(m, d + 1) < TimerTop
  PROVE  /\ m.t0 + Growth(m, d) < TimerTop
         /\ Alike(Clock(Later(m, d)), Later(m, d + 1))
<1>0. m \in Machine BY DEF Shape
<1>1. /\ m.pre0 \in 0 .. Prescale - 1 /\ m.pre1 \in 0 .. Prescale - 1
      /\ m.t0 \in 0 .. TimerTop - 1 /\ m.frac \in 0 .. FixedPoint - 1
      /\ m.left \in Int /\ m.gap \in 0 .. CharClocks
      /\ m.tf0 \in BOOLEAN /\ m.tf1 \in BOOLEAN
  BY <1>0 DEF Machine
<1>2. Prescale \in Nat \ {0} /\ FixedPoint \in Nat \ {0} OBVIOUS
<1> DEFINE late == (m.pre0 + d) % Prescale
           wrap == late + 1 = Prescale
           count == conf.one_t \/ wrap
<1>3. Growth(m, d) \in Nat /\ Growth(m, d + 1) = Growth(m, d) + (IF count THEN 1 ELSE 0)
  <2>1. m.pre0 + d \in Nat /\ m.pre0 + (d + 1) = (m.pre0 + d) + 1 BY <1>1
  <2>2. CASE conf.one_t BY <2>2 DEF Growth
  <2>3. CASE ~conf.one_t
    <3>1. (m.pre0 + d) \div Prescale \in Nat BY <1>2, <2>1, DivMod
    <3>2. ((m.pre0 + d) + 1) \div Prescale = ((m.pre0 + d) \div Prescale) + (IF wrap THEN 1 ELSE 0)
      <4> DEFINE z == m.pre0 + d
      <4>1. z \in Nat BY <2>1
      <4> HIDE DEF z
      <4>2. IF (z % Prescale) + 1 = Prescale
            THEN (z + 1) % Prescale = 0 /\ (z + 1) \div Prescale = z \div Prescale + 1
            ELSE (z + 1) % Prescale = (z % Prescale) + 1 /\ (z + 1) \div Prescale = z \div Prescale
        BY <1>2, <4>1, Wrap
      <4> QED BY <3>1, <4>2 DEF z
    <3> HIDE DEF wrap
    <3> QED BY <2>1, <2>3, <3>1, <3>2 DEF Growth
  <2> QED BY <2>2, <2>3
<1> DEFINE t == m.t0 + Growth(m, d)
<1>4. t \in 0 .. TimerTop - 1 /\ (count => t + 1 < TimerTop)
      /\ m.t0 + Growth(m, d + 1) = IF count THEN t + 1 ELSE t
  <2> HIDE DEF count
  <2> QED BY <1>1, <1>3
<1>5. t < TimerTop BY <1>4
<1> DEFINE x == Later(m, d)
           y == Later(m, d + 1)
<1>6. Shape(x) BY <1>5, LaterShape
<1>7. x \in Machine BY <1>6, Zenon DEF Shape
<1>8. /\ x.t0 = t
      /\ x.pre0 = IF conf.one_t THEN m.pre0 ELSE late
      /\ x.pre1 = (m.pre1 + d) % Prescale
      /\ x.frac = (m.frac + d * Quantum) % FixedPoint
      /\ x.left = m.left - ((m.frac + d * Quantum) \div FixedPoint)
      /\ x.gap = IF d < m.gap THEN m.gap - d ELSE 0
      /\ x.in = m.in /\ x.at = m.at /\ x.ret = m.ret /\ x.delay = m.delay /\ x.idl = m.idl
      /\ x.tf0 = m.tf0 /\ x.t1 = m.t1 /\ x.tf1 = m.tf1 /\ x.tr1 = m.tr1
      /\ x.rx = m.rx /\ x.ri = m.ri /\ x.trigger = m.trigger
  BY <1>0, LaterFields, Zenon
<1>9. /\ y.t0 = m.t0 + Growth(m, d + 1)
      /\ y.pre0 = IF conf.one_t THEN m.pre0 ELSE (m.pre0 + (d + 1)) % Prescale
      /\ y.pre1 = (m.pre1 + (d + 1)) % Prescale
      /\ y.frac = (m.frac + (d + 1) * Quantum) % FixedPoint
      /\ y.left = m.left - ((m.frac + (d + 1) * Quantum) \div FixedPoint)
      /\ y.gap = IF d + 1 < m.gap THEN m.gap - (d + 1) ELSE 0
      /\ y.in = m.in /\ y.at = m.at /\ y.ret = m.ret /\ y.delay = m.delay /\ y.idl = m.idl
      /\ y.tf0 = m.tf0 /\ y.t1 = m.t1 /\ y.tf1 = m.tf1 /\ y.tr1 = m.tr1
      /\ y.rx = m.rx /\ y.ri = m.ri /\ y.trigger = m.trigger
  <2>1. d + 1 \in Nat OBVIOUS
  <2> HIDE DEF y
  <2> QED BY <1>0, <2>1, LaterFields, Zenon DEF y
<1> HIDE DEF x, y, t, count
<1>10. Dozing(x) BY <1>8 DEF Dozing, Skippable
<1> DEFINE n == Clock(x)
<1>11. conf.one_t \/ Wraps(x.pre0) <=> count BY <1>8, Zenon DEF count, Wraps
<1>12. count => x.t0 + 1 # TimerTop BY <1>4, <1>8
<1>13. conf.tr0 /\ ~x.tr1 /\ x.rx = 0 BY <1>8, Zenon DEF Skippable
<1>14. /\ n.t0 = IF conf.one_t \/ Wraps(x.pre0) THEN x.t0 + 1 ELSE x.t0
       /\ n.pre0 = IF conf.one_t THEN x.pre0 ELSE IF Wraps(x.pre0) THEN 0 ELSE x.pre0 + 1
       /\ n.pre1 = IF Wraps(x.pre1) THEN 0 ELSE x.pre1 + 1
       /\ n.frac = (x.frac + 1 * Quantum) % FixedPoint
       /\ n.left = x.left - ((x.frac + 1 * Quantum) \div FixedPoint)
       /\ n.gap = IF 1 < x.gap THEN x.gap - 1 ELSE 0
       /\ n.in = x.in /\ n.at = x.at /\ n.ret = x.ret /\ n.delay = 1 /\ n.idl = x.idl
       /\ n.tf0 = x.tf0 /\ n.t1 = x.t1 /\ n.tf1 = x.tf1 /\ n.tr1 = x.tr1
       /\ n.rx = x.rx /\ n.ri = x.ri /\ n.trigger = x.trigger
  BY <1>7, <1>10, <1>11, <1>12, <1>13, IdleClock
<1> HIDE DEF n
<1>15. n.t0 = y.t0
  <2> HIDE DEF late
  <2> QED BY <1>4, <1>8, <1>9, <1>11, <1>14, Zenon
<1>16. n.pre0 = y.pre0
  <2>1. CASE conf.one_t BY <1>8, <1>9, <1>14, <2>1, Zenon
  <2>2. CASE ~conf.one_t
    <3>1. x.pre0 = late /\ y.pre0 = (m.pre0 + (d + 1)) % Prescale BY <1>8, <1>9, <2>2, Zenon
    <3>2. n.pre0 = IF late + 1 = Prescale THEN 0 ELSE late + 1 BY <1>14, <2>2, <3>1, Zenon DEF Wraps
    <3> DEFINE z == m.pre0 + d
    <3>3. z \in Nat /\ m.pre0 + (d + 1) = z + 1 BY <1>1
    <3> HIDE DEF z
    <3>4. (z + 1) % Prescale = IF (z % Prescale) + 1 = Prescale THEN 0 ELSE (z % Prescale) + 1
      BY <1>2, <3>3, Wrap
    <3>5. late = z % Prescale BY Zenon DEF z
    <3> HIDE DEF late
    <3> QED BY <3>1, <3>2, <3>3, <3>4, <3>5, Zenon
  <2> QED BY <2>1, <2>2
<1>17. n.pre1 = y.pre1
  <2> DEFINE z == m.pre1 + d
  <2>1. z \in Nat /\ m.pre1 + (d + 1) = z + 1 BY <1>1
  <2>2. x.pre1 = z % Prescale BY <1>8, Zenon
  <2> HIDE DEF z
  <2>3. (z + 1) % Prescale = IF (z % Prescale) + 1 = Prescale THEN 0 ELSE (z % Prescale) + 1
    BY <1>2, <2>1, Wrap
  <2>4. n.pre1 = IF (z % Prescale) + 1 = Prescale THEN 0 ELSE (z % Prescale) + 1
    BY <1>14, <2>2, Zenon DEF Wraps
  <2>5. y.pre1 = (z + 1) % Prescale BY <1>9, <2>1, Zenon
  <2> QED BY <2>3, <2>4, <2>5, Zenon
<1>18. n.frac = y.frac /\ n.left = y.left
  <2> DEFINE z == m.frac + d * Quantum
  <2>1. d * Quantum \in Nat /\ (d + 1) * Quantum = d * Quantum + Quantum BY SMTT(30)
  <2>2. z \in Nat /\ m.frac + (d + 1) * Quantum = z + Quantum /\ 1 * Quantum = Quantum BY <1>1, <2>1
  <2>3. x.frac = z % FixedPoint /\ x.left = m.left - (z \div FixedPoint) BY <1>8, Zenon
  <2> HIDE DEF z
  <2>4. /\ n.frac = ((z % FixedPoint) + Quantum) % FixedPoint
        /\ n.left = (m.left - (z \div FixedPoint)) - (((z % FixedPoint) + Quantum) \div FixedPoint)
    BY <1>14, <2>2, <2>3, Zenon
  <2>5. /\ y.frac = (z + Quantum) % FixedPoint
        /\ y.left = m.left - ((z + Quantum) \div FixedPoint)
    BY <1>9, <2>2, Zenon
  <2>6. /\ ((z % FixedPoint) + Quantum) % FixedPoint = (z + Quantum) % FixedPoint
        /\ z \div FixedPoint + ((z % FixedPoint) + Quantum) \div FixedPoint = (z + Quantum) \div FixedPoint
    BY <1>2, <2>2, AddSplit
  <2> DEFINE u == z \div FixedPoint
             v == ((z % FixedPoint) + Quantum) \div FixedPoint
             w == (z + Quantum) \div FixedPoint
  <2>7. u \in Nat BY <1>2, <2>2, DivMod
  <2>8. v \in Nat
    <3>1. z % FixedPoint \in Nat BY <1>2, <2>2, DivMod
    <3>2. (z % FixedPoint) + Quantum \in Nat BY <3>1
    <3> QED BY <1>2, <3>2, DivMod
  <2>9. u + v = w BY <2>6
  <2>10. n.left = (m.left - u) - v /\ y.left = m.left - w BY <2>4, <2>5, Zenon
  <2> HIDE DEF u, v, w
  <2>11. n.left = y.left BY <1>1, <2>7, <2>8, <2>9, <2>10
  <2> QED BY <2>4, <2>5, <2>6, <2>11, Zenon
<1>19. n.gap = y.gap
  <2>1. CASE d < m.gap
    <3>1. x.gap = m.gap - d BY <1>8, <2>1, Zenon
    <3> QED BY <1>1, <1>9, <1>14, <2>1, <3>1
  <2>2. CASE ~(d < m.gap)
    <3>1. x.gap = 0 BY <1>8, <2>2, Zenon
    <3> QED BY <1>1, <1>9, <1>14, <2>2, <3>1
  <2> QED BY <2>1, <2>2
<1>20. Same(n, y) BY <1>8, <1>9, <1>14, <1>15, <1>16, <1>17, <1>18, <1>19, Zenon DEF Same
<1>21. Dozing(n) BY <1>10, <1>14, Zenon DEF Dozing
<1>22. Alike(n, y) BY <1>20, <1>21, Zenon DEF Alike
<1> QED BY <1>5, <1>22, Zenon DEF n, x, y, t

-------------------------------------------------------------------------------
(* A jump is the machine that many clocks later. *)

\* The jump, and what Timer 0 counts in it.
LEMMA JumpLater ==
  ASSUME NEW m \in Machine, CanSkip(m), m.left > 0
  PROVE  /\ Growth(m, SkipTicks(m) * Divisor) = SkipTicks(m)
         /\ Alike(Jumped(m), Later(m, SkipTicks(m) * Divisor))
<1> DEFINE s == SkipTicks(m)
           k == s * Divisor
           y == Later(m, k)
           v == (m.t0 + s) % TimerTop
           h == [m EXCEPT !.t0 = v]
           j == Jumped(m)
<1>1. s \in Nat /\ k \in Nat /\ m.t0 + s \in 0 .. TimerTop - 1 BY SkipFits
<1>2. /\ m.pre0 \in 0 .. Prescale - 1 /\ m.pre1 \in 0 .. Prescale - 1
      /\ m.t0 \in 0 .. TimerTop - 1
  BY DEF Machine
<1>3. Prescale \in Nat \ {0} /\ TimerTop \in Nat \ {0} OBVIOUS
<1> HIDE DEF s
<1>4. v = m.t0 + s
  <2> DEFINE z == m.t0 + s
  <2>1. z \in 0 .. TimerTop - 1 BY <1>1
  <2> HIDE DEF z
  <2>2. (TimerTop * 0 + z) % TimerTop = z BY <1>3, <2>1, DivUnique
  <2>3. TimerTop * 0 + z = z BY <2>1
  <2>4. z % TimerTop = z BY <2>2, <2>3
  <2> QED BY <2>4 DEF z
<1>5. ~conf.one_t => /\ (m.pre0 + k) \div Prescale = s
                     /\ (m.pre0 + k) % Prescale = m.pre0
                     /\ (m.pre1 + k) % Prescale = m.pre1
  <2>1. SUFFICES ASSUME ~conf.one_t
                 PROVE  /\ (m.pre0 + k) \div Prescale = s
                        /\ (m.pre0 + k) % Prescale = m.pre0
                        /\ (m.pre1 + k) % Prescale = m.pre1
    OBVIOUS
  <2>2. k = Prescale * s BY <1>1, <2>1 DEF Divisor
  <2>3. m.pre0 + k = Prescale * s + m.pre0 /\ m.pre1 + k = Prescale * s + m.pre1
    BY <1>1, <1>2, <2>2
  <2> HIDE DEF k
  <2>4. /\ (Prescale * s + m.pre0) \div Prescale = s
        /\ (Prescale * s + m.pre0) % Prescale = m.pre0
        /\ (Prescale * s + m.pre1) % Prescale = m.pre1
    BY <1>1, <1>2, <1>3, DivUnique
  <2> QED BY <2>3, <2>4, Zenon
<1>6. Growth(m, k) = s
  <2>1. CASE conf.one_t BY <1>1, <2>1 DEF Growth, Divisor
  <2>2. CASE ~conf.one_t BY <1>5, <2>2, Zenon DEF Growth
  <2> QED BY <2>1, <2>2
<1>7. /\ y.t0 = m.t0 + Growth(m, k)
      /\ y.pre0 = IF conf.one_t THEN m.pre0 ELSE (m.pre0 + k) % Prescale
      /\ y.pre1 = (m.pre1 + k) % Prescale
      /\ y.frac = (m.frac + k * Quantum) % FixedPoint
      /\ y.left = m.left - ((m.frac + k * Quantum) \div FixedPoint)
      /\ y.gap = IF k < m.gap THEN m.gap - k ELSE 0
      /\ y.in = m.in /\ y.at = m.at /\ y.ret = m.ret /\ y.delay = m.delay /\ y.idl = m.idl
      /\ y.tf0 = m.tf0 /\ y.t1 = m.t1 /\ y.tf1 = m.tf1 /\ y.tr1 = m.tr1
      /\ y.rx = m.rx /\ y.ri = m.ri /\ y.trigger = m.trigger
  <2> HIDE DEF k
  <2> QED BY <1>1, LaterFields
<1>8. j = Passed(h, k) BY Zenon DEF Jumped, s
<1> DEFINE f == (m.frac + k * Quantum) % FixedPoint
           l == m.left - ((m.frac + k * Quantum) \div FixedPoint)
           g == IF k < m.gap THEN m.gap - k ELSE 0
           n == [h EXCEPT !.frac = f, !.left = l, !.gap = g]
<1> HIDE DEF k, v, y, j
<1>9. h.frac = m.frac /\ h.left = m.left /\ h.gap = m.gap BY DEF Machine
<1>10. j = n
  <2> HIDE DEF h
  <2> QED BY <1>8, <1>9, Zenon DEF Passed
<1> HIDE DEF f, l, g
<1>11. /\ n.t0 = v /\ n.pre0 = m.pre0 /\ n.pre1 = m.pre1 /\ n.frac = f /\ n.left = l /\ n.gap = g
       /\ n.in = m.in /\ n.at = m.at /\ n.ret = m.ret /\ n.delay = m.delay /\ n.idl = m.idl
       /\ n.tf0 = m.tf0 /\ n.t1 = m.t1 /\ n.tf1 = m.tf1 /\ n.tr1 = m.tr1
       /\ n.rx = m.rx /\ n.ri = m.ri /\ n.trigger = m.trigger
  BY DEF Machine
<1> HIDE DEF n
<1>12. y.pre0 = m.pre0 /\ (conf.one_t \/ y.pre1 = m.pre1) BY <1>5, <1>7, Zenon
<1>13. y.t0 = v BY <1>4, <1>6, <1>7, Zenon
<1>14. y.frac = f /\ y.left = l /\ y.gap = g BY <1>7, Zenon DEF f, l, g
<1>15. Same(n, y) BY <1>7, <1>11, <1>12, <1>13, <1>14, Zenon DEF Same
<1>16. n.delay = y.delay BY <1>7, <1>11, Zenon
<1>17. Alike(j, y) BY <1>10, <1>15, <1>16, Zenon DEF Alike
<1> QED BY <1>6, <1>17, Zenon DEF j, y, k, s

\* A clock that takes a nanosecond or more: of the clocks a jump skips, all but the
\* last leave time in the slice, so that the slow machine makes every one of them.
LEMMA JumpWithin ==
  ASSUME NEW m \in Machine, CanSkip(m), m.left > 0, FixedPoint <= Quantum,
         NEW d \in Nat, d < SkipTicks(m) * Divisor
  PROVE  Later(m, d).left > 0
<1> DEFINE k == SkipTicks(m) * Divisor
           c == (m.left * FixedPoint) \div Quantum
           z == m.frac + d * Quantum
<1>1. k \in Nat /\ k <= c BY SkipFits
<1>2. m.left \in Nat \ {0} /\ m.frac \in 0 .. FixedPoint - 1 BY DEF Machine
<1>3. m.left * FixedPoint \in Nat BY <1>2
<1>4. c \in Nat /\ Quantum * c <= m.left * FixedPoint BY <1>3, DivMul
<1> HIDE DEF c
<1>5. d + 1 \in Nat /\ d + 1 <= c
  <2> HIDE DEF k
  <2> QED BY <1>1, <1>4 DEF k
<1>6. (d + 1) * Quantum <= c * Quantum BY <1>4, <1>5, MulMono
<1>7. d * Quantum \in Nat /\ (d + 1) * Quantum = d * Quantum + Quantum BY SMTT(30)
<1>8. c * Quantum = Quantum * c BY <1>4
<1>9. z \in Nat /\ z < m.left * FixedPoint BY <1>2, <1>3, <1>4, <1>6, <1>7, <1>8
<1> DEFINE w == m.left - 1
<1>10. w \in Nat /\ z < FixedPoint * (w + 1) BY <1>2, <1>9
<1> HIDE DEF z, w
<1>11. z \div FixedPoint <= w BY <1>9, <1>10, DivLe
<1>12. z \div FixedPoint \in Nat BY <1>9, DivMul
<1>13. Later(m, d).left = m.left - (z \div FixedPoint) BY LaterFields, Zenon DEF z
<1> DEFINE u == z \div FixedPoint
<1> HIDE DEF u
<1>14. m.left - u > 0 BY <1>2, <1>11, <1>12 DEF u, w
<1> QED BY <1>13, <1>14, Zenon DEF u

\* Timer 0 counts forward.
LEMMA GrowthNat == ASSUME NEW m \in Machine, NEW d \in Nat PROVE Growth(m, d) \in Nat
<1>1. m.pre0 + d \in Nat BY DEF Machine
<1> QED BY <1>1, DivMod DEF Growth

\* And no less in more clocks.
LEMMA GrowthMono ==
  ASSUME NEW m \in Machine, NEW k \in Nat, NEW d \in 0 .. k
  PROVE  Growth(m, d) <= Growth(m, k)
<1>1. CASE conf.one_t BY <1>1 DEF Growth
<1>2. CASE ~conf.one_t
  <2> DEFINE x == m.pre0 + d
             y == m.pre0 + k
             b == y \div Prescale
  <2>1. x \in Nat /\ y \in Nat /\ x <= y BY DEF Machine
  <2> HIDE DEF x, y
  <2>2. y = Prescale * b + (y % Prescale) /\ b \in Nat /\ y % Prescale \in 0 .. Prescale - 1
    BY <2>1, DivMod
  <2> HIDE DEF b
  <2>3. Prescale * (b + 1) = Prescale * b + Prescale BY <2>2
  <2>4. x < Prescale * (b + 1) BY <2>1, <2>2, <2>3
  <2>5. x \div Prescale <= b BY <2>1, <2>2, <2>4, DivLe
  <2> QED BY <1>2, <2>5 DEF Growth, x, y, b
<1> QED BY <1>1, <1>2

\* Both jump as far.
LEMMA JumpAlike ==
  ASSUME NEW a \in Machine, NEW b \in Machine, Alike(a, b), SkipTicks(a) = SkipTicks(b)
  PROVE  Alike(Jumped(a), Jumped(b))
<1> DEFINE v == (a.t0 + SkipTicks(a)) % TimerTop
           n == SkipTicks(a) * Divisor
           f == (a.frac + n * Quantum) % FixedPoint
           l == a.left - ((a.frac + n * Quantum) \div FixedPoint)
           g == IF n < a.gap THEN a.gap - n ELSE 0
           h == [a EXCEPT !.t0 = v]
           i == [b EXCEPT !.t0 = v]
           p == [h EXCEPT !.frac = f, !.left = l, !.gap = g]
           q == [i EXCEPT !.frac = f, !.left = l, !.gap = g]
<1>1. a.frac = b.frac /\ a.left = b.left /\ a.gap = b.gap /\ a.t0 = b.t0 BY Zenon DEF Alike, Same
<1>2. Jumped(a) = Passed(h, n) BY Zenon DEF Jumped
<1>3. Jumped(b) = Passed(i, n) BY <1>1, Zenon DEF Jumped
<1> HIDE DEF v, n
<1>4. /\ h.frac = a.frac /\ h.left = a.left /\ h.gap = a.gap
      /\ i.frac = a.frac /\ i.left = a.left /\ i.gap = a.gap
  BY <1>1 DEF Machine
<1>5. Passed(h, n) = p
  <2> HIDE DEF h
  <2> QED BY <1>4, Zenon DEF Passed
<1>6. Passed(i, n) = q
  <2> HIDE DEF i
  <2> QED BY <1>4, Zenon DEF Passed
<1> HIDE DEF f, l, g
<1>7. Same(p, q) /\ p.delay = a.delay /\ q.delay = b.delay BY DEF Alike, Same, Machine
<1>8. p.idl = a.idl /\ p.in = a.in /\ p.tf0 = a.tf0 /\ p.trigger = a.trigger BY DEF Machine
<1> HIDE DEF p, q
<1>9. Alike(p, q) BY <1>7, <1>8, Zenon DEF Alike, Dozing
<1> QED BY <1>2, <1>3, <1>5, <1>6, <1>9, Zenon

-------------------------------------------------------------------------------
(* The slow machine's slice is the history the fast one retraces. *)

\* tr[0 .. n] is the slow machine's slice up to where it stands, and the fast machine
\* is alike to tr[p].  From a state of the slice in which the fast-forward might
\* jump, every state up to Timer 0's overflow is the one that many clocks later.
Behind(n, tr, p, s, f) ==
  /\ n \in Nat /\ p \in 0 .. n
  /\ \A i \in 0 .. n : Shape(tr[i]) /\ Quiet(tr[i])
  /\ \A i \in 0 .. n - 1 : tr[i + 1] = Clock(tr[i]) /\ tr[i].left > 0
  /\ \A i \in 0 .. n : \A j \in i .. n :
       Skippable(tr[i]) /\ tr[i].t0 + Growth(tr[i], j - i) < TimerTop
         => Alike(Later(tr[i], j - i), tr[j])
  /\ s = tr[n]
  /\ Shape(f) /\ Alike(f, tr[p])

\* One more clock of the slow machine.
LEMMA SlowBehind ==
  ASSUME conf \in Conf, ~MixedRates, NEW n, NEW tr, NEW p, NEW s, NEW f,
         Behind(n, tr, p, s, f), s.left > 0
  PROVE  \E t : Behind(n + 1, t, p, Clock(s), f)
<1> DEFINE t == [i \in 0 .. n + 1 |-> IF i <= n THEN tr[i] ELSE Clock(s)]
<1>1. n \in Nat /\ p \in 0 .. n /\ s = tr[n] /\ Shape(f) /\ Alike(f, tr[p]) BY Zenon DEF Behind
<1>2. n + 1 \in Nat /\ p \in 0 .. n + 1 /\ n \in 0 .. n BY <1>1
<1>3. \A i \in 0 .. n : t[i] = tr[i] BY <1>1
<1>4. t[n + 1] = Clock(s) BY <1>1
<1> HIDE DEF t
<1>5. \A i \in 0 .. n : Shape(t[i]) /\ Quiet(t[i]) BY <1>3, Zenon DEF Behind
<1>6. Shape(s) /\ Quiet(s) BY <1>1, <1>2, Zenon DEF Behind
<1>7. Shape(t[n + 1]) /\ Quiet(t[n + 1]) BY <1>4, <1>6, ClockShape, ClockQuiet, Zenon
<1>8. \A i \in 0 .. n + 1 : i \in 0 .. n \/ i = n + 1 BY <1>1
<1>9. \A i \in 0 .. n + 1 : Shape(t[i]) /\ Quiet(t[i]) BY <1>5, <1>7, <1>8, Zenon
<1>10. \A i \in 0 .. (n + 1) - 1 : t[i + 1] = Clock(t[i]) /\ t[i].left > 0
  <2>1. SUFFICES ASSUME NEW i \in 0 .. (n + 1) - 1 PROVE t[i + 1] = Clock(t[i]) /\ t[i].left > 0
    OBVIOUS
  <2>2. CASE i = n
    <3>1. t[i + 1] = Clock(s) BY <1>4, <2>2, Zenon
    <3>2. t[i] = s BY <1>1, <1>2, <1>3, <2>2, Zenon
    <3> QED BY <3>1, <3>2, Zenon
  <2>3. CASE i # n
    <3>1. i \in 0 .. n - 1 /\ i \in 0 .. n /\ i + 1 \in 0 .. n BY <1>1, <2>3
    <3>2. tr[i + 1] = Clock(tr[i]) /\ tr[i].left > 0 BY <3>1, Zenon DEF Behind
    <3>3. t[i] = tr[i] /\ t[i + 1] = tr[i + 1] BY <1>3, <3>1, Zenon
    <3> QED BY <3>2, <3>3, Zenon
  <2> QED BY <2>2, <2>3
<1>11. \A i \in 0 .. n + 1 : \A j \in i .. n + 1 :
         Skippable(t[i]) /\ t[i].t0 + Growth(t[i], j - i) < TimerTop
           => Alike(Later(t[i], j - i), t[j])
  <2>1. SUFFICES ASSUME NEW i \in 0 .. n + 1, NEW j \in i .. n + 1,
                        Skippable(t[i]), t[i].t0 + Growth(t[i], j - i) < TimerTop
                 PROVE  Alike(Later(t[i], j - i), t[j])
    OBVIOUS
  <2>2. CASE j <= n
    <3>1. i \in 0 .. n /\ j \in 0 .. n /\ j \in i .. n BY <1>1, <2>2
    <3>2. t[i] = tr[i] /\ t[j] = tr[j] BY <1>3, <3>1, Zenon
    <3>3. Skippable(tr[i]) /\ tr[i].t0 + Growth(tr[i], j - i) < TimerTop BY <2>1, <3>2, Zenon
    <3>4. Alike(Later(tr[i], j - i), tr[j]) BY <3>1, <3>3, Zenon DEF Behind
    <3> QED BY <3>2, <3>4, Zenon
  <2>3. CASE i = n + 1
    <3>1. j = i /\ j - i = 0 BY <1>1, <2>3
    <3>2. t[i] \in Machine BY <1>9, Zenon DEF Shape
    <3>3. Alike(Later(t[i], 0), t[i]) BY <3>2, LaterZero
    <3> QED BY <3>1, <3>3, Zenon
  <2>4. CASE ~(j <= n) /\ i # n + 1
    <3> DEFINE d == n - i
               m == tr[i]
    <3>1. i \in 0 .. n /\ n \in i .. n /\ d \in Nat /\ j = n + 1 /\ j - i = d + 1 BY <1>1, <2>4
    <3>2. t[i] = m BY <1>3, <3>1, Zenon
    <3>3. Shape(m) /\ Quiet(m) BY <3>1, Zenon DEF Behind
    <3> HIDE DEF m
    <3>4. Skippable(m) /\ m.t0 + Growth(m, d + 1) < TimerTop BY <2>1, <3>1, <3>2, Zenon
    <3>5. m.rx = 0 BY <3>3, Zenon DEF Quiet
    <3>6. m.t0 + Growth(m, d) < TimerTop /\ Alike(Clock(Later(m, d)), Later(m, d + 1))
      <4> HIDE DEF d
      <4> QED BY <3>1, <3>3, <3>4, <3>5, LaterOne
    <3>7. Alike(Later(m, d), s)
      <4>1. Skippable(tr[i]) /\ tr[i].t0 + Growth(tr[i], n - i) < TimerTop
        BY <3>4, <3>6, Zenon DEF m
      <4>2. Alike(Later(tr[i], n - i), tr[n]) BY <3>1, <4>1, Zenon DEF Behind
      <4> QED BY <1>1, <4>2, Zenon DEF m
    <3>8. Shape(Later(m, d))
      <4> HIDE DEF d
      <4> QED BY <3>1, <3>3, <3>6, LaterShape
    <3>9. conf.one_t => ~CoreTick(Later(m, d)).tr1
      <4>1. Quiet(Later(m, d)) BY <1>6, <3>7, Zenon DEF Quiet, Alike, Same
      <4> QED BY <3>8, <4>1, ClockQuiet, Zenon
    <3>10. Alike(Clock(Later(m, d)), Clock(s)) BY <1>6, <3>7, <3>8, <3>9, ClockAlike, Zenon
    <3>11. Alike(Later(m, d + 1), Clock(s)) BY <3>6, <3>10, AlikeSym, AlikeTrans, Zenon
    <3>12. t[j] = Clock(s) BY <1>4, <3>1, Zenon
    <3> QED BY <3>1, <3>2, <3>11, <3>12, Zenon
  <2> QED BY <2>2, <2>3, <2>4
<1>12. Alike(f, t[p]) BY <1>1, <1>3, Zenon
<1>13. Clock(s) = t[n + 1] BY <1>4, Zenon
<1>14. Behind(n + 1, t, p, Clock(s), f)
  BY <1>1, <1>2, <1>9, <1>10, <1>11, <1>12, <1>13, Zenon DEF Behind
<1> QED BY <1>14, Zenon

\* The fast machine is in the slice, behind the slow one, while it has time left.
LEMMA Within ==
  ASSUME NEW n, NEW tr, NEW p, NEW s, NEW f, Behind(n, tr, p, s, f), s.left <= 0
  PROVE  /\ f.left > 0 => p \in 0 .. n - 1
         /\ f.left <= 0 => p = n
<1>1. n \in Nat /\ p \in 0 .. n /\ s = tr[n] /\ Alike(f, tr[p]) BY Zenon DEF Behind
<1>2. f.left = tr[p].left BY <1>1, Zenon DEF Alike, Same
<1>3. p \in 0 .. n - 1 => tr[p].left > 0 BY Zenon DEF Behind
<1>4. n \in 0 .. n BY <1>1
<1>5. Shape(tr[n]) /\ Shape(tr[p]) BY <1>1, <1>4, Zenon DEF Behind
<1>6. tr[n].left \in Int /\ tr[p].left \in Int BY <1>5 DEF Shape, Machine
<1>7. p = n => ~(f.left > 0) BY <1>1, <1>2, <1>6
<1>8. p # n => p \in 0 .. n - 1 BY <1>1
<1>9. f.left \in Int BY <1>2, <1>6, Zenon
<1> QED BY <1>2, <1>3, <1>7, <1>8, <1>9, <1>6

\* One clock of the fast machine.
LEMMA FastBehind ==
  ASSUME conf \in Conf, ~MixedRates, NEW n, NEW tr, NEW p, NEW s, NEW f,
         Behind(n, tr, p, s, f), s.left <= 0, f.left > 0
  PROVE  Behind(n, tr, p + 1, s, Clock(f))
<1>1. n \in Nat /\ p \in 0 .. n /\ s = tr[n] /\ Shape(f) /\ Alike(f, tr[p]) BY Zenon DEF Behind
<1>2. p \in 0 .. n - 1 BY Within, Zenon
<1>3. p + 1 \in 0 .. n BY <1>1, <1>2
<1>4. tr[p + 1] = Clock(tr[p]) BY <1>2, Zenon DEF Behind
<1>5. Shape(tr[p]) /\ Quiet(tr[p]) BY <1>1, Zenon DEF Behind
<1>6. Alike(tr[p], f) BY <1>1, AlikeSym, Zenon
<1>7. conf.one_t => ~CoreTick(tr[p]).tr1 BY <1>5, ClockQuiet, Zenon
<1>8. Alike(Clock(tr[p]), Clock(f)) BY <1>1, <1>5, <1>6, <1>7, ClockAlike, Zenon
<1>9. Alike(Clock(f), tr[p + 1]) BY <1>4, <1>8, AlikeSym, Zenon
<1>10. Shape(Clock(f)) BY <1>1, ClockShape, Zenon
<1> QED BY <1>3, <1>9, <1>10, Zenon DEF Behind

\* What decides a jump is the same in machines that are alike.
LEMMA SkipAlike ==
  ASSUME NEW a, NEW b, Alike(a, b)
  PROVE  /\ SkipTicks(a) = SkipTicks(b)
         /\ Skippable(a) <=> Skippable(b)
         /\ CanSkip(a) <=> CanSkip(b)
         /\ a.left = b.left
<1>1. a.t0 = b.t0 /\ a.left = b.left BY Zenon DEF Alike, Same
<1>2. SkipTicks(a) = SkipTicks(b)
  BY <1>1, Zenon DEF SkipTicks, TicksBeforeOverflow, ClocksLeft
<1>3. Skippable(a) <=> Skippable(b)
  BY Zenon DEF Skippable, Alike, Same
<1> QED BY <1>1, <1>2, <1>3, Zenon DEF CanSkip

\* A jump of the fast machine: the slow one has been through every clock of it.
LEMMA SkipBehind ==
  ASSUME conf \in Conf, ~MixedRates, FixedPoint <= Quantum, NEW n, NEW tr, NEW p, NEW s, NEW f,
         Behind(n, tr, p, s, f), s.left <= 0, f.left > 0, CanSkip(f)
  PROVE  \E q : Behind(n, tr, q, s, Jumped(f))
<1> DEFINE m == tr[p]
           k == SkipTicks(m) * Divisor
           q == p + k
<1>1. n \in Nat /\ p \in 0 .. n /\ s = tr[n] /\ Shape(f) /\ Alike(f, m) BY Zenon DEF Behind
<1>2. p \in 0 .. n - 1 BY Within, Zenon
<1>3. Shape(m) BY <1>1, Zenon DEF Behind
<1>4. m \in Machine /\ f \in Machine BY <1>1, <1>3, Zenon DEF Shape
<1>5. CanSkip(m) /\ SkipTicks(f) = SkipTicks(m) /\ f.left = m.left BY <1>1, SkipAlike, Zenon
<1>6. m.left > 0 BY <1>5, Zenon
<1>7. Skippable(m) BY <1>5, Zenon DEF CanSkip
<1> HIDE DEF m
<1>8. k \in Nat /\ m.t0 + SkipTicks(m) \in 0 .. TimerTop - 1 /\ SkipTicks(m) \in Nat
  BY <1>4, <1>5, <1>6, SkipFits
<1>9. Growth(m, k) = SkipTicks(m) /\ Alike(Jumped(m), Later(m, k)) BY <1>4, <1>5, <1>6, JumpLater, Zenon
<1>10. m.t0 \in 0 .. TimerTop - 1 BY <1>4 DEF Machine
<1>11. \A d \in 0 .. k : m.t0 + Growth(m, d) < TimerTop
  <2>1. SUFFICES ASSUME NEW d \in 0 .. k PROVE Growth(m, d) <= SkipTicks(m)
    BY <1>8, <1>10, GrowthNat, <1>4
  <2> QED BY <1>4, <1>8, <1>9, GrowthMono
<1>12. k <= n - p
  <2> DEFINE d == n - p
  <2>1. d \in Nat BY <1>1
  <2>2. SUFFICES ASSUME d < k PROVE FALSE
    <3> HIDE DEF k
    <3> QED BY <1>8, <2>1
  <2>3. d \in 0 .. k
    <3> HIDE DEF k
    <3> QED BY <1>8, <2>1, <2>2
  <2>4. p \in 0 .. n /\ n \in p .. n BY <1>1
  <2>5. m.t0 + Growth(m, n - p) < TimerTop BY <1>11, <2>3, Zenon
  <2>6. Alike(Later(m, n - p), tr[n]) BY <1>7, <2>4, <2>5, Zenon DEF Behind, m
  <2>7. Later(m, d).left = s.left BY <1>1, <2>6, Zenon DEF Alike, Same
  <2>8. Later(m, d).left > 0
    <3> HIDE DEF d
    <3> QED BY <1>4, <1>5, <1>6, <2>1, <2>2, JumpWithin
  <2>9. n \in 0 .. n BY <1>1
  <2>10. Shape(s) BY <1>1, <2>9, Zenon DEF Behind
  <2>11. s.left \in Int BY <2>10 DEF Shape, Machine
  <2> QED BY <2>7, <2>8, <2>11
<1>13. q \in 0 .. n /\ q \in p .. n /\ q - p = k /\ k \in 0 .. k
  <2> HIDE DEF k
  <2> QED BY <1>1, <1>8, <1>12
<1>14. Alike(Later(m, k), tr[q])
  <2>1. m.t0 + Growth(m, q - p) < TimerTop BY <1>11, <1>13, Zenon
  <2>2. Alike(Later(tr[p], q - p), tr[q])
    <3> HIDE DEF q
    <3> QED BY <1>1, <1>7, <1>13, <2>1, Zenon DEF Behind, m
  <2> QED BY <1>13, <2>2, Zenon DEF m
<1>15. Alike(Jumped(f), Jumped(m)) BY <1>1, <1>4, <1>5, JumpAlike
<1>16. Alike(Jumped(f), tr[q]) BY <1>9, <1>14, <1>15, AlikeTrans, Zenon
<1>17. CanSkip(f) /\ f.left > 0 OBVIOUS
<1>18. Shape(Jumped(f)) BY <1>1, <1>17, JumpFacts
<1> HIDE DEF q
<1>19. Behind(n, tr, q, s, Jumped(f)) BY <1>13, <1>16, <1>18, Zenon DEF Behind
<1> QED BY <1>19, Zenon

-------------------------------------------------------------------------------
(* The specification: whatever the fast-forward did, the host sees the slow machine. *)

\* The cases the theorem is about: nothing waits in the receive queue, a firmware
\* does not mix the rates of the two timers, and a clock takes a nanosecond or more.
Undisturbed == Queued = 0 /\ ~MixedRates /\ FixedPoint <= Quantum

Retraces == \E n : \E tr : \E p : Behind(n, tr, p, slow, fast)

AgreeInv == Undisturbed /\ conf \in Conf /\ Retraces

\* A slice starts where both machines stand.
LEMMA Start ==
  ASSUME NEW s, NEW f, Shape(s), Shape(f), Quiet(s), Alike(f, s)
  PROVE  \E n : \E tr : \E p : Behind(n, tr, p, s, f)
<1> DEFINE t == [i \in {0} |-> s]
<1>1. t[0] = s OBVIOUS
<1> HIDE DEF t
<1>2. s \in Machine BY Zenon DEF Shape
<1>3. Alike(Later(s, 0), s) BY <1>2, LaterZero, Zenon
<1>4. \A i \in 0 .. 0 : i = 0 /\ \A j \in i .. 0 : j = 0 /\ j - i = 0 OBVIOUS
<1>5. 0 \in Nat /\ 0 \in 0 .. 0 OBVIOUS
<1>6. \A i \in 0 .. 0 - 1 : FALSE OBVIOUS
<1>7. \A i \in 0 .. 0 : Shape(t[i]) /\ Quiet(t[i]) BY <1>1, <1>4, Zenon
<1>8. \A i \in 0 .. 0 : \A j \in i .. 0 :
        Skippable(t[i]) /\ t[i].t0 + Growth(t[i], j - i) < TimerTop
          => Alike(Later(t[i], j - i), t[j])
  BY <1>1, <1>3, <1>4, Zenon
<1>9. Behind(0, t, 0, s, f) BY <1>1, <1>5, <1>6, <1>7, <1>8, Zenon DEF Behind
<1> QED BY <1>9, Zenon

\* Power-on machines are alike.
LEMMA InitAgree == Init /\ Undisturbed => AgreeInv
<1> SUFFICES ASSUME Init, Undisturbed PROVE AgreeInv OBVIOUS
<1>1. conf \in Conf /\ Shape(slow) /\ Shape(fast) BY InitShape, Zenon DEF IInv
<1>2. slow = PowerOn /\ fast = PowerOn BY Zenon DEF Init
<1>3. Alike(fast, slow) BY <1>2, Zenon DEF Alike, Same
<1>4. Quiet(slow) BY <1>2 DEF Quiet, PowerOn, Undisturbed
<1>5. Retraces BY <1>1, <1>3, <1>4, Start, Zenon DEF Retraces
<1> QED BY <1>1, <1>5, Zenon DEF AgreeInv

\* No step changes conf, on which the model's operators depend.
LEMMA SameClock == ASSUME conf' = conf, NEW m PROVE Clock(m)' = Clock(m)
<1>1. \A r : Code(r)' = Code(r) BY SameCode, Zenon
<1>2. \A x : Request(x)' = Request(x) BY DEF Request
<1>3. \A x : Execute(x)' = Execute(x) BY <1>1, Zenon DEF Execute, Effect
<1>4. \A x : CoreTick(x)' = CoreTick(x) BY <1>2, <1>3, Zenon DEF CoreTick, Vector
<1>5. \A x : T0Tick(x)' = T0Tick(x) BY DEF T0Tick
<1>6. CoreTick(m)' = CoreTick(m) BY <1>4, Zenon
<1> QED BY <1>4, <1>5, Zenon DEF Clock

\* So the invariant may be read before or after a step.
LEMMA SameBehind ==
  ASSUME conf' = conf, NEW n, NEW tr, NEW p, NEW s, NEW f, Behind(n, tr, p, s, f),
         slow' = s, fast' = f
  PROVE  Retraces'
<1>1. \A x : Shape(x)' = Shape(x)
  <2>1. \A r : Code(r)' = Code(r) BY SameCode, Zenon
  <2> QED BY <2>1 DEF Shape
<1>2. \A x : Quiet(x)' = Quiet(x) BY Zenon DEF Quiet
<1>3. \A x : Clock(x)' = Clock(x) BY SameClock, Zenon
<1>4. \A x : Skippable(x)' = Skippable(x) BY Zenon DEF Skippable
<1>5. \A x : \A d : Growth(x, d)' = Growth(x, d) BY Zenon DEF Growth
<1>6. \A x : \A d : Later(x, d)' = Later(x, d) BY <1>5 DEF Later
<1>7. \A x : \A y : Alike(x, y)' = Alike(x, y) BY DEF Alike, Same
<1>8. Behind(n, tr, p, s, f)' BY <1>1, <1>2, <1>3, <1>4, <1>5, <1>6, <1>7, Zenon DEF Behind
<1> QED BY <1>8, Zenon DEF Retraces

\* Every step keeps the fast machine on the slow one's history.
LEMMA AgreeStep == AgreeInv /\ [Next]_vars => AgreeInv'
<1> SUFFICES ASSUME AgreeInv, [Next]_vars PROVE AgreeInv' OBVIOUS
<1>1. /\ conf \in Conf /\ ~MixedRates /\ FixedPoint <= Quantum /\ Undisturbed /\ Retraces
  BY DEF AgreeInv, Undisturbed
<1>2. conf' = conf BY DEF Next, vars, SlowClock, FastSkip, FastClock, NextSlice
<1>3. (conf \in Conf)' BY <1>1, <1>2 DEF Conf
<1>4. Undisturbed' BY <1>1 DEF Undisturbed
<1>5. PICK n, tr, p : Behind(n, tr, p, slow, fast) BY <1>1, Zenon DEF Retraces
<1>6. Retraces'
  <2>1. CASE SlowClock
    <3>1. slow.left > 0 /\ slow' = Clock(slow) /\ fast' = fast BY <2>1, Zenon DEF SlowClock
    <3>2. PICK t : Behind(n + 1, t, p, Clock(slow), fast) BY <1>1, <1>5, <3>1, SlowBehind, Zenon
    <3> QED BY <1>2, <3>1, <3>2, SameBehind, Zenon
  <2>2. CASE FastSkip
    <3>1. slow.left <= 0 /\ fast.left > 0 /\ CanSkip(fast) /\ fast' = Jumped(fast) /\ slow' = slow
      BY <2>2, Zenon DEF FastSkip
    <3>2. PICK q : Behind(n, tr, q, slow, Jumped(fast)) BY <1>1, <1>5, <3>1, SkipBehind, Zenon
    <3> QED BY <1>2, <3>1, <3>2, SameBehind, Zenon
  <2>3. CASE FastClock
    <3>1. slow.left <= 0 /\ fast.left > 0 /\ fast' = Clock(fast) /\ slow' = slow
      BY <2>3, Zenon DEF FastClock
    <3>2. Behind(n, tr, p + 1, slow, Clock(fast)) BY <1>1, <1>5, <3>1, FastBehind, Zenon
    <3> QED BY <1>2, <3>1, <3>2, SameBehind, Zenon
  <2>4. CASE NextSlice
    <3>1. PICK k \in Slices : /\ slow.left <= 0 /\ fast.left <= 0
                              /\ slow' = [slow EXCEPT !.left = k] /\ fast' = [fast EXCEPT !.left = k]
      BY <2>4 DEF NextSlice
    <3> DEFINE s == [slow EXCEPT !.left = k]
               f == [fast EXCEPT !.left = k]
    <3>2. k \in Int OBVIOUS
    <3>3. p = n BY <1>5, <3>1, Within, Zenon
    <3>4. n \in 0 .. n
      <4>1. n \in Nat BY <1>5, Zenon DEF Behind
      <4> QED BY <4>1
    <3>5. Shape(slow) /\ Shape(fast) /\ Quiet(slow) /\ Alike(fast, slow)
      BY <1>5, <3>3, <3>4, Zenon DEF Behind
    <3>6. slow \in Machine /\ fast \in Machine BY <3>5, Zenon DEF Shape
    <3>7. Shape(s) /\ Shape(f) BY <3>2, <3>5, LeftShape, Zenon
    <3>8. Quiet(s) BY <3>5, <3>6 DEF Quiet, Machine
    <3>9. Alike(f, s) BY <3>5, <3>6 DEF Alike, Same, Dozing, Machine
    <3> HIDE DEF s, f
    <3>10. PICK m, t, q : Behind(m, t, q, s, f) BY <3>7, <3>8, <3>9, Start, Zenon
    <3> QED BY <1>2, <3>1, <3>10, SameBehind, Zenon DEF s, f
  <2>5. CASE UNCHANGED vars
    <3>1. slow' = slow /\ fast' = fast BY <2>5, Zenon DEF vars
    <3> QED BY <1>2, <1>5, <3>1, SameBehind, Zenon
  <2> QED BY <2>1, <2>2, <2>3, <2>4, <2>5 DEF Next
<1> QED BY <1>3, <1>4, <1>6, Zenon DEF AgreeInv

\* stc12_advance_to with the idle fast-forward is, to the host, stc12_advance_to
\* without it: for every firmware, timer width, prescaler, slice and clock of up to
\* 1 GHz, whenever the host gets control, as long as no byte waits in the receive
\* queue and Timer 1 keeps Timer 0's rate.
THEOREM SlicesAgreeTheorem == Spec /\ Undisturbed => []SlicesAgree
<1>1. AgreeInv => SlicesAgree
  <2> SUFFICES ASSUME AgreeInv, slow.left <= 0, fast.left <= 0 PROVE Seen(slow) = Seen(fast)
    BY DEF SlicesAgree
  <2>1. PICK n, tr, p : Behind(n, tr, p, slow, fast) BY Zenon DEF AgreeInv, Retraces
  <2>2. p = n BY <2>1, Within, Zenon
  <2>3. n \in 0 .. n
    <3>1. n \in Nat BY <2>1, Zenon DEF Behind
    <3> QED BY <3>1
  <2>4. Shape(slow) /\ Shape(fast) /\ Alike(fast, slow) BY <2>1, <2>2, <2>3, Zenon DEF Behind
  <2>5. slow \in Machine /\ fast \in Machine BY <2>4, Zenon DEF Shape
  <2> QED BY <2>4, <2>5, AlikeSeen
<1> QED BY <1>1, InitAgree, AgreeStep, PTL DEF Spec
===============================================================================
