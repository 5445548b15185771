--------------------------- MODULE InterruptsProofs ---------------------------
(***************************************************************************)
(* Proofs about Interrupts, for every choice of its constants.             *)
(*                                                                         *)
(* First the poll: what the chain of ifs returns.  Then the inductive      *)
(* invariant IInv, which says where in the stack each routine's return     *)
(* points lie; type correctness and the safety properties follow from it.  *)
(***************************************************************************)
EXTENDS Interrupts, Integers, SequenceTheorems, TLAPS

Best == [dest : Source \cup {"main"}, lo : BOOLEAN, hi : BOOLEAN]

\* What best holds once the sources in seen, a prefix of Polled, were polled.
PollPrefix(best, seen) ==
  /\ best \in Best
  /\ best.lo <=> \E s \in seen : s \in Requests
  /\ best.lo =>
       /\ best.dest \in seen /\ best.dest \in Requests
       /\ best.hi <=> best.dest \in ip
       /\ \A s \in seen : s \in Requests /\ s # best.dest => Outranks(best.dest, s)
  /\ ~best.lo => ~best.hi

\* The sources are polled in the order the comments of the specification give.
LEMMA PolledOrder ==
  /\ Polled[1] = "INT0" /\ Polled[2] = "T0" /\ Polled[3] = "INT1"
  /\ Polled[4] = "T1" /\ Polled[5] = "SER" /\ Polled[6] = "PCA"
  /\ Source = {"INT0", "T0", "INT1", "T1", "SER", "PCA"}
<1>1. /\ Polled[1] = "INT0" /\ Polled[2] = "T0" /\ Polled[3] = "INT1"
      /\ Polled[4] = "T1" /\ Polled[5] = "SER" /\ Polled[6] = "PCA"
  BY DEF Polled
<1>2. \A s : s \in Source <=> s \in {"INT0", "T0", "INT1", "T1", "SER", "PCA"}
  <2>1. \A i \in 1..6 : i = 1 \/ i = 2 \/ i = 3 \/ i = 4 \/ i = 5 \/ i = 6
    OBVIOUS
  <2> QED BY <1>1, <2>1 DEF Source
<1> QED BY <1>1, <1>2

\* One if of the chain keeps the description of best, whatever was polled before.
LEMMA ConsiderStep ==
  ASSUME NEW best, NEW seen \in SUBSET Source, NEW t \in Source \ seen,
         PollPrefix(best, seen),
         \A s \in seen : PolledBefore(s, t)
  PROVE  PollPrefix(Consider(best, t), seen \cup {t})
<1> DEFINE new == Consider(best, t)
<1>1. CASE t \notin Requests
  <2>1. new = best
    BY <1>1 DEF Consider
  <2> QED BY <1>1, <2>1 DEF PollPrefix
<1>2. CASE t \in Requests /\ best.hi
  <2>1. new = best /\ best.lo /\ best.dest \in seen /\ best.dest \in ip
    BY <1>2 DEF Consider, PollPrefix
  <2>2. Outranks(best.dest, t)
    BY <2>1 DEF Outranks
  <2> QED BY <2>1, <2>2 DEF PollPrefix
<1>3. CASE t \in Requests /\ ~best.hi
  <2>1. /\ new.dest = IF best.lo /\ t \notin ip THEN best.dest ELSE t
        /\ new.lo = TRUE /\ new.hi = (t \in ip)
        /\ new \in Best
    BY <1>3 DEF Consider, PollPrefix, Best
  <2>2. CASE best.lo /\ t \notin ip
    <3>1. new.dest = best.dest /\ best.dest \in seen /\ best.dest \notin ip
      BY <1>3, <2>1, <2>2 DEF PollPrefix
    <3>2. Outranks(best.dest, t)
      BY <2>2, <3>1 DEF Outranks
    <3> QED BY <1>3, <2>1, <2>2, <3>1, <3>2 DEF PollPrefix
  <2>3. CASE ~best.lo
    BY <1>3, <2>1, <2>3 DEF PollPrefix
  <2>4. CASE best.lo /\ t \in ip
    <3>1. \A s \in seen : s \in Requests => s \notin ip
      BY <1>3, <2>4 DEF PollPrefix, Outranks
    <3>2. \A s \in seen : s \in Requests => Outranks(t, s)
      BY <2>4, <3>1 DEF Outranks
    <3> QED BY <1>3, <2>1, <2>4, <3>2 DEF PollPrefix
  <2> QED BY <2>2, <2>3, <2>4
<1> QED BY <1>1, <1>2, <1>3

\* The chain of six ifs, one after the other.
LEMMA PollResult == PollPrefix(Poll, Source)
<1> DEFINE B1 == Consider(NoWinner, "INT0")
           B2 == Consider(B1, "T0")
           B3 == Consider(B2, "INT1")
           B4 == Consider(B3, "T1")
           B5 == Consider(B4, "SER")
           B6 == Consider(B5, "PCA")
<1>a. \A i, j \in 1..6 : i < j => PolledBefore(Polled[i], Polled[j])
  BY DEF PolledBefore
<1>b. /\ 1 \in 1..6 /\ 2 \in 1..6 /\ 3 \in 1..6 /\ 4 \in 1..6 /\ 5 \in 1..6 /\ 6 \in 1..6
      /\ 1 < 2 /\ 1 < 3 /\ 1 < 4 /\ 1 < 5 /\ 1 < 6 /\ 2 < 3 /\ 2 < 4 /\ 2 < 5
      /\ 2 < 6 /\ 3 < 4 /\ 3 < 5 /\ 3 < 6 /\ 4 < 5 /\ 4 < 6 /\ 5 < 6
  OBVIOUS
<1>0. PollPrefix(NoWinner, {})
  BY DEF PollPrefix, NoWinner, Best
<1>1. PollPrefix(B1, {"INT0"})
  <2>1. PollPrefix(B1, {} \cup {"INT0"})
    BY <1>0, ConsiderStep, PolledOrder
  <2> QED BY <2>1, Zenon
<1>2. PollPrefix(B2, {"INT0", "T0"})
  <2>1. \A s \in {"INT0"} : PolledBefore(s, "T0")
    BY <1>a, <1>b, PolledOrder
  <2>2. PollPrefix(B2, {"INT0"} \cup {"T0"})
    BY <1>1, <2>1, ConsiderStep, PolledOrder
  <2>3. {"INT0"} \cup {"T0"} = {"INT0", "T0"}
    OBVIOUS
  <2> QED BY <2>2, <2>3
<1>3. PollPrefix(B3, {"INT0", "T0", "INT1"})
  <2>1. \A s \in {"INT0", "T0"} : PolledBefore(s, "INT1")
    BY <1>a, <1>b, PolledOrder
  <2>2. PollPrefix(B3, {"INT0", "T0"} \cup {"INT1"})
    BY <1>2, <2>1, ConsiderStep, PolledOrder
  <2>3. {"INT0", "T0"} \cup {"INT1"} = {"INT0", "T0", "INT1"}
    OBVIOUS
  <2> QED BY <2>2, <2>3
<1>4. PollPrefix(B4, {"INT0", "T0", "INT1", "T1"})
  <2>1. \A s \in {"INT0", "T0", "INT1"} : PolledBefore(s, "T1")
    BY <1>a, <1>b, PolledOrder
  <2>2. PollPrefix(B4, {"INT0", "T0", "INT1"} \cup {"T1"})
    BY <1>3, <2>1, ConsiderStep, PolledOrder
  <2>3. {"INT0", "T0", "INT1"} \cup {"T1"} = {"INT0", "T0", "INT1", "T1"}
    OBVIOUS
  <2> QED BY <2>2, <2>3
<1>5. PollPrefix(B5, {"INT0", "T0", "INT1", "T1", "SER"})
  <2>1. \A s \in {"INT0", "T0", "INT1", "T1"} : PolledBefore(s, "SER")
    BY <1>a, <1>b, PolledOrder
  <2>2. PollPrefix(B5, {"INT0", "T0", "INT1", "T1"} \cup {"SER"})
    BY <1>4, <2>1, ConsiderStep, PolledOrder
  <2>3. {"INT0", "T0", "INT1", "T1"} \cup {"SER"} = {"INT0", "T0", "INT1", "T1", "SER"}
    OBVIOUS
  <2> QED BY <2>2, <2>3
<1>6. PollPrefix(B6, Source)
  <2>1. \A s \in {"INT0", "T0", "INT1", "T1", "SER"} : PolledBefore(s, "PCA")
    BY <1>a, <1>b, PolledOrder
  <2>2. PollPrefix(B6, {"INT0", "T0", "INT1", "T1", "SER"} \cup {"PCA"})
    BY <1>5, <2>1, ConsiderStep, PolledOrder
  <2>3. {"INT0", "T0", "INT1", "T1", "SER"} \cup {"PCA"} = Source
    BY PolledOrder
  <2> QED BY <2>2, <2>3
<1> QED BY <1>6 DEF Poll

\* PollPicksHighest in the words of the lemma: it asks of the state only that IE
\* names sources.
LEMMA PollSound == ie \subseteq Source => PollPicksHighest
BY PollResult DEF PollPrefix, PollPicksHighest, Best, Requests

LEMMA PollTypes ==
  /\ Poll.dest \in Source \cup {"main"} /\ Poll.hi \in BOOLEAN /\ Poll.lo \in BOOLEAN
  /\ Poll.lo => Poll.dest \in Source /\ Poll.dest # "main"
<1>1. "main" \notin Source
  BY PolledOrder
<1> QED BY <1>1, PollResult DEF PollPrefix, Best

-------------------------------------------------------------------------------
(***************************************************************************)
(* The stack.  The routines in service cut it in segments: segment 0       *)
(* belongs to main, segment k to nest[k].  A segment starts above          *)
(* Base(n, k), and holds the return points of its routine, one per nested  *)
(* call and, last, the point where it was interrupted.  FramesOK says so   *)
(* of any values n, st and c of nest, stack and pc.                        *)
(***************************************************************************)
Base(n, k) == IF k = 0 THEN 0 ELSE n[k].base
SegmentEnd(n, st, k) == IF k = Len(n) THEN Len(st) ELSE n[k + 1].base

SegmentOK(n, st, k) ==
  /\ k # Len(n) => SegmentEnd(n, st, k) \in Base(n, k) + 1 .. Base(n, k) + MaxCalls + 1
  /\ \A p \in Base(n, k) + 1 .. SegmentEnd(n, st, k) :
       /\ st[p].calls = p - 1 - Base(n, k)
       /\ st[p].routine = "main" <=> k = 0

FramesOK(n, st, c) ==
  /\ n \in Seq(Frame) /\ st \in Seq(ProgramPoint) /\ c \in ProgramPoint
  /\ Len(n) \in 0..2
  /\ c.routine = "main" <=> Len(n) = 0
  /\ c.calls <= MaxCalls
  /\ Len(st) = Base(n, Len(n)) + c.calls
  /\ \A k \in 0..Len(n) : SegmentOK(n, st, k)

\* Types of what FramesOK speaks of, and the order of the segments.
LEMMA SegmentOrder ==
  ASSUME NEW n, NEW st, NEW c, FramesOK(n, st, c)
  PROVE  /\ Len(n) \in Nat /\ Len(st) \in Nat /\ c.calls \in Nat /\ MaxCalls \in Nat
         /\ Len(n) \in 0..Len(n)
         /\ \A k \in 0..Len(n) : Base(n, k) \in Nat
         /\ SegmentEnd(n, st, Len(n)) = Len(st) /\ Base(n, Len(n)) <= Len(st)
         /\ Base(n, Len(n)) \in Nat
         /\ \A k \in 0..Len(n) :
              k # Len(n) => SegmentEnd(n, st, k) \in 0..Base(n, Len(n))
<1>1. /\ Len(n) \in Nat /\ Len(st) \in Nat /\ c.calls \in Nat /\ MaxCalls \in Nat
      /\ Len(n) \in 0..Len(n)
  BY NumbersAssumption DEF FramesOK, ProgramPoint
<1>2. \A k \in 1..Len(n) : n[k] \in Frame
  BY DEF FramesOK
<1>3. \A k \in 0..Len(n) : Base(n, k) \in Nat
  BY <1>1, <1>2 DEF Base, Frame
<1>4. SegmentEnd(n, st, Len(n)) = Len(st) /\ Base(n, Len(n)) <= Len(st)
  BY <1>1, <1>3 DEF FramesOK, SegmentEnd
<1>5. \A k \in 0..Len(n) : k # Len(n) =>
        SegmentEnd(n, st, k) = Base(n, k + 1) /\ SegmentEnd(n, st, k) > Base(n, k)
  BY <1>1, <1>3 DEF FramesOK, SegmentOK, SegmentEnd, Base
<1>6. \A k \in 0..Len(n) :
        k # Len(n) => SegmentEnd(n, st, k) \in 0..Base(n, Len(n))
  <2>1. CASE Len(n) = 0
    BY <2>1
  <2>2. CASE Len(n) = 1
    <3>1. SegmentEnd(n, st, 0) = Base(n, 1)
      BY <1>5, <2>2
    <3> QED BY <1>3, <2>2, <3>1
  <2>3. CASE Len(n) = 2
    <3>1. /\ SegmentEnd(n, st, 0) = Base(n, 1) /\ SegmentEnd(n, st, 1) = Base(n, 2)
          /\ SegmentEnd(n, st, 1) > Base(n, 1)
      BY <1>5, <2>3
    <3>2. \A k \in 0..2 : k = 0 \/ k = 1 \/ k = 2
      OBVIOUS
    <3> QED BY <1>3, <2>3, <3>1, <3>2
  <2> QED BY <2>1, <2>2, <2>3 DEF FramesOK
<1> QED BY <1>1, <1>3, <1>4, <1>6

\* What Append does to a stack ...
LEMMA PushFacts ==
  ASSUME NEW S, NEW s \in Seq(S), NEW e \in S
  PROVE  /\ Append(s, e) \in Seq(S)
         /\ Len(Append(s, e)) = Len(s) + 1
         /\ Append(s, e)[Len(s) + 1] = e
         /\ \A p \in 1..Len(s) : Append(s, e)[p] = s[p]
OBVIOUS

\* ... and what taking the last element off does.
LEMMA PopType ==
  ASSUME NEW S, NEW s \in Seq(S), Len(s) > 0
  PROVE  /\ SubSeq(s, 1, Len(s) - 1) \in Seq(S)
         /\ Len(SubSeq(s, 1, Len(s) - 1)) = Len(s) - 1
<1>1. SubSeq(s, 1, Len(s) - 1) \in Seq(S)
  OBVIOUS
<1>2. Len(s) \in Nat /\ Len(s) - 1 \in Nat
  OBVIOUS
<1> DEFINE m == Len(s) - 1
<1> HIDE DEF m
<1>3. m \in Nat
  BY <1>2 DEF m
<1>4. Len(SubSeq(s, 1, m)) = m
  BY <1>3
<1> QED BY <1>1, <1>4 DEF m

LEMMA PopFacts ==
  ASSUME NEW S, NEW s \in Seq(S), Len(s) > 0
  PROVE  /\ Popped(s) \in Seq(S) /\ Top(s) \in S
         /\ Len(Popped(s)) = Len(s) - 1
         /\ \A p \in 1 .. Len(s) - 1 : Popped(s)[p] = s[p]
<1>1. Len(s) \in Nat /\ Len(s) \in 1..Len(s) /\ Len(s) - 1 \in Nat
  OBVIOUS
<1>2. Top(s) \in S
  BY <1>1 DEF Top
<1>3. /\ SubSeq(s, 1, Len(s) - 1) \in Seq(S)
      /\ Len(SubSeq(s, 1, Len(s) - 1)) = Len(s) - 1
  BY PopType
<1>4. \A p \in 1 .. Len(s) - 1 : Popped(s)[p] = s[p]
  BY <1>1 DEF Popped
<1> QED BY <1>2, <1>3, <1>4 DEF Popped

\* A subroutine call of the running routine ...
LEMMA FramesCall ==
  ASSUME NEW n, NEW st, NEW c, FramesOK(n, st, c), c.calls < MaxCalls
  PROVE  FramesOK(n, Append(st, c), [c EXCEPT !.calls = @ + 1])
<1> DEFINE st2 == Append(st, c)
           c2 == [c EXCEPT !.calls = @ + 1]
<1>1. /\ st2 \in Seq(ProgramPoint) /\ Len(st2) = Len(st) + 1 /\ st2[Len(st) + 1] = c
      /\ \A p \in 1..Len(st) : st2[p] = st[p]
  BY PushFacts DEF FramesOK
<1>2. c2 \in ProgramPoint /\ c2.calls = c.calls + 1 /\ c2.routine = c.routine
  BY DEF FramesOK, ProgramPoint
<1> HIDE DEF st2, c2
<1>3. /\ Len(n) \in Nat /\ Len(st) \in Nat /\ c.calls \in Nat /\ MaxCalls \in Nat
      /\ Base(n, Len(n)) <= Len(st) /\ Base(n, Len(n)) \in Nat
  BY SegmentOrder
<1>4. ASSUME NEW k \in 0..Len(n) PROVE SegmentOK(n, st2, k)
  <2>1. SegmentOK(n, st, k) /\ Base(n, k) \in Nat
    BY SegmentOrder DEF FramesOK
  <2>2. CASE k # Len(n)
    <3>1. SegmentEnd(n, st2, k) = SegmentEnd(n, st, k)
      BY <2>2 DEF SegmentEnd
    <3>2. SegmentEnd(n, st, k) \in 0..Base(n, Len(n))
      BY <2>2, SegmentOrder
    <3>3. \A p \in Base(n, k) + 1 .. SegmentEnd(n, st, k) : st2[p] = st[p]
      BY <1>1, <1>3, <2>1, <3>2
    <3> QED BY <2>1, <3>1, <3>3 DEF SegmentOK
  <2>3. CASE k = Len(n)
    <3>1. SegmentEnd(n, st2, k) = Len(st) + 1 /\ SegmentEnd(n, st, k) = Len(st)
      BY <1>1, <2>3 DEF SegmentEnd
    <3>2. Len(st) = Base(n, k) + c.calls /\ (c.routine = "main" <=> k = 0)
      BY <2>3 DEF FramesOK
    <3>3. ASSUME NEW p \in Base(n, k) + 1 .. SegmentEnd(n, st2, k)
          PROVE  st2[p].calls = p - 1 - Base(n, k) /\ (st2[p].routine = "main" <=> k = 0)
      <4>1. CASE p = Len(st) + 1
        BY <1>1, <1>3, <2>1, <3>2, <4>1
      <4>2. CASE p # Len(st) + 1
        <5>1. p \in Base(n, k) + 1 .. SegmentEnd(n, st, k) /\ p \in 1..Len(st)
          BY <1>3, <2>1, <3>1, <4>2
        <5> QED BY <1>1, <2>1, <5>1 DEF SegmentOK
      <4> QED BY <4>1, <4>2
    <3> QED BY <2>3, <3>3 DEF SegmentOK
  <2> QED BY <2>2, <2>3
<1>5. Len(st2) = Base(n, Len(n)) + c2.calls /\ c2.calls <= MaxCalls
  <2>1. Len(st) = Base(n, Len(n)) + c.calls
    BY DEF FramesOK
  <2> QED BY <1>1, <1>2, <1>3, <2>1
<1>6. FramesOK(n, st2, c2)
  BY <1>1, <1>2, <1>4, <1>5 DEF FramesOK
<1> QED BY <1>6 DEF st2, c2

\* ... its return ...
LEMMA FramesRet ==
  ASSUME NEW n, NEW st, NEW c, FramesOK(n, st, c), c.calls > 0
  PROVE  FramesOK(n, Popped(st), Top(st))
<1> DEFINE st2 == Popped(st)
           c2 == Top(st)
<1>1. /\ Len(n) \in Nat /\ Len(st) \in Nat /\ c.calls \in Nat /\ MaxCalls \in Nat
      /\ SegmentEnd(n, st, Len(n)) = Len(st) /\ Len(n) \in 0..Len(n)
      /\ Base(n, Len(n)) \in Nat
  BY SegmentOrder
<1>2. Len(st) = Base(n, Len(n)) + c.calls /\ Len(st) > 0
  BY <1>1 DEF FramesOK
<1>3. /\ st2 \in Seq(ProgramPoint) /\ Len(st2) = Len(st) - 1 /\ c2 \in ProgramPoint
      /\ \A p \in 1 .. Len(st) - 1 : st2[p] = st[p]
  BY <1>2, PopFacts DEF FramesOK
<1>4. c2 = st[Len(st)]
  BY DEF Top
<1> HIDE DEF st2, c2
<1>5. ASSUME NEW k \in 0..Len(n) PROVE SegmentOK(n, st2, k)
  <2>1. SegmentOK(n, st, k) /\ Base(n, k) \in Nat
    BY SegmentOrder DEF FramesOK
  <2>2. CASE k # Len(n)
    <3>1. SegmentEnd(n, st2, k) = SegmentEnd(n, st, k)
      BY <2>2 DEF SegmentEnd
    <3>2. SegmentEnd(n, st, k) \in 0..Base(n, Len(n))
      BY <2>2, SegmentOrder
    <3>3. \A p \in Base(n, k) + 1 .. SegmentEnd(n, st, k) : st2[p] = st[p]
      BY <1>1, <1>2, <1>3, <2>1, <3>2
    <3> QED BY <2>1, <3>1, <3>3 DEF SegmentOK
  <2>3. CASE k = Len(n)
    <3>1. SegmentEnd(n, st2, k) = Len(st) - 1 /\ SegmentEnd(n, st, k) = Len(st)
      BY <1>3, <2>3 DEF SegmentEnd
    <3>2. \A p \in Base(n, k) + 1 .. Len(st) - 1 :
            st2[p] = st[p] /\ p \in Base(n, k) + 1 .. SegmentEnd(n, st, k)
      BY <1>1, <1>3, <2>1, <3>1
    <3> QED BY <2>1, <2>3, <3>1, <3>2 DEF SegmentOK
  <2> QED BY <2>2, <2>3
<1>6. c2.calls = c.calls - 1 /\ (c2.routine = "main" <=> Len(n) = 0)
  <2>1. SegmentOK(n, st, Len(n))
    BY <1>1 DEF FramesOK
  <2>2. Len(st) \in Base(n, Len(n)) + 1 .. SegmentEnd(n, st, Len(n))
    BY <1>1, <1>2
  <2>3. c2.calls = c.calls - 1
    BY <1>1, <1>2, <1>4, <2>1, <2>2 DEF SegmentOK
  <2>4. c2.routine = "main" <=> Len(n) = 0
    BY <1>4, <2>1, <2>2 DEF SegmentOK
  <2> QED BY <2>3, <2>4
<1>7. FramesOK(n, st2, c2)
  BY <1>1, <1>2, <1>3, <1>5, <1>6 DEF FramesOK
<1> QED BY <1>7 DEF st2, c2

\* ... an interrupt of it ...
LEMMA FramesEnter ==
  ASSUME NEW n, NEW st, NEW c, FramesOK(n, st, c), Len(n) < 2,
         NEW level \in 0..1, NEW s \in Source
  PROVE  FramesOK(Append(n, [level |-> level, base |-> Len(st) + 1]), Append(st, c),
                  [routine |-> s, calls |-> 0])
<1> DEFINE f == [level |-> level, base |-> Len(st) + 1]
           n2 == Append(n, f)
           st2 == Append(st, c)
           c2 == [routine |-> s, calls |-> 0]
<1>1. /\ Len(n) \in Nat /\ Len(st) \in Nat /\ c.calls \in Nat /\ MaxCalls \in Nat
      /\ Base(n, Len(n)) <= Len(st) /\ Base(n, Len(n)) \in Nat
  BY SegmentOrder
<1>2. Len(st) = Base(n, Len(n)) + c.calls /\ c.calls <= MaxCalls
  BY DEF FramesOK
<1>3. f \in Frame /\ f.base = Len(st) + 1
  BY <1>1 DEF Frame
<1>4. c2 \in ProgramPoint /\ c2.calls = 0 /\ c2.routine # "main"
  BY PolledOrder DEF ProgramPoint
<1>5. /\ st2 \in Seq(ProgramPoint) /\ Len(st2) = Len(st) + 1 /\ st2[Len(st) + 1] = c
      /\ \A p \in 1..Len(st) : st2[p] = st[p]
  BY PushFacts DEF FramesOK
<1> HIDE DEF f
<1>6. /\ n2 \in Seq(Frame) /\ Len(n2) = Len(n) + 1 /\ n2[Len(n) + 1] = f
      /\ \A k \in 1..Len(n) : n2[k] = n[k]
  BY <1>3, PushFacts DEF FramesOK
<1> HIDE DEF n2, st2, c2
<1>7. ASSUME NEW k \in 0..Len(n2) PROVE SegmentOK(n2, st2, k)
  <2>1. CASE k = Len(n2)
    <3>1. Base(n2, k) = Len(st) + 1
      BY <1>1, <1>3, <1>6, <2>1 DEF Base
    <3>2. SegmentEnd(n2, st2, k) = Len(st) + 1
      BY <1>5, <2>1 DEF SegmentEnd
    <3> QED BY <1>1, <2>1, <3>1, <3>2 DEF SegmentOK
  <2>2. CASE k # Len(n2)
    <3>1. k \in 0..Len(n) /\ (k # 0 => k \in 1..Len(n))
      BY <1>1, <1>6, <2>2
    <3>2. Base(n2, k) = Base(n, k) /\ Base(n, k) \in Nat /\ SegmentOK(n, st, k)
      BY <1>6, <3>1, SegmentOrder DEF Base, FramesOK
    <3>3. CASE k # Len(n)
      <4>1. k + 1 \in 1..Len(n)
        BY <1>1, <3>1, <3>3
      <4>2. SegmentEnd(n2, st2, k) = SegmentEnd(n, st, k)
        BY <1>6, <2>2, <3>3, <4>1 DEF SegmentEnd
      <4>3. SegmentEnd(n, st, k) \in 0..Base(n, Len(n))
        BY <3>1, <3>3, SegmentOrder
      <4>4. \A p \in Base(n, k) + 1 .. SegmentEnd(n, st, k) : st2[p] = st[p]
        BY <1>1, <1>5, <3>2, <4>3
      <4> QED BY <3>2, <3>3, <4>2, <4>4 DEF SegmentOK
    <3>4. CASE k = Len(n)
      <4>1. SegmentEnd(n2, st2, k) = Len(st) + 1 /\ SegmentEnd(n, st, k) = Len(st)
        BY <1>1, <1>3, <1>6, <2>2, <3>4 DEF SegmentEnd
      <4>2. SegmentEnd(n2, st2, k) \in Base(n2, k) + 1 .. Base(n2, k) + MaxCalls + 1
        BY <1>1, <1>2, <3>2, <3>4, <4>1
      <4>3. ASSUME NEW p \in Base(n2, k) + 1 .. SegmentEnd(n2, st2, k)
            PROVE  st2[p].calls = p - 1 - Base(n2, k) /\ (st2[p].routine = "main" <=> k = 0)
        <5>1. CASE p = Len(st) + 1
          <6>1. st2[p].calls = c.calls /\ p - 1 = Len(st)
            BY <1>1, <1>5, <5>1
          <6>2. Len(st) - Base(n, k) = c.calls
            BY <1>1, <1>2, <3>4
          <6>3. st2[p].calls = p - 1 - Base(n2, k)
            BY <3>2, <6>1, <6>2
          <6>4. st2[p].routine = "main" <=> k = 0
            BY <1>5, <3>4, <5>1 DEF FramesOK
          <6> QED BY <6>3, <6>4
        <5>2. CASE p # Len(st) + 1
          <6>1. p \in Base(n, k) + 1 .. SegmentEnd(n, st, k) /\ p \in 1..Len(st)
            BY <1>1, <3>2, <4>1, <5>2
          <6> QED BY <1>5, <3>2, <6>1 DEF SegmentOK
        <5> QED BY <5>1, <5>2
      <4> QED BY <4>2, <4>3 DEF SegmentOK
    <3> QED BY <3>3, <3>4
  <2> QED BY <2>1, <2>2
<1>8. Len(st2) = Base(n2, Len(n2)) + c2.calls
  BY <1>1, <1>3, <1>4, <1>5, <1>6 DEF Base
<1>9. Len(n2) \in 0..2 /\ Len(n2) # 0 /\ c2.calls <= MaxCalls
  BY <1>1, <1>4, <1>6
<1>10. FramesOK(n2, st2, c2)
  BY <1>4, <1>5, <1>6, <1>7, <1>8, <1>9 DEF FramesOK
<1> QED BY <1>10 DEF n2, st2, c2, f

\* ... and the return from it.
LEMMA FramesLeave ==
  ASSUME NEW n, NEW st, NEW c, FramesOK(n, st, c), Len(n) > 0, c.calls = 0
  PROVE  FramesOK(Popped(n), Popped(st), Top(st))
<1> DEFINE n2 == Popped(n)
           st2 == Popped(st)
           c2 == Top(st)
           m == Len(n) - 1
<1>1. /\ Len(n) \in Nat /\ Len(st) \in Nat /\ MaxCalls \in Nat /\ m \in Nat
      /\ m \in 0..Len(n) /\ m # Len(n) /\ m + 1 = Len(n)
  BY SegmentOrder
<1>2. /\ n2 \in Seq(Frame) /\ Len(n2) = m
      /\ \A k \in 1..m : n2[k] = n[k]
  BY PopFacts DEF FramesOK
<1>3. SegmentOK(n, st, m) /\ Base(n, m) \in Nat
  BY <1>1, SegmentOrder DEF FramesOK
<1> HIDE DEF m
<1>4. Len(st) = n[m + 1].base
  <2>1. Len(st) = Base(n, Len(n)) + 0 /\ Base(n, Len(n)) \in Nat
    BY SegmentOrder DEF FramesOK
  <2>2. Base(n, Len(n)) = n[Len(n)].base
    BY DEF Base
  <2> QED BY <1>1, <2>1, <2>2
<1> HIDE DEF n2
<1>5. SegmentEnd(n, st, m) = Len(st)
  BY <1>1, <1>4 DEF SegmentEnd
<1>6. Len(st) \in Base(n, m) + 1 .. Base(n, m) + MaxCalls + 1
  BY <1>1, <1>3, <1>5 DEF SegmentOK
<1>7. Len(st) > 0 /\ Len(st) \in Base(n, m) + 1 .. SegmentEnd(n, st, m)
  BY <1>1, <1>3, <1>5, <1>6
<1>8. /\ st2 \in Seq(ProgramPoint) /\ Len(st2) = Len(st) - 1 /\ c2 \in ProgramPoint
      /\ \A p \in 1 .. Len(st) - 1 : st2[p] = st[p]
  BY <1>7, PopFacts DEF FramesOK
<1>9. c2 = st[Len(st)]
  BY DEF Top
<1> HIDE DEF st2, c2
<1>10. c2.calls = Len(st) - 1 - Base(n, m)
  BY <1>3, <1>7, <1>9 DEF SegmentOK
<1>11. c2.routine = "main" <=> m = 0
  BY <1>3, <1>7, <1>9 DEF SegmentOK
<1>12. \A k \in 0..m : Base(n2, k) = Base(n, k)
  BY <1>1, <1>2 DEF Base
<1>13. ASSUME NEW k \in 0..m PROVE SegmentOK(n2, st2, k)
  <2>1. k \in 0..Len(n) /\ k # Len(n)
    BY <1>1
  <2>2. SegmentOK(n, st, k) /\ Base(n, k) \in Nat /\ Base(n2, k) = Base(n, k)
    BY <1>12, <2>1, SegmentOrder DEF FramesOK
  <2>3. CASE k = m
    <3>1. SegmentEnd(n2, st2, k) = Len(st) - 1
      BY <1>2, <1>8, <2>3 DEF SegmentEnd
    <3>2. \A p \in Base(n, k) + 1 .. Len(st) - 1 :
            st2[p] = st[p] /\ p \in Base(n, k) + 1 .. SegmentEnd(n, st, k)
      BY <1>1, <1>5, <1>8, <2>2, <2>3
    <3> QED BY <1>2, <2>2, <2>3, <3>1, <3>2 DEF SegmentOK
  <2>4. CASE k # m
    <3>1. k + 1 \in 1..m
      BY <1>1, <2>4
    <3>2. SegmentEnd(n2, st2, k) = n[k + 1].base /\ SegmentEnd(n, st, k) = n[k + 1].base
      BY <1>2, <2>1, <2>4, <3>1 DEF SegmentEnd
    <3>3. n[k + 1].base <= Base(n, m) /\ n[k + 1].base \in Nat
      <4>1. k + 1 = m
        BY <1>1, <2>4, <3>1 DEF FramesOK
      <4> QED BY <1>1, <1>3, <4>1 DEF Base
    <3>4. \A p \in Base(n, k) + 1 .. SegmentEnd(n, st, k) : st2[p] = st[p]
      <4>1. SegmentEnd(n, st, k) \in 0 .. Len(st) - 1
        BY <1>1, <1>3, <1>6, <3>2, <3>3
      <4> QED BY <1>1, <1>8, <2>2, <4>1
    <3> QED BY <2>1, <2>2, <3>2, <3>4 DEF SegmentOK
  <2> QED BY <2>3, <2>4
<1>14. Len(st2) = Base(n2, m) + c2.calls /\ c2.calls <= MaxCalls
  <2>1. Base(n2, m) = Base(n, m)
    BY <1>1, <1>12
  <2> QED BY <1>1, <1>3, <1>6, <1>8, <1>10, <2>1
<1>15. m \in 0..2
  BY <1>1 DEF FramesOK
<1>16. FramesOK(n2, st2, c2)
  BY <1>2, <1>8, <1>11, <1>13, <1>14, <1>15 DEF FramesOK
<1> QED BY <1>16 DEF n2, st2, c2

-------------------------------------------------------------------------------
(***************************************************************************)
(* The inductive invariant: the frames are in order, mInterruptActive      *)
(* names the routines in service, and the SP saved for a level is that of  *)
(* its routine.                                                            *)
(***************************************************************************)
ScalarTypes ==
  /\ ea \in BOOLEAN /\ ie \in SUBSET Source /\ ip \in SUBSET Source
  /\ flag \in SUBSET Source
  /\ idl \in BOOLEAN /\ pd \in BOOLEAN
  /\ active \in 0..3 /\ delay \in Nat /\ scale \in Nat \ {0}
  /\ int_sp \in [0..1 -> Nat] /\ mismatch \in BOOLEAN

SavedSP == \A k \in 1..Len(nest) : int_sp[nest[k].level] = nest[k].base

LevelsInv == NestingOK /\ SavedSP /\ NoFalseMismatch

IInv == ScalarTypes /\ FramesOK(nest, stack, pc) /\ LevelsInv

\* An opcode's delay is a number, also on a 12T part.
LEMMA OpDelayType ==
  ASSUME scale \in Nat \ {0}, NEW r \in Nat
  PROVE  OpDelay(r) \in Nat
<1>1. (r + 1) * scale >= 1
  OBVIOUS
<1>2. (r + 1) * scale \in Nat
  OBVIOUS
<1> QED BY <1>1, <1>2 DEF OpDelay

LEMMA FramesEmpty == FramesOK(<< >>, << >>, MainEntry)
<1> DEFINE n == << >>
<1>1. n \in Seq(Frame) /\ n \in Seq(ProgramPoint) /\ Len(n) = 0
  OBVIOUS
<1>2. MainEntry \in ProgramPoint /\ MainEntry.calls = 0 /\ MainEntry.routine = "main"
  BY DEF MainEntry, ProgramPoint
<1>3. Base(n, 0) = 0 /\ SegmentEnd(n, n, 0) = 0
  BY <1>1 DEF Base, SegmentEnd
<1> HIDE DEF n
<1>4. SegmentOK(n, n, 0)
  BY <1>1, <1>3 DEF SegmentOK
<1>5. FramesOK(n, n, MainEntry)
  <2>1. \A k \in 0..Len(n) : SegmentOK(n, n, k)
    BY <1>1, <1>4
  <2> QED BY <1>1, <1>2, <1>3, <2>1, NumbersAssumption DEF FramesOK
<1> QED BY <1>5 DEF n

LEMMA InitIInv == Init => IInv
<1> SUFFICES ASSUME Init PROVE IInv
  OBVIOUS
<1>1. scale \in Nat \ {0}
  BY NumbersAssumption DEF Init
<1>2. ScalarTypes
  <2>1. int_sp \in [0..1 -> Nat]
    BY DEF Init
  <2>2. active \in 0..3 /\ delay \in Nat
    BY DEF Init
  <2> QED BY <1>1, <2>1, <2>2, Zenon DEF Init, ScalarTypes
<1>3. LevelsInv
  BY DEF Init, LevelsInv, NestingOK, NoFalseMismatch, SavedSP
<1>4. FramesOK(nest, stack, pc)
  BY FramesEmpty DEF Init
<1> QED BY <1>2, <1>3, <1>4 DEF IInv

\* A step that leaves the routines in service alone leaves what is said of them
\* alone.
LEMMA QuietLevels ==
  LevelsInv /\ UNCHANGED << nest, active, int_sp, mismatch >> => LevelsInv'
BY DEF LevelsInv, NestingOK, SavedSP, NoFalseMismatch

\* While one more interrupt can be accepted, at most a low one is in service.
LEMMA AcceptedLevel ==
  ASSUME IInv, Accepted
  PROVE  /\ \/ active = 0 /\ Len(nest) = 0
            \/ active = 1 /\ Len(nest) = 1 /\ nest[1].level = 0 /\ PolledLevel = 1
         /\ Poll.dest \in Source /\ PolledLevel \in 0..1
         /\ active = 0 => Raised(Poll.hi) = PolledLevel + 1
         /\ active = 1 => Raised(Poll.hi) = 3
<1>1. active = 0 \/ active = 1
  BY DEF IInv, ScalarTypes, Accepted
<1>2. active = 1 => PolledLevel = 1 /\ Raised(Poll.hi) = 3
  BY DEF Accepted, PolledLevel, Raised
<1>3. active = 0 => Raised(Poll.hi) = PolledLevel + 1
  BY DEF Accepted, PolledLevel, Raised
<1>4. Poll.dest \in Source /\ PolledLevel \in 0..1
  BY PollTypes DEF Accepted, PolledLevel
<1>5. Len(<< >>) = 0
  OBVIOUS
<1> QED BY <1>1, <1>2, <1>3, <1>4, <1>5 DEF IInv, LevelsInv, NestingOK

LEMMA TakeInterruptStep == IInv /\ TakeInterrupt => LevelsInv' /\ FramesOK(nest, stack, pc)'
<1> SUFFICES ASSUME IInv, TakeInterrupt PROVE LevelsInv' /\ FramesOK(nest, stack, pc)'
  OBVIOUS
<1> DEFINE f == [level |-> PolledLevel, base |-> Len(stack) + 1]
<1>1. FramesOK(nest, stack, pc) /\ Accepted /\ SavedSP
  BY DEF IInv, LevelsInv, TakeInterrupt
<1>2. /\ \/ active = 0 /\ Len(nest) = 0
         \/ active = 1 /\ Len(nest) = 1 /\ nest[1].level = 0 /\ PolledLevel = 1
      /\ Poll.dest \in Source /\ PolledLevel \in 0..1
      /\ active = 0 => Raised(Poll.hi) = PolledLevel + 1
      /\ active = 1 => Raised(Poll.hi) = 3
  BY <1>1, AcceptedLevel
<1>3. stack' = Append(stack, pc) /\ Len(stack') = Len(stack) + 1 /\ Len(stack) \in Nat
  BY <1>1, PushFacts DEF TakeInterrupt, FramesOK
<1>4. /\ nest' = Append(nest, f) /\ pc' = [routine |-> Poll.dest, calls |-> 0]
      /\ active' = Raised(Poll.hi) /\ mismatch' = mismatch
      /\ int_sp' = [int_sp EXCEPT ![PolledLevel] = Len(stack) + 1]
  BY <1>3 DEF TakeInterrupt
<1>5. FramesOK(nest, stack, pc)'
  <2>0. Len(nest) = 0 \/ Len(nest) = 1
    BY <1>2, Zenon
  <2>1. Len(nest) < 2
    BY <2>0
  <2>2. FramesOK(Append(nest, f), Append(stack, pc), [routine |-> Poll.dest, calls |-> 0])
    BY <1>1, <1>2, <2>1, FramesEnter
  <2> QED BY <1>3, <1>4, <2>2
<1>6. f \in Frame /\ f.level = PolledLevel /\ f.base = Len(stack) + 1
  BY <1>2, <1>3 DEF Frame
<1> HIDE DEF f
<1>7. /\ Len(nest') = Len(nest) + 1 /\ nest'[Len(nest) + 1] = f
      /\ \A k \in 1..Len(nest) : nest'[k] = nest[k]
  BY <1>1, <1>4, <1>6, PushFacts DEF FramesOK
<1>8. int_sp'[PolledLevel] = Len(stack) + 1 /\ (PolledLevel = 1 => int_sp'[0] = int_sp[0])
  BY <1>2, <1>4 DEF IInv, ScalarTypes
<1>9. NoFalseMismatch'
  BY <1>4 DEF IInv, LevelsInv, NoFalseMismatch
<1>10. CASE active = 0
  <2>1. Len(nest') = 1 /\ nest'[1] = f
    BY <1>2, <1>7, <1>10
  <2>2. NestingOK'
    BY <1>2, <1>4, <1>6, <1>10, <2>1 DEF NestingOK
  <2>3. SavedSP'
    BY <1>6, <1>8, <2>1 DEF SavedSP
  <2> QED BY <1>5, <1>9, <2>2, <2>3 DEF LevelsInv
<1>11. CASE active = 1
  <2>1. Len(nest) = 1 /\ nest[1].level = 0 /\ PolledLevel = 1
    BY <1>2, <1>11
  <2>2. Len(nest') = 2 /\ nest'[2] = f /\ nest'[1] = nest[1]
    BY <1>7, <2>1
  <2>3. NestingOK'
    BY <1>2, <1>4, <1>6, <1>11, <2>1, <2>2 DEF NestingOK
  <2>4. int_sp'[nest'[1].level] = nest'[1].base
    BY <1>1, <1>8, <2>1, <2>2 DEF SavedSP
  <2>5. int_sp'[nest'[2].level] = nest'[2].base
    BY <1>6, <1>8, <2>2
  <2>6. SavedSP'
    <3>1. \A k \in 1..2 : k = 1 \/ k = 2
      OBVIOUS
    <3> QED BY <2>2, <2>4, <2>5, <3>1 DEF SavedSP
  <2> QED BY <1>5, <1>9, <2>3, <2>6 DEF LevelsInv
<1> QED BY <1>2, <1>10, <1>11

LEMMA RetiStep == IInv /\ Reti => LevelsInv' /\ FramesOK(nest, stack, pc)'
<1> SUFFICES ASSUME IInv, Reti PROVE LevelsInv' /\ FramesOK(nest, stack, pc)'
  OBVIOUS
<1>1. FramesOK(nest, stack, pc) /\ SavedSP /\ NestingOK /\ NoFalseMismatch
  BY DEF IInv, LevelsInv
<1>2. /\ nest' = Popped(nest) /\ stack' = Popped(stack) /\ pc' = Top(stack)
      /\ active' = Lowered /\ int_sp' = int_sp
      /\ mismatch' = (mismatch \/ (active # 0 /\ int_sp[CheckedSlot] # Len(stack)))
      /\ pc.routine # "main" /\ pc.calls = 0
  BY DEF Reti
<1>3. Len(nest) > 0
  BY <1>1, <1>2 DEF FramesOK
<1>4. FramesOK(nest, stack, pc)'
  <2>1. FramesOK(Popped(nest), Popped(stack), Top(stack))
    BY <1>1, <1>2, <1>3, FramesLeave
  <2> QED BY <1>2, <2>1
<1>5. Len(nest') = Len(nest) - 1 /\ \A k \in 1 .. Len(nest) - 1 : nest'[k] = nest[k]
  BY <1>1, <1>2, <1>3, PopFacts DEF FramesOK
<1>6. nest[Len(nest)].level = CheckedSlot /\ (Len(nest) = 1 \/ Len(nest) = 2)
  BY <1>1, <1>3 DEF NestingOK, CheckedSlot
<1>7. int_sp[CheckedSlot] = Len(stack)
  <2>1. Len(stack) = Base(nest, Len(nest)) + 0 /\ Base(nest, Len(nest)) \in Nat
    BY <1>1, <1>2, SegmentOrder DEF FramesOK
  <2>2. Base(nest, Len(nest)) = nest[Len(nest)].base
    BY <1>3 DEF Base
  <2>3. int_sp[nest[Len(nest)].level] = nest[Len(nest)].base
    BY <1>1, <1>6 DEF SavedSP
  <2> QED BY <1>6, <2>1, <2>2, <2>3
<1>8. NoFalseMismatch'
  BY <1>1, <1>2, <1>7 DEF NoFalseMismatch
<1>9. NestingOK'
  <2>1. CASE Len(nest) = 1
    <3>1. Len(nest') = 0 /\ nest' \in Seq(Frame)
      BY <1>4, <1>5, <2>1 DEF FramesOK
    <3>2. nest' = << >>
      BY <3>1
    <3>3. active' = 0
      BY <1>1, <1>2, <2>1 DEF NestingOK, Lowered
    <3> QED BY <3>2, <3>3 DEF NestingOK
  <2>2. CASE Len(nest) = 2
    <3>1. Len(nest') = 1 /\ nest'[1] = nest[1]
      BY <1>5, <2>2
    <3>2. active = 3 /\ nest[1].level = 0
      BY <1>1, <2>2 DEF NestingOK
    <3>3. active' = 1
      BY <1>2, <3>2 DEF Lowered
    <3> QED BY <3>1, <3>2, <3>3 DEF NestingOK
  <2> QED BY <1>6, <2>1, <2>2
<1>10. SavedSP'
  BY <1>1, <1>2, <1>5, <1>6 DEF SavedSP
<1> QED BY <1>4, <1>8, <1>9, <1>10 DEF LevelsInv

\* The rest of the steps, one by one.
LEMMA FramesStep == IInv /\ [Next]_vars => LevelsInv' /\ FramesOK(nest, stack, pc)'
<1> SUFFICES ASSUME IInv, [Next]_vars PROVE LevelsInv' /\ FramesOK(nest, stack, pc)'
  OBVIOUS
<1>1. FramesOK(nest, stack, pc) /\ LevelsInv
  BY DEF IInv
<1>2. ASSUME UNCHANGED << frames, active, int_sp, mismatch >>
      PROVE  LevelsInv' /\ FramesOK(nest, stack, pc)'
  BY <1>1, <1>2, QuietLevels DEF frames
<1>3. CASE Countdown \/ PowerDownTick \/ IdleTick \/ Plain \/ WriteIE \/ WriteIP \/ WritePCON
  BY <1>2, <1>3 DEF Countdown, PowerDownTick, IdleTick, Plain, WriteIE, WriteIP, WritePCON
<1>4. CASE \E s \in Source : ClearFlag(s) \/ SetFlag(s) \/ Raise(s)
  BY <1>2, <1>4 DEF ClearFlag, SetFlag, Raise
<1>5. CASE UNCHANGED vars
  BY <1>2, <1>5 DEF vars
<1>6. CASE Call
  <2>1. FramesOK(nest, Append(stack, pc), [pc EXCEPT !.calls = @ + 1])
    BY <1>1, <1>6, FramesCall DEF Call
  <2>2. LevelsInv'
    BY <1>1, <1>6, QuietLevels DEF Call
  <2> QED BY <1>6, <2>1, <2>2 DEF Call
<1>7. CASE Ret
  <2>1. FramesOK(nest, Popped(stack), Top(stack))
    BY <1>1, <1>7, FramesRet DEF Ret
  <2>2. LevelsInv'
    BY <1>1, <1>7, QuietLevels DEF Ret
  <2> QED BY <1>7, <2>1, <2>2 DEF Ret
<1>8. CASE Reset
  <2>1. FramesOK(nest, stack, pc)'
    BY <1>8, FramesEmpty DEF Reset
  <2>2. LevelsInv'
    BY <1>1, <1>8 DEF Reset, LevelsInv, NestingOK, SavedSP, NoFalseMismatch
  <2> QED BY <2>1, <2>2
<1> QED
  BY <1>3, <1>4, <1>5, <1>6, <1>7, <1>8, TakeInterruptStep, RetiStep
  DEF Next, Tick, Firmware

\* The variables no frame depends on keep their types.
LEMMA ScalarStep == IInv /\ [Next]_vars => ScalarTypes'
<1> SUFFICES ASSUME IInv, [Next]_vars PROVE ScalarTypes'
  OBVIOUS
<1> USE DEF masks, power
<1>0. ScalarTypes
  BY DEF IInv
<1>1. active' \in 0..3
  <2>1. LevelsInv'
    BY FramesStep
  <2> QED BY <2>1 DEF LevelsInv, NestingOK
<1>2. 2 \in Nat /\ 0 \in Nat
  OBVIOUS
<1>3. \A r \in Nat : Execute(r) => delay' \in Nat /\ scale' = scale
  BY <1>0, OpDelayType DEF Execute, ScalarTypes
<1>4. CASE Countdown
  BY <1>0, <1>4 DEF Countdown, AtBoundary, ScalarTypes
<1>5. CASE PowerDownTick \/ IdleTick
  BY <1>0, <1>5 DEF PowerDownTick, IdleTick, ScalarTypes
<1>6. CASE TakeInterrupt
  <2>1. int_sp' \in [0..1 -> Nat]
    <3>1. Len(stack') \in Nat
      BY <1>6, FramesStep, SegmentOrder
    <3> QED BY <1>0, <1>6, <3>1 DEF TakeInterrupt, ScalarTypes
  <2>2. flag' \in SUBSET Source
    BY <1>0, <1>6 DEF TakeInterrupt, ScalarTypes, Acknowledge
  <2>3. delay' \in Nat /\ scale' \in Nat \ {0} /\ idl' \in BOOLEAN
    BY <1>0, <1>6 DEF TakeInterrupt, ScalarTypes, IdleAfterVector
  <2> QED BY <1>0, <1>1, <1>6, <2>1, <2>2, <2>3, Zenon DEF TakeInterrupt, ScalarTypes
<1>7. CASE Plain
  BY <1>0, <1>3, <1>7, NumbersAssumption DEF Plain, ScalarTypes
<1>8. CASE Call \/ Ret
  BY <1>0, <1>2, <1>3, <1>8 DEF Call, Ret, ScalarTypes
<1>9. CASE Reti
  <2>1. mismatch' \in BOOLEAN
    BY <1>0, <1>9 DEF Reti, ScalarTypes
  <2> QED BY <1>0, <1>1, <1>2, <1>3, <1>9, <2>1 DEF Reti, ScalarTypes
<1>10. CASE WriteIE
  BY <1>0, <1>2, <1>3, <1>10, SetsAssumption DEF WriteIE, ScalarTypes
<1>11. CASE WriteIP
  BY <1>0, <1>2, <1>3, <1>11, SetsAssumption DEF WriteIP, ScalarTypes
<1>12. CASE WritePCON
  BY <1>0, <1>2, <1>3, <1>12 DEF WritePCON, ScalarTypes
<1>13. CASE \E s \in Source : ClearFlag(s) \/ SetFlag(s)
  BY <1>0, <1>2, <1>3, <1>13 DEF ClearFlag, SetFlag, ScalarTypes
<1>14. CASE Reset
  BY <1>0, <1>14 DEF Reset, ScalarTypes
<1>15. CASE \E s \in Source : Raise(s)
  BY <1>0, <1>15 DEF Raise, ScalarTypes
<1>16. CASE UNCHANGED vars
  BY <1>0, <1>16 DEF vars, ScalarTypes
<1> QED
  BY <1>4, <1>5, <1>6, <1>7, <1>8, <1>9, <1>10, <1>11, <1>12, <1>13, <1>14, <1>15, <1>16
  DEF Next, Tick, Firmware

\* IInv holds of every reachable state, for every firmware and every host.
THEOREM Invariance == Spec => []IInv
<1>1. IInv /\ [Next]_vars => IInv'
  BY ScalarStep, FramesStep DEF IInv
<1> QED BY InitIInv, <1>1, PTL DEF Spec

\* Every variable keeps its type.
THEOREM TypeCorrect == Spec => []TypeOK
<1>1. IInv => TypeOK
  BY DEF IInv, ScalarTypes, FramesOK, TypeOK
<1> QED BY <1>1, Invariance, PTL

\* The routines in service nest as the priority levels allow, and
\* mInterruptActive names them: tick's guards and RETI agree in every history.
THEOREM NestingTheorem == Spec => []NestingOK
<1>1. IInv => NestingOK
  BY DEF IInv, LevelsInv
<1> QED BY <1>1, Invariance, PTL

\* RETI's comparison never accuses a firmware that balances its stack.
THEOREM NoFalseMismatchTheorem == Spec => []NoFalseMismatch
<1>1. IInv => NoFalseMismatch
  BY DEF IInv, LevelsInv
<1> QED BY <1>1, Invariance, PTL

\* The room a firmware's stack needs: interrupts add one return point for each
\* level, whatever the requests, the enables and the priorities do.
THEOREM StackTheorem == Spec => []StackBound
<1>1. IInv => StackBound
  <2> SUFFICES ASSUME IInv PROVE StackBound
    OBVIOUS
  <2>1. FramesOK(nest, stack, pc)
    BY DEF IInv
  <2>2. /\ Len(nest) \in Nat /\ Len(stack) \in Nat /\ pc.calls \in Nat /\ MaxCalls \in Nat
        /\ Len(stack) = Base(nest, Len(nest)) + pc.calls /\ pc.calls <= MaxCalls
        /\ Base(nest, Len(nest)) \in Nat
    BY <2>1, SegmentOrder DEF FramesOK
  <2>3. ASSUME NEW k \in 0..Len(nest), k # Len(nest)
        PROVE  Base(nest, k) \in Nat /\ Base(nest, k + 1) <= Base(nest, k) + MaxCalls + 1
    <3>1. SegmentOK(nest, stack, k) /\ Base(nest, k) \in Nat
      BY <2>1, SegmentOrder DEF FramesOK
    <3>2. SegmentEnd(nest, stack, k) = nest[k + 1].base
      BY <2>3 DEF SegmentEnd
    <3>3. Base(nest, k + 1) = nest[k + 1].base
      <4>1. k + 1 # 0
        OBVIOUS
      <4> QED BY <4>1 DEF Base
    <3> QED BY <2>2, <2>3, <3>1, <3>2, <3>3 DEF SegmentOK
  <2>4. Base(nest, 0) = 0
    BY DEF Base
  <2>5. CASE Len(nest) = 0
    BY <2>2, <2>4, <2>5 DEF StackBound
  <2>6. CASE Len(nest) = 1
    <3>1. Base(nest, 1) <= MaxCalls + 1
      BY <2>2, <2>3, <2>4, <2>6
    <3> QED BY <2>2, <2>6, <3>1 DEF StackBound
  <2>7. CASE Len(nest) = 2
    <3>1. Base(nest, 1) <= MaxCalls + 1 /\ Base(nest, 1) \in Nat
      BY <2>2, <2>3, <2>4, <2>7
    <3>2. Base(nest, 2) <= Base(nest, 1) + MaxCalls + 1
      BY <2>3, <2>7
    <3> QED BY <2>2, <2>7, <3>1, <3>2 DEF StackBound
  <2> QED BY <2>1, <2>5, <2>6, <2>7 DEF FramesOK
<1> QED BY <1>1, Invariance, PTL

\* The arbitration of handle_interrupts, whatever IE, IP and the flags hold.
THEOREM PollTheorem == Spec => []PollPicksHighest
<1>1. IInv => PollPicksHighest
  BY PollSound DEF IInv, ScalarTypes
<1> QED BY <1>1, Invariance, PTL

\* No opcode runs in a core that PCON has parked.
THEOREM ParkedTheorem == Spec => ParkedCoreStays
<1>1. [Next]_vars =>
        [/\ idl /\ idl' /\ ~Reset => UNCHANGED << frames, masks, active >>
         /\ pd /\ ~Reset => UNCHANGED << frames, masks, active, power >>]_vars
  <2> SUFFICES ASSUME Next
               PROVE  /\ idl /\ idl' /\ ~Reset => UNCHANGED << frames, masks, active >>
                      /\ pd /\ ~Reset => UNCHANGED << frames, masks, active, power >>
    OBVIOUS
  <2>1. CASE Countdown \/ PowerDownTick \/ IdleTick
    BY <2>1 DEF Countdown, PowerDownTick, IdleTick
  <2>2. CASE TakeInterrupt
    BY <2>2 DEF TakeInterrupt, IdleAfterVector
  <2>3. ASSUME NEW r, Execute(r) PROVE ~idl /\ ~pd
    BY <2>3 DEF Execute, Runs
  <2>4. CASE Firmware
    BY <2>3, <2>4 DEF Firmware, Plain, Call, Ret, Reti, WriteIE, WriteIP, WritePCON,
                      ClearFlag, SetFlag
  <2>5. CASE \E s \in Source : Raise(s)
    BY <2>5 DEF Raise
  <2> QED BY <2>1, <2>2, <2>4, <2>5 DEF Next, Tick
<1> QED BY <1>1, PTL DEF Spec, ParkedCoreStays

\* No vector and no other instruction swallows a pending request.
THEOREM RequestTheorem == Spec => RequestKept
<1>1. IInv /\ [Next]_vars =>
        [\A s \in flag \ flag' :
           \/ Len(nest') = Len(nest) + 1 /\ pc'.routine = s
           \/ ClearFlag(s)
           \/ Reset]_vars
  <2> SUFFICES ASSUME IInv, Next, NEW s \in flag \ flag'
               PROVE  \/ Len(nest') = Len(nest) + 1 /\ pc'.routine = s
                      \/ ClearFlag(s)
                      \/ Reset
    OBVIOUS
  <2> USE DEF masks, power
  <2>1. CASE Countdown \/ PowerDownTick \/ IdleTick
    BY <2>1 DEF Countdown, PowerDownTick, IdleTick
  <2>2. CASE TakeInterrupt
    <3>1. s = Poll.dest
      BY <2>2 DEF TakeInterrupt, Acknowledge
    <3>2. Len(nest') = Len(nest) + 1
      <4>1. nest' = Append(nest, [level |-> PolledLevel, base |-> Len(stack')])
        BY <2>2 DEF TakeInterrupt
      <4>2. nest \in Seq(Frame)
        BY DEF IInv, FramesOK
      <4> QED BY <4>1, <4>2
    <3> QED BY <2>2, <3>1, <3>2 DEF TakeInterrupt
  <2>3. CASE Plain \/ Call \/ Ret \/ Reti \/ WriteIE \/ WriteIP \/ WritePCON
    BY <2>3 DEF Plain, Call, Ret, Reti, WriteIE, WriteIP, WritePCON
  <2>4. CASE \E t \in Source : ClearFlag(t)
    <3>1. PICK t \in Source : ClearFlag(t)
      BY <2>4
    <3>2. s = t
      BY <3>1 DEF ClearFlag
    <3> QED BY <3>1, <3>2
  <2>5. CASE \E t \in Source : SetFlag(t) \/ Raise(t)
    BY <2>5 DEF SetFlag, Raise
  <2>6. CASE Reset
    BY <2>6
  <2> QED BY <2>1, <2>2, <2>3, <2>4, <2>5, <2>6 DEF Next, Tick, Firmware
<1> QED BY <1>1, Invariance, PTL DEF Spec, RequestKept

===============================================================================
