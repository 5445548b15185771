------------------------------ MODULE UartProofs ------------------------------
(***************************************************************************)
(* Proofs about Uart: that no byte is read in place of another and none    *)
(* left without its interrupt, and that ring, SBUF and gap together are a  *)
(* ByteStream, for every size of the ring, character time and number of    *)
(* bytes.                                                                  *)
(***************************************************************************)
EXTENDS Uart, SequenceTheorems, TLAPS

USE SizesAssumption, SwitchesAssumption

AnyByte == Byte \cup {TxByte}

-------------------------------------------------------------------------------
(* The ring *)

\* The n bytes of ring f from slot h on.
Ring(f, h, n) == [i \in 1..n |-> f[(h + i - 1) % Cap]]

\* A slot reached by counting on from another wraps at most once.
LEMMA ModSmall ==
  ASSUME NEW x \in Nat, x < 2 * Cap
  PROVE  x % Cap = IF x < Cap THEN x ELSE x - Cap
<1>1. \A c \in Nat \ {0} : \A y \in Nat : y < 2 * c => y % c = IF y < c THEN y ELSE y - c
  BY SMTT(30)
<1> QED BY <1>1

\* A ring read from h on is a sequence.
LEMMA RingType ==
  ASSUME NEW f \in [0 .. Cap - 1 -> AnyByte], NEW h \in 0 .. Cap - 1, NEW n \in 0..Cap
  PROVE  Ring(f, h, n) \in Seq(AnyByte) /\ Len(Ring(f, h, n)) = n
<1>1. \A i \in 1..n : f[(h + i - 1) % Cap] \in AnyByte OBVIOUS
<1>2. Ring(f, h, n) \in Seq(AnyByte) BY <1>1, IsASeq DEF Ring
<1>3. Len(Ring(f, h, n)) = n BY DEF Ring
<1> QED BY <1>2, <1>3

\* Writing the slot behind the last byte appends it: it is none of the slots in use.
LEMMA RingPush ==
  ASSUME NEW f \in [0 .. Cap - 1 -> AnyByte], NEW h \in 0 .. Cap - 1,
         NEW n \in 0 .. Cap - 1, NEW b \in AnyByte
  PROVE  Ring([f EXCEPT ![(h + n) % Cap] = b], h, n + 1) = Append(Ring(f, h, n), b)
<1> DEFINE g == [f EXCEPT ![(h + n) % Cap] = b]
           s == Ring(g, h, n + 1)
           t == Append(Ring(f, h, n), b)
<1>1. (h + n) % Cap \in 0 .. Cap - 1 OBVIOUS
<1>2. g \in [0 .. Cap - 1 -> AnyByte] BY <1>1
<1>3. s \in Seq(AnyByte) /\ Len(s) = n + 1 BY <1>2, n + 1 \in 0..Cap, RingType
<1>4. Ring(f, h, n) \in Seq(AnyByte) /\ Len(Ring(f, h, n)) = n BY n \in 0..Cap, RingType
<1>5. t \in Seq(AnyByte) /\ Len(t) = n + 1 BY <1>4
<1>6. ASSUME NEW i \in 1 .. n + 1 PROVE s[i] = t[i]
  <2>1. s[i] = g[(h + i - 1) % Cap] BY DEF Ring
  <2>2. (h + i - 1) % Cap \in 0 .. Cap - 1 OBVIOUS
  <2>3. CASE i = n + 1
    <3>1. t[i] = b BY <1>4, <2>3
    <3>2. h + i - 1 = h + n BY <2>3
    <3> QED BY <1>1, <2>1, <3>1, <3>2
  <2>4. CASE i \in 1..n
    <3>1. t[i] = f[(h + i - 1) % Cap] BY <1>4, <2>4 DEF Ring
    <3> DEFINE x == h + i - 1
               y == h + n
    <3>2. x \in Nat /\ x < 2 * Cap /\ y \in Nat /\ y < 2 * Cap BY <2>4
    <3>3. x < y /\ y < x + Cap BY <2>4
    <3> HIDE DEF x, y
    <3>4. x % Cap = (IF x < Cap THEN x ELSE x - Cap) BY <3>2, ModSmall
    <3>5. y % Cap = (IF y < Cap THEN y ELSE y - Cap) BY <3>2, ModSmall
    <3>6. x % Cap # y % Cap BY <3>2, <3>3, <3>4, <3>5
    <3>7. (h + i - 1) % Cap # (h + n) % Cap BY <3>6 DEF x, y
    <3> QED BY <2>1, <2>2, <3>1, <3>7
  <2>5. i = n + 1 \/ i \in 1..n OBVIOUS
  <2> HIDE DEF s, t
  <2> QED BY <2>3, <2>4, <2>5
<1> HIDE DEF s, t
<1>7. s = t BY <1>3, <1>5, <1>6, SeqEqual
<1> QED BY <1>7 DEF s, t

\* Leaving the head slot behind takes the first byte off.
LEMMA RingPop ==
  ASSUME NEW f \in [0 .. Cap - 1 -> AnyByte], NEW h \in 0 .. Cap - 1, NEW n \in 1..Cap
  PROVE  Ring(f, h, n) = << f[h] >> \o Ring(f, NextSlot(h), n - 1)
<1> DEFINE s == Ring(f, h, n)
           r == Ring(f, NextSlot(h), n - 1)
           t == << f[h] >> \o r
<1>1. NextSlot(h) \in 0 .. Cap - 1 BY DEF NextSlot
<1>2. s \in Seq(AnyByte) /\ Len(s) = n BY n \in 0..Cap, RingType
<1>3. r \in Seq(AnyByte) /\ Len(r) = n - 1 BY <1>1, n - 1 \in 0..Cap, RingType
<1>4. << f[h] >> \in Seq(AnyByte) /\ Len(<< f[h] >>) = 1 OBVIOUS
<1>5. t \in Seq(AnyByte) /\ Len(t) = n
  <2> HIDE DEF r
  <2> QED BY <1>3, <1>4, ConcatProperties
<1>6. ASSUME NEW i \in 1..n PROVE s[i] = t[i]
  <2>1. s[i] = f[(h + i - 1) % Cap] BY DEF Ring
  <2>2. CASE i = 1
    <3>1. t[i] = f[h]
      <4> HIDE DEF r
      <4> QED BY <1>3, <1>4, <2>2
    <3>2. (h + i - 1) % Cap = h BY <2>2, ModSmall
    <3> QED BY <2>1, <3>1, <3>2
  <2>3. CASE i \in 2..n
    <3>1. t[i] = r[i - 1]
      <4> HIDE DEF r
      <4> QED BY <1>3, <1>4, <2>3
    <3>2. r[i - 1] = f[(NextSlot(h) + (i - 1) - 1) % Cap] BY <2>3 DEF Ring
    <3>3. NextSlot(h) = IF h + 1 < Cap THEN h + 1 ELSE 0
      <4> DEFINE y == h + 1
      <4>1. y \in Nat /\ y < 2 * Cap /\ y <= Cap OBVIOUS
      <4> HIDE DEF y
      <4>2. y % Cap = IF y < Cap THEN y ELSE y - Cap BY <4>1, ModSmall
      <4>3. y % Cap = IF y < Cap THEN y ELSE 0 BY <4>1, <4>2
      <4> QED BY <4>3 DEF y, NextSlot
    <3>4. (NextSlot(h) + (i - 1) - 1) % Cap = (h + i - 1) % Cap
      <4>1. CASE h + 1 < Cap
        <5>1. NextSlot(h) + (i - 1) - 1 = h + i - 1 BY <2>3, <3>3, <4>1
        <5> QED BY <5>1
      <4>2. CASE h + 1 = Cap
        <5>1. NextSlot(h) + (i - 1) - 1 = i - 2 BY <2>3, <3>3, <4>2
        <5>2. i - 2 \in Nat /\ i - 2 < Cap /\ i - 2 < 2 * Cap BY <2>3
        <5>3. (i - 2) % Cap = i - 2 BY <5>2, ModSmall
        <5> DEFINE x == h + i - 1
        <5>4. x \in Nat /\ x < 2 * Cap /\ ~(x < Cap) /\ x - Cap = i - 2 BY <2>3, <4>2
        <5> HIDE DEF x
        <5>5. x % Cap = x - Cap BY <5>4, ModSmall
        <5>6. (h + i - 1) % Cap = i - 2 BY <5>4, <5>5 DEF x
        <5> QED BY <5>1, <5>3, <5>6
      <4> QED BY <4>1, <4>2
    <3> QED BY <2>1, <3>1, <3>2, <3>4
  <2>4. i = 1 \/ i \in 2..n OBVIOUS
  <2> HIDE DEF s, t
  <2> QED BY <2>2, <2>3, <2>4
<1> HIDE DEF s, t
<1>7. s = t BY <1>2, <1>5, <1>6, SeqEqual
<1> QED BY <1>7 DEF s, t

-------------------------------------------------------------------------------
(* The inductive invariant *)

\* Between seeing RI and clearing it the firmware finds it set, and SBUF as it was:
\* only a delivery writes SBUF there, and it needs RI clear.
Reading ==
  /\ fw \in {"seen", "read"} => ri
  /\ fw = "seen" => sbuf = told
  /\ fw = "read" => order = "read_first"
  /\ fw = "cleared" => order = "clear_first"

\* RI set by a delivery brings its request with it; only a vector takes the request.
Requested == es /\ ri /\ fw \in {"main", "cleared", "done"} => trigger

\* A prompt firmware reads before the next delivery is due, and so finds its byte.
Ahead ==
  Prompt => /\ order = "clear_first" /\ Held => gap # 0
            /\ fw = "cleared" => ~ri /\ sbuf = told

IInv == TypeOK /\ Reading /\ Requested /\ Ahead

\* It holds at first.
LEMMA InitIInv == Init => IInv
<1> SUFFICES ASSUME Init PROVE IInv OBVIOUS
<1>1. TypeOK
  <2>1. rx_fifo \in [0 .. Cap - 1 -> Byte \cup {TxByte}] BY DEF Init
  <2>2. taken \in Seq(Byte \cup {TxByte}) /\ overwritten \subseteq Byte BY DEF Init
  <2> QED BY <2>1, <2>2 DEF Init, TypeOK, FwState
<1>2. Reading /\ Requested /\ Ahead BY DEF Init, Reading, Requested, Ahead, Held
<1> QED BY <1>1, <1>2 DEF IInv

\* Types: the ring is written inside its bounds and its head wraps.
LEMMA TypeStep == TypeOK /\ [Next]_vars => TypeOK'
<1> SUFFICES ASSUME TypeOK, [Next]_vars PROVE TypeOK' OBVIOUS
<1> USE DEF TypeOK
<1>1. CASE SerialRx
  <2>1. sent' \in Byte /\ sent' \in 0..MaxBytes BY <1>1 DEF SerialRx, Byte
  <2>2. CASE Free /\ Deliver(sent') /\ UNCHANGED queue
    BY <1>1, <2>1, <2>2 DEF SerialRx, Deliver, CharGap, Triggered, queue, kind, history
  <2>3. CASE /\ ~Free /\ Room
             /\ rx_fifo' = [rx_fifo EXCEPT ![(rx_head + rx_len) % Cap] = sent']
             /\ rx_len' = rx_len + 1
             /\ UNCHANGED << rx_head, gap, sbuf, ri, trigger >>
    BY <1>1, <2>1, <2>3 DEF SerialRx, Room, kind, history
  <2>4. CASE ~Free /\ ~Room /\ UNCHANGED << queue, gap, sbuf, ri, trigger >>
    BY <1>1, <2>1, <2>4 DEF SerialRx, queue, kind, history
  <2> QED BY <1>1, <2>2, <2>3, <2>4 DEF SerialRx
<1>2. CASE Tick
  BY <1>2 DEF Tick, Due, Deliver, CharGap, Triggered, NextSlot, queue, kind, history
<1>3. CASE Vector BY <1>3 DEF Vector, FwState, queue, scon, kind, history
<1>4. CASE SeeRI BY <1>4 DEF SeeRI, FwState, queue, scon, kind, history
<1>5. CASE SeeNoRI BY <1>5 DEF SeeNoRI, FwState, queue, scon, kind, history
<1>6. CASE ReadSBUF BY <1>6 DEF ReadSBUF, AfterService, FwState, queue, scon, kind
<1>7. CASE ClearRI BY <1>7 DEF ClearRI, AfterService, FwState, queue, kind, history
<1>8. CASE Return BY <1>8 DEF Return, FwState, queue, kind, history
<1>9. CASE WriteSBUF BY <1>9 DEF WriteSBUF, Triggered, queue, kind
<1>10. CASE ClearTI BY <1>10 DEF ClearTI, queue, kind, history
<1>11. CASE UNCHANGED vars BY <1>11 DEF vars, queue, scon, kind, history
<1> QED BY <1>1, <1>2, <1>3, <1>4, <1>5, <1>6, <1>7, <1>8, <1>9, <1>10, <1>11
        DEF Next, Receive

\* The other conjuncts: one case per action.
LEMMA ControlStep == IInv /\ [Next]_vars => (Reading /\ Requested /\ Ahead)'
<1> SUFFICES ASSUME IInv, [Next]_vars PROVE (Reading /\ Requested /\ Ahead)' OBVIOUS
<1> USE DEF IInv, Reading, Requested, Ahead, Held
<1>0. gap \in Nat /\ CharClocks # 0 BY DEF TypeOK
<1>1. CASE SerialRx
  <2>1. CASE Free /\ Deliver(sent')
    BY <1>0, <1>1, <2>1 DEF SerialRx, Free, Deliver, CharGap, Triggered, queue, kind
  <2>2. CASE ~Free BY <1>1, <2>2 DEF SerialRx, queue, kind
  <2> QED BY <1>1, <2>1, <2>2 DEF SerialRx
<1>2. CASE Tick
  <2>1. Prompt /\ order = "clear_first" /\ Held => gap > 1 BY <1>2 DEF Tick, InTime
  <2>2. CASE ~ri /\ ~(gap > 1) /\ Deliver(rx_fifo[rx_head])
    <3>1. ~(Prompt /\ order = "clear_first" /\ Held) BY <2>1, <2>2
    <3>2. fw \notin {"seen", "read"} BY <2>2
    <3> QED BY <1>0, <1>2, <2>2, <3>1, <3>2 DEF Tick, Due, Deliver, CharGap, Triggered, kind
  <2>3. CASE /\ gap' = (IF gap = 0 THEN 0 ELSE gap - 1)
             /\ UNCHANGED << queue, sbuf, ri, trigger >>
    BY <1>0, <1>2, <2>1, <2>3 DEF Tick, queue, kind
  <2> QED BY <1>0, <1>2, <2>2, <2>3 DEF Tick, Due
<1>3. CASE Vector BY <1>3 DEF Vector, queue, scon, kind
<1>4. CASE SeeRI BY <1>4 DEF SeeRI, queue, scon, kind
<1>5. CASE SeeNoRI BY <1>5 DEF SeeNoRI, queue, scon, kind
<1>6. CASE ReadSBUF BY <1>6 DEF ReadSBUF, AfterService, queue, scon, kind
<1>7. CASE ClearRI BY <1>7 DEF ClearRI, AfterService, queue, kind
<1>8. CASE Return BY <1>8 DEF Return, queue, kind
<1>9. CASE WriteSBUF BY <1>9 DEF WriteSBUF, Triggered, queue, kind
<1>10. CASE ClearTI BY <1>10 DEF ClearTI, queue, kind
<1>11. CASE UNCHANGED vars BY <1>11 DEF vars, queue, scon, kind
<1> QED BY <1>1, <1>2, <1>3, <1>4, <1>5, <1>6, <1>7, <1>8, <1>9, <1>10, <1>11
        DEF Next, Receive

\* Types, what the firmware relies on, and the request of a set RI, for every
\* firmware of the four kinds, prompt or not.
THEOREM Invariance == Spec => []IInv
<1>1. IInv /\ [Next]_vars => IInv' BY TypeStep, ControlStep DEF IInv
<1> QED BY <1>1, InitIInv, PTL DEF Spec

\* Every variable of the port keeps its type: the ring's head and length stay in range.
THEOREM TypeCorrect == Spec => []TypeOK
<1>1. IInv => TypeOK BY DEF IInv
<1> QED BY <1>1, Invariance, PTL

\* The interrupt-driven firmware is never left with RI set and no interrupt to come.
THEOREM InterruptTheorem == Spec => []NoLostInterrupt
<1>1. IInv => NoLostInterrupt BY DEF IInv, Requested, NoLostInterrupt
<1> QED BY <1>1, Invariance, PTL

\* A firmware that clears RI first reads the byte RI announced, if it is prompt.
THEOREM ToldTheorem == ASSUME Prompt PROVE Spec => []ToldIsRead
<1>1. IInv => ToldIsRead BY DEF IInv, Ahead, ToldIsRead
<1> QED BY <1>1, Invariance, PTL

\* An unread byte is overwritten by no other received byte, if the firmware is prompt:
\* the only step that replaces it is a transmission.
THEOREM UnreadTheorem == ASSUME Prompt PROVE Spec => UnreadKept
<1>1. IInv /\ [Next]_vars => [~Held \/ (sends' = sends + 1 /\ sbuf' = TxByte)]_sbuf
  <2> SUFFICES ASSUME IInv, [Next]_vars, sbuf' # sbuf
               PROVE  ~Held \/ (sends' = sends + 1 /\ sbuf' = TxByte)
      OBVIOUS
  <2> USE DEF IInv, Reading, Ahead, Held
  <2>0. gap \in Nat BY DEF IInv, TypeOK
  <2>1. CASE SerialRx BY <2>1 DEF SerialRx, Free
  <2>2. CASE Tick
    <3>1. ~ri /\ ~(gap > 1) BY <2>0, <2>2 DEF Tick, Due
    <3> QED BY <2>2, <3>1 DEF Tick, InTime
  <2>3. CASE WriteSBUF BY <2>3 DEF WriteSBUF
  <2> QED BY <2>1, <2>2, <2>3 DEF Next, Receive, Vector, SeeRI, SeeNoRI, ReadSBUF, ClearRI,
                                  Return, ClearTI, vars
<1> QED BY <1>1, Invariance, PTL DEF Spec, UnreadKept

-------------------------------------------------------------------------------
(* The port implements ByteStream. *)

\* The pending bytes: at most one in SBUF, the others in the ring.
LEMMA PendingForm ==
  ASSUME TypeOK
  PROVE  /\ Waiting = Ring(rx_fifo, rx_head, rx_len)
         /\ Waiting \in Seq(AnyByte) /\ Len(Waiting) = rx_len
         /\ Pending = IF Held THEN << sbuf >> \o Waiting ELSE Waiting
         /\ Pending \in Seq(AnyByte)
         /\ Len(Pending) = IF Held THEN rx_len + 1 ELSE rx_len
<1> USE DEF TypeOK, AnyByte
<1>1. Waiting = Ring(rx_fifo, rx_head, rx_len) BY DEF Waiting, Ring
<1>2. Waiting \in Seq(AnyByte) /\ Len(Waiting) = rx_len BY <1>1, RingType
<1>3. << sbuf >> \in Seq(AnyByte) /\ Len(<< sbuf >>) = 1 OBVIOUS
<1>4. CASE Held
  <2>1. Pending = << sbuf >> \o Waiting BY <1>4 DEF Pending
  <2>2. Pending \in Seq(AnyByte) /\ Len(Pending) = 1 + rx_len
    BY <1>2, <1>3, <2>1, ConcatProperties
  <2> QED BY <1>1, <1>2, <1>4, <2>1, <2>2
<1>5. CASE ~Held
  <2>1. Pending = << >> \o Waiting BY <1>5 DEF Pending
  <2>2. Pending = Waiting BY <1>2, <2>1, ConcatEmptySeq
  <2> QED BY <1>1, <1>2, <1>5, <2>2
<1> QED BY <1>4, <1>5

\* A step that leaves the ring, SBUF and what is unread alone leaves the pending bytes.
LEMMA PendingKept ==
  ASSUME UNCHANGED queue, Held' = Held, Held => sbuf' = sbuf
  PROVE  Pending' = Pending
  BY DEF queue, Pending, Waiting

\* A byte in front of a sequence is its head, and the sequence its tail.
LEMMA SplitForm ==
  ASSUME NEW b \in AnyByte, NEW w \in Seq(AnyByte)
  PROVE  LET s == << b >> \o w IN s # << >> /\ Head(s) = b /\ Tail(s) = w
<1> DEFINE t == Tail(<< b >> \o w)
<1>1. << b >> \o w # << >> /\ Head(<< b >> \o w) = b OBVIOUS
<1>2. t \in Seq(AnyByte) /\ Len(t) = Len(w) OBVIOUS
<1>3. \A i \in 1..Len(t) : t[i] = w[i] OBVIOUS
<1> HIDE DEF t
<1>4. t = w BY <1>2, <1>3, SeqEqual
<1> QED BY <1>1, <1>4 DEF t

\* What the firmware takes is the oldest byte pending.
LEMMA TakeHead ==
  ASSUME TypeOK, Held, ~Held', UNCHANGED queue
  PROVE  Pending # << >> /\ Head(Pending) = sbuf /\ Pending' = Tail(Pending)
<1>1. Pending = << sbuf >> \o Waiting /\ Waiting \in Seq(AnyByte) BY PendingForm
<1>2. Waiting' = Waiting BY DEF queue, Waiting
<1>3. Pending' = << >> \o Waiting BY <1>2 DEF Pending
<1>4. Pending' = Waiting BY <1>1, <1>3, ConcatEmptySeq
<1>5. sbuf \in AnyByte BY DEF TypeOK, AnyByte
<1> QED BY <1>1, <1>4, <1>5, SplitForm

\* Nothing is pending at first.
LEMMA StreamInit == Init => Stream!Init
<1> SUFFICES ASSUME Init PROVE Stream!Init OBVIOUS
<1>1. TypeOK BY InitIInv DEF IInv
<1>2. ~Held /\ rx_len = 0 BY DEF Init, Held
<1>3. Pending \in Seq(AnyByte) /\ Len(Pending) = 0 BY <1>1, <1>2, PendingForm
<1>4. Pending = << >> BY <1>3
<1> QED BY <1>4 DEF Init, Stream!Init

\* A byte from the host is appended to those pending, or found Cap of them.
LEMMA SendStep ==
  ASSUME Prompt, IInv, TypeOK', SerialRx
  PROVE  Stream!Send
<1> USE DEF IInv
<1>1. sent' = sent + 1 /\ UNCHANGED << taken, overwritten, fw >> BY DEF SerialRx, history
<1>2. CASE Free /\ Deliver(sent') /\ UNCHANGED queue
  <2>1. rx_len = 0 /\ ~ri /\ gap = 0 BY <1>2 DEF Free
  <2>2. ~Held BY <2>1 DEF Reading, Ahead, Held
  <2>3. Held' BY <1>1, <1>2, <2>1 DEF Deliver, Held, Reading
  <2>4. Pending = Waiting /\ Waiting \in Seq(AnyByte) /\ Len(Waiting) = 0
    BY <2>1, <2>2, PendingForm
  <2>5. Waiting' = Waiting BY <1>2 DEF Waiting, queue
  <2>6. Pending' = << sent' >> \o Waiting BY <1>2, <2>3, <2>5 DEF Pending, Deliver
  <2>7. Pending = << >> /\ Waiting = << >> BY <2>4
  <2>8. Pending' = Append(Pending, sent') BY <2>6, <2>7
  <2> QED BY <1>1, <2>7, <2>8 DEF Stream!Send
<1>3. CASE /\ ~Free /\ Room
           /\ rx_fifo' = [rx_fifo EXCEPT ![(rx_head + rx_len) % Cap] = sent']
           /\ rx_len' = rx_len + 1
           /\ UNCHANGED << rx_head, gap, sbuf, ri, trigger >>
  <2>1. sent' \in AnyByte BY DEF SerialRx, TypeOK, AnyByte, Byte
  <2>2. rx_len \in 0 .. Cap - 1 BY <1>3 DEF Room, TypeOK
  <2>3. Waiting' = Append(Waiting, sent')
    <3>1. Waiting = Ring(rx_fifo, rx_head, rx_len) BY PendingForm
    <3>2. Waiting' = Ring(rx_fifo', rx_head, rx_len + 1) BY <1>3 DEF Waiting, Ring
    <3>3. rx_fifo \in [0 .. Cap - 1 -> AnyByte] /\ rx_head \in 0 .. Cap - 1
      BY DEF TypeOK, AnyByte
    <3> QED BY <1>3, <2>1, <2>2, <3>1, <3>2, <3>3, RingPush
  <2>4. Held' = Held BY <1>1, <1>3 DEF Held
  <2>5. Waiting \in Seq(AnyByte) /\ sbuf \in AnyByte BY PendingForm DEF TypeOK, AnyByte
  <2>6. Pending' = Append(Pending, sent')
    <3>1. CASE Held
      <4>1. Pending = << sbuf >> \o Waiting /\ Pending' = << sbuf >> \o Append(Waiting, sent')
        BY <1>3, <2>3, <2>4, <3>1 DEF Pending
      <4> DEFINE w == Waiting
      <4>2. w \in Seq(AnyByte) BY <2>5
      <4> HIDE DEF w
      <4>3. << sbuf >> \o Append(w, sent') = Append(<< sbuf >> \o w, sent')
        BY <2>1, <2>5, <4>2
      <4> QED BY <4>1, <4>3 DEF w
    <3>2. CASE ~Held
      <4>1. Pending = << >> \o Waiting /\ Pending' = << >> \o Append(Waiting, sent')
        BY <2>3, <2>4, <3>2 DEF Pending
      <4>2. Append(Waiting, sent') \in Seq(AnyByte) BY <2>1, <2>5
      <4> QED BY <2>5, <4>1, <4>2, ConcatEmptySeq
    <3> QED BY <3>1, <3>2
  <2>7. Len(Pending) <= Cap BY <2>2, PendingForm
  <2> QED BY <1>1, <2>6, <2>7 DEF Stream!Send
<1>4. CASE ~Free /\ ~Room /\ UNCHANGED << queue, gap, sbuf, ri, trigger >>
  <2>1. rx_len = Cap BY <1>4 DEF Room, TypeOK
  <2>2. Len(Pending) >= Cap BY <2>1, PendingForm
  <2>3. Held' = Held BY <1>1, <1>4 DEF Held
  <2>4. Pending' = Pending BY <1>4, <2>3, PendingKept
  <2> QED BY <1>1, <2>2, <2>4 DEF Stream!Send
<1> QED BY <1>2, <1>3, <1>4 DEF SerialRx

\* A delivery from the queue moves the head of the ring to an SBUF that was read.
LEMMA TickStutters ==
  ASSUME Prompt, IInv, TypeOK', Tick
  PROVE  UNCHANGED Stream!stream
<1> USE DEF IInv
<1>0. gap \in Nat BY DEF TypeOK
<1>1. UNCHANGED << sent, taken, overwritten, fw >> BY DEF Tick, history
<1>2. CASE /\ rx_len > 0 /\ ~ri /\ ~(gap > 1)
           /\ Deliver(rx_fifo[rx_head])
           /\ rx_head' = NextSlot(rx_head) /\ rx_len' = rx_len - 1 /\ UNCHANGED rx_fifo
  <2>1. ~Held BY <1>2 DEF Tick, InTime, Reading, Held
  <2>2. Held' BY <1>1, <1>2 DEF Deliver, Held, Reading
  <2>3. Pending = Waiting BY <2>1, PendingForm
  <2>4. Waiting = << rx_fifo[rx_head] >> \o Waiting'
    <3>1. Waiting = Ring(rx_fifo, rx_head, rx_len) BY PendingForm
    <3>2. Waiting' = Ring(rx_fifo, NextSlot(rx_head), rx_len - 1) BY <1>2 DEF Waiting, Ring
    <3>3. /\ rx_fifo \in [0 .. Cap - 1 -> AnyByte] /\ rx_head \in 0 .. Cap - 1
          /\ rx_len \in 1..Cap
      BY <1>2 DEF TypeOK, AnyByte
    <3> QED BY <3>1, <3>2, <3>3, RingPop
  <2>5. Pending' = << rx_fifo[rx_head] >> \o Waiting' BY <1>2, <2>2 DEF Pending, Deliver
  <2> QED BY <1>1, <2>3, <2>4, <2>5 DEF Stream!stream
<1>3. CASE UNCHANGED << queue, sbuf, ri, trigger >>
  <2>1. Held' = Held BY <1>1, <1>3 DEF Held
  <2>2. Pending' = Pending BY <1>3, <2>1, PendingKept
  <2> QED BY <1>1, <2>2 DEF Stream!stream
<1> QED BY <1>0, <1>2, <1>3 DEF Tick, Due

\* Reading SBUF takes the oldest byte; the second read of two cannot happen.
LEMMA TakeStep ==
  ASSUME Prompt, IInv, ReadSBUF
  PROVE  Stream!Take
<1> USE DEF IInv
<1>1. UNCHANGED << queue, sbuf, ri, sent, overwritten >> /\ taken' = Append(taken, sbuf)
  BY DEF ReadSBUF, scon
<1>2. Held BY DEF ReadSBUF, Reading, Held
<1>3. ~Held' BY <1>1 DEF ReadSBUF, AfterService, Ahead, Held
<1>4. Pending # << >> /\ Head(Pending) = sbuf /\ Pending' = Tail(Pending)
  BY <1>1, <1>2, <1>3, TakeHead
<1> QED BY <1>1, <1>4 DEF Stream!Take

\* A transmission takes the place of the byte in SBUF, if that is unread and the
\* host's: the queue stays as it was.
LEMMA WriteStep ==
  ASSUME IInv, WriteSBUF
  PROVE  [Stream!Overwrite]_(Stream!stream)
<1> USE DEF IInv
<1>1. UNCHANGED << queue, sent, taken >> /\ sbuf' = TxByte /\ Held' = Held
  BY DEF WriteSBUF, kind, Held
<1>2. CASE Held /\ sbuf # TxByte
  <2>1. Pending = << sbuf >> \o Waiting /\ Waiting \in Seq(AnyByte) BY <1>2, PendingForm
  <2>2. Pending # << >> /\ Head(Pending) = sbuf /\ Tail(Pending) = Waiting
    BY <2>1, SplitForm DEF TypeOK, AnyByte
  <2>3. Waiting' = Waiting BY <1>1 DEF queue, Waiting
  <2>4. Pending' = << TxByte >> \o Tail(Pending) BY <1>1, <1>2, <2>2, <2>3 DEF Pending
  <2>5. overwritten' = overwritten \cup {Head(Pending)} BY <1>2, <2>2 DEF WriteSBUF
  <2> QED BY <1>1, <1>2, <2>2, <2>4, <2>5 DEF Stream!Overwrite
<1>3. CASE ~(Held /\ sbuf # TxByte)
  <2>1. overwritten' = overwritten BY <1>3 DEF WriteSBUF
  <2>2. Pending' = Pending BY <1>1, <1>3, PendingKept
  <2> QED BY <1>1, <2>1, <2>2 DEF Stream!stream
<1> QED BY <1>2, <1>3

\* The other steps of the firmware move no byte.
QuietStep == Vector \/ SeeRI \/ SeeNoRI \/ ClearRI \/ Return \/ ClearTI

LEMMA FirmwareStutters ==
  ASSUME IInv, QuietStep \/ UNCHANGED vars
  PROVE  UNCHANGED Stream!stream
<1> USE DEF IInv
<1>1. UNCHANGED << queue, sbuf, sent, taken, overwritten >>
  BY DEF QuietStep, Vector, SeeRI, SeeNoRI, ClearRI, Return, ClearTI, vars, history
<1>2. Held' = Held
  BY DEF QuietStep, Vector, SeeRI, SeeNoRI, ClearRI, Return, ClearTI, vars,
         scon, kind, AfterService, Reading, Held
<1>3. Pending' = Pending BY <1>1, <1>2, PendingKept
<1> QED BY <1>1, <1>3 DEF Stream!stream

\* Ring, SBUF, gap and interrupt together are a byte stream that keeps the order,
\* delivers nothing twice and loses a byte only behind Cap others or to a transmission.
THEOREM StreamTheorem == ASSUME Prompt PROVE Spec => StreamSpec
<1>1. IInv /\ TypeOK' /\ [Next]_vars => [Stream!Next]_(Stream!stream)
  <2> SUFFICES ASSUME IInv, TypeOK', [Next]_vars PROVE [Stream!Next]_(Stream!stream) OBVIOUS
  <2>1. CASE SerialRx BY <2>1, SendStep DEF Stream!Next
  <2>2. CASE Tick BY <2>2, TickStutters
  <2>3. CASE ReadSBUF BY <2>3, TakeStep DEF Stream!Next
  <2>4. CASE WriteSBUF BY <2>4, WriteStep DEF Stream!Next
  <2>5. CASE QuietStep \/ UNCHANGED vars
    BY <2>5, FirmwareStutters
  <2> QED BY <2>1, <2>2, <2>3, <2>4, <2>5 DEF Next, Receive, QuietStep
<1> QED BY <1>1, StreamInit, Invariance, TypeCorrect, PTL DEF Spec, StreamSpec, Stream!Spec
===============================================================================
