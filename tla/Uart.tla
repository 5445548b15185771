--------------------------------- MODULE Uart ---------------------------------
(***************************************************************************)
(* UART1 of stc12.c between a host and a firmware: stc12_serial_rx with    *)
(* its queue behind SBUF, the delivery in stc12_tick, sfr_write_sbuf, and  *)
(* the serial interrupt of core.c.                                         *)
(*                                                                         *)
(* The firmware is one of two kinds, chosen in Init.  One polls RI with    *)
(* ES clear; the other has ES set and is driven by the serial interrupt.   *)
(* Each reads a byte in one of two orders: c = SBUF then RI = 0, or RI = 0 *)
(* then c = SBUF, with any number of clocks between the two.               *)
(***************************************************************************)
EXTENDS Naturals, Sequences

CONSTANTS
  Cap,        \* STC12_RX_FIFO
  CharClocks, \* clocks of one character time (10 bits at 9600 baud)
  MaxBytes,   \* bound: bytes the host sends, numbered from 1
  MaxSends,   \* bound: bytes the firmware transmits
  Prompt      \* the clear-first firmware reads within a character time

ASSUME SizesAssumption ==
  /\ Cap \in Nat \ {0} /\ CharClocks \in Nat \ {0}
  /\ MaxBytes \in Nat /\ MaxSends \in Nat
ASSUME SwitchesAssumption == Prompt \in BOOLEAN

Byte == 1..MaxBytes
TxByte == 0  \* what the firmware sends; the host's bytes are told apart, its own are not

VARIABLES
  rx_fifo, rx_head, rx_len, \* the ring of bytes waiting behind SBUF
  gap,     \* rx_next_clock - osc_clocks, or 0 once that time has come
  sbuf, ri, ti,             \* SBUF, SCON.RI, SCON.TI
  trigger, \* serial_interrupt_trigger
  es,      \* IE.ES: set by the interrupt-driven firmware, once and for all
  order,   \* "read_first" or "clear_first"
  fw,      \* where the firmware is
  told,    \* the byte SBUF held when the firmware saw RI
  sent, sends, \* how many bytes the host and the firmware have sent
  taken,   \* history: the bytes the firmware read on RI
  overwritten \* history: the unread bytes the firmware's own took the place of

queue == << rx_fifo, rx_head, rx_len >>
scon == << ri, ti >>
kind == << es, order >>
history == << taken, overwritten >>
vars == << queue, gap, sbuf, scon, trigger, kind, fw, told, sent, sends, history >>

\* main: outside the receive code.  isr: in the service routine, RI not looked
\* at.  seen: RI found set.  cleared, read: one of the two halves is done.
\* done: the service routine about to look at TI and return.
FwState == {"main", "isr", "seen", "cleared", "read", "done"}

Init ==
  /\ rx_fifo = [i \in 0 .. Cap - 1 |-> TxByte] /\ rx_head = 0 /\ rx_len = 0
  /\ gap = 0 /\ sbuf = TxByte /\ ri = FALSE /\ ti = FALSE /\ trigger = FALSE
  /\ es \in BOOLEAN /\ order \in {"read_first", "clear_first"}
  /\ fw = "main" /\ told = TxByte /\ sent = 0 /\ sends = 0
  /\ taken = << >> /\ overwritten = {}

\* SBUF holds a received byte the firmware has not read.
Held == (ri /\ fw # "read") \/ fw = "cleared"

-------------------------------------------------------------------------------
(* The receiver *)

\* serial_interrupt_trigger after an event of the port.
TriggerIfFree == trigger \/ (es /\ fw = "main")  \* slip: lost inside the routine
Triggered == trigger \/ es

\* The gap that follows a delivery.
NoGap == 0  \* slip: the next byte may follow at once
CharGap == CharClocks

Deliver(b) ==
  /\ gap' = CharGap
  /\ sbuf' = b
  /\ ri' = TRUE
  /\ trigger' = Triggered

\* The receiver takes a byte at once.
FreeIgnoresQueue == ~ri /\ gap = 0  \* slip: passes the bytes that wait
Free == rx_len = 0 /\ ~ri /\ gap = 0

\* The next queued byte goes to SBUF on a clock that leaves gap g.
DueIgnoresRI(g) == rx_len > 0 /\ g = 0  \* slip: RI is not looked at
DueOnTheDot(g) == rx_len > 0 /\ ~ri /\ gap = 1  \* slip: == where the code has >=
Due(g) == rx_len > 0 /\ ~ri /\ g = 0

RoomButOne == rx_len < Cap - 1  \* slip: one slot kept free, as in a ring without rx_len
Room == rx_len < Cap

NextSlotNoWrap(i) == i + 1  \* slip: the ring is not closed
NextSlot(i) == (i + 1) % Cap

\* stc12_serial_rx: deliver, queue, or drop.
SerialRx ==
  /\ sent < MaxBytes
  /\ sent' = sent + 1
  /\ \/ /\ Free
        /\ Deliver(sent')
        /\ UNCHANGED queue
     \/ /\ ~Free /\ Room
        /\ rx_fifo' = [rx_fifo EXCEPT ![(rx_head + rx_len) % Cap] = sent']
        /\ rx_len' = rx_len + 1
        /\ UNCHANGED << rx_head, gap, sbuf, ri, trigger >>
     \/ /\ ~Free /\ ~Room
        /\ UNCHANGED << queue, gap, sbuf, ri, trigger >>
  /\ UNCHANGED << ti, kind, fw, told, sends, history >>

\* What a prompt clear-first firmware keeps: it reads a byte before the next may
\* come.  A read-first firmware may take its time.
InTime == Prompt /\ order = "clear_first" /\ Held => gap > 1

\* stc12_tick, as far as the port goes.
Tick ==
  LET left == IF gap = 0 THEN 0 ELSE gap - 1 IN
  /\ InTime
  /\ \/ /\ Due(left)
        /\ Deliver(rx_fifo[rx_head])
        /\ rx_head' = NextSlot(rx_head)
        /\ rx_len' = rx_len - 1
        /\ UNCHANGED rx_fifo
     \/ /\ ~Due(left)
        /\ gap' = left
        /\ UNCHANGED << queue, sbuf, ri, trigger >>
  /\ UNCHANGED << ti, kind, fw, told, sent, sends, history >>

-------------------------------------------------------------------------------
(* The firmware *)

\* The vector to ISR_SR, which clears the trigger.
Vector ==
  /\ es /\ trigger /\ fw = "main"
  /\ trigger' = FALSE
  /\ fw' = "isr"
  /\ UNCHANGED << queue, gap, sbuf, scon, kind, told, sent, sends, history >>

SeeRI ==
  /\ fw = IF es THEN "isr" ELSE "main"
  /\ ri
  /\ told' = sbuf
  /\ fw' = "seen"
  /\ UNCHANGED << queue, gap, sbuf, scon, trigger, kind, sent, sends, history >>

SeeNoRI ==
  /\ fw = "isr" /\ ~ri
  /\ fw' = "done"
  /\ UNCHANGED << queue, gap, sbuf, scon, trigger, kind, told, sent, sends, history >>

AfterService == IF es THEN "done" ELSE "main"

ReadSBUF ==
  /\ \/ fw = "seen" /\ order = "read_first" /\ fw' = "read"
     \/ fw = "cleared" /\ fw' = AfterService
  /\ taken' = Append(taken, sbuf)
  /\ UNCHANGED << queue, gap, sbuf, scon, trigger, kind, told, sent, sends, overwritten >>

ClearRI ==
  /\ \/ fw = "seen" /\ order = "clear_first" /\ fw' = "cleared"
     \/ fw = "read" /\ fw' = AfterService
  /\ ri' = FALSE
  /\ UNCHANGED << queue, gap, sbuf, ti, trigger, kind, told, sent, sends, history >>

\* The end of the service routine: it clears TI and returns.
Return ==
  /\ fw = "done"
  /\ ti' = FALSE
  /\ fw' = "main"
  /\ UNCHANGED << queue, gap, sbuf, ri, trigger, kind, told, sent, sends, history >>

\* sfr_write_sbuf: the transmission completes at once.  SBUF is one byte for both
\* directions, and the store does not look at RI.
WriteSBUF ==
  /\ fw = "main" /\ sends < MaxSends /\ ~ti
  /\ sbuf' = TxByte
  /\ ti' = TRUE
  /\ trigger' = Triggered
  /\ sends' = sends + 1
  /\ overwritten' = IF Held /\ sbuf # TxByte THEN overwritten \cup {sbuf} ELSE overwritten
  /\ UNCHANGED << queue, gap, ri, kind, fw, told, sent, taken >>

\* The polling firmware has waited for TI.
ClearTI ==
  /\ ~es /\ fw = "main" /\ ti
  /\ ti' = FALSE
  /\ UNCHANGED << queue, gap, sbuf, ri, trigger, kind, fw, told, sent, sends, history >>

Receive == Vector \/ SeeRI \/ SeeNoRI \/ ReadSBUF \/ ClearRI \/ Return

Next == SerialRx \/ Tick \/ Receive \/ WriteSBUF \/ ClearTI

\* The embedder's loop never stops calling tick() and stc12_tick(), and so the
\* firmware's receive code goes on too.  Nothing is assumed of the host.
Fairness == WF_vars(Tick) /\ WF_vars(Receive)

Spec == Init /\ [][Next]_vars /\ Fairness

-------------------------------------------------------------------------------
(* Properties *)

TypeOK ==
  /\ rx_fifo \in [0 .. Cap - 1 -> Byte \cup {TxByte}]
  /\ rx_head \in 0 .. Cap - 1 /\ rx_len \in 0..Cap
  /\ gap \in 0..CharClocks
  /\ sbuf \in Byte \cup {TxByte} /\ told \in Byte \cup {TxByte}
  /\ ri \in BOOLEAN /\ ti \in BOOLEAN /\ trigger \in BOOLEAN /\ es \in BOOLEAN
  /\ order \in {"read_first", "clear_first"} /\ fw \in FwState
  /\ sent \in 0..MaxBytes /\ sends \in 0..MaxSends
  /\ taken \in Seq(Byte \cup {TxByte}) /\ overwritten \subseteq Byte

\* No received byte takes the place of an unread one: until the firmware reads SBUF,
\* only its own transmission replaces what is there.
UnreadKept == [][~Held \/ (sends' = sends + 1 /\ sbuf' = TxByte)]_sbuf

\* `RI = 0; c = SBUF;` reads the byte RI announced, not the one after it.
ToldIsRead == fw = "cleared" => sbuf = told

\* The interrupt-driven firmware is never left with RI set and no interrupt to
\* come: a byte that arrives inside the routine raises the request again.
NoLostInterrupt == es /\ ri /\ fw \in {"main", "done"} => trigger

\* The bytes waiting, oldest first: the unread one in SBUF, then the ring.
Waiting == [i \in 1..rx_len |-> rx_fifo[(rx_head + i - 1) % Cap]]
Pending == (IF Held THEN << sbuf >> ELSE << >>) \o Waiting

\* The port, with its ring, its gap and its interrupt, is a byte stream that keeps
\* the order of the bytes, delivers none twice, and loses one only behind Cap others
\* or to a transmission: that costs the byte in SBUF, and none of the queue.
Stream == INSTANCE ByteStream WITH pending <- Pending, Own <- TxByte
StreamSpec == Stream!Spec

\* Every byte accepted is read in the end, if the firmware has not transmitted over
\* it, however the firmware is driven: no combination of queue, gap, interrupt and
\* transmissions leaves one behind.
IsIn(b, s) == \E i \in 1..Len(s) : s[i] = b
EveryByteRead == \A b \in Byte : IsIn(b, Pending) ~> IsIn(b, taken) \/ b \in overwritten
===============================================================================
