----------------------------- MODULE Peripherals -----------------------------
(***************************************************************************)
(* What stc12_tick does in an oscillator clock, UART and core apart: the   *)
(* timers of each part, the baud-rate timer, the PCA and its modules, the  *)
(* clock outputs, the ADC and the watchdog; and what a firmware's writes   *)
(* of their registers and the board's inputs do between clocks.            *)
(*                                                                         *)
(* c is the record of registers and counters of struct stc12_state.  Of a  *)
(* port it keeps the latches of the pins the peripherals drive, every      *)
(* change of which the board is told of; of analog values it keeps counts. *)
(* The widths of registers and the divisors are constants.                 *)
(***************************************************************************)
EXTENDS Integers, Sequences, FiniteSets

CONSTANTS
  Radix,       \* values of a timer byte: 256
  Low13,       \* values of the low byte in mode 0: 32
  Machine,     \* clocks of a machine cycle: 12
  PcaDivisor,  \* clocks per PCA tick, by CPS: 12, 2, -, -, 1, 4, 6, 8
  WdtRadix,    \* values of wdt_prescaler_cnt: 256
  WdtLimit,    \* watchdog count that overflows: 32768
  AdcClocks,   \* clocks of a conversion, by SPEED: 420, 280, 140, 70
  Setups,      \* a set of [regs, writes, left, pins, channels, bytes]: the registers as a
               \* firmware set them up, what it may write later, the inputs the board may
               \* change, and a bound on writes and changes
  Counts,      \* what the board may put on an analog input
  Window       \* clocks over which properties compare

ASSUME WidthAssumption ==
  /\ {Radix, Low13, Machine, WdtRadix, WdtLimit, Window} \subseteq Nat \ {0, 1}
  /\ Radix % Low13 = 0
  /\ Counts \subseteq 0 .. 1023
  /\ PcaDivisor \in [{0, 1, 4, 5, 6, 7} -> Nat \ {0}] /\ PcaDivisor[4] = 1
  /\ AdcClocks \in [0 .. 3 -> Nat \ {0}]
  /\ \A speed \in 0 .. 3 : AdcClocks[speed] <= AdcClocks[0]

VARIABLES
  c,       \* the registers and counters
  input,   \* [level: of each pin, analog: of each channel], the board's side
  todo,    \* [setup, left]: the setup chosen and the writes and changes left
  anchor,  \* history: c at the last write, or Window clocks ago if later
  age,     \* history: clocks since
  pulse,   \* history: per PCA module, the PWM period in progress
  asked,   \* history: the conversion last started
  fed      \* history: clocks since the watchdog was cleared

vars == <<c, input, todo, anchor, age, pulse, asked, fed>>

Module == 0 .. 2
Channel == 0 .. 7
Pin == {<<1, 3>>, <<1, 4>>, <<3, 7>>, <<4, 1>>, <<4, 2>>, <<4, 3>>, <<3, 4>>, <<3, 5>>}

(* After reset and stc12_init.                                             *)
Reset == [
  gate0 |-> FALSE, ct0 |-> FALSE, mode0 |-> 0, tr0 |-> FALSE, tf0 |-> FALSE, tl0 |-> 0, th0 |-> 0,
  gate1 |-> FALSE, ct1 |-> FALSE, mode1 |-> 0, tr1 |-> FALSE, tf1 |-> FALSE, tl1 |-> 0, th1 |-> 0,
  t0x12 |-> FALSE, t1x12 |-> FALSE, timer0_prescaler |-> 0, timer1_prescaler |-> 0,
  brtr |-> FALSE, brtx12 |-> FALSE, brt_prescaler |-> 0, t2 |-> 0,
  tr2 |-> FALSE, tf2 |-> FALSE, cp |-> FALSE, baud2 |-> FALSE, rcap2 |-> 0, osc_clocks |-> 0,
  t0clko |-> FALSE, t1clko |-> FALSE, last_tf1 |-> FALSE, latch |-> [p \in Pin |-> 1],
  cr |-> FALSE, cf |-> FALSE, cps |-> 0, cl |-> 0, ch |-> 0,
  ccf |-> [k \in Module |-> FALSE], ccapm |-> [k \in Module |-> {}],
  ccapl |-> [k \in Module |-> 0], ccaph |-> [k \in Module |-> 0],
  epcl |-> [k \in Module |-> 0], epch |-> [k \in Module |-> 0],
  pca_prescaler |-> 0, pca_t0_overflow_pending |-> FALSE, pca_cex_last |-> [k \in Module |-> 0],
  power |-> FALSE, start |-> FALSE, flag |-> FALSE, speed |-> 0, chs |-> 0,
  p1asf |-> {}, adrj |-> FALSE, adc_res |-> 0, adc_resl |-> 0, adc_countdown |-> 0,
  wdt_flag |-> FALSE, en_wdt |-> FALSE, ps |-> 0, wdt_counter |-> 0, wdt_prescaler_cnt |-> 0,
  pca_p4 |-> FALSE, dps |-> 0, last_dps |-> 0, dptr |-> 0, dptr1 |-> 0,
  s2ti |-> FALSE, s2ri |-> FALSE, spen |-> FALSE, spif |-> FALSE, wcol |-> FALSE, part |-> "STC12"]

(* What each of them can hold: the width of its bits or of its C type, and *)
(* of a counter the comparison that ends it.                               *)
Held == LET Byte == 0 .. Radix - 1  Word == 0 .. Radix * Radix - 1  Phase == 0 .. Machine - 1 IN [
  gate0 |-> BOOLEAN, ct0 |-> BOOLEAN, mode0 |-> 0 .. 3, tr0 |-> BOOLEAN, tf0 |-> BOOLEAN,
  gate1 |-> BOOLEAN, ct1 |-> BOOLEAN, mode1 |-> 0 .. 3, tr1 |-> BOOLEAN, tf1 |-> BOOLEAN,
  tl0 |-> Byte, th0 |-> Byte, tl1 |-> Byte, th1 |-> Byte, t0x12 |-> BOOLEAN, t1x12 |-> BOOLEAN,
  timer0_prescaler |-> Phase, timer1_prescaler |-> Phase, brt_prescaler |-> Phase, osc_clocks |-> Phase,
  brtr |-> BOOLEAN, brtx12 |-> BOOLEAN, t2 |-> Word, rcap2 |-> Word,
  tr2 |-> BOOLEAN, tf2 |-> BOOLEAN, cp |-> BOOLEAN, baud2 |-> BOOLEAN,
  t0clko |-> BOOLEAN, t1clko |-> BOOLEAN, last_tf1 |-> BOOLEAN, latch |-> [Pin -> 0 .. 1],
  cr |-> BOOLEAN, cf |-> BOOLEAN, cps |-> 0 .. 7, cl |-> Byte, ch |-> Byte,
  ccf |-> [Module -> BOOLEAN], ccapm |-> [Module -> SUBSET {"ECOM", "CAPP", "CAPN", "MAT", "TOG", "PWM"}],
  ccapl |-> [Module -> Byte], ccaph |-> [Module -> Byte],
  epcl |-> [Module -> 0 .. 1], epch |-> [Module -> 0 .. 1], pca_cex_last |-> [Module -> 0 .. 1],
  pca_prescaler |-> UNION {0 .. PcaDivisor[cps] - 1 : cps \in DOMAIN PcaDivisor},
  pca_t0_overflow_pending |-> BOOLEAN,
  power |-> BOOLEAN, start |-> BOOLEAN, flag |-> BOOLEAN, speed |-> 0 .. 3, chs |-> Channel,
  p1asf |-> SUBSET Channel, adrj |-> BOOLEAN, adc_res |-> 0 .. 255, adc_resl |-> 0 .. 255,
  adc_countdown |-> 0 .. AdcClocks[0],
  wdt_flag |-> BOOLEAN, en_wdt |-> BOOLEAN, ps |-> 0 .. 7,
  wdt_counter |-> 0 .. WdtLimit - 1, wdt_prescaler_cnt |-> 0 .. WdtRadix - 1,
  pca_p4 |-> BOOLEAN, dps |-> 0 .. 1, last_dps |-> 0 .. 1, dptr |-> Word, dptr1 |-> Word,
  s2ti |-> BOOLEAN, s2ri |-> BOOLEAN, spen |-> BOOLEAN, spif |-> BOOLEAN, wcol |-> BOOLEAN,
  part |-> {"STC12", "STC15", "STC15W", "STC89"}]

(* Counters that are no register, and registers whose writes are handlers. *)
Counters == {"timer0_prescaler", "timer1_prescaler", "brt_prescaler", "osc_clocks", "last_tf1",
             "pca_prescaler", "pca_t0_overflow_pending", "pca_cex_last", "adc_countdown",
             "wdt_counter", "wdt_prescaler_cnt", "last_dps"}
Handled == {"power", "start", "flag", "speed", "chs", "wdt_flag", "en_wdt", "ps", "pca_p4", "dps",
            "dptr1", "spen", "spif", "wcol", "latch", "part"}

(* A write the bus can carry to the part: the STC89 has none of the STC's  *)
(* handlers.                                                               *)
Legal(part, w) ==
  \/ w.reg \in DOMAIN Held \ (Counters \cup Handled) /\ w.val \in Held[w.reg]
  \/ w.reg = "pin" /\ w.val \in [pin : Pin, level : 0 .. 1]
  \/ /\ part # "STC89"
     /\ \/ /\ w.reg = "adc_contr"
           /\ w.val \in [power : BOOLEAN, start : BOOLEAN, flag : BOOLEAN, speed : 0 .. 3, chs : Channel]
        \/ w.reg = "wdt_contr" /\ w.val \in [flag : BOOLEAN, clr : BOOLEAN, en : BOOLEAN, ps : 0 .. 7]
        \/ w.reg = "auxr1" /\ w.val \in [pca_p4 : BOOLEAN, adrj : BOOLEAN, dps : 0 .. 1]
        \/ w.reg \in {"s2buf", "spdat", "spstat"}
        \/ w.reg = "spctl" /\ w.val \in BOOLEAN

PartOf(setup) == IF "part" \in DOMAIN setup.regs THEN setup.regs.part ELSE Reset.part

ASSUME SetupsAssumption ==
  \A setup \in Setups :
    /\ setup.left \in Nat /\ setup.bytes \in BOOLEAN
    /\ setup.pins \subseteq Pin /\ setup.channels \subseteq Channel
    /\ DOMAIN setup.regs \subseteq DOMAIN Held \ Counters
    /\ \A x \in DOMAIN setup.regs : setup.regs[x] \in Held[x]
    /\ \A w \in setup.writes : Legal(PartOf(setup), w)

-----------------------------------------------------------------------------
(* Timers 0 and 1.  A count of two bytes in mode m, and whether it wraps.  *)

(* Mutant: mode 2 goes on from 0.                                          *)
CountedNoReload(mode, tl, th) ==
  LET size == IF mode = 0 THEN Low13 ELSE Radix
      low == (tl % size) + 1
      carry == low = size
  IN  [tl   |-> tl - (tl % size) + (low % size),
       th   |-> IF carry /\ mode < 2 THEN (th + 1) % Radix ELSE th,
       over |-> carry /\ (mode < 2 => th = Radix - 1)]

Counted(mode, tl, th) ==
  LET size == IF mode = 0 THEN Low13 ELSE Radix
      low == (tl % size) + 1
      carry == low = size
  IN  CASE mode \in {0, 1} ->
             [tl |-> tl - (tl % size) + (low % size),
              th |-> IF carry THEN (th + 1) % Radix ELSE th,
              over |-> carry /\ th = Radix - 1]
        [] mode = 2 -> [tl |-> IF carry THEN th ELSE low, th |-> th, over |-> carry]
        [] mode = 3 -> [tl |-> low % size, th |-> th, over |-> carry]

(* Mutant: the prescaler is compared before it is counted.                 *)
PrescaledLate(n) == IF n = Machine THEN 0 ELSE n + 1

Prescaled(n) == (n + 1) % Machine

Timer0Due(s) == s.t0x12 \/ s.timer0_prescaler + 1 = Machine
Timer0Runs(s) == ~s.gate0 /\ s.tr0 /\ ~s.ct0
Timer0Overflows(s) == Timer0Due(s) /\ Timer0Runs(s) /\ Counted(s.mode0, s.tl0, s.th0).over

(* In mode 3 TH0 counts on its own, under TR1 and into TF1.                *)
Timer0Tick(s) ==
  LET t == Counted(s.mode0, s.tl0, s.th0)
      split == s.mode0 = 3 /\ s.tr1
      phase == IF s.t0x12 THEN s.timer0_prescaler ELSE Prescaled(s.timer0_prescaler)
  IN  IF ~(Timer0Due(s) /\ Timer0Runs(s))
      THEN [s EXCEPT !.timer0_prescaler = phase]
      ELSE [s EXCEPT !.timer0_prescaler = phase,
                     !.tl0 = t.tl, !.tf0 = @ \/ t.over,
                     !.th0 = IF split THEN (t.th + 1) % Radix ELSE t.th,
                     !.tf1 = @ \/ (split /\ t.th = Radix - 1)]

(* TF1 is not Timer 1's while Timer 0 is in mode 3.                        *)
Timer1Tick(s) ==
  LET t == Counted(s.mode1, s.tl1, s.th1)
      due == s.t1x12 \/ s.timer1_prescaler + 1 = Machine
      phase == IF s.t1x12 THEN s.timer1_prescaler ELSE Prescaled(s.timer1_prescaler)
  IN  IF due /\ ~s.gate1 /\ s.tr1 /\ ~s.ct1 /\ s.mode1 # 3
      THEN [s EXCEPT !.timer1_prescaler = phase, !.tl1 = t.tl, !.th1 = t.th,
                     !.tf1 = @ \/ (t.over /\ s.mode0 # 3)]
      ELSE [s EXCEPT !.timer1_prescaler = phase]

(* The STC15 counts Timer 2 here, the STC12's BRT only its prescaler.      *)
BrtTick(s) ==
  LET due == s.brtx12 \/ s.brt_prescaler + 1 = Machine
      phase == IF s.brtx12 THEN s.brt_prescaler ELSE Prescaled(s.brt_prescaler)
  IN  IF ~s.brtr THEN s
      ELSE [s EXCEPT !.brt_prescaler = phase,
                     !.t2 = IF due /\ s.part = "STC15" THEN (@ + 1) % (Radix * Radix) ELSE @]

(* The STC89's Timer 2.                                                    *)
Timer2Tick(s) ==
  LET over == s.t2 + 1 = Radix * Radix
  IN  IF ~(s.tr2 /\ s.osc_clocks % Machine = 0) THEN s
      ELSE [s EXCEPT !.t2 = IF ~over THEN @ + 1 ELSE IF s.cp THEN 0 ELSE s.rcap2,
                     !.tf2 = @ \/ (over /\ ~s.baud2)]

-----------------------------------------------------------------------------
(* Clock outputs of the STC15.                                             *)

Toggled(s, p) == [s EXCEPT !.latch[p] = 1 - @]

ClockOut0(s, overflowed) ==
  LET latched == [s EXCEPT !.pca_t0_overflow_pending = @ \/ overflowed]
  IN  IF overflowed /\ s.part = "STC15" /\ s.t0clko THEN Toggled(latched, <<3, 5>>) ELSE latched

ClockOut1(s) ==
  IF ~(s.part = "STC15" /\ s.t1clko) THEN s
  ELSE [(IF s.tf1 /\ ~s.last_tf1 THEN Toggled(s, <<3, 4>>) ELSE s) EXCEPT !.last_tf1 = s.tf1]

-----------------------------------------------------------------------------
(* The ADC: result and flag when the countdown ends.                       *)

Result(s, counts) == IF s.chs \in s.p1asf THEN counts[s.chs] ELSE 0

AdcTick(s, counts) ==
  LET v == Result(s, counts)
      counted == [s EXCEPT !.adc_countdown = @ - 1]
  IN  CASE s.adc_countdown = 0 -> s
        [] s.adc_countdown = 1 ->
             [counted EXCEPT !.flag = TRUE, !.start = FALSE,
                             !.adc_res = IF s.adrj THEN v \div 256 ELSE v \div 4,
                             !.adc_resl = IF s.adrj THEN v % 256 ELSE v % 4]
        [] OTHER -> counted

-----------------------------------------------------------------------------
(* The PCA.                                                                *)

Modules(part) == CASE part = "STC15" -> 3 [] part = "STC15W" -> 0 [] OTHER -> 2

PcaPin(s, k) ==
  CASE k = 2 /\ s.part = "STC15" -> <<3, 7>>
    [] k < 2 /\ s.pca_p4  -> <<4, k + 2>>
    [] k < 2 /\ ~s.pca_p4 -> <<1, k + 3>>

(* Mutant: no double buffering.                                            *)
ReloadedAlways(s, k) == [s EXCEPT !.ccapl[k] = s.ccaph[k], !.epcl[k] = s.epch[k]]

(* PWM: the compare value is reloaded where CL wraps, and the pin driven.  *)
Reloaded(s, k) ==
  IF s.cl = 0 THEN [s EXCEPT !.ccapl[k] = s.ccaph[k], !.epcl[k] = s.epch[k]] ELSE s

Pwm(s, k) ==
  LET t == Reloaded(s, k)
  IN  [t EXCEPT !.latch[PcaPin(s, k)] = IF t.cl >= t.ccapl[k] THEN 1 ELSE 0]

Match(s, k) ==
  IF s.cl + Radix * s.ch # s.ccapl[k] + Radix * s.ccaph[k] THEN s
  ELSE LET t == [s EXCEPT !.ccf[k] = TRUE]
       IN  IF "TOG" \in s.ccapm[k] THEN Toggled(t, PcaPin(s, k)) ELSE t

(* A capture raises CCF0 or CCF1, of whichever module.                     *)
Capture(s, k, level) ==
  LET now == level[PcaPin(s, k)]
      last == s.pca_cex_last[k]
      seen == [s EXCEPT !.pca_cex_last[k] = now]
  IN  IF \/ "CAPP" \in s.ccapm[k] /\ last = 0 /\ now = 1
         \/ "CAPN" \in s.ccapm[k] /\ last = 1 /\ now = 0
      THEN [seen EXCEPT !.ccapl[k] = s.cl, !.ccaph[k] = s.ch,
                        !.ccf[IF k = 0 THEN 0 ELSE 1] = TRUE]
      ELSE seen

PcaModule(s, k, level) ==
  LET driven == IF "PWM" \in s.ccapm[k] THEN Pwm(s, k) ELSE s
      matched == IF {"ECOM", "MAT"} \subseteq s.ccapm[k] THEN Match(driven, k) ELSE driven
  IN  IF k >= Modules(s.part) THEN s
      ELSE IF s.ccapm[k] \cap {"CAPP", "CAPN"} # {} THEN Capture(matched, k, level) ELSE matched

PcaDue(s) ==
  CASE s.cps = 2 -> s.pca_t0_overflow_pending
    [] s.cps = 3 -> FALSE
    [] OTHER     -> s.pca_prescaler + 1 >= PcaDivisor[s.cps]

PcaPrescaled(s) ==
  CASE s.cps = 2           -> [s EXCEPT !.pca_t0_overflow_pending = FALSE]
    [] s.cps \in {3, 4}    -> s
    [] OTHER               -> [s EXCEPT !.pca_prescaler = IF PcaDue(s) THEN 0 ELSE @ + 1]

PcaCounted(s) ==
  [s EXCEPT !.cl = (@ + 1) % Radix,
            !.ch = IF s.cl = Radix - 1 THEN (@ + 1) % Radix ELSE @,
            !.cf = @ \/ (s.cl = Radix - 1 /\ s.ch = Radix - 1)]

PcaTick(s, level) ==
  LET t == PcaCounted(PcaPrescaled(s))
  IN  CASE ~s.cr              -> s
        [] s.cr /\ ~PcaDue(s) -> PcaPrescaled(s)
        [] s.cr /\ PcaDue(s)  -> PcaModule(PcaModule(PcaModule(t, 0, level), 1, level), 2, level)

-----------------------------------------------------------------------------
(* The watchdog.  The prescaler's count is a byte, its divisor up to 256.  *)

Divisor(ps) == 2 * 2^ps

WdtTick(s) ==
  LET n == (s.wdt_prescaler_cnt + 1) % WdtRadix
      up == s.wdt_counter + 1
  IN  CASE ~s.en_wdt -> s
        [] s.en_wdt /\ n < Divisor(s.ps) -> [s EXCEPT !.wdt_prescaler_cnt = n]
        [] s.en_wdt /\ n >= Divisor(s.ps) ->
             [s EXCEPT !.wdt_prescaler_cnt = 0,
                       !.wdt_counter = IF up >= WdtLimit THEN 0 ELSE up,
                       !.wdt_flag = @ \/ up >= WdtLimit]

-----------------------------------------------------------------------------
(* One clock.                                                              *)

Clocked(s, in) ==
  LET t == [s EXCEPT !.osc_clocks = (@ + 1) % Machine]
      timed == BrtTick(Timer1Tick(Timer0Tick(t)))
      out == ClockOut1(ClockOut0(timed, Timer0Overflows(t)))
  IN  IF s.part = "STC89" THEN Timer2Tick(Timer1Tick(Timer0Tick(t)))
      ELSE WdtTick(PcaTick(AdcTick(out, in.analog), in.level))

-----------------------------------------------------------------------------
(* What the firmware may write.                                            *)

(* Mutant: a START during a conversion is ignored.                         *)
WriteAdcContrOnce(s, v) ==
  [s EXCEPT !.power = v.power, !.start = v.start, !.flag = v.flag, !.speed = v.speed, !.chs = v.chs,
            !.adc_countdown = IF v.start /\ v.power /\ @ = 0 THEN AdcClocks[v.speed] ELSE @]

(* ADC_CONTR: a START with POWER begins the count, again if one runs.      *)
WriteAdcContr(s, v) ==
  [s EXCEPT !.power = v.power, !.start = v.start, !.flag = v.flag, !.speed = v.speed, !.chs = v.chs,
            !.adc_countdown = IF v.start /\ v.power THEN AdcClocks[v.speed] ELSE @]

(* Mutant: CLR_WDT leaves the prescaler.                                   *)
WriteWdtKeepsPrescaler(s, v) ==
  LET t == [s EXCEPT !.wdt_flag = v.flag, !.en_wdt = v.en, !.ps = v.ps]
  IN  IF v.clr THEN [t EXCEPT !.wdt_counter = 0] ELSE t

(* WDT_CONTR: CLR_WDT clears the count and reads back 0.                   *)
WriteWdt(s, v) ==
  LET t == [s EXCEPT !.wdt_flag = v.flag, !.en_wdt = v.en, !.ps = v.ps]
  IN  IF v.clr THEN [t EXCEPT !.wdt_counter = 0, !.wdt_prescaler_cnt = 0] ELSE t

(* AUXR1: a change of DPS swaps the data pointers.  The STC15's ADRJ is in *)
(* CLK_DIV.                                                                *)
WriteAuxr1(s, v) ==
  LET t == [s EXCEPT !.pca_p4 = v.pca_p4, !.dps = v.dps,
                     !.adrj = IF s.part = "STC15" THEN @ ELSE v.adrj]
  IN  IF v.dps = s.last_dps THEN t
      ELSE [t EXCEPT !.dptr = s.dptr1, !.dptr1 = s.dptr, !.last_dps = v.dps]

WriteS2buf(s) == [s EXCEPT !.s2ti = TRUE]

(* SPI ends a transfer at once; the flags go when SPSTAT is written, and   *)
(* when the STC15's SPCTL is, which has the address of the STC12's SPSTAT. *)
WriteSpdat(s) == IF s.spen THEN [s EXCEPT !.spif = TRUE] ELSE s
WriteSpstat(s) == [s EXCEPT !.spif = FALSE, !.wcol = FALSE]
WriteSpctl(s, spen) ==
  LET t == [s EXCEPT !.spen = spen] IN IF s.part = "STC15" THEN WriteSpstat(t) ELSE t

Written(s, w) ==
  CASE w.reg = "adc_contr" -> WriteAdcContr(s, w.val)
    [] w.reg = "wdt_contr" -> WriteWdt(s, w.val)
    [] w.reg = "auxr1"     -> WriteAuxr1(s, w.val)
    [] w.reg = "s2buf"     -> WriteS2buf(s)
    [] w.reg = "spdat"     -> WriteSpdat(s)
    [] w.reg = "spstat"    -> WriteSpstat(s)
    [] w.reg = "spctl"     -> WriteSpctl(s, w.val)
    [] w.reg = "pin"       -> [s EXCEPT !.latch[w.val.pin] = w.val.level]
    [] OTHER               -> [s EXCEPT ![w.reg] = w.val]

-----------------------------------------------------------------------------
(* Histories: the closed forms below compare c with what it was, the PWM   *)
(* with the duty asked for at the start of its period.                     *)

Asked(w) ==
  IF w.reg # "adc_contr" THEN asked
  ELSE [exact  |-> w.val.start /\ w.val.power, chs |-> w.val.chs, speed |-> w.val.speed,
        waited |-> 0]

Fed(w) ==
  IF w.reg # "wdt_contr" THEN fed ELSE [exact |-> w.val.clr, clocks |-> 0]

(* A write of CCAPnH is the one a PWM period must not notice.              *)
Disturbed(w) ==
  IF w.reg = "ccaph" THEN pulse ELSE [k \in Module |-> [pulse[k] EXCEPT !.whole = FALSE]]

PulseAfter(k) ==
  LET high == c'.latch[PcaPin(c, k)]
  IN  CASE c'.cl = c.cl -> pulse[k]
        [] c'.cl # c.cl /\ c'.cl = 0 -> [whole |-> TRUE, duty |-> c.ccaph[k], highs |-> high]
        [] c'.cl # c.cl /\ c'.cl # 0 -> [pulse[k] EXCEPT !.highs = IF pulse[k].whole THEN @ + high ELSE 0]

Overflowed == c.wdt_counter = WdtLimit - 1 /\ c'.wdt_counter = 0

-----------------------------------------------------------------------------
Init ==
  /\ \E setup \in Setups, phase \in 0 .. Machine - 1 :
       /\ todo = [setup |-> setup, left |-> setup.left]
       /\ c = [[x \in DOMAIN Reset |-> IF x \in DOMAIN setup.regs THEN setup.regs[x] ELSE Reset[x]]
               EXCEPT !.timer0_prescaler = phase, !.timer1_prescaler = phase,
                      !.osc_clocks = phase]
  /\ \E v \in Counts : input = [level |-> [p \in Pin |-> 1], analog |-> [k \in Channel |-> v]]
  /\ anchor = c /\ age = 0
  /\ pulse = [k \in Module |-> [whole |-> FALSE, duty |-> 0, highs |-> 0]]
  /\ asked = [exact |-> FALSE, chs |-> 0, speed |-> 0, waited |-> 0]
  /\ fed = [exact |-> FALSE, clocks |-> 0]

Tick ==
  /\ c' = Clocked(c, input)
  /\ IF age + 1 = Window THEN anchor' = c' /\ age' = 0 ELSE anchor' = anchor /\ age' = age + 1
  /\ pulse' = [k \in Module |-> IF k < Modules(c.part) /\ c.cr THEN PulseAfter(k) ELSE pulse[k]]
  /\ asked' = IF c.adc_countdown > 0 THEN [asked EXCEPT !.waited = @ + 1] ELSE asked
  /\ fed' = CASE fed.exact /\ c.en_wdt /\ Overflowed  -> [fed EXCEPT !.clocks = 0]
              [] fed.exact /\ c.en_wdt /\ ~Overflowed
                 /\ Divisor(c.ps) < WdtRadix             -> [fed EXCEPT !.clocks = @ + 1]
              [] OTHER                                   -> fed
  /\ UNCHANGED <<input, todo>>

Write(w) ==
  /\ todo.left > 0
  /\ todo' = [todo EXCEPT !.left = @ - 1]
  /\ c' = Written(c, w)
  /\ anchor' = c' /\ age' = 0
  /\ asked' = Asked(w) /\ fed' = Fed(w) /\ pulse' = Disturbed(w)
  /\ UNCHANGED input

SetPortInput(p) ==
  /\ todo.left > 0
  /\ todo' = [todo EXCEPT !.left = @ - 1]
  /\ input' = [input EXCEPT !.level[p] = 1 - @]
  /\ UNCHANGED <<c, anchor, age, pulse, asked, fed>>

SetAdcInput(k, v) ==
  /\ todo.left > 0
  /\ todo' = [todo EXCEPT !.left = @ - 1]
  /\ input' = [input EXCEPT !.analog[k] = v]
  /\ UNCHANGED <<c, anchor, age, pulse, asked, fed>>

Serial2Rx ==
  /\ c' = [c EXCEPT !.s2ri = TRUE]
  /\ UNCHANGED <<input, todo, anchor, age, pulse, asked, fed>>

Next ==
  \/ Tick
  \/ \E w \in todo.setup.writes : Write(w)
  \/ \E p \in todo.setup.pins : SetPortInput(p)
  \/ \E k \in todo.setup.channels, v \in Counts : SetAdcInput(k, v)
  \/ todo.setup.bytes /\ Serial2Rx

Spec == Init /\ [][Next]_vars /\ WF_vars(Tick)

-----------------------------------------------------------------------------
(* Counters hold what their C types and the code's comparisons allow.      *)
TypeOK ==
  /\ {c.tl0, c.th0, c.tl1, c.th1, c.cl, c.ch} \subseteq 0 .. Radix - 1
  /\ {c.timer0_prescaler, c.timer1_prescaler, c.brt_prescaler} \subseteq 0 .. Machine - 1
  /\ c.t2 \in 0 .. Radix * Radix - 1
  /\ \A k \in Module : c.ccapl[k] \in 0 .. Radix - 1 /\ c.ccaph[k] \in 0 .. Radix - 1
  /\ \E cps \in DOMAIN PcaDivisor : c.pca_prescaler < PcaDivisor[cps]
  /\ c.latch \in [Pin -> 0 .. 1]
  /\ c.adc_res \in 0 .. 255 /\ c.adc_resl \in 0 .. 255 /\ c.adc_countdown \in 0 .. AdcClocks[0]
  /\ c.wdt_counter \in 0 .. WdtLimit - 1 /\ c.wdt_prescaler_cnt \in 0 .. WdtRadix - 1
  /\ age \in 0 .. Window - 1 /\ todo.left \in 0 .. todo.setup.left

(* The counts of a timer in n clocks from a prescaler's phase.             *)
TimerTicks(fast, phase, n) == IF fast THEN n ELSE (phase + n) \div Machine

(* n counts on from two bytes: how often that wraps, and what it leaves.   *)
Value(mode, tl, th) ==
  CASE mode = 0 -> (tl % Low13) + Low13 * th [] mode = 1 -> tl + Radix * th [] OTHER -> tl
Size(mode) == CASE mode = 0 -> Low13 * Radix [] mode = 1 -> Radix * Radix [] OTHER -> Radix

Wraps(mode, tl, th, n) ==
  LET first == Size(mode) - Value(mode, tl, th)
  IN  IF n < first THEN 0
      ELSE 1 + (n - first) \div (IF mode = 2 THEN Radix - th ELSE Size(mode))

After(mode, tl, th, n) ==
  LET first == Size(mode) - Value(mode, tl, th)
  IN  CASE n < first                -> Value(mode, tl, th) + n
        [] n >= first /\ mode = 2   -> th + ((n - first) % (Radix - th))
        [] n >= first /\ mode # 2   -> (n - first) % Size(mode)

(* The Timer 0 counts, and overflows, in the n clocks since the anchor.    *)
Ticks0(n) == IF Timer0Runs(anchor) THEN TimerTicks(anchor.t0x12, anchor.timer0_prescaler, n) ELSE 0
Overflows0(n) == Wraps(anchor.mode0, anchor.tl0, anchor.th0, Ticks0(n))

(* The PCA ticks: a pending overflow counts at once, and swallows one that *)
(* comes with it.                                                          *)
PcaTicks(n) ==
  LET d == PcaDivisor[anchor.cps]
  IN  CASE ~anchor.cr \/ anchor.cps = 3 \/ n = 0 -> 0
        [] anchor.cr /\ n > 0 /\ anchor.cps = 2 ->
             Overflows0(n) + IF anchor.pca_t0_overflow_pending THEN 1 - Overflows0(1) ELSE 0
        [] anchor.cr /\ n > 0 /\ anchor.cps \notin {2, 3} ->
             IF anchor.pca_prescaler < d THEN (anchor.pca_prescaler + n) \div d ELSE 1 + (n - 1) \div d

(* Counting clock by clock, through prescalers, reloads and two-byte       *)
(* carries, comes to what the clocks passed say at once: Timer 0 in each   *)
(* mode, Timer 1 beside it, TF1 being TH0's in mode 3, the PCA on each of  *)
(* its sources, Timer 0's overflows among them, and the STC89's Timer 2.   *)
TimersCountClocks ==
  LET a == anchor
      n0 == Ticks0(age)
      split == IF a.tr1 THEN n0 ELSE 0
      n1 == IF a.gate1 \/ ~a.tr1 \/ a.ct1 \/ a.mode1 = 3 THEN 0
            ELSE TimerTicks(a.t1x12, a.timer1_prescaler, age)
      pca == a.cl + Radix * a.ch + PcaTicks(age)
      n2 == IF a.tr2 THEN TimerTicks(FALSE, a.osc_clocks, age) ELSE 0
  IN  /\ Value(a.mode0, c.tl0, c.th0) = After(a.mode0, a.tl0, a.th0, n0)
      /\ a.mode0 = 3 => c.th0 = (a.th0 + split) % Radix
      /\ c.tf0 <=> a.tf0 \/ Overflows0(age) > 0
      /\ Value(a.mode1, c.tl1, c.th1) = After(a.mode1, a.tl1, a.th1, n1)
      /\ c.tf1 <=> a.tf1 \/ IF a.mode0 = 3 THEN a.th0 + split >= Radix
                            ELSE Wraps(a.mode1, a.tl1, a.th1, n1) > 0
      /\ a.part # "STC89" => /\ c.cl + Radix * c.ch = pca % (Radix * Radix)
                             /\ c.cf <=> a.cf \/ pca >= Radix * Radix
      /\ a.part = "STC89" /\ ~a.cp /\ a.rcap2 < Radix * Radix =>
           LET first == Radix * Radix - a.t2
           IN  /\ c.t2 = IF n2 < first THEN a.t2 + n2
                         ELSE a.rcap2 + ((n2 - first) % (Radix * Radix - a.rcap2))
               /\ c.tf2 <=> a.tf2 \/ (n2 >= first /\ ~a.baud2)

(* A PWM period has the duty CCAPnH asked for when it began: the pin is    *)
(* high in (256 - duty) of its 256 counts, however often the firmware      *)
(* writes CCAPnH before it ends.                                           *)
PwmPulseWhole ==
  \A k \in 0 .. Modules(c.part) - 1 :
    (/\ pulse[k].whole /\ c.cl = Radix - 1
     /\ "PWM" \in c.ccapm[k] /\ c.ccapm[k] \cap {"TOG", "CAPP", "CAPN"} = {})
    => pulse[k].highs = Radix - pulse[k].duty

Ticked == c'.osc_clocks # c.osc_clocks

(* A conversion ends with ADC_FLAG set and ADC_START clear, as many clocks *)
(* after its last START as SPEED says, and the result registers hold the   *)
(* channel asked for in the format ADRJ selects, even when a START cut an  *)
(* earlier conversion short.                                               *)
AdcAnswersAsked ==
  [][ (Ticked /\ c.adc_countdown > 0 /\ asked.exact) =>
        IF asked'.waited < AdcClocks[asked.speed] THEN c'.flag = c.flag
        ELSE LET v == IF asked.chs \in c.p1asf THEN input.analog[asked.chs] ELSE 0
             IN  /\ c'.flag /\ ~c'.start /\ c'.adc_countdown = 0
                 /\ v = IF c.adrj THEN c'.adc_resl + 256 * c'.adc_res
                                  ELSE c'.adc_resl + 4 * c'.adc_res ]_vars

(* The watchdog overflows 32768 prescaled counts after it was cleared,     *)
(* never earlier and, short of the largest prescaler, not later.           *)
WdtBitesOnTime ==
  [][ (Ticked /\ c.en_wdt /\ fed.exact /\ Divisor(c.ps) < WdtRadix) =>
        (c'.wdt_flag /\ Overflowed <=> fed.clocks + 1 = WdtLimit * Divisor(c.ps)) ]_vars

(* "Prescaler: divide by 2^(PS+1)", "Overflow at 32768" (stc12.c, in       *)
(* stc12_wdt_tick): an enabled watchdog that nobody clears overflows.      *)
WdtBites == (c.en_wdt /\ todo.left = 0) ~> c.wdt_flag
=============================================================================
