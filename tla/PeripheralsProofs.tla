--------------------------- MODULE PeripheralsProofs ---------------------------
(***************************************************************************)
(* Proofs about Peripherals for every setup of registers, every sequence   *)
(* of legal writes, and any radix, divisor and window.                     *)
(***************************************************************************)
EXTENDS Peripherals, TLAPS

-----------------------------------------------------------------------------
(* The record of registers and counters.                                   *)

Fields == DOMAIN Held

\* A machine each of whose fields holds what it can.
Typed(s) == DOMAIN s = Fields /\ \A x \in Fields : s[x] \in Held[x]

\* Whatever differs between two machines is among these fields.
Beside(s, t, S) == DOMAIN t = DOMAIN s /\ \A x \in DOMAIN s \ S : t[x] = s[x]

\* The fields by name.
LEMMA Names ==
  /\ Fields = {
      "gate0", "ct0", "mode0", "tr0", "tf0", "gate1", "ct1", "mode1", "tr1", "tf1", "tl0",
      "th0", "tl1", "th1", "t0x12", "t1x12", "timer0_prescaler", "timer1_prescaler",
      "brt_prescaler", "osc_clocks", "brtr", "brtx12", "t2", "rcap2", "tr2", "tf2", "cp",
      "baud2", "t0clko", "t1clko", "last_tf1", "latch", "cr", "cf", "cps", "cl", "ch", "ccf",
      "ccapm", "ccapl", "ccaph", "epcl", "epch", "pca_cex_last", "pca_prescaler",
      "pca_t0_overflow_pending", "power", "start", "flag", "speed", "chs", "p1asf", "adrj",
      "adc_res", "adc_resl", "adc_countdown", "wdt_flag", "en_wdt", "ps", "wdt_counter",
      "wdt_prescaler_cnt", "pca_p4", "dps", "last_dps", "dptr", "dptr1", "s2ti", "s2ri",
      "spen", "spif", "wcol", "part"}
  /\ DOMAIN Reset = Fields
<1>1. Fields = {
      "gate0", "ct0", "mode0", "tr0", "tf0", "gate1", "ct1", "mode1", "tr1", "tf1", "tl0",
      "th0", "tl1", "th1", "t0x12", "t1x12", "timer0_prescaler", "timer1_prescaler",
      "brt_prescaler", "osc_clocks", "brtr", "brtx12", "t2", "rcap2", "tr2", "tf2", "cp",
      "baud2", "t0clko", "t1clko", "last_tf1", "latch", "cr", "cf", "cps", "cl", "ch", "ccf",
      "ccapm", "ccapl", "ccaph", "epcl", "epch", "pca_cex_last", "pca_prescaler",
      "pca_t0_overflow_pending", "power", "start", "flag", "speed", "chs", "p1asf", "adrj",
      "adc_res", "adc_resl", "adc_countdown", "wdt_flag", "en_wdt", "ps", "wdt_counter",
      "wdt_prescaler_cnt", "pca_p4", "dps", "last_dps", "dptr", "dptr1", "s2ti", "s2ri",
      "spen", "spif", "wcol", "part"}
  BY SMT DEF Fields, Held
<1>2. DOMAIN Reset = {
      "gate0", "ct0", "mode0", "tr0", "tf0", "gate1", "ct1", "mode1", "tr1", "tf1", "tl0",
      "th0", "tl1", "th1", "t0x12", "t1x12", "timer0_prescaler", "timer1_prescaler",
      "brt_prescaler", "osc_clocks", "brtr", "brtx12", "t2", "rcap2", "tr2", "tf2", "cp",
      "baud2", "t0clko", "t1clko", "last_tf1", "latch", "cr", "cf", "cps", "cl", "ch", "ccf",
      "ccapm", "ccapl", "ccaph", "epcl", "epch", "pca_cex_last", "pca_prescaler",
      "pca_t0_overflow_pending", "power", "start", "flag", "speed", "chs", "p1asf", "adrj",
      "adc_res", "adc_resl", "adc_countdown", "wdt_flag", "en_wdt", "ps", "wdt_counter",
      "wdt_prescaler_cnt", "pca_p4", "dps", "last_dps", "dptr", "dptr1", "s2ti", "s2ri",
      "spen", "spif", "wcol", "part"}
  BY SMT DEF Reset
<1> QED BY <1>1, <1>2, Zenon

\* A timer's registers: what they hold.
LEMMA TimerHeld ==
  /\ Held.gate0 = BOOLEAN
  /\ Held.ct0 = BOOLEAN
  /\ Held.mode0 = 0 .. 3
  /\ Held.tr0 = BOOLEAN
  /\ Held.tf0 = BOOLEAN
  /\ Held.gate1 = BOOLEAN
  /\ Held.ct1 = BOOLEAN
  /\ Held.mode1 = 0 .. 3
  /\ Held.tr1 = BOOLEAN
  /\ Held.tf1 = BOOLEAN
  /\ Held.tl0 = 0 .. Radix - 1
  /\ Held.th0 = 0 .. Radix - 1
  /\ Held.tl1 = 0 .. Radix - 1
  /\ Held.th1 = 0 .. Radix - 1
  /\ Held.t0x12 = BOOLEAN
  /\ Held.t1x12 = BOOLEAN
  /\ Held.timer0_prescaler = 0 .. Machine - 1
  /\ Held.timer1_prescaler = 0 .. Machine - 1
  /\ Held.osc_clocks = 0 .. Machine - 1
<1>1. Held.gate0 = BOOLEAN /\ Held.ct0 = BOOLEAN /\ Held.mode0 = 0 .. 3 /\ Held.tr0 = BOOLEAN
  BY SMT DEF Held
<1>2. Held.tf0 = BOOLEAN /\ Held.gate1 = BOOLEAN /\ Held.ct1 = BOOLEAN /\ Held.mode1 = 0 .. 3
  BY SMT DEF Held
<1>3. Held.tr1 = BOOLEAN /\ Held.tf1 = BOOLEAN /\ Held.tl0 = 0 .. Radix - 1 /\
      Held.th0 = 0 .. Radix - 1
  BY SMT DEF Held
<1>4. Held.tl1 = 0 .. Radix - 1 /\ Held.th1 = 0 .. Radix - 1 /\ Held.t0x12 = BOOLEAN /\
      Held.t1x12 = BOOLEAN
  BY SMT DEF Held
<1>5. Held.timer0_prescaler = 0 .. Machine - 1 /\ Held.timer1_prescaler = 0 .. Machine - 1 /\
      Held.osc_clocks = 0 .. Machine - 1
  BY SMT DEF Held
<1> QED BY <1>1, <1>2, <1>3, <1>4, <1>5, Zenon

\* The same of a machine.
LEMMA TimerIs == ASSUME NEW s, Typed(s)
  PROVE
  /\ s.gate0 \in BOOLEAN
  /\ s.ct0 \in BOOLEAN
  /\ s.mode0 \in 0 .. 3
  /\ s.tr0 \in BOOLEAN
  /\ s.tf0 \in BOOLEAN
  /\ s.gate1 \in BOOLEAN
  /\ s.ct1 \in BOOLEAN
  /\ s.mode1 \in 0 .. 3
  /\ s.tr1 \in BOOLEAN
  /\ s.tf1 \in BOOLEAN
  /\ s.tl0 \in 0 .. Radix - 1
  /\ s.th0 \in 0 .. Radix - 1
  /\ s.tl1 \in 0 .. Radix - 1
  /\ s.th1 \in 0 .. Radix - 1
  /\ s.t0x12 \in BOOLEAN
  /\ s.t1x12 \in BOOLEAN
  /\ s.timer0_prescaler \in 0 .. Machine - 1
  /\ s.timer1_prescaler \in 0 .. Machine - 1
  /\ s.osc_clocks \in 0 .. Machine - 1
<1>1. s.gate0 \in Held.gate0 /\ s.ct0 \in Held.ct0 /\ s.mode0 \in Held.mode0 /\
      s.tr0 \in Held.tr0 /\ s.tf0 \in Held.tf0 /\ s.gate1 \in Held.gate1 /\
      s.ct1 \in Held.ct1 /\ s.mode1 \in Held.mode1 /\ s.tr1 \in Held.tr1 /\
      s.tf1 \in Held.tf1 /\ s.tl0 \in Held.tl0 /\ s.th0 \in Held.th0 /\ s.tl1 \in Held.tl1 /\
      s.th1 \in Held.th1 /\ s.t0x12 \in Held.t0x12 /\ s.t1x12 \in Held.t1x12 /\
      s.timer0_prescaler \in Held.timer0_prescaler /\
      s.timer1_prescaler \in Held.timer1_prescaler /\ s.osc_clocks \in Held.osc_clocks
  BY Names, SMT DEF Typed
<1> QED BY <1>1, TimerHeld, Zenon

\* The other timers' registers: what they hold.
LEMMA BaudHeld ==
  /\ Held.brt_prescaler = 0 .. Machine - 1
  /\ Held.brtr = BOOLEAN
  /\ Held.brtx12 = BOOLEAN
  /\ Held.t2 = 0 .. Radix * Radix - 1
  /\ Held.rcap2 = 0 .. Radix * Radix - 1
  /\ Held.tr2 = BOOLEAN
  /\ Held.tf2 = BOOLEAN
  /\ Held.cp = BOOLEAN
  /\ Held.baud2 = BOOLEAN
  /\ Held.t0clko = BOOLEAN
  /\ Held.t1clko = BOOLEAN
  /\ Held.last_tf1 = BOOLEAN
  /\ Held.latch = [Pin -> 0 .. 1]
<1>1. Held.brt_prescaler = 0 .. Machine - 1 /\ Held.brtr = BOOLEAN /\ Held.brtx12 = BOOLEAN /\
      Held.t2 = 0 .. Radix * Radix - 1
  BY SMT DEF Held
<1>2. Held.rcap2 = 0 .. Radix * Radix - 1 /\ Held.tr2 = BOOLEAN /\ Held.tf2 = BOOLEAN /\
      Held.cp = BOOLEAN
  BY SMT DEF Held
<1>3. Held.baud2 = BOOLEAN /\ Held.t0clko = BOOLEAN /\ Held.t1clko = BOOLEAN /\
      Held.last_tf1 = BOOLEAN
  BY SMT DEF Held
<1>4. Held.latch = [Pin -> 0 .. 1]
  BY SMT DEF Held
<1> QED BY <1>1, <1>2, <1>3, <1>4, Zenon

\* The same of a machine.
LEMMA BaudIs == ASSUME NEW s, Typed(s)
  PROVE
  /\ s.brt_prescaler \in 0 .. Machine - 1
  /\ s.brtr \in BOOLEAN
  /\ s.brtx12 \in BOOLEAN
  /\ s.t2 \in 0 .. Radix * Radix - 1
  /\ s.rcap2 \in 0 .. Radix * Radix - 1
  /\ s.tr2 \in BOOLEAN
  /\ s.tf2 \in BOOLEAN
  /\ s.cp \in BOOLEAN
  /\ s.baud2 \in BOOLEAN
  /\ s.t0clko \in BOOLEAN
  /\ s.t1clko \in BOOLEAN
  /\ s.last_tf1 \in BOOLEAN
  /\ s.latch \in [Pin -> 0 .. 1]
<1>1. s.brt_prescaler \in Held.brt_prescaler /\ s.brtr \in Held.brtr /\
      s.brtx12 \in Held.brtx12 /\ s.t2 \in Held.t2 /\ s.rcap2 \in Held.rcap2 /\
      s.tr2 \in Held.tr2 /\ s.tf2 \in Held.tf2 /\ s.cp \in Held.cp /\
      s.baud2 \in Held.baud2 /\ s.t0clko \in Held.t0clko /\ s.t1clko \in Held.t1clko /\
      s.last_tf1 \in Held.last_tf1 /\ s.latch \in Held.latch
  BY Names, SMT DEF Typed
<1> QED BY <1>1, BaudHeld, Zenon

\* The PCA's registers: what they hold.
LEMMA PcaHeld ==
  /\ Held.cr = BOOLEAN
  /\ Held.cf = BOOLEAN
  /\ Held.cps = 0 .. 7
  /\ Held.cl = 0 .. Radix - 1
  /\ Held.ch = 0 .. Radix - 1
  /\ Held.ccf = [Module -> BOOLEAN]
  /\ Held.ccapm = [Module -> SUBSET {"ECOM", "CAPP", "CAPN", "MAT", "TOG", "PWM"}]
  /\ Held.ccapl = [Module -> 0 .. Radix - 1]
  /\ Held.ccaph = [Module -> 0 .. Radix - 1]
  /\ Held.epcl = [Module -> 0 .. 1]
  /\ Held.epch = [Module -> 0 .. 1]
  /\ Held.pca_cex_last = [Module -> 0 .. 1]
  /\ Held.pca_prescaler = UNION {0 .. PcaDivisor[cps] - 1 : cps \in DOMAIN PcaDivisor}
  /\ Held.pca_t0_overflow_pending = BOOLEAN
  /\ Held.pca_p4 = BOOLEAN
<1>1. Held.cr = BOOLEAN /\ Held.cf = BOOLEAN /\ Held.cps = 0 .. 7 /\ Held.cl = 0 .. Radix - 1
  BY SMT DEF Held
<1>2. Held.ch = 0 .. Radix - 1 /\ Held.ccf = [Module -> BOOLEAN] /\
      Held.ccapm = [Module -> SUBSET {"ECOM", "CAPP", "CAPN", "MAT", "TOG", "PWM"}] /\
      Held.ccapl = [Module -> 0 .. Radix - 1]
  BY SMT DEF Held
<1>3. Held.ccaph = [Module -> 0 .. Radix - 1] /\ Held.epcl = [Module -> 0 .. 1] /\
      Held.epch = [Module -> 0 .. 1] /\ Held.pca_cex_last = [Module -> 0 .. 1]
  BY SMT DEF Held
<1>4. Held.pca_prescaler = UNION {0 .. PcaDivisor[cps] - 1 : cps \in DOMAIN PcaDivisor} /\
      Held.pca_t0_overflow_pending = BOOLEAN /\ Held.pca_p4 = BOOLEAN
  BY SMT DEF Held
<1> QED BY <1>1, <1>2, <1>3, <1>4, Zenon

\* The same of a machine.
LEMMA PcaIs == ASSUME NEW s, Typed(s)
  PROVE
  /\ s.cr \in BOOLEAN
  /\ s.cf \in BOOLEAN
  /\ s.cps \in 0 .. 7
  /\ s.cl \in 0 .. Radix - 1
  /\ s.ch \in 0 .. Radix - 1
  /\ s.ccf \in [Module -> BOOLEAN]
  /\ s.ccapm \in [Module -> SUBSET {"ECOM", "CAPP", "CAPN", "MAT", "TOG", "PWM"}]
  /\ s.ccapl \in [Module -> 0 .. Radix - 1]
  /\ s.ccaph \in [Module -> 0 .. Radix - 1]
  /\ s.epcl \in [Module -> 0 .. 1]
  /\ s.epch \in [Module -> 0 .. 1]
  /\ s.pca_cex_last \in [Module -> 0 .. 1]
  /\ s.pca_prescaler \in UNION {0 .. PcaDivisor[cps] - 1 : cps \in DOMAIN PcaDivisor}
  /\ s.pca_t0_overflow_pending \in BOOLEAN
  /\ s.pca_p4 \in BOOLEAN
<1>1. s.cr \in Held.cr /\ s.cf \in Held.cf /\ s.cps \in Held.cps /\ s.cl \in Held.cl /\
      s.ch \in Held.ch /\ s.ccf \in Held.ccf /\ s.ccapm \in Held.ccapm /\
      s.ccapl \in Held.ccapl /\ s.ccaph \in Held.ccaph /\ s.epcl \in Held.epcl /\
      s.epch \in Held.epch /\ s.pca_cex_last \in Held.pca_cex_last /\
      s.pca_prescaler \in Held.pca_prescaler /\
      s.pca_t0_overflow_pending \in Held.pca_t0_overflow_pending /\ s.pca_p4 \in Held.pca_p4
  BY Names, SMT DEF Typed
<1> QED BY <1>1, PcaHeld, Zenon

\* The ADC's registers and the watchdog's: what they hold.
LEMMA AdcHeld ==
  /\ Held.power = BOOLEAN
  /\ Held.start = BOOLEAN
  /\ Held.flag = BOOLEAN
  /\ Held.speed = 0 .. 3
  /\ Held.chs = Channel
  /\ Held.p1asf = SUBSET Channel
  /\ Held.adrj = BOOLEAN
  /\ Held.adc_res = 0 .. 255
  /\ Held.adc_resl = 0 .. 255
  /\ Held.adc_countdown = 0 .. AdcClocks[0]
  /\ Held.wdt_flag = BOOLEAN
  /\ Held.en_wdt = BOOLEAN
  /\ Held.ps = 0 .. 7
  /\ Held.wdt_counter = 0 .. WdtLimit - 1
  /\ Held.wdt_prescaler_cnt = 0 .. WdtRadix - 1
<1>1. Held.power = BOOLEAN /\ Held.start = BOOLEAN /\ Held.flag = BOOLEAN /\
      Held.speed = 0 .. 3
  BY SMT DEF Held
<1>2. Held.chs = Channel /\ Held.p1asf = SUBSET Channel /\ Held.adrj = BOOLEAN /\
      Held.adc_res = 0 .. 255
  BY SMT DEF Held
<1>3. Held.adc_resl = 0 .. 255 /\ Held.adc_countdown = 0 .. AdcClocks[0] /\
      Held.wdt_flag = BOOLEAN /\ Held.en_wdt = BOOLEAN
  BY SMT DEF Held
<1>4. Held.ps = 0 .. 7 /\ Held.wdt_counter = 0 .. WdtLimit - 1 /\
      Held.wdt_prescaler_cnt = 0 .. WdtRadix - 1
  BY SMT DEF Held
<1> QED BY <1>1, <1>2, <1>3, <1>4, Zenon

\* The same of a machine.
LEMMA AdcIs == ASSUME NEW s, Typed(s)
  PROVE
  /\ s.power \in BOOLEAN
  /\ s.start \in BOOLEAN
  /\ s.flag \in BOOLEAN
  /\ s.speed \in 0 .. 3
  /\ s.chs \in Channel
  /\ s.p1asf \in SUBSET Channel
  /\ s.adrj \in BOOLEAN
  /\ s.adc_res \in 0 .. 255
  /\ s.adc_resl \in 0 .. 255
  /\ s.adc_countdown \in 0 .. AdcClocks[0]
  /\ s.wdt_flag \in BOOLEAN
  /\ s.en_wdt \in BOOLEAN
  /\ s.ps \in 0 .. 7
  /\ s.wdt_counter \in 0 .. WdtLimit - 1
  /\ s.wdt_prescaler_cnt \in 0 .. WdtRadix - 1
<1>1. s.power \in Held.power /\ s.start \in Held.start /\ s.flag \in Held.flag /\
      s.speed \in Held.speed /\ s.chs \in Held.chs /\ s.p1asf \in Held.p1asf /\
      s.adrj \in Held.adrj /\ s.adc_res \in Held.adc_res /\ s.adc_resl \in Held.adc_resl /\
      s.adc_countdown \in Held.adc_countdown /\ s.wdt_flag \in Held.wdt_flag /\
      s.en_wdt \in Held.en_wdt /\ s.ps \in Held.ps /\ s.wdt_counter \in Held.wdt_counter /\
      s.wdt_prescaler_cnt \in Held.wdt_prescaler_cnt
  BY Names, SMT DEF Typed
<1> QED BY <1>1, AdcHeld, Zenon

\* The other registers: what they hold.
LEMMA OtherHeld ==
  /\ Held.dps = 0 .. 1
  /\ Held.last_dps = 0 .. 1
  /\ Held.dptr = 0 .. Radix * Radix - 1
  /\ Held.dptr1 = 0 .. Radix * Radix - 1
  /\ Held.s2ti = BOOLEAN
  /\ Held.s2ri = BOOLEAN
  /\ Held.spen = BOOLEAN
  /\ Held.spif = BOOLEAN
  /\ Held.wcol = BOOLEAN
  /\ Held.part = {"STC12", "STC15", "STC15W", "STC89"}
<1>1. Held.dps = 0 .. 1 /\ Held.last_dps = 0 .. 1 /\ Held.dptr = 0 .. Radix * Radix - 1 /\
      Held.dptr1 = 0 .. Radix * Radix - 1
  BY SMT DEF Held
<1>2. Held.s2ti = BOOLEAN /\ Held.s2ri = BOOLEAN /\ Held.spen = BOOLEAN /\ Held.spif = BOOLEAN
  BY SMT DEF Held
<1>3. Held.wcol = BOOLEAN /\ Held.part = {"STC12", "STC15", "STC15W", "STC89"}
  BY SMT DEF Held
<1> QED BY <1>1, <1>2, <1>3, Zenon

\* The same of a machine.
LEMMA OtherIs == ASSUME NEW s, Typed(s)
  PROVE
  /\ s.dps \in 0 .. 1
  /\ s.last_dps \in 0 .. 1
  /\ s.dptr \in 0 .. Radix * Radix - 1
  /\ s.dptr1 \in 0 .. Radix * Radix - 1
  /\ s.s2ti \in BOOLEAN
  /\ s.s2ri \in BOOLEAN
  /\ s.spen \in BOOLEAN
  /\ s.spif \in BOOLEAN
  /\ s.wcol \in BOOLEAN
  /\ s.part \in {"STC12", "STC15", "STC15W", "STC89"}
<1>1. s.dps \in Held.dps /\ s.last_dps \in Held.last_dps /\ s.dptr \in Held.dptr /\
      s.dptr1 \in Held.dptr1 /\ s.s2ti \in Held.s2ti /\ s.s2ri \in Held.s2ri /\
      s.spen \in Held.spen /\ s.spif \in Held.spif /\ s.wcol \in Held.wcol /\
      s.part \in Held.part
  BY Names, SMT DEF Typed
<1> QED BY <1>1, OtherHeld, Zenon

\* Each is a field.
LEMMA IsField ==
  /\ "gate0" \in Fields /\ "ct0" \in Fields /\ "mode0" \in Fields
  /\ "tr0" \in Fields /\ "tf0" \in Fields /\ "gate1" \in Fields
  /\ "ct1" \in Fields /\ "mode1" \in Fields /\ "tr1" \in Fields
  /\ "tf1" \in Fields /\ "tl0" \in Fields /\ "th0" \in Fields
  /\ "tl1" \in Fields /\ "th1" \in Fields /\ "t0x12" \in Fields
  /\ "t1x12" \in Fields /\ "timer0_prescaler" \in Fields /\ "timer1_prescaler" \in Fields
  /\ "brt_prescaler" \in Fields /\ "osc_clocks" \in Fields /\ "brtr" \in Fields
  /\ "brtx12" \in Fields /\ "t2" \in Fields /\ "rcap2" \in Fields
  /\ "tr2" \in Fields /\ "tf2" \in Fields /\ "cp" \in Fields
  /\ "baud2" \in Fields /\ "t0clko" \in Fields /\ "t1clko" \in Fields
  /\ "last_tf1" \in Fields /\ "latch" \in Fields /\ "cr" \in Fields
  /\ "cf" \in Fields /\ "cps" \in Fields /\ "cl" \in Fields
  /\ "ch" \in Fields /\ "ccf" \in Fields /\ "ccapm" \in Fields
  /\ "ccapl" \in Fields /\ "ccaph" \in Fields /\ "epcl" \in Fields
  /\ "epch" \in Fields /\ "pca_cex_last" \in Fields /\ "pca_prescaler" \in Fields
  /\ "pca_t0_overflow_pending" \in Fields /\ "power" \in Fields /\ "start" \in Fields
  /\ "flag" \in Fields /\ "speed" \in Fields /\ "chs" \in Fields
  /\ "p1asf" \in Fields /\ "adrj" \in Fields /\ "adc_res" \in Fields
  /\ "adc_resl" \in Fields /\ "adc_countdown" \in Fields /\ "wdt_flag" \in Fields
  /\ "en_wdt" \in Fields /\ "ps" \in Fields /\ "wdt_counter" \in Fields
  /\ "wdt_prescaler_cnt" \in Fields /\ "pca_p4" \in Fields /\ "dps" \in Fields
  /\ "last_dps" \in Fields /\ "dptr" \in Fields /\ "dptr1" \in Fields
  /\ "s2ti" \in Fields /\ "s2ri" \in Fields /\ "spen" \in Fields
  /\ "spif" \in Fields /\ "wcol" \in Fields /\ "part" \in Fields
  BY Names, SMT

-----------------------------------------------------------------------------
(* What each stage of a clock leaves alone.                                *)

\* What is beside one set is beside a larger one.
LEMMA BesideMore ==
  ASSUME NEW s, NEW t, NEW S, NEW T, Beside(s, t, S), S \subseteq T
  PROVE  Beside(s, t, T)
  BY Zenon DEF Beside

\* Stages one after the other.
LEMMA BesideThen ==
  ASSUME NEW s, NEW t, NEW u, NEW S, NEW T, Beside(s, t, S), Beside(t, u, T)
  PROVE  Beside(s, u, S \cup T)
  BY Zenon DEF Beside

\* Nothing differs from itself.
LEMMA BesideSelf == ASSUME NEW s, NEW S PROVE Beside(s, s, S)
  BY Zenon DEF Beside

\* One field stored.
LEMMA BesideOne == ASSUME NEW s, NEW x, NEW v PROVE Beside(s, [s EXCEPT ![x] = v], {x})
  BY Zenon DEF Beside

\* Timer 0 and the half of it that TR1 runs.
LEMMA Timer0Beside == ASSUME NEW s
  PROVE  Beside(s, Timer0Tick(s), {"timer0_prescaler", "tl0", "tf0", "th0", "tf1"})
  BY Zenon DEF Timer0Tick, Beside

\* Timer 1.
LEMMA Timer1Beside == ASSUME NEW s
  PROVE  Beside(s, Timer1Tick(s), {"timer1_prescaler", "tl1", "th1", "tf1"})
  BY Zenon DEF Timer1Tick, Beside

\* The baud-rate timer.
LEMMA BrtBeside == ASSUME NEW s
  PROVE  Beside(s, BrtTick(s), {"brt_prescaler", "t2"})
  BY Zenon DEF BrtTick, Beside

\* The STC89's Timer 2.
LEMMA Timer2Beside == ASSUME NEW s
  PROVE  Beside(s, Timer2Tick(s), {"t2", "tf2"})
  BY Zenon DEF Timer2Tick, Beside

\* Timer 0's clock output.
LEMMA ClockOut0Beside == ASSUME NEW s, NEW o
  PROVE  Beside(s, ClockOut0(s, o), {"pca_t0_overflow_pending", "latch"})
  BY Zenon DEF ClockOut0, Toggled, Beside

\* Timer 1's clock output.
LEMMA ClockOut1Beside == ASSUME NEW s
  PROVE  Beside(s, ClockOut1(s), {"last_tf1", "latch"})
  BY Zenon DEF ClockOut1, Toggled, Beside

\* The ADC.
LEMMA AdcBeside == ASSUME NEW s, NEW counts
  PROVE  Beside(s, AdcTick(s, counts), {"adc_countdown", "flag", "start", "adc_res", "adc_resl"})
  BY Zenon DEF AdcTick, Beside

\* A divisor of the watchdog.
LEMMA DivisorIs == ASSUME NEW ps \in 0 .. 7 PROVE Divisor(ps) \in Nat \ {0, 1}
<1>1. ps = 0 \/ ps = 1 \/ ps = 2 \/ ps = 3 \/ ps = 4 \/ ps = 5 \/ ps = 6 \/ ps = 7 BY SMT
<1>2. /\ 2^0 = 1 /\ 2^1 = 2 /\ 2^2 = 4 /\ 2^3 = 8
      /\ 2^4 = 16 /\ 2^5 = 32 /\ 2^6 = 64 /\ 2^7 = 128
  OBVIOUS
<1>3. \A p : p = 1 \/ p = 2 \/ p = 4 \/ p = 8 \/ p = 16 \/ p = 32 \/ p = 64 \/ p = 128
             => p \in Nat \ {0}
  BY SMT
<1>4. 2^ps \in Nat \ {0}
  <2>1. CASE ps = 0 BY <2>1, <1>2, <1>3, Zenon
  <2>2. CASE ps = 1 BY <2>2, <1>2, <1>3, Zenon
  <2>3. CASE ps = 2 BY <2>3, <1>2, <1>3, Zenon
  <2>4. CASE ps = 3 BY <2>4, <1>2, <1>3, Zenon
  <2>5. CASE ps = 4 BY <2>5, <1>2, <1>3, Zenon
  <2>6. CASE ps = 5 BY <2>6, <1>2, <1>3, Zenon
  <2>7. CASE ps = 6 BY <2>7, <1>2, <1>3, Zenon
  <2>8. CASE ps = 7 BY <2>8, <1>2, <1>3, Zenon
  <2> QED BY <1>1, <2>1, <2>2, <2>3, <2>4, <2>5, <2>6, <2>7, <2>8, Zenon
<1>5. \A p \in Nat \ {0} : 2 * p \in Nat \ {0, 1} BY SMT
<1> QED BY <1>4, <1>5, Zenon DEF Divisor

\* The watchdog's prescaler ends or goes on.
LEMMA WdtCounts == ASSUME NEW s, Typed(s)
  PROVE  /\ (s.wdt_prescaler_cnt + 1) % WdtRadix \in 0 .. WdtRadix - 1
         /\ Divisor(s.ps) \in Nat
         /\ \/ (s.wdt_prescaler_cnt + 1) % WdtRadix < Divisor(s.ps)
            \/ (s.wdt_prescaler_cnt + 1) % WdtRadix >= Divisor(s.ps)
<1>1. s.wdt_prescaler_cnt \in 0 .. WdtRadix - 1 /\ s.ps \in 0 .. 7 BY AdcIs, Zenon
<1>2. WdtRadix \in Nat \ {0, 1} BY WidthAssumption, Zenon
<1>3. Divisor(s.ps) \in Nat BY <1>1, DivisorIs, SMT
<1>4. (s.wdt_prescaler_cnt + 1) % WdtRadix \in 0 .. WdtRadix - 1 BY <1>1, <1>2, SMT
<1> QED BY <1>2, <1>3, <1>4, SMT

\* The watchdog.
LEMMA WdtBeside == ASSUME NEW s, Typed(s)
  PROVE  Beside(s, WdtTick(s), {"wdt_prescaler_cnt", "wdt_counter", "wdt_flag"})
  BY WdtCounts, Zenon DEF WdtTick, Beside

\* The PCA's prescaler.
LEMMA PrescaledBeside == ASSUME NEW s
  PROVE  Beside(s, PcaPrescaled(s), {"pca_prescaler", "pca_t0_overflow_pending"})
  BY Zenon DEF PcaPrescaled, Beside

\* The PCA's counter.
LEMMA CountedBeside == ASSUME NEW s
  PROVE  Beside(s, PcaCounted(s), {"cl", "ch", "cf"})
  BY Zenon DEF PcaCounted, Beside

ModuleFields == {"ccapl", "ccaph", "epcl", "ccf", "latch", "pca_cex_last"}

\* A PWM.
LEMMA PwmBeside == ASSUME NEW s, NEW k
  PROVE  Beside(s, Pwm(s, k), ModuleFields)
  BY Zenon DEF Pwm, Reloaded, Beside, ModuleFields

\* A match.
LEMMA MatchBeside == ASSUME NEW s, NEW k
  PROVE  Beside(s, Match(s, k), ModuleFields)
  BY Zenon DEF Match, Toggled, Beside, ModuleFields

\* A capture.
LEMMA CaptureBeside == ASSUME NEW s, NEW k, NEW level
  PROVE  Beside(s, Capture(s, k, level), ModuleFields)
  BY Zenon DEF Capture, Beside, ModuleFields

-----------------------------------------------------------------------------
(* Counting.                                                               *)

\* Quotient and remainder.
LEMMA DivMod == ASSUME NEW x \in Int, NEW d \in Nat \ {0}
  PROVE  x % d \in 0 .. d - 1 /\ x \div d \in Int /\ x = (x \div d) * d + (x % d)
  BY SMT

\* They are the only ones.
LEMMA OnlyDivMod ==
  ASSUME NEW x \in Int, NEW d \in Nat \ {0}, NEW q \in Int, NEW r \in 0 .. d - 1, x = q * d + r
  PROVE  x % d = r /\ x \div d = q
<1> DEFINE a == x \div d  b == x % d
<1>1. a \in Int /\ b \in 0 .. d - 1 /\ a * d + b = q * d + r BY DivMod
<1>2. ASSUME NEW u \in Int, NEW v \in 0 .. d - 1, u * d + v = q * d + r PROVE u = q /\ v = r
  <2>1. (u - q) * d = r - v BY <1>2, SMT
  <2>2. CASE u - q >= 1
    <3>1. (u - q) * d >= d BY <2>2, SMT
    <3> QED BY <2>1, <3>1, SMT
  <2>3. CASE u - q <= -1
    <3>1. (u - q) * d <= -d BY <2>3, SMT
    <3> QED BY <2>1, <3>1, SMT
  <2>4. CASE u = q BY <2>1, <2>4, SMT
  <2> QED BY <2>2, <2>3, <2>4, SMT
<1> HIDE DEF a, b
<1>3. a = q /\ b = r BY <1>1, <1>2
<1> QED BY <1>3 DEF a, b

\* One more, divided.
LEMMA NextDivMod ==
  ASSUME NEW x \in Nat, NEW d \in Nat \ {0}
  PROVE  /\ x % d = d - 1 => (x + 1) % d = 0 /\ (x + 1) \div d = (x \div d) + 1
         /\ x % d # d - 1 => (x + 1) % d = (x % d) + 1 /\ (x + 1) \div d = x \div d
<1> DEFINE q == x \div d  r == x % d
<1>1. q \in Int /\ r \in 0 .. d - 1 /\ x = q * d + r BY DivMod
<1> HIDE DEF q, r
<1>2. CASE r = d - 1
  <2>1. x + 1 = (q + 1) * d + 0 /\ q + 1 \in Int /\ 0 \in 0 .. d - 1 BY <1>1, <1>2, SMT
  <2>2. (x + 1) % d = 0 /\ (x + 1) \div d = q + 1 BY <2>1, OnlyDivMod
  <2> QED BY <1>2, <2>2 DEF q, r
<1>3. CASE r # d - 1
  <2>1. x + 1 = q * d + (r + 1) /\ r + 1 \in 0 .. d - 1 BY <1>1, <1>3, SMT
  <2>2. (x + 1) % d = r + 1 /\ (x + 1) \div d = q BY <1>1, <2>1, OnlyDivMod
  <2> QED BY <1>3, <2>2 DEF q, r
<1> QED BY <1>2, <1>3

\* What is below the divisor is its own remainder.
LEMMA SmallMod == ASSUME NEW d \in Nat \ {0}, NEW r \in 0 .. d - 1 PROVE r % d = r /\ r \div d = 0
<1>1. r = 0 * d + r /\ 0 \in Int /\ r \in Int BY SMT
<1> QED BY <1>1, OnlyDivMod

\* A counter one on: it wraps at its top.
LEMMA WrapMod == ASSUME NEW d \in Nat \ {0}, NEW r \in 0 .. d - 1
  PROVE  (r + 1) % d = IF r = d - 1 THEN 0 ELSE r + 1
<1>1. r % d = r /\ r \in Nat BY SmallMod, SMT
<1>2. /\ r % d = d - 1 => (r + 1) % d = 0
      /\ r % d # d - 1 => (r + 1) % d = (r % d) + 1
  BY <1>1, NextDivMod, Zenon
<1> QED BY <1>1, <1>2, Zenon

\* A counter of the given size that goes on from reload, after n counts from v; and how
\* often it has overflowed.
CountFrom(v, size, reload, n) ==
  IF n < size - v THEN v + n ELSE reload + ((n - (size - v)) % (size - reload))
OverFrom(v, size, reload, n) ==
  IF n < size - v THEN 0 ELSE 1 + ((n - (size - v)) \div (size - reload))

\* Past the first overflow.
LEMMA CountPast ==
  ASSUME NEW v, NEW size, NEW reload, NEW m, ~(m < size - v)
  PROVE  /\ CountFrom(v, size, reload, m) = reload + ((m - (size - v)) % (size - reload))
         /\ OverFrom(v, size, reload, m) = 1 + ((m - (size - v)) \div (size - reload))
  BY Zenon DEF CountFrom, OverFrom

\* The first count.
LEMMA CountFirst ==
  ASSUME NEW size \in Nat \ {0}, NEW v \in 0 .. size - 1, NEW reload \in 0 .. size - 1
  PROVE  CountFrom(v, size, reload, 0) = v /\ OverFrom(v, size, reload, 0) = 0
  BY SMT DEF CountFrom, OverFrom

\* One count more.
LEMMA CountNext ==
  ASSUME NEW size \in Nat \ {0}, NEW v \in 0 .. size - 1, NEW reload \in 0 .. size - 1, NEW n \in Nat
  PROVE  LET was == CountFrom(v, size, reload, n)
             over == OverFrom(v, size, reload, n)
         IN  /\ was \in 0 .. size - 1 /\ over \in Nat
             /\ CountFrom(v, size, reload, n + 1) = IF was = size - 1 THEN reload ELSE was + 1
             /\ OverFrom(v, size, reload, n + 1) = IF was = size - 1 THEN over + 1 ELSE over
<1> DEFINE first == size - v  d == size - reload
<1>1. first \in Nat \ {0} /\ d \in Nat \ {0} BY SMT
<1>2. CASE n + 1 < first BY <1>2, SMT DEF CountFrom, OverFrom
<1>3. CASE n + 1 = first
  <2>1. n + 1 - first = 0 /\ n < first /\ ~(n + 1 < first) BY <1>1, <1>3, SMT
  <2>2. 0 % d = 0 /\ 0 \div d = 0 BY <1>1, SmallMod, SMT
  <2> DEFINE m == n + 1
  <2>5. m - first = 0 /\ ~(m < first) BY <2>1
  <2> HIDE DEF m
  <2>7. ~(m < size - v) BY <2>5
  <2>8. /\ CountFrom(v, size, reload, m) = reload + ((m - (size - v)) % (size - reload))
        /\ OverFrom(v, size, reload, m) = 1 + ((m - (size - v)) \div (size - reload))
    BY <2>7, CountPast
  <2>6. CountFrom(v, size, reload, m) = reload + 0 /\ OverFrom(v, size, reload, m) = 1 + 0
    BY <2>5, <2>2, <2>8
  <2>3. CountFrom(v, size, reload, n + 1) = reload + 0 /\ OverFrom(v, size, reload, n + 1) = 1 + 0
    BY <2>6 DEF m
  <2>4. CountFrom(v, size, reload, n) = v + n /\ OverFrom(v, size, reload, n) = 0
    BY <2>1, Zenon DEF CountFrom, OverFrom
  <2> QED BY <1>3, <2>3, <2>4, SMT
<1>4. CASE n >= first
  <2> DEFINE x == n - first  m == n + 1
  <2>6. m - first = x + 1 /\ ~(m < first) BY <1>1, <1>4, SMT
  <2>1. x \in Nat /\ x + 1 = n + 1 - first /\ ~(n < first) /\ ~(n + 1 < first) BY <1>1, <1>4, SMT
  <2> HIDE DEF first, d, x, m
  <2> DEFINE q == x \div d  r == x % d  q1 == (x + 1) \div d  r1 == (x + 1) % d
  <2>2. r \in 0 .. d - 1 /\ q \in Int /\ x = q * d + r BY <1>1, <2>1, DivMod
  <2>3. q >= 0
    <3> HIDE DEF q, r
    <3>1. CASE q <= -1
      <4>1. q * d <= -d BY <1>1, <2>2, <3>1, SMT
      <4> QED BY <1>1, <2>1, <2>2, <4>1, SMT
    <3> QED BY <2>2, <3>1, SMT
  <2>4. /\ r = d - 1 => r1 = 0 /\ q1 = q + 1
        /\ r # d - 1 => r1 = r + 1 /\ q1 = q
    BY <1>1, <2>1, NextDivMod
  <2>5. /\ CountFrom(v, size, reload, n) = reload + r
        /\ OverFrom(v, size, reload, n) = 1 + q
    BY <2>1, Zenon DEF CountFrom, OverFrom, first, d, x
  <2>9. ~(m < size - v) BY <2>6, Zenon DEF first
  <2>10. /\ CountFrom(v, size, reload, m) = reload + ((m - first) % d)
         /\ OverFrom(v, size, reload, m) = 1 + ((m - first) \div d)
    BY <2>9, CountPast DEF first, d
  <2>8. /\ CountFrom(v, size, reload, m) = reload + r1
        /\ OverFrom(v, size, reload, m) = 1 + q1
    BY <2>6, <2>10, Zenon
  <2>7. /\ CountFrom(v, size, reload, n + 1) = reload + r1
        /\ OverFrom(v, size, reload, n + 1) = 1 + q1
    BY <2>8 DEF m
  <2> HIDE DEF q, r, q1, r1
  <2> QED BY <1>1, <2>2, <2>3, <2>4, <2>5, <2>7, SMT DEF d
<1> QED BY <1>1, <1>2, <1>3, <1>4, SMT

\* The radix and the other numbers.
LEMMA Numbers ==
  /\ Radix \in Nat \ {0, 1} /\ Low13 \in Nat \ {0, 1} /\ Machine \in Nat \ {0, 1}
  /\ WdtRadix \in Nat \ {0, 1} /\ WdtLimit \in Nat \ {0, 1} /\ Window \in Nat \ {0, 1}
  BY WidthAssumption, SMT

\* The low byte of mode 0 goes into a byte a whole number of times.
LEMMA Low13Divides ==
  /\ Radix \div Low13 \in Int /\ Radix = (Radix \div Low13) * Low13
<1>1. Radix \in Int /\ Low13 \in Nat \ {0} /\ Radix % Low13 = 0 BY Numbers, WidthAssumption, SMT
<1>2. Radix \div Low13 \in Int /\ Radix = (Radix \div Low13) * Low13 + (Radix % Low13)
  BY <1>1, DivMod
<1> QED BY <1>1, <1>2, SMT

\* What is counted in the low byte stays one.
LEMMA LowCount ==
  ASSUME NEW size \in Nat \ {0}, NEW q \in Int, Radix = q * size, NEW tl \in 0 .. Radix - 1
  PROVE  LET next == tl - (tl % size) + (((tl % size) + 1) % size)
         IN  next \in 0 .. Radix - 1 /\ next % size = ((tl % size) + 1) % size
<1> DEFINE a == tl \div size  b == tl % size  e == (b + 1) % size
<1>1. a \in Int /\ b \in 0 .. size - 1 /\ tl = a * size + b /\ tl \in Int BY DivMod, Numbers, SMT
<1>2. b + 1 \in Int BY <1>1, SMT
<1>3. e \in 0 .. size - 1 BY <1>2, DivMod
<1> HIDE DEF a, b, e
<1> DEFINE next == tl - b + e
<1>4. next = a * size + e /\ next \in Int BY <1>1, <1>3, SMT
<1>5. next % size = e BY <1>1, <1>3, <1>4, OnlyDivMod
<1>6. a >= 0
  <2>1. CASE a <= -1
    <3>1. a * size <= -size BY <1>1, <2>1, SMT
    <3> QED BY <1>1, <3>1, SMT
  <2> QED BY <1>1, <2>1, SMT
<1>7. a + 1 <= q
  <2>1. CASE a >= q
    <3>1. a * size >= q * size BY <1>1, <2>1, SMT
    <3> QED BY <1>1, <3>1, SMT
  <2> QED BY <1>1, <2>1, SMT
<1>8. a * size >= 0 BY <1>1, <1>6, SMT
<1>9. (a + 1) * size <= q * size BY <1>1, <1>7, SMT
<1>10. next \in 0 .. Radix - 1 BY <1>1, <1>3, <1>4, <1>8, <1>9, SMT
<1> QED BY <1>5, <1>10 DEF b, e

\* The value of a timer is below its size.
LEMMA ValueIn ==
  ASSUME NEW mode \in 0 .. 3, NEW tl \in 0 .. Radix - 1, NEW th \in 0 .. Radix - 1
  PROVE  Size(mode) \in Nat \ {0} /\ Value(mode, tl, th) \in 0 .. Size(mode) - 1
<1>1. CASE mode = 0
  <2>1. tl % Low13 \in 0 .. Low13 - 1 BY Numbers, DivMod, SMT
  <2>2. \A b \in 0 .. Low13 - 1 : b + Low13 * th \in 0 .. Low13 * Radix - 1
    <3> TAKE b \in 0 .. Low13 - 1
    <3>1. Low13 * th <= Low13 * (Radix - 1) /\ Low13 * th >= 0 BY Numbers, SMT
    <3> QED BY <3>1, Numbers, SMT
  <2>3. Low13 * Radix \in Nat \ {0} BY Numbers, SMT
  <2>4. Value(mode, tl, th) = (tl % Low13) + Low13 * th /\ Size(mode) = Low13 * Radix
    BY <1>1, SMT DEF Value, Size
  <2> QED BY <2>1, <2>2, <2>3, <2>4, Zenon
<1>2. CASE mode = 1
  <2>1. tl + Radix * th \in 0 .. Radix * Radix - 1
    <3>1. Radix * th <= Radix * (Radix - 1) /\ Radix * th >= 0 BY Numbers, SMT
    <3> QED BY <3>1, Numbers, SMT
  <2>2. Radix * Radix \in Nat \ {0} BY Numbers, SMT
  <2>3. Value(mode, tl, th) = tl + Radix * th /\ Size(mode) = Radix * Radix
    BY <1>2, SMT DEF Value, Size
  <2> QED BY <2>1, <2>2, <2>3, Zenon
<1>3. CASE mode \notin {0, 1}
  <2>1. Value(mode, tl, th) = tl /\ Size(mode) = Radix BY <1>3, SMT DEF Value, Size
  <2> QED BY <2>1, Numbers, SMT
<1> QED BY <1>1, <1>2, <1>3

\* Two bytes, the lower of size L, counted as one number.
LEMMA TwoBytes ==
  ASSUME NEW L \in Nat \ {0, 1}, NEW R \in Nat \ {0, 1}, NEW b \in 0 .. L - 1, NEW h \in 0 .. R - 1
  PROVE  /\ b = L - 1 /\ h = R - 1 => b + L * h = L * R - 1
         /\ b = L - 1 /\ h # R - 1 => b + L * h # L * R - 1 /\ 0 + L * (h + 1) = b + L * h + 1
         /\ b # L - 1 => b + L * h # L * R - 1 /\ (b + 1) + L * h = b + L * h + 1
<1>1. L * h <= L * (R - 1) BY SMT
<1>2. h # R - 1 => L * (h + 1) <= L * (R - 1) BY SMT
<1>3. L * (R - 1) = L * R - L /\ L * (h + 1) = L * h + L BY SMT
<1>4. L * R \in Int /\ L * h \in Int BY SMT
<1> QED BY <1>1, <1>2, <1>3, <1>4, SMT

\* Where a timer goes on from after its overflow.
Back(mode, th) == IF mode = 2 THEN th ELSE 0

\* What Counted does to the bytes in mode 0.
LEMMA CountedBytes0 ==
  ASSUME NEW tl, NEW th
  PROVE  LET t == Counted(0, tl, th)
             b == tl % Low13
         IN  /\ t.tl = tl - b + ((b + 1) % Low13)
             /\ b + 1 = Low13 => t.th = (th + 1) % Radix
             /\ b + 1 # Low13 => t.th = th
             /\ t.over <=> b + 1 = Low13 /\ th = Radix - 1
             /\ t.over \in BOOLEAN
<1>1. Counted(0, tl, th) =
        LET low == (tl % Low13) + 1
        IN  [tl |-> tl - (tl % Low13) + (low % Low13),
             th |-> IF low = Low13 THEN (th + 1) % Radix ELSE th,
             over |-> low = Low13 /\ th = Radix - 1]
  BY SMT DEF Counted
<1>2. /\ Counted(0, tl, th).tl = tl - (tl % Low13) + (((tl % Low13) + 1) % Low13)
      /\ Counted(0, tl, th).th = (IF (tl % Low13) + 1 = Low13 THEN (th + 1) % Radix ELSE th)
      /\ Counted(0, tl, th).over = ((tl % Low13) + 1 = Low13 /\ th = Radix - 1)
  BY <1>1
<1> QED BY <1>2, Zenon

\* In mode 1.
LEMMA CountedBytes1 ==
  ASSUME NEW tl \in 0 .. Radix - 1, NEW th
  PROVE  LET t == Counted(1, tl, th)
         IN  /\ t.tl = (tl + 1) % Radix
             /\ tl + 1 = Radix => t.th = (th + 1) % Radix
             /\ tl + 1 # Radix => t.th = th
             /\ t.over <=> tl + 1 = Radix /\ th = Radix - 1
             /\ t.over \in BOOLEAN
<1>1. Counted(1, tl, th) =
        LET low == (tl % Radix) + 1
        IN  [tl |-> tl - (tl % Radix) + (low % Radix),
             th |-> IF low = Radix THEN (th + 1) % Radix ELSE th,
             over |-> low = Radix /\ th = Radix - 1]
  BY SMT DEF Counted
<1>2. tl % Radix = tl BY Numbers, SmallMod, SMT
<1>3. tl - (tl % Radix) + (((tl % Radix) + 1) % Radix) = (tl + 1) % Radix
  <2>1. (tl + 1) % Radix \in Int BY Numbers, DivMod, SMT
  <2>2. \A m \in Int : tl - tl + m = m BY SMT
  <2> QED BY <1>2, <2>1, <2>2, Zenon
<1>4. /\ Counted(1, tl, th).tl = tl - (tl % Radix) + (((tl % Radix) + 1) % Radix)
      /\ Counted(1, tl, th).th = (IF (tl % Radix) + 1 = Radix THEN (th + 1) % Radix ELSE th)
      /\ Counted(1, tl, th).over = ((tl % Radix) + 1 = Radix /\ th = Radix - 1)
  BY <1>1
<1> QED BY <1>2, <1>3, <1>4, Zenon

\* In mode 2.
LEMMA CountedBytes2 ==
  ASSUME NEW tl \in 0 .. Radix - 1, NEW th
  PROVE  LET t == Counted(2, tl, th)
         IN  /\ tl + 1 = Radix => t.tl = th
             /\ tl + 1 # Radix => t.tl = tl + 1
             /\ t.th = th
             /\ t.over <=> tl + 1 = Radix
             /\ t.over \in BOOLEAN
<1>1. Counted(2, tl, th) =
        LET low == (tl % Radix) + 1
        IN  [tl |-> IF low = Radix THEN th ELSE low, th |-> th, over |-> low = Radix]
  BY SMT DEF Counted
<1>2. tl % Radix = tl BY Numbers, SmallMod, SMT
<1>3. /\ Counted(2, tl, th).tl = (IF (tl % Radix) + 1 = Radix THEN th ELSE (tl % Radix) + 1)
      /\ Counted(2, tl, th).th = th
      /\ Counted(2, tl, th).over = ((tl % Radix) + 1 = Radix)
  BY <1>1
<1> QED BY <1>2, <1>3, Zenon

\* In mode 3.
LEMMA CountedBytes3 ==
  ASSUME NEW tl \in 0 .. Radix - 1, NEW th
  PROVE  LET t == Counted(3, tl, th)
         IN  /\ t.tl = (tl + 1) % Radix
             /\ t.th = th
             /\ t.over <=> tl + 1 = Radix
             /\ t.over \in BOOLEAN
<1>1. Counted(3, tl, th) =
        LET low == (tl % Radix) + 1
        IN  [tl |-> low % Radix, th |-> th, over |-> low = Radix]
  BY SMT DEF Counted
<1>2. tl % Radix = tl BY Numbers, SmallMod, SMT
<1>3. /\ Counted(3, tl, th).tl = ((tl % Radix) + 1) % Radix
      /\ Counted(3, tl, th).th = th
      /\ Counted(3, tl, th).over = ((tl % Radix) + 1 = Radix)
  BY <1>1
<1> QED BY <1>2, <1>3, Zenon

\* A count of a timer is a count of its value.
LEMMA CountedIs ==
  ASSUME NEW mode \in 0 .. 3, NEW tl \in 0 .. Radix - 1, NEW th \in 0 .. Radix - 1
  PROVE  LET t == Counted(mode, tl, th)
             was == Value(mode, tl, th)
             now == Value(mode, t.tl, t.th)
         IN  /\ t.tl \in 0 .. Radix - 1 /\ t.th \in 0 .. Radix - 1 /\ t.over \in BOOLEAN
             /\ was = Size(mode) - 1 => t.over /\ now = Back(mode, th)
             /\ was # Size(mode) - 1 => ~t.over /\ now = was + 1
             /\ mode \in {2, 3} => t.th = th
<1> DEFINE t == Counted(mode, tl, th)  f == (th + 1) % Radix
<1>0. /\ f \in 0 .. Radix - 1
      /\ th = Radix - 1 => f = 0
      /\ th # Radix - 1 => f = th + 1
  BY Numbers, WrapMod, SMT
<1>1. CASE mode = 0
  <2> DEFINE b == tl % Low13  e == (b + 1) % Low13  next == tl - b + e
  <2>1. b \in 0 .. Low13 - 1 BY Numbers, DivMod, SMT
  <2>2. /\ b = Low13 - 1 => e = 0
        /\ b # Low13 - 1 => e = b + 1
    <3>1. Low13 \in Nat \ {0} BY Numbers, SMT
    <3>2. e = IF b = Low13 - 1 THEN 0 ELSE b + 1 BY <2>1, <3>1, WrapMod, Zenon
    <3> QED BY <3>2, Zenon
  <2>3. next \in 0 .. Radix - 1 /\ next % Low13 = e
    <3>1. Low13 \in Nat \ {0} BY Numbers, SMT
    <3> QED BY <3>1, Low13Divides, LowCount, Zenon
  <2>4. /\ t.tl = next
        /\ b + 1 = Low13 => t.th = f
        /\ b + 1 # Low13 => t.th = th
        /\ t.over <=> b + 1 = Low13 /\ th = Radix - 1
        /\ t.over \in BOOLEAN
    BY <1>1, CountedBytes0, Zenon
  <2>5. \A x, y : Value(mode, x, y) = (x % Low13) + Low13 * y /\ Size(mode) = Low13 * Radix
    BY <1>1, SMT DEF Value, Size
  <2>6. Back(mode, th) = 0 BY <1>1 DEF Back
  <2>7. /\ b = Low13 - 1 /\ th = Radix - 1 => b + Low13 * th = Low13 * Radix - 1
        /\ b = Low13 - 1 /\ th # Radix - 1 =>
             b + Low13 * th # Low13 * Radix - 1 /\ 0 + Low13 * (th + 1) = b + Low13 * th + 1
        /\ b # Low13 - 1 =>
             b + Low13 * th # Low13 * Radix - 1 /\ (b + 1) + Low13 * th = b + Low13 * th + 1
    <3> HIDE DEF b
    <3> QED BY <2>1, TwoBytes, Numbers
  <2>8. b + 1 = Low13 <=> b = Low13 - 1 BY <2>1, Numbers, SMT
  <2>9. Value(mode, tl, th) = b + Low13 * th /\ Value(mode, t.tl, t.th) = e + Low13 * t.th
    <3>1. Value(mode, t.tl, t.th) = (t.tl % Low13) + Low13 * t.th BY <2>5, Zenon
    <3>2. t.tl % Low13 = e BY <2>3, <2>4, Zenon
    <3>3. Value(mode, tl, th) = (tl % Low13) + Low13 * th BY <2>5, Zenon
    <3> QED BY <3>1, <3>2, <3>3, Zenon
  <2>10. 0 + Low13 * 0 = 0 BY Numbers, SMT
  <2>11. mode \notin {2, 3} BY <1>1
  <2> HIDE DEF b, e, f, next, t
  <2>12. CASE b = Low13 - 1 /\ th = Radix - 1
    <3>1. e = 0 /\ f = 0 /\ t.th = f /\ t.over BY <1>0, <2>2, <2>4, <2>8, <2>12, Zenon
    <3>2. Value(mode, tl, th) = Size(mode) - 1 BY <2>5, <2>7, <2>9, <2>12, Zenon
    <3>3. Value(mode, t.tl, t.th) = 0 BY <2>9, <2>10, <3>1, Zenon
    <3> QED BY <1>0, <2>3, <2>4, <2>6, <2>11, <3>1, <3>2, <3>3, Zenon DEF t
  <2>13. CASE b = Low13 - 1 /\ th # Radix - 1
    <3>1. e = 0 /\ f = th + 1 /\ t.th = f /\ ~t.over BY <1>0, <2>2, <2>4, <2>8, <2>13, Zenon
    <3>2. Value(mode, tl, th) # Size(mode) - 1 BY <2>5, <2>7, <2>9, <2>13, Zenon
    <3>3. Value(mode, t.tl, t.th) = Value(mode, tl, th) + 1 BY <2>7, <2>9, <2>13, <3>1, Zenon
    <3> QED BY <1>0, <2>3, <2>4, <2>11, <3>1, <3>2, <3>3, Zenon DEF t
  <2>14. CASE b # Low13 - 1
    <3>1. e = b + 1 /\ t.th = th /\ ~t.over BY <2>2, <2>4, <2>8, <2>14, Zenon
    <3>2. Value(mode, tl, th) # Size(mode) - 1 BY <2>5, <2>7, <2>9, <2>14, Zenon
    <3>3. Value(mode, t.tl, t.th) = Value(mode, tl, th) + 1 BY <2>7, <2>9, <2>14, <3>1, Zenon
    <3> QED BY <2>3, <2>4, <2>11, <3>1, <3>2, <3>3, Zenon DEF t
  <2> QED BY <2>12, <2>13, <2>14
<1>2. CASE mode = 1
  <2> DEFINE e == (tl + 1) % Radix
  <2>2. /\ e \in 0 .. Radix - 1
        /\ tl = Radix - 1 => e = 0
        /\ tl # Radix - 1 => e = tl + 1
    BY Numbers, WrapMod, SMT
  <2>4. /\ t.tl = e
        /\ tl + 1 = Radix => t.th = f
        /\ tl + 1 # Radix => t.th = th
        /\ t.over <=> tl + 1 = Radix /\ th = Radix - 1
        /\ t.over \in BOOLEAN
    BY <1>2, CountedBytes1, Zenon
  <2>5. \A x, y : Value(mode, x, y) = x + Radix * y /\ Size(mode) = Radix * Radix
    BY <1>2, SMT DEF Value, Size
  <2>6. Back(mode, th) = 0 BY <1>2 DEF Back
  <2>7. /\ tl = Radix - 1 /\ th = Radix - 1 => tl + Radix * th = Radix * Radix - 1
        /\ tl = Radix - 1 /\ th # Radix - 1 =>
             tl + Radix * th # Radix * Radix - 1 /\ 0 + Radix * (th + 1) = tl + Radix * th + 1
        /\ tl # Radix - 1 =>
             tl + Radix * th # Radix * Radix - 1 /\ (tl + 1) + Radix * th = tl + Radix * th + 1
    BY TwoBytes, Numbers
  <2>8. tl + 1 = Radix <=> tl = Radix - 1 BY Numbers, SMT
  <2>9. Value(mode, tl, th) = tl + Radix * th /\ Value(mode, t.tl, t.th) = e + Radix * t.th
    BY <2>4, <2>5, Zenon
  <2>10. 0 + Radix * 0 = 0 BY Numbers, SMT
  <2>11. mode \notin {2, 3} BY <1>2
  <2> HIDE DEF e, f, t
  <2>12. CASE tl = Radix - 1 /\ th = Radix - 1
    <3>1. e = 0 /\ f = 0 /\ t.th = f /\ t.over BY <1>0, <2>2, <2>4, <2>8, <2>12, Zenon
    <3>2. Value(mode, tl, th) = Size(mode) - 1 BY <2>5, <2>7, <2>9, <2>12, Zenon
    <3>3. Value(mode, t.tl, t.th) = 0 BY <2>9, <2>10, <3>1, Zenon
    <3> QED BY <1>0, <2>2, <2>4, <2>6, <2>11, <3>1, <3>2, <3>3, Zenon DEF t
  <2>13. CASE tl = Radix - 1 /\ th # Radix - 1
    <3>1. e = 0 /\ f = th + 1 /\ t.th = f /\ ~t.over BY <1>0, <2>2, <2>4, <2>8, <2>13, Zenon
    <3>2. Value(mode, tl, th) # Size(mode) - 1 BY <2>5, <2>7, <2>9, <2>13, Zenon
    <3>3. Value(mode, t.tl, t.th) = Value(mode, tl, th) + 1 BY <2>7, <2>9, <2>13, <3>1, Zenon
    <3> QED BY <1>0, <2>2, <2>4, <2>11, <3>1, <3>2, <3>3, Zenon DEF t
  <2>14. CASE tl # Radix - 1
    <3>1. e = tl + 1 /\ t.th = th /\ ~t.over BY <2>2, <2>4, <2>8, <2>14, Zenon
    <3>2. Value(mode, tl, th) # Size(mode) - 1 BY <2>5, <2>7, <2>9, <2>14, Zenon
    <3>3. Value(mode, t.tl, t.th) = Value(mode, tl, th) + 1 BY <2>7, <2>9, <2>14, <3>1, Zenon
    <3> QED BY <2>2, <2>4, <2>11, <3>1, <3>2, <3>3, Zenon DEF t
  <2> QED BY <2>12, <2>13, <2>14
<1>3. CASE mode = 2
  <2>1. /\ tl + 1 = Radix => t.tl = th
        /\ tl + 1 # Radix => t.tl = tl + 1
        /\ t.th = th
        /\ t.over <=> tl + 1 = Radix
        /\ t.over \in BOOLEAN
    BY <1>3, CountedBytes2, Zenon
  <2>2. tl + 1 = Radix <=> tl = Radix - 1 BY Numbers, SMT
  <2>3. tl + 1 # Radix => tl + 1 \in 0 .. Radix - 1 BY Numbers, SMT
  <2>4. \A x, y : Value(mode, x, y) = x /\ Size(mode) = Radix
    BY <1>3, SMT DEF Value, Size
  <2>5. Value(mode, tl, th) = tl /\ Value(mode, t.tl, t.th) = t.tl /\ Size(mode) = Radix
    BY <2>4, Zenon
  <2>6. Back(mode, th) = th BY <1>3, Zenon DEF Back
  <2> HIDE DEF f, t
  <2>7. CASE tl = Radix - 1 BY <2>1, <2>2, <2>5, <2>6, <2>7, Zenon DEF t
  <2>8. CASE tl # Radix - 1 BY <2>1, <2>2, <2>3, <2>5, <2>8, Zenon DEF t
  <2> QED BY <2>7, <2>8
<1>4. CASE mode = 3
  <2> DEFINE e == (tl + 1) % Radix
  <2>1. /\ e \in 0 .. Radix - 1
        /\ tl = Radix - 1 => e = 0
        /\ tl # Radix - 1 => e = tl + 1
    <3>1. Radix \in Nat \ {0} BY Numbers, SMT
    <3>2. e = IF tl = Radix - 1 THEN 0 ELSE tl + 1 BY <3>1, WrapMod, Zenon
    <3> QED BY <3>1, <3>2, SMT
  <2>2. /\ t.tl = e
        /\ t.th = th
        /\ t.over <=> tl + 1 = Radix
        /\ t.over \in BOOLEAN
    BY <1>4, CountedBytes3, Zenon
  <2>3. tl + 1 = Radix <=> tl = Radix - 1 BY Numbers, SMT
  <2>4. \A x, y : Value(mode, x, y) = x /\ Size(mode) = Radix
    BY <1>4, SMT DEF Value, Size
  <2>5. Value(mode, tl, th) = tl /\ Value(mode, t.tl, t.th) = t.tl /\ Size(mode) = Radix
    BY <2>4, Zenon
  <2>6. Back(mode, th) = 0 BY <1>4, SMT DEF Back
  <2> HIDE DEF e, f, t
  <2>7. CASE tl = Radix - 1 BY <2>1, <2>2, <2>3, <2>5, <2>6, <2>7, Zenon DEF t
  <2>8. CASE tl # Radix - 1 BY <2>1, <2>2, <2>3, <2>5, <2>8, Zenon DEF t
  <2> QED BY <2>7, <2>8
<1>5. mode = 0 \/ mode = 1 \/ mode = 2 \/ mode = 3 BY SMT
<1> QED BY <1>1, <1>2, <1>3, <1>4, <1>5, Zenon

\* What the closed forms say, as counting on from the anchor's value.
LEMMA AfterIs ==
  ASSUME NEW mode \in 0 .. 3, NEW tl \in 0 .. Radix - 1, NEW th \in 0 .. Radix - 1, NEW n \in Nat
  PROVE  LET v == Value(mode, tl, th)
         IN  /\ After(mode, tl, th, n) = CountFrom(v, Size(mode), Back(mode, th), n)
             /\ Wraps(mode, tl, th, n) = OverFrom(v, Size(mode), Back(mode, th), n)
<1> DEFINE v == Value(mode, tl, th)  z == Size(mode)
<1>1. z \in Nat \ {0} /\ v \in 0 .. z - 1 BY ValueIn
<1>2. mode = 2 => z = Radix BY SMT DEF Size
<1>3. /\ After(mode, tl, th, n) =
           CASE n < z - v -> v + n
             [] n >= z - v /\ mode = 2 -> th + ((n - (z - v)) % (Radix - th))
             [] n >= z - v /\ mode # 2 -> (n - (z - v)) % z
      /\ Wraps(mode, tl, th, n) =
           IF n < z - v THEN 0 ELSE 1 + (n - (z - v)) \div (IF mode = 2 THEN Radix - th ELSE z)
  BY Zenon DEF After, Wraps
<1> HIDE DEF v, z
<1>4. CASE n < z - v
  <2>1. ~(n >= z - v) BY <1>1, <1>4, SMT
  <2> QED BY <1>3, <1>4, <2>1, Zenon DEF CountFrom, OverFrom, v, z
<1>5. CASE ~(n < z - v)
  <2> DEFINE r == n - (z - v)
  <2>1. n >= z - v /\ r \in Nat BY <1>1, <1>5, SMT
  <2>2. CASE mode = 2
    <3>1. Back(mode, th) = th BY <2>2 DEF Back
    <3>2. After(mode, tl, th, n) = th + (r % (Radix - th)) /\ Wraps(mode, tl, th, n) = 1 + r \div (Radix - th)
      BY <1>3, <1>5, <2>1, <2>2, Zenon
    <3>3. /\ CountFrom(v, z, th, n) = th + (r % (z - th))
          /\ OverFrom(v, z, th, n) = 1 + r \div (z - th)
      BY <1>5, CountPast
    <3>4. z - th = Radix - th BY <1>2, <2>2, Zenon
    <3> QED BY <3>1, <3>2, <3>3, <3>4, Zenon DEF v, z
  <2>3. CASE mode # 2
    <3>1. Back(mode, th) = 0 BY <2>3 DEF Back
    <3>2. After(mode, tl, th, n) = r % z /\ Wraps(mode, tl, th, n) = 1 + r \div z
      BY <1>3, <1>5, <2>1, <2>3, Zenon
    <3>3. z - 0 = z /\ 0 + (r % z) = r % z
      <4>1. r % z \in Int BY <1>1, <2>1, DivMod, SMT
      <4> QED BY <1>1, <4>1, SMT
    <3>4. /\ CountFrom(v, z, 0, n) = 0 + (r % (z - 0))
          /\ OverFrom(v, z, 0, n) = 1 + r \div (z - 0)
      BY <1>5, CountPast
    <3> QED BY <3>1, <3>2, <3>3, <3>4, Zenon DEF v, z
  <2> QED BY <2>2, <2>3
<1> QED BY <1>4, <1>5

-----------------------------------------------------------------------------
(* What each stage of a clock does.                                        *)

\* A machine is typed when what changed is.
LEMMA TypedBeside ==
  ASSUME NEW s, NEW t, NEW S, Typed(s), Beside(s, t, S), \A x \in S \cap Fields : t[x] \in Held[x]
  PROVE  Typed(t)
  BY Zenon DEF Typed, Beside

\* The field a stage leaves alone.
LEMMA BesideField ==
  ASSUME NEW s, NEW t, NEW S, Typed(s), Beside(s, t, S), NEW x \in Fields, x \notin S
  PROVE  t[x] = s[x]
  BY Zenon DEF Typed, Beside

\* A prescaler's next phase.
LEMMA PrescaledIs == ASSUME NEW n \in 0 .. Machine - 1
  PROVE  /\ Prescaled(n) \in 0 .. Machine - 1
         /\ Prescaled(n) = IF n + 1 = Machine THEN 0 ELSE n + 1
  BY Numbers, WrapMod, SMT DEF Prescaled

\* Timer 0.
LEMMA Timer0Effect ==
  ASSUME NEW s, Typed(s)
  PROVE  LET r == Timer0Tick(s)
             t == Counted(s.mode0, s.tl0, s.th0)
             split == s.mode0 = 3 /\ s.tr1
         IN  /\ r.timer0_prescaler = IF s.t0x12 THEN s.timer0_prescaler ELSE Prescaled(s.timer0_prescaler)
             /\ Timer0Due(s) /\ Timer0Runs(s) =>
                  /\ r.tl0 = t.tl
                  /\ r.th0 = IF split THEN (t.th + 1) % Radix ELSE t.th
                  /\ r.tf0 = (s.tf0 \/ t.over)
                  /\ r.tf1 = (s.tf1 \/ (split /\ t.th = Radix - 1))
             /\ ~(Timer0Due(s) /\ Timer0Runs(s)) =>
                  r.tl0 = s.tl0 /\ r.th0 = s.th0 /\ r.tf0 = s.tf0 /\ r.tf1 = s.tf1
<1>1. {"timer0_prescaler", "tl0", "tf0", "th0", "tf1"} \subseteq DOMAIN s BY IsField, SMT DEF Typed
<1> QED BY <1>1, Zenon DEF Timer0Tick

\* Timer 1.
LEMMA Timer1Effect ==
  ASSUME NEW s, Typed(s)
  PROVE  LET r == Timer1Tick(s)
             t == Counted(s.mode1, s.tl1, s.th1)
             due == s.t1x12 \/ s.timer1_prescaler + 1 = Machine
             runs == ~s.gate1 /\ s.tr1 /\ ~s.ct1 /\ s.mode1 # 3
         IN  /\ r.timer1_prescaler = IF s.t1x12 THEN s.timer1_prescaler ELSE Prescaled(s.timer1_prescaler)
             /\ due /\ runs => r.tl1 = t.tl /\ r.th1 = t.th /\ r.tf1 = (s.tf1 \/ (t.over /\ s.mode0 # 3))
             /\ ~(due /\ runs) => r.tl1 = s.tl1 /\ r.th1 = s.th1 /\ r.tf1 = s.tf1
<1>1. {"timer1_prescaler", "tl1", "th1", "tf1"} \subseteq DOMAIN s BY IsField, SMT DEF Typed
<1> QED BY <1>1, Zenon DEF Timer1Tick

\* Timer 0 keeps the types.
LEMMA Timer0Typed == ASSUME NEW s, Typed(s) PROVE Typed(Timer0Tick(s))
<1> DEFINE r == Timer0Tick(s)  t == Counted(s.mode0, s.tl0, s.th0)
<1>1. /\ s.mode0 \in 0 .. 3 /\ s.tl0 \in 0 .. Radix - 1 /\ s.th0 \in 0 .. Radix - 1
      /\ s.timer0_prescaler \in 0 .. Machine - 1 /\ s.tf0 \in BOOLEAN /\ s.tf1 \in BOOLEAN
  BY TimerIs, Zenon
<1>2. t.tl \in 0 .. Radix - 1 /\ t.th \in 0 .. Radix - 1 /\ t.over \in BOOLEAN
  BY <1>1, CountedIs, Zenon
<1>9. \A h \in 0 .. Radix - 1 : (h + 1) % Radix \in 0 .. Radix - 1 BY Numbers, DivMod, SMT
<1>3. (t.th + 1) % Radix \in 0 .. Radix - 1 BY <1>2, <1>9, Zenon
<1>4. r.timer0_prescaler \in 0 .. Machine - 1 BY <1>1, PrescaledIs, Timer0Effect, Zenon
<1>5. r.tl0 \in 0 .. Radix - 1 /\ r.th0 \in 0 .. Radix - 1
  BY <1>1, <1>2, <1>3, Timer0Effect, Zenon
<1>6. r.tf0 \in BOOLEAN /\ r.tf1 \in BOOLEAN BY <1>1, <1>2, Timer0Effect, Zenon
<1>7. /\ r["tl0"] \in Held["tl0"] /\ r["th0"] \in Held["th0"] /\ r["tf0"] \in Held["tf0"]
      /\ r["tf1"] \in Held["tf1"] /\ r["timer0_prescaler"] \in Held["timer0_prescaler"]
  BY <1>4, <1>5, <1>6, TimerHeld, Zenon
<1> HIDE DEF r
<1>8. \A x \in {"timer0_prescaler", "tl0", "tf0", "th0", "tf1"} \cap Fields : r[x] \in Held[x]
  BY <1>7, SMT
<1> QED BY <1>8, Timer0Beside, TypedBeside, Zenon DEF r

\* So does Timer 1.
LEMMA Timer1Typed == ASSUME NEW s, Typed(s) PROVE Typed(Timer1Tick(s))
<1> DEFINE r == Timer1Tick(s)  t == Counted(s.mode1, s.tl1, s.th1)
<1>1. /\ s.mode1 \in 0 .. 3 /\ s.tl1 \in 0 .. Radix - 1 /\ s.th1 \in 0 .. Radix - 1
      /\ s.timer1_prescaler \in 0 .. Machine - 1 /\ s.tf1 \in BOOLEAN
  BY TimerIs, Zenon
<1>2. t.tl \in 0 .. Radix - 1 /\ t.th \in 0 .. Radix - 1 /\ t.over \in BOOLEAN
  BY <1>1, CountedIs, Zenon
<1>4. r.timer1_prescaler \in 0 .. Machine - 1 BY <1>1, PrescaledIs, Timer1Effect, Zenon
<1>5. r.tl1 \in 0 .. Radix - 1 /\ r.th1 \in 0 .. Radix - 1 /\ r.tf1 \in BOOLEAN
  BY <1>1, <1>2, Timer1Effect, Zenon
<1>7. /\ r["tl1"] \in Held["tl1"] /\ r["th1"] \in Held["th1"] /\ r["tf1"] \in Held["tf1"]
      /\ r["timer1_prescaler"] \in Held["timer1_prescaler"]
  BY <1>4, <1>5, TimerHeld, Zenon
<1> HIDE DEF r
<1>8. \A x \in {"timer1_prescaler", "tl1", "th1", "tf1"} \cap Fields : r[x] \in Held[x]
  BY <1>7, SMT
<1> QED BY <1>8, Timer1Beside, TypedBeside, Zenon DEF r

\* A 16-bit counter.
LEMMA WordCounts == ASSUME NEW v \in 0 .. Radix * Radix - 1
  PROVE  /\ Radix * Radix \in Nat \ {0} /\ 0 \in 0 .. Radix * Radix - 1
         /\ (v + 1) % (Radix * Radix) \in 0 .. Radix * Radix - 1
         /\ v + 1 # Radix * Radix => v + 1 \in 0 .. Radix * Radix - 1
<1>1. Radix * Radix \in Nat \ {0} BY Numbers, SMT
<1> DEFINE w == Radix * Radix
<1> HIDE DEF w
<1>2. w \in Nat \ {0} BY <1>1 DEF w
<1>4. 0 \in 0 .. w - 1 BY <1>2, SMT
<1>3. \A u \in 0 .. w - 1 : (u + 1) % w \in 0 .. w - 1 /\ (u + 1 # w => u + 1 \in 0 .. w - 1)
  BY <1>2, DivMod, SMT
<1> QED BY <1>1, <1>3, <1>4 DEF w

\* The baud-rate timer keeps the types.
LEMMA BrtTyped == ASSUME NEW s, Typed(s) PROVE Typed(BrtTick(s))
<1> DEFINE r == BrtTick(s)
<1>1. s.brt_prescaler \in 0 .. Machine - 1 /\ s.t2 \in 0 .. Radix * Radix - 1 BY BaudIs, Zenon
<1>2. "brt_prescaler" \in DOMAIN s /\ "t2" \in DOMAIN s BY IsField, Zenon DEF Typed
<1>3. r.brt_prescaler = s.brt_prescaler \/ r.brt_prescaler = Prescaled(s.brt_prescaler)
  BY <1>2, Zenon DEF BrtTick
<1>4. r.t2 = s.t2 \/ r.t2 = (s.t2 + 1) % (Radix * Radix) BY <1>2, Zenon DEF BrtTick
<1>5. r["brt_prescaler"] \in Held["brt_prescaler"] /\ r["t2"] \in Held["t2"]
  BY <1>1, <1>3, <1>4, PrescaledIs, WordCounts, BaudHeld, Zenon
<1> HIDE DEF r
<1>6. \A x \in {"brt_prescaler", "t2"} \cap Fields : r[x] \in Held[x] BY <1>5, SMT
<1> QED BY <1>6, BrtBeside, TypedBeside, Zenon DEF r

\* The STC89's Timer 2.
LEMMA Timer2Effect ==
  ASSUME NEW s, Typed(s)
  PROVE  LET r == Timer2Tick(s)
             due == s.tr2 /\ s.osc_clocks % Machine = 0
             over == s.t2 + 1 = Radix * Radix
         IN  /\ due /\ ~over => r.t2 = s.t2 + 1 /\ r.tf2 = (s.tf2 \/ (over /\ ~s.baud2))
             /\ due /\ over => /\ r.t2 = (IF s.cp THEN 0 ELSE s.rcap2)
                               /\ r.tf2 = (s.tf2 \/ (over /\ ~s.baud2))
             /\ ~due => r.t2 = s.t2 /\ r.tf2 = s.tf2
<1>1. "t2" \in DOMAIN s /\ "tf2" \in DOMAIN s BY IsField, Zenon DEF Typed
<1> QED BY <1>1, Zenon DEF Timer2Tick

\* It keeps the types.
LEMMA Timer2Typed == ASSUME NEW s, Typed(s) PROVE Typed(Timer2Tick(s))
<1> DEFINE r == Timer2Tick(s)
<1>1. /\ s.t2 \in 0 .. Radix * Radix - 1 /\ s.rcap2 \in 0 .. Radix * Radix - 1
      /\ s.tf2 \in BOOLEAN /\ s.baud2 \in BOOLEAN
  BY BaudIs, Zenon
<1>2. 0 \in 0 .. Radix * Radix - 1 BY <1>1, WordCounts, Zenon
<1>3. s.t2 + 1 # Radix * Radix => s.t2 + 1 \in 0 .. Radix * Radix - 1 BY <1>1, WordCounts, Zenon
<1>4. r.t2 \in 0 .. Radix * Radix - 1 /\ r.tf2 \in BOOLEAN
  BY <1>1, <1>2, <1>3, Timer2Effect, Zenon
<1>5. r["t2"] \in Held["t2"] /\ r["tf2"] \in Held["tf2"] BY <1>4, BaudHeld, Zenon
<1> HIDE DEF r
<1>6. \A x \in {"t2", "tf2"} \cap Fields : r[x] \in Held[x] BY <1>5, SMT
<1> QED BY <1>6, Timer2Beside, TypedBeside, Zenon DEF r

\* A pin driven.
LEMMA LatchPut ==
  ASSUME NEW f \in [Pin -> 0 .. 1], NEW p \in Pin, NEW v \in 0 .. 1
  PROVE  [f EXCEPT ![p] = v] \in [Pin -> 0 .. 1]
  OBVIOUS

\* Or toggled.
LEMMA ToggledTyped ==
  ASSUME NEW s, Typed(s), NEW p \in Pin
  PROVE  /\ Typed(Toggled(s, p))
         /\ Toggled(s, p).latch = [s.latch EXCEPT ![p] = 1 - s.latch[p]]
         /\ Beside(s, Toggled(s, p), {"latch"})
<1> DEFINE r == Toggled(s, p)
<1>1. s.latch \in [Pin -> 0 .. 1] BY BaudIs, Zenon
<1>2. 1 - s.latch[p] \in 0 .. 1
  <2>1. \A b \in 0 .. 1 : 1 - b \in 0 .. 1 BY SMT
  <2>2. s.latch[p] \in 0 .. 1 BY <1>1
  <2> QED BY <2>1, <2>2, Zenon
<1>3. "latch" \in DOMAIN s BY IsField, Zenon DEF Typed
<1>4. r.latch = [s.latch EXCEPT ![p] = 1 - s.latch[p]] BY <1>3, Zenon DEF Toggled
<1>5. r.latch \in [Pin -> 0 .. 1] BY <1>1, <1>2, <1>4, LatchPut, Zenon
<1>6. Beside(s, r, {"latch"}) BY Zenon DEF Toggled, Beside
<1>7. r["latch"] \in Held["latch"] BY <1>5, BaudHeld, Zenon
<1> HIDE DEF r
<1>8. \A x \in {"latch"} \cap Fields : r[x] \in Held[x] BY <1>7, Zenon
<1>9. Typed(r) BY <1>6, <1>8, TypedBeside, Zenon
<1> QED BY <1>4, <1>6, <1>9 DEF r

\* The pins of the clock outputs.
LEMMA ClockPins == <<3, 5>> \in Pin /\ <<3, 4>> \in Pin
  BY SMT DEF Pin

\* Timer 0's clock output keeps the types, and notes the overflow for the PCA.
LEMMA ClockOut0Typed ==
  ASSUME NEW s, Typed(s), NEW o \in BOOLEAN
  PROVE  /\ Typed(ClockOut0(s, o))
         /\ ClockOut0(s, o).pca_t0_overflow_pending = (s.pca_t0_overflow_pending \/ o)
<1> DEFINE t == [s EXCEPT !.pca_t0_overflow_pending = @ \/ o]
<1>1. "pca_t0_overflow_pending" \in DOMAIN s /\ s.pca_t0_overflow_pending \in BOOLEAN
  BY IsField, PcaIs, Zenon DEF Typed
<1>2. t.pca_t0_overflow_pending = (s.pca_t0_overflow_pending \/ o) BY <1>1, Zenon
<1>3. Beside(s, t, {"pca_t0_overflow_pending"}) BY Zenon DEF Beside
<1>4. t["pca_t0_overflow_pending"] \in Held["pca_t0_overflow_pending"] BY <1>1, <1>2, PcaHeld, Zenon
<1> HIDE DEF t
<1>5. \A x \in {"pca_t0_overflow_pending"} \cap Fields : t[x] \in Held[x] BY <1>4, Zenon
<1>6. Typed(t) BY <1>3, <1>5, TypedBeside, Zenon
<1>7. CASE o /\ s.part = "STC15" /\ s.t0clko
  <2>1. ClockOut0(s, o) = Toggled(t, <<3, 5>>) BY <1>7, Zenon DEF ClockOut0, t
  <2>2. "pca_t0_overflow_pending" # "latch" OBVIOUS
  <2>3. Toggled(t, <<3, 5>>).pca_t0_overflow_pending = t.pca_t0_overflow_pending
    <3>1. Beside(t, Toggled(t, <<3, 5>>), {"latch"}) BY <1>6, ClockPins, ToggledTyped, Zenon
    <3>2. "pca_t0_overflow_pending" \notin {"latch"} BY <2>2
    <3>3. "pca_t0_overflow_pending" \in Fields BY IsField
    <3>4. Toggled(t, <<3, 5>>)["pca_t0_overflow_pending"] = t["pca_t0_overflow_pending"]
      BY <1>6, <3>1, <3>2, <3>3, BesideField, Zenon
    <3> QED BY <3>4
  <2> QED BY <1>2, <1>6, <2>1, <2>3, ClockPins, ToggledTyped, Zenon
<1>8. CASE ~(o /\ s.part = "STC15" /\ s.t0clko)
  <2>1. ClockOut0(s, o) = t BY <1>8, Zenon DEF ClockOut0, t
  <2> QED BY <1>2, <1>6, <2>1, Zenon
<1> QED BY <1>7, <1>8

\* Timer 1's clock output keeps the types.
LEMMA ClockOut1Typed == ASSUME NEW s, Typed(s) PROVE Typed(ClockOut1(s))
<1>1. CASE ~(s.part = "STC15" /\ s.t1clko) BY <1>1, Zenon DEF ClockOut1
<1>2. CASE s.part = "STC15" /\ s.t1clko
  <2> DEFINE t == IF s.tf1 /\ ~s.last_tf1 THEN Toggled(s, <<3, 4>>) ELSE s
             r == [t EXCEPT !.last_tf1 = s.tf1]
  <2>1. Typed(t) BY ClockPins, ToggledTyped, Zenon
  <2>2. s.tf1 \in BOOLEAN BY TimerIs, Zenon
  <2>3. ClockOut1(s) = r BY <1>2, Zenon DEF ClockOut1
  <2> HIDE DEF t
  <2>4. "last_tf1" \in DOMAIN t BY <2>1, IsField, Zenon DEF Typed
  <2>5. r["last_tf1"] \in Held["last_tf1"] BY <2>2, <2>4, BaudHeld, Zenon
  <2>6. Beside(t, r, {"last_tf1"}) BY Zenon DEF Beside
  <2> HIDE DEF r
  <2>7. \A x \in {"last_tf1"} \cap Fields : r[x] \in Held[x] BY <2>5, Zenon
  <2> QED BY <2>1, <2>3, <2>6, <2>7, TypedBeside, Zenon
<1> QED BY <1>1, <1>2

\* What goes into the two result registers.
AdcHigh(s, v) == IF s.adrj THEN v \div 256 ELSE v \div 4
AdcLow(s, v) == IF s.adrj THEN v % 256 ELSE v % 4

\* The ADC.
LEMMA AdcEffect ==
  ASSUME NEW s, Typed(s), NEW counts
  PROVE  LET r == AdcTick(s, counts)
             v == Result(s, counts)
         IN  /\ s.adc_countdown = 0 => r = s
             /\ s.adc_countdown = 1 =>
                  /\ r.adc_countdown = s.adc_countdown - 1 /\ r.flag = TRUE /\ r.start = FALSE
                  /\ r.adc_res = AdcHigh(s, v) /\ r.adc_resl = AdcLow(s, v)
             /\ s.adc_countdown # 0 /\ s.adc_countdown # 1 =>
                  /\ r.adc_countdown = s.adc_countdown - 1 /\ r.flag = s.flag /\ r.start = s.start
                  /\ r.adc_res = s.adc_res /\ r.adc_resl = s.adc_resl
<1>1. {"adc_countdown", "flag", "start", "adc_res", "adc_resl"} \subseteq DOMAIN s
  BY IsField, SMT DEF Typed
<1>2. s.adc_countdown = 1 => s.adc_countdown # 0 BY SMT
<1> QED BY <1>1, <1>2, Zenon DEF AdcTick, AdcHigh, AdcLow

\* An ADC result fits the two registers and can be put together again.
LEMMA ResultFits == ASSUME NEW v \in 0 .. 1023
  PROVE  /\ v \div 256 \in 0 .. 255 /\ v % 256 \in 0 .. 255 /\ v = (v % 256) + 256 * (v \div 256)
         /\ v \div 4 \in 0 .. 255 /\ v % 4 \in 0 .. 255 /\ v = (v % 4) + 4 * (v \div 4)
  BY SMT

\* What the board puts on the analog inputs.
LEMMA ResultIs == ASSUME NEW s, Typed(s), NEW counts \in [Channel -> Counts]
  PROVE  Result(s, counts) \in 0 .. 1023
<1>1. s.chs \in Channel BY AdcIs, Zenon
<1>4. counts[s.chs] \in Counts BY <1>1
<1> DEFINE all == 0 .. 1023
<1>5. Counts \subseteq all BY WidthAssumption
<1>3. 0 \in all BY SMT
<1> HIDE DEF all
<1>2. counts[s.chs] \in all BY <1>4, <1>5, Zenon
<1>6. Result(s, counts) \in all BY <1>2, <1>3, Zenon DEF Result
<1> QED BY <1>6 DEF all

\* The ADC keeps the types.
LEMMA AdcTyped == ASSUME NEW s, Typed(s), NEW counts \in [Channel -> Counts]
  PROVE  Typed(AdcTick(s, counts))
<1> DEFINE r == AdcTick(s, counts)  v == Result(s, counts)
<1>1. /\ s.adc_countdown \in Held.adc_countdown /\ s.flag \in Held.flag /\ s.start \in Held.start
      /\ s.adc_res \in Held.adc_res /\ s.adc_resl \in Held.adc_resl
  BY IsField, Zenon DEF Typed
<1>2. AdcClocks[0] \in Nat BY WidthAssumption, SMT
<1>3. s.adc_countdown # 0 => s.adc_countdown - 1 \in Held.adc_countdown
  BY <1>1, <1>2, AdcHeld, SMT
<1>10. v \in 0 .. 1023 BY ResultIs
<1> HIDE DEF v
<1>4. AdcHigh(s, v) \in Held.adc_res /\ AdcLow(s, v) \in Held.adc_resl
  <2>1. v \div 256 \in 0 .. 255 /\ v % 256 \in 0 .. 255 /\ v \div 4 \in 0 .. 255 /\ v % 4 \in 0 .. 255
    BY <1>10, ResultFits
  <2>2. /\ AdcHigh(s, v) = v \div 256 \/ AdcHigh(s, v) = v \div 4
        /\ AdcLow(s, v) = v % 256 \/ AdcLow(s, v) = v % 4
    BY DEF AdcHigh, AdcLow
  <2> QED BY <2>1, <2>2, AdcHeld
<1>5. s.adc_countdown = 1 => s.adc_countdown # 0 BY SMT
<1>9. TRUE \in Held.flag /\ FALSE \in Held.start BY AdcHeld, Zenon
<1>6. CASE s.adc_countdown = 0 BY <1>6, AdcEffect, Zenon
<1>7. CASE s.adc_countdown = 1
  <2>1. /\ r.adc_countdown = s.adc_countdown - 1 /\ r.flag = TRUE /\ r.start = FALSE
        /\ r.adc_res = AdcHigh(s, v) /\ r.adc_resl = AdcLow(s, v)
    BY <1>7, AdcEffect, Zenon DEF v
  <2>2. /\ r["adc_countdown"] \in Held["adc_countdown"] /\ r["flag"] \in Held["flag"]
        /\ r["start"] \in Held["start"] /\ r["adc_res"] \in Held["adc_res"]
        /\ r["adc_resl"] \in Held["adc_resl"]
    BY <1>3, <1>4, <1>5, <1>7, <1>9, <2>1, Zenon
  <2> HIDE DEF r
  <2>3. \A x \in {"adc_countdown", "flag", "start", "adc_res", "adc_resl"} \cap Fields :
          r[x] \in Held[x]
    BY <2>2, SMT
  <2> QED BY <2>3, AdcBeside, TypedBeside, Zenon DEF r
<1>8. CASE s.adc_countdown # 0 /\ s.adc_countdown # 1
  <2>3. /\ r.adc_countdown = s.adc_countdown - 1 /\ r.flag = s.flag /\ r.start = s.start
        /\ r.adc_res = s.adc_res /\ r.adc_resl = s.adc_resl
    BY <1>8, AdcEffect, Zenon
  <2>1. /\ r["adc_countdown"] \in Held["adc_countdown"] /\ r["flag"] \in Held["flag"]
        /\ r["start"] \in Held["start"] /\ r["adc_res"] \in Held["adc_res"]
        /\ r["adc_resl"] \in Held["adc_resl"]
    BY <1>1, <1>3, <1>8, <2>3, Zenon
  <2> HIDE DEF r
  <2>2. \A x \in {"adc_countdown", "flag", "start", "adc_res", "adc_resl"} \cap Fields :
          r[x] \in Held[x]
    BY <2>1, SMT
  <2> QED BY <2>2, AdcBeside, TypedBeside, Zenon DEF r
<1> QED BY <1>6, <1>7, <1>8

-----------------------------------------------------------------------------
(* The PCA.                                                                *)

\* The pins of the modules a part has are pins, and no two modules share one.
LEMMA PcaPinIs ==
  ASSUME NEW s, Typed(s), NEW k \in Module, k < Modules(s.part)
  PROVE  /\ PcaPin(s, k) \in Pin
         /\ k = 0 => PcaPin(s, k) = IF s.pca_p4 THEN <<4, 2>> ELSE <<1, 3>>
         /\ k = 1 => PcaPin(s, k) = IF s.pca_p4 THEN <<4, 3>> ELSE <<1, 4>>
         /\ k = 2 => PcaPin(s, k) = <<3, 7>>
<1>1. s.pca_p4 \in BOOLEAN /\ s.part \in {"STC12", "STC15", "STC15W", "STC89"}
  BY PcaIs, OtherIs, Zenon
<1>2. k = 2 => s.part = "STC15" BY <1>1, SMT DEF Modules, Module
<1>3. k = 0 \/ k = 1 \/ k = 2 BY SMT DEF Module
<1>4. CASE k = 0
  <2>1. PcaPin(s, 0) = IF s.pca_p4 THEN <<4, 2>> ELSE <<1, 3>> BY <1>1, SMT DEF PcaPin
  <2> QED BY <1>4, <2>1, SMT DEF Pin
<1>5. CASE k = 1
  <2>1. PcaPin(s, 1) = IF s.pca_p4 THEN <<4, 3>> ELSE <<1, 4>> BY <1>1, SMT DEF PcaPin
  <2> QED BY <1>5, <2>1, SMT DEF Pin
<1>6. CASE k = 2
  <2>1. PcaPin(s, 2) = <<3, 7>> BY <1>2, <1>6, SMT DEF PcaPin
  <2> QED BY <1>6, <2>1, SMT DEF Pin
<1> QED BY <1>3, <1>4, <1>5, <1>6

\* No two modules share a pin.
LEMMA PinsDiffer ==
  ASSUME NEW s, Typed(s), NEW j \in Module, NEW k \in Module, j # k,
         j < Modules(s.part), k < Modules(s.part)
  PROVE  PcaPin(s, j) # PcaPin(s, k)
<1>1. /\ \A i \in Module : i = 0 \/ i = 1 \/ i = 2
      /\ <<4, 2>> # <<4, 3>> /\ <<1, 3>> # <<1, 4>> /\ <<4, 2>> # <<1, 4>> /\ <<1, 3>> # <<4, 3>>
      /\ <<4, 2>> # <<3, 7>> /\ <<1, 3>> # <<3, 7>> /\ <<4, 3>> # <<3, 7>> /\ <<1, 4>> # <<3, 7>>
  BY SMT DEF Module
<1> QED BY <1>1, PcaPinIs

\* What a module may change: its own compare values, its flags, its pin.
OnlyOf(s, r, k) ==
  /\ Beside(s, r, ModuleFields)
  /\ \A j \in Module \ {k} : r.ccapl[j] = s.ccapl[j] /\ r.ccaph[j] = s.ccaph[j]
  /\ \A p \in Pin \ {PcaPin(s, k)} : r.latch[p] = s.latch[p]

\* What is left alone by all of them.
LEMMA OnlyOfFields ==
  ASSUME NEW s, Typed(s), NEW r, NEW k, OnlyOf(s, r, k)
  PROVE  /\ r.cl = s.cl /\ r.ch = s.ch /\ r.cf = s.cf /\ r.part = s.part /\ r.pca_p4 = s.pca_p4
         /\ r.ccapm = s.ccapm /\ r.epch = s.epch
         /\ \A j : PcaPin(r, j) = PcaPin(s, j)
<1>1. \A x \in {"cl", "ch", "cf", "part", "pca_p4", "ccapm", "epch"} :
        x \in Fields /\ x \notin ModuleFields
  BY IsField, SMT DEF ModuleFields
<1>4. Beside(s, r, ModuleFields) BY Zenon DEF OnlyOf
<1>2. \A x \in {"cl", "ch", "cf", "part", "pca_p4", "ccapm", "epch"} : r[x] = s[x]
  BY <1>1, <1>4, BesideField, Zenon
<1>3. /\ r.cl = s.cl /\ r.ch = s.ch /\ r.cf = s.cf /\ r.part = s.part /\ r.pca_p4 = s.pca_p4
      /\ r.ccapm = s.ccapm /\ r.epch = s.epch
  BY <1>2, SMT
<1> QED BY <1>3, Zenon DEF PcaPin

\* One step of a module and another.
LEMMA OnlyOfThen ==
  ASSUME NEW s, Typed(s), NEW t, Typed(t), NEW u, NEW k, OnlyOf(s, t, k), OnlyOf(t, u, k)
  PROVE  OnlyOf(s, u, k)
<1>1. PcaPin(t, k) = PcaPin(s, k) BY OnlyOfFields, Zenon
<1>2. Beside(s, u, ModuleFields) BY Zenon DEF OnlyOf, Beside
<1> QED BY <1>1, <1>2, Zenon DEF OnlyOf

\* The reload of a PWM.
LEMMA ReloadedIs ==
  ASSUME NEW s, Typed(s), NEW k \in Module
  PROVE  /\ Typed(Reloaded(s, k)) /\ Beside(s, Reloaded(s, k), {"ccapl", "epcl"})
         /\ s.cl = 0 => Reloaded(s, k).ccapl = [s.ccapl EXCEPT ![k] = s.ccaph[k]]
         /\ s.cl # 0 => Reloaded(s, k) = s
<1>1. CASE s.cl # 0 BY <1>1, BesideSelf, Zenon DEF Reloaded
<1>2. CASE s.cl = 0
  <2> DEFINE r == [s EXCEPT !.ccapl[k] = s.ccaph[k], !.epcl[k] = s.epch[k]]
  <2>1. Reloaded(s, k) = r BY <1>2, Zenon DEF Reloaded
  <2>2. "ccapl" \in DOMAIN s /\ "epcl" \in DOMAIN s BY IsField, Zenon DEF Typed
  <2>3. r.ccapl = [s.ccapl EXCEPT ![k] = s.ccaph[k]] BY <2>2
  <2>4. r.epcl = [s.epcl EXCEPT ![k] = s.epch[k]] BY <2>2
  <2>5. Beside(s, r, {"ccapl", "epcl"}) BY Zenon DEF Beside
  <2> HIDE DEF r
  <2>6. /\ s.ccapl \in [Module -> 0 .. Radix - 1] /\ s.ccaph \in [Module -> 0 .. Radix - 1]
        /\ s.epcl \in [Module -> 0 .. 1] /\ s.epch \in [Module -> 0 .. 1]
    BY PcaIs, Zenon
  <2>7. r.ccapl \in [Module -> 0 .. Radix - 1] BY <2>3, <2>6, Zenon
  <2>8. r.epcl \in [Module -> 0 .. 1] BY <2>4, <2>6, Zenon
  <2>9. r["ccapl"] \in Held["ccapl"] /\ r["epcl"] \in Held["epcl"] BY <2>7, <2>8, PcaHeld, Zenon
  <2>10. \A x \in {"ccapl", "epcl"} \cap Fields : r[x] \in Held[x] BY <2>9, SMT
  <2> QED BY <1>2, <2>1, <2>3, <2>5, <2>10, TypedBeside, Zenon
<1> QED BY <1>1, <1>2

\* A PWM drives its pin by the compare value, reloaded where CL is 0.
LEMMA PwmIs ==
  ASSUME NEW s, Typed(s), NEW k \in Module, k < Modules(s.part)
  PROVE  LET r == Pwm(s, k)
         IN  /\ Typed(r) /\ OnlyOf(s, r, k)
             /\ r.ccapl[k] = IF s.cl = 0 THEN s.ccaph[k] ELSE s.ccapl[k]
             /\ r.ccaph = s.ccaph
             /\ r.latch[PcaPin(s, k)] = IF s.cl >= r.ccapl[k] THEN 1 ELSE 0
<1> DEFINE t == Reloaded(s, k)  p == PcaPin(s, k)  v == IF t.cl >= t.ccapl[k] THEN 1 ELSE 0
           r == [t EXCEPT !.latch[p] = v]
<1>1. Typed(t) /\ Beside(s, t, {"ccapl", "epcl"}) BY ReloadedIs, Zenon
<1>2. Pwm(s, k) = r BY Zenon DEF Pwm
<1>3. p \in Pin BY PcaPinIs, Zenon
<1>4. "latch" \in DOMAIN t BY <1>1, IsField, Zenon DEF Typed
<1>5. \A x \in {"cl", "ccaph", "latch"} : x \in Fields \ {"ccapl", "epcl"} BY IsField, SMT
<1>6. t["cl"] = s["cl"] /\ t["ccaph"] = s["ccaph"] /\ t["latch"] = s["latch"]
  BY <1>1, <1>5, BesideField, SMT
<1>7. s.ccapl \in [Module -> 0 .. Radix - 1] /\ s.latch \in [Pin -> 0 .. 1] BY PcaIs, BaudIs, Zenon
<1>8. /\ t.ccapl[k] = IF s.cl = 0 THEN s.ccaph[k] ELSE s.ccapl[k]
      /\ \A j \in Module \ {k} : t.ccapl[j] = s.ccapl[j]
  <2>1. CASE s.cl = 0
    <3>1. t.ccapl = [s.ccapl EXCEPT ![k] = s.ccaph[k]] BY <2>1, ReloadedIs, Zenon
    <3> HIDE DEF t
    <3> QED BY <1>7, <2>1, <3>1, Zenon
  <2>2. CASE s.cl # 0
    <3>1. t = s BY <2>2, ReloadedIs, Zenon
    <3> HIDE DEF t
    <3> QED BY <2>2, <3>1, Zenon
  <2> QED BY <2>1, <2>2
<1>10. v \in 0 .. 1 BY SMT
<1> HIDE DEF t, v, p
<1>11. r.latch = [t.latch EXCEPT ![p] = v] BY <1>4
<1>12. Beside(t, r, {"latch"}) BY Zenon DEF Beside
<1> HIDE DEF r
<1>13. r.latch \in [Pin -> 0 .. 1] BY <1>3, <1>6, <1>7, <1>10, <1>11, LatchPut, Zenon
<1>14. \A x \in {"latch"} \cap Fields : r[x] \in Held[x] BY <1>13, BaudHeld, Zenon
<1>15. Typed(r) BY <1>1, <1>12, <1>14, TypedBeside, Zenon
<1>16. \A x \in {"ccapl", "ccaph"} : x \in Fields /\ x \notin {"latch"} BY IsField, SMT
<1>17. r["ccapl"] = t["ccapl"] /\ r["ccaph"] = t["ccaph"] BY <1>1, <1>12, <1>16, BesideField, SMT
<1>18. Beside(s, r, ModuleFields)
  <2>1. Beside(s, r, {"ccapl", "epcl"} \cup {"latch"}) BY <1>1, <1>12, BesideThen, Zenon
  <2>2. {"ccapl", "epcl"} \cup {"latch"} \subseteq ModuleFields BY SMT DEF ModuleFields
  <2> QED BY <2>1, <2>2, BesideMore, Zenon
<1>19. \A q \in Pin \ {p} : r.latch[q] = s.latch[q] BY <1>6, <1>7, <1>11, Zenon
<1>20. OnlyOf(s, r, k) BY <1>6, <1>8, <1>17, <1>18, <1>19, Zenon DEF OnlyOf, p
<1>21. r.latch[p] = v BY <1>3, <1>6, <1>7, <1>11, Zenon
<1>22. r.latch[PcaPin(s, k)] = IF s.cl >= r.ccapl[k] THEN 1 ELSE 0 BY <1>6, <1>17, <1>21, Zenon DEF v, p
<1> QED BY <1>2, <1>6, <1>8, <1>15, <1>17, <1>20, <1>22, Zenon

\* A match raises the flag, and toggles the pin when TOG is set.
LEMMA MatchIs ==
  ASSUME NEW s, Typed(s), NEW k \in Module, k < Modules(s.part)
  PROVE  LET r == Match(s, k)
         IN  /\ Typed(r) /\ OnlyOf(s, r, k) /\ r.ccapl = s.ccapl /\ r.ccaph = s.ccaph
             /\ "TOG" \notin s.ccapm[k] => r.latch = s.latch
<1> DEFINE t == [s EXCEPT !.ccf[k] = TRUE]  p == PcaPin(s, k)
<1>1. p \in Pin BY PcaPinIs, Zenon
<1>2. OnlyOf(s, s, k) BY BesideSelf, Zenon DEF OnlyOf
<1>3. CASE s.cl + Radix * s.ch # s.ccapl[k] + Radix * s.ccaph[k]
  BY <1>2, <1>3, Zenon DEF Match
<1>4. CASE s.cl + Radix * s.ch = s.ccapl[k] + Radix * s.ccaph[k]
  <2>1. "ccf" \in DOMAIN s BY IsField, Zenon DEF Typed
  <2>2. s.ccf \in [Module -> BOOLEAN] BY PcaIs, Zenon
  <2>3. t.ccf = [s.ccf EXCEPT ![k] = TRUE] BY <2>1
  <2>4. Beside(s, t, {"ccf"}) BY Zenon DEF Beside
  <2>5. Match(s, k) = IF "TOG" \in s.ccapm[k] THEN Toggled(t, p) ELSE t BY <1>4, Zenon DEF Match
  <2> HIDE DEF t
  <2>6. t.ccf \in [Module -> BOOLEAN] BY <2>2, <2>3
  <2>7. \A x \in {"ccf"} \cap Fields : t[x] \in Held[x] BY <2>6, PcaHeld, Zenon
  <2>8. Typed(t) BY <2>4, <2>7, TypedBeside, Zenon
  <2>9. \A x \in {"ccapl", "ccaph", "latch"} : x \in Fields /\ x \notin {"ccf"} BY IsField, SMT
  <2>10. t["ccapl"] = s["ccapl"] /\ t["ccaph"] = s["ccaph"] /\ t["latch"] = s["latch"]
    BY <2>4, <2>9, BesideField, SMT
  <2>11. {"ccf"} \subseteq ModuleFields /\ {"latch"} \subseteq ModuleFields BY SMT DEF ModuleFields
  <2>12. Beside(s, t, ModuleFields)
    <3>1. {"ccf"} \subseteq ModuleFields BY <2>11
    <3> QED BY <2>4, <3>1, Zenon DEF Beside
  <2>13. OnlyOf(s, t, k) BY <2>10, <2>12, Zenon DEF OnlyOf
  <2>14. CASE "TOG" \notin s.ccapm[k] BY <2>5, <2>8, <2>10, <2>13, <2>14, Zenon
  <2>15. CASE "TOG" \in s.ccapm[k]
    <3> DEFINE u == Toggled(t, p)
    <3>1. /\ Typed(u) /\ u.latch = [t.latch EXCEPT ![p] = 1 - t.latch[p]] /\ Beside(t, u, {"latch"})
      BY <1>1, <2>8, ToggledTyped, Zenon
    <3> HIDE DEF u
    <3>2. \A x \in {"ccapl", "ccaph"} : x \in Fields /\ x \notin {"latch"} BY IsField, SMT
    <3>3. u["ccapl"] = t["ccapl"] /\ u["ccaph"] = t["ccaph"] BY <2>8, <3>1, <3>2, BesideField, SMT
    <3>4. t.latch \in [Pin -> 0 .. 1] BY <2>8, BaudIs, Zenon
    <3>5. \A q \in Pin \ {p} : u.latch[q] = t.latch[q]
      <4> HIDE DEF p
      <4> QED BY <3>1, <3>4, Zenon
    <3>6. Beside(t, u, ModuleFields) BY <2>11, <3>1, BesideMore, Zenon
    <3>7. PcaPin(t, k) = p BY <2>13, OnlyOfFields, Zenon
    <3>8. OnlyOf(t, u, k) BY <3>3, <3>5, <3>6, <3>7, Zenon DEF OnlyOf
    <3>9. OnlyOf(s, u, k) BY <2>8, <2>13, <3>8, OnlyOfThen, Zenon
    <3>10. Match(s, k) = u BY <2>5, <2>15, Zenon DEF u
    <3> QED BY <2>10, <2>15, <3>1, <3>3, <3>9, <3>10, Zenon
  <2> QED BY <2>14, <2>15
<1> QED BY <1>3, <1>4

\* A capture keeps the types, and to its module.
LEMMA CaptureIs ==
  ASSUME NEW s, Typed(s), NEW k \in Module, k < Modules(s.part), NEW level \in [Pin -> 0 .. 1]
  PROVE  Typed(Capture(s, k, level)) /\ OnlyOf(s, Capture(s, k, level), k)
<1> DEFINE now == level[PcaPin(s, k)]
           f == IF k = 0 THEN 0 ELSE 1
           t == [s EXCEPT !.pca_cex_last[k] = now]
           u == [t EXCEPT !.ccapl[k] = s.cl, !.ccaph[k] = s.ch, !.ccf[f] = TRUE]
           r == Capture(s, k, level)
<1>1. now \in 0 .. 1
  <2>1. PcaPin(s, k) \in Pin BY PcaPinIs, Zenon
  <2> QED BY <2>1
<1>2. r = t \/ r = u BY Zenon DEF Capture
<1>3. {"pca_cex_last", "ccapl", "ccaph", "ccf", "latch", "epcl"} \subseteq DOMAIN s BY IsField, SMT DEF Typed
<1>4. f \in Module BY SMT DEF Module
<1>5. /\ s.pca_cex_last \in [Module -> 0 .. 1] /\ s.ccapl \in [Module -> 0 .. Radix - 1]
      /\ s.ccaph \in [Module -> 0 .. Radix - 1] /\ s.ccf \in [Module -> BOOLEAN]
      /\ s.cl \in 0 .. Radix - 1 /\ s.ch \in 0 .. Radix - 1
  BY PcaIs, Zenon
<1> HIDE DEF now, f
<1>6. /\ t.pca_cex_last = [s.pca_cex_last EXCEPT ![k] = now] /\ t.ccapl = s.ccapl
      /\ t.ccaph = s.ccaph /\ t.ccf = s.ccf
  <2>1. t.pca_cex_last = [s.pca_cex_last EXCEPT ![k] = now] BY <1>3, Zenon
  <2>2. t.ccapl = s.ccapl /\ t.ccaph = s.ccaph BY <1>3, Zenon
  <2>3. t.ccf = s.ccf BY <1>3, Zenon
  <2> QED BY <2>1, <2>2, <2>3, Zenon
<1>7. /\ u.pca_cex_last = t.pca_cex_last /\ u.ccapl = [s.ccapl EXCEPT ![k] = s.cl]
      /\ u.ccaph = [s.ccaph EXCEPT ![k] = s.ch] /\ u.ccf = [s.ccf EXCEPT ![f] = TRUE]
  BY <1>3, Zenon
<1>8. Beside(s, t, ModuleFields) BY Zenon DEF Beside, ModuleFields
<1>9. Beside(s, u, ModuleFields) BY Zenon DEF Beside, ModuleFields
<1>10. t["latch"] = s["latch"] /\ u["latch"] = s["latch"] /\ t["epcl"] = s["epcl"] /\ u["epcl"] = s["epcl"]
  BY <1>3, Zenon
<1> HIDE DEF t, u
<1>11. /\ t.pca_cex_last \in [Module -> 0 .. 1] /\ u.ccapl \in [Module -> 0 .. Radix - 1]
       /\ u.ccaph \in [Module -> 0 .. Radix - 1] /\ u.ccf \in [Module -> BOOLEAN]
  <2>1. t.pca_cex_last \in [Module -> 0 .. 1] BY <1>1, <1>5, <1>6, Zenon
  <2>2. u.ccapl \in [Module -> 0 .. Radix - 1] BY <1>5, <1>7, Zenon
  <2>3. u.ccaph \in [Module -> 0 .. Radix - 1] BY <1>5, <1>7, Zenon
  <2>4. u.ccf \in [Module -> BOOLEAN]
    <3>1. [s.ccf EXCEPT ![f] = TRUE] \in [Module -> BOOLEAN] BY <1>4, <1>5
    <3> QED BY <1>7, <3>1, Zenon
  <2> QED BY <2>1, <2>2, <2>3, <2>4
<1>12. s["latch"] \in Held["latch"] /\ s["epcl"] \in Held["epcl"] BY IsField, Zenon DEF Typed
<1>13. /\ t["ccapl"] \in Held["ccapl"] /\ t["ccaph"] \in Held["ccaph"] /\ t["epcl"] \in Held["epcl"]
       /\ t["ccf"] \in Held["ccf"] /\ t["latch"] \in Held["latch"]
       /\ t["pca_cex_last"] \in Held["pca_cex_last"]
  BY <1>5, <1>6, <1>10, <1>11, <1>12, PcaHeld, Zenon
<1>14. /\ u["ccapl"] \in Held["ccapl"] /\ u["ccaph"] \in Held["ccaph"] /\ u["epcl"] \in Held["epcl"]
       /\ u["ccf"] \in Held["ccf"] /\ u["latch"] \in Held["latch"]
       /\ u["pca_cex_last"] \in Held["pca_cex_last"]
  BY <1>5, <1>7, <1>10, <1>11, <1>12, PcaHeld, Zenon
<1>15. Typed(t)
  <2>1. \A x \in ModuleFields \cap Fields : t[x] \in Held[x] BY <1>13, SMT DEF ModuleFields
  <2> QED BY <1>8, <2>1, TypedBeside, Zenon
<1>16. Typed(u)
  <2>1. \A x \in ModuleFields \cap Fields : u[x] \in Held[x] BY <1>14, SMT DEF ModuleFields
  <2> QED BY <1>9, <2>1, TypedBeside, Zenon
<1>17. OnlyOf(s, t, k) BY <1>6, <1>8, <1>10, Zenon DEF OnlyOf
<1>18. \A j \in Module \ {k} : u.ccapl[j] = s.ccapl[j] /\ u.ccaph[j] = s.ccaph[j]
  BY <1>5, <1>7, Zenon
<1>19. OnlyOf(s, u, k) BY <1>9, <1>10, <1>18, Zenon DEF OnlyOf
<1> QED BY <1>2, <1>15, <1>16, <1>17, <1>19, Zenon

\* A module that only drives its pin by the duty asked for.
Drives(s, k) ==
  k < Modules(s.part) /\ "PWM" \in s.ccapm[k] /\ s.ccapm[k] \cap {"TOG", "CAPP", "CAPN"} = {}

\* What such a module does with its compare value and its pin.
Driven(s, r, k) ==
  /\ r.ccapl[k] = IF s.cl = 0 THEN s.ccaph[k] ELSE s.ccapl[k]
  /\ r.latch[PcaPin(s, k)] = IF s.cl >= r.ccapl[k] THEN 1 ELSE 0

\* A module keeps the types, and to itself.
LEMMA PcaModuleIs ==
  ASSUME NEW s, Typed(s), NEW k \in Module, NEW level \in [Pin -> 0 .. 1]
  PROVE  LET r == PcaModule(s, k, level)
         IN  /\ Typed(r) /\ OnlyOf(s, r, k)
             /\ k >= Modules(s.part) => r = s
             /\ Drives(s, k) => Driven(s, r, k)
<1>1. OnlyOf(s, s, k) BY BesideSelf, Zenon DEF OnlyOf
<1>0. s.part \in {"STC12", "STC15", "STC15W", "STC89"} BY OtherIs, Zenon
<1>2. Modules(s.part) \in 0 .. 3 BY <1>0, SMT DEF Modules
<1>3. CASE k >= Modules(s.part)
  <2>1. PcaModule(s, k, level) = s BY <1>3, Zenon DEF PcaModule
  <2>2. ~(k < Modules(s.part)) BY <1>2, <1>3, SMT DEF Module
  <2> QED BY <1>1, <2>1, <2>2, Zenon DEF Drives
<1>4. CASE ~(k >= Modules(s.part))
  <2> DEFINE d == IF "PWM" \in s.ccapm[k] THEN Pwm(s, k) ELSE s
             e == IF {"ECOM", "MAT"} \subseteq s.ccapm[k] THEN Match(d, k) ELSE d
             r == IF s.ccapm[k] \cap {"CAPP", "CAPN"} # {} THEN Capture(e, k, level) ELSE e
  <2>1. PcaModule(s, k, level) = r BY <1>4, Zenon DEF PcaModule
  <2>2. k < Modules(s.part) BY <1>2, <1>4, SMT DEF Module
  <2>3. /\ Typed(d) /\ OnlyOf(s, d, k)
        /\ "PWM" \in s.ccapm[k] =>
             /\ d.ccapl[k] = IF s.cl = 0 THEN s.ccaph[k] ELSE s.ccapl[k]
             /\ d.latch[PcaPin(s, k)] = IF s.cl >= d.ccapl[k] THEN 1 ELSE 0
    BY <1>1, <2>2, PwmIs, Zenon
  <2>13. OnlyOf(s, d, k) BY <2>3, Zenon
  <2> HIDE DEF d
  <2>4. d.part = s.part /\ d.ccapm = s.ccapm /\ d.cl = s.cl /\ PcaPin(d, k) = PcaPin(s, k)
    BY <2>13, OnlyOfFields, Zenon
  <2>5. OnlyOf(d, d, k) BY BesideSelf, Zenon DEF OnlyOf
  <2>6. k < Modules(d.part) BY <2>2, <2>4, Zenon
  <2>7. /\ Typed(e) /\ OnlyOf(d, e, k) /\ e.ccapl = d.ccapl
        /\ "TOG" \notin s.ccapm[k] => e.latch = d.latch
    BY <2>3, <2>4, <2>5, <2>6, MatchIs, Zenon
  <2> HIDE DEF e
  <2>8. OnlyOf(s, e, k) BY <2>3, <2>7, OnlyOfThen, Zenon
  <2>9. e.part = s.part BY <2>8, OnlyOfFields, Zenon
  <2>10. k < Modules(e.part) BY <2>2, <2>9, Zenon
  <2>11. Typed(r) /\ OnlyOf(s, r, k)
    <3>1. CASE s.ccapm[k] \cap {"CAPP", "CAPN"} # {}
      <4>1. Typed(Capture(e, k, level)) /\ OnlyOf(e, Capture(e, k, level), k)
        BY <2>7, <2>10, CaptureIs, Zenon
      <4>2. OnlyOf(s, Capture(e, k, level), k) BY <2>7, <2>8, <4>1, OnlyOfThen, Zenon
      <4> QED BY <3>1, <4>1, <4>2, Zenon
    <3>2. CASE s.ccapm[k] \cap {"CAPP", "CAPN"} = {} BY <2>7, <2>8, <3>2, Zenon
    <3> QED BY <3>1, <3>2
  <2>12. ASSUME Drives(s, k) PROVE Driven(s, r, k)
    <3>1. /\ "PWM" \in s.ccapm[k] /\ "TOG" \notin s.ccapm[k] /\ s.ccapm[k] \cap {"CAPP", "CAPN"} = {}
      BY <2>12 DEF Drives
    <3>2. r = e BY <3>1, Zenon
    <3> QED BY <2>3, <2>7, <3>1, <3>2, Zenon DEF Driven
  <2> HIDE DEF r
  <2> QED BY <1>4, <2>1, <2>11, <2>12, Zenon
<1> QED BY <1>3, <1>4

\* Machines whose modules have the same pins.
SamePins(s, u) == u.part = s.part /\ \A i : PcaPin(u, i) = PcaPin(s, i)

\* What a module has done the later ones leave alone.
LEMMA LaterLeaves ==
  ASSUME NEW s, Typed(s), NEW u, Typed(u), SamePins(s, u),
         NEW j \in Module, NEW k \in Module, j # k, k < Modules(s.part),
         NEW v, OnlyOf(u, v, j), j >= Modules(u.part) => v = u
  PROVE  /\ v.ccapl[k] = u.ccapl[k] /\ v.ccaph[k] = u.ccaph[k]
         /\ v.latch[PcaPin(s, k)] = u.latch[PcaPin(s, k)]
<1>1. s.part \in {"STC12", "STC15", "STC15W", "STC89"} BY OtherIs, Zenon
<1>2. Modules(s.part) \in 0 .. 3 BY <1>1, SMT DEF Modules
<1>3. j >= Modules(s.part) \/ j < Modules(s.part) BY <1>2, SMT DEF Module
<1>4. CASE j >= Modules(s.part)
  <2>1. v = u BY <1>4, Zenon DEF SamePins
  <2> QED BY <2>1
<1>5. CASE j < Modules(s.part)
  <2>1. PcaPin(s, j) # PcaPin(s, k) BY <1>5, PinsDiffer, Zenon
  <2>2. PcaPin(s, k) \in Pin BY PcaPinIs, Zenon
  <2>3. PcaPin(u, j) = PcaPin(s, j) BY Zenon DEF SamePins
  <2>4. k \in Module \ {j} /\ PcaPin(s, k) \in Pin \ {PcaPin(u, j)} BY <2>1, <2>2, <2>3, Zenon
  <2> QED BY <2>4, Zenon DEF OnlyOf
<1> QED BY <1>3, <1>4, <1>5, Zenon

\* The three modules in turn.
LEMMA ModulesAre ==
  ASSUME NEW s, Typed(s), NEW level \in [Pin -> 0 .. 1]
  PROVE  LET r == PcaModule(PcaModule(PcaModule(s, 0, level), 1, level), 2, level)
         IN  /\ Typed(r) /\ Beside(s, r, ModuleFields)
             /\ \A k \in Module : Drives(s, k) => Driven(s, r, k)
<1> DEFINE a == PcaModule(s, 0, level)  b == PcaModule(a, 1, level)  r == PcaModule(b, 2, level)
<1>0. 0 \in Module /\ 1 \in Module /\ 2 \in Module /\ 0 # 1 /\ 0 # 2 /\ 1 # 2
      /\ \A k \in Module : k = 0 \/ k = 1 \/ k = 2
  BY SMT DEF Module
<1>1. Typed(a) /\ OnlyOf(s, a, 0) /\ (0 >= Modules(s.part) => a = s) /\ (Drives(s, 0) => Driven(s, a, 0))
  BY <1>0, PcaModuleIs, Zenon
<1> HIDE DEF a
<1>2. Typed(b) /\ OnlyOf(a, b, 1) /\ (1 >= Modules(a.part) => b = a) /\ (Drives(a, 1) => Driven(a, b, 1))
  BY <1>0, <1>1, PcaModuleIs, Zenon
<1> HIDE DEF b
<1>3. Typed(r) /\ OnlyOf(b, r, 2) /\ (2 >= Modules(b.part) => r = b) /\ (Drives(b, 2) => Driven(b, r, 2))
  BY <1>0, <1>2, PcaModuleIs, Zenon
<1> HIDE DEF r
<1>4. a.part = s.part /\ a.ccapm = s.ccapm /\ a.cl = s.cl /\ \A j : PcaPin(a, j) = PcaPin(s, j)
  BY <1>1, OnlyOfFields, Zenon
<1>5. b.part = s.part /\ b.ccapm = s.ccapm /\ b.cl = s.cl /\ \A j : PcaPin(b, j) = PcaPin(s, j)
  <2>1. b.part = a.part /\ b.ccapm = a.ccapm /\ b.cl = a.cl /\ \A j : PcaPin(b, j) = PcaPin(a, j)
    BY <1>1, <1>2, OnlyOfFields, Zenon
  <2> QED BY <1>4, <2>1, Zenon
<1>7. SamePins(s, s) /\ SamePins(s, a) /\ SamePins(s, b) BY <1>4, <1>5, Zenon DEF SamePins
<1>8. OnlyOf(s, a, 0) /\ OnlyOf(a, b, 1) /\ OnlyOf(b, r, 2) BY <1>1, <1>2, <1>3, Zenon
<1>9. (0 >= Modules(s.part) => a = s) /\ (1 >= Modules(a.part) => b = a) /\ (2 >= Modules(b.part) => r = b)
  BY <1>1, <1>2, <1>3, Zenon
<1>10. Typed(a) /\ Typed(b) BY <1>1, <1>2, Zenon
<1>12. 1 # 0 /\ 2 # 0 /\ 2 # 1 BY <1>0, Zenon
<1>6. Beside(s, r, ModuleFields)
  <2>1. Beside(s, a, ModuleFields) /\ Beside(a, b, ModuleFields) /\ Beside(b, r, ModuleFields)
    BY <1>1, <1>2, <1>3, Zenon DEF OnlyOf
  <2> QED BY <2>1, Zenon DEF Beside
<1>11. ASSUME NEW k \in Module, Drives(s, k) PROVE Driven(s, r, k)
  <2>0. k < Modules(s.part) BY <1>11, Zenon DEF Drives
  <2>1. CASE k = 0
    <3>1. Driven(s, a, k) BY <1>1, <1>11, <2>1, Zenon
    <3>2. b.ccapl[k] = a.ccapl[k] /\ b.latch[PcaPin(s, k)] = a.latch[PcaPin(s, k)]
      BY <1>0, <1>7, <1>8, <1>9, <1>10, <1>12, <2>0, <2>1, LaterLeaves
    <3>3. r.ccapl[k] = b.ccapl[k] /\ r.latch[PcaPin(s, k)] = b.latch[PcaPin(s, k)]
      BY <1>0, <1>7, <1>8, <1>9, <1>10, <1>12, <2>0, <2>1, LaterLeaves
    <3> QED BY <3>1, <3>2, <3>3, Zenon DEF Driven
  <2>2. CASE k = 1
    <3>1. Drives(a, k) BY <1>4, <1>11, Zenon DEF Drives
    <3>2. Driven(a, b, k) BY <1>2, <2>2, <3>1, Zenon
    <3>4. a.ccapl[k] = s.ccapl[k] /\ a.ccaph[k] = s.ccaph[k]
      BY <1>0, <1>7, <1>8, <1>9, <1>10, <1>12, <2>0, <2>2, LaterLeaves
    <3>5. r.ccapl[k] = b.ccapl[k] /\ r.latch[PcaPin(s, k)] = b.latch[PcaPin(s, k)]
      BY <1>0, <1>7, <1>8, <1>9, <1>10, <1>12, <2>0, <2>2, LaterLeaves
    <3> QED BY <1>4, <3>2, <3>4, <3>5, Zenon DEF Driven
  <2>3. CASE k = 2
    <3>1. Drives(b, k) BY <1>5, <1>11, Zenon DEF Drives
    <3>2. Driven(b, r, k) BY <1>3, <2>3, <3>1, Zenon
    <3>4. a.ccapl[k] = s.ccapl[k] /\ a.ccaph[k] = s.ccaph[k]
      BY <1>0, <1>7, <1>8, <1>9, <1>10, <1>12, <2>0, <2>3, LaterLeaves
    <3>5. b.ccapl[k] = a.ccapl[k] /\ b.ccaph[k] = a.ccaph[k]
      BY <1>0, <1>7, <1>8, <1>9, <1>10, <1>12, <2>0, <2>3, LaterLeaves
    <3> QED BY <1>5, <3>2, <3>4, <3>5, Zenon DEF Driven
  <2> QED BY <1>0, <2>1, <2>2, <2>3, Zenon
<1> QED BY <1>3, <1>6, <1>11, Zenon DEF a, b, r

\* A divisor of the PCA's.
LEMMA PcaDivisorIs ==
  /\ \A d \in DOMAIN PcaDivisor : PcaDivisor[d] \in Nat \ {0}
  /\ \A d \in 0 .. 7 : d # 2 /\ d # 3 => d \in DOMAIN PcaDivisor
  /\ PcaDivisor[4] = 1
<1>1. PcaDivisor \in [{0, 1, 4, 5, 6, 7} -> Nat \ {0}] /\ PcaDivisor[4] = 1 BY WidthAssumption
<1>2. DOMAIN PcaDivisor = {0, 1, 4, 5, 6, 7} BY <1>1
<1>3. \A d \in 0 .. 7 : d # 2 /\ d # 3 => d \in {0, 1, 4, 5, 6, 7} BY SMT
<1> QED BY <1>1, <1>2, <1>3

\* What the PCA's prescaler can hold.
LEMMA PcaPhase ==
  \A n : n \in Held.pca_prescaler <=> \E d \in DOMAIN PcaDivisor : n \in 0 .. PcaDivisor[d] - 1
  BY PcaHeld, Zenon

\* When the PCA counts.
LEMMA PcaDueIs ==
  ASSUME NEW s, Typed(s)
  PROVE  /\ PcaDue(s) \in BOOLEAN /\ s.pca_prescaler \in Nat
         /\ s.cps = 2 => PcaDue(s) = s.pca_t0_overflow_pending
         /\ s.cps = 3 => ~PcaDue(s)
         /\ s.cps # 2 /\ s.cps # 3 => PcaDue(s) = (s.pca_prescaler + 1 >= PcaDivisor[s.cps])
<1>1. s.cps \in 0 .. 7 /\ s.pca_t0_overflow_pending \in BOOLEAN /\ s.pca_prescaler \in Held.pca_prescaler
  BY PcaIs, IsField, Zenon DEF Typed
<1>2. PICK d \in DOMAIN PcaDivisor : s.pca_prescaler \in 0 .. PcaDivisor[d] - 1 BY <1>1, PcaPhase, Zenon
<1>3. s.pca_prescaler \in Nat BY <1>2, PcaDivisorIs, SMT
<1>4. s.cps # 2 /\ s.cps # 3 => PcaDivisor[s.cps] \in Nat BY <1>1, PcaDivisorIs, SMT
<1>5. s.cps = 2 => s.cps # 3 BY SMT
<1>6. CASE s.cps = 2
  <2>1. PcaDue(s) = s.pca_t0_overflow_pending BY <1>5, <1>6, Zenon DEF PcaDue
  <2> QED BY <1>1, <1>3, <1>5, <1>6, <2>1, Zenon
<1>7. CASE s.cps = 3
  <2>1. PcaDue(s) = FALSE BY <1>5, <1>7, Zenon DEF PcaDue
  <2> QED BY <1>3, <1>5, <1>7, <2>1, Zenon
<1>8. CASE s.cps # 2 /\ s.cps # 3
  <2>1. PcaDue(s) = (s.pca_prescaler + 1 >= PcaDivisor[s.cps]) BY <1>8, Zenon DEF PcaDue
  <2>2. (s.pca_prescaler + 1 >= PcaDivisor[s.cps]) \in BOOLEAN BY <1>3, <1>4, <1>8, SMT
  <2> QED BY <1>3, <1>8, <2>1, <2>2, Zenon
<1> QED BY <1>6, <1>7, <1>8, Zenon

\* The PCA's prescaler, or what stands for it.
LEMMA PcaPrescaledIs ==
  ASSUME NEW s, Typed(s)
  PROVE  LET r == PcaPrescaled(s)
         IN  /\ Typed(r)
             /\ s.cps = 2 => r.pca_t0_overflow_pending = FALSE /\ r.pca_prescaler = s.pca_prescaler
             /\ s.cps = 3 => r = s
             /\ s.cps = 4 => r = s
             /\ s.cps # 2 /\ s.cps # 3 /\ s.cps # 4 =>
                  /\ r.pca_t0_overflow_pending = s.pca_t0_overflow_pending
                  /\ r.pca_prescaler = IF PcaDue(s) THEN 0 ELSE s.pca_prescaler + 1
<1> DEFINE r == PcaPrescaled(s)
           a == [s EXCEPT !.pca_t0_overflow_pending = FALSE]
           b == [s EXCEPT !.pca_prescaler = IF PcaDue(s) THEN 0 ELSE @ + 1]
<1>1. "pca_t0_overflow_pending" \in DOMAIN s /\ "pca_prescaler" \in DOMAIN s BY IsField, Zenon DEF Typed
<1>2. s.cps = 2 => s.cps # 3 /\ s.cps # 4 BY SMT
<1>3. s.cps = 3 => s.cps # 2 /\ s.cps # 4 BY SMT
<1>4. s.cps = 4 => s.cps # 2 /\ s.cps # 3 BY SMT
<1>5. CASE s.cps = 2
  <2>1. r = a BY <1>2, <1>5, Zenon DEF PcaPrescaled
  <2>2. a.pca_t0_overflow_pending = FALSE /\ a.pca_prescaler = s.pca_prescaler BY <1>1
  <2>3. Beside(s, a, {"pca_t0_overflow_pending"}) BY Zenon DEF Beside
  <2> HIDE DEF a
  <2>4. \A x \in {"pca_t0_overflow_pending"} \cap Fields : a[x] \in Held[x] BY <2>2, PcaHeld, Zenon
  <2>5. Typed(a) BY <2>3, <2>4, TypedBeside, Zenon
  <2> QED BY <1>2, <1>5, <2>1, <2>2, <2>5, Zenon
<1>6. CASE s.cps = 3
  <2>1. r = s BY <1>3, <1>6, Zenon DEF PcaPrescaled
  <2> QED BY <1>3, <1>6, <2>1, Zenon
<1>7. CASE s.cps = 4
  <2>1. r = s BY <1>4, <1>7, Zenon DEF PcaPrescaled
  <2> QED BY <1>4, <1>7, <2>1, Zenon
<1>8. CASE s.cps # 2 /\ s.cps # 3 /\ s.cps # 4
  <2>1. r = b BY <1>8, Zenon DEF PcaPrescaled
  <2>2. b.pca_t0_overflow_pending = s.pca_t0_overflow_pending BY <1>1
  <2>3. b.pca_prescaler = IF PcaDue(s) THEN 0 ELSE s.pca_prescaler + 1 BY <1>1
  <2>4. Beside(s, b, {"pca_prescaler"}) BY Zenon DEF Beside
  <2> HIDE DEF b
  <2>5. s.cps \in DOMAIN PcaDivisor /\ PcaDivisor[s.cps] \in Nat \ {0}
    <3>1. s.cps \in 0 .. 7 BY PcaIs, Zenon
    <3> QED BY <1>8, <3>1, PcaDivisorIs
  <2>6. s.pca_prescaler \in Nat /\ PcaDue(s) = (s.pca_prescaler + 1 >= PcaDivisor[s.cps])
    BY <1>8, PcaDueIs, Zenon
  <2>7. 0 \in 0 .. PcaDivisor[s.cps] - 1 BY <2>5, SMT
  <2>8. ~PcaDue(s) => s.pca_prescaler + 1 \in 0 .. PcaDivisor[s.cps] - 1
    <3>1. ~(s.pca_prescaler + 1 >= PcaDivisor[s.cps]) => s.pca_prescaler + 1 \in 0 .. PcaDivisor[s.cps] - 1
      BY <2>5, <2>6, SMT
    <3> QED BY <2>6, <3>1, Zenon
  <2>9. b.pca_prescaler \in 0 .. PcaDivisor[s.cps] - 1 BY <2>3, <2>7, <2>8, Zenon
  <2>10. b["pca_prescaler"] \in Held["pca_prescaler"] BY <2>5, <2>9, PcaPhase, Zenon
  <2>11. \A x \in {"pca_prescaler"} \cap Fields : b[x] \in Held[x] BY <2>10, Zenon
  <2>12. Typed(b) BY <2>4, <2>11, TypedBeside, Zenon
  <2> QED BY <1>8, <2>1, <2>2, <2>3, <2>12, Zenon
<1> QED BY <1>5, <1>6, <1>7, <1>8, Zenon

\* A number of two bytes.
Word(s) == s.cl + Radix * s.ch

\* The PCA's counter is one of two bytes.
LEMMA PcaCountedIs ==
  ASSUME NEW s, Typed(s)
  PROVE  LET r == PcaCounted(s)
         IN  /\ Typed(r) /\ r.cl = (s.cl + 1) % Radix
             /\ Word(s) \in 0 .. Radix * Radix - 1
             /\ Word(s) # Radix * Radix - 1 => Word(r) = Word(s) + 1 /\ r.cf = s.cf
             /\ Word(s) = Radix * Radix - 1 => Word(r) = 0 /\ r.cf = TRUE
<1> DEFINE r == PcaCounted(s)  b == s.cl  h == s.ch
<1>1. b \in 0 .. Radix - 1 /\ h \in 0 .. Radix - 1 /\ s.cf \in BOOLEAN BY PcaIs, Zenon
<1>2. "cl" \in DOMAIN s /\ "ch" \in DOMAIN s /\ "cf" \in DOMAIN s BY IsField, Zenon DEF Typed
<1>3. r.cl = (b + 1) % Radix /\ r.ch = IF b = Radix - 1 THEN (h + 1) % Radix ELSE h
  BY <1>2, Zenon DEF PcaCounted
<1>4. r.cf = (s.cf \/ (b = Radix - 1 /\ h = Radix - 1)) BY <1>2, Zenon DEF PcaCounted
<1>5. Beside(s, r, {"cl", "ch", "cf"}) BY CountedBeside, Zenon
<1> HIDE DEF r, b, h
<1>6. (b + 1) % Radix = IF b = Radix - 1 THEN 0 ELSE b + 1 BY <1>1, Numbers, WrapMod, SMT
<1>7. (h + 1) % Radix = IF h = Radix - 1 THEN 0 ELSE h + 1 BY <1>1, Numbers, WrapMod, SMT
<1>8. \A x \in 0 .. Radix - 1 : (IF x = Radix - 1 THEN 0 ELSE x + 1) \in 0 .. Radix - 1 BY Numbers, SMT
<1>9. r.cl \in 0 .. Radix - 1 BY <1>1, <1>3, <1>6, <1>8, Zenon
<1>10. r.ch \in 0 .. Radix - 1 BY <1>1, <1>3, <1>7, <1>8, Zenon
<1>11. r.cf \in BOOLEAN BY <1>1, <1>4, Zenon
<1>12. r["cl"] \in Held["cl"] /\ r["ch"] \in Held["ch"] /\ r["cf"] \in Held["cf"]
  BY <1>9, <1>10, <1>11, PcaHeld, Zenon
<1>13. \A x \in {"cl", "ch", "cf"} \cap Fields : r[x] \in Held[x] BY <1>12, SMT
<1>14. Typed(r) BY <1>5, <1>13, TypedBeside, Zenon
<1>15. /\ b = Radix - 1 /\ h = Radix - 1 => b + Radix * h = Radix * Radix - 1
       /\ b = Radix - 1 /\ h # Radix - 1 =>
            b + Radix * h # Radix * Radix - 1 /\ 0 + Radix * (h + 1) = b + Radix * h + 1
       /\ b # Radix - 1 =>
            b + Radix * h # Radix * Radix - 1 /\ (b + 1) + Radix * h = b + Radix * h + 1
  BY <1>1, Numbers, TwoBytes
<1>16. Word(s) = b + Radix * h /\ Word(r) = r.cl + Radix * r.ch BY Zenon DEF Word, b, h
<1>22. /\ Word(s) # Radix * Radix - 1 => Word(r) = Word(s) + 1 /\ r.cf = s.cf
       /\ Word(s) = Radix * Radix - 1 => Word(r) = 0 /\ r.cf = TRUE
  <2>1. CASE b = Radix - 1 /\ h = Radix - 1
    <3>1. r.cl = 0 /\ r.ch = 0 /\ r.cf = TRUE BY <1>3, <1>4, <1>6, <1>7, <2>1, Zenon
    <3>2. 0 + Radix * 0 = 0 BY Numbers, SMT
    <3>3. b + Radix * h = Radix * Radix - 1 BY <1>15, <2>1
    <3>4. Word(r) = 0 + Radix * 0 BY <1>16, <3>1, Zenon
    <3> QED BY <1>16, <3>1, <3>2, <3>3, <3>4, Zenon
  <2>2. CASE b = Radix - 1 /\ h # Radix - 1
    <3>1. r.cl = 0 /\ r.ch = h + 1 /\ r.cf = s.cf BY <1>1, <1>3, <1>4, <1>6, <1>7, <2>2, Zenon
    <3>2. b + Radix * h # Radix * Radix - 1 /\ 0 + Radix * (h + 1) = b + Radix * h + 1 BY <1>15, <2>2
    <3>3. Word(r) = 0 + Radix * (h + 1) BY <1>16, <3>1, Zenon
    <3> QED BY <1>16, <3>1, <3>2, <3>3, Zenon
  <2>3. CASE b # Radix - 1
    <3>1. r.cl = b + 1 /\ r.ch = h /\ r.cf = s.cf BY <1>1, <1>3, <1>4, <1>6, <2>3, Zenon
    <3>2. b + Radix * h # Radix * Radix - 1 /\ (b + 1) + Radix * h = b + Radix * h + 1 BY <1>15, <2>3
    <3>3. Word(r) = (b + 1) + Radix * h BY <1>16, <3>1, Zenon
    <3> QED BY <1>16, <3>1, <3>2, <3>3, Zenon
  <2> QED BY <2>1, <2>2, <2>3
<1>20. Word(s) \in 0 .. Radix * Radix - 1
  <2>1. \A R \in Nat \ {0, 1} : \A x \in 0 .. R - 1 : \A y \in 0 .. R - 1 : x + R * y \in 0 .. R * R - 1
    <3> SUFFICES ASSUME NEW R \in Nat \ {0, 1}, NEW x \in 0 .. R - 1, NEW y \in 0 .. R - 1
                 PROVE  x + R * y \in 0 .. R * R - 1
      BY Zenon
    <3>1. R * y <= R * (R - 1) /\ R * y >= 0 BY SMT
    <3> QED BY <3>1, SMT
  <2> QED BY <1>1, <1>16, <2>1, Numbers, Zenon
<1>21. r.cl = (s.cl + 1) % Radix BY <1>3, Zenon DEF b
<1> QED BY <1>14, <1>20, <1>21, <1>22, Zenon DEF r

PcaFields == {"pca_prescaler", "pca_t0_overflow_pending", "cl", "ch", "cf"} \cup ModuleFields

\* The PCA in a clock that is not one of its ticks, or is one.
LEMMA PcaTickIs ==
  ASSUME NEW s, Typed(s), NEW level \in [Pin -> 0 .. 1]
  PROVE  LET r == PcaTick(s, level)
             p == PcaPrescaled(s)
         IN  /\ Typed(r) /\ Beside(s, r, PcaFields)
             /\ ~s.cr => r = s
             /\ s.cr /\ ~PcaDue(s) => r = p
             /\ s.cr /\ PcaDue(s) =>
                  /\ r.cl = (s.cl + 1) % Radix
                  /\ r.pca_prescaler = p.pca_prescaler
                  /\ r.pca_t0_overflow_pending = p.pca_t0_overflow_pending
                  /\ Word(s) # Radix * Radix - 1 => Word(r) = Word(s) + 1 /\ r.cf = s.cf
                  /\ Word(s) = Radix * Radix - 1 => Word(r) = 0 /\ r.cf = TRUE
                  /\ \A k \in Module : Drives(s, k) =>
                       /\ r.ccapl[k] = IF r.cl = 0 THEN s.ccaph[k] ELSE s.ccapl[k]
                       /\ r.latch[PcaPin(s, k)] = IF r.cl >= r.ccapl[k] THEN 1 ELSE 0
<1> DEFINE r == PcaTick(s, level)
           p == PcaPrescaled(s)
           q == PcaCounted(p)
           u == PcaModule(PcaModule(PcaModule(q, 0, level), 1, level), 2, level)
<1>1. Typed(p) /\ Beside(s, p, {"pca_prescaler", "pca_t0_overflow_pending"})
  BY PcaPrescaledIs, PrescaledBeside, Zenon
<1>2. PcaDue(s) \in BOOLEAN /\ s.cr \in BOOLEAN BY PcaDueIs, PcaIs, Zenon
<1>3. CASE ~s.cr
  <2>1. r = s BY <1>3, Zenon DEF PcaTick
  <2> QED BY <1>3, <2>1, BesideSelf, Zenon
<1>4. CASE s.cr /\ ~PcaDue(s)
  <2>1. r = p BY <1>4, Zenon DEF PcaTick
  <2>2. {"pca_prescaler", "pca_t0_overflow_pending"} \subseteq PcaFields BY SMT DEF PcaFields
  <2>3. Beside(s, p, PcaFields) BY <1>1, <2>2, BesideMore, Zenon
  <2> HIDE DEF r, p
  <2> QED BY <1>1, <1>4, <2>1, <2>3, Zenon DEF r, p
<1>5. CASE s.cr /\ PcaDue(s)
  <2>1. r = u BY <1>5, Zenon DEF PcaTick
  <2>2. \A x \in {"cl", "ch", "cf", "ccapl", "ccaph", "ccapm", "part", "pca_p4"} :
          x \in Fields /\ x \notin {"pca_prescaler", "pca_t0_overflow_pending"}
    BY IsField, SMT
  <2>3. \A x \in {"cl", "ch", "cf", "ccapl", "ccaph", "ccapm", "part", "pca_p4"} : p[x] = s[x]
    BY <1>1, <2>2, BesideField, Zenon
  <2>4. /\ p.cl = s.cl /\ p.ch = s.ch /\ p.cf = s.cf /\ p.ccapl = s.ccapl /\ p.ccaph = s.ccaph
        /\ p.ccapm = s.ccapm /\ p.part = s.part /\ p.pca_p4 = s.pca_p4
    BY <2>3, SMT
  <2> HIDE DEF p
  <2>5. /\ Typed(q) /\ q.cl = (p.cl + 1) % Radix
        /\ Word(p) # Radix * Radix - 1 => Word(q) = Word(p) + 1 /\ q.cf = p.cf
        /\ Word(p) = Radix * Radix - 1 => Word(q) = 0 /\ q.cf = TRUE
    BY <1>1, PcaCountedIs, Zenon
  <2>6. Beside(p, q, {"cl", "ch", "cf"}) BY CountedBeside, Zenon
  <2>7. \A x \in {"ccapl", "ccaph", "ccapm", "part", "pca_p4", "pca_prescaler", "pca_t0_overflow_pending"} :
          x \in Fields /\ x \notin {"cl", "ch", "cf"}
    BY IsField, SMT
  <2>8. \A x \in {"ccapl", "ccaph", "ccapm", "part", "pca_p4", "pca_prescaler", "pca_t0_overflow_pending"} :
          q[x] = p[x]
    BY <1>1, <2>6, <2>7, BesideField, Zenon
  <2>9. /\ q.ccapl = p.ccapl /\ q.ccaph = p.ccaph /\ q.ccapm = p.ccapm /\ q.part = p.part
        /\ q.pca_p4 = p.pca_p4 /\ q.pca_prescaler = p.pca_prescaler
        /\ q.pca_t0_overflow_pending = p.pca_t0_overflow_pending
    BY <2>8, SMT
  <2> HIDE DEF q
  <2>10. Typed(u) /\ Beside(q, u, ModuleFields) /\ \A k \in Module : Drives(q, k) => Driven(q, u, k)
    BY <2>5, ModulesAre, Zenon
  <2>11. \A x \in {"cl", "ch", "cf", "pca_prescaler", "pca_t0_overflow_pending"} :
           x \in Fields /\ x \notin ModuleFields
    BY IsField, SMT DEF ModuleFields
  <2> HIDE DEF u
  <2>12. \A x \in {"cl", "ch", "cf", "pca_prescaler", "pca_t0_overflow_pending"} : u[x] = q[x]
    BY <2>5, <2>10, <2>11, BesideField, Zenon
  <2>13. /\ u.cl = q.cl /\ u.ch = q.ch /\ u.cf = q.cf /\ u.pca_prescaler = q.pca_prescaler
         /\ u.pca_t0_overflow_pending = q.pca_t0_overflow_pending
    BY <2>12, SMT
  <2>14. Beside(s, u, PcaFields)
    <3>1. Beside(s, q, {"pca_prescaler", "pca_t0_overflow_pending"} \cup {"cl", "ch", "cf"})
      BY <1>1, <2>6, BesideThen, Zenon
    <3>2. Beside(s, u, ({"pca_prescaler", "pca_t0_overflow_pending"} \cup {"cl", "ch", "cf"}) \cup ModuleFields)
      BY <2>10, <3>1, BesideThen, Zenon
    <3>3. ({"pca_prescaler", "pca_t0_overflow_pending"} \cup {"cl", "ch", "cf"}) \cup ModuleFields
          \subseteq PcaFields
      BY SMT DEF PcaFields
    <3> QED BY <3>2, <3>3, BesideMore, Zenon
  <2>15. Word(p) = Word(s) /\ Word(u) = Word(q) BY <2>4, <2>13, Zenon DEF Word
  <2>16. u.cl = (s.cl + 1) % Radix BY <2>4, <2>5, <2>13, Zenon
  <2>17. ASSUME NEW k \in Module, Drives(s, k)
         PROVE  /\ u.ccapl[k] = IF u.cl = 0 THEN s.ccaph[k] ELSE s.ccapl[k]
                /\ u.latch[PcaPin(s, k)] = IF u.cl >= u.ccapl[k] THEN 1 ELSE 0
    <3>1. Drives(q, k) BY <2>4, <2>9, <2>17, Zenon DEF Drives
    <3>2. Driven(q, u, k) BY <2>10, <3>1, Zenon
    <3>3. PcaPin(q, k) = PcaPin(s, k) BY <2>4, <2>9, Zenon DEF PcaPin
    <3>4. /\ u.ccapl[k] = IF q.cl = 0 THEN q.ccaph[k] ELSE q.ccapl[k]
          /\ u.latch[PcaPin(q, k)] = IF q.cl >= u.ccapl[k] THEN 1 ELSE 0
      BY <3>2, Zenon DEF Driven
    <3>5. q.ccaph = s.ccaph /\ q.ccapl = s.ccapl /\ q.cl = u.cl BY <2>4, <2>9, <2>13, Zenon
    <3> QED BY <3>3, <3>4, <3>5, Zenon
  <2>18. /\ Word(s) # Radix * Radix - 1 => Word(u) = Word(s) + 1 /\ u.cf = s.cf
         /\ Word(s) = Radix * Radix - 1 => Word(u) = 0 /\ u.cf = TRUE
    BY <2>4, <2>5, <2>13, <2>15, Zenon
  <2>19. u.pca_prescaler = p.pca_prescaler /\ u.pca_t0_overflow_pending = p.pca_t0_overflow_pending
    BY <2>9, <2>13, Zenon
  <2> HIDE DEF r
  <2> QED BY <1>5, <2>1, <2>10, <2>14, <2>16, <2>17, <2>18, <2>19, Zenon DEF r, p
<1> QED BY <1>2, <1>3, <1>4, <1>5, Zenon

-----------------------------------------------------------------------------
(* One clock, stage by stage.                                              *)

\* The watchdog.
LEMMA WdtIs ==
  ASSUME NEW s, Typed(s)
  PROVE  LET r == WdtTick(s)
             n == (s.wdt_prescaler_cnt + 1) % WdtRadix
             up == s.wdt_counter + 1
         IN  /\ Typed(r)
             /\ ~s.en_wdt => r = s
             /\ s.en_wdt /\ n < Divisor(s.ps) =>
                  /\ r.wdt_prescaler_cnt = n /\ r.wdt_counter = s.wdt_counter
                  /\ r.wdt_flag = s.wdt_flag
             /\ s.en_wdt /\ ~(n < Divisor(s.ps)) =>
                  /\ r.wdt_prescaler_cnt = 0
                  /\ r.wdt_counter = IF up >= WdtLimit THEN 0 ELSE up
                  /\ r.wdt_flag = (s.wdt_flag \/ up >= WdtLimit)
<1> DEFINE r == WdtTick(s)
           n == (s.wdt_prescaler_cnt + 1) % WdtRadix
           up == s.wdt_counter + 1
           a == [s EXCEPT !.wdt_prescaler_cnt = n]
           b == [s EXCEPT !.wdt_prescaler_cnt = 0,
                          !.wdt_counter = IF up >= WdtLimit THEN 0 ELSE up,
                          !.wdt_flag = @ \/ up >= WdtLimit]
<1>1. /\ n \in 0 .. WdtRadix - 1 /\ Divisor(s.ps) \in Nat
      /\ n < Divisor(s.ps) \/ n >= Divisor(s.ps)
      /\ n < Divisor(s.ps) => ~(n >= Divisor(s.ps))
  <2>1. /\ n \in 0 .. WdtRadix - 1 /\ Divisor(s.ps) \in Nat
        /\ n < Divisor(s.ps) \/ n >= Divisor(s.ps)
    BY WdtCounts, Zenon
  <2>2. WdtRadix \in Nat BY Numbers, SMT
  <2> HIDE DEF n
  <2> QED BY <2>1, <2>2
<1>2. /\ s.wdt_counter \in 0 .. WdtLimit - 1 /\ s.en_wdt \in BOOLEAN /\ s.wdt_flag \in BOOLEAN
      /\ s.wdt_prescaler_cnt \in 0 .. WdtRadix - 1
  BY AdcIs, Zenon
<1>3. {"wdt_prescaler_cnt", "wdt_counter", "wdt_flag"} \subseteq DOMAIN s BY IsField, SMT DEF Typed
<1>4. (IF up >= WdtLimit THEN 0 ELSE up) \in 0 .. WdtLimit - 1 /\ (up >= WdtLimit) \in BOOLEAN
      /\ 0 \in 0 .. WdtRadix - 1
  BY <1>2, Numbers, SMT
<1> HIDE DEF n, up
<1>5. CASE ~s.en_wdt
  <2>1. r = s BY <1>5, Zenon DEF WdtTick
  <2> QED BY <1>5, <2>1, Zenon
<1>6. CASE s.en_wdt /\ n < Divisor(s.ps)
  <2>1. r = a BY <1>1, <1>6, Zenon DEF WdtTick, n
  <2>2. /\ a.wdt_prescaler_cnt = n /\ a.wdt_counter = s.wdt_counter /\ a.wdt_flag = s.wdt_flag
    BY <1>3, Zenon
  <2>3. Beside(s, a, {"wdt_prescaler_cnt"}) BY Zenon DEF Beside
  <2> HIDE DEF a
  <2>4. \A x \in {"wdt_prescaler_cnt"} \cap Fields : a[x] \in Held[x] BY <1>1, <2>2, AdcHeld, Zenon
  <2>5. Typed(a) BY <2>3, <2>4, TypedBeside, Zenon
  <2> QED BY <1>6, <2>1, <2>2, <2>5, Zenon DEF n
<1>7. CASE s.en_wdt /\ ~(n < Divisor(s.ps))
  <2>1. r = b BY <1>1, <1>7, Zenon DEF WdtTick, n, up
  <2>2. /\ b.wdt_prescaler_cnt = 0 /\ b.wdt_counter = IF up >= WdtLimit THEN 0 ELSE up
        /\ b.wdt_flag = (s.wdt_flag \/ up >= WdtLimit)
    BY <1>3, Zenon
  <2>3. Beside(s, b, {"wdt_prescaler_cnt", "wdt_counter", "wdt_flag"}) BY Zenon DEF Beside
  <2> HIDE DEF b
  <2>4. b.wdt_flag \in BOOLEAN BY <1>2, <1>4, <2>2, Zenon
  <2>5. /\ b["wdt_prescaler_cnt"] \in Held["wdt_prescaler_cnt"] /\ b["wdt_counter"] \in Held["wdt_counter"]
        /\ b["wdt_flag"] \in Held["wdt_flag"]
    BY <1>4, <2>2, <2>4, AdcHeld, Zenon
  <2>6. \A x \in {"wdt_prescaler_cnt", "wdt_counter", "wdt_flag"} \cap Fields : b[x] \in Held[x]
    BY <2>5, SMT
  <2>7. Typed(b) BY <2>3, <2>6, TypedBeside, Zenon
  <2> QED BY <1>7, <2>1, <2>2, <2>7, Zenon DEF n, up
<1> QED BY <1>5, <1>6, <1>7, Zenon DEF n

Begun(s) == [s EXCEPT !.osc_clocks = (@ + 1) % Machine]
Timed(s) == Timer1Tick(Timer0Tick(Begun(s)))
Out(s) == ClockOut1(ClockOut0(BrtTick(Timed(s)), Timer0Overflows(Begun(s))))
Converted(s, in) == AdcTick(Out(s), in.analog)
Swept(s, in) == PcaTick(Converted(s, in), in.level)

\* The board's side.
Inputs(in) == in.level \in [Pin -> 0 .. 1] /\ in.analog \in [Channel -> Counts]

\* A clock is these stages.
LEMMA Stages ==
  ASSUME NEW s, NEW in
  PROVE  /\ s.part # "STC89" => Clocked(s, in) = WdtTick(Swept(s, in))
         /\ s.part = "STC89" => Clocked(s, in) = Timer2Tick(Timed(s))
  BY Zenon DEF Clocked, Swept, Converted, Out, Timed, Begun

\* The clock of the part.
LEMMA BegunIs ==
  ASSUME NEW s, Typed(s)
  PROVE  /\ Typed(Begun(s)) /\ Beside(s, Begun(s), {"osc_clocks"})
         /\ Begun(s).osc_clocks = (s.osc_clocks + 1) % Machine
<1> DEFINE r == Begun(s)
<1>1. s.osc_clocks \in 0 .. Machine - 1 BY TimerIs, Zenon
<1>2. "osc_clocks" \in DOMAIN s BY IsField, Zenon DEF Typed
<1>3. r.osc_clocks = (s.osc_clocks + 1) % Machine BY <1>2, Zenon DEF Begun
<1>4. Beside(s, r, {"osc_clocks"}) BY Zenon DEF Begun, Beside
<1>8. \A h \in 0 .. Machine - 1 : (h + 1) % Machine \in 0 .. Machine - 1 BY Numbers, DivMod, SMT
<1>5. (s.osc_clocks + 1) % Machine \in 0 .. Machine - 1 BY <1>1, <1>8, Zenon
<1> HIDE DEF r
<1>6. \A x \in {"osc_clocks"} \cap Fields : r[x] \in Held[x] BY <1>3, <1>5, TimerHeld, Zenon
<1>7. Typed(r) BY <1>4, <1>6, TypedBeside, Zenon
<1> QED BY <1>3, <1>4, <1>7, Zenon DEF r

TimedFields == {"osc_clocks", "timer0_prescaler", "tl0", "th0", "tf0", "tf1",
                "timer1_prescaler", "tl1", "th1"}
OutFields == TimedFields \cup {"brt_prescaler", "t2", "pca_t0_overflow_pending", "latch", "last_tf1"}
AdcFields == {"adc_countdown", "flag", "start", "adc_res", "adc_resl"}
WdtFields == {"wdt_prescaler_cnt", "wdt_counter", "wdt_flag"}

\* Timers 0 and 1.
LEMMA TimedIs ==
  ASSUME NEW s, Typed(s)
  PROVE  /\ Typed(Timer0Tick(Begun(s))) /\ Typed(Timed(s)) /\ Beside(s, Timed(s), TimedFields)
<1>1. Typed(Begun(s)) /\ Beside(s, Begun(s), {"osc_clocks"}) BY BegunIs, Zenon
<1>2. Typed(Timer0Tick(Begun(s))) BY <1>1, Timer0Typed, Zenon
<1>3. Typed(Timed(s)) BY <1>2, Timer1Typed, Zenon DEF Timed
<1>4. Beside(Begun(s), Timer0Tick(Begun(s)), {"timer0_prescaler", "tl0", "tf0", "th0", "tf1"})
  BY Timer0Beside, Zenon
<1>5. Beside(Timer0Tick(Begun(s)), Timed(s), {"timer1_prescaler", "tl1", "th1", "tf1"})
  BY Timer1Beside, Zenon DEF Timed
<1>6. Beside(s, Timed(s), {"osc_clocks"} \cup {"timer0_prescaler", "tl0", "tf0", "th0", "tf1"}
                          \cup {"timer1_prescaler", "tl1", "th1", "tf1"})
  BY <1>1, <1>4, <1>5, BesideThen, Zenon
<1>7. {"osc_clocks"} \cup {"timer0_prescaler", "tl0", "tf0", "th0", "tf1"}
      \cup {"timer1_prescaler", "tl1", "th1", "tf1"} \subseteq TimedFields
  BY SMT DEF TimedFields
<1> QED BY <1>2, <1>3, <1>6, <1>7, BesideMore, Zenon

\* The baud-rate timer and the clock outputs.
LEMMA OutIs ==
  ASSUME NEW s, Typed(s)
  PROVE  /\ Typed(Out(s)) /\ Beside(s, Out(s), OutFields)
         /\ Beside(Timed(s), Out(s), OutFields \ TimedFields)
         /\ Out(s).pca_t0_overflow_pending = (s.pca_t0_overflow_pending \/ Timer0Overflows(Begun(s)))
<1> DEFINE a == BrtTick(Timed(s))
           b == ClockOut0(a, Timer0Overflows(Begun(s)))
           o == Timer0Overflows(Begun(s))
<1>0. o \in BOOLEAN BY DEF Timer0Overflows
<1>1. Typed(Timed(s)) /\ Beside(s, Timed(s), TimedFields) BY TimedIs, Zenon
<1>2. Typed(a) /\ Beside(Timed(s), a, {"brt_prescaler", "t2"}) BY <1>1, BrtTyped, BrtBeside, Zenon
<1> HIDE DEF a, o
<1>3. Typed(b) /\ b.pca_t0_overflow_pending = (a.pca_t0_overflow_pending \/ o)
      /\ Beside(a, b, {"pca_t0_overflow_pending", "latch"})
  BY <1>0, <1>2, ClockOut0Typed, ClockOut0Beside, Zenon DEF o
<1> HIDE DEF b
<1>4. Out(s) = ClockOut1(b) BY Zenon DEF Out, a, b
<1>5. Typed(Out(s)) /\ Beside(b, Out(s), {"last_tf1", "latch"})
  BY <1>3, <1>4, ClockOut1Typed, ClockOut1Beside, Zenon
<1>6. Beside(Timed(s), Out(s), {"brt_prescaler", "t2"} \cup {"pca_t0_overflow_pending", "latch"}
                               \cup {"last_tf1", "latch"})
  BY <1>2, <1>3, <1>5, BesideThen, Zenon
<1>7. {"brt_prescaler", "t2"} \cup {"pca_t0_overflow_pending", "latch"} \cup {"last_tf1", "latch"}
      \subseteq OutFields \ TimedFields
  BY SMT DEF OutFields, TimedFields
<1>8. Beside(Timed(s), Out(s), OutFields \ TimedFields)
  <2> DEFINE T == {"brt_prescaler", "t2"} \cup {"pca_t0_overflow_pending", "latch"} \cup {"last_tf1", "latch"}
             U == OutFields \ TimedFields
  <2> HIDE DEF T, U
  <2>1. Beside(Timed(s), Out(s), T) BY <1>6 DEF T
  <2>2. T \subseteq U BY <1>7 DEF T, U
  <2>3. Beside(Timed(s), Out(s), U) BY <2>1, <2>2, BesideMore, Zenon
  <2> QED BY <2>3 DEF U
<1>9. Beside(s, Out(s), OutFields)
  <2>1. Beside(s, Out(s), TimedFields \cup (OutFields \ TimedFields)) BY <1>1, <1>8, BesideThen, Zenon
  <2>2. TimedFields \cup (OutFields \ TimedFields) \subseteq OutFields BY SMT DEF OutFields
  <2> QED BY <2>1, <2>2, BesideMore, Zenon
<1>10. "pca_t0_overflow_pending" \in Fields BY IsField, Zenon
<1>11. /\ "pca_t0_overflow_pending" \notin TimedFields
       /\ "pca_t0_overflow_pending" \notin {"brt_prescaler", "t2"}
       /\ "pca_t0_overflow_pending" \notin {"last_tf1", "latch"}
  BY SMT DEF TimedFields
<1>12. Timed(s)["pca_t0_overflow_pending"] = s["pca_t0_overflow_pending"]
  BY <1>1, <1>10, <1>11, BesideField, Zenon
<1>13. a["pca_t0_overflow_pending"] = Timed(s)["pca_t0_overflow_pending"]
  BY <1>1, <1>2, <1>10, <1>11, BesideField, Zenon
<1>14. Out(s)["pca_t0_overflow_pending"] = b["pca_t0_overflow_pending"]
  BY <1>3, <1>5, <1>10, <1>11, BesideField, Zenon
<1> QED BY <1>3, <1>5, <1>8, <1>9, <1>12, <1>13, <1>14, Zenon DEF o

\* The ADC after them.
LEMMA ConvertedIs ==
  ASSUME NEW s, Typed(s), NEW in, Inputs(in)
  PROVE  /\ Typed(Converted(s, in)) /\ Beside(Out(s), Converted(s, in), AdcFields)
         /\ Beside(s, Converted(s, in), OutFields \cup AdcFields)
<1>1. Typed(Out(s)) /\ Beside(s, Out(s), OutFields) BY OutIs, Zenon
<1>2. in.analog \in [Channel -> Counts] BY Zenon DEF Inputs
<1>3. Typed(Converted(s, in)) BY <1>1, <1>2, AdcTyped, Zenon DEF Converted
<1>4. Beside(Out(s), Converted(s, in), AdcFields) BY AdcBeside, Zenon DEF Converted, AdcFields
<1> QED BY <1>1, <1>3, <1>4, BesideThen, Zenon

\* The PCA after it.
LEMMA SweptIs ==
  ASSUME NEW s, Typed(s), NEW in, Inputs(in)
  PROVE  /\ Typed(Swept(s, in)) /\ Beside(Converted(s, in), Swept(s, in), PcaFields)
         /\ Beside(s, Swept(s, in), (OutFields \cup AdcFields) \cup PcaFields)
<1>1. Typed(Converted(s, in)) /\ Beside(s, Converted(s, in), OutFields \cup AdcFields)
  BY ConvertedIs, Zenon
<1>2. in.level \in [Pin -> 0 .. 1] BY Zenon DEF Inputs
<1>3. Typed(Swept(s, in)) /\ Beside(Converted(s, in), Swept(s, in), PcaFields)
  BY <1>1, <1>2, PcaTickIs, Zenon DEF Swept
<1> QED BY <1>1, <1>3, BesideThen, Zenon

ClockedFields == ((OutFields \cup AdcFields) \cup PcaFields) \cup WdtFields

\* A clock keeps the types.  An STC89 has no more than its timers.
LEMMA ClockedIs ==
  ASSUME NEW s, Typed(s), NEW in, Inputs(in)
  PROVE  /\ Typed(Clocked(s, in))
         /\ s.part # "STC89" => /\ Beside(s, Clocked(s, in), ClockedFields)
                                /\ Beside(Swept(s, in), Clocked(s, in), WdtFields)
         /\ s.part = "STC89" => /\ Beside(s, Clocked(s, in), TimedFields \cup {"t2", "tf2"})
                                /\ Beside(Timed(s), Clocked(s, in), {"t2", "tf2"})
<1> DEFINE r == Clocked(s, in)
<1>1. CASE s.part # "STC89"
  <2>1. r = WdtTick(Swept(s, in)) BY <1>1, Stages, Zenon
  <2>2. /\ Typed(Swept(s, in)) /\ Beside(s, Swept(s, in), (OutFields \cup AdcFields) \cup PcaFields)
    BY SweptIs, Zenon
  <2>3. Typed(r) BY <2>1, <2>2, WdtIs, Zenon
  <2>4. Beside(Swept(s, in), r, WdtFields) BY <2>1, <2>2, WdtBeside, Zenon DEF WdtFields
  <2>5. Beside(s, r, ClockedFields) BY <2>2, <2>4, BesideThen, Zenon DEF ClockedFields
  <2> QED BY <1>1, <2>3, <2>4, <2>5, Zenon
<1>2. CASE s.part = "STC89"
  <2>1. r = Timer2Tick(Timed(s)) BY <1>2, Stages, Zenon
  <2>2. Typed(Timed(s)) /\ Beside(s, Timed(s), TimedFields) BY TimedIs, Zenon
  <2>3. Typed(r) BY <2>1, <2>2, Timer2Typed, Zenon
  <2>4. Beside(Timed(s), r, {"t2", "tf2"}) BY <2>1, Timer2Beside, Zenon
  <2>5. Beside(s, r, TimedFields \cup {"t2", "tf2"}) BY <2>2, <2>4, BesideThen, Zenon
  <2> QED BY <1>2, <2>3, <2>4, <2>5, Zenon
<1> QED BY <1>1, <1>2, Zenon

Config == {"gate0", "ct0", "mode0", "tr0", "t0x12", "gate1", "ct1", "mode1", "tr1", "t1x12",
           "tr2", "cp", "baud2", "rcap2", "cr", "cps", "part", "ccapm", "pca_p4",
           "chs", "p1asf", "adrj", "en_wdt", "ps"}

\* What a stage moves is not configuration.
LEMMA ConfigKept ==
  \A x \in Config : x \in Fields /\ x \notin ClockedFields /\ x \notin TimedFields \cup {"t2", "tf2"}
<1>1. ClockedFields = {
        "osc_clocks", "timer0_prescaler", "tl0", "th0", "tf0", "tf1", "timer1_prescaler", "tl1", "th1",
        "brt_prescaler", "t2", "pca_t0_overflow_pending", "latch", "last_tf1",
        "adc_countdown", "flag", "start", "adc_res", "adc_resl",
        "pca_prescaler", "cl", "ch", "cf", "ccapl", "ccaph", "epcl", "ccf", "pca_cex_last",
        "wdt_prescaler_cnt", "wdt_counter", "wdt_flag"}
  BY SMT DEF ClockedFields, OutFields, TimedFields, AdcFields, PcaFields, ModuleFields, WdtFields
<1>2. TimedFields \cup {"t2", "tf2"} = {
        "osc_clocks", "timer0_prescaler", "tl0", "th0", "tf0", "tf1", "timer1_prescaler", "tl1", "th1",
        "t2", "tf2"}
  BY SMT DEF TimedFields
<1>3. \A x \in Config : x \in Fields BY IsField, SMT DEF Config
<1>4. \A x \in Config : x \notin ClockedFields BY <1>1, SMT DEF Config
<1>5. \A x \in Config : x \notin TimedFields \cup {"t2", "tf2"} BY <1>2, SMT DEF Config
<1> QED BY <1>3, <1>4, <1>5, Zenon

\* The same field by field.
SameConfig(s, r) ==
  /\ r.gate0 = s.gate0 /\ r.ct0 = s.ct0 /\ r.mode0 = s.mode0 /\ r.tr0 = s.tr0 /\ r.t0x12 = s.t0x12
  /\ r.gate1 = s.gate1 /\ r.ct1 = s.ct1 /\ r.mode1 = s.mode1 /\ r.tr1 = s.tr1 /\ r.t1x12 = s.t1x12
  /\ r.tr2 = s.tr2 /\ r.cp = s.cp /\ r.baud2 = s.baud2 /\ r.rcap2 = s.rcap2
  /\ r.cr = s.cr /\ r.cps = s.cps /\ r.part = s.part /\ r.ccapm = s.ccapm /\ r.pca_p4 = s.pca_p4
  /\ r.chs = s.chs /\ r.p1asf = s.p1asf /\ r.adrj = s.adrj /\ r.en_wdt = s.en_wdt /\ r.ps = s.ps

\* No stage of a clock changes the configuration.
LEMMA ConfigSame ==
  ASSUME NEW s, NEW r, \A x \in Config : r[x] = s[x]
  PROVE  SameConfig(s, r)
<1>1. /\ r.gate0 = s.gate0 /\ r.ct0 = s.ct0 /\ r.mode0 = s.mode0 /\ r.tr0 = s.tr0 /\ r.t0x12 = s.t0x12
      /\ r.gate1 = s.gate1 /\ r.ct1 = s.ct1 /\ r.mode1 = s.mode1 /\ r.tr1 = s.tr1 /\ r.t1x12 = s.t1x12
  BY SMT DEF Config
<1>2. /\ r.tr2 = s.tr2 /\ r.cp = s.cp /\ r.baud2 = s.baud2 /\ r.rcap2 = s.rcap2
      /\ r.cr = s.cr /\ r.cps = s.cps /\ r.part = s.part /\ r.ccapm = s.ccapm /\ r.pca_p4 = s.pca_p4
  BY SMT DEF Config
<1>3. r.chs = s.chs /\ r.p1asf = s.p1asf /\ r.adrj = s.adrj /\ r.en_wdt = s.en_wdt /\ r.ps = s.ps
  BY SMT DEF Config
<1> QED BY <1>1, <1>2, <1>3, Zenon DEF SameConfig

\* So of the stages a property looks at.
LEMMA ClockConfig ==
  ASSUME NEW s, Typed(s), NEW in, Inputs(in)
  PROVE  /\ SameConfig(s, Clocked(s, in)) /\ SameConfig(s, Begun(s)) /\ SameConfig(s, Timer0Tick(Begun(s)))
         /\ SameConfig(s, Timed(s)) /\ SameConfig(s, Out(s)) /\ SameConfig(s, Converted(s, in))
         /\ SameConfig(s, Swept(s, in))
<1>1. \A x \in Config : x \in Fields /\ x \notin ClockedFields /\ x \notin TimedFields \cup {"t2", "tf2"}
  BY ConfigKept
<1>2. ASSUME NEW S, S \subseteq ClockedFields, NEW r, Beside(s, r, S) PROVE SameConfig(s, r)
  <2>1. \A x \in Config : r[x] = s[x] BY <1>1, <1>2, BesideField, Zenon
  <2> QED BY <2>1, ConfigSame, Zenon
<1>3. TimedFields \subseteq ClockedFields /\ OutFields \subseteq ClockedFields
      /\ OutFields \cup AdcFields \subseteq ClockedFields
      /\ (OutFields \cup AdcFields) \cup PcaFields \subseteq ClockedFields
      /\ {"osc_clocks"} \subseteq ClockedFields
      /\ {"osc_clocks"} \cup {"timer0_prescaler", "tl0", "tf0", "th0", "tf1"} \subseteq ClockedFields
  <2>1. /\ TimedFields \subseteq ClockedFields /\ OutFields \subseteq ClockedFields
        /\ OutFields \cup AdcFields \subseteq ClockedFields
        /\ (OutFields \cup AdcFields) \cup PcaFields \subseteq ClockedFields
    BY Zenon DEF ClockedFields, OutFields
  <2>2. {"osc_clocks"} \cup {"timer0_prescaler", "tl0", "tf0", "th0", "tf1"} \subseteq TimedFields
    BY SMT DEF TimedFields
  <2>3. {"osc_clocks"} \subseteq TimedFields BY Zenon DEF TimedFields
  <2> QED BY <2>1, <2>2, <2>3, Zenon
<1>4. SameConfig(s, Timed(s)) BY <1>2, <1>3, TimedIs, Zenon
<1>5. SameConfig(s, Out(s)) BY <1>2, <1>3, OutIs, Zenon
<1>6. SameConfig(s, Converted(s, in)) BY <1>2, <1>3, ConvertedIs, Zenon
<1>7. SameConfig(s, Swept(s, in)) BY <1>2, <1>3, SweptIs, Zenon
<1>8. SameConfig(s, Begun(s)) BY <1>2, <1>3, BegunIs, Zenon
<1>9. SameConfig(s, Timer0Tick(Begun(s)))
  <2>1. Beside(s, Begun(s), {"osc_clocks"}) BY BegunIs, Zenon
  <2>2. Beside(s, Timer0Tick(Begun(s)), {"osc_clocks"} \cup {"timer0_prescaler", "tl0", "tf0", "th0", "tf1"})
    BY <2>1, Timer0Beside, BesideThen, Zenon
  <2> QED BY <1>2, <1>3, <2>2, Zenon
<1>10. SameConfig(s, Clocked(s, in))
  <2>1. CASE s.part # "STC89" BY <1>2, <2>1, ClockedIs, Zenon
  <2>2. CASE s.part = "STC89"
    <3>1. Beside(s, Clocked(s, in), TimedFields \cup {"t2", "tf2"}) BY <2>2, ClockedIs, Zenon
    <3>2. \A x \in Config : Clocked(s, in)[x] = s[x] BY <1>1, <3>1, BesideField, Zenon
    <3> QED BY <3>2, ConfigSame, Zenon
  <2> QED BY <2>1, <2>2
<1> QED BY <1>4, <1>5, <1>6, <1>7, <1>8, <1>9, <1>10, Zenon

\* Fields that are none of a set, and agree.
Spares(S, X) == \A x \in X : x \in Fields /\ x \notin S
Agree(s, t, X) == \A x \in X : t[x] = s[x]

\* Fields a stage leaves alone.
LEMMA BesideFields ==
  ASSUME NEW s, NEW t, NEW S, Typed(s), Beside(s, t, S), NEW X, Spares(S, X)
  PROVE  Agree(s, t, X)
  BY Zenon DEF Typed, Beside, Spares, Agree

\* After Timers 0 and 1 nothing touches their registers.
LEMMA TimedStays ==
  ASSUME NEW s, Typed(s), NEW in, Inputs(in)
  PROVE  \A x \in TimedFields : Clocked(s, in)[x] = Timed(s)[x]
<1> DEFINE D == OutFields \ TimedFields  E == {"t2", "tf2"}
<1>1. /\ Spares(D, TimedFields) /\ Spares(AdcFields, TimedFields) /\ Spares(PcaFields, TimedFields)
      /\ Spares(WdtFields, TimedFields) /\ Spares(E, TimedFields)
  <2>1. \A x \in TimedFields : /\ x \in Fields /\ x \notin D /\ x \notin AdcFields
                               /\ x \notin PcaFields /\ x \notin WdtFields /\ x \notin E
    BY IsField, SMT DEF TimedFields, AdcFields, PcaFields, ModuleFields, WdtFields
  <2> HIDE DEF D, E
  <2> QED BY <2>1, Zenon DEF Spares
<1>2. CASE s.part # "STC89"
  <2>1. /\ Typed(Timed(s)) /\ Typed(Out(s)) /\ Typed(Converted(s, in)) /\ Typed(Swept(s, in))
        /\ Beside(Timed(s), Out(s), D)
        /\ Beside(Out(s), Converted(s, in), AdcFields)
        /\ Beside(Converted(s, in), Swept(s, in), PcaFields)
        /\ Beside(Swept(s, in), Clocked(s, in), WdtFields)
    BY <1>2, TimedIs, OutIs, ConvertedIs, SweptIs, ClockedIs, Zenon
  <2> HIDE DEF D
  <2>2. Agree(Timed(s), Out(s), TimedFields) BY <1>1, <2>1, BesideFields, Zenon
  <2>3. Agree(Out(s), Converted(s, in), TimedFields) BY <1>1, <2>1, BesideFields, Zenon
  <2>4. Agree(Converted(s, in), Swept(s, in), TimedFields) BY <1>1, <2>1, BesideFields, Zenon
  <2>5. Agree(Swept(s, in), Clocked(s, in), TimedFields) BY <1>1, <2>1, BesideFields, Zenon
  <2> QED BY <2>2, <2>3, <2>4, <2>5, Zenon DEF Agree
<1>3. CASE s.part = "STC89"
  <2>1. Typed(Timed(s)) /\ Beside(Timed(s), Clocked(s, in), E)
    BY <1>3, TimedIs, ClockedIs, Zenon
  <2> HIDE DEF E
  <2>2. Agree(Timed(s), Clocked(s, in), TimedFields) BY <1>1, <2>1, BesideFields, Zenon
  <2> QED BY <2>2, Zenon DEF Agree
<1> QED BY <1>2, <1>3

\* Timer 1 is due.
Timer1Due(s) == s.t1x12 \/ s.timer1_prescaler + 1 = Machine
Timer1Runs(s) == ~s.gate1 /\ s.tr1 /\ ~s.ct1 /\ s.mode1 # 3

\* What a clock does to Timers 0 and 1.
LEMMA TimersClock ==
  ASSUME NEW s, Typed(s), NEW in, Inputs(in)
  PROVE  LET r == Clocked(s, in)
             t == Counted(s.mode0, s.tl0, s.th0)
             u == Counted(s.mode1, s.tl1, s.th1)
             split == s.mode0 = 3 /\ s.tr1
             due0 == Timer0Due(s) /\ Timer0Runs(s)
             due1 == Timer1Due(s) /\ Timer1Runs(s)
         IN  /\ r.osc_clocks = (s.osc_clocks + 1) % Machine
             /\ r.timer0_prescaler = IF s.t0x12 THEN s.timer0_prescaler ELSE Prescaled(s.timer0_prescaler)
             /\ r.timer1_prescaler = IF s.t1x12 THEN s.timer1_prescaler ELSE Prescaled(s.timer1_prescaler)
             /\ due0 => /\ r.tl0 = t.tl /\ r.tf0 = (s.tf0 \/ t.over)
                        /\ r.th0 = IF split THEN (t.th + 1) % Radix ELSE t.th
             /\ ~due0 => r.tl0 = s.tl0 /\ r.th0 = s.th0 /\ r.tf0 = s.tf0
             /\ due1 => r.tl1 = u.tl /\ r.th1 = u.th
             /\ ~due1 => r.tl1 = s.tl1 /\ r.th1 = s.th1
             /\ r.tf1 = (s.tf1 \/ (due0 /\ split /\ t.th = Radix - 1)
                         \/ (due1 /\ u.over /\ s.mode0 # 3))
<1> DEFINE b == Begun(s)  a == Timer0Tick(b)  d == Timed(s)  r == Clocked(s, in)
           t == Counted(s.mode0, s.tl0, s.th0)
           u == Counted(s.mode1, s.tl1, s.th1)
           split == s.mode0 = 3 /\ s.tr1
           due0 == Timer0Due(s) /\ Timer0Runs(s)
           due1 == Timer1Due(s) /\ Timer1Runs(s)
<1>1. \A x \in TimedFields : r[x] = d[x] BY TimedStays, Zenon
<1> DEFINE S1 == {"osc_clocks"}
           S2 == {"timer0_prescaler", "tl0", "tf0", "th0", "tf1"}
           S3 == {"timer1_prescaler", "tl1", "th1", "tf1"}
           X1 == {"timer0_prescaler", "tl0", "tf0", "th0", "tf1", "timer1_prescaler", "tl1", "th1"}
           X2 == {"osc_clocks", "timer1_prescaler", "tl1", "th1"}
           X3 == {"osc_clocks", "timer0_prescaler", "tl0", "tf0", "th0"}
<1>2. Typed(b) /\ Typed(a) /\ Typed(d) /\ Beside(s, b, S1) /\ b.osc_clocks = (s.osc_clocks + 1) % Machine
  BY BegunIs, TimedIs, Zenon
<1>3. d = Timer1Tick(a) BY Zenon DEF Timed
<1>4. SameConfig(s, b) /\ SameConfig(s, a) BY ClockConfig, Zenon
<1>5. Beside(b, a, S2) BY Timer0Beside, Zenon
<1>6. Beside(a, d, S3) BY <1>3, Timer1Beside, Zenon
<1>7. Spares(S1, X1) /\ Spares(S2, X2) /\ Spares(S3, X3) BY IsField, SMT DEF Spares
<1> HIDE DEF a, b, d, r, S1, S2, S3, X1, X2, X3
<1>8. Agree(s, b, X1) BY <1>2, <1>7, BesideFields, Zenon
<1>9. Agree(b, a, X2) BY <1>2, <1>5, <1>7, BesideFields, Zenon
<1>10. Agree(a, d, X3) BY <1>2, <1>6, <1>7, BesideFields, Zenon
<1>11. /\ b.timer0_prescaler = s.timer0_prescaler /\ b.tl0 = s.tl0 /\ b.tf0 = s.tf0 /\ b.th0 = s.th0
       /\ b.tf1 = s.tf1 /\ b.timer1_prescaler = s.timer1_prescaler /\ b.tl1 = s.tl1 /\ b.th1 = s.th1
  BY <1>8, SMT DEF X1, Agree
<1>12. /\ a.osc_clocks = b.osc_clocks /\ a.timer1_prescaler = b.timer1_prescaler /\ a.tl1 = b.tl1
       /\ a.th1 = b.th1
  BY <1>9, SMT DEF X2, Agree
<1>13. /\ d.osc_clocks = a.osc_clocks /\ d.timer0_prescaler = a.timer0_prescaler /\ d.tl0 = a.tl0
       /\ d.tf0 = a.tf0 /\ d.th0 = a.th0
  BY <1>10, SMT DEF X3, Agree
<1>14. /\ r.osc_clocks = d.osc_clocks /\ r.timer0_prescaler = d.timer0_prescaler /\ r.tl0 = d.tl0
       /\ r.th0 = d.th0 /\ r.tf0 = d.tf0 /\ r.tf1 = d.tf1 /\ r.timer1_prescaler = d.timer1_prescaler
       /\ r.tl1 = d.tl1 /\ r.th1 = d.th1
  BY <1>1, SMT DEF TimedFields
<1>15. /\ b.t0x12 = s.t0x12 /\ b.gate0 = s.gate0 /\ b.tr0 = s.tr0 /\ b.ct0 = s.ct0 /\ b.mode0 = s.mode0
       /\ b.tr1 = s.tr1
  BY <1>4, Zenon DEF SameConfig
<1>16. (Timer0Due(b) <=> Timer0Due(s)) /\ (Timer0Runs(b) <=> Timer0Runs(s))
  BY <1>11, <1>15, Zenon DEF Timer0Due, Timer0Runs
<1> HIDE DEF t, u
<1>17. /\ a.timer0_prescaler = IF s.t0x12 THEN s.timer0_prescaler ELSE Prescaled(s.timer0_prescaler)
       /\ due0 => /\ a.tl0 = t.tl /\ a.tf0 = (s.tf0 \/ t.over)
                  /\ a.th0 = (IF split THEN (t.th + 1) % Radix ELSE t.th)
                  /\ a.tf1 = (s.tf1 \/ (split /\ t.th = Radix - 1))
       /\ ~due0 => a.tl0 = s.tl0 /\ a.th0 = s.th0 /\ a.tf0 = s.tf0 /\ a.tf1 = s.tf1
  <2>1. /\ a.timer0_prescaler = IF b.t0x12 THEN b.timer0_prescaler ELSE Prescaled(b.timer0_prescaler)
        /\ Timer0Due(b) /\ Timer0Runs(b) =>
             /\ a.tl0 = Counted(b.mode0, b.tl0, b.th0).tl
             /\ a.th0 = IF b.mode0 = 3 /\ b.tr1 THEN (Counted(b.mode0, b.tl0, b.th0).th + 1) % Radix
                        ELSE Counted(b.mode0, b.tl0, b.th0).th
             /\ a.tf0 = (b.tf0 \/ Counted(b.mode0, b.tl0, b.th0).over)
             /\ a.tf1 = (b.tf1 \/ ((b.mode0 = 3 /\ b.tr1) /\ Counted(b.mode0, b.tl0, b.th0).th = Radix - 1))
        /\ ~(Timer0Due(b) /\ Timer0Runs(b)) =>
             a.tl0 = b.tl0 /\ a.th0 = b.th0 /\ a.tf0 = b.tf0 /\ a.tf1 = b.tf1
    BY <1>2, Timer0Effect, Zenon DEF a
  <2> QED BY <1>11, <1>15, <1>16, <2>1, Zenon DEF t
<1>18. /\ a.t1x12 = s.t1x12 /\ a.gate1 = s.gate1 /\ a.tr1 = s.tr1 /\ a.ct1 = s.ct1 /\ a.mode1 = s.mode1
       /\ a.mode0 = s.mode0
  BY <1>4, Zenon DEF SameConfig
<1>19. /\ d.timer1_prescaler = IF s.t1x12 THEN s.timer1_prescaler ELSE Prescaled(s.timer1_prescaler)
       /\ due1 => d.tl1 = u.tl /\ d.th1 = u.th /\ d.tf1 = (a.tf1 \/ (u.over /\ s.mode0 # 3))
       /\ ~due1 => d.tl1 = s.tl1 /\ d.th1 = s.th1 /\ d.tf1 = a.tf1
  <2>1. /\ d.timer1_prescaler = IF a.t1x12 THEN a.timer1_prescaler ELSE Prescaled(a.timer1_prescaler)
        /\ Timer1Due(a) /\ Timer1Runs(a) =>
             /\ d.tl1 = Counted(a.mode1, a.tl1, a.th1).tl /\ d.th1 = Counted(a.mode1, a.tl1, a.th1).th
             /\ d.tf1 = (a.tf1 \/ (Counted(a.mode1, a.tl1, a.th1).over /\ a.mode0 # 3))
        /\ ~(Timer1Due(a) /\ Timer1Runs(a)) => d.tl1 = a.tl1 /\ d.th1 = a.th1 /\ d.tf1 = a.tf1
    BY <1>2, <1>3, Timer1Effect, Zenon DEF Timer1Due, Timer1Runs
  <2>2. (Timer1Due(a) <=> Timer1Due(s)) /\ (Timer1Runs(a) <=> Timer1Runs(s))
    BY <1>11, <1>12, <1>18, Zenon DEF Timer1Due, Timer1Runs
  <2> QED BY <1>11, <1>12, <1>18, <2>1, <2>2, Zenon DEF u
<1>20. s.tf1 \in BOOLEAN BY TimerIs, Zenon
<1>21. a.tf1 = (s.tf1 \/ (due0 /\ split /\ t.th = Radix - 1))
  <2> HIDE DEF due0, split
  <2>1. CASE due0 BY <1>17, <2>1, Zenon
  <2>2. CASE ~due0 BY <1>17, <1>20, <2>2, Zenon
  <2> QED BY <2>1, <2>2
<1>22. d.tf1 = (s.tf1 \/ (due0 /\ split /\ t.th = Radix - 1) \/ (due1 /\ u.over /\ s.mode0 # 3))
  <2> HIDE DEF due0, due1, split
  <2>1. CASE due1 BY <1>19, <1>21, <2>1, Zenon
  <2>2. CASE ~due1 BY <1>19, <1>20, <1>21, <2>2, Zenon
  <2> QED BY <2>1, <2>2
<1> HIDE DEF due0, due1, split
<1>23. r.osc_clocks = (s.osc_clocks + 1) % Machine BY <1>2, <1>12, <1>13, <1>14, Zenon
<1>24. /\ due0 => r.tl0 = t.tl /\ r.tf0 = (s.tf0 \/ t.over)
                  /\ r.th0 = (IF split THEN (t.th + 1) % Radix ELSE t.th)
       /\ ~due0 => r.tl0 = s.tl0 /\ r.th0 = s.th0 /\ r.tf0 = s.tf0
       /\ r.timer0_prescaler = IF s.t0x12 THEN s.timer0_prescaler ELSE Prescaled(s.timer0_prescaler)
  BY <1>13, <1>14, <1>17, Zenon
<1>25. /\ due1 => r.tl1 = u.tl /\ r.th1 = u.th
       /\ ~due1 => r.tl1 = s.tl1 /\ r.th1 = s.th1
       /\ r.timer1_prescaler = IF s.t1x12 THEN s.timer1_prescaler ELSE Prescaled(s.timer1_prescaler)
  BY <1>14, <1>19, Zenon
<1>26. r.tf1 = (s.tf1 \/ (due0 /\ split /\ t.th = Radix - 1) \/ (due1 /\ u.over /\ s.mode0 # 3))
  BY <1>14, <1>22, Zenon
<1> QED BY <1>23, <1>24, <1>25, <1>26, Zenon DEF due0, due1, split, t, u, r

\* The overflows of Timer 0 that the PCA hears of are those of the clock.
LEMMA SameOverflow ==
  ASSUME NEW s, Typed(s), NEW in, Inputs(in)
  PROVE  Timer0Overflows(Begun(s)) <=> Timer0Overflows(s)
<1> DEFINE b == Begun(s)  S == {"osc_clocks"}  X == {"timer0_prescaler", "tl0", "th0"}
<1>1. Beside(s, b, S) /\ SameConfig(s, b) BY BegunIs, ClockConfig, Zenon
<1>2. Spares(S, X) BY IsField, SMT DEF Spares
<1> HIDE DEF b, S, X
<1>3. Agree(s, b, X) BY <1>1, <1>2, BesideFields, Zenon
<1>4. b.timer0_prescaler = s.timer0_prescaler /\ b.tl0 = s.tl0 /\ b.th0 = s.th0 BY <1>3, SMT DEF Agree, X
<1>5. b.t0x12 = s.t0x12 /\ b.gate0 = s.gate0 /\ b.tr0 = s.tr0 /\ b.ct0 = s.ct0 /\ b.mode0 = s.mode0
  BY <1>1, Zenon DEF SameConfig
<1>6. Timer0Overflows(b) <=> Timer0Overflows(s)
  BY <1>4, <1>5, Zenon DEF Timer0Overflows, Timer0Due, Timer0Runs
<1> QED BY <1>6 DEF b

\* Whether the PCA counts in this clock.
PcaCounts(s) ==
  /\ s.cr
  /\ \/ s.cps = 2 /\ (s.pca_t0_overflow_pending \/ Timer0Overflows(s))
     \/ s.cps # 2 /\ s.cps # 3 /\ s.pca_prescaler + 1 >= PcaDivisor[s.cps]

\* What a clock does to the PCA.
LEMMA PcaClock ==
  ASSUME NEW s, Typed(s), NEW in, Inputs(in), s.part # "STC89"
  PROVE  LET r == Clocked(s, in)
             phase == s.pca_prescaler
         IN  /\ ~PcaCounts(s) => /\ r.cl = s.cl /\ Word(r) = Word(s) /\ r.cf = s.cf
                                 /\ r.ccapl = s.ccapl
             /\ PcaCounts(s) =>
                  /\ r.cl = (s.cl + 1) % Radix
                  /\ Word(s) # Radix * Radix - 1 => Word(r) = Word(s) + 1 /\ r.cf = s.cf
                  /\ Word(s) = Radix * Radix - 1 => Word(r) = 0 /\ r.cf = TRUE
                  /\ \A k \in Module : Drives(s, k) =>
                       /\ r.ccapl[k] = IF r.cl = 0 THEN s.ccaph[k] ELSE s.ccapl[k]
                       /\ r.latch[PcaPin(s, k)] = IF r.cl >= r.ccapl[k] THEN 1 ELSE 0
             /\ r.pca_prescaler = IF s.cr /\ s.cps # 2 /\ s.cps # 3 /\ s.cps # 4
                                  THEN IF phase + 1 >= PcaDivisor[s.cps] THEN 0 ELSE phase + 1
                                  ELSE phase
             /\ s.cr /\ s.cps = 2 => r.pca_t0_overflow_pending = FALSE
<1> DEFINE o == Out(s)  v == Converted(s, in)  w == Swept(s, in)  r == Clocked(s, in)
           p == PcaPrescaled(v)
           phase == s.pca_prescaler
           S == OutFields \cup AdcFields
           X == {"cl", "ch", "cf", "ccapl", "ccaph", "pca_prescaler"}
           Y == {"cl", "ch", "cf", "ccapl", "latch", "pca_prescaler", "pca_t0_overflow_pending"}
           Z == {"pca_t0_overflow_pending"}
<1>1. /\ Typed(o) /\ Typed(v) /\ Beside(o, v, AdcFields) /\ Beside(s, v, S)
      /\ Typed(w) /\ Beside(w, r, WdtFields)
      /\ o.pca_t0_overflow_pending = (s.pca_t0_overflow_pending \/ Timer0Overflows(Begun(s)))
  BY OutIs, ConvertedIs, SweptIs, ClockedIs, Zenon
<1>2. SameConfig(s, v) /\ (Timer0Overflows(Begun(s)) <=> Timer0Overflows(s))
  BY ClockConfig, SameOverflow, Zenon
<1>3. w = PcaTick(v, in.level) /\ in.level \in [Pin -> 0 .. 1] BY Zenon DEF Swept, Inputs
<1>4. Spares(S, X) BY IsField, SMT DEF Spares, OutFields, TimedFields, AdcFields
<1>5. Spares(WdtFields, Y) /\ Spares(AdcFields, Z) BY IsField, SMT DEF Spares, WdtFields, AdcFields
<1> HIDE DEF o, v, w, r, S, X, Y, Z, p
<1>6. Agree(s, v, X) /\ Agree(w, r, Y) /\ Agree(o, v, Z) BY <1>1, <1>4, <1>5, BesideFields, Zenon
<1>7. /\ v.cl = s.cl /\ v.ch = s.ch /\ v.cf = s.cf /\ v.ccapl = s.ccapl /\ v.ccaph = s.ccaph
      /\ v.pca_prescaler = s.pca_prescaler
  BY <1>6, SMT DEF Agree, X
<1>8. /\ r.cl = w.cl /\ r.ch = w.ch /\ r.cf = w.cf /\ r.ccapl = w.ccapl /\ r.latch = w.latch
      /\ r.pca_prescaler = w.pca_prescaler /\ r.pca_t0_overflow_pending = w.pca_t0_overflow_pending
  BY <1>6, SMT DEF Agree, Y
<1>9. v.pca_t0_overflow_pending = o.pca_t0_overflow_pending BY <1>6, SMT DEF Agree, Z
<1>10. v.pca_t0_overflow_pending <=> s.pca_t0_overflow_pending \/ Timer0Overflows(s)
  BY <1>1, <1>2, <1>9, Zenon
<1>11. v.cr = s.cr /\ v.cps = s.cps /\ v.part = s.part /\ v.ccapm = s.ccapm /\ v.pca_p4 = s.pca_p4
  BY <1>2, Zenon DEF SameConfig
<1>12. /\ ~v.cr => w = v
       /\ v.cr /\ ~PcaDue(v) => w = p
       /\ v.cr /\ PcaDue(v) =>
            /\ w.cl = (v.cl + 1) % Radix
            /\ w.pca_prescaler = p.pca_prescaler
            /\ w.pca_t0_overflow_pending = p.pca_t0_overflow_pending
            /\ Word(v) # Radix * Radix - 1 => Word(w) = Word(v) + 1 /\ w.cf = v.cf
            /\ Word(v) = Radix * Radix - 1 => Word(w) = 0 /\ w.cf = TRUE
            /\ \A k \in Module : Drives(v, k) =>
                 /\ w.ccapl[k] = IF w.cl = 0 THEN v.ccaph[k] ELSE v.ccapl[k]
                 /\ w.latch[PcaPin(v, k)] = IF w.cl >= w.ccapl[k] THEN 1 ELSE 0
  BY <1>1, <1>3, PcaTickIs, Zenon DEF p
<1>13. /\ PcaDue(v) \in BOOLEAN
       /\ v.cps = 2 => PcaDue(v) = v.pca_t0_overflow_pending
       /\ v.cps = 3 => ~PcaDue(v)
       /\ v.cps # 2 /\ v.cps # 3 => PcaDue(v) = (v.pca_prescaler + 1 >= PcaDivisor[v.cps])
  BY <1>1, PcaDueIs, Zenon
<1>14. /\ v.cps = 2 => p.pca_t0_overflow_pending = FALSE /\ p.pca_prescaler = v.pca_prescaler
       /\ v.cps = 3 => p = v
       /\ v.cps = 4 => p = v
       /\ v.cps # 2 /\ v.cps # 3 /\ v.cps # 4 =>
            p.pca_prescaler = IF PcaDue(v) THEN 0 ELSE v.pca_prescaler + 1
  BY <1>1, PcaPrescaledIs, Zenon DEF p
<1>15. /\ p.cl = v.cl /\ p.ch = v.ch /\ p.cf = v.cf /\ p.ccapl = v.ccapl
  <2> DEFINE P == {"pca_prescaler", "pca_t0_overflow_pending"}  Q == {"cl", "ch", "cf", "ccapl"}
  <2>1. Spares(P, Q) BY IsField, SMT DEF Spares
  <2>2. Beside(v, p, P) BY PrescaledBeside, Zenon DEF p
  <2> HIDE DEF P, Q
  <2>3. Agree(v, p, Q) BY <1>1, <2>1, <2>2, BesideFields, Zenon
  <2> QED BY <2>3, SMT DEF Agree, Q
<1>16. PcaCounts(s) <=> v.cr /\ PcaDue(v)
  <2>1. s.cps = 2 => s.cps # 3 BY SMT
  <2>2. s.cps \in 0 .. 7 BY PcaIs, Zenon
  <2>3. CASE s.cps = 2 BY <1>10, <1>11, <1>13, <2>3, Zenon DEF PcaCounts
  <2>4. CASE s.cps = 3
    <3>1. ~PcaDue(v) BY <1>11, <1>13, <2>4, Zenon
    <3> QED BY <2>1, <2>4, <3>1, Zenon DEF PcaCounts
  <2>5. CASE s.cps # 2 /\ s.cps # 3 BY <1>7, <1>11, <1>13, <2>5, Zenon DEF PcaCounts
  <2> QED BY <2>3, <2>4, <2>5, Zenon
<1>17. Word(v) = Word(s) /\ Word(r) = Word(w) /\ Word(p) = Word(v) BY <1>7, <1>8, <1>15, Zenon DEF Word
<1>18. ASSUME ~PcaCounts(s) PROVE r.cl = s.cl /\ Word(r) = Word(s) /\ r.cf = s.cf /\ r.ccapl = s.ccapl
  <2>1. w = v \/ w = p BY <1>12, <1>16, <1>18, Zenon
  <2> QED BY <1>7, <1>8, <1>15, <1>17, <2>1, Zenon
<1>19. ASSUME PcaCounts(s)
       PROVE  /\ r.cl = (s.cl + 1) % Radix
              /\ Word(s) # Radix * Radix - 1 => Word(r) = Word(s) + 1 /\ r.cf = s.cf
              /\ Word(s) = Radix * Radix - 1 => Word(r) = 0 /\ r.cf = TRUE
              /\ \A k \in Module : Drives(s, k) =>
                   /\ r.ccapl[k] = IF r.cl = 0 THEN s.ccaph[k] ELSE s.ccapl[k]
                   /\ r.latch[PcaPin(s, k)] = IF r.cl >= r.ccapl[k] THEN 1 ELSE 0
  <2>0. v.cr /\ PcaDue(v) BY <1>16, <1>19, Zenon
  <2>1. /\ w.cl = (v.cl + 1) % Radix
        /\ Word(v) # Radix * Radix - 1 => Word(w) = Word(v) + 1 /\ w.cf = v.cf
        /\ Word(v) = Radix * Radix - 1 => Word(w) = 0 /\ w.cf = TRUE
        /\ \A k \in Module : Drives(v, k) =>
             /\ w.ccapl[k] = IF w.cl = 0 THEN v.ccaph[k] ELSE v.ccapl[k]
             /\ w.latch[PcaPin(v, k)] = IF w.cl >= w.ccapl[k] THEN 1 ELSE 0
    BY <1>12, <2>0, Zenon
  <2>2. r.cl = (s.cl + 1) % Radix BY <1>7, <1>8, <2>1, Zenon
  <2>3. /\ Word(s) # Radix * Radix - 1 => Word(r) = Word(s) + 1 /\ r.cf = s.cf
        /\ Word(s) = Radix * Radix - 1 => Word(r) = 0 /\ r.cf = TRUE
    BY <1>7, <1>8, <1>17, <2>1, Zenon
  <2>4. ASSUME NEW k \in Module, Drives(s, k)
        PROVE  /\ r.ccapl[k] = IF r.cl = 0 THEN s.ccaph[k] ELSE s.ccapl[k]
               /\ r.latch[PcaPin(s, k)] = IF r.cl >= r.ccapl[k] THEN 1 ELSE 0
    <3>1. Drives(v, k) BY <1>11, <2>4, Zenon DEF Drives
    <3>2. PcaPin(v, k) = PcaPin(s, k) BY <1>11, Zenon DEF PcaPin
    <3> QED BY <1>7, <1>8, <2>1, <3>1, <3>2, Zenon
  <2> QED BY <2>2, <2>3, <2>4, Zenon
<1>20. r.pca_prescaler = IF s.cr /\ s.cps # 2 /\ s.cps # 3 /\ s.cps # 4
                         THEN IF phase + 1 >= PcaDivisor[s.cps] THEN 0 ELSE phase + 1
                         ELSE phase
  <2>1. ~v.cr => r.pca_prescaler = phase BY <1>7, <1>8, <1>12, Zenon
  <2>2. v.cr => r.pca_prescaler = p.pca_prescaler BY <1>8, <1>12, Zenon
  <2>3. v.cps = 2 \/ v.cps = 3 \/ v.cps = 4 => p.pca_prescaler = phase BY <1>7, <1>14, Zenon
  <2>4. v.cps # 2 /\ v.cps # 3 /\ v.cps # 4 =>
          p.pca_prescaler = IF phase + 1 >= PcaDivisor[s.cps] THEN 0 ELSE phase + 1
    BY <1>7, <1>11, <1>13, <1>14, Zenon
  <2> QED BY <1>11, <2>1, <2>2, <2>3, <2>4, Zenon
<1>21. s.cr /\ s.cps = 2 => r.pca_t0_overflow_pending = FALSE
  BY <1>8, <1>11, <1>12, <1>14, Zenon
<1> QED BY <1>18, <1>19, <1>20, <1>21, Zenon DEF r

\* What a clock does to the ADC.
LEMMA AdcClock ==
  ASSUME NEW s, Typed(s), NEW in, Inputs(in), s.part # "STC89"
  PROVE  LET r == Clocked(s, in)
             v == Result(s, in.analog)
         IN  /\ s.adc_countdown = 0 => r.adc_countdown = 0
             /\ s.adc_countdown = 1 =>
                  /\ r.adc_countdown = s.adc_countdown - 1 /\ r.flag = TRUE /\ r.start = FALSE
                  /\ r.adc_res = AdcHigh(s, v) /\ r.adc_resl = AdcLow(s, v)
             /\ s.adc_countdown # 0 /\ s.adc_countdown # 1 =>
                  r.adc_countdown = s.adc_countdown - 1 /\ r.flag = s.flag
<1> DEFINE o == Out(s)  x == Converted(s, in)  w == Swept(s, in)  r == Clocked(s, in)
           v == Result(s, in.analog)
<1>1. /\ Typed(o) /\ Typed(x) /\ Typed(w) /\ Beside(s, o, OutFields) /\ Beside(x, w, PcaFields)
      /\ Beside(w, r, WdtFields)
  BY OutIs, ConvertedIs, SweptIs, ClockedIs, Zenon
<1>2. Spares(OutFields, AdcFields) /\ Spares(PcaFields, AdcFields) /\ Spares(WdtFields, AdcFields)
  <2>1. Spares(OutFields, AdcFields) BY IsField, SMT DEF Spares, OutFields, TimedFields, AdcFields
  <2>2. Spares(PcaFields, AdcFields) BY IsField, SMT DEF Spares, PcaFields, ModuleFields, AdcFields
  <2>3. Spares(WdtFields, AdcFields) BY IsField, SMT DEF Spares, WdtFields, AdcFields
  <2> QED BY <2>1, <2>2, <2>3
<1>3. SameConfig(s, o) BY ClockConfig, Zenon
<1>4. x = AdcTick(o, in.analog) BY Zenon DEF Converted
<1> HIDE DEF o, x, w, r
<1>5. Agree(s, o, AdcFields) /\ Agree(x, w, AdcFields) /\ Agree(w, r, AdcFields)
  BY <1>1, <1>2, BesideFields, Zenon
<1>6. o.adc_countdown = s.adc_countdown /\ o.flag = s.flag BY <1>5, SMT DEF Agree, AdcFields
<1>7. /\ r.adc_countdown = x.adc_countdown /\ r.flag = x.flag /\ r.start = x.start
      /\ r.adc_res = x.adc_res /\ r.adc_resl = x.adc_resl
  BY <1>5, SMT DEF Agree, AdcFields
<1>8. o.chs = s.chs /\ o.p1asf = s.p1asf /\ o.adrj = s.adrj BY <1>3, Zenon DEF SameConfig
<1>9. Result(o, in.analog) = v BY <1>8, Zenon DEF Result
<1>10. AdcHigh(o, v) = AdcHigh(s, v) /\ AdcLow(o, v) = AdcLow(s, v) BY <1>8, Zenon DEF AdcHigh, AdcLow
<1> HIDE DEF v
<1>11. /\ o.adc_countdown = 0 => x = o
       /\ o.adc_countdown = 1 =>
            /\ x.adc_countdown = o.adc_countdown - 1 /\ x.flag = TRUE /\ x.start = FALSE
            /\ x.adc_res = AdcHigh(o, v) /\ x.adc_resl = AdcLow(o, v)
       /\ o.adc_countdown # 0 /\ o.adc_countdown # 1 =>
            x.adc_countdown = o.adc_countdown - 1 /\ x.flag = o.flag
  BY <1>1, <1>4, <1>9, AdcEffect, Zenon
<1> QED BY <1>6, <1>7, <1>10, <1>11, Zenon DEF v, r

\* What a clock does to the watchdog.
LEMMA WdtClock ==
  ASSUME NEW s, Typed(s), NEW in, Inputs(in), s.part # "STC89"
  PROVE  LET r == Clocked(s, in)
             n == (s.wdt_prescaler_cnt + 1) % WdtRadix
             up == s.wdt_counter + 1
         IN  /\ ~s.en_wdt => r.wdt_prescaler_cnt = s.wdt_prescaler_cnt /\ r.wdt_counter = s.wdt_counter
             /\ s.en_wdt /\ n < Divisor(s.ps) =>
                  r.wdt_prescaler_cnt = n /\ r.wdt_counter = s.wdt_counter
             /\ s.en_wdt /\ ~(n < Divisor(s.ps)) =>
                  /\ r.wdt_prescaler_cnt = 0
                  /\ r.wdt_counter = IF up >= WdtLimit THEN 0 ELSE up
                  /\ up >= WdtLimit => r.wdt_flag
<1> DEFINE w == Swept(s, in)  r == Clocked(s, in)  S == (OutFields \cup AdcFields) \cup PcaFields
<1>1. Typed(w) /\ Beside(s, w, S) /\ SameConfig(s, w) /\ r = WdtTick(w)
  BY SweptIs, ClockConfig, Stages, Zenon
<1>2. Spares(S, WdtFields)
  BY IsField, SMT DEF Spares, OutFields, TimedFields, AdcFields, PcaFields, ModuleFields, WdtFields
<1> HIDE DEF w, r, S
<1>3. Agree(s, w, WdtFields) BY <1>1, <1>2, BesideFields, Zenon
<1>4. w.wdt_prescaler_cnt = s.wdt_prescaler_cnt /\ w.wdt_counter = s.wdt_counter
  BY <1>3, SMT DEF Agree, WdtFields
<1>5. w.en_wdt = s.en_wdt /\ w.ps = s.ps BY <1>1, Zenon DEF SameConfig
<1> DEFINE n == (w.wdt_prescaler_cnt + 1) % WdtRadix  up == w.wdt_counter + 1
<1>6. /\ ~w.en_wdt => r = w
      /\ w.en_wdt /\ n < Divisor(w.ps) => r.wdt_prescaler_cnt = n /\ r.wdt_counter = w.wdt_counter
      /\ w.en_wdt /\ ~(n < Divisor(w.ps)) =>
           /\ r.wdt_prescaler_cnt = 0
           /\ r.wdt_counter = IF up >= WdtLimit THEN 0 ELSE up
           /\ r.wdt_flag = (w.wdt_flag \/ up >= WdtLimit)
  BY <1>1, WdtIs, Zenon
<1>7. n = (s.wdt_prescaler_cnt + 1) % WdtRadix /\ up = s.wdt_counter + 1 BY <1>4, Zenon
<1> HIDE DEF n, up
<1> QED BY <1>4, <1>5, <1>6, <1>7, Zenon DEF r

\* What a clock does to the STC89's Timer 2, and to what only the others have.
LEMMA Timer2Clock ==
  ASSUME NEW s, Typed(s), NEW in, Inputs(in), s.part = "STC89"
  PROVE  LET r == Clocked(s, in)
             due == s.tr2 /\ r.osc_clocks % Machine = 0
             over == s.t2 + 1 = Radix * Radix
         IN  /\ due /\ ~over => r.t2 = s.t2 + 1 /\ r.tf2 = s.tf2
             /\ due /\ over => /\ r.t2 = (IF s.cp THEN 0 ELSE s.rcap2)
                               /\ r.tf2 = (s.tf2 \/ ~s.baud2)
             /\ ~due => r.t2 = s.t2 /\ r.tf2 = s.tf2
             /\ r.cl = s.cl /\ r.adc_countdown = s.adc_countdown
<1> DEFINE d == Timed(s)  r == Clocked(s, in)  S == {"t2", "tf2"}  X == {"osc_clocks"}
           T == TimedFields \cup {"t2", "tf2"}  Y == {"cl", "adc_countdown"}
<1>1. /\ Typed(d) /\ Beside(s, d, TimedFields) /\ Beside(d, r, S) /\ Beside(s, r, T)
      /\ SameConfig(s, d) /\ r = Timer2Tick(d)
  BY TimedIs, ClockedIs, ClockConfig, Stages, Zenon
<1>2. Spares(TimedFields, S) /\ Spares(S, X) /\ Spares(T, Y) BY IsField, SMT DEF Spares, TimedFields
<1> HIDE DEF d, r, S, T, X, Y
<1>3. Agree(s, d, S) /\ Agree(d, r, X) /\ Agree(s, r, Y) BY <1>1, <1>2, BesideFields, Zenon
<1>4. d.t2 = s.t2 /\ d.tf2 = s.tf2 BY <1>3, SMT DEF Agree, S
<1>5. r.osc_clocks = d.osc_clocks BY <1>3, SMT DEF Agree, X
<1>6. r.cl = s.cl /\ r.adc_countdown = s.adc_countdown BY <1>3, SMT DEF Agree, Y
<1>7. d.tr2 = s.tr2 /\ d.cp = s.cp /\ d.baud2 = s.baud2 /\ d.rcap2 = s.rcap2
  BY <1>1, Zenon DEF SameConfig
<1> DEFINE due == d.tr2 /\ d.osc_clocks % Machine = 0
           over == d.t2 + 1 = Radix * Radix
<1>8. /\ due /\ ~over => r.t2 = d.t2 + 1 /\ r.tf2 = (d.tf2 \/ (over /\ ~d.baud2))
      /\ due /\ over => r.t2 = (IF d.cp THEN 0 ELSE d.rcap2) /\ r.tf2 = (d.tf2 \/ (over /\ ~d.baud2))
      /\ ~due => r.t2 = d.t2 /\ r.tf2 = d.tf2
  BY <1>1, Timer2Effect, Zenon
<1>9. (due <=> s.tr2 /\ r.osc_clocks % Machine = 0) /\ (over <=> s.t2 + 1 = Radix * Radix)
  BY <1>4, <1>5, <1>7, Zenon
<1>10. s.tf2 \in BOOLEAN /\ s.baud2 \in BOOLEAN BY BaudIs, Zenon
<1> HIDE DEF due, over
<1>11. /\ due /\ ~over => r.t2 = s.t2 + 1 /\ r.tf2 = s.tf2
       /\ due /\ over => r.t2 = (IF s.cp THEN 0 ELSE s.rcap2) /\ r.tf2 = (s.tf2 \/ ~s.baud2)
       /\ ~due => r.t2 = s.t2 /\ r.tf2 = s.tf2
  BY <1>4, <1>7, <1>8, <1>10, Zenon
<1> QED BY <1>6, <1>9, <1>11, Zenon DEF r

-----------------------------------------------------------------------------
(* What a firmware's write does.                                           *)

Handlers == {"adc_contr", "wdt_contr", "auxr1", "s2buf", "spdat", "spstat", "spctl", "pin"}

\* The handler of each register.
LEMMA WrittenIs ==
  ASSUME NEW s, NEW w
  PROVE  /\ w.reg = "adc_contr" => Written(s, w) = WriteAdcContr(s, w.val)
         /\ w.reg = "wdt_contr" => Written(s, w) = WriteWdt(s, w.val)
         /\ w.reg = "auxr1" => Written(s, w) = WriteAuxr1(s, w.val)
         /\ w.reg = "s2buf" => Written(s, w) = WriteS2buf(s)
         /\ w.reg = "spdat" => Written(s, w) = WriteSpdat(s)
         /\ w.reg = "spstat" => Written(s, w) = WriteSpstat(s)
         /\ w.reg = "spctl" => Written(s, w) = WriteSpctl(s, w.val)
         /\ w.reg = "pin" => Written(s, w) = [s EXCEPT !.latch[w.val.pin] = w.val.level]
         /\ w.reg \notin Handlers => Written(s, w) = [s EXCEPT ![w.reg] = w.val]
<1>1. w.reg = "adc_contr" => Written(s, w) = WriteAdcContr(s, w.val) BY SMT DEF Written
<1>2. w.reg = "wdt_contr" => Written(s, w) = WriteWdt(s, w.val) BY SMT DEF Written
<1>3. w.reg = "auxr1" => Written(s, w) = WriteAuxr1(s, w.val) BY SMT DEF Written
<1>4. w.reg = "s2buf" => Written(s, w) = WriteS2buf(s) BY SMT DEF Written
<1>5. w.reg = "spdat" => Written(s, w) = WriteSpdat(s) BY SMT DEF Written
<1>6. w.reg = "spstat" => Written(s, w) = WriteSpstat(s) BY SMT DEF Written
<1>7. w.reg = "spctl" => Written(s, w) = WriteSpctl(s, w.val) BY SMT DEF Written
<1>8. w.reg = "pin" => Written(s, w) = [s EXCEPT !.latch[w.val.pin] = w.val.level] BY SMT DEF Written
<1>9. w.reg \notin Handlers => Written(s, w) = [s EXCEPT ![w.reg] = w.val] BY SMT DEF Written, Handlers
<1> QED BY <1>1, <1>2, <1>3, <1>4, <1>5, <1>6, <1>7, <1>8, <1>9, Zenon

AdcSet == {"power", "start", "flag", "speed", "chs", "adc_countdown"}
WdtSet == {"wdt_flag", "en_wdt", "ps", "wdt_counter", "wdt_prescaler_cnt"}
BusSet == {"pca_p4", "dps", "adrj", "dptr", "dptr1", "last_dps", "s2ti", "spen", "spif", "wcol"}

\* ADC_CONTR: the countdown starts, again if one runs.
LEMMA AdcWriteIs ==
  ASSUME NEW s, Typed(s),
         NEW v \in [power : BOOLEAN, start : BOOLEAN, flag : BOOLEAN, speed : 0 .. 3, chs : Channel]
  PROVE  LET r == WriteAdcContr(s, v)
         IN  /\ Typed(r) /\ Beside(s, r, AdcSet) /\ r.chs = v.chs
             /\ r.adc_countdown = IF v.start /\ v.power THEN AdcClocks[v.speed] ELSE s.adc_countdown
<1> DEFINE r == WriteAdcContr(s, v)
           n == IF v.start /\ v.power THEN AdcClocks[v.speed] ELSE s.adc_countdown
<1>1. /\ v.power \in BOOLEAN /\ v.start \in BOOLEAN /\ v.flag \in BOOLEAN /\ v.speed \in 0 .. 3
      /\ v.chs \in Channel
  OBVIOUS
<1>2. AdcClocks[v.speed] \in 0 .. AdcClocks[0] BY <1>1, WidthAssumption, SMT
<1>3. s.adc_countdown \in 0 .. AdcClocks[0] BY AdcIs, Zenon
<1>4. n \in 0 .. AdcClocks[0] BY <1>2, <1>3, Zenon
<1>5. AdcSet \subseteq DOMAIN s BY IsField, SMT DEF Typed, AdcSet
<1>6. /\ r.power = v.power /\ r.start = v.start /\ r.flag = v.flag /\ r.speed = v.speed /\ r.chs = v.chs
      /\ r.adc_countdown = n
  BY <1>5, Zenon DEF WriteAdcContr, AdcSet
<1>7. Beside(s, r, AdcSet) BY Zenon DEF WriteAdcContr, Beside, AdcSet
<1> HIDE DEF r, n
<1>8. /\ r["power"] \in Held["power"] /\ r["start"] \in Held["start"] /\ r["flag"] \in Held["flag"]
      /\ r["speed"] \in Held["speed"] /\ r["chs"] \in Held["chs"]
      /\ r["adc_countdown"] \in Held["adc_countdown"]
  BY <1>1, <1>4, <1>6, AdcHeld, Zenon
<1>9. \A x \in AdcSet \cap Fields : r[x] \in Held[x] BY <1>8, SMT DEF AdcSet
<1>10. Typed(r) BY <1>7, <1>9, TypedBeside, Zenon
<1> QED BY <1>6, <1>7, <1>10, Zenon DEF r, n

\* WDT_CONTR: clearing takes the prescaler along.
LEMMA WdtWriteIs ==
  ASSUME NEW s, Typed(s), NEW v \in [flag : BOOLEAN, clr : BOOLEAN, en : BOOLEAN, ps : 0 .. 7]
  PROVE  LET r == WriteWdt(s, v)
         IN  /\ Typed(r) /\ Beside(s, r, WdtSet)
             /\ v.clr => r.wdt_counter = 0 /\ r.wdt_prescaler_cnt = 0
<1> DEFINE r == WriteWdt(s, v)
<1>1. v.flag \in BOOLEAN /\ v.clr \in BOOLEAN /\ v.en \in BOOLEAN /\ v.ps \in 0 .. 7
  OBVIOUS
<1>2. s.wdt_counter \in 0 .. WdtLimit - 1 /\ s.wdt_prescaler_cnt \in 0 .. WdtRadix - 1 BY AdcIs, Zenon
<1>3. 0 \in 0 .. WdtLimit - 1 /\ 0 \in 0 .. WdtRadix - 1 BY Numbers, SMT
<1>4. WdtSet \subseteq DOMAIN s BY IsField, SMT DEF Typed, WdtSet
<1>5. Beside(s, r, WdtSet) BY Zenon DEF WriteWdt, Beside, WdtSet
<1>6. /\ r.wdt_flag = v.flag /\ r.en_wdt = v.en /\ r.ps = v.ps
      /\ v.clr => r.wdt_counter = 0 /\ r.wdt_prescaler_cnt = 0
      /\ ~v.clr => r.wdt_counter = s.wdt_counter /\ r.wdt_prescaler_cnt = s.wdt_prescaler_cnt
  BY <1>4, Zenon DEF WriteWdt, WdtSet
<1> HIDE DEF r
<1>7. /\ r["wdt_flag"] \in Held["wdt_flag"] /\ r["en_wdt"] \in Held["en_wdt"] /\ r["ps"] \in Held["ps"]
      /\ r["wdt_counter"] \in Held["wdt_counter"]
      /\ r["wdt_prescaler_cnt"] \in Held["wdt_prescaler_cnt"]
  BY <1>1, <1>2, <1>3, <1>6, AdcHeld, Zenon
<1>8. \A x \in WdtSet \cap Fields : r[x] \in Held[x] BY <1>7, SMT DEF WdtSet
<1>9. Typed(r) BY <1>5, <1>8, TypedBeside, Zenon
<1> QED BY <1>5, <1>6, <1>9, Zenon DEF r

\* AUXR1: the data pointers are swapped or left.
LEMMA Auxr1WriteIs ==
  ASSUME NEW s, Typed(s), NEW v \in [pca_p4 : BOOLEAN, adrj : BOOLEAN, dps : 0 .. 1]
  PROVE  Typed(WriteAuxr1(s, v)) /\ Beside(s, WriteAuxr1(s, v), BusSet)
<1> DEFINE r == WriteAuxr1(s, v)
           U == {"pca_p4", "dps", "adrj", "dptr", "dptr1", "last_dps"}
<1>1. v.pca_p4 \in BOOLEAN /\ v.adrj \in BOOLEAN /\ v.dps \in 0 .. 1 OBVIOUS
<1>2. /\ s.dptr \in Held.dptr /\ s.dptr1 \in Held.dptr1 /\ Held.dptr = Held.dptr1
      /\ s.last_dps \in 0 .. 1 /\ s.adrj \in BOOLEAN
  BY OtherIs, OtherHeld, AdcIs, Zenon
<1>3. U \subseteq DOMAIN s BY IsField, SMT DEF Typed
<1>4. Beside(s, r, U) BY Zenon DEF WriteAuxr1, Beside
<1>5. /\ r.pca_p4 = v.pca_p4 /\ r.dps = v.dps /\ (r.adrj = s.adrj \/ r.adrj = v.adrj)
      /\ r.dptr = s.dptr1 \/ r.dptr = s.dptr
      /\ r.dptr1 = s.dptr \/ r.dptr1 = s.dptr1
      /\ r.last_dps = s.last_dps \/ r.last_dps = v.dps
  <2>1. CASE v.dps = s.last_dps BY <1>3, <2>1, Zenon DEF WriteAuxr1
  <2>2. CASE v.dps # s.last_dps BY <1>3, <2>2, Zenon DEF WriteAuxr1
  <2> QED BY <2>1, <2>2
<1> HIDE DEF r
<1>6. /\ r["pca_p4"] \in Held["pca_p4"] /\ r["dps"] \in Held["dps"] /\ r["adrj"] \in Held["adrj"]
      /\ r["dptr"] \in Held["dptr"] /\ r["dptr1"] \in Held["dptr1"]
      /\ r["last_dps"] \in Held["last_dps"]
  BY <1>1, <1>2, <1>5, OtherHeld, AdcHeld, PcaHeld, Zenon
<1>7. \A x \in U \cap Fields : r[x] \in Held[x] BY <1>6, SMT
<1>8. U \subseteq BusSet BY SMT DEF BusSet
<1> HIDE DEF U
<1>9. Typed(r) BY <1>4, <1>7, TypedBeside, Zenon
<1> QED BY <1>4, <1>8, <1>9, BesideMore, Zenon DEF r

\* UART2 and SPI.
LEMMA SerialWriteIs ==
  ASSUME NEW s, Typed(s), NEW r,
         \/ r = WriteS2buf(s) \/ r = WriteSpdat(s) \/ r = WriteSpstat(s)
         \/ \E spen \in BOOLEAN : r = WriteSpctl(s, spen)
  PROVE  Typed(r) /\ Beside(s, r, BusSet)
<1> DEFINE U == {"s2ti", "spen", "spif", "wcol"}
<1>1. s.s2ti \in BOOLEAN /\ s.spen \in BOOLEAN /\ s.spif \in BOOLEAN /\ s.wcol \in BOOLEAN
  BY OtherIs, Zenon
<1>2. U \subseteq DOMAIN s BY IsField, SMT DEF Typed
<1>3. /\ Beside(s, r, U)
      /\ r.s2ti \in BOOLEAN /\ r.spen \in BOOLEAN /\ r.spif \in BOOLEAN /\ r.wcol \in BOOLEAN
  <2>1. CASE r = WriteS2buf(s)
    <3>1. Beside(s, r, U) BY <2>1, Zenon DEF WriteS2buf, Beside
    <3>2. r.s2ti = TRUE /\ r.spen = s.spen /\ r.spif = s.spif /\ r.wcol = s.wcol
      BY <1>2, <2>1, Zenon DEF WriteS2buf
    <3> QED BY <1>1, <3>1, <3>2, Zenon
  <2>2. CASE r = WriteSpdat(s)
    <3>1. Beside(s, r, U) BY <2>2, Zenon DEF WriteSpdat, Beside
    <3>2. r.s2ti = s.s2ti /\ r.spen = s.spen /\ r.spif \in BOOLEAN /\ r.wcol = s.wcol
      BY <1>1, <1>2, <2>2, Zenon DEF WriteSpdat
    <3> QED BY <1>1, <3>1, <3>2, Zenon
  <2>3. CASE r = WriteSpstat(s)
    <3>1. Beside(s, r, U) BY <2>3, Zenon DEF WriteSpstat, Beside
    <3>2. r.s2ti = s.s2ti /\ r.spen = s.spen /\ r.spif = FALSE /\ r.wcol = FALSE
      BY <1>2, <2>3, Zenon DEF WriteSpstat
    <3> QED BY <1>1, <3>1, <3>2, Zenon
  <2>4. ASSUME NEW spen \in BOOLEAN, r = WriteSpctl(s, spen)
        PROVE  /\ Beside(s, r, U)
               /\ r.s2ti \in BOOLEAN /\ r.spen \in BOOLEAN /\ r.spif \in BOOLEAN /\ r.wcol \in BOOLEAN
    <3>1. Beside(s, r, U) BY <2>4, Zenon DEF WriteSpctl, WriteSpstat, Beside
    <3>2. /\ r.s2ti = s.s2ti /\ r.spen = spen
          /\ r.spif = FALSE \/ r.spif = s.spif
          /\ r.wcol = FALSE \/ r.wcol = s.wcol
      BY <1>2, <2>4, Zenon DEF WriteSpctl, WriteSpstat
    <3> QED BY <1>1, <2>4, <3>1, <3>2, Zenon
  <2> QED BY <2>1, <2>2, <2>3, <2>4
<1>4. /\ r["s2ti"] \in Held["s2ti"] /\ r["spen"] \in Held["spen"] /\ r["spif"] \in Held["spif"]
      /\ r["wcol"] \in Held["wcol"]
  BY <1>3, OtherHeld, Zenon
<1>5. \A x \in U \cap Fields : r[x] \in Held[x] BY <1>4, SMT
<1>6. U \subseteq BusSet BY SMT DEF BusSet
<1> HIDE DEF U
<1>7. Typed(r) BY <1>3, <1>5, TypedBeside, Zenon
<1> QED BY <1>3, <1>6, <1>7, BesideMore, Zenon

\* A latch written.
LEMMA PinWriteIs ==
  ASSUME NEW s, Typed(s), NEW v \in [pin : Pin, level : 0 .. 1],
         NEW r, r = [s EXCEPT !.latch[v.pin] = v.level]
  PROVE  Typed(r) /\ Beside(s, r, {"latch"})
<1> DEFINE g == [s.latch EXCEPT ![v.pin] = v.level]
<1>1. v.pin \in Pin /\ v.level \in 0 .. 1 OBVIOUS
<1>2. s.latch \in [Pin -> 0 .. 1] BY BaudIs, Zenon
<1>3. "latch" \in DOMAIN s BY IsField, Zenon DEF Typed
<1>4. r.latch = g BY <1>3, Zenon
<1>5. g \in [Pin -> 0 .. 1] BY <1>1, <1>2, LatchPut, Zenon
<1>6. Beside(s, r, {"latch"}) BY Zenon DEF Beside
<1> HIDE DEF g
<1>7. r["latch"] \in Held["latch"] BY <1>4, <1>5, BaudHeld, Zenon
<1>8. \A x \in {"latch"} \cap Fields : r[x] \in Held[x] BY <1>7, Zenon
<1>9. Typed(r) BY <1>6, <1>8, TypedBeside, Zenon
<1> QED BY <1>6, <1>9, Zenon

Plain == Fields \ (Counters \cup Handled)

\* The handlers' addresses are no plain registers.
LEMMA PlainIs ==
  /\ Plain \cap Handlers = {}
  /\ \A x \in Plain : Spares({x}, Counters \cup Handled)
<1>1. Handlers \cap Fields = {} BY Names, SMT DEF Handlers
<1>2. Counters \cup Handled \subseteq Fields BY IsField, SMT DEF Counters, Handled
<1>3. Plain \cap Handlers = {} BY <1>1, Zenon DEF Plain
<1>4. \A x \in Plain : Spares({x}, Counters \cup Handled) BY <1>2, Zenon DEF Plain, Spares
<1> QED BY <1>3, <1>4

\* A plain register written.
LEMMA PlainWriteIs ==
  ASSUME NEW s, Typed(s), NEW x \in Plain, NEW v \in Held[x],
         NEW r, r = [s EXCEPT ![x] = v]
  PROVE  Typed(r) /\ Beside(s, r, {x})
<1>1. x \in DOMAIN s BY Zenon DEF Plain, Typed
<1>2. r[x] = v BY <1>1, Zenon
<1>3. Beside(s, r, {x}) BY BesideOne, Zenon
<1>4. \A y \in {x} \cap Fields : r[y] \in Held[y] BY <1>2, Zenon
<1>5. Typed(r) BY <1>3, <1>4, TypedBeside, Zenon
<1> QED BY <1>3, <1>5, Zenon

Kept == {"part", "osc_clocks"}
AdcKept == {"adc_countdown", "chs"}
WdtKept == {"ps", "wdt_counter", "wdt_prescaler_cnt"}

\* What a legal write does: the types hold, and only its handler touches a
\* counter.
LEMMA WriteIs ==
  ASSUME NEW s, Typed(s), NEW w, Legal(s.part, w)
  PROVE  LET r == Written(s, w)
         IN  /\ Typed(r)
             /\ r.part = s.part /\ r.osc_clocks = s.osc_clocks
             /\ w.reg # "adc_contr" => r.adc_countdown = s.adc_countdown /\ r.chs = s.chs
             /\ w.reg = "adc_contr" =>
                  /\ s.part # "STC89"
                  /\ w.val.speed \in 0 .. 3 /\ w.val.chs \in Channel
                  /\ w.val.start \in BOOLEAN /\ w.val.power \in BOOLEAN
                  /\ r.chs = w.val.chs
                  /\ r.adc_countdown = IF w.val.start /\ w.val.power THEN AdcClocks[w.val.speed]
                                       ELSE s.adc_countdown
             /\ w.reg # "wdt_contr" =>
                  /\ r.ps = s.ps /\ r.wdt_counter = s.wdt_counter
                  /\ r.wdt_prescaler_cnt = s.wdt_prescaler_cnt
             /\ w.reg = "wdt_contr" =>
                  /\ s.part # "STC89" /\ w.val.clr \in BOOLEAN
                  /\ w.val.clr => r.wdt_counter = 0 /\ r.wdt_prescaler_cnt = 0
             /\ w.reg = "ccaph" => Beside(s, r, {"ccaph"})
<1> DEFINE r == Written(s, w)  v == w.val
           Keeps(S) == Typed(r) /\ Beside(s, r, S)
<1>1. \/ w.reg \in Plain /\ v \in Held[w.reg]
      \/ w.reg = "pin" /\ v \in [pin : Pin, level : 0 .. 1]
      \/ /\ s.part # "STC89" /\ w.reg = "adc_contr"
         /\ v \in [power : BOOLEAN, start : BOOLEAN, flag : BOOLEAN, speed : 0 .. 3, chs : Channel]
      \/ /\ s.part # "STC89" /\ w.reg = "wdt_contr"
         /\ v \in [flag : BOOLEAN, clr : BOOLEAN, en : BOOLEAN, ps : 0 .. 7]
      \/ w.reg = "auxr1" /\ v \in [pca_p4 : BOOLEAN, adrj : BOOLEAN, dps : 0 .. 1]
      \/ w.reg = "s2buf" \/ w.reg = "spdat" \/ w.reg = "spstat"
      \/ w.reg = "spctl" /\ v \in BOOLEAN
  <2>1. w.reg \in {"s2buf", "spdat", "spstat"} => w.reg = "s2buf" \/ w.reg = "spdat" \/ w.reg = "spstat"
    BY Zenon
  <2> QED BY <2>1, Zenon DEF Legal, Plain, Fields
<1>2. CASE w.reg \in Plain /\ v \in Held[w.reg]
  <2>1. w.reg \notin Handlers BY <1>2, PlainIs, Zenon
  <2>2. r = [s EXCEPT ![w.reg] = v] BY <2>1, WrittenIs, Zenon
  <2> HIDE DEF r, v
  <2>3. Typed(r) /\ Beside(s, r, {w.reg}) BY <1>2, <2>2, PlainWriteIs, Zenon
  <2>4. Spares({w.reg}, Counters \cup Handled) BY <1>2, PlainIs, Zenon
  <2>5. Agree(s, r, Counters \cup Handled) BY <2>3, <2>4, BesideFields, Zenon
  <2>6. /\ "part" \in Counters \cup Handled /\ "osc_clocks" \in Counters \cup Handled
        /\ "adc_countdown" \in Counters \cup Handled /\ "chs" \in Counters \cup Handled
        /\ "ps" \in Counters \cup Handled /\ "wdt_counter" \in Counters \cup Handled
        /\ "wdt_prescaler_cnt" \in Counters \cup Handled
    BY SMT DEF Counters, Handled
  <2>7. /\ r["part"] = s["part"] /\ r["osc_clocks"] = s["osc_clocks"]
        /\ r["adc_countdown"] = s["adc_countdown"] /\ r["chs"] = s["chs"] /\ r["ps"] = s["ps"]
        /\ r["wdt_counter"] = s["wdt_counter"] /\ r["wdt_prescaler_cnt"] = s["wdt_prescaler_cnt"]
    BY <2>5, <2>6, Zenon DEF Agree
  <2>8. w.reg # "adc_contr" /\ w.reg # "wdt_contr" BY <2>1, SMT DEF Handlers
  <2> QED BY <2>3, <2>7, <2>8, Zenon DEF r
<1>3. CASE w.reg # "adc_contr" /\ w.reg # "wdt_contr" /\ w.reg # "ccaph" /\ (Keeps({"latch"}) \/ Keeps(BusSet))
  <2> DEFINE X == Kept \cup AdcKept \cup WdtKept
  <2>1. Spares({"latch"}, X) /\ Spares(BusSet, X)
    BY IsField, SMT DEF Spares, Kept, AdcKept, WdtKept, BusSet
  <2> HIDE DEF r, X
  <2>2. Agree(s, r, X) BY <1>3, <2>1, BesideFields, Zenon
  <2>3. /\ r.part = s.part /\ r.osc_clocks = s.osc_clocks /\ r.adc_countdown = s.adc_countdown
        /\ r.chs = s.chs /\ r.ps = s.ps /\ r.wdt_counter = s.wdt_counter
        /\ r.wdt_prescaler_cnt = s.wdt_prescaler_cnt
    BY <2>2, SMT DEF Agree, X, Kept, AdcKept, WdtKept
  <2> QED BY <1>3, <2>3, Zenon DEF r
<1>4. CASE /\ s.part # "STC89" /\ w.reg = "adc_contr"
           /\ v \in [power : BOOLEAN, start : BOOLEAN, flag : BOOLEAN, speed : 0 .. 3, chs : Channel]
  <2> DEFINE X == Kept \cup WdtKept
  <2>1. r = WriteAdcContr(s, v) BY <1>4, WrittenIs, Zenon
  <2> HIDE DEF r, v
  <2>2. /\ v.power \in BOOLEAN /\ v.start \in BOOLEAN /\ v.speed \in 0 .. 3 /\ v.chs \in Channel
    BY <1>4
  <2>3. /\ Typed(r) /\ Beside(s, r, AdcSet) /\ r.chs = v.chs
        /\ r.adc_countdown = IF v.start /\ v.power THEN AdcClocks[v.speed] ELSE s.adc_countdown
    BY <1>4, <2>1, AdcWriteIs, Zenon
  <2>4. Spares(AdcSet, X) BY IsField, SMT DEF Spares, Kept, WdtKept, AdcSet
  <2> HIDE DEF X
  <2>5. Agree(s, r, X) BY <2>3, <2>4, BesideFields, Zenon
  <2>6. /\ r.part = s.part /\ r.osc_clocks = s.osc_clocks /\ r.ps = s.ps
        /\ r.wdt_counter = s.wdt_counter /\ r.wdt_prescaler_cnt = s.wdt_prescaler_cnt
    BY <2>5, SMT DEF Agree, X, Kept, WdtKept
  <2>7. w.reg # "wdt_contr" /\ w.reg # "ccaph" BY <1>4, SMT
  <2> QED BY <1>4, <2>2, <2>3, <2>6, <2>7, Zenon DEF r, v
<1>5. CASE /\ s.part # "STC89" /\ w.reg = "wdt_contr"
           /\ v \in [flag : BOOLEAN, clr : BOOLEAN, en : BOOLEAN, ps : 0 .. 7]
  <2> DEFINE X == Kept \cup AdcKept
  <2>1. r = WriteWdt(s, v) BY <1>5, WrittenIs, Zenon
  <2> HIDE DEF r, v
  <2>2. v.clr \in BOOLEAN BY <1>5
  <2>3. /\ Typed(r) /\ Beside(s, r, WdtSet) /\ (v.clr => r.wdt_counter = 0 /\ r.wdt_prescaler_cnt = 0)
    BY <1>5, <2>1, WdtWriteIs, Zenon
  <2>4. Spares(WdtSet, X) BY IsField, SMT DEF Spares, Kept, AdcKept, WdtSet
  <2> HIDE DEF X
  <2>5. Agree(s, r, X) BY <2>3, <2>4, BesideFields, Zenon
  <2>6. /\ r.part = s.part /\ r.osc_clocks = s.osc_clocks /\ r.adc_countdown = s.adc_countdown
        /\ r.chs = s.chs
    BY <2>5, SMT DEF Agree, X, Kept, AdcKept
  <2>7. w.reg # "adc_contr" /\ w.reg # "ccaph" BY <1>5, SMT
  <2> QED BY <1>5, <2>2, <2>3, <2>6, <2>7, Zenon DEF r, v
<1>6. CASE w.reg = "pin" /\ v \in [pin : Pin, level : 0 .. 1]
  <2>1. r = [s EXCEPT !.latch[v.pin] = v.level] BY <1>6, WrittenIs, Zenon
  <2> HIDE DEF r, v
  <2>2. Keeps({"latch"}) BY <1>6, <2>1, PinWriteIs, Zenon
  <2>3. w.reg # "adc_contr" /\ w.reg # "wdt_contr" /\ w.reg # "ccaph" BY <1>6, SMT
  <2> HIDE DEF r, v, Keeps
  <2> QED BY <1>3, <2>2, <2>3 DEF r
<1>7. CASE w.reg = "auxr1" /\ v \in [pca_p4 : BOOLEAN, adrj : BOOLEAN, dps : 0 .. 1]
  <2>2. r = WriteAuxr1(s, v) BY <1>7, WrittenIs, Zenon
  <2> HIDE DEF r, v
  <2>1. Keeps(BusSet) BY <1>7, <2>2, Auxr1WriteIs, Zenon
  <2>3. w.reg # "adc_contr" /\ w.reg # "wdt_contr" /\ w.reg # "ccaph" BY <1>7, SMT
  <2> HIDE DEF Keeps
  <2> QED BY <1>3, <2>1, <2>3 DEF r
<1>8. CASE w.reg = "s2buf" \/ w.reg = "spdat" \/ w.reg = "spstat" \/ (w.reg = "spctl" /\ v \in BOOLEAN)
  <2>1. \/ r = WriteS2buf(s) \/ r = WriteSpdat(s) \/ r = WriteSpstat(s)
        \/ \E spen \in BOOLEAN : r = WriteSpctl(s, spen)
    BY <1>8, WrittenIs, Zenon
  <2>2. Keeps(BusSet) BY <2>1, SerialWriteIs, Zenon
  <2>3. w.reg # "adc_contr" /\ w.reg # "wdt_contr" /\ w.reg # "ccaph" BY <1>8, SMT
  <2> HIDE DEF r, v, Keeps
  <2> QED BY <1>3, <2>2, <2>3 DEF r
<1> HIDE DEF r, v
<1> QED BY <1>1, <1>2, <1>4, <1>5, <1>6, <1>7, <1>8, Zenon DEF r

-----------------------------------------------------------------------------
(* The first state.                                                        *)

\* Nothing counted yet.
LEMMA Zeroes ==
  /\ 0 \in 0 .. Radix - 1 /\ 0 \in 0 .. Radix * Radix - 1 /\ 0 \in 0 .. Machine - 1
  /\ 0 \in 0 .. WdtLimit - 1 /\ 0 \in 0 .. WdtRadix - 1 /\ 0 \in 0 .. AdcClocks[0]
  /\ 0 \in UNION {0 .. PcaDivisor[cps] - 1 : cps \in DOMAIN PcaDivisor}
  /\ 0 \in 0 .. 1 /\ 0 \in 0 .. 3 /\ 0 \in 0 .. 7 /\ 0 \in 0 .. 255 /\ 0 \in Channel
  /\ [p \in Pin |-> 1] \in [Pin -> 0 .. 1] /\ [k \in Module |-> FALSE] \in [Module -> BOOLEAN]
  /\ [k \in Module |-> {}] \in [Module -> SUBSET {"ECOM", "CAPP", "CAPN", "MAT", "TOG", "PWM"}]
  /\ [k \in Module |-> 0] \in [Module -> 0 .. Radix - 1] /\ [k \in Module |-> 0] \in [Module -> 0 .. 1]
  /\ {} \in SUBSET Channel /\ FALSE \in BOOLEAN
  /\ "STC12" \in {"STC12", "STC15", "STC15W", "STC89"}
<1>1. Radix \in Nat \ {0, 1} /\ Machine \in Nat \ {0, 1} /\ WdtLimit \in Nat \ {0, 1} /\ WdtRadix \in Nat \ {0, 1}
  BY Numbers, Zenon
<1>2. AdcClocks[0] \in Nat BY WidthAssumption, SMT
<1>3. \A n \in Nat \ {0, 1} : n * n - 1 \in Nat BY SMT
<1>4. Radix * Radix - 1 \in Nat BY <1>1, <1>3, Zenon
<1>5. PcaDivisor[4] = 1 /\ 4 \in DOMAIN PcaDivisor BY WidthAssumption, SMT
<1>6. 0 \in 0 .. PcaDivisor[4] - 1 BY <1>5, SMT
<1>7. 0 \in UNION {0 .. PcaDivisor[cps] - 1 : cps \in DOMAIN PcaDivisor} BY <1>5, <1>6, Zenon
<1>8. 0 \in 0 .. Radix * Radix - 1 BY <1>4, SMT
<1>9. 0 \in 0 .. Radix - 1 /\ 0 \in 0 .. Machine - 1 BY <1>1, SMT
<1>10. 0 \in 0 .. WdtLimit - 1 /\ 0 \in 0 .. WdtRadix - 1 /\ 0 \in 0 .. AdcClocks[0] BY <1>1, <1>2, SMT
<1>11. 0 \in 0 .. 1 /\ 0 \in 0 .. 3 /\ 0 \in 0 .. 7 /\ 0 \in 0 .. 255 /\ 0 \in Channel
  BY SMT DEF Channel
<1>12. /\ {} \in SUBSET Channel /\ FALSE \in BOOLEAN /\ "STC12" \in {"STC12", "STC15", "STC15W", "STC89"}
  BY Zenon
<1>13. \A v \in 0 .. 1 : [p \in Pin |-> v] \in [Pin -> 0 .. 1] BY Zenon
<1>14. 1 \in 0 .. 1 BY SMT
<1>15. [p \in Pin |-> 1] \in [Pin -> 0 .. 1] BY <1>13, <1>14, Zenon
<1>16. /\ [k \in Module |-> FALSE] \in [Module -> BOOLEAN]
       /\ [k \in Module |-> {}] \in [Module -> SUBSET {"ECOM", "CAPP", "CAPN", "MAT", "TOG", "PWM"}]
  BY Zenon
<1>17. \A S : 0 \in S => [k \in Module |-> 0] \in [Module -> S] BY Zenon
<1>18. /\ [k \in Module |-> 0] \in [Module -> 0 .. Radix - 1]
       /\ [k \in Module |-> 0] \in [Module -> 0 .. 1]
  BY <1>9, <1>11, <1>17, Zenon
<1> QED BY <1>7, <1>8, <1>9, <1>10, <1>11, <1>12, <1>15, <1>16, <1>18, Zenon

\* What reset leaves fits.
LEMMA ResetFits == \A x \in Fields : Reset[x] \in Held[x]
<1>1. Reset.gate0 = FALSE /\ Reset.ct0 = FALSE /\ Reset.mode0 = 0 /\ Reset.tr0 = FALSE /\
      Reset.tf0 = FALSE
  BY SMT DEF Reset
<1>2. Reset.gate0 \in Held.gate0 /\ Reset.ct0 \in Held.ct0 /\ Reset.mode0 \in Held.mode0 /\
      Reset.tr0 \in Held.tr0 /\ Reset.tf0 \in Held.tf0
  BY <1>1, TimerHeld, Zeroes, Zenon
<1>3. Reset.gate1 = FALSE /\ Reset.ct1 = FALSE /\ Reset.mode1 = 0 /\ Reset.tr1 = FALSE /\
      Reset.tf1 = FALSE
  BY SMT DEF Reset
<1>4. Reset.gate1 \in Held.gate1 /\ Reset.ct1 \in Held.ct1 /\ Reset.mode1 \in Held.mode1 /\
      Reset.tr1 \in Held.tr1 /\ Reset.tf1 \in Held.tf1
  BY <1>3, TimerHeld, Zeroes, Zenon
<1>5. Reset.tl0 = 0 /\ Reset.th0 = 0 /\ Reset.tl1 = 0 /\ Reset.th1 = 0 /\ Reset.t0x12 = FALSE
  BY SMT DEF Reset
<1>6. Reset.tl0 \in Held.tl0 /\ Reset.th0 \in Held.th0 /\ Reset.tl1 \in Held.tl1 /\
      Reset.th1 \in Held.th1 /\ Reset.t0x12 \in Held.t0x12
  BY <1>5, TimerHeld, Zeroes, Zenon
<1>7. Reset.t1x12 = FALSE /\ Reset.timer0_prescaler = 0 /\ Reset.timer1_prescaler = 0 /\
      Reset.osc_clocks = 0
  BY SMT DEF Reset
<1>8. Reset.t1x12 \in Held.t1x12 /\ Reset.timer0_prescaler \in Held.timer0_prescaler /\
      Reset.timer1_prescaler \in Held.timer1_prescaler /\ Reset.osc_clocks \in Held.osc_clocks
  BY <1>7, TimerHeld, Zeroes, Zenon
<1>9. Reset.brt_prescaler = 0 /\ Reset.brtr = FALSE /\ Reset.brtx12 = FALSE /\ Reset.t2 = 0 /\
      Reset.rcap2 = 0
  BY SMT DEF Reset
<1>10. Reset.brt_prescaler \in Held.brt_prescaler /\ Reset.brtr \in Held.brtr /\
      Reset.brtx12 \in Held.brtx12 /\ Reset.t2 \in Held.t2 /\ Reset.rcap2 \in Held.rcap2
  BY <1>9, BaudHeld, Zeroes, Zenon
<1>11. Reset.tr2 = FALSE /\ Reset.tf2 = FALSE /\ Reset.cp = FALSE /\ Reset.baud2 = FALSE /\
      Reset.t0clko = FALSE
  BY SMT DEF Reset
<1>12. Reset.tr2 \in Held.tr2 /\ Reset.tf2 \in Held.tf2 /\ Reset.cp \in Held.cp /\
      Reset.baud2 \in Held.baud2 /\ Reset.t0clko \in Held.t0clko
  BY <1>11, BaudHeld, Zeroes, Zenon
<1>13. Reset.t1clko = FALSE /\ Reset.last_tf1 = FALSE /\ Reset.latch = [p \in Pin |-> 1]
  BY SMT DEF Reset
<1>14. Reset.t1clko \in Held.t1clko /\ Reset.last_tf1 \in Held.last_tf1 /\
      Reset.latch \in Held.latch
  BY <1>13, BaudHeld, Zeroes, Zenon
<1>15. Reset.cr = FALSE /\ Reset.cf = FALSE /\ Reset.cps = 0 /\ Reset.cl = 0 /\ Reset.ch = 0
  BY SMT DEF Reset
<1>16. Reset.cr \in Held.cr /\ Reset.cf \in Held.cf /\ Reset.cps \in Held.cps /\
      Reset.cl \in Held.cl /\ Reset.ch \in Held.ch
  BY <1>15, PcaHeld, Zeroes, Zenon
<1>17. Reset.ccf = [k \in Module |-> FALSE] /\ Reset.ccapm = [k \in Module |-> {}] /\
      Reset.ccapl = [k \in Module |-> 0] /\ Reset.ccaph = [k \in Module |-> 0] /\
      Reset.epcl = [k \in Module |-> 0]
  BY SMT DEF Reset
<1>18. Reset.ccf \in Held.ccf /\ Reset.ccapm \in Held.ccapm /\ Reset.ccapl \in Held.ccapl /\
      Reset.ccaph \in Held.ccaph /\ Reset.epcl \in Held.epcl
  BY <1>17, PcaHeld, Zeroes, Zenon
<1>19. Reset.epch = [k \in Module |-> 0] /\ Reset.pca_cex_last = [k \in Module |-> 0] /\
      Reset.pca_prescaler = 0 /\ Reset.pca_t0_overflow_pending = FALSE /\ Reset.pca_p4 = FALSE
  BY SMT DEF Reset
<1>20. Reset.epch \in Held.epch /\ Reset.pca_cex_last \in Held.pca_cex_last /\
      Reset.pca_prescaler \in Held.pca_prescaler /\
      Reset.pca_t0_overflow_pending \in Held.pca_t0_overflow_pending /\
      Reset.pca_p4 \in Held.pca_p4
  BY <1>19, PcaHeld, Zeroes, Zenon
<1>21. Reset.power = FALSE /\ Reset.start = FALSE /\ Reset.flag = FALSE
  BY SMT DEF Reset
<1>22. Reset.power \in Held.power /\ Reset.start \in Held.start /\ Reset.flag \in Held.flag
  BY <1>21, AdcHeld, Zeroes, Zenon
<1>23. Reset.speed = 0 /\ Reset.chs = 0 /\ Reset.p1asf = {}
  BY SMT DEF Reset
<1>24. Reset.speed \in Held.speed /\ Reset.chs \in Held.chs /\ Reset.p1asf \in Held.p1asf
  <2>1. 0 \in 0 .. 3 /\ 0 \in Channel BY SMT DEF Channel
  <2>2. Reset.speed \in Held.speed /\ Reset.chs \in Held.chs BY <1>23, <2>1, AdcHeld, Zenon
  <2>3. {} \in SUBSET Channel OBVIOUS
  <2>4. Reset.p1asf \in Held.p1asf BY <1>23, <2>3, AdcHeld, Zenon
  <2> QED BY <2>2, <2>4
<1>25. Reset.adrj = FALSE /\ Reset.adc_res = 0 /\ Reset.adc_resl = 0
  BY SMT DEF Reset
<1>26. Reset.adrj \in Held.adrj /\ Reset.adc_res \in Held.adc_res /\
      Reset.adc_resl \in Held.adc_resl
  <2>1. 0 \in 0 .. 255 BY SMT
  <2>2. Reset.adc_res \in Held.adc_res /\ Reset.adc_resl \in Held.adc_resl BY <1>25, <2>1, AdcHeld
  <2>3. Reset.adrj \in Held.adrj BY <1>25, AdcHeld, Zenon
  <2> QED BY <2>2, <2>3
<1>27. Reset.adc_countdown = 0 /\ Reset.wdt_flag = FALSE /\ Reset.en_wdt = FALSE
  BY SMT DEF Reset
<1>28. Reset.adc_countdown \in Held.adc_countdown /\ Reset.wdt_flag \in Held.wdt_flag /\
      Reset.en_wdt \in Held.en_wdt
  BY <1>27, AdcHeld, Zeroes, Zenon
<1>29. Reset.ps = 0 /\ Reset.wdt_counter = 0 /\ Reset.wdt_prescaler_cnt = 0
  BY SMT DEF Reset
<1>30. Reset.ps \in Held.ps /\ Reset.wdt_counter \in Held.wdt_counter /\
      Reset.wdt_prescaler_cnt \in Held.wdt_prescaler_cnt
  BY <1>29, AdcHeld, Numbers, SMT
<1>31. Reset.dps = 0 /\ Reset.last_dps = 0 /\ Reset.dptr = 0 /\ Reset.dptr1 = 0 /\
      Reset.s2ti = FALSE
  BY SMT DEF Reset
<1>32. Reset.dps \in Held.dps /\ Reset.last_dps \in Held.last_dps /\
      Reset.dptr \in Held.dptr /\ Reset.dptr1 \in Held.dptr1 /\ Reset.s2ti \in Held.s2ti
  BY <1>31, OtherHeld, Zeroes, Zenon
<1>33. Reset.s2ri = FALSE /\ Reset.spen = FALSE /\ Reset.spif = FALSE /\ Reset.wcol = FALSE /\
      Reset.part = "STC12"
  BY SMT DEF Reset
<1>34. Reset.s2ri \in Held.s2ri /\ Reset.spen \in Held.spen /\ Reset.spif \in Held.spif /\
      Reset.wcol \in Held.wcol /\ Reset.part \in Held.part
  BY <1>33, OtherHeld, Zeroes, Zenon
<1> QED
  BY <1>2, <1>4, <1>6, <1>8, <1>10, <1>12, <1>14, <1>16, <1>18, <1>20, <1>22, <1>24, <1>26,
  <1>28, <1>30, <1>32, <1>34, Names, SMT

\* The board, the setup and the windows of a run.
TypesInv ==
  /\ Typed(c) /\ Typed(anchor) /\ Inputs(input)
  /\ todo.setup \in Setups /\ todo.left \in 0 .. todo.setup.left
  /\ todo = [setup |-> todo.setup, left |-> todo.left]
  /\ age \in 0 .. Window - 1
  /\ c.part = PartOf(todo.setup)

\* A machine as a setup leaves it, at any phase.
LEMMA SetUp ==
  ASSUME NEW setup \in Setups, NEW phase \in 0 .. Machine - 1, NEW s,
         s = [[x \in DOMAIN Reset |-> IF x \in DOMAIN setup.regs THEN setup.regs[x] ELSE Reset[x]]
              EXCEPT !.timer0_prescaler = phase, !.timer1_prescaler = phase, !.osc_clocks = phase]
  PROVE  Typed(s) /\ s.part = PartOf(setup)
<1> DEFINE b == [x \in DOMAIN Reset |-> IF x \in DOMAIN setup.regs THEN setup.regs[x] ELSE Reset[x]]
           P == {"timer0_prescaler", "timer1_prescaler", "osc_clocks"}
<1>1. \A x \in DOMAIN setup.regs : setup.regs[x] \in Held[x] BY SetupsAssumption, Zenon
<1>2. DOMAIN b = Fields /\ \A x \in Fields : b[x] = IF x \in DOMAIN setup.regs THEN setup.regs[x] ELSE Reset[x]
  BY Names, Zenon
<1>3. Typed(b)
  <2> HIDE DEF b
  <2>1. \A x \in Fields : b[x] \in Held[x]
    <3> SUFFICES ASSUME NEW x \in Fields PROVE b[x] \in Held[x] OBVIOUS
    <3>1. CASE x \in DOMAIN setup.regs BY <1>1, <1>2, <3>1, Zenon
    <3>2. CASE x \notin DOMAIN setup.regs BY <1>2, <3>2, ResetFits, Zenon
    <3> QED BY <3>1, <3>2
  <2> QED BY <1>2, <2>1, Zenon DEF Typed
<1>4. b.part = PartOf(setup)
  <2>1. "part" \in Fields BY IsField, Zenon
  <2> HIDE DEF b
  <2> QED BY <1>2, <2>1, Zenon DEF PartOf
<1>5. Beside(b, s, P) BY Zenon DEF Beside
<1>6. P \subseteq DOMAIN b BY <1>2, IsField, SMT
<1>7. s = [b EXCEPT !.timer0_prescaler = phase, !.timer1_prescaler = phase, !.osc_clocks = phase] OBVIOUS
<1> HIDE DEF b
<1>8. s.timer0_prescaler = phase /\ s.timer1_prescaler = phase /\ s.osc_clocks = phase
  BY <1>6, <1>7, Zenon
<1>9. /\ s["timer0_prescaler"] \in Held["timer0_prescaler"]
      /\ s["timer1_prescaler"] \in Held["timer1_prescaler"] /\ s["osc_clocks"] \in Held["osc_clocks"]
  BY <1>8, TimerHeld, Zenon
<1>10. \A x \in P \cap Fields : s[x] \in Held[x] BY <1>9, Zenon
<1>11. "part" \in Fields /\ "part" \notin P BY IsField, SMT
<1> HIDE DEF P
<1>12. Typed(s) BY <1>3, <1>5, <1>10, TypedBeside, Zenon
<1>13. \A x \in Fields : x \notin P => s[x] = b[x] BY <1>3, <1>5, Zenon DEF Beside, Typed
<1>14. s["part"] = b["part"] BY <1>11, <1>13, Zenon
<1> QED BY <1>4, <1>12, <1>14, Zenon

\* A byte received by UART2.
LEMMA Serial2Is ==
  ASSUME NEW s, Typed(s), NEW r, r = [s EXCEPT !.s2ri = TRUE]
  PROVE  Typed(r) /\ Agree(s, r, Fields \ {"s2ri"})
<1>1. "s2ri" \in DOMAIN s BY IsField, Zenon DEF Typed
<1>2. r["s2ri"] = TRUE BY <1>1, Zenon
<1>3. Beside(s, r, {"s2ri"}) BY Zenon DEF Beside
<1>4. \A x \in {"s2ri"} \cap Fields : r[x] \in Held[x] BY <1>2, OtherHeld, Zenon
<1>5. Typed(r) BY <1>3, <1>4, TypedBeside, Zenon
<1>6. Agree(s, r, Fields \ {"s2ri"}) BY <1>3, Zenon DEF Agree, Typed, Beside
<1> QED BY <1>5, <1>6

\* One level or one count changed.
LEMMA InputsChange ==
  ASSUME NEW in, Inputs(in)
  PROVE  /\ \A p \in Pin : Inputs([in EXCEPT !.level[p] = 1 - @])
         /\ \A k \in Channel, v \in Counts : Inputs([in EXCEPT !.analog[k] = v])
<1>1. ASSUME NEW p \in Pin PROVE Inputs([in EXCEPT !.level[p] = 1 - @])
  <2>1. in.level[p] \in 0 .. 1 BY Zenon DEF Inputs
  <2>2. 1 - in.level[p] \in 0 .. 1 BY <2>1, SMT
  <2>3. [in.level EXCEPT ![p] = 1 - in.level[p]] \in [Pin -> 0 .. 1] BY <2>2, LatchPut, Zenon DEF Inputs
  <2> QED BY <2>3, SMT DEF Inputs
<1>2. ASSUME NEW k \in Channel, NEW v \in Counts PROVE Inputs([in EXCEPT !.analog[k] = v])
  <2>1. [in.analog EXCEPT ![k] = v] \in [Channel -> Counts] BY SMT DEF Inputs
  <2> QED BY <2>1, SMT DEF Inputs
<1> QED BY <1>1, <1>2

-----------------------------------------------------------------------------
(* The types.                                                              *)

\* They hold at first.
LEMMA InitTypes == ASSUME Init PROVE TypesInv
<1>1. PICK setup \in Setups, phase \in 0 .. Machine - 1 :
        /\ todo = [setup |-> setup, left |-> setup.left]
        /\ c = [[x \in DOMAIN Reset |-> IF x \in DOMAIN setup.regs THEN setup.regs[x] ELSE Reset[x]]
                EXCEPT !.timer0_prescaler = phase, !.timer1_prescaler = phase, !.osc_clocks = phase]
  BY DEF Init
<1>2. Typed(c) /\ c.part = PartOf(setup) BY <1>1, SetUp, Zenon
<1>3. todo.setup = setup /\ todo.left = setup.left BY <1>1
<1>4. setup.left \in Nat BY SetupsAssumption, Zenon
<1>5. todo.setup \in Setups /\ todo.left \in 0 .. todo.setup.left
      /\ todo = [setup |-> todo.setup, left |-> todo.left]
  <2>1. todo.left \in 0 .. todo.setup.left BY <1>3, <1>4, SMT
  <2> QED BY <1>1, <1>3, <2>1, Zenon
<1>6. Inputs(input)
  <2>1. PICK v \in Counts : input = [level |-> [p \in Pin |-> 1], analog |-> [k \in Channel |-> v]]
    BY Zenon DEF Init
  <2>2. input.level = [p \in Pin |-> 1] /\ input.analog = [k \in Channel |-> v] BY <2>1
  <2>3. input.analog \in [Channel -> Counts] BY <2>2, Zenon
  <2> QED BY <2>2, <2>3, Zeroes, Zenon DEF Inputs
<1>7. anchor = c /\ age = 0 BY Zenon DEF Init
<1>8. 0 \in 0 .. Window - 1 BY Numbers, SMT
<1> QED BY <1>2, <1>3, <1>5, <1>6, <1>7, <1>8, Zenon DEF TypesInv

\* What a write leaves of the setup.
LEMMA WritesLegal == ASSUME TypesInv, NEW w \in todo.setup.writes PROVE Legal(c.part, w)
  BY SetupsAssumption, Zenon DEF TypesInv

\* One write less to come.
LEMMA OneLess ==
  ASSUME TypesInv, todo.left > 0, todo' = [todo EXCEPT !.left = @ - 1]
  PROVE  /\ todo'.setup = todo.setup /\ todo'.left \in 0 .. todo'.setup.left
         /\ todo' = [setup |-> todo'.setup, left |-> todo'.left]
<1>1. /\ todo = [setup |-> todo.setup, left |-> todo.left] /\ todo.left \in 0 .. todo.setup.left
      /\ todo.setup \in Setups
  BY Zenon DEF TypesInv
<1>2. todo' = [setup |-> todo.setup, left |-> todo.left - 1] BY <1>1, SMT
<1>3. todo'.setup = todo.setup /\ todo'.left = todo.left - 1 BY <1>2, SMT
<1>4. todo.setup.left \in Nat BY <1>1, SetupsAssumption, Zenon
<1>5. todo.left - 1 \in 0 .. todo.setup.left BY <1>1, <1>4, SMT
<1> QED BY <1>2, <1>3, <1>5, Zenon

\* The part is no field of Serial2Rx.
LEMMA PartField == "part" \in Fields \ {"s2ri"}
  BY IsField, SMT

\* Every step keeps the types.
LEMMA NextTypes == ASSUME TypesInv, [Next]_vars PROVE TypesInv'
<1>0. /\ Typed(c) /\ Typed(anchor) /\ Inputs(input) /\ age \in 0 .. Window - 1
      /\ todo.setup \in Setups /\ todo.left \in 0 .. todo.setup.left
      /\ todo = [setup |-> todo.setup, left |-> todo.left] /\ c.part = PartOf(todo.setup)
  BY Zenon DEF TypesInv
<1>1. CASE Tick
  <2>1. Typed(c') /\ c'.part = c.part
    <3>1. c' = Clocked(c, input) BY <1>1, Zenon DEF Tick
    <3>2. Typed(c') /\ SameConfig(c, c') BY <1>0, <3>1, ClockedIs, ClockConfig, Zenon
    <3> QED BY <3>2, Zenon DEF SameConfig
  <2>2. Typed(anchor') /\ age' \in 0 .. Window - 1
    <3>1. CASE age + 1 = Window
      <4>1. anchor' = c' /\ age' = 0 BY <1>1, <3>1, Zenon DEF Tick
      <4>2. 0 \in 0 .. Window - 1 BY Numbers, SMT
      <4> QED BY <2>1, <4>1, <4>2, Zenon
    <3>2. CASE age + 1 # Window
      <4>1. anchor' = anchor /\ age' = age + 1 BY <1>1, <3>2, Zenon DEF Tick
      <4>2. age + 1 \in 0 .. Window - 1 BY <1>0, <3>2, Numbers, SMT
      <4> QED BY <1>0, <4>1, <4>2, Zenon
    <3> QED BY <3>1, <3>2
  <2>3. input' = input /\ todo' = todo BY <1>1, Zenon DEF Tick
  <2> QED BY <1>0, <2>1, <2>2, <2>3, Zenon DEF TypesInv
<1>2. ASSUME NEW w \in todo.setup.writes, Write(w) PROVE TypesInv'
  <2>1. c' = Written(c, w) /\ anchor' = c' /\ age' = 0 /\ input' = input BY <1>2, Zenon DEF Write
  <2>2. /\ todo'.setup = todo.setup /\ todo'.left \in 0 .. todo'.setup.left
        /\ todo' = [setup |-> todo'.setup, left |-> todo'.left]
    BY <1>2, OneLess, Zenon DEF Write
  <2>3. Typed(c') /\ c'.part = c.part BY <1>0, <1>2, <2>1, WritesLegal, WriteIs, Zenon
  <2>4. 0 \in 0 .. Window - 1 BY Numbers, SMT
  <2> QED BY <1>0, <2>1, <2>2, <2>3, <2>4, Zenon DEF TypesInv
<1>3. ASSUME NEW p \in todo.setup.pins, SetPortInput(p) PROVE TypesInv'
  <2>1. /\ todo'.setup = todo.setup /\ todo'.left \in 0 .. todo'.setup.left
        /\ todo' = [setup |-> todo'.setup, left |-> todo'.left]
    BY <1>3, OneLess, Zenon DEF SetPortInput
  <2>2. p \in Pin BY <1>0, SetupsAssumption, Zenon
  <2>3. input' = [input EXCEPT !.level[p] = 1 - @] /\ c' = c /\ anchor' = anchor /\ age' = age
    BY <1>3, Zenon DEF SetPortInput
  <2>4. Inputs(input') BY <1>0, <2>2, <2>3, InputsChange
  <2> QED BY <1>0, <2>1, <2>3, <2>4, Zenon DEF TypesInv
<1>4. ASSUME NEW k \in todo.setup.channels, NEW v \in Counts, SetAdcInput(k, v) PROVE TypesInv'
  <2>1. /\ todo'.setup = todo.setup /\ todo'.left \in 0 .. todo'.setup.left
        /\ todo' = [setup |-> todo'.setup, left |-> todo'.left]
    BY <1>4, OneLess, Zenon DEF SetAdcInput
  <2>2. k \in Channel BY <1>0, SetupsAssumption, Zenon
  <2>3. input' = [input EXCEPT !.analog[k] = v] /\ c' = c /\ anchor' = anchor /\ age' = age
    BY <1>4, Zenon DEF SetAdcInput
  <2>4. Inputs(input') BY <1>0, <2>2, <2>3, InputsChange
  <2> QED BY <1>0, <2>1, <2>3, <2>4, Zenon DEF TypesInv
<1>5. CASE Serial2Rx
  <2>1. /\ c' = [c EXCEPT !.s2ri = TRUE] /\ input' = input /\ todo' = todo /\ anchor' = anchor
        /\ age' = age
    BY <1>5, Zenon DEF Serial2Rx
  <2>2. Typed(c') /\ Agree(c, c', Fields \ {"s2ri"}) BY <1>0, <2>1, Serial2Is, Zenon
  <2>3. c'["part"] = c["part"] BY <2>2, PartField, Zenon DEF Agree
  <2> QED BY <1>0, <2>1, <2>2, <2>3, Zenon DEF TypesInv
<1>6. CASE UNCHANGED vars BY <1>6 DEF vars, TypesInv
<1> QED BY <1>1, <1>2, <1>3, <1>4, <1>5, <1>6 DEF Next

\* The prescaler's phase is below one of the divisors.
LEMMA PhaseBelow ==
  ASSUME NEW s, Typed(s)
  PROVE  \E cps \in DOMAIN PcaDivisor : s.pca_prescaler < PcaDivisor[cps]
<1>1. s.pca_prescaler \in UNION {0 .. PcaDivisor[cps] - 1 : cps \in DOMAIN PcaDivisor} BY PcaIs, Zenon
<1>2. PICK cps \in DOMAIN PcaDivisor : s.pca_prescaler \in 0 .. PcaDivisor[cps] - 1 BY <1>1, Zenon
<1>3. PcaDivisor[cps] \in Nat BY WidthAssumption, SMT
<1>4. s.pca_prescaler < PcaDivisor[cps] BY <1>2, <1>3, SMT
<1> QED BY <1>4, Zenon

\* Counters hold what their C types and the code's comparisons allow.
THEOREM TypeCorrect == Spec => []TypeOK
<1>1. Init => TypesInv BY InitTypes
<1>2. TypesInv /\ [Next]_vars => TypesInv' BY NextTypes
<1>3. TypesInv => TypeOK
  <2> SUFFICES ASSUME TypesInv PROVE TypeOK OBVIOUS
  <2>0. Typed(c) /\ age \in 0 .. Window - 1 /\ todo.left \in 0 .. todo.setup.left BY Zenon DEF TypesInv
  <2>1. /\ {c.tl0, c.th0, c.tl1, c.th1, c.cl, c.ch} \subseteq 0 .. Radix - 1
        /\ {c.timer0_prescaler, c.timer1_prescaler, c.brt_prescaler} \subseteq 0 .. Machine - 1
    BY <2>0, TimerIs, BaudIs, PcaIs, Zenon
  <2>2. c.t2 \in 0 .. Radix * Radix - 1 /\ c.latch \in [Pin -> 0 .. 1] BY <2>0, BaudIs, Zenon
  <2>3. \A k \in Module : c.ccapl[k] \in 0 .. Radix - 1 /\ c.ccaph[k] \in 0 .. Radix - 1
    BY <2>0, PcaIs, Zenon
  <2>4. \E cps \in DOMAIN PcaDivisor : c.pca_prescaler < PcaDivisor[cps] BY <2>0, PhaseBelow, Zenon
  <2>5. /\ c.adc_res \in 0 .. 255 /\ c.adc_resl \in 0 .. 255 /\ c.adc_countdown \in 0 .. AdcClocks[0]
        /\ c.wdt_counter \in 0 .. WdtLimit - 1 /\ c.wdt_prescaler_cnt \in 0 .. WdtRadix - 1
    BY <2>0, AdcIs
  <2> QED BY <2>0, <2>1, <2>2, <2>3, <2>4, <2>5 DEF TypeOK
<1> QED BY <1>1, <1>2, <1>3, PTL DEF Spec

-----------------------------------------------------------------------------
(* The watchdog.                                                           *)

\* Clocks since it was cleared are its count and its prescaler's.
FedInv ==
  /\ fed.exact \in BOOLEAN /\ fed.clocks \in Nat
  /\ fed = [exact |-> fed.exact, clocks |-> fed.clocks]
  /\ fed.exact => c.part # "STC89"
  /\ fed.exact /\ Divisor(c.ps) < WdtRadix =>
       /\ fed.clocks = c.wdt_counter * Divisor(c.ps) + c.wdt_prescaler_cnt
       /\ c.wdt_prescaler_cnt < Divisor(c.ps)

\* Counts of d clocks end together with their limit only at its last clock.
LEMMA CountsEnd ==
  ASSUME NEW d \in Nat \ {0}, NEW l \in Nat \ {0, 1}, NEW n \in 0 .. l - 1, NEW p \in 0 .. d - 1
  PROVE  n * d + p + 1 = l * d <=> n = l - 1 /\ p + 1 = d
<1> DEFINE q == l - 1 - n
<1>1. q \in Nat /\ n = l - 1 - q BY SMT
<1>2. n * d = l * d - d - q * d BY <1>1, SMT
<1>3. l * d \in Int /\ n * d \in Int /\ q * d \in Int BY <1>1, SMT
<1>4. CASE q = 0
  <2>1. q * d = 0 BY <1>4, SMT
  <2> QED BY <1>1, <1>2, <1>3, <1>4, <2>1, SMT
<1>5. CASE q # 0
  <2> DEFINE m == q - 1
  <2>1. m \in Nat /\ q = m + 1 BY <1>1, <1>5, SMT
  <2>2. m * d \in Nat BY <2>1, SMT
  <2>3. q * d = m * d + d BY <2>1, SMT
  <2> HIDE DEF q, m
  <2> QED BY <1>1, <1>2, <1>3, <1>5, <2>2, <2>3, SMT
<1> QED BY <1>4, <1>5

\* One count more is d clocks more.
LEMMA CountMore ==
  ASSUME NEW d \in Nat, NEW n \in Nat
  PROVE  n * d \in Nat /\ (n + 1) * d = n * d + d /\ 0 * d = 0
  BY SMT

\* A clock of a watchdog that counts in step.
LEMMA FedTick ==
  ASSUME TypesInv, FedInv, fed.exact, Divisor(c.ps) < WdtRadix, c.en_wdt, c' = Clocked(c, input)
  PROVE  LET d == Divisor(c.ps)
             last == c.wdt_prescaler_cnt + 1 = d
         IN  /\ d \in Nat \ {0, 1}
             /\ c.wdt_counter \in 0 .. WdtLimit - 1 /\ c.wdt_prescaler_cnt \in 0 .. d - 1
             /\ fed.clocks = c.wdt_counter * d + c.wdt_prescaler_cnt
             /\ ~last => /\ c'.wdt_prescaler_cnt = c.wdt_prescaler_cnt + 1
                         /\ c'.wdt_prescaler_cnt < d /\ c'.wdt_counter = c.wdt_counter
             /\ last => c'.wdt_prescaler_cnt = 0
             /\ last /\ c.wdt_counter + 1 < WdtLimit => c'.wdt_counter = c.wdt_counter + 1
             /\ last /\ c.wdt_counter + 1 = WdtLimit => c'.wdt_counter = 0 /\ c'.wdt_flag
             /\ last \in BOOLEAN /\ (Overflowed <=> last /\ c.wdt_counter + 1 = WdtLimit)
<1> DEFINE d == Divisor(c.ps)  last == c.wdt_prescaler_cnt + 1 = d  p == c.wdt_prescaler_cnt
           k == c.wdt_counter
           n == (c.wdt_prescaler_cnt + 1) % WdtRadix
           up == c.wdt_counter + 1
<1>1. Typed(c) /\ Inputs(input) /\ c.part # "STC89" BY Zenon DEF TypesInv, FedInv
<1>2. c.ps \in 0 .. 7 /\ k \in 0 .. WdtLimit - 1 /\ p \in 0 .. WdtRadix - 1 BY <1>1, AdcIs, Zenon
<1>3. d \in Nat \ {0, 1} BY <1>2, DivisorIs, Zenon
<1>4. p < d /\ d < WdtRadix /\ fed.clocks = k * d + p BY Zenon DEF FedInv
<1>5. /\ n < d => c'.wdt_prescaler_cnt = n /\ c'.wdt_counter = k
      /\ ~(n < d) => /\ c'.wdt_prescaler_cnt = 0
                     /\ c'.wdt_counter = IF up >= WdtLimit THEN 0 ELSE up
                     /\ up >= WdtLimit => c'.wdt_flag
  BY <1>1, WdtClock, Zenon
<1> HIDE DEF d
<1>6. p + 1 \in 0 .. WdtRadix - 1 BY <1>2, <1>3, <1>4, Numbers, SMT
<1>7. n = p + 1
  <2>1. \A x \in 0 .. WdtRadix - 1 : x % WdtRadix = x BY Numbers, SmallMod
  <2> QED BY <1>6, <2>1, Zenon
<1> HIDE DEF n
<1>8. CASE ~last
  <2>1. n < d
    <3>1. p \in Int /\ d \in Int /\ p < d /\ p + 1 # d BY <1>2, <1>3, <1>4, <1>8, Numbers, SMT
    <3>2. p + 1 < d BY <3>1, SMT
    <3> QED BY <1>7, <3>2, Zenon
  <2>2. c'.wdt_prescaler_cnt = p + 1 /\ c'.wdt_prescaler_cnt < d /\ c'.wdt_counter = k
    BY <1>5, <1>7, <2>1, Zenon
  <2>3. ~Overflowed
    <3>1. WdtLimit - 1 # 0 BY Numbers, SMT
    <3> QED BY <2>2, <3>1, Zenon DEF Overflowed
  <2>4. p \in 0 .. d - 1 BY <1>2, <1>3, <1>4, SMT
  <2> HIDE DEF last
  <2> QED BY <1>2, <1>3, <1>4, <1>8, <2>2, <2>3, <2>4, Zenon DEF d, last
<1>9. CASE last
  <2>1. ~(n < d) BY <1>3, <1>7, <1>9, SMT
  <2>2. c'.wdt_prescaler_cnt = 0 BY <1>5, <2>1, Zenon
  <2>3. k + 1 < WdtLimit => c'.wdt_counter = k + 1
    <3>1. k + 1 < WdtLimit => ~(up >= WdtLimit) BY <1>2, Numbers, SMT
    <3> QED BY <1>5, <2>1, <3>1, Zenon
  <2>4. k + 1 = WdtLimit => c'.wdt_counter = 0 /\ c'.wdt_flag
    <3>1. k + 1 = WdtLimit => up >= WdtLimit BY <1>2, Numbers, SMT
    <3> QED BY <1>5, <2>1, <3>1, Zenon
  <2>5. Overflowed <=> k + 1 = WdtLimit
    <3>1. k = WdtLimit - 1 <=> k + 1 = WdtLimit BY <1>2, Numbers, SMT
    <3> QED BY <2>4, <3>1, Zenon DEF Overflowed
  <2>6. p \in 0 .. d - 1 BY <1>2, <1>3, <1>4, SMT
  <2>7. last = TRUE BY <1>9
  <2> HIDE DEF last
  <2> QED BY <1>2, <1>3, <1>4, <2>2, <2>3, <2>4, <2>5, <2>6, <2>7, Zenon DEF d, last
<1> QED BY <1>8, <1>9

\* At first nobody has cleared it.
LEMMA InitFed == ASSUME Init PROVE FedInv
<1>1. fed = [exact |-> FALSE, clocks |-> 0] BY Zenon DEF Init
<1>2. fed.exact = FALSE /\ fed.clocks = 0 BY <1>1
<1> QED BY <1>1, <1>2, SMT DEF FedInv

\* Every step keeps the count.
LEMMA NextFed == ASSUME TypesInv, FedInv, [Next]_vars PROVE FedInv'
<1>0. Typed(c) /\ Inputs(input) BY Zenon DEF TypesInv
<1>1. CASE Tick
  <2>0. c' = Clocked(c, input) BY <1>1, Zenon DEF Tick
  <2>1. c'.part = c.part /\ c'.ps = c.ps
    <3>1. SameConfig(c, c') BY <1>0, <2>0, ClockConfig, Zenon
    <3> QED BY <3>1, Zenon DEF SameConfig
  <2> DEFINE d == Divisor(c.ps)
  <2>2. c.en_wdt \in BOOLEAN BY <1>0, AdcIs, Zenon
  <2>3. CASE ~(fed.exact /\ Divisor(c.ps) < WdtRadix)
    <3>1. fed' = fed \/ fed' = [fed EXCEPT !.clocks = 0]
      BY <1>1, <2>3, Zenon DEF Tick
    <3>2. fed'.exact = fed.exact /\ fed'.clocks \in Nat /\ fed' = [exact |-> fed'.exact, clocks |-> fed'.clocks]
      BY <3>1, SMT DEF FedInv
    <3> QED BY <2>1, <2>3, <3>2, Zenon DEF FedInv
  <2>4. CASE fed.exact /\ Divisor(c.ps) < WdtRadix /\ ~c.en_wdt
    <3>1. fed' = fed BY <1>1, <2>4, Zenon DEF Tick
    <3>2. c'.wdt_prescaler_cnt = c.wdt_prescaler_cnt /\ c'.wdt_counter = c.wdt_counter
      BY <1>0, <2>0, <2>4, WdtClock, Zenon DEF FedInv
    <3> QED BY <2>1, <3>1, <3>2, Zenon DEF FedInv
  <2>5. CASE fed.exact /\ Divisor(c.ps) < WdtRadix /\ c.en_wdt
    <3> DEFINE last == c.wdt_prescaler_cnt + 1 = d
    <3>1. /\ d \in Nat \ {0, 1}
          /\ c.wdt_counter \in 0 .. WdtLimit - 1 /\ c.wdt_prescaler_cnt \in 0 .. d - 1
          /\ fed.clocks = c.wdt_counter * d + c.wdt_prescaler_cnt
          /\ ~last => /\ c'.wdt_prescaler_cnt = c.wdt_prescaler_cnt + 1
                      /\ c'.wdt_prescaler_cnt < d /\ c'.wdt_counter = c.wdt_counter
          /\ last => c'.wdt_prescaler_cnt = 0
          /\ last /\ c.wdt_counter + 1 < WdtLimit => c'.wdt_counter = c.wdt_counter + 1
          /\ last /\ c.wdt_counter + 1 = WdtLimit => c'.wdt_counter = 0 /\ c'.wdt_flag
          /\ last \in BOOLEAN /\ (Overflowed <=> last /\ c.wdt_counter + 1 = WdtLimit)
      BY <2>0, <2>5, FedTick, Zenon
    <3>2. /\ Overflowed => fed' = [fed EXCEPT !.clocks = 0]
          /\ ~Overflowed => fed' = [fed EXCEPT !.clocks = @ + 1]
      BY <1>1, <2>5, Zenon DEF Tick
    <3>3. /\ fed = [exact |-> fed.exact, clocks |-> fed.clocks] /\ fed.clocks \in Nat
      BY Zenon DEF FedInv
    <3>4. /\ fed' = [exact |-> fed'.exact, clocks |-> fed'.clocks] /\ fed'.exact = fed.exact
          /\ fed'.clocks = IF Overflowed THEN 0 ELSE fed.clocks + 1
      BY <3>2, <3>3, SMT
    <3>5. c.wdt_counter \in Nat /\ c.wdt_prescaler_cnt \in Nat /\ d \in Nat BY <3>1, Numbers, SMT
    <3> HIDE DEF d
    <3>6. fed'.clocks = c'.wdt_counter * d + c'.wdt_prescaler_cnt /\ c'.wdt_prescaler_cnt < d
      <4>1. CASE ~last
        <5>1. fed'.clocks = fed.clocks + 1 BY <3>1, <3>4, <4>1, Zenon
        <5>2. c.wdt_counter * d \in Nat BY <3>5, CountMore, Zenon
        <5>3. c'.wdt_counter * d = c.wdt_counter * d BY <3>1, <4>1, Zenon
        <5>4. /\ c'.wdt_prescaler_cnt = c.wdt_prescaler_cnt + 1 /\ c'.wdt_prescaler_cnt < d
              /\ fed.clocks = c.wdt_counter * d + c.wdt_prescaler_cnt
          BY <3>1, <4>1, Zenon
        <5> QED BY <3>5, <5>1, <5>2, <5>3, <5>4, SMT
      <4>2. CASE last /\ c.wdt_counter + 1 = WdtLimit
        <5>1. fed'.clocks = 0 /\ c'.wdt_counter = 0 /\ c'.wdt_prescaler_cnt = 0 BY <3>1, <3>4, <4>2, Zenon
        <5>2. c'.wdt_counter * d = 0 BY <3>5, <5>1, CountMore, Zenon
        <5> QED BY <3>1, <5>1, <5>2, SMT
      <4>3. CASE last /\ c.wdt_counter + 1 # WdtLimit
        <5>0. c.wdt_counter + 1 < WdtLimit BY <3>1, <4>3, Numbers, SMT
        <5>1. /\ fed'.clocks = fed.clocks + 1 /\ c'.wdt_counter = c.wdt_counter + 1
              /\ c'.wdt_prescaler_cnt = 0
          BY <3>1, <3>4, <4>3, <5>0, Zenon
        <5>2. c.wdt_counter * d \in Nat /\ (c.wdt_counter + 1) * d = c.wdt_counter * d + d
          BY <3>5, CountMore, Zenon
        <5>3. c'.wdt_counter * d = (c.wdt_counter + 1) * d BY <5>1, Zenon
        <5>4. fed.clocks = c.wdt_counter * d + c.wdt_prescaler_cnt /\ c.wdt_prescaler_cnt + 1 = d
          BY <3>1, <4>3, Zenon
        <5> HIDE DEF last
        <5>5. fed'.clocks = c'.wdt_counter * d + 0 BY <3>5, <5>1, <5>2, <5>3, <5>4, SMT
        <5>6. 0 < d BY <3>1, SMT
        <5> QED BY <5>1, <5>5, <5>6, SMT
      <4> QED BY <4>1, <4>2, <4>3
    <3>7. fed'.clocks \in Nat
      <4>1. CASE Overflowed BY <3>4, <4>1, SMT
      <4>2. CASE ~Overflowed
        <5>1. fed'.clocks = fed.clocks + 1 BY <3>4, <4>2, Zenon
        <5> QED BY <3>3, <5>1, SMT
      <4> QED BY <4>1, <4>2
    <3>8. d = Divisor(c'.ps) BY <2>1, Zenon DEF d
    <3> QED BY <2>1, <2>5, <3>4, <3>6, <3>7, <3>8, Zenon DEF FedInv
  <2> QED BY <2>2, <2>3, <2>4, <2>5
<1>2. ASSUME NEW w \in todo.setup.writes, Write(w) PROVE FedInv'
  <2>1. c' = Written(c, w) /\ fed' = Fed(w) BY <1>2, Zenon DEF Write
  <2>2. Legal(c.part, w) BY <1>2, WritesLegal
  <2>3. CASE w.reg # "wdt_contr"
    <3>1. fed' = fed BY <2>1, <2>3, Zenon DEF Fed
    <3>2. /\ c'.part = c.part /\ c'.ps = c.ps /\ c'.wdt_counter = c.wdt_counter
          /\ c'.wdt_prescaler_cnt = c.wdt_prescaler_cnt
      BY <1>0, <2>1, <2>2, <2>3, WriteIs, Zenon
    <3> QED BY <3>1, <3>2, Zenon DEF FedInv
  <2>4. CASE w.reg = "wdt_contr"
    <3>1. fed' = [exact |-> w.val.clr, clocks |-> 0] BY <2>1, <2>4, Zenon DEF Fed
    <3>2. fed'.exact = w.val.clr /\ fed'.clocks = 0 BY <3>1
    <3>3. /\ Typed(c') /\ c'.part = c.part /\ c.part # "STC89" /\ w.val.clr \in BOOLEAN
          /\ w.val.clr => c'.wdt_counter = 0 /\ c'.wdt_prescaler_cnt = 0
      BY <1>0, <2>1, <2>2, <2>4, WriteIs, Zenon
    <3>4. c'.ps \in 0 .. 7 BY <3>3, AdcIs, Zenon
    <3>5. Divisor(c'.ps) \in Nat \ {0, 1} BY <3>4, DivisorIs, Zenon
    <3> DEFINE d == Divisor(c'.ps)
    <3> HIDE DEF d
    <3>6. w.val.clr => fed'.clocks = c'.wdt_counter * d + c'.wdt_prescaler_cnt /\ c'.wdt_prescaler_cnt < d
      <4> SUFFICES ASSUME w.val.clr
                   PROVE  fed'.clocks = c'.wdt_counter * d + c'.wdt_prescaler_cnt /\ c'.wdt_prescaler_cnt < d
        OBVIOUS
      <4>1. d \in Nat \ {0, 1} BY <3>5 DEF d
      <4>2. c'.wdt_counter * d = 0 * d BY <3>3, Zenon
      <4>3. 0 * d = 0 /\ 0 < d BY <4>1, SMT
      <4> QED BY <3>2, <3>3, <4>2, <4>3, SMT
    <3>7. 0 \in Nat BY SMT
    <3> QED BY <3>1, <3>2, <3>3, <3>6, <3>7, Zenon DEF FedInv, d
  <2> QED BY <2>3, <2>4
<1>3. ASSUME NEW p \in todo.setup.pins, SetPortInput(p) PROVE FedInv'
  BY <1>3, Zenon DEF SetPortInput, FedInv
<1>4. ASSUME NEW k \in todo.setup.channels, NEW v \in Counts, SetAdcInput(k, v) PROVE FedInv'
  BY <1>4, Zenon DEF SetAdcInput, FedInv
<1>5. CASE Serial2Rx
  <2>1. c' = [c EXCEPT !.s2ri = TRUE] /\ fed' = fed BY <1>5, Zenon DEF Serial2Rx
  <2>2. Agree(c, c', Fields \ {"s2ri"}) BY <1>0, <2>1, Serial2Is, Zenon
  <2>3. /\ c'["part"] = c["part"] /\ c'["ps"] = c["ps"] /\ c'["wdt_counter"] = c["wdt_counter"]
        /\ c'["wdt_prescaler_cnt"] = c["wdt_prescaler_cnt"]
    <3>1. /\ "part" \in Fields \ {"s2ri"} /\ "ps" \in Fields \ {"s2ri"}
          /\ "wdt_counter" \in Fields \ {"s2ri"} /\ "wdt_prescaler_cnt" \in Fields \ {"s2ri"}
      BY IsField, SMT
    <3> QED BY <2>2, <3>1, Zenon DEF Agree
  <2> QED BY <2>1, <2>3, Zenon DEF FedInv
<1>6. CASE UNCHANGED vars BY <1>6 DEF vars, FedInv
<1> QED BY <1>1, <1>2, <1>3, <1>4, <1>5, <1>6 DEF Next

\* Only the clock moves the clock.
LEMMA OnlyTicks == ASSUME TypesInv, [Next]_vars, Ticked PROVE Tick
<1>0. Typed(c) BY Zenon DEF TypesInv
<1>1. c'.osc_clocks # c.osc_clocks BY Zenon DEF Ticked
<1>2. ASSUME NEW w \in todo.setup.writes, Write(w) PROVE FALSE
  <2>1. c' = Written(c, w) BY <1>2, Zenon DEF Write
  <2>2. Legal(c.part, w) BY <1>2, WritesLegal
  <2>3. c'.osc_clocks = c.osc_clocks BY <1>0, <2>1, <2>2, WriteIs, Zenon
  <2> QED BY <1>1, <2>3, Zenon
<1>3. ASSUME Serial2Rx PROVE FALSE
  <2>1. c' = [c EXCEPT !.s2ri = TRUE] BY <1>3, Zenon DEF Serial2Rx
  <2>2. Agree(c, c', Fields \ {"s2ri"}) BY <1>0, <2>1, Serial2Is, Zenon
  <2>3. "osc_clocks" \in Fields \ {"s2ri"} BY IsField, SMT
  <2>4. c'["osc_clocks"] = c["osc_clocks"] BY <2>2, <2>3, Zenon DEF Agree
  <2> QED BY <1>1, <2>4, Zenon
<1>4. ASSUME c' = c PROVE FALSE BY <1>1, <1>4, Zenon
<1>5. UNCHANGED vars => c' = c BY DEF vars
<1>6. \A p : SetPortInput(p) => c' = c BY Zenon DEF SetPortInput
<1>7. \A k, v : SetAdcInput(k, v) => c' = c BY Zenon DEF SetAdcInput
<1> QED BY <1>2, <1>3, <1>4, <1>5, <1>6, <1>7, Zenon DEF Next

\* The watchdog overflows as many prescaled counts after it was cleared as
\* its limit says, never earlier, and not later short of the largest prescaler.
THEOREM WatchdogTheorem == Spec => WdtBitesOnTime
<1>1. Init => TypesInv /\ FedInv BY InitTypes, InitFed
<1>2. TypesInv /\ FedInv /\ [Next]_vars => (TypesInv /\ FedInv)'
  <2> SUFFICES ASSUME TypesInv, FedInv, [Next]_vars PROVE TypesInv' /\ FedInv' OBVIOUS
  <2> QED BY NextTypes, NextFed
<1>3. ASSUME TypesInv, FedInv, [Next]_vars
      PROVE  [ (Ticked /\ c.en_wdt /\ fed.exact /\ Divisor(c.ps) < WdtRadix) =>
                 (c'.wdt_flag /\ Overflowed <=> fed.clocks + 1 = WdtLimit * Divisor(c.ps)) ]_vars
  <2> SUFFICES ASSUME Ticked, c.en_wdt, fed.exact, Divisor(c.ps) < WdtRadix
               PROVE  c'.wdt_flag /\ Overflowed <=> fed.clocks + 1 = WdtLimit * Divisor(c.ps)
    BY Zenon
  <2>1. c' = Clocked(c, input) BY <1>3, OnlyTicks, Zenon DEF Tick
  <2> DEFINE d == Divisor(c.ps)  last == c.wdt_prescaler_cnt + 1 = d
  <2>2. /\ d \in Nat \ {0, 1}
        /\ c.wdt_counter \in 0 .. WdtLimit - 1 /\ c.wdt_prescaler_cnt \in 0 .. d - 1
        /\ fed.clocks = c.wdt_counter * d + c.wdt_prescaler_cnt
        /\ last /\ c.wdt_counter + 1 = WdtLimit => c'.wdt_flag
        /\ last \in BOOLEAN /\ (Overflowed <=> last /\ c.wdt_counter + 1 = WdtLimit)
    BY <1>3, <2>1, FedTick, Zenon
  <2> HIDE DEF d
  <2>3. WdtLimit \in Nat \ {0, 1} /\ d \in Nat \ {0} BY <2>2, Numbers, SMT
  <2>4. c.wdt_counter * d + c.wdt_prescaler_cnt + 1 = WdtLimit * d
        <=> c.wdt_counter = WdtLimit - 1 /\ c.wdt_prescaler_cnt + 1 = d
    <3> DEFINE n == c.wdt_counter  p == c.wdt_prescaler_cnt
    <3>1. n \in 0 .. WdtLimit - 1 /\ p \in 0 .. d - 1 BY <2>2, Zenon
    <3> HIDE DEF n, p
    <3>2. n * d + p + 1 = WdtLimit * d <=> n = WdtLimit - 1 /\ p + 1 = d BY <2>3, <3>1, CountsEnd
    <3> QED BY <3>2 DEF n, p
  <2>5. c.wdt_counter = WdtLimit - 1 <=> c.wdt_counter + 1 = WdtLimit BY <2>2, <2>3, SMT
  <2>6. fed.clocks + 1 = WdtLimit * d <=> last /\ c.wdt_counter + 1 = WdtLimit
    BY <2>2, <2>4, <2>5, Zenon
  <2>7. c'.wdt_flag /\ Overflowed <=> last /\ c.wdt_counter + 1 = WdtLimit BY <2>2, Zenon
  <2> QED BY <2>6, <2>7, Zenon DEF d
<1> QED BY <1>1, <1>2, <1>3, PTL DEF Spec, WdtBitesOnTime

-----------------------------------------------------------------------------
(* The ADC.                                                                *)

\* The clocks waited and those to come are a conversion's.
AskedInv ==
  /\ asked.exact \in BOOLEAN /\ asked.chs \in Channel /\ asked.speed \in 0 .. 3 /\ asked.waited \in Nat
  /\ asked = [exact |-> asked.exact, chs |-> asked.chs, speed |-> asked.speed, waited |-> asked.waited]
  /\ asked.exact /\ c.adc_countdown # 0 =>
       /\ c.part # "STC89" /\ c.chs = asked.chs
       /\ asked.waited + c.adc_countdown = AdcClocks[asked.speed]

\* A countdown above zero is one that runs.
LEMMA Runs == ASSUME NEW s, Typed(s)
  PROVE  s.adc_countdown \in Nat /\ (s.adc_countdown > 0 <=> s.adc_countdown # 0)
<1>1. s.adc_countdown \in 0 .. AdcClocks[0] /\ AdcClocks[0] \in Nat BY AdcIs, WidthAssumption, SMT
<1> QED BY <1>1, SMT

\* No conversion is asked for at first.
LEMMA InitAsked == ASSUME Init PROVE AskedInv
<1>1. asked = [exact |-> FALSE, chs |-> 0, speed |-> 0, waited |-> 0] BY Zenon DEF Init
<1>2. asked.exact = FALSE /\ asked.chs = 0 /\ asked.speed = 0 /\ asked.waited = 0 BY <1>1
<1> QED BY <1>1, <1>2, SMT DEF AskedInv, Channel

\* Every step keeps the sum.
LEMMA NextAsked == ASSUME TypesInv, AskedInv, [Next]_vars PROVE AskedInv'
<1>0. Typed(c) /\ Inputs(input) BY Zenon DEF TypesInv
<1>1. CASE Tick
  <2>0. c' = Clocked(c, input) BY <1>1, Zenon DEF Tick
  <2>1. SameConfig(c, c') /\ Typed(c') BY <1>0, <2>0, ClockConfig, ClockedIs, Zenon
  <2>2. c'.part = c.part /\ c'.chs = c.chs BY <2>1, Zenon DEF SameConfig
  <2>3. CASE c.adc_countdown = 0
    <3>1. asked' = asked BY <1>0, <1>1, <2>3, Runs, Zenon DEF Tick
    <3>2. c'.adc_countdown = 0
      <4>1. CASE c.part = "STC89" BY <1>0, <2>0, <2>3, <4>1, Timer2Clock, Zenon
      <4>2. CASE c.part # "STC89" BY <1>0, <2>0, <2>3, <4>2, AdcClock, Zenon
      <4> QED BY <4>1, <4>2
    <3> QED BY <3>1, <3>2, Zenon DEF AskedInv
  <2>4. CASE c.adc_countdown # 0
    <3>1. asked' = [asked EXCEPT !.waited = @ + 1] BY <1>0, <1>1, <2>4, Runs, Zenon DEF Tick
    <3>2. /\ asked'.exact = asked.exact /\ asked'.chs = asked.chs /\ asked'.speed = asked.speed
          /\ asked'.waited = asked.waited + 1
          /\ asked' = [exact |-> asked'.exact, chs |-> asked'.chs, speed |-> asked'.speed,
                       waited |-> asked'.waited]
      BY <3>1, SMT DEF AskedInv
    <3>3. asked'.waited \in Nat BY <3>2, SMT DEF AskedInv
    <3>4. asked.exact => /\ c'.part # "STC89" /\ c'.chs = asked'.chs
                         /\ asked'.waited + c'.adc_countdown = AdcClocks[asked'.speed]
      <4> SUFFICES ASSUME asked.exact
                   PROVE  /\ c'.part # "STC89" /\ c'.chs = asked'.chs
                          /\ asked'.waited + c'.adc_countdown = AdcClocks[asked'.speed]
        OBVIOUS
      <4>1. c.part # "STC89" /\ c.chs = asked.chs /\ asked.waited + c.adc_countdown = AdcClocks[asked.speed]
        BY <2>4, Zenon DEF AskedInv
      <4>2. c'.adc_countdown = c.adc_countdown - 1 BY <1>0, <2>0, <2>4, <4>1, AdcClock, Zenon
      <4>3. asked.waited \in Nat /\ c.adc_countdown \in Nat BY <1>0, Runs, Zenon DEF AskedInv
      <4>4. asked'.waited + c'.adc_countdown = asked.waited + c.adc_countdown BY <3>2, <4>2, <4>3, SMT
      <4> QED BY <2>2, <3>2, <4>1, <4>4, Zenon
    <3> QED BY <3>2, <3>3, <3>4, Zenon DEF AskedInv
  <2> QED BY <2>3, <2>4
<1>2. ASSUME NEW w \in todo.setup.writes, Write(w) PROVE AskedInv'
  <2>1. c' = Written(c, w) /\ asked' = Asked(w) BY <1>2, Zenon DEF Write
  <2>2. Legal(c.part, w) BY <1>2, WritesLegal
  <2>3. CASE w.reg # "adc_contr"
    <3>1. asked' = asked BY <2>1, <2>3, Zenon DEF Asked
    <3>2. c'.part = c.part /\ c'.adc_countdown = c.adc_countdown /\ c'.chs = c.chs
      BY <1>0, <2>1, <2>2, <2>3, WriteIs, Zenon
    <3> QED BY <3>1, <3>2, Zenon DEF AskedInv
  <2>4. CASE w.reg = "adc_contr"
    <3> DEFINE e == w.val.start /\ w.val.power
    <3>1. asked' = [exact |-> e, chs |-> w.val.chs, speed |-> w.val.speed, waited |-> 0]
      BY <2>1, <2>4, Zenon DEF Asked
    <3>2. /\ c'.part = c.part /\ c.part # "STC89" /\ w.val.speed \in 0 .. 3 /\ w.val.chs \in Channel
          /\ w.val.start \in BOOLEAN /\ w.val.power \in BOOLEAN /\ c'.chs = w.val.chs
          /\ c'.adc_countdown = IF e THEN AdcClocks[w.val.speed] ELSE c.adc_countdown
      <4>1. c'.part = c.part BY <1>0, <2>1, <2>2, WriteIs, Zenon
      <4>2. /\ c.part # "STC89" /\ w.val.speed \in 0 .. 3 /\ w.val.chs \in Channel
            /\ w.val.start \in BOOLEAN /\ w.val.power \in BOOLEAN /\ c'.chs = w.val.chs
            /\ c'.adc_countdown = IF w.val.start /\ w.val.power THEN AdcClocks[w.val.speed]
                                  ELSE c.adc_countdown
        BY <1>0, <2>1, <2>2, <2>4, WriteIs
      <4> QED BY <4>1, <4>2, Zenon DEF e
    <3>3. e \in BOOLEAN BY <3>2
    <3> HIDE DEF e
    <3>4. asked'.exact = e /\ asked'.chs = w.val.chs /\ asked'.speed = w.val.speed /\ asked'.waited = 0
      BY <3>1
    <3>5. AdcClocks[w.val.speed] \in Nat BY <3>2, WidthAssumption, SMT
    <3>6. e => asked'.waited + c'.adc_countdown = AdcClocks[asked'.speed] BY <3>2, <3>4, <3>5, SMT
    <3>7. 0 \in Nat BY SMT
    <3> QED BY <3>1, <3>2, <3>3, <3>4, <3>6, <3>7, Zenon DEF AskedInv
  <2> QED BY <2>3, <2>4
<1>3. ASSUME NEW p \in todo.setup.pins, SetPortInput(p) PROVE AskedInv'
  BY <1>3, Zenon DEF SetPortInput, AskedInv
<1>4. ASSUME NEW k \in todo.setup.channels, NEW v \in Counts, SetAdcInput(k, v) PROVE AskedInv'
  BY <1>4, Zenon DEF SetAdcInput, AskedInv
<1>5. CASE Serial2Rx
  <2>1. c' = [c EXCEPT !.s2ri = TRUE] /\ asked' = asked BY <1>5, Zenon DEF Serial2Rx
  <2>2. Agree(c, c', Fields \ {"s2ri"}) BY <1>0, <2>1, Serial2Is, Zenon
  <2>3. c'["part"] = c["part"] /\ c'["chs"] = c["chs"] /\ c'["adc_countdown"] = c["adc_countdown"]
    <3>1. /\ "part" \in Fields \ {"s2ri"} /\ "chs" \in Fields \ {"s2ri"}
          /\ "adc_countdown" \in Fields \ {"s2ri"}
      BY IsField, SMT
    <3> QED BY <2>2, <3>1, Zenon DEF Agree
  <2> QED BY <2>1, <2>3, Zenon DEF AskedInv
<1>6. CASE UNCHANGED vars BY <1>6 DEF vars, AskedInv
<1> QED BY <1>1, <1>2, <1>3, <1>4, <1>5, <1>6 DEF Next

\* A result in two registers is the count they were taken from.
LEMMA ResultBack ==
  ASSUME NEW v \in 0 .. 1023
  PROVE  v = (v % 256) + 256 * (v \div 256) /\ v = (v % 4) + 4 * (v \div 4)
  BY SMT

\* A conversion ends as many clocks after its last START as SPEED says, with
\* ADC_FLAG set and ADC_START clear and the channel asked for in the result.
THEOREM ConversionTheorem == Spec => AdcAnswersAsked
<1>1. Init => TypesInv /\ AskedInv BY InitTypes, InitAsked
<1>2. TypesInv /\ AskedInv /\ [Next]_vars => (TypesInv /\ AskedInv)'
  <2> SUFFICES ASSUME TypesInv, AskedInv, [Next]_vars PROVE TypesInv' /\ AskedInv' OBVIOUS
  <2> QED BY NextTypes, NextAsked
<1>3. ASSUME TypesInv, AskedInv, [Next]_vars
      PROVE  [ (Ticked /\ c.adc_countdown > 0 /\ asked.exact) =>
                 IF asked'.waited < AdcClocks[asked.speed] THEN c'.flag = c.flag
                 ELSE LET v == IF asked.chs \in c.p1asf THEN input.analog[asked.chs] ELSE 0
                      IN  /\ c'.flag /\ ~c'.start /\ c'.adc_countdown = 0
                          /\ v = IF c.adrj THEN c'.adc_resl + 256 * c'.adc_res
                                           ELSE c'.adc_resl + 4 * c'.adc_res ]_vars
  <2> DEFINE v == IF asked.chs \in c.p1asf THEN input.analog[asked.chs] ELSE 0
             r == Result(c, input.analog)
             full == IF c.adrj THEN c'.adc_resl + 256 * c'.adc_res ELSE c'.adc_resl + 4 * c'.adc_res
  <2> SUFFICES ASSUME Ticked, c.adc_countdown > 0, asked.exact
               PROVE  IF asked'.waited < AdcClocks[asked.speed] THEN c'.flag = c.flag
                      ELSE c'.flag /\ ~c'.start /\ c'.adc_countdown = 0 /\ v = full
    BY Zenon
  <2>0. Typed(c) /\ Inputs(input) BY <1>3, Zenon DEF TypesInv
  <2>1. Tick BY <1>3, OnlyTicks
  <2>2. c' = Clocked(c, input) /\ asked' = [asked EXCEPT !.waited = @ + 1] BY <2>1, Zenon DEF Tick
  <2>3. c.adc_countdown \in Nat /\ c.adc_countdown # 0 BY <2>0, Runs, Zenon
  <2>4. /\ c.part # "STC89" /\ c.chs = asked.chs
        /\ asked.waited + c.adc_countdown = AdcClocks[asked.speed] /\ asked.waited \in Nat
    BY <1>3, <2>3, Zenon DEF AskedInv
  <2>5. asked'.waited = asked.waited + 1 BY <1>3, <2>2, SMT DEF AskedInv
  <2>6. r = v BY <2>4, Zenon DEF Result
  <2>7. /\ c.adc_countdown = 1 =>
             /\ c'.adc_countdown = c.adc_countdown - 1 /\ c'.flag = TRUE /\ c'.start = FALSE
             /\ c'.adc_res = AdcHigh(c, r) /\ c'.adc_resl = AdcLow(c, r)
        /\ c.adc_countdown # 0 /\ c.adc_countdown # 1 =>
             c'.adc_countdown = c.adc_countdown - 1 /\ c'.flag = c.flag
    BY <2>0, <2>2, <2>4, AdcClock, Zenon
  <2>8. r \in 0 .. 1023
    <3>1. input.analog \in [Channel -> Counts] BY <2>0, Zenon DEF Inputs
    <3> QED BY <2>0, <3>1, ResultIs
  <2> HIDE DEF r, v
  <2>9. CASE c.adc_countdown = 1
    <3>1. ~(asked'.waited < AdcClocks[asked.speed]) BY <2>4, <2>5, <2>9, SMT
    <3>2. c'.adc_countdown = 0 BY <2>7, <2>9, SMT
    <3>3. r = full
      <4>0. r = (r % 256) + 256 * (r \div 256) /\ r = (r % 4) + 4 * (r \div 4) BY <2>8, ResultBack
      <4>1. CASE c.adrj
        <5>1. c'.adc_res = r \div 256 /\ c'.adc_resl = r % 256
          BY <2>7, <2>9, <4>1, Zenon DEF AdcHigh, AdcLow
        <5> QED BY <4>0, <4>1, <5>1, Zenon
      <4>2. CASE ~c.adrj
        <5>1. c'.adc_res = r \div 4 /\ c'.adc_resl = r % 4
          BY <2>7, <2>9, <4>2, Zenon DEF AdcHigh, AdcLow
        <5> QED BY <4>0, <4>2, <5>1, Zenon
      <4> QED BY <4>1, <4>2
    <3> HIDE DEF full
    <3> QED BY <2>6, <2>7, <2>9, <3>1, <3>2, <3>3, Zenon
  <2>10. CASE c.adc_countdown # 1
    <3>1. asked'.waited < AdcClocks[asked.speed] BY <2>3, <2>4, <2>5, <2>10, SMT
    <3> QED BY <2>3, <2>7, <2>10, <3>1, Zenon
  <2> QED BY <2>9, <2>10
<1> QED BY <1>1, <1>2, <1>3, PTL DEF Spec, AdcAnswersAsked

-----------------------------------------------------------------------------
(* The PWM.                                                                *)

\* A period has been high where the counter has passed the duty it began with.
PulseInv ==
  /\ pulse \in [Module -> [whole : BOOLEAN, duty : 0 .. Radix - 1, highs : Nat]]
  /\ \A k \in Module : pulse[k].whole /\ Drives(c, k) =>
       /\ c.ccapl[k] = pulse[k].duty
       /\ pulse[k].highs = IF c.cl + 1 > pulse[k].duty THEN c.cl + 1 - pulse[k].duty ELSE 0

\* A counter that counts is one that moves.
LEMMA CounterMoves == ASSUME NEW n \in 0 .. Radix - 1
  PROVE  /\ (n + 1) % Radix # n
         /\ (n + 1) % Radix # 0 => (n + 1) % Radix = n + 1
         /\ (n + 1) % Radix \in 0 .. Radix - 1
<1>1. (n + 1) % Radix = IF n + 1 = Radix THEN 0 ELSE n + 1 BY Numbers, WrapMod
<1> QED BY <1>1, Numbers, SMT

\* What a clock does to a module that drives a pin.
LEMMA PulseClock ==
  ASSUME NEW s, Typed(s), NEW in, Inputs(in), NEW k \in Module, Drives(s, k)
  PROVE  LET r == Clocked(s, in)
         IN  /\ r.cl = s.cl => r.ccapl[k] = s.ccapl[k]
             /\ r.cl # s.cl =>
                  /\ s.cr /\ (r.cl # 0 => r.cl = s.cl + 1)
                  /\ r.ccapl[k] = IF r.cl = 0 THEN s.ccaph[k] ELSE s.ccapl[k]
                  /\ r.latch[PcaPin(s, k)] = IF r.cl >= r.ccapl[k] THEN 1 ELSE 0
<1> DEFINE r == Clocked(s, in)
<1>1. s.cl \in 0 .. Radix - 1 BY PcaIs, Zenon
<1>2. CASE s.part = "STC89"
  <2> DEFINE T == TimedFields \cup {"t2", "tf2"}  X == {"cl", "ccapl"}
  <2>1. Beside(s, r, T) BY <1>2, ClockedIs, Zenon
  <2>2. Spares(T, X) BY IsField, SMT DEF Spares, TimedFields
  <2> HIDE DEF r, T, X
  <2>3. Agree(s, r, X) BY <2>1, <2>2, BesideFields, Zenon
  <2>4. r.cl = s.cl /\ r.ccapl = s.ccapl BY <2>3, SMT DEF Agree, X
  <2> QED BY <2>4, Zenon DEF r
<1>3. CASE s.part # "STC89" /\ ~PcaCounts(s)
  <2>1. r.cl = s.cl /\ r.ccapl = s.ccapl BY <1>3, PcaClock, Zenon
  <2> QED BY <2>1, Zenon
<1>4. CASE s.part # "STC89" /\ PcaCounts(s)
  <2>1. r.cl = (s.cl + 1) % Radix BY <1>4, PcaClock, Zenon
  <2>4. /\ r.ccapl[k] = IF r.cl = 0 THEN s.ccaph[k] ELSE s.ccapl[k]
        /\ r.latch[PcaPin(s, k)] = IF r.cl >= r.ccapl[k] THEN 1 ELSE 0
    BY <1>4, PcaClock, Zenon
  <2>2. s.cr BY <1>4, Zenon DEF PcaCounts
  <2>3. r.cl # s.cl /\ (r.cl # 0 => r.cl = s.cl + 1) BY <1>1, <2>1, CounterMoves, Zenon
  <2> QED BY <2>2, <2>3, <2>4, Zenon
<1> QED BY <1>2, <1>3, <1>4

\* No period has been seen at first.
LEMMA InitPulse == ASSUME Init PROVE PulseInv
<1>1. pulse = [k \in Module |-> [whole |-> FALSE, duty |-> 0, highs |-> 0]] BY Zenon DEF Init
<1>2. [whole |-> FALSE, duty |-> 0, highs |-> 0] \in [whole : BOOLEAN, duty : 0 .. Radix - 1, highs : Nat]
  BY Zeroes, SMT
<1>3. \A k \in Module : pulse[k].whole = FALSE BY <1>1
<1>4. pulse \in [Module -> [whole : BOOLEAN, duty : 0 .. Radix - 1, highs : Nat]] BY <1>1, <1>2, Zenon
<1> QED BY <1>3, <1>4, Zenon DEF PulseInv

\* One clock of a period.
LEMMA PulseTick ==
  ASSUME TypesInv, PulseInv, Tick, NEW k \in Module
  PROVE  /\ pulse'[k] \in [whole : BOOLEAN, duty : 0 .. Radix - 1, highs : Nat]
         /\ pulse'[k].whole /\ Drives(c', k) =>
              /\ c'.ccapl[k] = pulse'[k].duty
              /\ pulse'[k].highs = IF c'.cl + 1 > pulse'[k].duty THEN c'.cl + 1 - pulse'[k].duty ELSE 0
<1>1. Typed(c) /\ Inputs(input) /\ c' = Clocked(c, input) BY Zenon DEF TypesInv, Tick
<1>2. Typed(c') BY <1>1, ClockedIs, Zenon
<1>3. Drives(c', k) <=> Drives(c, k)
  <2>1. SameConfig(c, c') BY <1>1, ClockConfig, Zenon
  <2>2. c'.part = c.part /\ c'.ccapm = c.ccapm BY <2>1, Zenon DEF SameConfig
  <2> QED BY <2>2, Zenon DEF Drives
<1>4. pulse'[k] = IF k < Modules(c.part) /\ c.cr THEN PulseAfter(k) ELSE pulse[k] BY Zenon DEF Tick
<1>5. /\ pulse[k] \in [whole : BOOLEAN, duty : 0 .. Radix - 1, highs : Nat]
      /\ pulse[k].whole /\ Drives(c, k) =>
           /\ c.ccapl[k] = pulse[k].duty
           /\ pulse[k].highs = IF c.cl + 1 > pulse[k].duty THEN c.cl + 1 - pulse[k].duty ELSE 0
  BY Zenon DEF PulseInv
<1>6. Drives(c, k) =>
        /\ c'.cl = c.cl => c'.ccapl[k] = c.ccapl[k]
        /\ c'.cl # c.cl =>
             /\ c.cr /\ (c'.cl # 0 => c'.cl = c.cl + 1)
             /\ c'.ccapl[k] = IF c'.cl = 0 THEN c.ccaph[k] ELSE c.ccapl[k]
             /\ c'.latch[PcaPin(c, k)] = IF c'.cl >= c'.ccapl[k] THEN 1 ELSE 0
  BY <1>1, PulseClock, Zenon
<1>7. Drives(c, k) => k < Modules(c.part) BY Zenon DEF Drives
<1>8. c.ccaph[k] \in 0 .. Radix - 1 /\ c.cl \in 0 .. Radix - 1 /\ c'.cl \in 0 .. Radix - 1
  BY <1>1, <1>2, PcaIs, Zenon
<1> DEFINE high == c'.latch[PcaPin(c, k)]  P == [whole : BOOLEAN, duty : 0 .. Radix - 1, highs : Nat]
<1>9. high \in 0 .. 1 \/ ~(k < Modules(c.part))
  <2>1. k < Modules(c.part) => PcaPin(c, k) \in Pin BY <1>1, PcaPinIs, Zenon
  <2>2. c'.latch \in [Pin -> 0 .. 1] BY <1>2, BaudIs, Zenon
  <2> QED BY <2>1, <2>2, Zenon
<1>10. CASE pulse'[k] = pulse[k] /\ (Drives(c, k) => c'.cl = c.cl)
  <2>1. pulse'[k] \in P BY <1>5, <1>10, Zenon
  <2> QED BY <1>3, <1>5, <1>6, <1>10, <2>1, Zenon
<1>11. CASE k < Modules(c.part) /\ c.cr /\ c'.cl # c.cl /\ c'.cl = 0
  <2>1. pulse'[k] = [whole |-> TRUE, duty |-> c.ccaph[k], highs |-> high]
    BY <1>4, <1>11, Zenon DEF PulseAfter
  <2>2. high \in 0 .. 1 BY <1>9, <1>11, Zenon
  <2> HIDE DEF high
  <2>3. pulse'[k].whole = TRUE /\ pulse'[k].duty = c.ccaph[k] /\ pulse'[k].highs = high BY <2>1, SMT
  <2>4. pulse'[k] \in P BY <1>8, <2>1, <2>2, SMT
  <2>5. ASSUME Drives(c, k)
        PROVE  /\ c'.ccapl[k] = pulse'[k].duty
               /\ pulse'[k].highs = IF c'.cl + 1 > pulse'[k].duty THEN c'.cl + 1 - pulse'[k].duty ELSE 0
    <3>1. c'.ccapl[k] = c.ccaph[k] /\ high = IF c'.cl >= c'.ccapl[k] THEN 1 ELSE 0
      BY <1>6, <1>11, <2>5, Zenon DEF high
    <3>2. high = IF 0 + 1 > c.ccaph[k] THEN 0 + 1 - c.ccaph[k] ELSE 0 BY <1>8, <1>11, <3>1, Numbers, SMT
    <3> QED BY <1>11, <2>3, <3>1, <3>2, Zenon
  <2> QED BY <1>3, <2>4, <2>5, Zenon
<1>12. CASE k < Modules(c.part) /\ c.cr /\ c'.cl # c.cl /\ c'.cl # 0
  <2> DEFINE n == IF pulse[k].whole THEN pulse[k].highs + high ELSE 0
  <2>1. pulse'[k] = [pulse[k] EXCEPT !.highs = n] BY <1>4, <1>12, Zenon DEF PulseAfter
  <2>2. high \in 0 .. 1 BY <1>9, <1>12, Zenon
  <2> HIDE DEF high
  <2>3. n \in Nat BY <1>5, <2>2, SMT
  <2> HIDE DEF n
  <2>4. pulse'[k].whole = pulse[k].whole /\ pulse'[k].duty = pulse[k].duty /\ pulse'[k].highs = n
        /\ pulse'[k] \in P
    BY <1>5, <2>1, <2>3, SMT
  <2>5. ASSUME Drives(c, k), pulse[k].whole
        PROVE  /\ c'.ccapl[k] = pulse'[k].duty
               /\ pulse'[k].highs = IF c'.cl + 1 > pulse'[k].duty THEN c'.cl + 1 - pulse'[k].duty ELSE 0
    <3> DEFINE d == pulse[k].duty
    <3>1. /\ c'.ccapl[k] = c.ccapl[k] /\ high = (IF c'.cl >= c'.ccapl[k] THEN 1 ELSE 0)
          /\ c'.cl = c.cl + 1
      BY <1>6, <1>12, <2>5, Zenon DEF high
    <3>2. c.ccapl[k] = d /\ pulse[k].highs = IF c.cl + 1 > d THEN c.cl + 1 - d ELSE 0
      BY <1>5, <2>5, Zenon
    <3>3. d \in 0 .. Radix - 1 BY <1>5, SMT
    <3>4. n = pulse[k].highs + high BY <2>5, Zenon DEF n
    <3> HIDE DEF d
    <3>5. n = IF c'.cl + 1 > d THEN c'.cl + 1 - d ELSE 0 BY <1>8, <3>1, <3>2, <3>3, <3>4, Numbers, SMT
    <3> QED BY <2>4, <3>1, <3>2, <3>5, Zenon DEF d
  <2> QED BY <1>3, <2>4, <2>5, Zenon
<1>13. CASE c'.cl = c.cl
  <2>1. PulseAfter(k) = pulse[k] BY <1>13, Zenon DEF PulseAfter
  <2>2. pulse'[k] = pulse[k] BY <1>4, <2>1, Zenon
  <2> QED BY <1>10, <1>13, <2>2, Zenon
<1>14. CASE c'.cl # c.cl /\ ~(k < Modules(c.part) /\ c.cr)
  <2>1. pulse'[k] = pulse[k] BY <1>4, <1>14, Zenon
  <2>2. Drives(c, k) => c'.cl = c.cl BY <1>6, <1>7, <1>14, Zenon
  <2> QED BY <1>10, <2>1, <2>2, Zenon
<1> QED BY <1>11, <1>12, <1>13, <1>14, Zenon

\* Every step keeps the sum.
LEMMA NextPulse == ASSUME TypesInv, PulseInv, [Next]_vars PROVE PulseInv'
<1> DEFINE P == [whole : BOOLEAN, duty : 0 .. Radix - 1, highs : Nat]
<1>0. Typed(c) /\ Inputs(input) /\ pulse \in [Module -> P] BY Zenon DEF TypesInv, PulseInv
<1>1. CASE Tick
  <2>1. pulse' = [k \in Module |-> IF k < Modules(c.part) /\ c.cr THEN PulseAfter(k) ELSE pulse[k]]
    BY <1>1, Zenon DEF Tick
  <2>2. \A k \in Module : pulse'[k] \in P BY <1>1, PulseTick
  <2>3. DOMAIN pulse' = Module /\ pulse' = [k \in Module |-> pulse'[k]] BY <2>1, Zenon
  <2>4. pulse' \in [Module -> P] BY <2>2, <2>3, Zenon
  <2>5. \A k \in Module : pulse'[k].whole /\ Drives(c', k) =>
          /\ c'.ccapl[k] = pulse'[k].duty
          /\ pulse'[k].highs = IF c'.cl + 1 > pulse'[k].duty THEN c'.cl + 1 - pulse'[k].duty ELSE 0
    BY <1>1, PulseTick
  <2> QED BY <2>4, <2>5, Zenon DEF PulseInv
<1>2. ASSUME NEW w \in todo.setup.writes, Write(w) PROVE PulseInv'
  <2>1. c' = Written(c, w) /\ pulse' = Disturbed(w) BY <1>2, Zenon DEF Write
  <2>2. Legal(c.part, w) BY <1>2, WritesLegal
  <2>3. CASE w.reg = "ccaph"
    <3> DEFINE X == {"part", "ccapm", "ccapl", "cl"}
    <3>1. pulse' = pulse BY <2>1, <2>3, Zenon DEF Disturbed
    <3>2. Beside(c, c', {"ccaph"}) BY <1>0, <2>1, <2>2, <2>3, WriteIs, Zenon
    <3>3. Spares({"ccaph"}, X) BY IsField, SMT DEF Spares
    <3> HIDE DEF X
    <3>4. Agree(c, c', X) BY <1>0, <3>2, <3>3, BesideFields, Zenon
    <3>5. c'.part = c.part /\ c'.ccapm = c.ccapm /\ c'.ccapl = c.ccapl /\ c'.cl = c.cl
      BY <3>4, SMT DEF Agree, X
    <3>6. \A k : Drives(c', k) <=> Drives(c, k) BY <3>5, Zenon DEF Drives
    <3> QED BY <3>1, <3>5, <3>6, Zenon DEF PulseInv
  <2>4. CASE w.reg # "ccaph"
    <3>1. pulse' = [k \in Module |-> [pulse[k] EXCEPT !.whole = FALSE]] BY <2>1, <2>4, Zenon DEF Disturbed
    <3>2. ASSUME NEW k \in Module
          PROVE  [pulse[k] EXCEPT !.whole = FALSE] \in P /\ [pulse[k] EXCEPT !.whole = FALSE].whole = FALSE
      <4> DEFINE r == [pulse[k] EXCEPT !.whole = FALSE]
      <4>1. pulse[k] \in P BY <1>0, Zenon
      <4>5. pulse[k].duty \in 0 .. Radix - 1 /\ pulse[k].highs \in Nat BY <4>1, SMT
      <4>10. pulse[k] = [whole |-> pulse[k].whole, duty |-> pulse[k].duty, highs |-> pulse[k].highs]
        BY <4>1, SMT
      <4>6. PICK a, d, h : pulse[k] = [whole |-> a, duty |-> d, highs |-> h]
                           /\ d = pulse[k].duty /\ h = pulse[k].highs
        BY <4>10, Zenon
      <4>7. \A v : [[whole |-> a, duty |-> d, highs |-> h] EXCEPT !.whole = v]
                   = [whole |-> v, duty |-> d, highs |-> h]
        BY SMT
      <4>8. r = [[whole |-> a, duty |-> d, highs |-> h] EXCEPT !.whole = FALSE] BY <4>6
      <4>2. r = [whole |-> FALSE, duty |-> d, highs |-> h] BY <4>7, <4>8, Zenon
      <4>9. d \in 0 .. Radix - 1 /\ h \in Nat BY <4>5, <4>6, Zenon
      <4> HIDE DEF r
      <4>3. r \in P BY <4>2, <4>9, Zenon
      <4>4. r.whole = FALSE BY <4>2
      <4> QED BY <4>3, <4>4 DEF r
    <3>3. pulse' \in [Module -> P] BY <3>1, <3>2, Zenon
    <3>4. \A k \in Module : pulse'[k].whole = FALSE BY <3>1, <3>2, Zenon
    <3> QED BY <3>3, <3>4, Zenon DEF PulseInv
  <2> QED BY <2>3, <2>4
<1>3. ASSUME NEW p \in todo.setup.pins, SetPortInput(p) PROVE PulseInv'
  BY <1>3, Zenon DEF SetPortInput, PulseInv
<1>4. ASSUME NEW k \in todo.setup.channels, NEW v \in Counts, SetAdcInput(k, v) PROVE PulseInv'
  BY <1>4, Zenon DEF SetAdcInput, PulseInv
<1>5. CASE Serial2Rx
  <2>1. c' = [c EXCEPT !.s2ri = TRUE] /\ pulse' = pulse BY <1>5, Zenon DEF Serial2Rx
  <2>2. Agree(c, c', Fields \ {"s2ri"}) BY <1>0, <2>1, Serial2Is, Zenon
  <2>3. c'["part"] = c["part"] /\ c'["ccapm"] = c["ccapm"] /\ c'["ccapl"] = c["ccapl"] /\ c'["cl"] = c["cl"]
    <3>1. /\ "part" \in Fields \ {"s2ri"} /\ "ccapm" \in Fields \ {"s2ri"}
          /\ "ccapl" \in Fields \ {"s2ri"} /\ "cl" \in Fields \ {"s2ri"}
      BY IsField, SMT
    <3> QED BY <2>2, <3>1, Zenon DEF Agree
  <2>4. \A k : Drives(c', k) <=> Drives(c, k) BY <2>3, Zenon DEF Drives
  <2> QED BY <2>1, <2>3, <2>4, Zenon DEF PulseInv
<1>6. CASE UNCHANGED vars
  <2>1. c' = c /\ pulse' = pulse BY <1>6 DEF vars
  <2> QED BY <2>1, Zenon DEF PulseInv
<1> QED BY <1>1, <1>2, <1>3, <1>4, <1>5, <1>6 DEF Next

\* A PWM period has the duty CCAPnH asked for when it began.
THEOREM PulseTheorem == Spec => []PwmPulseWhole
<1>1. Init => TypesInv /\ PulseInv BY InitTypes, InitPulse
<1>2. TypesInv /\ PulseInv /\ [Next]_vars => (TypesInv /\ PulseInv)'
  <2> SUFFICES ASSUME TypesInv, PulseInv, [Next]_vars PROVE TypesInv' /\ PulseInv' OBVIOUS
  <2> QED BY NextTypes, NextPulse
<1>3. TypesInv /\ PulseInv => PwmPulseWhole
  <2> SUFFICES ASSUME TypesInv, PulseInv, NEW k \in 0 .. Modules(c.part) - 1,
                      pulse[k].whole, c.cl = Radix - 1, "PWM" \in c.ccapm[k],
                      c.ccapm[k] \cap {"TOG", "CAPP", "CAPN"} = {}
               PROVE  pulse[k].highs = Radix - pulse[k].duty
    BY DEF PwmPulseWhole
  <2>1. Typed(c) BY Zenon DEF TypesInv
  <2>2. Modules(c.part) \in {0, 2, 3}
    <3>1. c.part \in {"STC12", "STC15", "STC15W", "STC89"} BY <2>1, OtherIs, Zenon
    <3> QED BY <3>1, SMT DEF Modules
  <2>3. k \in Module /\ k < Modules(c.part) BY <2>2, SMT DEF Module
  <2>4. Drives(c, k) BY <2>3, SMT DEF Drives
  <2>5. /\ pulse[k].duty \in 0 .. Radix - 1
        /\ pulse[k].highs = IF c.cl + 1 > pulse[k].duty THEN c.cl + 1 - pulse[k].duty ELSE 0
    <3>1. pulse[k] \in [whole : BOOLEAN, duty : 0 .. Radix - 1, highs : Nat] BY <2>3, Zenon DEF PulseInv
    <3>2. pulse[k].highs = IF c.cl + 1 > pulse[k].duty THEN c.cl + 1 - pulse[k].duty ELSE 0
      BY <2>3, <2>4, Zenon DEF PulseInv
    <3> QED BY <3>1, <3>2, SMT
  <2> QED BY <2>5, Numbers, SMT
<1> QED BY <1>1, <1>2, <1>3, PTL DEF Spec

-----------------------------------------------------------------------------
(* The timers.                                                             *)

\* A prescaler that has run n clocks.
Phase(fast, phase, n) == IF fast THEN phase ELSE (phase + n) % Machine

\* One clock more of a prescaler, and of the counts it lets through.
LEMMA TicksNext ==
  ASSUME NEW fast \in BOOLEAN, NEW phase \in 0 .. Machine - 1, NEW n \in Nat
  PROVE  LET now == Phase(fast, phase, n)
             due == fast \/ now + 1 = Machine
             ticks == TimerTicks(fast, phase, n)
         IN  /\ Phase(fast, phase, n + 1) = IF fast THEN now ELSE Prescaled(now)
             /\ now \in 0 .. Machine - 1 /\ ticks \in Nat
             /\ due => TimerTicks(fast, phase, n + 1) = ticks + 1
             /\ ~due => TimerTicks(fast, phase, n + 1) = ticks
<1>0. Machine \in Nat \ {0} BY Numbers, SMT
<1>1. CASE fast BY <1>1, SMT DEF Phase, TimerTicks
<1>2. CASE ~fast
  <2> DEFINE x == phase + n  q == x \div Machine  r == x % Machine  m == n + 1
  <2>1. x \in Nat /\ phase + m = x + 1 BY <1>0, SMT
  <2> HIDE DEF x, m
  <2>2. q \in Int /\ r \in 0 .. Machine - 1 /\ x = q * Machine + r
    <3>1. x \in Int BY <2>1, SMT
    <3> QED BY <1>0, <3>1, DivMod, Zenon
  <2>3. /\ r = Machine - 1 => (x + 1) % Machine = 0 /\ (x + 1) \div Machine = q + 1
        /\ r # Machine - 1 => (x + 1) % Machine = r + 1 /\ (x + 1) \div Machine = q
    BY <1>0, <2>1, NextDivMod, Zenon
  <2>4. q >= 0
    <3> HIDE DEF q, r
    <3>1. CASE q <= -1
      <4>1. q * Machine <= -Machine BY <1>0, <2>2, <3>1, SMT
      <4> QED BY <1>0, <2>1, <2>2, <4>1, SMT
    <3> QED BY <2>2, <3>1, SMT
  <2>5. Prescaled(r) = IF r + 1 = Machine THEN 0 ELSE r + 1 BY <2>2, PrescaledIs, Zenon
  <2>6. /\ Phase(fast, phase, n) = r /\ TimerTicks(fast, phase, n) = q
        /\ Phase(fast, phase, m) = (x + 1) % Machine /\ TimerTicks(fast, phase, m) = (x + 1) \div Machine
    BY <1>2, <2>1, Zenon DEF Phase, TimerTicks, x
  <2> HIDE DEF q, r
  <2>7. r = Machine - 1 <=> r + 1 = Machine BY <1>0, <2>2, SMT
  <2>8. q \in Nat BY <2>2, <2>4, SMT
  <2>9. /\ Phase(fast, phase, m) = Prescaled(r)
        /\ r + 1 = Machine => TimerTicks(fast, phase, m) = q + 1
        /\ r + 1 # Machine => TimerTicks(fast, phase, m) = q
    BY <2>3, <2>5, <2>6, <2>7, Zenon DEF q, r
  <2> QED BY <1>2, <2>2, <2>6, <2>8, <2>9, Zenon DEF m
<1> QED BY <1>1, <1>2

\* No clock yet.
LEMMA TicksFirst ==
  ASSUME NEW fast \in BOOLEAN, NEW phase \in 0 .. Machine - 1
  PROVE  Phase(fast, phase, 0) = phase /\ TimerTicks(fast, phase, 0) = 0
<1>1. phase + 0 = phase /\ phase % Machine = phase /\ phase \div Machine = 0
  BY Numbers, SmallMod, SMT
<1> QED BY <1>1, Zenon DEF Phase, TimerTicks

\* A timer that counted k times from tl and th.
CountedOn(mode, tl, th, k, l, h) ==
  Value(mode, l, h) = After(mode, tl, th, k) /\ (mode = 2 => h = th)

\* One count more.
LEMMA CountsOn ==
  ASSUME NEW mode \in 0 .. 3, NEW tl \in 0 .. Radix - 1, NEW th \in 0 .. Radix - 1, NEW k \in Nat,
         NEW l \in 0 .. Radix - 1, NEW h \in 0 .. Radix - 1, CountedOn(mode, tl, th, k, l, h),
         NEW t, t = Counted(mode, l, h)
  PROVE  /\ CountedOn(mode, tl, th, k + 1, t.tl, t.th)
         /\ Wraps(mode, tl, th, k) \in Nat /\ t.over \in BOOLEAN
         /\ t.over => Wraps(mode, tl, th, k + 1) = Wraps(mode, tl, th, k) + 1
         /\ ~t.over => Wraps(mode, tl, th, k + 1) = Wraps(mode, tl, th, k)
<1> DEFINE v == Value(mode, tl, th)  was == Value(mode, l, h)
           z == Size(mode)  b == Back(mode, th)  m == k + 1
<1>1. /\ v \in 0 .. z - 1 /\ z \in Nat \ {0} /\ was \in 0 .. z - 1 BY ValueIn, Zenon
<1>2. b \in 0 .. z - 1
  <2>1. CASE mode = 2
    <3>1. z = Radix BY <2>1, SMT DEF Size
    <3> QED BY <2>1, <3>1, Zenon DEF Back
  <2>2. CASE mode # 2
    <3>1. b = 0 BY <2>2, Zenon DEF Back
    <3> QED BY <1>1, <3>1, SMT
  <2> QED BY <2>1, <2>2
<1>3. /\ t.tl \in 0 .. Radix - 1 /\ t.th \in 0 .. Radix - 1 /\ t.over \in BOOLEAN
      /\ was = z - 1 => t.over /\ Value(mode, t.tl, t.th) = Back(mode, h)
      /\ was # z - 1 => ~t.over /\ Value(mode, t.tl, t.th) = was + 1
      /\ mode \in {2, 3} => t.th = h
  <2>1. t.tl \in 0 .. Radix - 1 /\ t.th \in 0 .. Radix - 1 /\ t.over \in BOOLEAN BY CountedIs
  <2>2. was = z - 1 => t.over /\ Value(mode, t.tl, t.th) = Back(mode, h) BY CountedIs
  <2>3. was # z - 1 => ~t.over /\ Value(mode, t.tl, t.th) = was + 1 BY CountedIs
  <2>4. mode \in {2, 3} => t.th = h BY CountedIs
  <2> QED BY <2>1, <2>2, <2>3, <2>4
<1>4. Back(mode, h) = b BY Zenon DEF Back, CountedOn
<1>5. mode = 2 => t.th = th BY <1>3, Zenon DEF CountedOn
<1>6. m \in Nat BY SMT
<1> HIDE DEF v, was, z, b, m
<1>7. /\ After(mode, tl, th, k) = CountFrom(v, z, b, k) /\ Wraps(mode, tl, th, k) = OverFrom(v, z, b, k)
      /\ After(mode, tl, th, m) = CountFrom(v, z, b, m) /\ Wraps(mode, tl, th, m) = OverFrom(v, z, b, m)
  BY <1>6, AfterIs, Zenon DEF v, z, b
<1>8. was = CountFrom(v, z, b, k) BY <1>7, Zenon DEF CountedOn, was
<1>9. /\ OverFrom(v, z, b, k) \in Nat
      /\ CountFrom(v, z, b, m) = (IF was = z - 1 THEN b ELSE was + 1)
      /\ OverFrom(v, z, b, m) = (IF was = z - 1 THEN OverFrom(v, z, b, k) + 1 ELSE OverFrom(v, z, b, k))
  <2>1. LET w == CountFrom(v, z, b, k)
            over == OverFrom(v, z, b, k)
        IN  /\ w \in 0 .. z - 1 /\ over \in Nat
            /\ CountFrom(v, z, b, k + 1) = IF w = z - 1 THEN b ELSE w + 1
            /\ OverFrom(v, z, b, k + 1) = IF w = z - 1 THEN over + 1 ELSE over
    BY <1>1, <1>2, CountNext, Zenon
  <2> QED BY <1>8, <2>1, Zenon DEF m
<1>10. CASE was = z - 1
  <2>1. Value(mode, t.tl, t.th) = After(mode, tl, th, m) /\ t.over
        /\ Wraps(mode, tl, th, m) = Wraps(mode, tl, th, k) + 1
    BY <1>3, <1>4, <1>7, <1>9, <1>10, Zenon
  <2> QED BY <1>3, <1>5, <1>7, <1>9, <2>1, Zenon DEF CountedOn, m
<1>11. CASE was # z - 1
  <2>1. Value(mode, t.tl, t.th) = After(mode, tl, th, m) /\ ~t.over
        /\ Wraps(mode, tl, th, m) = Wraps(mode, tl, th, k)
    BY <1>3, <1>4, <1>7, <1>9, <1>11, Zenon
  <2> QED BY <1>3, <1>5, <1>7, <1>9, <2>1, Zenon DEF CountedOn, m
<1> QED BY <1>10, <1>11

\* No count yet.
LEMMA CountsFirst ==
  ASSUME NEW mode \in 0 .. 3, NEW tl \in 0 .. Radix - 1, NEW th \in 0 .. Radix - 1
  PROVE  CountedOn(mode, tl, th, 0, tl, th) /\ Wraps(mode, tl, th, 0) = 0
<1> DEFINE v == Value(mode, tl, th)  z == Size(mode)  b == Back(mode, th)
<1>1. v \in 0 .. z - 1 /\ z \in Nat \ {0} BY ValueIn, Zenon
<1>2. b \in 0 .. z - 1
  <2>1. CASE mode = 2
    <3>1. z = Radix BY <2>1, SMT DEF Size
    <3> QED BY <2>1, <3>1, Zenon DEF Back
  <2>2. CASE mode # 2
    <3>1. b = 0 BY <2>2, Zenon DEF Back
    <3> QED BY <1>1, <3>1, SMT
  <2> QED BY <2>1, <2>2
<1>3. 0 \in Nat BY SMT
<1>4. After(mode, tl, th, 0) = CountFrom(v, z, b, 0) /\ Wraps(mode, tl, th, 0) = OverFrom(v, z, b, 0)
  BY <1>3, AfterIs, Zenon
<1> HIDE DEF v, z, b
<1>5. CountFrom(v, z, b, 0) = v /\ OverFrom(v, z, b, 0) = 0 BY <1>1, <1>2, CountFirst, Zenon
<1> QED BY <1>4, <1>5, Zenon DEF CountedOn, v

\* The counts of each timer in n clocks from a, and its overflows.
Timer0Since(a, n) == IF Timer0Runs(a) THEN TimerTicks(a.t0x12, a.timer0_prescaler, n) ELSE 0
Timer1Since(a, n) == IF Timer1Runs(a) THEN TimerTicks(a.t1x12, a.timer1_prescaler, n) ELSE 0
Timer2Since(a, n) == IF a.tr2 THEN TimerTicks(FALSE, a.osc_clocks, n) ELSE 0
Overs0(a, n) == Wraps(a.mode0, a.tl0, a.th0, Timer0Since(a, n))
Overs1(a, n) == Wraps(a.mode1, a.tl1, a.th1, Timer1Since(a, n))

\* Configuration and prescalers n clocks after a.
Phases(s, a, n) ==
  /\ SameConfig(a, s)
  /\ s.osc_clocks = Phase(FALSE, a.osc_clocks, n)
  /\ s.timer0_prescaler = Phase(a.t0x12, a.timer0_prescaler, n)
  /\ s.timer1_prescaler = Phase(a.t1x12, a.timer1_prescaler, n)

\* When a timer counts.
Counts0(s) == Timer0Due(s) /\ Timer0Runs(s)
Counts1(s) == Timer1Due(s) /\ Timer1Runs(s)
Counts2(s) == s.tr2 /\ s.osc_clocks + 1 = Machine

\* The prescalers are phases.
LEMMA PhasesAre ==
  ASSUME NEW s, Typed(s)
  PROVE  /\ s.t0x12 \in BOOLEAN /\ s.t1x12 \in BOOLEAN /\ FALSE \in BOOLEAN
         /\ s.timer0_prescaler \in 0 .. Machine - 1 /\ s.timer1_prescaler \in 0 .. Machine - 1
         /\ s.osc_clocks \in 0 .. Machine - 1
  BY TimerIs, BaudIs, Zenon

\* A timer that is stopped, or not, as it was in a.
LEMMA RunsSame ==
  ASSUME NEW a, NEW s, SameConfig(a, s)
  PROVE  /\ Timer0Runs(s) <=> Timer0Runs(a)
         /\ Timer1Runs(s) <=> Timer1Runs(a)
         /\ Timer0Due(s) <=> a.t0x12 \/ s.timer0_prescaler + 1 = Machine
         /\ Timer1Due(s) <=> a.t1x12 \/ s.timer1_prescaler + 1 = Machine
         /\ s.tr2 = a.tr2
<1>1. /\ s.gate0 = a.gate0 /\ s.ct0 = a.ct0 /\ s.tr0 = a.tr0 /\ s.t0x12 = a.t0x12
      /\ s.gate1 = a.gate1 /\ s.ct1 = a.ct1 /\ s.tr1 = a.tr1 /\ s.t1x12 = a.t1x12
      /\ s.mode1 = a.mode1 /\ s.tr2 = a.tr2
  BY Zenon DEF SameConfig
<1> QED BY <1>1, Zenon DEF Timer0Runs, Timer1Runs, Timer0Due, Timer1Due

\* One clock more of a prescaler that is now so far.
LEMMA TicksOn ==
  ASSUME NEW fast \in BOOLEAN, NEW phase \in 0 .. Machine - 1, NEW n \in Nat,
         NEW now, now = Phase(fast, phase, n)
  PROVE  /\ Phase(fast, phase, n + 1) = IF fast THEN now ELSE Prescaled(now)
         /\ TimerTicks(fast, phase, n) \in Nat
         /\ fast \/ now + 1 = Machine => TimerTicks(fast, phase, n + 1) = TimerTicks(fast, phase, n) + 1
         /\ ~(fast \/ now + 1 = Machine) => TimerTicks(fast, phase, n + 1) = TimerTicks(fast, phase, n)
  BY TicksNext

\* A clock later.
LEMMA PhasesOn ==
  ASSUME NEW a, Typed(a), NEW s, Typed(s), NEW in, Inputs(in), NEW n \in Nat, Phases(s, a, n)
  PROVE  /\ Phases(Clocked(s, in), a, n + 1)
         /\ Timer0Since(a, n) \in Nat /\ Timer1Since(a, n) \in Nat /\ Timer2Since(a, n) \in Nat
         /\ Counts0(s) => Timer0Since(a, n + 1) = Timer0Since(a, n) + 1
         /\ ~Counts0(s) => Timer0Since(a, n + 1) = Timer0Since(a, n)
         /\ Counts1(s) => Timer1Since(a, n + 1) = Timer1Since(a, n) + 1
         /\ ~Counts1(s) => Timer1Since(a, n + 1) = Timer1Since(a, n)
         /\ Counts2(s) => Timer2Since(a, n + 1) = Timer2Since(a, n) + 1
         /\ ~Counts2(s) => Timer2Since(a, n + 1) = Timer2Since(a, n)
<1> DEFINE r == Clocked(s, in)  m == n + 1
<1>1. /\ SameConfig(a, s) /\ s.osc_clocks = Phase(FALSE, a.osc_clocks, n)
      /\ s.timer0_prescaler = Phase(a.t0x12, a.timer0_prescaler, n)
      /\ s.timer1_prescaler = Phase(a.t1x12, a.timer1_prescaler, n)
  BY Zenon DEF Phases
<1>2. /\ Timer0Runs(s) <=> Timer0Runs(a)
      /\ Timer1Runs(s) <=> Timer1Runs(a)
      /\ Timer0Due(s) <=> a.t0x12 \/ s.timer0_prescaler + 1 = Machine
      /\ Timer1Due(s) <=> a.t1x12 \/ s.timer1_prescaler + 1 = Machine
      /\ s.tr2 = a.tr2
  BY <1>1, RunsSame, Zenon
<1>3. /\ a.t0x12 \in BOOLEAN /\ a.t1x12 \in BOOLEAN /\ FALSE \in BOOLEAN
      /\ a.timer0_prescaler \in 0 .. Machine - 1 /\ a.timer1_prescaler \in 0 .. Machine - 1
      /\ a.osc_clocks \in 0 .. Machine - 1
  BY PhasesAre, Zenon
<1>4. /\ r.osc_clocks = (s.osc_clocks + 1) % Machine
      /\ r.timer0_prescaler = IF s.t0x12 THEN s.timer0_prescaler ELSE Prescaled(s.timer0_prescaler)
      /\ r.timer1_prescaler = IF s.t1x12 THEN s.timer1_prescaler ELSE Prescaled(s.timer1_prescaler)
  BY TimersClock, Zenon
<1>5. s.t0x12 = a.t0x12 /\ s.t1x12 = a.t1x12 BY <1>1, Zenon DEF SameConfig
<1>6. SameConfig(a, r)
  <2>1. SameConfig(s, r) BY ClockConfig, Zenon
  <2> HIDE DEF r
  <2> QED BY <1>1, <2>1, Zenon DEF SameConfig
<1>7. /\ Phase(a.t0x12, a.timer0_prescaler, m) =
           IF a.t0x12 THEN s.timer0_prescaler ELSE Prescaled(s.timer0_prescaler)
      /\ TimerTicks(a.t0x12, a.timer0_prescaler, n) \in Nat
      /\ a.t0x12 \/ s.timer0_prescaler + 1 = Machine =>
           TimerTicks(a.t0x12, a.timer0_prescaler, m) = TimerTicks(a.t0x12, a.timer0_prescaler, n) + 1
      /\ ~(a.t0x12 \/ s.timer0_prescaler + 1 = Machine) =>
           TimerTicks(a.t0x12, a.timer0_prescaler, m) = TimerTicks(a.t0x12, a.timer0_prescaler, n)
  <2> DEFINE f == a.t0x12  p == a.timer0_prescaler  w == s.timer0_prescaler
  <2>1. f \in BOOLEAN /\ p \in 0 .. Machine - 1 /\ w = Phase(f, p, n) BY <1>1, <1>3, Zenon
  <2> HIDE DEF f, p, w, r
  <2>2. /\ Phase(f, p, n + 1) = IF f THEN w ELSE Prescaled(w)
        /\ TimerTicks(f, p, n) \in Nat
        /\ f \/ w + 1 = Machine => TimerTicks(f, p, n + 1) = TimerTicks(f, p, n) + 1
        /\ ~(f \/ w + 1 = Machine) => TimerTicks(f, p, n + 1) = TimerTicks(f, p, n)
    BY <2>1, TicksOn
  <2> QED BY <2>2, Zenon DEF f, p, w, m
<1>8. /\ Phase(a.t1x12, a.timer1_prescaler, m) =
           IF a.t1x12 THEN s.timer1_prescaler ELSE Prescaled(s.timer1_prescaler)
      /\ TimerTicks(a.t1x12, a.timer1_prescaler, n) \in Nat
      /\ a.t1x12 \/ s.timer1_prescaler + 1 = Machine =>
           TimerTicks(a.t1x12, a.timer1_prescaler, m) = TimerTicks(a.t1x12, a.timer1_prescaler, n) + 1
      /\ ~(a.t1x12 \/ s.timer1_prescaler + 1 = Machine) =>
           TimerTicks(a.t1x12, a.timer1_prescaler, m) = TimerTicks(a.t1x12, a.timer1_prescaler, n)
  <2> DEFINE f == a.t1x12  p == a.timer1_prescaler  w == s.timer1_prescaler
  <2>1. f \in BOOLEAN /\ p \in 0 .. Machine - 1 /\ w = Phase(f, p, n) BY <1>1, <1>3, Zenon
  <2> HIDE DEF f, p, w, r
  <2>2. /\ Phase(f, p, n + 1) = IF f THEN w ELSE Prescaled(w)
        /\ TimerTicks(f, p, n) \in Nat
        /\ f \/ w + 1 = Machine => TimerTicks(f, p, n + 1) = TimerTicks(f, p, n) + 1
        /\ ~(f \/ w + 1 = Machine) => TimerTicks(f, p, n + 1) = TimerTicks(f, p, n)
    BY <2>1, TicksOn
  <2> QED BY <2>2, Zenon DEF f, p, w, m
<1>9. /\ Phase(FALSE, a.osc_clocks, m) = Prescaled(s.osc_clocks)
      /\ TimerTicks(FALSE, a.osc_clocks, n) \in Nat
      /\ s.osc_clocks + 1 = Machine =>
           TimerTicks(FALSE, a.osc_clocks, m) = TimerTicks(FALSE, a.osc_clocks, n) + 1
      /\ ~(s.osc_clocks + 1 = Machine) =>
           TimerTicks(FALSE, a.osc_clocks, m) = TimerTicks(FALSE, a.osc_clocks, n)
  <2> DEFINE f == FALSE  p == a.osc_clocks  w == s.osc_clocks
  <2>1. f \in BOOLEAN /\ p \in 0 .. Machine - 1 /\ w = Phase(f, p, n) BY <1>1, <1>3, Zenon
  <2> HIDE DEF f, p, w, r
  <2>2. /\ Phase(f, p, n + 1) = IF f THEN w ELSE Prescaled(w)
        /\ TimerTicks(f, p, n) \in Nat
        /\ f \/ w + 1 = Machine => TimerTicks(f, p, n + 1) = TimerTicks(f, p, n) + 1
        /\ ~(f \/ w + 1 = Machine) => TimerTicks(f, p, n + 1) = TimerTicks(f, p, n)
    BY <2>1, TicksOn
  <2> QED BY <2>2, Zenon DEF f, p, w, m
<1>10. Phases(r, a, m)
  <2>1. Prescaled(s.osc_clocks) = (s.osc_clocks + 1) % Machine BY Zenon DEF Prescaled
  <2> HIDE DEF r, m
  <2> QED BY <1>4, <1>5, <1>6, <1>7, <1>8, <1>9, <2>1, Zenon DEF Phases
<1>11. 0 \in Nat BY SMT
<1> HIDE DEF m
<1>12. /\ Timer0Since(a, n) \in Nat /\ Timer1Since(a, n) \in Nat /\ Timer2Since(a, n) \in Nat
  BY <1>7, <1>8, <1>9, <1>11, Zenon DEF Timer0Since, Timer1Since, Timer2Since
<1>13. /\ Counts0(s) => Timer0Since(a, m) = Timer0Since(a, n) + 1
       /\ ~Counts0(s) => Timer0Since(a, m) = Timer0Since(a, n)
  BY <1>2, <1>7, Zenon DEF Timer0Since, Counts0
<1>14. /\ Counts1(s) => Timer1Since(a, m) = Timer1Since(a, n) + 1
       /\ ~Counts1(s) => Timer1Since(a, m) = Timer1Since(a, n)
  BY <1>2, <1>8, Zenon DEF Timer1Since, Counts1
<1>15. /\ Counts2(s) => Timer2Since(a, m) = Timer2Since(a, n) + 1
       /\ ~Counts2(s) => Timer2Since(a, m) = Timer2Since(a, n)
  BY <1>2, <1>9, Zenon DEF Timer2Since, Counts2
<1> QED BY <1>10, <1>12, <1>13, <1>14, <1>15, Zenon DEF r, m

\* No clock yet.
LEMMA PhasesFirst ==
  ASSUME NEW a, Typed(a)
  PROVE  /\ Phases(a, a, 0)
         /\ Timer0Since(a, 0) = 0 /\ Timer1Since(a, 0) = 0 /\ Timer2Since(a, 0) = 0
<1>1. /\ a.t0x12 \in BOOLEAN /\ a.t1x12 \in BOOLEAN /\ FALSE \in BOOLEAN
      /\ a.timer0_prescaler \in 0 .. Machine - 1 /\ a.timer1_prescaler \in 0 .. Machine - 1
      /\ a.osc_clocks \in 0 .. Machine - 1
  BY PhasesAre, Zenon
<1>2. /\ Phase(a.t0x12, a.timer0_prescaler, 0) = a.timer0_prescaler
      /\ TimerTicks(a.t0x12, a.timer0_prescaler, 0) = 0
  BY <1>1, TicksFirst, Zenon
<1>3. /\ Phase(a.t1x12, a.timer1_prescaler, 0) = a.timer1_prescaler
      /\ TimerTicks(a.t1x12, a.timer1_prescaler, 0) = 0
  BY <1>1, TicksFirst, Zenon
<1>4. Phase(FALSE, a.osc_clocks, 0) = a.osc_clocks /\ TimerTicks(FALSE, a.osc_clocks, 0) = 0
  BY <1>1, TicksFirst, Zenon
<1>5. SameConfig(a, a) BY Zenon DEF SameConfig
<1> QED BY <1>2, <1>3, <1>4, <1>5, Zenon DEF Phases, Timer0Since, Timer1Since, Timer2Since
\* Timer 0's counts of TH0 in mode 3.
Split(a, n) == IF a.tr1 THEN Timer0Since(a, n) ELSE 0

\* Timer 0 n clocks after a.
Counting0(s, a, n) ==
  /\ CountedOn(a.mode0, a.tl0, a.th0, Timer0Since(a, n), s.tl0, s.th0)
  /\ a.mode0 = 3 => s.th0 = (a.th0 + Split(a, n)) % Radix
  /\ s.tf0 <=> a.tf0 \/ Overs0(a, n) > 0

\* Timer 1 and TF1 n clocks after a.
Counting1(s, a, n) ==
  /\ CountedOn(a.mode1, a.tl1, a.th1, Timer1Since(a, n), s.tl1, s.th1)
  /\ s.tf1 <=> a.tf1 \/ IF a.mode0 = 3 THEN a.th0 + Split(a, n) >= Radix ELSE Overs1(a, n) > 0

\* A remainder one on, and the first time the divisor is reached.
LEMMA Reaches ==
  ASSUME NEW x \in Nat, NEW d \in Nat \ {0}
  PROVE  /\ (x % d) \in 0 .. d - 1
         /\ (x + 1) % d = ((x % d) + 1) % d
         /\ (x + 1) % d = IF x % d = d - 1 THEN 0 ELSE (x % d) + 1
         /\ x + 1 >= d <=> x >= d \/ x % d = d - 1
<1> DEFINE r == x % d
<1>1. r \in 0 .. d - 1
  <2>1. x \in Int BY SMT
  <2> QED BY <2>1, DivMod, Zenon
<1>2. /\ r = d - 1 => (x + 1) % d = 0
      /\ r # d - 1 => (x + 1) % d = r + 1
  BY NextDivMod, Zenon
<1>3. x < d => r = x
  <2>1. x < d => x \in 0 .. d - 1 BY SMT
  <2> QED BY <2>1, SmallMod, Zenon
<1> HIDE DEF r
<1>4. (r + 1) % d = IF r = d - 1 THEN 0 ELSE r + 1 BY <1>1, WrapMod, Zenon
<1>5. x + 1 >= d <=> x >= d \/ r = d - 1 BY <1>1, <1>3, SMT
<1> QED BY <1>1, <1>2, <1>4, <1>5, Zenon DEF r

\* In mode 3 the count is TL0's alone.
LEMMA SplitValue == \A l, h, k : Value(3, l, h) = Value(3, l, k)
  BY SMT DEF Value

\* One count more, or none, of a number that is a natural.
LEMMA MorePositive ==
  /\ \A x \in Nat : x + 1 > 0 /\ x + 1 \in Nat
  /\ ~(0 > 0)
  BY SMT

\* Timer 0 a clock later.
LEMMA Counting0On ==
  ASSUME NEW a, Typed(a), NEW s, Typed(s), NEW in, Inputs(in), NEW n \in Nat,
         Phases(s, a, n), Counting0(s, a, n)
  PROVE  /\ Counting0(Clocked(s, in), a, n + 1)
         /\ Overs0(a, n) \in Nat
         /\ Timer0Overflows(s) => Overs0(a, n + 1) = Overs0(a, n) + 1
         /\ ~Timer0Overflows(s) => Overs0(a, n + 1) = Overs0(a, n)
         /\ s.mode0 = 3 => Counted(s.mode0, s.tl0, s.th0).th = s.th0
         /\ Counts0(s) /\ a.tr1 => Split(a, n + 1) = Split(a, n) + 1
         /\ ~(Counts0(s) /\ a.tr1) => Split(a, n + 1) = Split(a, n)
         /\ Split(a, n) \in Nat
<1> DEFINE r == Clocked(s, in)  m == n + 1  k == Timer0Since(a, n)
           t == Counted(s.mode0, s.tl0, s.th0)
           mode == a.mode0  tl == a.tl0  th == a.th0  l == s.tl0  h == s.th0
           split == s.mode0 = 3 /\ s.tr1
<1>1. /\ mode \in 0 .. 3 /\ tl \in 0 .. Radix - 1 /\ th \in 0 .. Radix - 1
      /\ l \in 0 .. Radix - 1 /\ h \in 0 .. Radix - 1
      /\ s.tf0 \in BOOLEAN /\ a.tf0 \in BOOLEAN /\ a.tr1 \in BOOLEAN
  BY TimerIs, Zenon
<1>2. SameConfig(a, s) BY Zenon DEF Phases
<1>3. s.mode0 = mode /\ s.tr1 = a.tr1 BY <1>2, Zenon DEF SameConfig
<1>4. /\ CountedOn(mode, tl, th, k, l, h)
      /\ mode = 3 => h = (th + Split(a, n)) % Radix
      /\ s.tf0 <=> a.tf0 \/ Overs0(a, n) > 0
  BY Zenon DEF Counting0
<1>5. /\ k \in Nat
      /\ Counts0(s) => Timer0Since(a, m) = k + 1
      /\ ~Counts0(s) => Timer0Since(a, m) = k
  BY PhasesOn, Zenon
<1>6. /\ Counts0(s) => /\ r.tl0 = t.tl /\ r.tf0 = (s.tf0 \/ t.over)
                       /\ r.th0 = IF split THEN (t.th + 1) % Radix ELSE t.th
      /\ ~Counts0(s) => r.tl0 = l /\ r.th0 = h /\ r.tf0 = s.tf0
  BY TimersClock, Zenon DEF Counts0
<1>7. /\ mode = 3 => t.th = h
      /\ t.over \in BOOLEAN
  <2>1. Counted(mode, l, h).over \in BOOLEAN BY <1>1, CountedIs
  <2>2. mode = 3 => mode \in {2, 3} BY SMT
  <2>3. mode \in {2, 3} => Counted(mode, l, h).th = h BY <1>1, CountedIs
  <2> QED BY <1>3, <2>1, <2>2, <2>3, Zenon
<1>8. /\ CountedOn(mode, tl, th, k + 1, t.tl, t.th)
      /\ Wraps(mode, tl, th, k) \in Nat
      /\ t.over => Wraps(mode, tl, th, k + 1) = Wraps(mode, tl, th, k) + 1
      /\ ~t.over => Wraps(mode, tl, th, k + 1) = Wraps(mode, tl, th, k)
  <2>1. t = Counted(mode, l, h) BY <1>3, Zenon
  <2> HIDE DEF k, mode, tl, th, l, h, t
  <2>2. mode \in 0 .. 3 /\ tl \in 0 .. Radix - 1 /\ th \in 0 .. Radix - 1 /\ k \in Nat
        /\ l \in 0 .. Radix - 1 /\ h \in 0 .. Radix - 1 /\ CountedOn(mode, tl, th, k, l, h)
    BY <1>1, <1>4, <1>5, Zenon
  <2>3. CountedOn(mode, tl, th, k + 1, t.tl, t.th) BY <2>1, <2>2, CountsOn
  <2>4. Wraps(mode, tl, th, k) \in Nat BY <2>1, <2>2, CountsOn
  <2>5. t.over => Wraps(mode, tl, th, k + 1) = Wraps(mode, tl, th, k) + 1 BY <2>1, <2>2, CountsOn
  <2>6. ~t.over => Wraps(mode, tl, th, k + 1) = Wraps(mode, tl, th, k) BY <2>1, <2>2, CountsOn
  <2> QED BY <2>3, <2>4, <2>5, <2>6, Zenon
<1>9. Timer0Overflows(s) <=> Counts0(s) /\ t.over BY Zenon DEF Timer0Overflows, Counts0
<1>10. /\ Overs0(a, n) = Wraps(mode, tl, th, k)
       /\ Counts0(s) => Overs0(a, m) = Wraps(mode, tl, th, k + 1)
       /\ ~Counts0(s) => Overs0(a, m) = Wraps(mode, tl, th, k)
  BY <1>5, Zenon DEF Overs0
<1>11. /\ Overs0(a, n) \in Nat
       /\ Timer0Overflows(s) => Overs0(a, m) = Overs0(a, n) + 1
       /\ ~Timer0Overflows(s) => Overs0(a, m) = Overs0(a, n)
  <2> HIDE DEF k, mode, tl, th, l, h, t, m
  <2> QED BY <1>8, <1>9, <1>10, Zenon
<1>12. /\ Split(a, n) \in Nat
       /\ Counts0(s) /\ a.tr1 => Split(a, m) = Split(a, n) + 1
       /\ ~(Counts0(s) /\ a.tr1) => Split(a, m) = Split(a, n)
  <2>1. 0 \in Nat BY SMT
  <2> HIDE DEF m
  <2> QED BY <1>5, <2>1, Zenon DEF Split
<1>13. CountedOn(mode, tl, th, Timer0Since(a, m), r.tl0, r.th0)
  <2>1. CASE ~Counts0(s) BY <1>4, <1>5, <1>6, <2>1, Zenon
  <2>2. CASE Counts0(s) /\ ~split
    <3> HIDE DEF k, mode, tl, th, l, h, t, m, r, split
    <3> QED BY <1>5, <1>6, <1>8, <2>2, Zenon
  <2>3. CASE Counts0(s) /\ split
    <3>1. mode = 3 BY <1>3, <2>3, Zenon
    <3>2. 3 # 2 BY SMT
    <3> HIDE DEF k, mode, tl, th, l, h, t, m, r
    <3>3. r.tl0 = t.tl /\ Timer0Since(a, m) = k + 1 BY <1>5, <1>6, <2>3, Zenon
    <3>4. Value(mode, r.tl0, r.th0) = Value(mode, t.tl, t.th) BY <3>1, <3>3, SplitValue, Zenon
    <3> QED BY <1>8, <3>1, <3>2, <3>3, <3>4, Zenon DEF CountedOn
  <2> QED BY <2>1, <2>2, <2>3, Zenon
<1>14. mode = 3 => r.th0 = (th + Split(a, m)) % Radix
  <2> SUFFICES ASSUME mode = 3 PROVE r.th0 = (th + Split(a, m)) % Radix OBVIOUS
  <2>1. h = (th + Split(a, n)) % Radix /\ t.th = h BY <1>4, <1>7, Zenon
  <2>2. CASE ~(Counts0(s) /\ a.tr1)
    <3>1. Split(a, m) = Split(a, n) BY <1>12, <2>2, Zenon
    <3>2. r.th0 = h BY <1>3, <1>6, <2>1, <2>2, Zenon
    <3> QED BY <2>1, <3>1, <3>2, Zenon
  <2>3. CASE Counts0(s) /\ a.tr1
    <3>1. Split(a, m) = Split(a, n) + 1 BY <1>12, <2>3, Zenon
    <3>2. r.th0 = (h + 1) % Radix BY <1>3, <1>6, <2>1, <2>3, Zenon
    <3> DEFINE x == th + Split(a, n)
    <3>3. x \in Nat /\ th + Split(a, m) = x + 1 BY <1>1, <1>12, <3>1, SMT
    <3> HIDE DEF x
    <3>4. (x + 1) % Radix = ((x % Radix) + 1) % Radix
      <4>1. Radix \in Nat \ {0} BY Numbers, SMT
      <4> QED BY <3>3, <4>1, Reaches, Zenon
    <3> QED BY <2>1, <3>2, <3>3, <3>4, Zenon DEF x
  <2> QED BY <2>2, <2>3, Zenon
<1>15. r.tf0 <=> a.tf0 \/ Overs0(a, m) > 0
  <2>1. CASE Timer0Overflows(s)
    <3>1. Overs0(a, m) > 0 BY <1>11, <2>1, MorePositive, Zenon
    <3>2. r.tf0 BY <1>6, <1>9, <2>1, Zenon
    <3> QED BY <3>1, <3>2, Zenon
  <2>2. CASE ~Timer0Overflows(s)
    <3>1. Overs0(a, m) = Overs0(a, n) BY <1>11, <2>2, Zenon
    <3>2. r.tf0 <=> s.tf0 BY <1>6, <1>9, <2>2, Zenon
    <3> QED BY <1>4, <3>1, <3>2, Zenon
  <2> QED BY <2>1, <2>2, Zenon
<1>16. Counting0(r, a, m) BY <1>13, <1>14, <1>15, Zenon DEF Counting0
<1>17. s.mode0 = 3 => t.th = s.th0 BY <1>3, <1>7, Zenon
<1> HIDE DEF t, r
<1> QED BY <1>11, <1>12, <1>16, <1>17, Zenon DEF m, t, r
\* Timer 1, and TF1, a clock later.
LEMMA Counting1On ==
  ASSUME NEW a, Typed(a), NEW s, Typed(s), NEW in, Inputs(in), NEW n \in Nat,
         Phases(s, a, n), Counting0(s, a, n), Counting1(s, a, n)
  PROVE  Counting1(Clocked(s, in), a, n + 1)
<1> DEFINE r == Clocked(s, in)  m == n + 1  k == Timer1Since(a, n)
           t == Counted(s.mode0, s.tl0, s.th0)
           u == Counted(s.mode1, s.tl1, s.th1)
           mode == a.mode1  tl == a.tl1  th == a.th1  l == s.tl1  h == s.th1
           split == s.mode0 = 3 /\ s.tr1
           reached == a.th0 + Split(a, n) >= Radix
<1>1. /\ mode \in 0 .. 3 /\ tl \in 0 .. Radix - 1 /\ th \in 0 .. Radix - 1
      /\ l \in 0 .. Radix - 1 /\ h \in 0 .. Radix - 1
      /\ s.tf1 \in BOOLEAN /\ a.tf1 \in BOOLEAN /\ a.tr1 \in BOOLEAN /\ a.th0 \in 0 .. Radix - 1
  BY TimerIs, Zenon
<1>2. SameConfig(a, s) BY Zenon DEF Phases
<1>3. s.mode0 = a.mode0 /\ s.mode1 = mode /\ s.tr1 = a.tr1 BY <1>2, Zenon DEF SameConfig
<1>4. /\ CountedOn(mode, tl, th, k, l, h)
      /\ s.tf1 <=> a.tf1 \/ IF a.mode0 = 3 THEN a.th0 + Split(a, n) >= Radix ELSE Overs1(a, n) > 0
      /\ a.mode0 = 3 => s.th0 = (a.th0 + Split(a, n)) % Radix
  BY Zenon DEF Counting0, Counting1
<1>5. /\ k \in Nat
      /\ Counts1(s) => Timer1Since(a, m) = k + 1
      /\ ~Counts1(s) => Timer1Since(a, m) = k
  BY PhasesOn, Zenon
<1>6. /\ Counts1(s) => r.tl1 = u.tl /\ r.th1 = u.th
      /\ ~Counts1(s) => r.tl1 = l /\ r.th1 = h
      /\ r.tf1 = (s.tf1 \/ (Counts0(s) /\ split /\ t.th = Radix - 1)
                  \/ (Counts1(s) /\ u.over /\ s.mode0 # 3))
  BY TimersClock, Zenon DEF Counts0, Counts1
<1>7. /\ s.mode0 = 3 => t.th = s.th0
      /\ Counts0(s) /\ a.tr1 => Split(a, m) = Split(a, n) + 1
      /\ ~(Counts0(s) /\ a.tr1) => Split(a, m) = Split(a, n)
      /\ Split(a, n) \in Nat
  BY Counting0On, Zenon
<1>8. /\ CountedOn(mode, tl, th, k + 1, u.tl, u.th)
      /\ Wraps(mode, tl, th, k) \in Nat
      /\ u.over => Wraps(mode, tl, th, k + 1) = Wraps(mode, tl, th, k) + 1
      /\ ~u.over => Wraps(mode, tl, th, k + 1) = Wraps(mode, tl, th, k)
  <2>1. u = Counted(mode, l, h) BY <1>3, Zenon
  <2> HIDE DEF k, mode, tl, th, l, h, u
  <2>2. mode \in 0 .. 3 /\ tl \in 0 .. Radix - 1 /\ th \in 0 .. Radix - 1 /\ k \in Nat
        /\ l \in 0 .. Radix - 1 /\ h \in 0 .. Radix - 1 /\ CountedOn(mode, tl, th, k, l, h)
    BY <1>1, <1>4, <1>5, Zenon
  <2>3. CountedOn(mode, tl, th, k + 1, u.tl, u.th) BY <2>1, <2>2, CountsOn
  <2>4. Wraps(mode, tl, th, k) \in Nat BY <2>1, <2>2, CountsOn
  <2>5. u.over => Wraps(mode, tl, th, k + 1) = Wraps(mode, tl, th, k) + 1 BY <2>1, <2>2, CountsOn
  <2>6. ~u.over => Wraps(mode, tl, th, k + 1) = Wraps(mode, tl, th, k) BY <2>1, <2>2, CountsOn
  <2> QED BY <2>3, <2>4, <2>5, <2>6, Zenon
<1>9. /\ Overs1(a, n) = Wraps(mode, tl, th, k) /\ Overs1(a, n) \in Nat
      /\ Counts1(s) /\ u.over => Overs1(a, m) = Overs1(a, n) + 1
      /\ ~(Counts1(s) /\ u.over) => Overs1(a, m) = Overs1(a, n)
  <2>1. /\ Overs1(a, n) = Wraps(mode, tl, th, k)
        /\ Counts1(s) => Overs1(a, m) = Wraps(mode, tl, th, k + 1)
        /\ ~Counts1(s) => Overs1(a, m) = Wraps(mode, tl, th, k)
    BY <1>5, Zenon DEF Overs1
  <2> HIDE DEF k, mode, tl, th, l, h, u, m
  <2> QED BY <1>8, <2>1, Zenon
<1>10. CountedOn(mode, tl, th, Timer1Since(a, m), r.tl1, r.th1)
  <2> HIDE DEF u, k, mode, tl, th, l, h, m, r
  <2> QED BY <1>4, <1>5, <1>6, <1>8, Zenon
<1>11. r.tf1 <=> a.tf1 \/ IF a.mode0 = 3 THEN a.th0 + Split(a, m) >= Radix ELSE Overs1(a, m) > 0
  <2>1. CASE a.mode0 = 3
    <3> DEFINE x == a.th0 + Split(a, n)
    <3>1. x \in Nat /\ Radix \in Nat \ {0} BY <1>1, <1>7, Numbers, SMT
    <3>2. s.th0 = x % Radix BY <1>4, <2>1, Zenon
    <3>3. /\ Counts0(s) /\ a.tr1 => a.th0 + Split(a, m) = x + 1
          /\ ~(Counts0(s) /\ a.tr1) => a.th0 + Split(a, m) = x
      <4>1. a.th0 + (Split(a, n) + 1) = (a.th0 + Split(a, n)) + 1 BY <1>1, <1>7, SMT
      <4> HIDE DEF m
      <4> QED BY <1>7, <4>1, Zenon
    <3>4. s.tf1 <=> a.tf1 \/ x >= Radix BY <1>4, <2>1, Zenon
    <3>5. r.tf1 <=> s.tf1 \/ (Counts0(s) /\ a.tr1 /\ s.th0 = Radix - 1)
      <4> HIDE DEF u, r, t
      <4> QED BY <1>3, <1>6, <1>7, <2>1, Zenon
    <3> HIDE DEF x, r, m
    <3>6. x + 1 >= Radix <=> x >= Radix \/ x % Radix = Radix - 1 BY <3>1, Reaches, Zenon
    <3>7. r.tf1 <=> a.tf1 \/ a.th0 + Split(a, m) >= Radix
      <4>1. CASE Counts0(s) /\ a.tr1 BY <3>2, <3>3, <3>4, <3>5, <3>6, <4>1, Zenon
      <4>2. CASE ~(Counts0(s) /\ a.tr1) BY <3>3, <3>4, <3>5, <4>2, Zenon
      <4> QED BY <4>1, <4>2, Zenon
    <3> QED BY <2>1, <3>7, Zenon
  <2>2. CASE a.mode0 # 3
    <3>1. r.tf1 <=> s.tf1 \/ (Counts1(s) /\ u.over)
      <4> HIDE DEF u, r, t
      <4> QED BY <1>3, <1>6, <2>2, Zenon
    <3>2. s.tf1 <=> a.tf1 \/ Overs1(a, n) > 0 BY <1>4, <2>2, Zenon
    <3> HIDE DEF r, m, u
    <3>3. r.tf1 <=> a.tf1 \/ Overs1(a, m) > 0
      <4>1. CASE Counts1(s) /\ u.over
        <5>1. Overs1(a, m) > 0 BY <1>9, <4>1, MorePositive, Zenon
        <5> QED BY <3>1, <4>1, <5>1, Zenon
      <4>2. CASE ~(Counts1(s) /\ u.over)
        <5>1. Overs1(a, m) = Overs1(a, n) BY <1>9, <4>2, Zenon
        <5> QED BY <3>1, <3>2, <4>2, <5>1, Zenon
      <4> QED BY <4>1, <4>2, Zenon
    <3> QED BY <2>2, <3>3, Zenon
  <2> QED BY <2>1, <2>2, Zenon
<1> QED BY <1>10, <1>11, Zenon DEF Counting1

\* A quotient of naturals is one.
LEMMA Quotient ==
  ASSUME NEW x \in Nat, NEW d \in Nat \ {0}
  PROVE  x \div d \in Nat /\ x % d \in 0 .. d - 1
<1> DEFINE q == x \div d  r == x % d
<1>1. q \in Int /\ r \in 0 .. d - 1 /\ x = q * d + r
  <2>1. x \in Int BY SMT
  <2> QED BY <2>1, DivMod, Zenon
<1> HIDE DEF q, r
<1>2. q >= 0
  <2>1. CASE q <= -1
    <3>1. q * d <= -d BY <1>1, <2>1, SMT
    <3> QED BY <1>1, <3>1, SMT
  <2> QED BY <1>1, <2>1, SMT
<1>3. q \in Nat BY <1>1, <1>2, SMT
<1> QED BY <1>1, <1>3, Zenon DEF q, r

\* The PCA's prescaler, and its counts, after n clocks of a divisor d, from a phase that
\* another divisor may have left.
Swept0(p, d, n) == IF n = 0 THEN p ELSE IF p < d THEN (p + n) % d ELSE (n - 1) % d
Sweeps(p, d, n) == IF n = 0 THEN 0 ELSE IF p < d THEN (p + n) \div d ELSE 1 + (n - 1) \div d

\* A clock more.
LEMMA SweepsOn ==
  ASSUME NEW p \in Nat, NEW d \in Nat \ {0}, NEW n \in Nat, NEW now, now = Swept0(p, d, n)
  PROVE  /\ Swept0(p, d, n + 1) = IF now + 1 >= d THEN 0 ELSE now + 1
         /\ Sweeps(p, d, n) \in Nat /\ now \in Nat
         /\ now + 1 >= d => Sweeps(p, d, n + 1) = Sweeps(p, d, n) + 1
         /\ ~(now + 1 >= d) => Sweeps(p, d, n + 1) = Sweeps(p, d, n)
<1> DEFINE m == n + 1
<1>1. m # 0 /\ m - 1 = n /\ m \in Nat BY SMT
<1>2. \A x \in Nat : x \div d \in Nat /\ x % d \in 0 .. d - 1 BY Quotient, Zenon
<1> HIDE DEF m
<1>3. CASE p < d
  <2> DEFINE x == p + n  r == x % d  q == x \div d
  <2>1. x \in Nat /\ p + m = x + 1 BY SMT DEF m
  <2>2. now = r /\ Sweeps(p, d, n) = q
    <3>1. CASE n = 0
      <4>1. x = p /\ p \in 0 .. d - 1 BY <1>3, <3>1, SMT
      <4>2. r = p /\ q = 0 BY <4>1, SmallMod, Zenon
      <4> QED BY <3>1, <4>2, Zenon DEF Swept0, Sweeps
    <3>2. CASE n # 0 BY <1>3, <3>2, Zenon DEF Swept0, Sweeps
    <3> QED BY <3>1, <3>2
  <2> HIDE DEF x
  <2>3. /\ r = d - 1 => (x + 1) % d = 0 /\ (x + 1) \div d = q + 1
        /\ r # d - 1 => (x + 1) % d = r + 1 /\ (x + 1) \div d = q
    BY <2>1, NextDivMod, Zenon
  <2>4. q \in Nat /\ r \in 0 .. d - 1 BY <1>2, <2>1, Zenon
  <2>5. Swept0(p, d, m) = (x + 1) % d /\ Sweeps(p, d, m) = (x + 1) \div d
    BY <1>1, <1>3, <2>1, Zenon DEF Swept0, Sweeps
  <2> HIDE DEF r, q
  <2>6. (now + 1 >= d <=> r = d - 1) /\ now \in Nat BY <2>2, <2>4, SMT
  <2> QED BY <2>2, <2>3, <2>4, <2>5, <2>6, Zenon DEF m
<1>4. CASE ~(p < d) /\ n = 0
  <2>1. now = p /\ Sweeps(p, d, n) = 0 BY <1>4, Zenon DEF Swept0, Sweeps
  <2>2. 0 % d = 0 /\ 0 \div d = 0
    <3>1. 0 \in 0 .. d - 1 BY SMT
    <3> QED BY <3>1, SmallMod, Zenon
  <2>3. Swept0(p, d, m) = 0 /\ Sweeps(p, d, m) = 1 + 0
    BY <1>1, <1>4, <2>2, Zenon DEF Swept0, Sweeps
  <2>4. now + 1 >= d /\ now \in Nat /\ 1 + 0 = 0 + 1 /\ 0 \in Nat BY <1>4, <2>1, SMT
  <2> QED BY <2>1, <2>3, <2>4, Zenon DEF m
<1>5. CASE ~(p < d) /\ n # 0
  <2> DEFINE x == n - 1  r == x % d  q == x \div d
  <2>1. x \in Nat /\ m - 1 = x + 1 BY <1>5, SMT DEF m
  <2>2. now = r /\ Sweeps(p, d, n) = 1 + q BY <1>5, Zenon DEF Swept0, Sweeps
  <2> HIDE DEF x
  <2>3. /\ r = d - 1 => (x + 1) % d = 0 /\ (x + 1) \div d = q + 1
        /\ r # d - 1 => (x + 1) % d = r + 1 /\ (x + 1) \div d = q
    BY <2>1, NextDivMod, Zenon
  <2>4. q \in Nat /\ r \in 0 .. d - 1 BY <1>2, <2>1, Zenon
  <2>5. Swept0(p, d, m) = (x + 1) % d /\ Sweeps(p, d, m) = 1 + ((x + 1) \div d)
    BY <1>1, <1>5, <2>1, Zenon DEF Swept0, Sweeps
  <2> HIDE DEF r, q
  <2>6. (now + 1 >= d <=> r = d - 1) /\ now \in Nat BY <2>2, <2>4, SMT
  <2>7. 1 + (q + 1) = (1 + q) + 1 /\ 1 + q \in Nat BY <2>4, SMT
  <2> QED BY <2>2, <2>3, <2>5, <2>6, <2>7, Zenon DEF m
<1> QED BY <1>3, <1>4, <1>5
\* The PCA's ticks in n clocks from a.
PcaSince(a, n) ==
  IF ~a.cr \/ a.cps = 3 THEN 0
  ELSE IF a.cps = 2
       THEN IF n = 0 THEN 0
            ELSE Overs0(a, n) + IF a.pca_t0_overflow_pending THEN 1 - Overs0(a, 1) ELSE 0
       ELSE Sweeps(a.pca_prescaler, PcaDivisor[a.cps], n)

\* The PCA's counter, prescaler and latch n clocks after a.
CountingPca(s, a, n) ==
  /\ Word(s) = (Word(a) + PcaSince(a, n)) % (Radix * Radix)
  /\ s.cf <=> a.cf \/ Word(a) + PcaSince(a, n) >= Radix * Radix
  /\ a.cr /\ a.cps # 2 /\ a.cps # 3 /\ a.cps # 4 =>
       s.pca_prescaler = Swept0(a.pca_prescaler, PcaDivisor[a.cps], n)
  /\ a.cr /\ a.cps = 2 /\ n = 0 => s.pca_t0_overflow_pending = a.pca_t0_overflow_pending
  /\ a.cr /\ a.cps = 2 /\ n # 0 => s.pca_t0_overflow_pending = FALSE

\* Timers 0 and 1 at the anchor.
LEMMA CountingFirst ==
  ASSUME NEW a, Typed(a)
  PROVE  Counting0(a, a, 0) /\ Counting1(a, a, 0) /\ Overs0(a, 0) = 0
<1>1. /\ a.mode0 \in 0 .. 3 /\ a.tl0 \in 0 .. Radix - 1 /\ a.th0 \in 0 .. Radix - 1
      /\ a.mode1 \in 0 .. 3 /\ a.tl1 \in 0 .. Radix - 1 /\ a.th1 \in 0 .. Radix - 1
      /\ a.tf0 \in BOOLEAN /\ a.tf1 \in BOOLEAN
  BY TimerIs, Zenon
<1>2. Timer0Since(a, 0) = 0 /\ Timer1Since(a, 0) = 0 BY PhasesFirst, Zenon
<1>3. /\ CountedOn(a.mode0, a.tl0, a.th0, 0, a.tl0, a.th0) /\ Wraps(a.mode0, a.tl0, a.th0, 0) = 0
  BY <1>1, CountsFirst, Zenon
<1>4. /\ CountedOn(a.mode1, a.tl1, a.th1, 0, a.tl1, a.th1) /\ Wraps(a.mode1, a.tl1, a.th1, 0) = 0
  BY <1>1, CountsFirst, Zenon
<1>5. Split(a, 0) = 0 BY <1>2, Zenon DEF Split
<1>6. Overs0(a, 0) = 0 /\ Overs1(a, 0) = 0 BY <1>2, <1>3, <1>4, Zenon DEF Overs0, Overs1
<1>7. a.th0 + 0 = a.th0 /\ ~(a.th0 >= Radix) BY <1>1, Numbers, SMT
<1>8. a.th0 % Radix = a.th0
  <2>1. Radix \in Nat \ {0} BY Numbers, SMT
  <2> QED BY <1>1, <2>1, SmallMod, Zenon
<1>9. Counting0(a, a, 0) BY <1>2, <1>3, <1>5, <1>6, <1>7, <1>8, MorePositive, Zenon DEF Counting0
<1>10. Counting1(a, a, 0) BY <1>2, <1>4, <1>5, <1>6, <1>7, MorePositive, Zenon DEF Counting1
<1> QED BY <1>6, <1>9, <1>10

\* In one clock a timer overflows at most once.
LEMMA FirstOver ==
  ASSUME NEW a, Typed(a), NEW in, Inputs(in)
  PROVE  Overs0(a, 1) \in {0, 1}
<1>1. Phases(a, a, 0) /\ Counting0(a, a, 0) /\ Overs0(a, 0) = 0 BY PhasesFirst, CountingFirst, Zenon
<1>2. 0 \in Nat /\ 0 + 1 = 1 BY SMT
<1>3. /\ Timer0Overflows(a) => Overs0(a, 0 + 1) = Overs0(a, 0) + 1
      /\ ~Timer0Overflows(a) => Overs0(a, 0 + 1) = Overs0(a, 0)
  BY <1>1, <1>2, Counting0On, Zenon
<1> QED BY <1>1, <1>2, <1>3, Zenon

\* A tick of the PCA, or none.
LEMMA PcaSinceOn ==
  ASSUME NEW a, Typed(a), NEW s, Typed(s), NEW in, Inputs(in), NEW n \in Nat,
         Phases(s, a, n), Counting0(s, a, n), CountingPca(s, a, n)
  PROVE  /\ PcaSince(a, n) \in Nat
         /\ PcaCounts(s) => PcaSince(a, n + 1) = PcaSince(a, n) + 1
         /\ ~PcaCounts(s) => PcaSince(a, n + 1) = PcaSince(a, n)
<1> DEFINE m == n + 1  was == a.pca_t0_overflow_pending  d == PcaDivisor[a.cps]  p == a.pca_prescaler
<1>1. SameConfig(a, s) BY Zenon DEF Phases
<1>2. s.cr = a.cr /\ s.cps = a.cps BY <1>1, Zenon DEF SameConfig
<1>3. /\ Overs0(a, n) \in Nat
      /\ Timer0Overflows(s) => Overs0(a, m) = Overs0(a, n) + 1
      /\ ~Timer0Overflows(s) => Overs0(a, m) = Overs0(a, n)
  BY Counting0On, Zenon
<1>4. Overs0(a, 0) = 0 /\ Overs0(a, 1) \in {0, 1} BY CountingFirst, FirstOver, Zenon
<1>5. /\ a.cr /\ a.cps # 2 /\ a.cps # 3 /\ a.cps # 4 => s.pca_prescaler = Swept0(p, d, n)
      /\ a.cr /\ a.cps = 2 /\ n = 0 => s.pca_t0_overflow_pending = was
      /\ a.cr /\ a.cps = 2 /\ n # 0 => s.pca_t0_overflow_pending = FALSE
  BY Zenon DEF CountingPca
<1>6. a.cr \in BOOLEAN /\ a.cps \in 0 .. 7 /\ was \in BOOLEAN /\ p \in Nat /\ s.pca_prescaler \in Nat
  BY PcaIs, PcaDueIs, Zenon
<1>7. m \in Nat /\ m # 0 /\ 0 \in Nat /\ 0 + 0 = 0 BY SMT
<1>8. CASE ~a.cr \/ a.cps = 3
  <2>1. PcaSince(a, n) = 0 /\ PcaSince(a, m) = 0 BY <1>8, Zenon DEF PcaSince
  <2>2. 3 # 2 BY SMT
  <2>3. ~PcaCounts(s) BY <1>2, <1>8, <2>2, Zenon DEF PcaCounts
  <2> QED BY <1>7, <2>1, <2>3, Zenon
<1>9. CASE a.cr /\ a.cps = 2
  <2>0. 2 # 3 BY SMT
  <2> DEFINE more == IF was THEN 1 - Overs0(a, 1) ELSE 0
  <2>1. /\ n = 0 => PcaSince(a, n) = 0
        /\ n # 0 => PcaSince(a, n) = Overs0(a, n) + more
        /\ PcaSince(a, m) = Overs0(a, m) + more
    <3> HIDE DEF m
    <3> QED BY <1>7, <1>9, <2>0, Zenon DEF PcaSince
  <2>2. PcaCounts(s) <=> s.pca_t0_overflow_pending \/ Timer0Overflows(s)
    BY <1>2, <1>9, <2>0, Zenon DEF PcaCounts
  <2>3. more \in 0 .. 1 BY <1>4, <1>6, SMT
  <2>4. CASE n = 0
    <3>1. /\ Timer0Overflows(s) => Overs0(a, 1) = 1
          /\ ~Timer0Overflows(s) => Overs0(a, 1) = 0
      <4>1. 0 + 1 = 1 BY SMT
      <4> QED BY <1>3, <1>4, <2>4, <4>1, Zenon
    <3>2. PcaCounts(s) <=> was \/ Timer0Overflows(s) BY <1>5, <1>9, <2>2, <2>4, Zenon
    <3>3. m = 1 BY <2>4, SMT
    <3>4. PcaSince(a, m) = Overs0(a, 1) + more BY <2>1, <3>3, Zenon
    <3>5. PcaSince(a, n) = 0 BY <2>1, <2>4, Zenon
    <3>6. CASE was
      <4>1. more = 1 - Overs0(a, 1) BY <3>6, Zenon
      <4> HIDE DEF more, m
      <4>2. Overs0(a, 1) + more = 0 + 1 BY <1>4, <4>1, SMT
      <4> QED BY <1>7, <3>2, <3>4, <3>5, <3>6, <4>2, Zenon DEF m
    <3>7. CASE ~was
      <4>1. more = 0 BY <3>7, Zenon
      <4> HIDE DEF more, m
      <4>2. Overs0(a, 1) + more = Overs0(a, 1) /\ 0 + 1 = 1 BY <1>4, <4>1, SMT
      <4> QED BY <1>7, <3>1, <3>2, <3>4, <3>5, <3>7, <4>2, Zenon DEF m
    <3> QED BY <1>6, <3>6, <3>7, Zenon
  <2>5. CASE n # 0
    <3>1. PcaCounts(s) <=> Timer0Overflows(s) BY <1>5, <1>9, <2>2, <2>5, Zenon
    <3>2. PcaSince(a, n) = Overs0(a, n) + more BY <2>1, <2>5, Zenon
    <3> HIDE DEF more, m
    <3>3. PcaSince(a, n) \in Nat /\ (Overs0(a, n) + 1) + more = (Overs0(a, n) + more) + 1
      BY <1>3, <2>3, <3>2, SMT
    <3> QED BY <1>3, <2>1, <3>1, <3>2, <3>3, Zenon DEF m
  <2> QED BY <2>4, <2>5, Zenon
<1>10. CASE a.cr /\ a.cps # 2 /\ a.cps # 3
  <2>1. a.cps \in DOMAIN PcaDivisor /\ d \in Nat \ {0}
    <3>1. a.cps \in DOMAIN PcaDivisor BY <1>6, <1>10, PcaDivisorIs, Zenon
    <3> QED BY <3>1, PcaDivisorIs, Zenon
  <2>2. PcaSince(a, n) = Sweeps(p, d, n) /\ PcaSince(a, m) = Sweeps(p, d, m)
    BY <1>10, Zenon DEF PcaSince
  <2> DEFINE now == Swept0(p, d, n)
  <2> HIDE DEF now, p, d, m
  <2>3. now = Swept0(p, d, n) BY DEF now
  <2>4. /\ Sweeps(p, d, n) \in Nat /\ now \in Nat
        /\ now + 1 >= d => Sweeps(p, d, n + 1) = Sweeps(p, d, n) + 1
        /\ ~(now + 1 >= d) => Sweeps(p, d, n + 1) = Sweeps(p, d, n)
    <3>1. p \in Nat /\ d \in Nat \ {0} BY <1>6, <2>1, Zenon
    <3>2. Sweeps(p, d, n) \in Nat /\ now \in Nat BY <2>3, <3>1, SweepsOn
    <3>3. now + 1 >= d => Sweeps(p, d, n + 1) = Sweeps(p, d, n) + 1 BY <2>3, <3>1, SweepsOn
    <3>4. ~(now + 1 >= d) => Sweeps(p, d, n + 1) = Sweeps(p, d, n) BY <2>3, <3>1, SweepsOn
    <3> QED BY <3>2, <3>3, <3>4, Zenon
  <2>5. PcaCounts(s) <=> s.pca_prescaler + 1 >= d BY <1>2, <1>10, Zenon DEF PcaCounts, d
  <2>6. PcaCounts(s) <=> now + 1 >= d
    <3>1. CASE a.cps # 4
      <4>1. s.pca_prescaler = now BY <1>5, <1>10, <2>3, <3>1, Zenon
      <4> QED BY <2>5, <4>1, Zenon
    <3>2. CASE a.cps = 4
      <4>1. d = 1 BY <3>2, PcaDivisorIs, Zenon DEF d
      <4>2. now + 1 >= d /\ s.pca_prescaler + 1 >= d BY <1>6, <2>4, <4>1, SMT
      <4> QED BY <2>5, <4>2, Zenon
    <3> QED BY <3>1, <3>2
  <2> QED BY <2>2, <2>4, <2>6, Zenon DEF m
<1> QED BY <1>6, <1>8, <1>9, <1>10, Zenon
\* The PCA a clock later.
LEMMA CountingPcaOn ==
  ASSUME NEW a, Typed(a), NEW s, Typed(s), NEW in, Inputs(in), NEW n \in Nat, a.part # "STC89",
         Phases(s, a, n), Counting0(s, a, n), CountingPca(s, a, n)
  PROVE  CountingPca(Clocked(s, in), a, n + 1)
<1> DEFINE r == Clocked(s, in)  m == n + 1  R == Radix * Radix  x == Word(a) + PcaSince(a, n)
           d == PcaDivisor[a.cps]  p == a.pca_prescaler
<1>1. SameConfig(a, s) BY Zenon DEF Phases
<1>2. s.cr = a.cr /\ s.cps = a.cps /\ s.part # "STC89" BY <1>1, Zenon DEF SameConfig
<1>3. /\ PcaSince(a, n) \in Nat
      /\ PcaCounts(s) => PcaSince(a, m) = PcaSince(a, n) + 1
      /\ ~PcaCounts(s) => PcaSince(a, m) = PcaSince(a, n)
  BY PcaSinceOn, Zenon
<1>4. /\ Word(s) = x % R /\ (s.cf <=> a.cf \/ x >= R)
      /\ a.cr /\ a.cps # 2 /\ a.cps # 3 /\ a.cps # 4 => s.pca_prescaler = Swept0(p, d, n)
  BY Zenon DEF CountingPca
<1>5. /\ ~PcaCounts(s) => Word(r) = Word(s) /\ r.cf = s.cf
      /\ PcaCounts(s) =>
           /\ Word(s) # R - 1 => Word(r) = Word(s) + 1 /\ r.cf = s.cf
           /\ Word(s) = R - 1 => Word(r) = 0 /\ r.cf = TRUE
  BY <1>2, PcaClock, Zenon
<1>6. /\ r.pca_prescaler = IF s.cr /\ s.cps # 2 /\ s.cps # 3 /\ s.cps # 4
                           THEN IF s.pca_prescaler + 1 >= PcaDivisor[s.cps] THEN 0 ELSE s.pca_prescaler + 1
                           ELSE s.pca_prescaler
      /\ s.cr /\ s.cps = 2 => r.pca_t0_overflow_pending = FALSE
  <2>1. r.pca_prescaler = IF s.cr /\ s.cps # 2 /\ s.cps # 3 /\ s.cps # 4
                          THEN IF s.pca_prescaler + 1 >= PcaDivisor[s.cps] THEN 0 ELSE s.pca_prescaler + 1
                          ELSE s.pca_prescaler
    BY <1>2, PcaClock, Zenon
  <2>2. ASSUME s.cr, s.cps = 2 PROVE r.pca_t0_overflow_pending = FALSE
    <3>1. s.cr /\ s.cps = 2 /\ s.part # "STC89" BY <1>2, <2>2
    <3> QED BY <3>1, PcaClock, ZenonT(30)
  <2> QED BY <2>1, <2>2, Zenon
<1>7. /\ a.cr \in BOOLEAN /\ a.cps \in 0 .. 7 /\ p \in Nat /\ a.cf \in BOOLEAN
      /\ s.cf \in BOOLEAN
  BY PcaIs, PcaDueIs, Zenon
<1>8. R \in Nat \ {0}
  <2>1. Radix \in Nat \ {0} BY Numbers, SMT
  <2> QED BY <2>1, SMT
<1>9. x \in Nat
  <2>1. Word(a) \in 0 .. R - 1 BY PcaCountedIs, Zenon
  <2> HIDE DEF R
  <2> QED BY <1>3, <2>1, SMT
<1>10. m # 0 BY SMT
<1>11. /\ PcaCounts(s) => Word(a) + PcaSince(a, m) = x + 1
       /\ ~PcaCounts(s) => Word(a) + PcaSince(a, m) = x
  <2>1. Word(a) + (PcaSince(a, n) + 1) = (Word(a) + PcaSince(a, n)) + 1
    <3>1. Word(a) \in 0 .. R - 1 BY PcaCountedIs, Zenon
    <3> HIDE DEF R
    <3> QED BY <1>3, <3>1, SMT
  <2> HIDE DEF m
  <2> QED BY <1>3, <2>1, Zenon
<1>12. /\ (x + 1) % R = IF x % R = R - 1 THEN 0 ELSE (x % R) + 1
       /\ x + 1 >= R <=> x >= R \/ x % R = R - 1
  <2> HIDE DEF x, R
  <2> QED BY <1>8, <1>9, Reaches, Zenon
<1>13. /\ Word(r) = (Word(a) + PcaSince(a, m)) % R
       /\ r.cf <=> a.cf \/ Word(a) + PcaSince(a, m) >= R
  <2> HIDE DEF x, R, m, r
  <2>1. CASE PcaCounts(s) /\ Word(s) = R - 1 BY <1>4, <1>5, <1>11, <1>12, <2>1, Zenon
  <2>2. CASE PcaCounts(s) /\ Word(s) # R - 1 BY <1>4, <1>5, <1>11, <1>12, <2>2, Zenon
  <2>3. CASE ~PcaCounts(s) BY <1>4, <1>5, <1>11, <2>3, Zenon
  <2> QED BY <2>1, <2>2, <2>3, Zenon
<1>14. a.cr /\ a.cps # 2 /\ a.cps # 3 /\ a.cps # 4 => r.pca_prescaler = Swept0(p, d, m)
  <2> SUFFICES ASSUME a.cr, a.cps # 2, a.cps # 3, a.cps # 4 PROVE r.pca_prescaler = Swept0(p, d, m)
    BY Zenon
  <2> DEFINE now == s.pca_prescaler
  <2>1. r.pca_prescaler = IF now + 1 >= d THEN 0 ELSE now + 1 BY <1>2, <1>6, Zenon
  <2>2. d \in Nat \ {0}
    <3>1. a.cps \in DOMAIN PcaDivisor BY <1>7, PcaDivisorIs, Zenon
    <3> QED BY <3>1, PcaDivisorIs, Zenon
  <2>3. now = Swept0(p, d, n) BY <1>4, Zenon
  <2> HIDE DEF now, p, d, m, r
  <2>4. p \in Nat BY <1>7, Zenon
  <2>5. now + 1 >= d => Swept0(p, d, n + 1) = 0 BY <2>2, <2>3, <2>4, SweepsOn
  <2>6. ~(now + 1 >= d) => Swept0(p, d, n + 1) = now + 1 BY <2>2, <2>3, <2>4, SweepsOn
  <2> QED BY <2>1, <2>5, <2>6, Zenon DEF m
<1>15. a.cr /\ a.cps = 2 => r.pca_t0_overflow_pending = FALSE BY <1>2, <1>6, Zenon
<1>16. CountingPca(r, a, m)
  <2> HIDE DEF r, m
  <2> QED BY <1>10, <1>13, <1>14, <1>15, Zenon DEF CountingPca
<1> QED BY <1>16, Zenon DEF r, m

\* The PCA at the anchor.
LEMMA PcaFirst == ASSUME NEW a, Typed(a) PROVE CountingPca(a, a, 0)
<1>1. PcaSince(a, 0) = 0
  <2>1. Sweeps(a.pca_prescaler, PcaDivisor[a.cps], 0) = 0 BY Zenon DEF Sweeps
  <2> QED BY <2>1, Zenon DEF PcaSince
<1>2. Swept0(a.pca_prescaler, PcaDivisor[a.cps], 0) = a.pca_prescaler BY Zenon DEF Swept0
<1> DEFINE R == Radix * Radix
<1>3. Word(a) \in 0 .. R - 1 BY PcaCountedIs, Zenon
<1>4. R \in Nat \ {0}
  <2>1. Radix \in Nat \ {0} BY Numbers, SMT
  <2> QED BY <2>1, SMT
<1> HIDE DEF R
<1>5. Word(a) % R = Word(a) BY <1>3, <1>4, SmallMod, Zenon
<1>6. Word(a) + 0 = Word(a) /\ ~(Word(a) >= R) BY <1>3, <1>4, SMT
<1>7. Word(a) = (Word(a) + PcaSince(a, 0)) % R /\ ~(Word(a) + PcaSince(a, 0) >= R)
  BY <1>1, <1>5, <1>6, Zenon
<1> QED BY <1>2, <1>7, Zenon DEF CountingPca, R

\* The STC89's Timer 2 n clocks after a.
Counting2(s, a, n) ==
  /\ s.t2 = CountFrom(a.t2, Radix * Radix, a.rcap2, Timer2Since(a, n))
  /\ s.tf2 <=> a.tf2 \/ (OverFrom(a.t2, Radix * Radix, a.rcap2, Timer2Since(a, n)) > 0 /\ ~a.baud2)

\* A clock later.
LEMMA Counting2On ==
  ASSUME NEW a, Typed(a), NEW s, Typed(s), NEW in, Inputs(in), NEW n \in Nat,
         a.part = "STC89", ~a.cp, Phases(s, a, n), Counting2(s, a, n)
  PROVE  Counting2(Clocked(s, in), a, n + 1)
<1> DEFINE r == Clocked(s, in)  m == n + 1  R == Radix * Radix  v == a.t2  b == a.rcap2
           k == Timer2Since(a, n)  w == CountFrom(v, R, b, k)  over == OverFrom(v, R, b, k)
<1>1. SameConfig(a, s) BY Zenon DEF Phases
<1>2. s.part = "STC89" /\ s.tr2 = a.tr2 /\ s.cp = a.cp /\ s.rcap2 = b /\ s.baud2 = a.baud2
  BY <1>1, Zenon DEF SameConfig
<1>3. /\ k \in Nat
      /\ Counts2(s) => Timer2Since(a, m) = k + 1
      /\ ~Counts2(s) => Timer2Since(a, m) = k
  BY PhasesOn, Zenon
<1>4. /\ v \in 0 .. R - 1 /\ b \in 0 .. R - 1 /\ a.tf2 \in BOOLEAN /\ a.baud2 \in BOOLEAN
      /\ s.tf2 \in BOOLEAN /\ s.osc_clocks \in 0 .. Machine - 1
  BY BaudIs, PhasesAre, Zenon
<1>5. s.t2 = w /\ (s.tf2 <=> a.tf2 \/ (over > 0 /\ ~a.baud2)) BY Zenon DEF Counting2
<1>6. r.osc_clocks = (s.osc_clocks + 1) % Machine BY TimersClock, Zenon
<1>7. r.osc_clocks % Machine = 0 <=> s.osc_clocks + 1 = Machine
  <2> DEFINE o == s.osc_clocks
  <2>1. Machine \in Nat \ {0} BY Numbers, SMT
  <2>2. o \in 0 .. Machine - 1 BY <1>4, Zenon
  <2>3. (o + 1) % Machine = IF o = Machine - 1 THEN 0 ELSE o + 1 BY <2>1, <2>2, WrapMod, Zenon
  <2>4. r.osc_clocks = IF o = Machine - 1 THEN 0 ELSE o + 1 BY <1>6, <2>3, Zenon
  <2> HIDE DEF o, r
  <2>5. r.osc_clocks \in 0 .. Machine - 1 BY <2>1, <2>2, <2>4, SMT
  <2>6. r.osc_clocks % Machine = r.osc_clocks BY <2>1, <2>5, SmallMod, Zenon
  <2>7. r.osc_clocks = 0 <=> o + 1 = Machine BY <2>1, <2>2, <2>4, SMT
  <2> QED BY <2>6, <2>7, Zenon DEF o
<1>8. /\ Counts2(s) /\ s.t2 + 1 # R => r.t2 = s.t2 + 1 /\ r.tf2 = s.tf2
      /\ Counts2(s) /\ s.t2 + 1 = R => r.t2 = b /\ r.tf2 = (s.tf2 \/ ~a.baud2)
      /\ ~Counts2(s) => r.t2 = s.t2 /\ r.tf2 = s.tf2
  <2>1. /\ (s.tr2 /\ r.osc_clocks % Machine = 0) /\ ~(s.t2 + 1 = R) => r.t2 = s.t2 + 1 /\ r.tf2 = s.tf2
        /\ (s.tr2 /\ r.osc_clocks % Machine = 0) /\ s.t2 + 1 = R =>
             /\ r.t2 = (IF s.cp THEN 0 ELSE s.rcap2)
             /\ r.tf2 = (s.tf2 \/ ~s.baud2)
        /\ ~(s.tr2 /\ r.osc_clocks % Machine = 0) => r.t2 = s.t2 /\ r.tf2 = s.tf2
    <3>1. (s.tr2 /\ r.osc_clocks % Machine = 0) /\ ~(s.t2 + 1 = R) => r.t2 = s.t2 + 1 /\ r.tf2 = s.tf2
      BY <1>2, Timer2Clock
    <3>2. (s.tr2 /\ r.osc_clocks % Machine = 0) /\ s.t2 + 1 = R =>
            /\ r.t2 = (IF s.cp THEN 0 ELSE s.rcap2)
            /\ r.tf2 = (s.tf2 \/ ~s.baud2)
      BY <1>2, Timer2Clock
    <3>3. ~(s.tr2 /\ r.osc_clocks % Machine = 0) => r.t2 = s.t2 /\ r.tf2 = s.tf2
      BY <1>2, Timer2Clock
    <3> QED BY <3>1, <3>2, <3>3, Zenon
  <2> HIDE DEF r
  <2> QED BY <1>2, <1>7, <2>1, Zenon DEF Counts2
<1>9. R \in Nat \ {0}
  <2>1. Radix \in Nat \ {0} BY Numbers, SMT
  <2> QED BY <2>1, SMT
<1> HIDE DEF R, v, b, k
<1>10. /\ w \in 0 .. R - 1 /\ over \in Nat
       /\ CountFrom(v, R, b, k + 1) = IF w = R - 1 THEN b ELSE w + 1
       /\ OverFrom(v, R, b, k + 1) = IF w = R - 1 THEN over + 1 ELSE over
  BY <1>3, <1>4, <1>9, CountNext
<1> HIDE DEF w, over, m
<1>11. s.t2 + 1 = R <=> w = R - 1 BY <1>5, <1>9, <1>10, SMT
<1>12. over + 1 > 0 BY <1>10, SMT
<1>13. r.t2 = CountFrom(v, R, b, Timer2Since(a, m))
       /\ (r.tf2 <=> a.tf2 \/ (OverFrom(v, R, b, Timer2Since(a, m)) > 0 /\ ~a.baud2))
  <2> HIDE DEF r
  <2>1. CASE ~Counts2(s) BY <1>3, <1>5, <1>8, <2>1, Zenon DEF w, over
  <2>2. CASE Counts2(s) /\ w = R - 1 BY <1>3, <1>5, <1>8, <1>10, <1>11, <1>12, <2>2, Zenon
  <2>3. CASE Counts2(s) /\ w # R - 1 BY <1>3, <1>5, <1>8, <1>10, <1>11, <2>3, Zenon
  <2> QED BY <2>1, <2>2, <2>3, Zenon
<1> QED BY <1>13, Zenon DEF Counting2, R, v, b, m

\* Timer 2 at the anchor.
LEMMA Timer2First == ASSUME NEW a, Typed(a) PROVE Counting2(a, a, 0)
<1> DEFINE R == Radix * Radix
<1>1. a.t2 \in 0 .. R - 1 /\ a.rcap2 \in 0 .. R - 1 BY BaudIs, Zenon
<1>2. R \in Nat \ {0}
  <2>1. Radix \in Nat \ {0} BY Numbers, SMT
  <2> QED BY <2>1, SMT
<1> HIDE DEF R
<1>3. CountFrom(a.t2, R, a.rcap2, 0) = a.t2 /\ OverFrom(a.t2, R, a.rcap2, 0) = 0
  BY <1>1, <1>2, CountFirst, Zenon
<1>4. Timer2Since(a, 0) = 0 BY PhasesFirst, Zenon
<1> QED BY <1>3, <1>4, MorePositive, Zenon DEF Counting2, R
\* Everything that counts, n clocks after a.
Counting(s, a, n) ==
  /\ Phases(s, a, n) /\ Counting0(s, a, n) /\ Counting1(s, a, n)
  /\ a.part # "STC89" => CountingPca(s, a, n)
  /\ a.part = "STC89" /\ ~a.cp => Counting2(s, a, n)

\* What the timers have counted since the anchor.
CountInv == Counting(c, anchor, age)

\* At the anchor.
LEMMA CountingStart == ASSUME NEW a, Typed(a) PROVE Counting(a, a, 0)
  BY PhasesFirst, CountingFirst, PcaFirst, Timer2First, Zenon DEF Counting

\* A clock later.
LEMMA CountingOn ==
  ASSUME NEW a, Typed(a), NEW s, Typed(s), NEW in, Inputs(in), NEW n \in Nat, Counting(s, a, n)
  PROVE  Counting(Clocked(s, in), a, n + 1)
<1>1. /\ Phases(s, a, n) /\ Counting0(s, a, n) /\ Counting1(s, a, n)
      /\ a.part # "STC89" => CountingPca(s, a, n)
      /\ a.part = "STC89" /\ ~a.cp => Counting2(s, a, n)
  BY Zenon DEF Counting
<1>2. Phases(Clocked(s, in), a, n + 1) BY <1>1, PhasesOn, Zenon
<1>3. Counting0(Clocked(s, in), a, n + 1) BY <1>1, Counting0On, Zenon
<1>4. Counting1(Clocked(s, in), a, n + 1) BY <1>1, Counting1On, Zenon
<1>5. a.part # "STC89" => CountingPca(Clocked(s, in), a, n + 1) BY <1>1, CountingPcaOn, Zenon
<1>6. a.part = "STC89" /\ ~a.cp => Counting2(Clocked(s, in), a, n + 1) BY <1>1, Counting2On, Zenon
<1> QED BY <1>2, <1>3, <1>4, <1>5, <1>6, Zenon DEF Counting

\* A byte received by UART2 is no count.
LEMMA CountingSame ==
  ASSUME NEW a, NEW s, NEW r, Agree(s, r, Fields \ {"s2ri"}), NEW n, Counting(s, a, n)
  PROVE  Counting(r, a, n)
<1> DEFINE X == {"osc_clocks", "timer0_prescaler", "timer1_prescaler", "tl0", "th0", "tf0", "tl1", "th1",
                 "tf1", "cl", "ch", "cf", "pca_prescaler", "pca_t0_overflow_pending", "t2", "tf2"}
           F == Fields \ {"s2ri"}
<1>1. \A x \in X : x \in F BY IsField, SMT
<1>2. \A x \in Config : x \in F BY IsField, SMT DEF Config
<1> HIDE DEF X, F
<1>3. /\ \A x \in X : r[x] = s[x]
      /\ \A x \in Config : r[x] = s[x]
  BY <1>1, <1>2, Zenon DEF Agree, F
<1>4. SameConfig(s, r) BY <1>3, ConfigSame, Zenon
<1>5. /\ r.osc_clocks = s.osc_clocks /\ r.timer0_prescaler = s.timer0_prescaler
      /\ r.timer1_prescaler = s.timer1_prescaler /\ r.tl0 = s.tl0 /\ r.th0 = s.th0 /\ r.tf0 = s.tf0
      /\ r.tl1 = s.tl1 /\ r.th1 = s.th1 /\ r.tf1 = s.tf1
  BY <1>3, SMT DEF X
<1>6. /\ r.cl = s.cl /\ r.ch = s.ch /\ r.cf = s.cf /\ r.pca_prescaler = s.pca_prescaler
      /\ r.pca_t0_overflow_pending = s.pca_t0_overflow_pending /\ r.t2 = s.t2 /\ r.tf2 = s.tf2
  BY <1>3, SMT DEF X
<1>7. /\ Phases(s, a, n) /\ Counting0(s, a, n) /\ Counting1(s, a, n)
      /\ a.part # "STC89" => CountingPca(s, a, n)
      /\ a.part = "STC89" /\ ~a.cp => Counting2(s, a, n)
  BY Zenon DEF Counting
<1>8. Phases(r, a, n)
  <2>1. SameConfig(a, s) BY <1>7, Zenon DEF Phases
  <2>2. SameConfig(a, r) BY <1>4, <2>1, Zenon DEF SameConfig
  <2> QED BY <1>5, <1>7, <2>2, Zenon DEF Phases
<1>9. Counting0(r, a, n) BY <1>5, <1>7, Zenon DEF Counting0
<1>10. Counting1(r, a, n) BY <1>5, <1>7, Zenon DEF Counting1
<1>11. a.part # "STC89" => CountingPca(r, a, n)
  <2>1. Word(r) = Word(s) BY <1>6, Zenon DEF Word
  <2> QED BY <1>6, <1>7, <2>1, Zenon DEF CountingPca
<1>12. a.part = "STC89" /\ ~a.cp => Counting2(r, a, n) BY <1>6, <1>7, Zenon DEF Counting2
<1> QED BY <1>8, <1>9, <1>10, <1>11, <1>12, Zenon DEF Counting

\* It holds at first.
LEMMA InitCounts == ASSUME Init PROVE CountInv
<1>1. Typed(c) /\ anchor = c /\ age = 0
  <2>1. TypesInv BY InitTypes
  <2> QED BY <2>1, Zenon DEF TypesInv, Init
<1> QED BY <1>1, CountingStart, Zenon DEF CountInv

\* Every step keeps it.
LEMMA NextCounts == ASSUME TypesInv, CountInv, [Next]_vars PROVE CountInv'
<1>0. /\ Typed(c) /\ Typed(anchor) /\ Inputs(input) /\ age \in 0 .. Window - 1
      /\ Counting(c, anchor, age) /\ TypesInv'
  BY NextTypes, Zenon DEF TypesInv, CountInv
<1>1. Typed(c') BY <1>0, Zenon DEF TypesInv
<1>2. CASE Tick
  <2>1. c' = Clocked(c, input) BY <1>2, Zenon DEF Tick
  <2>2. CASE age + 1 = Window
    <3>1. anchor' = c' /\ age' = 0 BY <1>2, <2>2, Zenon DEF Tick
    <3> QED BY <1>1, <3>1, CountingStart, Zenon DEF CountInv
  <2>3. CASE age + 1 # Window
    <3>1. anchor' = anchor /\ age' = age + 1 BY <1>2, <2>3, Zenon DEF Tick
    <3>2. age \in Nat BY <1>0, Numbers, SMT
    <3>3. Counting(c', anchor, age + 1) BY <1>0, <2>1, <3>2, CountingOn, Zenon
    <3> QED BY <3>1, <3>3, Zenon DEF CountInv
  <2> QED BY <2>2, <2>3
<1>3. ASSUME NEW w \in todo.setup.writes, Write(w) PROVE CountInv'
  <2>1. anchor' = c' /\ age' = 0 BY <1>3, Zenon DEF Write
  <2> QED BY <1>1, <2>1, CountingStart, Zenon DEF CountInv
<1>4. ASSUME NEW p, SetPortInput(p) PROVE CountInv'
  <2>1. c' = c /\ anchor' = anchor /\ age' = age BY <1>4, Zenon DEF SetPortInput
  <2> QED BY <1>0, <2>1, Zenon DEF CountInv
<1>5. ASSUME NEW k, NEW v, SetAdcInput(k, v) PROVE CountInv'
  <2>1. c' = c /\ anchor' = anchor /\ age' = age BY <1>5, Zenon DEF SetAdcInput
  <2> QED BY <1>0, <2>1, Zenon DEF CountInv
<1>6. CASE Serial2Rx
  <2>1. c' = [c EXCEPT !.s2ri = TRUE] /\ anchor' = anchor /\ age' = age BY <1>6, Zenon DEF Serial2Rx
  <2>2. Agree(c, c', Fields \ {"s2ri"}) BY <1>0, <2>1, Serial2Is, Zenon
  <2>3. Counting(c', anchor, age) BY <1>0, <2>2, CountingSame, Zenon
  <2> QED BY <2>1, <2>3, Zenon DEF CountInv
<1>7. CASE UNCHANGED vars
  <2>1. c' = c /\ anchor' = anchor /\ age' = age BY <1>7 DEF vars
  <2> QED BY <1>0, <2>1, Zenon DEF CountInv
<1> QED BY <1>2, <1>3, <1>4, <1>5, <1>6, <1>7 DEF Next

\* The closed form of the PCA's ticks.
LEMMA PcaTicksIs == ASSUME NEW n \in Nat, Typed(anchor) PROVE PcaTicks(n) = PcaSince(anchor, n)
<1> DEFINE a == anchor  d == PcaDivisor[a.cps]
<1>1. Overflows0(n) = Overs0(a, n) /\ Overflows0(1) = Overs0(a, 1)
  BY Zenon DEF Overflows0, Ticks0, Overs0, Timer0Since
<1>2. a.cr \in BOOLEAN BY PcaIs, Zenon
<1>3. (n > 0 <=> n # 0) /\ 2 # 3 BY SMT
<1>4. CASE ~a.cr \/ a.cps = 3
  <2>1. PcaTicks(n) = 0
    <3>1. /\ ~(a.cr /\ n > 0 /\ a.cps = 2)
          /\ ~(a.cr /\ n > 0 /\ a.cps \notin {2, 3})
      BY <1>3, <1>4, Zenon
    <3> QED BY <1>4, <3>1, Zenon DEF PcaTicks
  <2> QED BY <1>4, <2>1, Zenon DEF PcaSince
<1>5. CASE a.cr /\ a.cps # 3 /\ n = 0
  <2>1. PcaTicks(n) = 0
    <3>1. /\ ~(a.cr /\ n > 0 /\ a.cps = 2)
          /\ ~(a.cr /\ n > 0 /\ a.cps \notin {2, 3})
      BY <1>3, <1>5, Zenon
    <3> QED BY <1>5, <3>1, Zenon DEF PcaTicks
  <2>2. Sweeps(a.pca_prescaler, d, n) = 0 BY <1>5, Zenon DEF Sweeps
  <2> QED BY <1>5, <2>1, <2>2, Zenon DEF PcaSince
<1>6. CASE a.cr /\ a.cps = 2 /\ n # 0
  <2>1. PcaTicks(n) = Overflows0(n) + IF a.pca_t0_overflow_pending THEN 1 - Overflows0(1) ELSE 0
    <3>1. /\ ~(~a.cr \/ a.cps = 3 \/ n = 0)
          /\ a.cr /\ n > 0 /\ a.cps = 2
          /\ ~(a.cr /\ n > 0 /\ a.cps \notin {2, 3})
      BY <1>3, <1>6, Zenon
    <3> QED BY <3>1, Zenon DEF PcaTicks
  <2> QED BY <1>1, <1>3, <1>6, <2>1, Zenon DEF PcaSince
<1>7. CASE a.cr /\ a.cps # 2 /\ a.cps # 3 /\ n # 0
  <2>1. PcaTicks(n) = IF a.pca_prescaler < d THEN (a.pca_prescaler + n) \div d ELSE 1 + (n - 1) \div d
    <3>1. /\ ~(~a.cr \/ a.cps = 3 \/ n = 0)
          /\ ~(a.cr /\ n > 0 /\ a.cps = 2)
          /\ a.cr /\ n > 0 /\ a.cps \notin {2, 3}
      BY <1>3, <1>7, Zenon
    <3> QED BY <3>1, Zenon DEF PcaTicks
  <2> QED BY <1>7, <2>1, Zenon DEF PcaSince, Sweeps
<1> QED BY <1>2, <1>4, <1>5, <1>6, <1>7, Zenon

\* Timer 2 has overflowed once it has counted up to its size.
LEMMA OverPositive ==
  ASSUME NEW size \in Nat \ {0}, NEW v \in 0 .. size - 1, NEW b \in 0 .. size - 1, NEW n \in Nat
  PROVE  OverFrom(v, size, b, n) > 0 <=> n >= size - v
<1> DEFINE first == size - v  x == n - first  d == size - b
<1>1. CASE n < first
  <2>1. OverFrom(v, size, b, n) = 0 BY <1>1, Zenon DEF OverFrom
  <2> QED BY <1>1, <2>1, SMT
<1>2. CASE ~(n < first)
  <2>1. x \in Nat /\ d \in Nat \ {0} /\ n >= size - v BY <1>2, SMT
  <2> DEFINE q == x \div d
  <2>2. OverFrom(v, size, b, n) = 1 + q BY <1>2, Zenon DEF OverFrom
  <2> HIDE DEF x, d
  <2>3. q \in Nat BY <2>1, Quotient, Zenon
  <2> HIDE DEF q
  <2>4. 1 + q > 0 BY <2>3, SMT
  <2> QED BY <2>1, <2>2, <2>4, Zenon
<1> QED BY <1>1, <1>2, Zenon

\* Counting clock by clock comes to what the clocks passed say at once.
THEOREM TimersTheorem == Spec => []TimersCountClocks
<1>1. Init => TypesInv /\ CountInv BY InitTypes, InitCounts
<1>2. TypesInv /\ CountInv /\ [Next]_vars => TypesInv' /\ CountInv' BY NextTypes, NextCounts
<1>3. TypesInv /\ CountInv => TimersCountClocks
  <2> SUFFICES ASSUME TypesInv, CountInv PROVE TimersCountClocks BY Zenon
  <2> DEFINE a == anchor  n == age  R == Radix * Radix
             n0 == Ticks0(n)  split == IF a.tr1 THEN n0 ELSE 0
             n1 == IF a.gate1 \/ ~a.tr1 \/ a.ct1 \/ a.mode1 = 3 THEN 0
                   ELSE TimerTicks(a.t1x12, a.timer1_prescaler, n)
             pca == a.cl + Radix * a.ch + PcaTicks(n)
             n2 == IF a.tr2 THEN TimerTicks(FALSE, a.osc_clocks, n) ELSE 0
  <2>0. Typed(a) /\ Typed(c) /\ Inputs(input) /\ n \in 0 .. Window - 1 /\ Counting(c, a, n)
    BY Zenon DEF TypesInv, CountInv
  <2>1. n \in Nat BY <2>0, Numbers, SMT
  <2>2. /\ Phases(c, a, n) /\ Counting0(c, a, n) /\ Counting1(c, a, n)
        /\ a.part # "STC89" => CountingPca(c, a, n)
        /\ a.part = "STC89" /\ ~a.cp => Counting2(c, a, n)
    BY <2>0, Zenon DEF Counting
  <2>3. n0 = Timer0Since(a, n) /\ split = Split(a, n) /\ Overflows0(n) = Overs0(a, n)
    BY Zenon DEF Ticks0, Timer0Since, Split, Overflows0, Overs0
  <2>4. n1 = Timer1Since(a, n) BY Zenon DEF Timer1Since, Timer1Runs
  <2>5. n2 = Timer2Since(a, n) BY Zenon DEF Timer2Since
  <2>6. PcaTicks(n) = PcaSince(a, n) BY <2>0, <2>1, PcaTicksIs, Zenon
  <2>7. pca = Word(a) + PcaSince(a, n) BY <2>6, Zenon DEF Word
  <2>8. c.cl + Radix * c.ch = Word(c) BY Zenon DEF Word
  <2> HIDE DEF n0, split, n1, n2, pca, n
  <2>9. /\ Value(a.mode0, c.tl0, c.th0) = After(a.mode0, a.tl0, a.th0, n0)
        /\ a.mode0 = 3 => c.th0 = (a.th0 + split) % Radix
        /\ c.tf0 <=> a.tf0 \/ Overflows0(n) > 0
    BY <2>2, <2>3, Zenon DEF Counting0, CountedOn
  <2>10. /\ Value(a.mode1, c.tl1, c.th1) = After(a.mode1, a.tl1, a.th1, n1)
         /\ c.tf1 <=> a.tf1 \/ IF a.mode0 = 3 THEN a.th0 + split >= Radix
                               ELSE Wraps(a.mode1, a.tl1, a.th1, n1) > 0
    BY <2>2, <2>3, <2>4, Zenon DEF Counting1, CountedOn, Overs1
  <2>11. a.part # "STC89" => /\ c.cl + Radix * c.ch = pca % (Radix * Radix)
                             /\ c.cf <=> a.cf \/ pca >= Radix * Radix
    BY <2>2, <2>7, <2>8, Zenon DEF CountingPca
  <2>12. ASSUME a.part = "STC89", ~a.cp
         PROVE  LET first == Radix * Radix - a.t2
                IN  /\ c.t2 = IF n2 < first THEN a.t2 + n2
                              ELSE a.rcap2 + ((n2 - first) % (Radix * Radix - a.rcap2))
                    /\ c.tf2 <=> a.tf2 \/ (n2 >= first /\ ~a.baud2)
    <3>1. Counting2(c, a, n) BY <2>2, <2>12, Zenon
    <3>2. n2 \in Nat BY <2>0, <2>1, <2>2, <2>5, PhasesOn, Zenon
    <3>3. a.t2 \in 0 .. R - 1 /\ a.rcap2 \in 0 .. R - 1 BY <2>0, BaudIs, Zenon
    <3>4. R \in Nat \ {0}
      <4>1. Radix \in Nat \ {0} BY Numbers, SMT
      <4> QED BY <4>1, SMT
    <3>5. /\ c.t2 = CountFrom(a.t2, R, a.rcap2, n2)
          /\ c.tf2 <=> a.tf2 \/ (OverFrom(a.t2, R, a.rcap2, n2) > 0 /\ ~a.baud2)
      BY <2>5, <3>1, Zenon DEF Counting2
    <3> HIDE DEF R
    <3>6. OverFrom(a.t2, R, a.rcap2, n2) > 0 <=> n2 >= R - a.t2 BY <3>2, <3>3, <3>4, OverPositive, Zenon
    <3>7. /\ c.t2 = IF n2 < R - a.t2 THEN a.t2 + n2 ELSE a.rcap2 + ((n2 - (R - a.t2)) % (R - a.rcap2))
          /\ c.tf2 <=> a.tf2 \/ (n2 >= R - a.t2 /\ ~a.baud2)
      BY <3>5, <3>6, Zenon DEF CountFrom
    <3> QED BY <3>7, Zenon DEF R
  <2> QED BY <2>9, <2>10, <2>11, <2>12, Zenon DEF TimersCountClocks, n0, split, n1, n2, pca, n
<1> QED BY <1>1, <1>2, <1>3, PTL DEF Spec
=============================================================================
