---------------------------- MODULE MCPeripherals ----------------------------
(* Bytes of four values, machine cycles of three clocks: each setup brings *)
(* a peripheral near its wraps, with the writes that could upset it.       *)
EXTENDS Peripherals, TLC

W(reg, val) == [reg |-> reg, val |-> val]
Setup(regs, left, writes) ==
  [regs |-> regs, writes |-> writes, left |-> left, pins |-> {}, channels |-> {}, bytes |-> FALSE]

(* Timer 0 in each mode beside Timer 1, on either rate.                    *)
Timers ==
  {Setup([part |-> "STC15", mode0 |-> mode, tr0 |-> TRUE, tl0 |-> 1, th0 |-> 2, t0x12 |-> fast,
          mode1 |-> 2, tr1 |-> TRUE, tl1 |-> 3, th1 |-> 1, t1x12 |-> TRUE,
          brtr |-> TRUE, t0clko |-> TRUE, t1clko |-> TRUE], 1,
         {W("tr0", FALSE), W("t0x12", ~fast), W("mode0", 3), W("tf1", FALSE), W("tl0", 3),
          W("mode1", 1), W("brtx12", TRUE), W("gate0", TRUE), W("ct1", TRUE)}) :
     mode \in 0 .. 3, fast \in BOOLEAN}
Classic ==
  {Setup([part |-> "STC89", tr2 |-> TRUE, t2 |-> 13, rcap2 |-> 9, cp |-> cp, tr1 |-> TRUE, mode1 |-> 0,
          tl1 |-> 1, th1 |-> 3], 1,
         {W("tf2", FALSE), W("baud2", TRUE), W("t2", 15), W("mode1", 3)}) : cp \in BOOLEAN}

(* The PCA on each source; PWM, match and toggle, capture.                 *)
Level(a, b, d) == [k \in Module |-> CASE k = 0 -> a [] k = 1 -> b [] k = 2 -> d]
Pca ==
  {Setup([part |-> source[1], cr |-> TRUE, cps |-> source[2], tr0 |-> TRUE, mode0 |-> 2, t0x12 |-> TRUE,
          th0 |-> 2, pca_p4 |-> source[1] = "STC12",
          ccapm |-> Level({"ECOM", "PWM"}, {"ECOM", "MAT", "TOG"}, {"CAPP", "CAPN"}),
          ccapl |-> Level(1, 2, 0), ccaph |-> Level(1, 3, 0)], 1,
         {W("ccaph", Level(3, 3, 0)), W("cps", 2), W("cps", 0), W("cr", FALSE), W("cf", FALSE)}) :
     source \in ({"STC12", "STC15"} \X {0, 2, 4}) \cup {<<"STC15W", 4>>, <<"STC12", 3>>}}
Duty ==
  {Setup([part |-> "STC12", cr |-> TRUE, cps |-> 4, ccapl |-> Level(1, 2, 0), ccaph |-> Level(1, 3, 0),
          ccapm |-> Level({"ECOM", "PWM"}, {"ECOM", "PWM"}, {})], 3,
         {W("ccaph", Level(h, 3 - h, 0)) : h \in 0 .. 3})}
Edges ==
  {[regs |-> [part |-> "STC15", cr |-> TRUE, cps |-> 4,
              ccapm |-> [k \in Module |-> IF k # module THEN {} ELSE {IF k = 0 THEN "CAPP" ELSE "CAPN"}]],
    writes |-> {W("ccf", Level(FALSE, FALSE, FALSE))}, left |-> 2,
    pins |-> {IF module = 0 THEN <<1, 3>> ELSE <<3, 7>>}, channels |-> {}, bytes |-> FALSE] :
     module \in {0, 2}}

Contr(start, speed, chs) ==
  W("adc_contr", [power |-> TRUE, start |-> start, flag |-> FALSE, speed |-> speed, chs |-> chs])
Adc ==
  {[regs |-> [part |-> part, power |-> TRUE, p1asf |-> {1}, adrj |-> part = "STC15"],
    writes |-> {Contr(TRUE, 0, 1), Contr(TRUE, 3, 1), Contr(TRUE, 3, 2), Contr(FALSE, 3, 2),
                W("auxr1", [pca_p4 |-> FALSE, adrj |-> TRUE, dps |-> 1])}, left |-> 3,
    pins |-> {}, channels |-> {1}, bytes |-> FALSE] : part \in {"STC12", "STC15"}}

Wdt(clr, en, ps) == W("wdt_contr", [flag |-> FALSE, clr |-> clr, en |-> en, ps |-> ps])
Watchdog ==
  {Setup([en_wdt |-> TRUE, ps |-> ps], 2, {Wdt(TRUE, TRUE, ps), Wdt(FALSE, TRUE, 1), Wdt(TRUE, FALSE, 0)}) :
     ps \in 0 .. 2}

Others ==
  {[regs |-> [part |-> part, dptr |-> 1, dptr1 |-> 2, spen |-> TRUE],
    writes |-> {W("spdat", 0), W("spstat", 0), W("spctl", TRUE), W("s2buf", 0), W("dptr", 3),
                W("pin", [pin |-> <<1, 3>>, level |-> 0])}
               \cup {W("auxr1", [pca_p4 |-> FALSE, adrj |-> FALSE, dps |-> dps]) : dps \in 0 .. 1},
    left |-> 3,
    pins |-> {}, channels |-> {}, bytes |-> TRUE] : part \in {"STC12", "STC15"}}

MCSetups == Timers \cup Classic \cup Pca \cup Duty \cup Edges \cup Adc \cup Watchdog \cup Others

MCPcaDivisor == (0 :> 3) @@ (1 :> 2) @@ (4 :> 1) @@ (5 :> 2) @@ (6 :> 2) @@ (7 :> 3)
MCAdcClocks == (0 :> 4) @@ (1 :> 3) @@ (2 :> 3) @@ (3 :> 2)
MCCounts == {0, 683}
=============================================================================
