-------------------------- MODULE LifecycleProofs ---------------------------
(***************************************************************************)
(* That P5 is hooked on the parts that have it and on no other, and that a *)
(* saved machine can be restored, and that a restore is all or nothing,    *)
(* for any crystals, files and number of calls.  All rest on what each     *)
(* call leaves of the machine.                                             *)
(***************************************************************************)
EXTENDS Lifecycle, TLAPS

(* What every call keeps: types, P5 hooked by the part, and a machine that *)
(* decode would take unless it was initialised again.                      *)
Hooked(mm) == "p5" \in mm.hooks <=> mm.stc12_mode /\ mm.part_id \in WithP5
Sane(mm) == Hooked(mm) /\ (~mm.initialized => mm = Zeroed)
Suited(mm) == mm.scale = IF mm.part_id = "STC89" THEN 12 ELSE 1
Restorable(mm) == mm.initialized => Valid(mm) /\ Suited(mm)

USE DEF Part, WithP5
-----------------------------------------------------------------------------
(* Each call's machine is a machine, shown a field at a time.              *)
LEMMA CoreResetType ==
  ASSUME NEW mm \in Machine, NEW wipe \in BOOLEAN
  PROVE  CoreReset(mm, wipe) \in Machine
<1> DEFINE a1 == [mm EXCEPT !.code = IF wipe THEN {} ELSE mm.code]
           a2 == [a1 EXCEPT !.latch = 1]
           a3 == [a2 EXCEPT !.pof = wipe]
<1>1. a1 \in Machine
  BY DEF Machine
<1> HIDE DEF a1
<1>2. a2 \in Machine
  BY <1>1 DEF Machine
<1> HIDE DEF a2
<1>3. a3 \in Machine
  BY <1>2 DEF Machine
<1> HIDE DEF a3
<1> QED
  BY <1>3 DEF a1, a2, a3, CoreReset

LEMMA HooksType ==
  ASSUME NEW part \in Part
  PROVE  HooksOf(part) \in SUBSET Hook
  BY DEF HooksOf, Hook

LEMMA StcInitType ==
  ASSUME NEW mm \in Machine
  PROVE  StcInit(mm) \in Machine
<1> DEFINE hh == mm.hooks \cup HooksOf(mm.part_id)
<1>0. hh \in SUBSET Hook
  BY HooksType DEF Machine
<1> HIDE DEF hh
<1> DEFINE a1 == [mm EXCEPT !.stc12_mode = TRUE]
           a2 == [a1 EXCEPT !.fosc = DefaultFosc]
           a3 == [a2 EXCEPT !.quantum = DefaultFosc]
           a4 == [a3 EXCEPT !.osc_clocks = 0]
           a5 == [a4 EXCEPT !.shadow = 1]
           a6 == [a5 EXCEPT !.on_serial_tx = FALSE]
           a7 == [a6 EXCEPT !.events = 0]
           a8 == [a7 EXCEPT !.hooks = hh]
<1>1. a1 \in Machine
  BY <1>0, LifecycleAssumption DEF Machine
<1> HIDE DEF a1
<1>2. a2 \in Machine
  BY <1>1, <1>0, LifecycleAssumption DEF Machine
<1> HIDE DEF a2
<1>3. a3 \in Machine
  BY <1>2, <1>0, LifecycleAssumption DEF Machine
<1> HIDE DEF a3
<1>4. a4 \in Machine
  BY <1>3, <1>0, LifecycleAssumption DEF Machine
<1> HIDE DEF a4
<1>5. a5 \in Machine
  BY <1>4, <1>0, LifecycleAssumption DEF Machine
<1> HIDE DEF a5
<1>6. a6 \in Machine
  BY <1>5, <1>0, LifecycleAssumption DEF Machine
<1> HIDE DEF a6
<1>7. a7 \in Machine
  BY <1>6, <1>0, LifecycleAssumption DEF Machine
<1> HIDE DEF a7
<1>8. a8 \in Machine
  BY <1>7, <1>0, LifecycleAssumption DEF Machine
<1> HIDE DEF a8
<1> QED
  BY <1>8 DEF a1, a2, a3, a4, a5, a6, a7, a8, hh, StcInit

LEMMA SetPartType ==
  ASSUME NEW mm \in Machine, NEW part \in Part
  PROVE  SetPart(mm, part) \in Machine
<1> DEFINE a1 == [mm EXCEPT !.part_id = part]
           a2 == [a1 EXCEPT !.hooks = (IF part \in WithP5 THEN mm.hooks \cup {"p5"} ELSE mm.hooks \ {"p5"})]
<1>1. a1 \in Machine
  BY DEF Machine
<1> HIDE DEF a1
<1>2. a2 \in Machine
  BY <1>1 DEF Machine, Hook
<1> HIDE DEF a2
<1> QED
  BY <1>2 DEF a1, a2, SetPart, Machine

LEMMA SkippingType ==
  ASSUME NEW mm \in Machine
  PROVE  [mm EXCEPT !.skip_timers = TRUE] \in Machine
  BY DEF Machine

LEMMA ConfigurePartType ==
  ASSUME NEW mm \in Machine, NEW part \in Part
  PROVE  ConfigurePart(mm, part) \in Machine
<1> DEFINE init == StcInit(SetPart(mm, part))
<1>0. init \in Machine
  BY SetPartType, StcInitType
<1> HIDE DEF init
<1> DEFINE a1 == [init EXCEPT !.skip_timers = TRUE]
           a2 == [a1 EXCEPT !.scale = (IF part = "STC89" THEN 12 ELSE 1)]
<1>1. a1 \in Machine
  BY <1>0 DEF Machine
<1> HIDE DEF a1
<1>2. a2 \in Machine
  BY <1>1, <1>0 DEF Machine
<1> HIDE DEF a2
<1> QED
  BY <1>2 DEF a1, a2, init, ConfigurePart

LEMMA DbgInitType ==
  ASSUME NEW mm \in Machine
  PROVE  DbgInit(mm) \in Machine
<1> DEFINE a1 == [mm EXCEPT !.running = FALSE]
           a2 == [a1 EXCEPT !.bps = 0]
           a3 == [a2 EXCEPT !.on_halt = FALSE]
<1>1. a1 \in Machine
  BY DEF Machine
<1> HIDE DEF a1
<1>2. a2 \in Machine
  BY <1>1 DEF Machine
<1> HIDE DEF a2
<1>3. a3 \in Machine
  BY <1>2 DEF Machine
<1> HIDE DEF a3
<1> QED
  BY <1>3 DEF a1, a2, a3, DbgInit

LEMMA EmptiedType ==
  ASSUME NEW mm \in Machine
  PROVE  Emptied(mm) \in Machine
  BY DEF Emptied, Machine

LEMMA EmuInitType ==
  ASSUME NEW mm \in Machine, NEW stc12_mode \in BOOLEAN
  PROVE  EmuInit(mm, stc12_mode) \in Machine
<1> DEFINE core == CoreReset(Emptied(mm), TRUE)
<1>0. core \in Machine
  BY EmptiedType, CoreResetType
<1> HIDE DEF core
<1> DEFINE a1 == [core EXCEPT !.scale = 1]
           a2 == [a1 EXCEPT !.skip_timers = stc12_mode]
<1>1. a1 \in Machine
  BY <1>0 DEF Machine
<1> HIDE DEF a1
<1>2. a2 \in Machine
  BY <1>1, <1>0 DEF Machine
<1> HIDE DEF a2
<1> DEFINE made == DbgInit(IF stc12_mode THEN StcInit(a2) ELSE a2)
<1>3. made \in Machine
  BY <1>2, StcInitType, DbgInitType
<1> HIDE DEF made
<1>4. [made EXCEPT !.initialized = TRUE] \in Machine
  BY <1>3 DEF Machine
<1> QED
  BY <1>4 DEF made, a2, a1, core, EmuInit

LEMMA EmuResetType ==
  ASSUME NEW mm \in Machine, NEW wipe \in BOOLEAN
  PROVE  EmuReset(mm, wipe) \in Machine
<1> DEFINE init == StcInit(CoreReset(mm, wipe))
<1>1. init \in Machine
  BY CoreResetType, StcInitType
<1> HIDE DEF init
<1>2. [init EXCEPT !.skip_timers = TRUE] \in Machine
  BY <1>1 DEF Machine
<1> QED
  BY <1>2, CoreResetType DEF init, EmuReset

LEMMA DbgResetType ==
  ASSUME NEW mm \in Machine
  PROVE  DbgReset(mm) \in Machine
<1> DEFINE init == StcInit(CoreReset(mm, FALSE))
<1>0. init \in Machine
  BY CoreResetType, StcInitType
<1> HIDE DEF init
<1> DEFINE a1 == [init EXCEPT !.skip_timers = TRUE]
           a2 == [a1 EXCEPT !.running = FALSE]
<1>1. a1 \in Machine
  BY <1>0 DEF Machine
<1> HIDE DEF a1
<1>2. a2 \in Machine
  BY <1>1, <1>0 DEF Machine
<1> HIDE DEF a2
<1> QED
  BY <1>2 DEF a1, a2, init, DbgReset

LEMMA SetFoscType ==
  ASSUME NEW mm \in Machine, NEW hz \in Clocks
  PROVE  SetFosc(mm, hz) \in Machine
<1> DEFINE a1 == [mm EXCEPT !.fosc = hz]
           a2 == [a1 EXCEPT !.quantum = hz]
<1>1. a1 \in Machine
  BY DEF Machine
<1> HIDE DEF a1
<1>2. a2 \in Machine
  BY <1>1 DEF Machine
<1> HIDE DEF a2
<1> QED
  BY <1>2 DEF a1, a2, SetFosc

LEMMA LoadedType ==
  ASSUME NEW mm \in Machine, NEW file \in Files
  PROVE  Loaded(mm, file) \in Machine
<1> DEFINE stored == {i \in DOMAIN file : i < LoadEnd(file) /\ file[i].type = "data"}
           blocks == {file[i].block : i \in stored}
<1>2. blocks \in SUBSET AnyBlock
  BY DEF AnyBlock
<1> HIDE DEF blocks
<1>3. [mm EXCEPT !.code = @ \cup blocks] \in Machine
  BY <1>2 DEF Machine
<1> QED
  BY <1>3 DEF blocks, Loaded

LEMMA EmittedType ==
  ASSUME NEW mm \in Machine
  PROVE  Emitted(mm) \in Machine
<1> DEFINE a1 == [mm EXCEPT !.shadow = mm.latch]
           a2 == [a1 EXCEPT !.events = (IF mm.pin_history THEN mm.events + 1 ELSE mm.events)]
<1>1. a1 \in Machine
  BY DEF Machine
<1> HIDE DEF a1
<1>2. a2 \in Machine
  BY <1>1 DEF Machine
<1> HIDE DEF a2
<1> QED
  BY <1>2 DEF a1, a2, Emitted, Machine

LEMMA RunType ==
  ASSUME NEW mm \in Machine, NEW level \in 0 .. 1
  PROVE  Run(mm, level) \in Machine
<1> DEFINE written == [mm EXCEPT !.latch = level]
           ran == Emitted(written)
<1>1. written \in Machine
  BY DEF Machine
<1> HIDE DEF written
<1>2. ran \in Machine
  BY <1>1, EmittedType
<1> HIDE DEF ran
<1>3. [ran EXCEPT !.osc_clocks = @ + 1] \in Machine
  BY <1>2 DEF Machine
<1> QED
  BY <1>2, <1>3 DEF written, ran, Run

LEMMA TemporariesType ==
  ASSUME NEW mm \in Machine, NEW saved \in Machine
  PROVE  Temporaries(mm, saved) \in Machine
<1> DEFINE a1 == [saved EXCEPT !.initialized = mm.initialized]
           a2 == [a1 EXCEPT !.hooks = mm.hooks]
           a3 == [a2 EXCEPT !.board = mm.board]
           a4 == [a3 EXCEPT !.on_serial_tx = mm.on_serial_tx]
           a5 == [a4 EXCEPT !.on_halt = mm.on_halt]
<1>1. a1 \in Machine
  BY DEF Machine
<1> HIDE DEF a1
<1>2. a2 \in Machine
  BY <1>1 DEF Machine
<1> HIDE DEF a2
<1>3. a3 \in Machine
  BY <1>2 DEF Machine
<1> HIDE DEF a3
<1>4. a4 \in Machine
  BY <1>3 DEF Machine
<1> HIDE DEF a4
<1>5. a5 \in Machine
  BY <1>4 DEF Machine
<1> HIDE DEF a5
<1> QED
  BY <1>5 DEF a1, a2, a3, a4, a5, Temporaries

LEMMA CommittedType ==
  ASSUME NEW t \in Machine
  PROVE  Committed(t) \in Machine
<1> DEFINE u == [t EXCEPT !.skip_timers = t.skip_timers \/ t.stc12_mode]
           bare == [u EXCEPT !.hooks = {}]
           hh == IF u.stc12_mode THEN StcInit(bare).hooks ELSE {}
<1>1. u \in Machine
  BY DEF Machine
<1> HIDE DEF u
<1>2. bare \in Machine
  BY <1>1 DEF Machine
<1> HIDE DEF bare
<1>3. hh \in SUBSET Hook
  BY <1>2, StcInitType DEF Machine
<1> HIDE DEF hh
<1>4. [u EXCEPT !.hooks = hh] \in Machine
  BY <1>1, <1>3 DEF Machine
<1> QED
  BY <1>4 DEF hh, bare, u, Committed, Rebound

LEMMA BytesType ==
  ASSUME NEW saved \in Machine, NEW damage \in Damage
  PROVE  Bytes(saved, damage) \in Machine
<1>1. [saved EXCEPT !.skip_timers = FALSE] \in Machine
  BY DEF Machine
<1> QED
  BY <1>1 DEF Bytes

-----------------------------------------------------------------------------
(* What each call does to the fields hooks and validity depend on.         *)
LEMMA CoreResetKeeps ==
  ASSUME NEW mm \in Machine, NEW wipe \in BOOLEAN
  PROVE  LET r == CoreReset(mm, wipe)
         IN  /\ r.hooks = mm.hooks /\ r.stc12_mode = mm.stc12_mode /\ r.part_id = mm.part_id
             /\ r.scale = mm.scale /\ r.skip_timers = mm.skip_timers
             /\ r.fosc = mm.fosc /\ r.quantum = mm.quantum
             /\ r.pin_history = mm.pin_history /\ r.events = mm.events
  BY DEF CoreReset, Machine

LEMMA StcInitMakes ==
  ASSUME NEW mm \in Machine
  PROVE  LET r == StcInit(mm)
         IN  /\ r.hooks = mm.hooks \cup HooksOf(mm.part_id)
             /\ r.stc12_mode = TRUE /\ r.part_id = mm.part_id
             /\ r.scale = mm.scale /\ r.skip_timers = mm.skip_timers
             /\ r.fosc = DefaultFosc /\ r.quantum = DefaultFosc /\ r.events = 0
  BY DEF StcInit, Machine

(* stc12_init hooks P5 on the parts that have it; on the others it must    *)
(* not have been hooked before.                                            *)
LEMMA StcInitHooks ==
  ASSUME NEW mm \in Machine, "p5" \in mm.hooks => mm.part_id \in WithP5
  PROVE  Hooked(StcInit(mm))
<1> DEFINE r == StcInit(mm)
<1>1. r.hooks = mm.hooks \cup HooksOf(mm.part_id) /\ r.stc12_mode = TRUE /\ r.part_id = mm.part_id
  BY StcInitMakes
<1>2. "p5" \in HooksOf(mm.part_id) <=> mm.part_id \in WithP5
  BY DEF HooksOf
<1> HIDE DEF r
<1>3. Hooked(r)
  BY <1>1, <1>2 DEF Hooked
<1> QED
  BY <1>3 DEF r

(* An STC machine is valid once its scale and timers suit the part.        *)
LEMMA StcInitValid ==
  ASSUME NEW mm \in Machine, mm.skip_timers = TRUE,
         mm.scale = IF mm.part_id = "STC89" THEN 12 ELSE 1
  PROVE  Valid(StcInit(mm))
<1>1. StcInit(mm).part_id = mm.part_id /\ StcInit(mm).scale = mm.scale
      /\ StcInit(mm).skip_timers = mm.skip_timers
      /\ StcInit(mm).fosc = DefaultFosc /\ StcInit(mm).quantum = DefaultFosc
      /\ StcInit(mm).events = 0
  BY StcInitMakes
<1>2. mm.part_id \in Part
  BY DEF Machine
<1> QED
  BY <1>1, <1>2, LifecycleAssumption DEF Valid

-----------------------------------------------------------------------------
(* The invariant, of the machine and of the saved one alike.  A call makes *)
(* a machine from one as the invariant has it.                             *)
LEMMA EmuInitSane ==
  ASSUME NEW mm \in Machine, Sane(mm), NEW stc12_mode \in BOOLEAN
  PROVE  /\ Hooked(EmuInit(mm, stc12_mode))
         /\ EmuInit(mm, stc12_mode).initialized
         /\ ~mm.initialized => Restorable(EmuInit(mm, stc12_mode))
<1> DEFINE empty == Emptied(mm)
           core == CoreReset(empty, TRUE)
           timed == [core EXCEPT !.scale = 1, !.skip_timers = stc12_mode]
           inner == IF stc12_mode THEN StcInit(timed) ELSE timed
           r == EmuInit(mm, stc12_mode)
<1>1. /\ empty \in Machine /\ empty.stc12_mode = mm.stc12_mode /\ empty.part_id = mm.part_id
      /\ empty.hooks = IF mm.initialized THEN mm.hooks ELSE {}
      /\ empty.pin_history = mm.pin_history /\ empty.events = mm.events
  BY EmptiedType DEF Emptied, Machine
<1>2. /\ core \in Machine /\ core.stc12_mode = empty.stc12_mode /\ core.part_id = empty.part_id
      /\ core.hooks = empty.hooks
      /\ core.pin_history = empty.pin_history /\ core.events = empty.events
  <2> HIDE DEF empty
  <2> QED
    BY <1>1, CoreResetType, CoreResetKeeps
<1>3. timed \in Machine
  <2> HIDE DEF core
  <2> DEFINE scaled == [core EXCEPT !.scale = 1]
  <2>1. scaled \in Machine
    BY <1>2 DEF Machine
  <2> HIDE DEF scaled
  <2>2. [scaled EXCEPT !.skip_timers = stc12_mode] \in Machine
    BY <2>1 DEF Machine
  <2> QED
    BY <2>2 DEF scaled
<1>4. /\ timed.stc12_mode = core.stc12_mode /\ timed.part_id = core.part_id
      /\ timed.hooks = core.hooks /\ timed.scale = 1 /\ timed.skip_timers = stc12_mode
      /\ timed.pin_history = core.pin_history /\ timed.events = core.events
  <2> HIDE DEF core
  <2> QED
    BY <1>2 DEF Machine
<1> HIDE DEF timed
<1>5. inner \in Machine
  BY <1>3, StcInitType
<1>6. r = [DbgInit(inner) EXCEPT !.initialized = TRUE]
  BY DEF EmuInit, timed
<1> HIDE DEF inner, empty, core
<1>7. /\ r.hooks = inner.hooks /\ r.stc12_mode = inner.stc12_mode /\ r.part_id = inner.part_id
      /\ r.scale = inner.scale /\ r.skip_timers = inner.skip_timers /\ r.fosc = inner.fosc
      /\ r.quantum = inner.quantum /\ r.pin_history = inner.pin_history
      /\ r.events = inner.events /\ r.initialized
  <2> HIDE DEF r
  <2> QED
    BY <1>5, <1>6 DEF DbgInit, Machine
<1>8. "p5" \in timed.hooks => timed.part_id \in WithP5
  BY <1>1, <1>2, <1>4 DEF Sane, Hooked
<1>9. Hooked(inner)
  <2>1. CASE stc12_mode
    BY <2>1, <1>3, <1>8, StcInitHooks DEF inner
  <2>2. CASE ~stc12_mode
    <3>1. inner = timed
      BY <2>2 DEF inner
    <3>2. ~mm.initialized => ~mm.stc12_mode
      BY DEF Sane, Zeroed
    <3> QED
      BY <3>1, <3>2, <1>1, <1>2, <1>4 DEF Sane, Hooked
  <2> QED
    BY <2>1, <2>2
<1>10. ASSUME ~mm.initialized
       PROVE  Valid(inner) /\ Suited(inner)
  <2>1. mm.part_id = "STC12" /\ mm.stc12_mode = FALSE /\ mm.events = 0
    BY <1>10 DEF Sane, Zeroed
  <2>2. CASE stc12_mode
    <3>1. timed.part_id = "STC12" /\ timed.scale = 1 /\ timed.skip_timers = TRUE
      BY <2>1, <2>2, <1>1, <1>2, <1>4
    <3>2. inner = StcInit(timed)
      BY <2>2 DEF inner
    <3>3. inner.part_id = "STC12" /\ inner.scale = 1
      BY <3>1, <3>2, <1>3, StcInitMakes
    <3> QED
      BY <3>1, <3>2, <3>3, <1>3, StcInitValid DEF Suited
  <2>3. CASE ~stc12_mode
    <3>1. inner = timed
      BY <2>3 DEF inner
    <3> QED
      BY <2>1, <3>1, <1>1, <1>2, <1>4 DEF Valid, Suited
  <2> QED
    BY <2>2, <2>3
<1>11. Hooked(r)
  BY <1>7, <1>9 DEF Hooked
<1>12. ~mm.initialized => Restorable(r)
  <2> HIDE DEF r
  <2> QED
    BY <1>7, <1>10 DEF Restorable, Valid, Suited
<1> QED
  BY <1>7, <1>11, <1>12

(* A call that leaves the fields they depend on keeps both.                *)
SameConfiguration(mm, r) ==
  /\ r.hooks = mm.hooks /\ r.stc12_mode = mm.stc12_mode /\ r.part_id = mm.part_id
  /\ r.scale = mm.scale /\ r.skip_timers = mm.skip_timers /\ r.initialized = mm.initialized
Carried(mm, r) == /\ Hooked(mm) => Hooked(r)
                  /\ Restorable(mm) => Restorable(r)
LEMMA SameCarries ==
  ASSUME NEW mm, NEW r, SameConfiguration(mm, r), mm.initialized,
         Valid(mm) => /\ r.stc12_mode => r.fosc # 0 /\ r.quantum = r.fosc
                      /\ ~r.pin_history => r.events = 0
  PROVE  Carried(mm, r)
  BY DEF SameConfiguration, Carried, Hooked, Restorable, Valid, Suited

LEMMA ConfigurePartSane ==
  ASSUME NEW mm \in Machine, mm.initialized, NEW part \in Part
  PROVE  LET r == ConfigurePart(mm, part)
         IN  r.initialized /\ Hooked(r) /\ Restorable(r)
<1> DEFINE set == SetPart(mm, part)
           init == StcInit(set)
           r == ConfigurePart(mm, part)
<1>1. /\ set \in Machine /\ set.part_id = part /\ set.initialized = mm.initialized
      /\ set.hooks = IF part \in WithP5 THEN mm.hooks \cup {"p5"} ELSE mm.hooks \ {"p5"}
  <2>1. set \in Machine
    BY SetPartType
  <2>2. set.part_id = part /\ set.initialized = mm.initialized
    BY DEF SetPart, Machine
  <2>3. set.hooks = IF part \in WithP5 THEN mm.hooks \cup {"p5"} ELSE mm.hooks \ {"p5"}
    BY DEF SetPart, Machine
  <2> HIDE DEF set
  <2> QED
    BY <2>1, <2>2, <2>3
<1>2. init \in Machine /\ init.part_id = part /\ init.fosc = DefaultFosc
      /\ init.quantum = DefaultFosc /\ init.events = 0 /\ init.initialized
  <2> HIDE DEF set
  <2>1. StcInit(set).initialized = set.initialized
    BY <1>1 DEF StcInit, Machine
  <2> QED
    BY <1>1, <2>1, StcInitType, StcInitMakes
<1>3. Hooked(init)
  <2> HIDE DEF set
  <2>1. "p5" \in set.hooks => set.part_id \in WithP5
    BY <1>1
  <2> QED
    BY <1>1, <2>1, StcInitHooks
<1>4. init.stc12_mode = TRUE
  <2> HIDE DEF set
  <2> QED
    BY <1>1, StcInitMakes
<1> HIDE DEF init
<1>5. r = [init EXCEPT !.skip_timers = TRUE, !.scale = IF part = "STC89" THEN 12 ELSE 1]
  BY DEF ConfigurePart, init
<1> HIDE DEF r
<1>6. /\ r.hooks = init.hooks /\ r.stc12_mode = init.stc12_mode /\ r.part_id = init.part_id
      /\ r.fosc = init.fosc /\ r.quantum = init.quantum /\ r.events = init.events
      /\ r.skip_timers = TRUE /\ r.scale = (IF part = "STC89" THEN 12 ELSE 1)
      /\ r.initialized = init.initialized
  BY <1>2, <1>5 DEF Machine
<1>7. Hooked(r)
  BY <1>3, <1>6 DEF Hooked
<1>8. Restorable(r)
  BY <1>2, <1>4, <1>6, LifecycleAssumption DEF Restorable, Valid, Suited
<1> QED
  BY <1>2, <1>6, <1>7, <1>8 DEF r

(* A reset makes an STC machine afresh, with the scale it had.             *)
LEMMA ResetSane ==
  ASSUME NEW mm \in Machine, mm.initialized, Hooked(mm), NEW wipe \in BOOLEAN
  PROVE  LET r == [StcInit(CoreReset(mm, wipe)) EXCEPT !.skip_timers = TRUE]
         IN  /\ r \in Machine /\ r.initialized /\ Hooked(r) /\ r.fosc = DefaultFosc
             /\ r.quantum = DefaultFosc /\ r.events = 0
             /\ Restorable(mm) => Restorable(r)
<1> DEFINE core == CoreReset(mm, wipe)
           init == StcInit(core)
           r == [init EXCEPT !.skip_timers = TRUE]
<1>1. /\ core \in Machine /\ core.part_id = mm.part_id /\ core.hooks = mm.hooks
      /\ core.scale = mm.scale /\ core.initialized
  <2>1. core.initialized = mm.initialized
    BY DEF CoreReset, Machine
  <2> QED
    BY <2>1, CoreResetType, CoreResetKeeps
<1> HIDE DEF core
<1>2. /\ init \in Machine /\ init.part_id = mm.part_id /\ init.scale = mm.scale
      /\ init.fosc = DefaultFosc /\ init.quantum = DefaultFosc /\ init.events = 0
      /\ init.stc12_mode = TRUE
  BY <1>1, StcInitType, StcInitMakes
<1>3. Hooked(init)
  BY <1>1, StcInitHooks DEF Hooked
<1>4. init.initialized
  BY <1>1 DEF StcInit, Machine
<1> HIDE DEF init
<1>5. /\ r \in Machine /\ r.initialized = init.initialized
      /\ r.hooks = init.hooks /\ r.stc12_mode = init.stc12_mode /\ r.part_id = init.part_id
      /\ r.fosc = init.fosc /\ r.quantum = init.quantum /\ r.events = init.events
      /\ r.skip_timers = TRUE /\ r.scale = init.scale
  <2>1. r \in Machine
    BY <1>2, SkippingType
  <2>2. r.initialized = init.initialized /\ r.hooks = init.hooks
    BY <1>2 DEF Machine
  <2>3. r.stc12_mode = init.stc12_mode /\ r.part_id = init.part_id
    BY <1>2 DEF Machine
  <2>4. r.fosc = init.fosc /\ r.quantum = init.quantum /\ r.events = init.events
    BY <1>2 DEF Machine
  <2>5. r.skip_timers = TRUE
    BY <1>2 DEF Machine
  <2>6. r.scale = init.scale
    BY <1>2 DEF Machine
  <2> HIDE DEF r
  <2> QED
    BY <2>1, <2>2, <2>3, <2>4, <2>5, <2>6
<1> HIDE DEF r
<1>6. Hooked(r)
  BY <1>3, <1>5 DEF Hooked
<1>7. Restorable(mm) => Restorable(r)
  <2>1. mm.part_id \in Part
    BY DEF Machine
  <2> QED
    BY <1>2, <1>5, <2>1, LifecycleAssumption DEF Restorable, Valid, Suited
<1> QED
  BY <1>2, <1>4, <1>5, <1>6, <1>7 DEF r, init, core

LEMMA EmuResetSane ==
  ASSUME NEW mm \in Machine, mm.initialized, Hooked(mm), NEW wipe \in BOOLEAN
  PROVE  LET r == EmuReset(mm, wipe)
         IN  r.initialized /\ Hooked(r) /\ (Restorable(mm) => Restorable(r))
<1>1. CASE mm.stc12_mode
  BY <1>1, ResetSane DEF EmuReset
<1>2. CASE ~mm.stc12_mode
  <2> DEFINE r == CoreReset(mm, wipe)
  <2>1. r.initialized = mm.initialized
    BY DEF CoreReset, Machine
  <2>2. /\ r.hooks = mm.hooks /\ r.stc12_mode = mm.stc12_mode /\ r.part_id = mm.part_id
        /\ r.scale = mm.scale /\ r.skip_timers = mm.skip_timers
        /\ r.pin_history = mm.pin_history /\ r.events = mm.events
    BY CoreResetKeeps
  <2>3. EmuReset(mm, wipe) = r
    BY <1>2 DEF EmuReset
  <2> HIDE DEF r
  <2>4. Hooked(r)
    BY <2>2 DEF Hooked
  <2>5. Restorable(mm) => Restorable(r)
    BY <1>2, <2>1, <2>2 DEF Restorable, Valid, Suited
  <2> QED
    BY <2>1, <2>3, <2>4, <2>5
<1> QED
  BY <1>1, <1>2

LEMMA DbgResetSane ==
  ASSUME NEW mm \in Machine, mm.initialized, Hooked(mm)
  PROVE  LET r == DbgReset(mm)
         IN  r.initialized /\ Hooked(r) /\ (Restorable(mm) => Restorable(r))
<1> DEFINE reset == [StcInit(CoreReset(mm, FALSE)) EXCEPT !.skip_timers = TRUE]
           r == DbgReset(mm)
<1>1. /\ reset \in Machine /\ reset.initialized /\ Hooked(reset) /\ reset.fosc = DefaultFosc
      /\ reset.quantum = DefaultFosc /\ reset.events = 0
      /\ Restorable(mm) => Restorable(reset)
  BY ResetSane
<1>2. r = [reset EXCEPT !.running = FALSE]
  BY DEF DbgReset
<1> HIDE DEF reset, r
<1>3. SameConfiguration(reset, r) /\ r.fosc = reset.fosc /\ r.quantum = reset.quantum
      /\ r.events = reset.events
  BY <1>1, <1>2 DEF Machine, SameConfiguration
<1>4. Carried(reset, r)
  BY <1>1, <1>3, LifecycleAssumption, SameCarries
<1> QED
  BY <1>1, <1>3, <1>4 DEF r, SameConfiguration, Carried

(* The other calls leave the configuration alone.                          *)
SameClock(mm, r) == r.fosc = mm.fosc /\ r.quantum = mm.quantum
SameHistory(mm, r) == r.pin_history = mm.pin_history /\ r.events = mm.events
LEMMA SameAllCarries ==
  ASSUME NEW mm, NEW r, SameConfiguration(mm, r), mm.initialized, SameClock(mm, r),
         SameHistory(mm, r)
  PROVE  Carried(mm, r)
  BY SameCarries DEF SameClock, SameHistory, Valid, SameConfiguration

LEMMA SetFoscSane ==
  ASSUME NEW mm \in Machine, mm.initialized, NEW hz \in Clocks
  PROVE  SetFosc(mm, hz).initialized /\ Carried(mm, SetFosc(mm, hz))
<1>1. CASE hz = 0
  BY <1>1 DEF SetFosc, Carried
<1>2. CASE hz # 0
  <2> DEFINE r == [mm EXCEPT !.fosc = hz, !.quantum = hz]
  <2>1. SameConfiguration(mm, r)
    BY DEF SameConfiguration, Machine
  <2>2. SameHistory(mm, r)
    BY DEF SameHistory, Machine
  <2>3. r.fosc = hz /\ r.quantum = hz
    BY DEF Machine
  <2>4. SetFosc(mm, hz) = r
    BY <1>2 DEF SetFosc
  <2> HIDE DEF r
  <2>5. Valid(mm) => /\ r.stc12_mode => r.fosc # 0 /\ r.quantum = r.fosc
                     /\ ~r.pin_history => r.events = 0
    BY <1>2, <2>2, <2>3 DEF SameHistory, Valid
  <2>6. Carried(mm, r)
    BY <2>1, <2>5, SameCarries
  <2> QED
    BY <2>1, <2>4, <2>6 DEF SameConfiguration
<1> QED
  BY <1>1, <1>2

LEMMA LoadedSane ==
  ASSUME NEW mm \in Machine, mm.initialized, NEW file \in Files
  PROVE  Loaded(mm, file).initialized /\ Carried(mm, Loaded(mm, file))
<1> DEFINE r == Loaded(mm, file)
<1>1. SameConfiguration(mm, r)
  BY DEF SameConfiguration, Loaded, Machine
<1>2. SameClock(mm, r) /\ SameHistory(mm, r)
  BY DEF SameClock, SameHistory, Loaded, Machine
<1> HIDE DEF r
<1> QED
  BY <1>1, <1>2, SameAllCarries DEF r, SameConfiguration

LEMMA EmittedKeeps ==
  ASSUME NEW mm \in Machine
  PROVE  LET r == Emitted(mm)
         IN  /\ SameConfiguration(mm, r) /\ SameClock(mm, r)
             /\ r.pin_history = mm.pin_history
             /\ ~mm.pin_history => r.events = mm.events
<1> DEFINE next == IF mm.pin_history THEN mm.events + 1 ELSE mm.events
           e == [mm EXCEPT !.shadow = mm.latch, !.events = next]
           r == Emitted(mm)
<1>1. SameConfiguration(mm, e)
  BY DEF SameConfiguration, Machine
<1>2. SameClock(mm, e)
  BY DEF SameClock, Machine
<1>3. e.pin_history = mm.pin_history /\ e.events = next
  BY DEF Machine
<1>4. r = mm \/ r = e
  BY DEF Emitted
<1> HIDE DEF e, r
<1>5. SameConfiguration(mm, r) /\ SameClock(mm, r)
  BY <1>1, <1>2, <1>4 DEF SameConfiguration, SameClock
<1> QED
  BY <1>3, <1>4, <1>5 DEF r

LEMMA RunSane ==
  ASSUME NEW mm \in Machine, mm.initialized, NEW level \in 0 .. 1
  PROVE  Run(mm, level).initialized /\ Carried(mm, Run(mm, level))
<1> DEFINE written == [mm EXCEPT !.latch = level]
           ran == Emitted(written)
           r == Run(mm, level)
<1>1. written \in Machine
  BY DEF Machine
<1>2. SameConfiguration(mm, written)
  BY DEF SameConfiguration, Machine
<1>3. SameClock(mm, written) /\ SameHistory(mm, written)
  BY DEF SameClock, SameHistory, Machine
<1> HIDE DEF written
<1>4. ran \in Machine
  BY <1>1, EmittedType
<1>5. /\ SameConfiguration(written, ran) /\ SameClock(written, ran)
      /\ ran.pin_history = written.pin_history
      /\ ~written.pin_history => ran.events = written.events
  BY <1>1, EmittedKeeps
<1>6. r = IF ran.stc12_mode THEN [ran EXCEPT !.osc_clocks = @ + 1] ELSE ran
  BY DEF Run, written
<1> HIDE DEF ran, r
<1>7. SameConfiguration(ran, r)
  BY <1>4, <1>6 DEF SameConfiguration, Machine
<1>8. SameClock(ran, r)
  BY <1>4, <1>6 DEF SameClock, Machine
<1>9. SameHistory(ran, r)
  BY <1>4, <1>6 DEF SameHistory, Machine
<1>10. SameConfiguration(mm, r)
  BY <1>2, <1>5, <1>7 DEF SameConfiguration
<1>11. Valid(mm) => /\ r.stc12_mode => r.fosc # 0 /\ r.quantum = r.fosc
                    /\ ~r.pin_history => r.events = 0
  BY <1>3, <1>5, <1>8, <1>9, <1>10 DEF SameConfiguration, SameClock, SameHistory, Valid
<1> QED
  BY <1>10, <1>11, SameCarries DEF r, SameConfiguration

(* Setting one field the configuration does not depend on.                 *)
Set(mm, r) == r \in Machine /\ r.initialized /\ Carried(mm, r)
LEMMA RunningSane ==
  ASSUME NEW mm \in Machine, mm.initialized
  PROVE  Set(mm, [mm EXCEPT !.running = TRUE])
<1> DEFINE r == [mm EXCEPT !.running = TRUE]
<1>1. r \in Machine
  BY DEF Machine
<1>2. SameConfiguration(mm, r)
  BY DEF SameConfiguration, Machine
<1>3. SameClock(mm, r) /\ SameHistory(mm, r)
  BY DEF SameClock, SameHistory, Machine
<1> HIDE DEF r
<1> QED
  BY <1>1, <1>2, <1>3, SameAllCarries DEF r, Set, SameConfiguration

LEMMA BreakpointSane ==
  ASSUME NEW mm \in Machine, mm.initialized
  PROVE  Set(mm, [mm EXCEPT !.bps = 1])
<1> DEFINE r == [mm EXCEPT !.bps = 1]
<1>1. r \in Machine
  BY DEF Machine
<1>2. SameConfiguration(mm, r)
  BY DEF SameConfiguration, Machine
<1>3. SameClock(mm, r) /\ SameHistory(mm, r)
  BY DEF SameClock, SameHistory, Machine
<1> HIDE DEF r
<1> QED
  BY <1>1, <1>2, <1>3, SameAllCarries DEF r, Set, SameConfiguration

LEMMA BoardSane ==
  ASSUME NEW mm \in Machine, mm.initialized
  PROVE  Set(mm, [mm EXCEPT !.board = TRUE])
<1> DEFINE r == [mm EXCEPT !.board = TRUE]
<1>1. r \in Machine
  BY DEF Machine
<1>2. SameConfiguration(mm, r)
  BY DEF SameConfiguration, Machine
<1>3. SameClock(mm, r) /\ SameHistory(mm, r)
  BY DEF SameClock, SameHistory, Machine
<1> HIDE DEF r
<1> QED
  BY <1>1, <1>2, <1>3, SameAllCarries DEF r, Set, SameConfiguration

LEMMA SerialSane ==
  ASSUME NEW mm \in Machine, mm.initialized
  PROVE  Set(mm, [mm EXCEPT !.on_serial_tx = TRUE])
<1> DEFINE r == [mm EXCEPT !.on_serial_tx = TRUE]
<1>1. r \in Machine
  BY DEF Machine
<1>2. SameConfiguration(mm, r)
  BY DEF SameConfiguration, Machine
<1>3. SameClock(mm, r) /\ SameHistory(mm, r)
  BY DEF SameClock, SameHistory, Machine
<1> HIDE DEF r
<1> QED
  BY <1>1, <1>2, <1>3, SameAllCarries DEF r, Set, SameConfiguration

LEMMA OnHaltSane ==
  ASSUME NEW mm \in Machine, mm.initialized
  PROVE  Set(mm, [mm EXCEPT !.on_halt = TRUE])
<1> DEFINE r == [mm EXCEPT !.on_halt = TRUE]
<1>1. r \in Machine
  BY DEF Machine
<1>2. SameConfiguration(mm, r)
  BY DEF SameConfiguration, Machine
<1>3. SameClock(mm, r) /\ SameHistory(mm, r)
  BY DEF SameClock, SameHistory, Machine
<1> HIDE DEF r
<1> QED
  BY <1>1, <1>2, <1>3, SameAllCarries DEF r, Set, SameConfiguration

LEMMA IdleFfSane ==
  ASSUME NEW mm \in Machine, mm.initialized
  PROVE  Set(mm, [mm EXCEPT !.idle_ff = ~@])
<1> DEFINE r == [mm EXCEPT !.idle_ff = ~@]
<1>1. r \in Machine
  <2>1. \A b \in BOOLEAN : [mm EXCEPT !.idle_ff = b] \in Machine
    BY DEF Machine
  <2>2. mm.idle_ff \in BOOLEAN /\ (~mm.idle_ff) \in BOOLEAN
    BY DEF Machine
  <2> QED
    BY <2>1, <2>2
<1>2. SameConfiguration(mm, r)
  BY DEF SameConfiguration, Machine
<1>3. SameClock(mm, r) /\ SameHistory(mm, r)
  BY DEF SameClock, SameHistory, Machine
<1> HIDE DEF r
<1> QED
  BY <1>1, <1>2, <1>3, SameAllCarries DEF r, Set, SameConfiguration

LEMMA PinHistorySane ==
  ASSUME NEW mm \in Machine, mm.initialized
  PROVE  Set(mm, [mm EXCEPT !.pin_history = TRUE])
<1> DEFINE r == [mm EXCEPT !.pin_history = TRUE]
<1>1. r \in Machine
  BY DEF Machine
<1>2. SameConfiguration(mm, r)
  BY DEF SameConfiguration, Machine
<1>3. SameClock(mm, r) /\ r.pin_history = TRUE
  BY DEF SameClock, Machine
<1> HIDE DEF r
<1>4. Valid(mm) => /\ r.stc12_mode => r.fosc # 0 /\ r.quantum = r.fosc
                   /\ ~r.pin_history => r.events = 0
  BY <1>2, <1>3 DEF SameConfiguration, SameClock, Valid
<1> QED
  BY <1>1, <1>2, <1>4, SameCarries DEF r, Set, SameConfiguration

(* A restore makes the tables afresh for the part it restores.             *)
LEMMA TemporariesKeep ==
  ASSUME NEW mm \in Machine, NEW saved \in Machine
  PROVE  LET t == Temporaries(mm, saved)
         IN  /\ t.initialized = mm.initialized
             /\ t.stc12_mode = saved.stc12_mode /\ t.part_id = saved.part_id
             /\ t.scale = saved.scale /\ t.skip_timers = saved.skip_timers
             /\ SameClock(saved, t) /\ SameHistory(saved, t)
<1> DEFINE t == Temporaries(mm, saved)
<1>1. t.initialized = mm.initialized /\ t.stc12_mode = saved.stc12_mode
  BY DEF Temporaries, Machine
<1>2. t.part_id = saved.part_id /\ t.scale = saved.scale
  BY DEF Temporaries, Machine
<1>3. t.skip_timers = saved.skip_timers /\ SameClock(saved, t)
  BY DEF Temporaries, Machine, SameClock
<1>4. SameHistory(saved, t)
  BY DEF Temporaries, Machine, SameHistory
<1> HIDE DEF t
<1> QED
  BY <1>1, <1>2, <1>3, <1>4 DEF t

LEMMA BytesKeep ==
  ASSUME NEW saved \in Machine, NEW damage \in Damage
  PROVE  LET s == Bytes(saved, damage)
         IN  /\ s.stc12_mode = saved.stc12_mode /\ s.part_id = saved.part_id
             /\ s.scale = saved.scale /\ SameClock(saved, s) /\ SameHistory(saved, s)
             /\ saved.part_id # "STC89" => s.skip_timers = saved.skip_timers
<1> DEFINE s == Bytes(saved, damage)
           r == [saved EXCEPT !.skip_timers = FALSE]
<1>1. r.stc12_mode = saved.stc12_mode /\ r.part_id = saved.part_id /\ r.scale = saved.scale
  BY DEF Machine
<1>2. SameClock(saved, r)
  BY DEF SameClock, Machine
<1>3. SameHistory(saved, r)
  BY DEF SameHistory, Machine
<1>4. s = IF damage = "old" /\ saved.part_id = "STC89" THEN r ELSE saved
  BY DEF Bytes
<1> HIDE DEF s, r
<1> QED
  BY <1>1, <1>2, <1>3, <1>4 DEF s, SameClock, SameHistory

LEMMA CommittedSane ==
  ASSUME NEW t \in Machine, t.initialized
  PROVE  LET r == Committed(t)
         IN  /\ r.initialized /\ Hooked(r)
             /\ Valid(t) => Valid(r)
             /\ Suited(t) => Suited(r)
<1> DEFINE u == [t EXCEPT !.skip_timers = t.skip_timers \/ t.stc12_mode]
           bare == [u EXCEPT !.hooks = {}]
           hh == IF u.stc12_mode THEN StcInit(bare).hooks ELSE {}
           r == [u EXCEPT !.hooks = hh]
<1>1. u \in Machine
  BY DEF Machine
<1>2. /\ u.initialized = t.initialized /\ u.stc12_mode = t.stc12_mode /\ u.part_id = t.part_id
      /\ u.scale = t.scale
  BY DEF Machine
<1>3. u.skip_timers = (t.skip_timers \/ t.stc12_mode) /\ SameClock(t, u) /\ SameHistory(t, u)
  BY DEF Machine, SameClock, SameHistory
<1>4. Committed(t) = r
  BY DEF Committed, Rebound
<1> HIDE DEF u
<1>5. bare \in Machine
  BY <1>1 DEF Machine
<1>6. bare.hooks = {} /\ bare.part_id = u.part_id
  BY <1>1 DEF Machine
<1> HIDE DEF bare
<1>7. u.stc12_mode => hh = HooksOf(u.part_id)
  BY <1>5, <1>6, StcInitMakes
<1>8. "p5" \in hh <=> u.stc12_mode /\ u.part_id \in WithP5
  BY <1>7 DEF HooksOf
<1> HIDE DEF hh
<1>9. /\ r.hooks = hh /\ r.initialized = u.initialized /\ r.stc12_mode = u.stc12_mode
  BY <1>1 DEF Machine
<1>10. r.part_id = u.part_id /\ r.scale = u.scale /\ r.skip_timers = u.skip_timers
  BY <1>1 DEF Machine
<1>11. SameClock(u, r) /\ SameHistory(u, r)
  BY <1>1 DEF Machine, SameClock, SameHistory
<1> HIDE DEF r
<1>12. Hooked(r)
  BY <1>8, <1>9, <1>10 DEF Hooked
<1>13. Valid(t) => Valid(r)
  BY <1>2, <1>3, <1>9, <1>10, <1>11 DEF Valid, SameClock, SameHistory
<1>14. Suited(t) => Suited(r)
  BY <1>2, <1>10 DEF Suited
<1> QED
  BY <1>2, <1>4, <1>9, <1>12, <1>13, <1>14

-----------------------------------------------------------------------------
(* The inductive invariant.  P5FollowsPart needs that a machine without    *)
(* P5 has it unhooked when it becomes an STC machine; SavedRestores needs  *)
(* that the live machine, which a save copies, could be restored too.      *)
Typed == /\ m \in Machine
         /\ image \in [of : Machine, reinit : BOOLEAN]
         /\ reinit \in BOOLEAN
         /\ calls \in 0 .. MaxCalls
IInv == /\ Typed
        /\ Sane(m)
        /\ ~reinit => Restorable(m)
        /\ ~image.reinit => Restorable(image.of)

LEMMA ZeroedType == Zeroed \in Machine
  BY DEF Zeroed, Machine

LEMMA InitInv == Init => IInv
<1> SUFFICES ASSUME Init PROVE IInv
  OBVIOUS
<1>1. m = Zeroed /\ image.of = Zeroed
  BY DEF Init
<1>2. Typed
  <2>1. m \in Machine
    BY <1>1, ZeroedType
  <2>2. image \in [of : Machine, reinit : BOOLEAN]
    BY ZeroedType DEF Init
  <2>3. reinit \in BOOLEAN
    BY DEF Init
  <2>4. calls = 0
    BY DEF Init
  <2>5. calls \in 0 .. MaxCalls
    BY <2>4, LifecycleAssumption
  <2> QED
    BY <2>1, <2>2, <2>3, <2>5 DEF Typed
<1>3. ~Zeroed.initialized /\ Zeroed.hooks = {} /\ Zeroed.stc12_mode = FALSE
  BY DEF Zeroed
<1>4. Hooked(Zeroed) /\ Restorable(Zeroed)
  BY <1>3 DEF Hooked, Restorable
<1> QED
  BY <1>1, <1>2, <1>4 DEF IInv, Sane

(* A call of the host on a live machine, other than init and restore.      *)
LEMMA CallType ==
  ASSUME Typed, NEW name, NEW code, Call(name, code)
  PROVE  calls' \in 0 .. MaxCalls
  BY LifecycleAssumption DEF Call, Typed

LEMMA CarriedKeeps ==
  ASSUME IInv, m' \in Machine, m'.initialized, Carried(m, m'), calls' \in 0 .. MaxCalls,
         UNCHANGED <<image, reinit>>
  PROVE  IInv'
  BY DEF IInv, Typed, Sane, Carried

LEMMA IdleKeeps ==
  ASSUME IInv, m' = m, calls' \in 0 .. MaxCalls, UNCHANGED <<image, reinit>>
  PROVE  IInv'
  BY DEF IInv, Typed

LEMMA InitStep == IInv /\ CallInit => IInv'
<1> SUFFICES ASSUME IInv, NEW stc12_mode \in BOOLEAN, Call("emu_init", 0),
                    m' = EmuInit(m, stc12_mode), reinit' = m.initialized, UNCHANGED image
             PROVE  IInv'
  BY DEF CallInit
<1>1. m \in Machine /\ m.initialized \in BOOLEAN
  BY DEF IInv, Typed, Machine
<1>2. m' \in Machine
  BY <1>1, EmuInitType
<1>3. calls' \in 0 .. MaxCalls
  BY CallType DEF IInv
<1>4. /\ Hooked(m') /\ m'.initialized
      /\ ~m.initialized => Restorable(m')
  BY <1>1, EmuInitSane DEF IInv
<1> QED
  BY <1>1, <1>2, <1>3, <1>4 DEF IInv, Typed, Sane

LEMMA ResetStep == IInv /\ CallReset => IInv'
<1> SUFFICES ASSUME IInv, NEW wipe \in BOOLEAN, Call("emu_reset", 0),
                    m' = IF m.initialized THEN EmuReset(m, wipe) ELSE m, UNCHANGED <<image, reinit>>
             PROVE  IInv'
  BY DEF CallReset
<1>1. m \in Machine /\ Hooked(m)
  BY DEF IInv, Typed, Sane
<1>2. calls' \in 0 .. MaxCalls
  BY CallType DEF IInv
<1>3. CASE m.initialized
  BY <1>1, <1>2, <1>3, EmuResetType, EmuResetSane, CarriedKeeps DEF Carried
<1>4. CASE ~m.initialized
  BY <1>2, <1>4, IdleKeeps
<1> QED
  BY <1>3, <1>4

LEMMA SetPartStep == IInv /\ CallSetPart => IInv'
<1> SUFFICES ASSUME IInv, m.initialized, NEW part \in Part, Call("emu_set_part", 0),
                    m' = ConfigurePart(m, part), reinit' = FALSE, UNCHANGED image
             PROVE  IInv'
  BY DEF CallSetPart
<1>1. m \in Machine
  BY DEF IInv, Typed
<1>2. calls' \in 0 .. MaxCalls
  BY CallType DEF IInv
<1>3. m' \in Machine
  BY <1>1, ConfigurePartType
<1>4. m'.initialized /\ Hooked(m') /\ Restorable(m')
  BY <1>1, ConfigurePartSane
<1> QED
  BY <1>2, <1>3, <1>4 DEF IInv, Typed, Sane

LEMMA SetFoscStep == IInv /\ CallSetFosc => IInv'
<1> SUFFICES ASSUME IInv, m.initialized, NEW hz \in Clocks, Call("emu_set_fosc", 0),
                    m' = SetFosc(m, hz), UNCHANGED <<image, reinit>>
             PROVE  IInv'
  BY DEF CallSetFosc
<1>1. m \in Machine
  BY DEF IInv, Typed
<1>2. calls' \in 0 .. MaxCalls
  BY CallType DEF IInv
<1> QED
  BY <1>1, <1>2, SetFoscType, SetFoscSane, CarriedKeeps

LEMMA LoadHexStep == IInv /\ CallLoadHex => IInv'
<1> SUFFICES ASSUME IInv, NEW file \in Files, NEW code, Call("emu_load_hex", code),
                    m' = IF m.initialized THEN Loaded(m, file) ELSE m, UNCHANGED <<image, reinit>>
             PROVE  IInv'
  BY DEF CallLoadHex
<1>1. m \in Machine
  BY DEF IInv, Typed
<1>2. calls' \in 0 .. MaxCalls
  BY CallType DEF IInv
<1>3. CASE m.initialized
  BY <1>1, <1>2, <1>3, LoadedType, LoadedSane, CarriedKeeps
<1>4. CASE ~m.initialized
  BY <1>2, <1>4, IdleKeeps
<1> QED
  BY <1>3, <1>4

LEMMA DbgStep == IInv /\ CallDbg => IInv'
<1> SUFFICES ASSUME IInv, CallDbg
             PROVE  IInv'
  OBVIOUS
<1>1. m \in Machine /\ m.initialized /\ Hooked(m) /\ UNCHANGED <<image, reinit>>
  BY DEF IInv, Typed, Sane, CallDbg
<1>2. calls' \in 0 .. MaxCalls
  BY CallType DEF IInv, CallDbg
<1>3. CASE m' = DbgReset(m)
  BY <1>1, <1>2, <1>3, DbgResetType, DbgResetSane, CarriedKeeps DEF Carried
<1>4. CASE m' = [m EXCEPT !.running = TRUE]
  BY <1>1, <1>2, <1>4, RunningSane, CarriedKeeps DEF Set
<1>5. CASE m' = [m EXCEPT !.bps = 1]
  BY <1>1, <1>2, <1>5, BreakpointSane, CarriedKeeps DEF Set
<1> QED
  BY <1>3, <1>4, <1>5 DEF CallDbg

LEMMA RegisterStep == IInv /\ CallRegister => IInv'
<1> SUFFICES ASSUME IInv, CallRegister
             PROVE  IInv'
  OBVIOUS
<1>1. m \in Machine /\ m.initialized /\ UNCHANGED <<image, reinit>>
  BY DEF IInv, Typed, CallRegister
<1>2. calls' \in 0 .. MaxCalls
  BY CallType DEF IInv, CallRegister
<1>3. CASE m' = [m EXCEPT !.board = TRUE]
  BY <1>1, <1>2, <1>3, BoardSane, CarriedKeeps DEF Set
<1>4. CASE m' = [m EXCEPT !.on_serial_tx = TRUE]
  BY <1>1, <1>2, <1>4, SerialSane, CarriedKeeps DEF Set
<1>5. CASE m' = [m EXCEPT !.on_halt = TRUE]
  BY <1>1, <1>2, <1>5, OnHaltSane, CarriedKeeps DEF Set
<1>6. CASE m' = [m EXCEPT !.pin_history = TRUE]
  BY <1>1, <1>2, <1>6, PinHistorySane, CarriedKeeps DEF Set
<1>7. CASE m' = [m EXCEPT !.idle_ff = ~@]
  BY <1>1, <1>2, <1>7, IdleFfSane, CarriedKeeps DEF Set
<1> QED
  BY <1>3, <1>4, <1>5, <1>6, <1>7 DEF CallRegister

LEMMA RunStep == IInv /\ CallRun => IInv'
<1> SUFFICES ASSUME IInv, m.initialized, NEW level \in 0 .. 1, Call("emu_run", 0),
                    m' = Run(m, level), UNCHANGED <<image, reinit>>
             PROVE  IInv'
  BY DEF CallRun
<1>1. m \in Machine
  BY DEF IInv, Typed
<1>2. calls' \in 0 .. MaxCalls
  BY CallType DEF IInv
<1> QED
  BY <1>1, <1>2, RunType, RunSane, CarriedKeeps

LEMMA SaveStep == IInv /\ CallSave => IInv'
<1> SUFFICES ASSUME IInv, NEW code, Call("emu_checkpoint_save", code),
                    image' = IF m.initialized THEN [of |-> m, reinit |-> reinit] ELSE image,
                    UNCHANGED <<m, reinit>>
             PROVE  IInv'
  BY DEF CallSave
<1>1. calls' \in 0 .. MaxCalls
  BY CallType DEF IInv
<1>2. image' \in [of : Machine, reinit : BOOLEAN]
  BY DEF IInv, Typed
<1>3. ~image'.reinit => Restorable(image'.of)
  BY DEF IInv
<1> QED
  BY <1>1, <1>2, <1>3 DEF IInv, Typed

LEMMA RestoreStep == IInv /\ CallRestore => IInv'
<1> SUFFICES ASSUME IInv, NEW damage \in Damage, image.of.initialized,
                    NEW code, code = DecodeCode(m, Bytes(image.of, damage), damage),
                    Call("emu_checkpoint_restore", code),
                    m' = Decoded(m, Bytes(image.of, damage), damage),
                    reinit' = IF code = 0 THEN image.reinit ELSE reinit, UNCHANGED image
             PROVE  IInv'
  BY DEF CallRestore
<1> DEFINE saved == Bytes(image.of, damage)
           t == Temporaries(m, saved)
<1>1. m \in Machine /\ image.of \in Machine /\ image.reinit \in BOOLEAN /\ reinit \in BOOLEAN
  BY DEF IInv, Typed
<1>2. calls' \in 0 .. MaxCalls
  BY CallType DEF IInv
<1>3. CASE code = 0
  <2>1. m.initialized /\ Valid(t)
    BY <1>1, <1>3 DEF DecodeCode, Damage, Machine
  <2>2. m' = Committed(t)
    BY <1>3 DEF Decoded
  <2>3. saved \in Machine /\ t \in Machine
    BY <1>1, BytesType, TemporariesType
  <2>4. t.initialized /\ t.scale = saved.scale /\ t.part_id = saved.part_id
    <3> HIDE DEF saved
    <3> QED
      BY <1>1, <2>1, <2>3, TemporariesKeep
  <2>5. saved.scale = image.of.scale /\ saved.part_id = image.of.part_id
    BY <1>1, BytesKeep
  <2> HIDE DEF t, saved
  <2>6. /\ m' \in Machine /\ m'.initialized /\ Hooked(m') /\ Valid(m')
        /\ Suited(t) => Suited(m')
    BY <2>1, <2>2, <2>3, <2>4, CommittedType, CommittedSane
  <2>7. image.of.initialized
    OBVIOUS
  <2>8. ~image.reinit => Suited(t)
    <3>1. ASSUME ~image.reinit
          PROVE  Suited(image.of)
      BY <3>1, <2>7 DEF IInv, Restorable
    <3> QED
      BY <3>1, <2>4, <2>5 DEF Suited
  <2> QED
    BY <1>1, <1>2, <1>3, <2>6, <2>8 DEF IInv, Typed, Sane, Restorable
<1>4. CASE code # 0
  <2>1. m' = m /\ reinit' = reinit
    BY <1>4 DEF Decoded
  <2> QED
    BY <1>2, <2>1, IdleKeeps
<1> QED
  BY <1>3, <1>4

LEMMA NextInv == IInv /\ [Next]_vars => IInv'
<1> SUFFICES ASSUME IInv, [Next]_vars PROVE IInv'
  OBVIOUS
<1>1. CASE UNCHANGED vars
  BY <1>1 DEF vars, IInv, Typed
<1> QED
  BY <1>1, InitStep, ResetStep, SetPartStep, SetFoscStep, LoadHexStep, DbgStep, RegisterStep,
     RunStep, SaveStep, RestoreStep DEF Next

LEMMA Invariance == Spec => []IInv
  BY InitInv, NextInv, PTL DEF Spec

-----------------------------------------------------------------------------
(* Type correctness: whatever the host calls in whatever order, the        *)
(* machine and the saved one are machines the code's structs can hold.     *)
THEOREM TypeCorrect == Spec => []TypeOK
<1>1. IInv => TypeOK
  BY DEF IInv, Typed, TypeOK
<1> QED
  BY <1>1, Invariance, PTL

(* P5 is hooked on an STC machine whose part has a P5 and on no other: no  *)
(* order of init, part, reset and restore leaves Timer 2's control         *)
(* register behind the port's callback, or the port without it.            *)
THEOREM P5Follows == Spec => []P5FollowsPart
<1>1. IInv => P5FollowsPart
  BY DEF IInv, Sane, Hooked, P5FollowsPart
<1> QED
  BY <1>1, Invariance, PTL

(* Every image emu_checkpoint_save writes passes emu_checkpoint_restore's  *)
(* validation, the images of the older build too, whatever machine it is   *)
(* restored on; second inits without a new part excepted.                  *)
THEOREM SavedRestorable == Spec => []SavedRestores
<1>1. IInv => SavedRestores
  <2> SUFFICES ASSUME IInv, image.of.initialized, ~image.reinit, NEW damage \in {"none", "old"}
               PROVE  Valid(Temporaries(m, Bytes(image.of, damage)))
    BY DEF SavedRestores
  <2> DEFINE saved == Bytes(image.of, damage)
             t == Temporaries(m, saved)
  <2>1. m \in Machine /\ image.of \in Machine /\ damage \in Damage
    BY DEF IInv, Typed, Damage
  <2>2. Valid(image.of)
    BY DEF IInv, Restorable
  <2>3. saved \in Machine
    BY <2>1, BytesType
  <2>4. /\ saved.stc12_mode = image.of.stc12_mode /\ saved.part_id = image.of.part_id
        /\ saved.scale = image.of.scale /\ SameClock(image.of, saved)
        /\ SameHistory(image.of, saved)
        /\ image.of.part_id # "STC89" => saved.skip_timers = image.of.skip_timers
    BY <2>1, BytesKeep
  <2> HIDE DEF saved
  <2>5. /\ t.stc12_mode = saved.stc12_mode /\ t.part_id = saved.part_id
        /\ t.scale = saved.scale /\ t.skip_timers = saved.skip_timers
        /\ SameClock(saved, t) /\ SameHistory(saved, t)
    BY <2>1, <2>3, TemporariesKeep
  <2> HIDE DEF t
  <2>6. Valid(t)
    BY <2>2, <2>4, <2>5 DEF Valid, SameClock, SameHistory
  <2> QED
    BY <2>6 DEF t, saved
<1> QED
  BY <1>1, Invariance, PTL

-----------------------------------------------------------------------------
(* A restore is the saved machine, field by field.  An older image of an   *)
(* STC89 says that core.c counts its timers; the restore says otherwise,   *)
(* and so did the machine: the timers of core.c stand still only on an STC *)
(* machine, which is an invariant of its own.                              *)
TimersFit(mm) == mm.skip_timers => mm.stc12_mode
TimersInv == IInv /\ TimersFit(m) /\ TimersFit(image.of)

LEMMA ExceptOther ==
  ASSUME NEW g, NEW a, NEW v, NEW f \in DOMAIN g, f # a
  PROVE  [g EXCEPT ![a] = v][f] = g[f] /\ DOMAIN [g EXCEPT ![a] = v] = DOMAIN g
  OBVIOUS

LEMMA TemporariesField ==
  ASSUME NEW mm, NEW saved, NEW f \in DOMAIN saved \ Callbacks, f # "hooks"
  PROVE  Temporaries(mm, saved)[f] = saved[f] /\ DOMAIN Temporaries(mm, saved) = DOMAIN saved
<1> DEFINE t1 == [saved EXCEPT !.initialized = mm.initialized]
           t2 == [t1 EXCEPT !.hooks = mm.hooks]
           t3 == [t2 EXCEPT !.board = mm.board]
           t4 == [t3 EXCEPT !.on_serial_tx = mm.on_serial_tx]
           t5 == [t4 EXCEPT !.on_halt = mm.on_halt]
<1>0. f \in DOMAIN saved /\ f \notin {"initialized", "hooks", "board", "on_serial_tx", "on_halt"}
  BY DEF Callbacks
<1>1. t1[f] = saved[f] /\ DOMAIN t1 = DOMAIN saved
  BY <1>0, ExceptOther
<1> HIDE DEF t1
<1>2. t2[f] = saved[f] /\ DOMAIN t2 = DOMAIN saved
  BY <1>0, <1>1, ExceptOther
<1> HIDE DEF t2
<1>3. t3[f] = saved[f] /\ DOMAIN t3 = DOMAIN saved
  BY <1>0, <1>2, ExceptOther
<1> HIDE DEF t3
<1>4. t4[f] = saved[f] /\ DOMAIN t4 = DOMAIN saved
  BY <1>0, <1>3, ExceptOther
<1> HIDE DEF t4
<1>5. t5[f] = saved[f] /\ DOMAIN t5 = DOMAIN saved
  BY <1>0, <1>4, ExceptOther
<1> HIDE DEF t5
<1> QED
  BY <1>5 DEF t1, t2, t3, t4, t5, Temporaries

LEMMA TemporariesCallbacks ==
  ASSUME NEW mm \in Machine, NEW saved \in Machine, NEW f \in Callbacks
  PROVE  Temporaries(mm, saved)[f] = mm[f]
<1> DEFINE t == Temporaries(mm, saved)
<1>1. t.initialized = mm.initialized /\ t.board = mm.board
  BY DEF Temporaries, Machine
<1>2. t.on_serial_tx = mm.on_serial_tx /\ t.on_halt = mm.on_halt
  BY DEF Temporaries, Machine
<1> HIDE DEF t
<1> QED
  BY <1>1, <1>2 DEF t, Callbacks

LEMMA BytesField ==
  ASSUME NEW saved, NEW damage, NEW f \in DOMAIN saved, f # "skip_timers"
  PROVE  Bytes(saved, damage)[f] = saved[f] /\ DOMAIN Bytes(saved, damage) = DOMAIN saved
<1>1. /\ [saved EXCEPT !.skip_timers = FALSE][f] = saved[f]
      /\ DOMAIN [saved EXCEPT !.skip_timers = FALSE] = DOMAIN saved
  BY ExceptOther
<1> QED
  BY <1>1 DEF Bytes

LEMMA CommittedField ==
  ASSUME NEW t, NEW f \in DOMAIN t, f \notin {"hooks", "skip_timers"}
  PROVE  Committed(t)[f] = t[f]
<1> DEFINE u == [t EXCEPT !.skip_timers = t.skip_timers \/ t.stc12_mode]
           hh == IF u.stc12_mode THEN StcInit([u EXCEPT !.hooks = {}]).hooks ELSE {}
           r == [u EXCEPT !.hooks = hh]
<1>1. u[f] = t[f] /\ DOMAIN u = DOMAIN t
  BY ExceptOther
<1>2. Committed(t) = r
  BY DEF Committed, Rebound
<1> HIDE DEF u, hh
<1>3. r[f] = u[f]
  BY <1>1, ExceptOther
<1> QED
  BY <1>1, <1>2, <1>3

LEMMA CommittedMakes ==
  ASSUME NEW t \in Machine
  PROVE  /\ Committed(t).hooks = IF t.stc12_mode THEN HooksOf(t.part_id) ELSE {}
         /\ Committed(t).skip_timers = (t.skip_timers \/ t.stc12_mode)
         /\ Committed(t).stc12_mode = t.stc12_mode
<1> DEFINE u == [t EXCEPT !.skip_timers = t.skip_timers \/ t.stc12_mode]
           bare == [u EXCEPT !.hooks = {}]
           hh == IF u.stc12_mode THEN StcInit(bare).hooks ELSE {}
           r == [u EXCEPT !.hooks = hh]
<1>1. u \in Machine
  BY DEF Machine
<1>2. /\ u.stc12_mode = t.stc12_mode /\ u.part_id = t.part_id
      /\ u.skip_timers = (t.skip_timers \/ t.stc12_mode)
  BY DEF Machine
<1>3. Committed(t) = r
  BY DEF Committed, Rebound
<1> HIDE DEF u
<1>4. bare \in Machine
  BY <1>1 DEF Machine
<1>5. bare.hooks = {} /\ bare.part_id = u.part_id
  BY <1>1 DEF Machine
<1> HIDE DEF bare
<1>6. hh = IF u.stc12_mode THEN HooksOf(u.part_id) ELSE {}
  BY <1>4, <1>5, StcInitMakes
<1> HIDE DEF hh
<1>7. r.hooks = hh /\ r.skip_timers = u.skip_timers /\ r.stc12_mode = u.stc12_mode
  BY <1>1 DEF Machine
<1> HIDE DEF r
<1> QED
  BY <1>2, <1>3, <1>6, <1>7

LEMMA RestoredRewound ==
  ASSUME NEW mm \in Machine, NEW then \in Machine, TimersFit(then), NEW damage \in Damage
  PROVE  Rewound(mm, Committed(Temporaries(mm, Bytes(then, damage))), then)
<1> DEFINE saved == Bytes(then, damage)
           t == Temporaries(mm, saved)
           now == Committed(t)
<1>1. saved \in Machine /\ t \in Machine
  BY BytesType, TemporariesType
<1>2. ASSUME NEW f \in DOMAIN then \ (Callbacks \cup {"hooks", "skip_timers"})
      PROVE  now[f] = then[f]
  <2>1. saved[f] = then[f] /\ f \in DOMAIN saved
    BY <1>2, BytesField
  <2> HIDE DEF saved
  <2>2. t[f] = saved[f] /\ f \in DOMAIN t
    BY <1>2, <2>1, TemporariesField
  <2> HIDE DEF t
  <2>3. now[f] = t[f]
    BY <1>2, <2>2, CommittedField
  <2> QED
    BY <2>1, <2>2, <2>3
<1>3. ASSUME NEW f \in Callbacks
      PROVE  now[f] = mm[f]
  <2> HIDE DEF saved
  <2>1. t[f] = mm[f]
    BY <1>1, <1>3, TemporariesCallbacks
  <2>2. f \in DOMAIN t /\ f \notin {"hooks", "skip_timers"}
    BY <1>1, <1>3 DEF Callbacks, Machine
  <2> HIDE DEF t
  <2>3. now[f] = t[f]
    BY <2>2, CommittedField
  <2> QED
    BY <2>1, <2>3
<1>4. saved.stc12_mode = then.stc12_mode /\ saved.part_id = then.part_id
  BY BytesKeep
<1>5. saved.skip_timers \/ then.stc12_mode <=> then.skip_timers \/ then.stc12_mode
  <2>1. [then EXCEPT !.skip_timers = FALSE].skip_timers = FALSE
    BY DEF Machine
  <2>2. saved.skip_timers = FALSE \/ saved.skip_timers = then.skip_timers
    BY <2>1 DEF Bytes
  <2> HIDE DEF saved
  <2> QED
    BY <2>2 DEF TimersFit
<1> HIDE DEF saved
<1>6. /\ t.stc12_mode = saved.stc12_mode /\ t.part_id = saved.part_id
      /\ t.skip_timers = saved.skip_timers
  BY <1>1, TemporariesKeep
<1> HIDE DEF t
<1>7. /\ now.hooks = IF t.stc12_mode THEN HooksOf(t.part_id) ELSE {}
      /\ now.skip_timers = (t.skip_timers \/ t.stc12_mode)
  BY <1>1, CommittedMakes
<1> HIDE DEF now
<1>8. now.hooks = IF then.stc12_mode THEN HooksOf(then.part_id) ELSE {}
  BY <1>4, <1>6, <1>7
<1>9. now.skip_timers = (then.skip_timers \/ then.stc12_mode)
  BY <1>4, <1>6, <1>7, <1>5
<1> QED
  BY <1>2, <1>3, <1>8, <1>9 DEF Rewound, now, t, saved

(* Each call leaves core.c's timers to an STC machine only.                *)
LEMMA TimersSame ==
  ASSUME NEW mm, NEW r, r.skip_timers = mm.skip_timers, r.stc12_mode = mm.stc12_mode, TimersFit(mm)
  PROVE  TimersFit(r)
  BY DEF TimersFit

LEMMA EmuInitTimers ==
  ASSUME NEW mm \in Machine, NEW stc12_mode \in BOOLEAN
  PROVE  TimersFit(EmuInit(mm, stc12_mode))
<1> DEFINE core == CoreReset(Emptied(mm), TRUE)
           scaled == [core EXCEPT !.scale = 1]
           timed == [scaled EXCEPT !.skip_timers = stc12_mode]
           inner == IF stc12_mode THEN StcInit(timed) ELSE timed
           r == EmuInit(mm, stc12_mode)
<1>1. core \in Machine
  BY EmptiedType, CoreResetType
<1> HIDE DEF core
<1>2. scaled \in Machine
  BY <1>1 DEF Machine
<1> HIDE DEF scaled
<1>3. timed \in Machine /\ timed.skip_timers = stc12_mode
  BY <1>2 DEF Machine
<1>4. r = [DbgInit(inner) EXCEPT !.initialized = TRUE]
  BY DEF EmuInit, core, scaled
<1> HIDE DEF timed
<1>5. inner \in Machine
  BY <1>3, StcInitType
<1>6. inner.stc12_mode = TRUE \/ inner.skip_timers = FALSE
  BY <1>3, StcInitMakes
<1> HIDE DEF inner, r
<1>7. r.stc12_mode = inner.stc12_mode /\ r.skip_timers = inner.skip_timers
  BY <1>4, <1>5 DEF DbgInit, Machine
<1> QED
  BY <1>6, <1>7 DEF TimersFit, r

LEMMA SkippingTimers ==
  ASSUME NEW mm \in Machine
  PROVE  [StcInit(mm) EXCEPT !.skip_timers = TRUE].stc12_mode = TRUE
<1> DEFINE init == StcInit(mm)
<1>1. init \in Machine /\ init.stc12_mode = TRUE
  BY StcInitType, StcInitMakes
<1> HIDE DEF init
<1>2. [init EXCEPT !.skip_timers = TRUE].stc12_mode = TRUE
  BY <1>1 DEF Machine
<1> QED
  BY <1>2 DEF init

LEMMA EmuResetTimers ==
  ASSUME NEW mm \in Machine, NEW wipe \in BOOLEAN, TimersFit(mm)
  PROVE  TimersFit(EmuReset(mm, wipe))
<1>1. CoreReset(mm, wipe) \in Machine
  BY CoreResetType
<1>2. CASE mm.stc12_mode
  BY <1>1, <1>2, SkippingTimers DEF EmuReset, TimersFit
<1>3. CASE ~mm.stc12_mode
  BY <1>3, CoreResetKeeps DEF EmuReset, TimersFit
<1> QED
  BY <1>2, <1>3

LEMMA DbgResetTimers ==
  ASSUME NEW mm \in Machine
  PROVE  TimersFit(DbgReset(mm))
<1> DEFINE init == StcInit(CoreReset(mm, FALSE))
           reset == [init EXCEPT !.skip_timers = TRUE]
<1>1. init \in Machine /\ init.stc12_mode = TRUE
  BY CoreResetType, StcInitType, StcInitMakes
<1>2. DbgReset(mm) = [reset EXCEPT !.running = FALSE]
  BY DEF DbgReset
<1> HIDE DEF init
<1>3. reset \in Machine /\ reset.stc12_mode = TRUE
  BY <1>1, SkippingType DEF Machine
<1> HIDE DEF reset
<1>4. [reset EXCEPT !.running = FALSE].stc12_mode = TRUE
  BY <1>3 DEF Machine
<1> QED
  BY <1>2, <1>4 DEF TimersFit

LEMMA ConfigurePartTimers ==
  ASSUME NEW mm \in Machine, NEW part \in Part
  PROVE  TimersFit(ConfigurePart(mm, part))
<1> DEFINE init == StcInit(SetPart(mm, part))
           r == [init EXCEPT !.skip_timers = TRUE, !.scale = IF part = "STC89" THEN 12 ELSE 1]
<1>1. init \in Machine /\ init.stc12_mode = TRUE
  BY SetPartType, StcInitType, StcInitMakes
<1>2. ConfigurePart(mm, part) = r
  BY DEF ConfigurePart
<1> HIDE DEF init
<1>3. r.stc12_mode = TRUE
  BY <1>1 DEF Machine
<1> QED
  BY <1>2, <1>3 DEF TimersFit

LEMMA SetFoscTimers ==
  ASSUME NEW mm \in Machine, NEW hz \in Clocks, TimersFit(mm)
  PROVE  TimersFit(SetFosc(mm, hz))
<1> DEFINE r == [mm EXCEPT !.fosc = hz, !.quantum = hz]
<1>1. r.skip_timers = mm.skip_timers /\ r.stc12_mode = mm.stc12_mode
  BY DEF Machine
<1>2. SetFosc(mm, hz) = mm \/ SetFosc(mm, hz) = r
  BY DEF SetFosc
<1> HIDE DEF r
<1> QED
  BY <1>1, <1>2 DEF TimersFit

LEMMA LoadedTimers ==
  ASSUME NEW mm \in Machine, NEW file \in Files, TimersFit(mm)
  PROVE  TimersFit(Loaded(mm, file))
<1>1. SameConfiguration(mm, Loaded(mm, file))
  BY DEF SameConfiguration, Loaded, Machine
<1> QED
  BY <1>1, TimersSame DEF SameConfiguration

LEMMA RunTimers ==
  ASSUME NEW mm \in Machine, NEW level \in 0 .. 1, TimersFit(mm)
  PROVE  TimersFit(Run(mm, level))
<1> DEFINE written == [mm EXCEPT !.latch = level]
           ran == Emitted(written)
           r == IF ran.stc12_mode THEN [ran EXCEPT !.osc_clocks = @ + 1] ELSE ran
<1>1. written \in Machine
  BY DEF Machine
<1>2. SameConfiguration(mm, written)
  BY DEF SameConfiguration, Machine
<1>3. Run(mm, level) = r
  BY DEF Run
<1> HIDE DEF written
<1>4. ran \in Machine /\ SameConfiguration(written, ran)
  BY <1>1, EmittedType, EmittedKeeps
<1> HIDE DEF ran
<1>5. SameConfiguration(ran, r)
  BY <1>4 DEF SameConfiguration, Machine
<1> HIDE DEF r
<1> QED
  BY <1>2, <1>3, <1>4, <1>5 DEF SameConfiguration, TimersFit

LEMMA DbgTimers == ASSUME TimersInv, CallDbg PROVE TimersFit(m')
<1>1. m \in Machine /\ TimersFit(m)
  BY DEF TimersInv, IInv, Typed
<1>2. CASE m' = DbgReset(m)
  BY <1>1, <1>2, DbgResetTimers
<1>3. CASE m' = [m EXCEPT !.running = TRUE]
  <2>1. m'.skip_timers = m.skip_timers /\ m'.stc12_mode = m.stc12_mode
    BY <1>1, <1>3 DEF Machine
  <2> QED
    BY <1>1, <2>1 DEF TimersFit
<1>4. CASE m' = [m EXCEPT !.bps = 1]
  <2>1. m'.skip_timers = m.skip_timers /\ m'.stc12_mode = m.stc12_mode
    BY <1>1, <1>4 DEF Machine
  <2> QED
    BY <1>1, <2>1 DEF TimersFit
<1> QED
  BY <1>2, <1>3, <1>4 DEF CallDbg

LEMMA RegisterTimers == ASSUME TimersInv, CallRegister PROVE TimersFit(m')
<1>1. m \in Machine /\ TimersFit(m)
  BY DEF TimersInv, IInv, Typed
<1>2. \/ m' = [m EXCEPT !.board = TRUE] \/ m' = [m EXCEPT !.on_serial_tx = TRUE]
      \/ m' = [m EXCEPT !.on_halt = TRUE] \/ m' = [m EXCEPT !.pin_history = TRUE]
      \/ m' = [m EXCEPT !.idle_ff = ~@]
  BY DEF CallRegister
<1>3. m'.skip_timers = m.skip_timers
  BY <1>1, <1>2 DEF Machine
<1>4. m'.stc12_mode = m.stc12_mode
  BY <1>1, <1>2 DEF Machine
<1> QED
  BY <1>1, <1>3, <1>4 DEF TimersFit

LEMMA RestoreTimers == ASSUME TimersInv, CallRestore PROVE TimersFit(m')
<1>1. m \in Machine /\ image.of \in Machine /\ TimersFit(m) /\ TimersFit(image.of)
  BY DEF TimersInv, IInv, Typed
<1>2. PICK damage \in Damage : m' = Decoded(m, Bytes(image.of, damage), damage)
  BY DEF CallRestore
<1> DEFINE saved == Bytes(image.of, damage)
           t == Temporaries(m, saved)
<1>3. Rewound(m, Committed(t), image.of)
  BY <1>1, RestoredRewound
<1>4. t \in Machine /\ t.stc12_mode = image.of.stc12_mode
  <2>1. saved \in Machine /\ saved.stc12_mode = image.of.stc12_mode
    BY <1>1, BytesType, BytesKeep
  <2> HIDE DEF saved
  <2> QED
    BY <1>1, <2>1, TemporariesType, TemporariesKeep
<1>5. m' = Committed(t) \/ m' = m
  BY <1>2 DEF Decoded
<1> HIDE DEF t
<1>6. TimersFit(Committed(t))
  BY <1>1, <1>3, <1>4, CommittedMakes DEF Rewound, TimersFit
<1> QED
  BY <1>1, <1>5, <1>6

LEMMA TimersInitially == Init => TimersInv
<1>1. TimersFit(Zeroed)
  BY DEF TimersFit, Zeroed
<1>2. Init => m = Zeroed /\ image.of = Zeroed
  BY DEF Init
<1> QED
  BY <1>1, <1>2, InitInv DEF TimersInv

LEMMA TimersNext == TimersInv /\ [Next]_vars => TimersInv'
<1> SUFFICES ASSUME TimersInv, [Next]_vars PROVE TimersInv'
  OBVIOUS
<1>1. IInv'
  BY NextInv DEF TimersInv
<1>2. m \in Machine /\ image.of \in Machine /\ TimersFit(m) /\ TimersFit(image.of)
  BY DEF TimersInv, IInv, Typed
<1>3. image' = image \/ image'.of = m
  BY DEF Next, vars, CallInit, CallReset, CallSetPart, CallSetFosc, CallLoadHex, CallDbg,
         CallRegister, CallRun, CallSave, CallRestore
<1>4. TimersFit(m')
  <2>1. CASE CallInit
    BY <1>2, <2>1, EmuInitTimers DEF CallInit
  <2>2. CASE CallReset
    BY <1>2, <2>2, EmuResetTimers DEF CallReset
  <2>3. CASE CallSetPart
    BY <1>2, <2>3, ConfigurePartTimers DEF CallSetPart
  <2>4. CASE CallSetFosc
    BY <1>2, <2>4, SetFoscTimers DEF CallSetFosc
  <2>5. CASE CallLoadHex
    BY <1>2, <2>5, LoadedTimers DEF CallLoadHex
  <2>6. CASE CallRun
    BY <1>2, <2>6, RunTimers DEF CallRun
  <2>7. CASE CallSave \/ UNCHANGED vars
    BY <1>2, <2>7 DEF CallSave, vars
  <2> QED
    BY <2>1, <2>2, <2>3, <2>4, <2>5, <2>6, <2>7, DbgTimers, RegisterTimers, RestoreTimers DEF Next
<1> QED
  BY <1>1, <1>2, <1>3, <1>4 DEF TimersInv

(* A restore refused leaves the machine as it was, and one accepted makes  *)
(* it the saved machine, all of it, with the host's callbacks of now, the  *)
(* hooks of its part and its timers counted once: checkpoint.c commits     *)
(* nothing before it has validated everything and forgets no field.        *)
THEOREM RestoreTheorem == Spec => RestoreRewinds
<1>1. TimersInv /\ [Next]_vars
      => [last'.call = "emu_checkpoint_restore" =>
            IF last'.code = 0 THEN Rewound(m, m', image.of) ELSE m' = m]_vars
  <2> SUFFICES ASSUME TimersInv, Next, last'.call = "emu_checkpoint_restore"
               PROVE  IF last'.code = 0 THEN Rewound(m, m', image.of) ELSE m' = m
    OBVIOUS
  <2>1. CallRestore
    BY DEF Next, Call, CallInit, CallReset, CallSetPart, CallSetFosc, CallLoadHex, CallDbg,
           CallRegister, CallRun, CallSave
  <2>2. m \in Machine /\ image.of \in Machine /\ TimersFit(image.of)
    BY DEF TimersInv, IInv, Typed
  <2>3. PICK damage \in Damage :
          /\ last'.code = DecodeCode(m, Bytes(image.of, damage), damage)
          /\ m' = Decoded(m, Bytes(image.of, damage), damage)
    BY <2>1 DEF CallRestore, Call
  <2> QED
    BY <2>2, <2>3, RestoredRewound DEF Decoded
<1>2. Spec => []TimersInv
  BY TimersInitially, TimersNext, PTL DEF Spec
<1> QED
  BY <1>1, <1>2, PTL DEF Spec, RestoreRewinds
=============================================================================
