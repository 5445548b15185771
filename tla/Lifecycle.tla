----------------------------- MODULE Lifecycle ------------------------------
(***************************************************************************)
(* The calls that make, change and replace a machine, in any order: init,  *)
(* reset, part, clock, firmware image, debugger reset, checkpoint save and *)
(* restore, between runs of the firmware.  The parts share one machine and *)
(* one table of SFR callbacks, and each call rewrites some of it.          *)
(*                                                                         *)
(* m is struct em8051, stc12_state and dbg_target together.  Of memory it  *)
(* keeps which blocks of the firmware image are there, of the ports one    *)
(* latch, of the callback tables which groups of SFRs are hooked.          *)
(***************************************************************************)
EXTENDS Integers, Sequences

CONSTANTS
  Clocks,      \* crystal frequencies a host sets, 0 for one it must not
  DefaultFosc, \* 11.0592 MHz
  Files,       \* HEX files, each a sequence of [type, block]
  MaxCalls,    \* bound on the host's calls
  MaxEvents    \* bound on clocks of an STC machine

ASSUME LifecycleAssumption ==
  /\ DefaultFosc \in Clocks \ {0}
  /\ MaxCalls \in Nat /\ MaxEvents \in Nat

Part == {"STC12", "STC15", "STC89", "STC15W", "STC12_16"}
WithP5 == {"STC15", "STC15W"}
Hook == {"ports", "p5", "stc", "sbuf"}

VARIABLES
  m,       \* the machine
  image,   \* [of, reinit]: the machine last saved, and reinit as it was then
  last,    \* [call, code]: the last call and what it returned
  reinit,  \* history: emu_init was called again since the part was set
  calls    \* calls so far

vars == <<m, image, last, reinit, calls>>

(* Static storage before the first emu_init.                               *)
Zeroed == [initialized |-> FALSE, code |-> {}, pof |-> FALSE, latch |-> 0, scale |-> 0,
           skip_timers |-> FALSE, hooks |-> {}, stc12_mode |-> FALSE, part_id |-> "STC12",
           fosc |-> 0, quantum |-> 0, osc_clocks |-> 0, shadow |-> 0,
           board |-> FALSE, on_serial_tx |-> FALSE, pin_history |-> FALSE, events |-> 0,
           running |-> FALSE, bps |-> 0, on_halt |-> FALSE, idle_ff |-> TRUE]

-----------------------------------------------------------------------------
(* core.c's reset: SFRs to their power-on values, memory too if wiped.     *)
CoreReset(mm, wipe) ==
  [mm EXCEPT !.code = IF wipe THEN {} ELSE @, !.latch = 1, !.pof = wipe]

HooksOf(part) ==
  {"ports", "sbuf"} \cup (IF part \in WithP5 THEN {"p5"} ELSE {})
                    \cup (IF part # "STC89" THEN {"stc"} ELSE {})

(* stc12_init: the state afresh but for the board's callbacks, the part    *)
(* and the pin history; hooks are added, none is removed.                  *)
StcInit(mm) ==
  [mm EXCEPT !.stc12_mode = TRUE, !.fosc = DefaultFosc, !.quantum = DefaultFosc,
             !.osc_clocks = 0, !.shadow = 1, !.on_serial_tx = FALSE, !.events = 0,
             !.hooks = @ \cup HooksOf(mm.part_id)]

(* Mutant: P5 stays hooked on a part without one.                          *)
SetPartKeepsP5(mm, part) ==
  [mm EXCEPT !.part_id = part, !.hooks = IF part \in WithP5 THEN @ \cup {"p5"} ELSE @]
SetPart(mm, part) ==
  [mm EXCEPT !.part_id = part, !.hooks = IF part \in WithP5 THEN @ \cup {"p5"} ELSE @ \ {"p5"}]

ConfigurePart(mm, part) ==
  [StcInit(SetPart(mm, part)) EXCEPT !.skip_timers = TRUE,
                                     !.scale = IF part = "STC89" THEN 12 ELSE 1]

DbgInit(mm) == [mm EXCEPT !.running = FALSE, !.bps = 0, !.on_halt = FALSE]

Emptied(mm) == IF mm.initialized THEN mm ELSE [mm EXCEPT !.hooks = {}]

EmuInit(mm, stc12_mode) ==
  LET core == [CoreReset(Emptied(mm), TRUE) EXCEPT !.scale = 1, !.skip_timers = stc12_mode]
  IN  [DbgInit(IF stc12_mode THEN StcInit(core) ELSE core) EXCEPT !.initialized = TRUE]

EmuReset(mm, wipe) ==
  IF mm.stc12_mode THEN [StcInit(CoreReset(mm, wipe)) EXCEPT !.skip_timers = TRUE]
                   ELSE CoreReset(mm, wipe)

DbgReset(mm) == [StcInit(CoreReset(mm, FALSE)) EXCEPT !.skip_timers = TRUE, !.running = FALSE]

(* Mutant: the quantum is left at the old crystal's.                       *)
SetFoscOnly(mm, hz) == [mm EXCEPT !.fosc = hz]
SetFosc(mm, hz) == IF hz = 0 THEN mm ELSE [mm EXCEPT !.fosc = hz, !.quantum = hz]

(* A HEX file is stored record by record up to its end or first bad one.   *)
LoadEnd(file) ==
  LET stops == {i \in DOMAIN file : file[i].type \notin {"data", "extended"}}
  IN  IF stops = {} THEN Len(file) + 1 ELSE CHOOSE i \in stops : \A j \in stops : i <= j
LoadCode(file) ==
  IF LoadEnd(file) > Len(file) THEN 0
  ELSE CASE file[LoadEnd(file)].type = "eof" -> 0
         [] file[LoadEnd(file)].type = "cut" -> -2
         [] file[LoadEnd(file)].type = "other" -> -3
         [] file[LoadEnd(file)].type = "beyond" -> -4
Loaded(mm, file) ==
  LET stored == {i \in DOMAIN file : i < LoadEnd(file) /\ file[i].type = "data"}
  IN  [mm EXCEPT !.code = @ \cup {file[i].block : i \in stored}]

(* A clock in which the firmware writes a level to the port: the board is  *)
(* told, and the history records it, if the port is hooked.                *)
Emitted(mm) ==
  IF "ports" \in mm.hooks /\ (mm.board \/ mm.pin_history) /\ mm.latch # mm.shadow
  THEN [mm EXCEPT !.shadow = mm.latch, !.events = IF mm.pin_history THEN @ + 1 ELSE @]
  ELSE mm
Run(mm, level) ==
  LET ran == Emitted([mm EXCEPT !.latch = level])
  IN  IF ran.stc12_mode THEN [ran EXCEPT !.osc_clocks = @ + 1] ELSE ran

-----------------------------------------------------------------------------
(* Checkpoints.  The image is the whole machine but for the callbacks,     *)
(* which belong to the host: decode reads it into copies of the three      *)
(* structs, which keep those.                                              *)

(* Mutant: a field joined the state and not the codec.                     *)
TemporariesBefore(mm, saved) ==
  [saved EXCEPT !.initialized = mm.initialized, !.hooks = mm.hooks, !.board = mm.board,
                !.on_serial_tx = mm.on_serial_tx, !.on_halt = mm.on_halt, !.shadow = mm.shadow]
Temporaries(mm, saved) ==
  [saved EXCEPT !.initialized = mm.initialized, !.hooks = mm.hooks, !.board = mm.board,
                !.on_serial_tx = mm.on_serial_tx, !.on_halt = mm.on_halt]

Valid(t) ==
  /\ t.scale \in {1, 12}
  /\ t.part_id \in Part
  /\ t.stc12_mode => /\ t.fosc # 0 /\ t.quantum = t.fosc
                     /\ t.part_id = "STC89" => t.scale = 12
                     /\ t.part_id # "STC89" => t.scale = 1 /\ t.skip_timers
  /\ ~t.pin_history => t.events = 0

(* stc12_rebind_callbacks: the tables afresh, by way of stc12_init, whose  *)
(* effect on the SFRs and the state is undone.                             *)
Rebound(t) ==
  [t EXCEPT !.hooks = IF t.stc12_mode THEN StcInit([t EXCEPT !.hooks = {}]).hooks ELSE {}]

(* Mutants: the tables rebuilt in place; without clearing them first.      *)
CommittedInPlace(t) == StcInit([t EXCEPT !.hooks = {}, !.skip_timers = t.skip_timers \/ t.stc12_mode])
Committed(t) == Rebound([t EXCEPT !.skip_timers = t.skip_timers \/ t.stc12_mode])

(* What may become of the bytes, or of the host, before they are decoded:  *)
(* another length, build or checksum, a value no machine has, no memory    *)
(* left; or they were written when core.c still counted the STC89's timers. *)
Damage == {"none", "length", "bits", "build", "field", "memory", "old"}
Bytes(saved, damage) ==
  IF damage = "old" /\ saved.part_id = "STC89" THEN [saved EXCEPT !.skip_timers = FALSE] ELSE saved

DecodeCode(mm, saved, damage) ==
  CASE ~mm.initialized -> -1
    [] mm.initialized /\ damage = "length" -> -3
    [] mm.initialized /\ damage = "bits" -> -4
    [] mm.initialized /\ damage = "build" -> -6
    [] mm.initialized /\ damage = "memory" -> -8
    [] mm.initialized /\ damage = "field" -> -7
    [] mm.initialized /\ damage \in {"none", "old"} -> IF Valid(Temporaries(mm, saved)) THEN 0 ELSE -7

(* Mutant: the core's part is committed before the rest is checked.        *)
DecodedEarly(mm, saved, damage) ==
  IF DecodeCode(mm, saved, damage) = 0 THEN Committed(Temporaries(mm, saved))
  ELSE IF damage = "field" THEN [mm EXCEPT !.code = saved.code] ELSE mm
Decoded(mm, saved, damage) ==
  IF DecodeCode(mm, saved, damage) = 0 THEN Committed(Temporaries(mm, saved)) ELSE mm

-----------------------------------------------------------------------------
Init == /\ m = Zeroed
        /\ image = [of |-> Zeroed, reinit |-> FALSE]
        /\ last = [call |-> "none", code |-> 0]
        /\ reinit = FALSE
        /\ calls = 0

Call(name, code) == /\ calls < MaxCalls
                    /\ calls' = calls + 1
                    /\ last' = [call |-> name, code |-> code]

CallInit == \E stc12_mode \in BOOLEAN :
  /\ Call("emu_init", 0)
  /\ m' = EmuInit(m, stc12_mode)
  /\ reinit' = m.initialized
  /\ UNCHANGED image
CallReset == \E wipe \in BOOLEAN :
  /\ Call("emu_reset", 0)
  /\ m' = IF m.initialized THEN EmuReset(m, wipe) ELSE m
  /\ UNCHANGED <<image, reinit>>
(* API.md: after init.                                                     *)
CallSetPart == \E part \in Part :
  /\ m.initialized
  /\ Call("emu_set_part", 0)
  /\ m' = ConfigurePart(m, part)
  /\ reinit' = FALSE
  /\ UNCHANGED image
CallSetFosc == \E hz \in Clocks :
  /\ m.initialized
  /\ Call("emu_set_fosc", 0)
  /\ m' = SetFosc(m, hz)
  /\ UNCHANGED <<image, reinit>>
CallLoadHex == \E file \in Files :
  /\ Call("emu_load_hex", IF m.initialized THEN LoadCode(file) ELSE -1)
  /\ m' = IF m.initialized THEN Loaded(m, file) ELSE m
  /\ UNCHANGED <<image, reinit>>
CallDbg ==
  /\ m.initialized
  /\ \/ Call("emu_dbg_reset", 0) /\ m' = DbgReset(m)
     \/ Call("emu_dbg_run", 0) /\ m' = [m EXCEPT !.running = TRUE]
     \/ Call("emu_dbg_set_bp_code", 0) /\ m.bps = 0 /\ m' = [m EXCEPT !.bps = 1]
  /\ UNCHANGED <<image, reinit>>
(* What the host hooks in, and the switches.                               *)
CallRegister ==
  /\ m.initialized
  /\ \/ Call("emu_set_board_callbacks", 0) /\ m' = [m EXCEPT !.board = TRUE]
     \/ Call("emu_set_serial_callback", 0) /\ m' = [m EXCEPT !.on_serial_tx = TRUE]
     \/ Call("emu_dbg_set_on_halt", 0) /\ m' = [m EXCEPT !.on_halt = TRUE]
     \/ Call("emu_pin_history_enable", 0) /\ m' = [m EXCEPT !.pin_history = TRUE]
     \/ Call("emu_set_idle_fastforward", 0) /\ m' = [m EXCEPT !.idle_ff = ~@]
  /\ UNCHANGED <<image, reinit>>
CallRun == \E level \in 0 .. 1 :
  /\ m.initialized
  /\ m.osc_clocks < MaxEvents
  /\ Call("emu_run", 0)
  /\ m' = Run(m, level)
  /\ UNCHANGED <<image, reinit>>
CallSave ==
  /\ Call("emu_checkpoint_save", IF m.initialized THEN 0 ELSE -1)
  /\ image' = IF m.initialized THEN [of |-> m, reinit |-> reinit] ELSE image
  /\ UNCHANGED <<m, reinit>>
CallRestore == \E damage \in Damage :
  LET saved == Bytes(image.of, damage)
  IN  /\ image.of.initialized
      /\ Call("emu_checkpoint_restore", DecodeCode(m, saved, damage))
      /\ m' = Decoded(m, saved, damage)
      /\ reinit' = IF DecodeCode(m, saved, damage) = 0 THEN image.reinit ELSE reinit
      /\ UNCHANGED image

Next == \/ CallInit \/ CallReset \/ CallSetPart \/ CallSetFosc \/ CallLoadHex \/ CallDbg
        \/ CallRegister \/ CallRun \/ CallSave \/ CallRestore

Spec == Init /\ [][Next]_vars

-----------------------------------------------------------------------------
AnyBlock == UNION {{f[i].block : i \in DOMAIN f} : f \in Files}
Machine == [
  initialized : BOOLEAN, code : SUBSET AnyBlock,
  pof : BOOLEAN, latch : 0 .. 1, scale : {0, 1, 12}, skip_timers : BOOLEAN, hooks : SUBSET Hook,
  stc12_mode : BOOLEAN, part_id : Part, fosc : Clocks \cup {0}, quantum : Clocks \cup {0},
  osc_clocks : Nat, shadow : 0 .. 1, board : BOOLEAN, on_serial_tx : BOOLEAN,
  pin_history : BOOLEAN, events : Nat, running : BOOLEAN, bps : 0 .. 1, on_halt : BOOLEAN,
  idle_ff : BOOLEAN]

TypeOK == /\ m \in Machine
          /\ image \in [of : Machine, reinit : BOOLEAN]
          /\ reinit \in BOOLEAN
          /\ calls \in 0 .. MaxCalls

(* P5's address is Timer 2's control register on the parts without P5      *)
(* (stc12.c:965-967): whatever machine was there before, the one that runs *)
(* has P5 hooked exactly if its part has a P5 and it is an STC machine.    *)
P5FollowsPart == "p5" \in m.hooks <=> m.stc12_mode /\ m.part_id \in WithP5

(* What emu_checkpoint_save wrote, emu_checkpoint_restore takes: no order  *)
(* of the calls leaves a machine its validation refuses.  The exception is *)
(* a second emu_init after which the part was not set again: it keeps the  *)
(* part and the STC mode but not their clock scale and timers.             *)
SavedRestores ==
  image.of.initialized /\ ~image.reinit =>
    \A damage \in {"none", "old"} : Valid(Temporaries(m, Bytes(image.of, damage)))

(* A restore is all or nothing: refused it changes nothing, and otherwise  *)
(* the machine is the saved one, with the host's callbacks of now, the     *)
(* hooks of its own part and no other, and Timers 0 and 1 counted once.    *)
Callbacks == {"board", "on_serial_tx", "on_halt", "initialized"}
Rewound(mm, now, then) ==
  /\ \A f \in DOMAIN then \ (Callbacks \cup {"hooks", "skip_timers"}) : now[f] = then[f]
  /\ \A f \in Callbacks : now[f] = mm[f]
  /\ now.hooks = IF then.stc12_mode THEN HooksOf(then.part_id) ELSE {}
  /\ now.skip_timers = (then.skip_timers \/ then.stc12_mode)
RestoreRewinds ==
  [][last'.call = "emu_checkpoint_restore" =>
       IF last'.code = 0 THEN Rewound(m, m', image.of) ELSE m' = m]_vars
=============================================================================
