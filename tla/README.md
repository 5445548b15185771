# Specifications of emu8051-stc

TLA+ modules that model the core logic of this 8051/STC emulator, the
configurations under which TLC checks them, and proofs that TLAPS checks.
`PROJECT.json` is the index: which module stands for which part, which run
checks which property, which lines of the source each definition translates.

## 1. The system

The emulator is single-threaded C driven by a host (WebAssembly, a debugger, a
test). One oscillator clock is one call of `tick(cpu)` followed by one of
`stc12_tick(cpu, stc)`; the concurrency is that of the machine emulated: a
firmware, the peripherals and the host meet in the special function registers
between any two clocks.

| Component | State | Operations | What is hard |
|---|---|---|---|
| Core clock and interrupts (`core.c`) | PC, SFRs, `mTickDelay`, `mInterruptActive`, saved registers per level | `tick`, `handle_interrupts`, `reset` | levels that nest while IP changes; several requests at once; idle and power-down; the 12T countdown |
| Opcodes (`opcodes.c`) and disassembler (`disasm.c`) | registers, four memories, port latches | 256 handlers reached by two dispatchers, each returns 0, 2 or 4; a table of texts and lengths | stack beside SFRs, flags and pages at their edges, latch or pins, stores behind a callback |
| UART1 (`stc12.c`) | SBUF, SCON, a ring of 64 bytes, `rx_next_clock` | host byte, delivery, firmware reads and writes | a byte arriving between two statements of the firmware; SBUF shared by both directions |
| Idle fast-forward (`stc12.c`) | `osc_clocks`, Timer 0 | `stc12_advance_to`, `stc12_idle_skip_clocks` | jumping over something that was about to happen; rounding of nanoseconds |
| Timers 0/1, BRT, Timer 2 (`stc12.c`) | counters, prescalers | one tick a clock | mode 3, prescaler phases, reloads, overflow |
| PCA, ADC, watchdog, SPI, UART2, DPTR (`stc12.c`) | their SFRs and hidden counters | one tick a clock, SFR write hooks | stale latches, widths of counters, duties and channels rewritten under way |
| Ports (`stc12.c`) | latch, mode, outside level, shadow | read and write callbacks | a pin moved without the board being told |
| Configuration (`stc12.c`, `wasm_api.c`) | part, clock scale, callback tables | `emu_init`, `emu_reset`, `emu_set_part` | calls in an order nobody tests |
| Debugger (`debug.c`) | run state, breakpoints, watch shadows, step kind | `dbg_run`, `dbg_halt`, `dbg_step`, `dbg_tick` | stale shadows, steps across interrupts |
| Checkpoints (`checkpoint.c`) | an image of all of it | encode, decode | all or nothing on a bad image; callbacks that belong to the host |
| STC flasher (`stc-flash/`) | a session over a serial line | handshake, erase, write | lost, garbled and repeated replies; a silent boot ROM |
| GDB stub (`gdb-stub.mjs`) | socket buffer | packets | split packets, breakpoints that stay |
| Front end, bridge, traces, tools | screens, files | | formatting and I/O |

Interactions: opcodes write SFRs that the peripherals read on the same clock;
peripherals raise request bits that `handle_interrupts` polls on the next
instruction boundary; a vector clears PCON.IDL and some requests; the host
injects bytes, resets the machine and advances time; the debugger wraps the
same two ticks; `stc12_advance_to` replaces them by a jump when it believes
that nothing but Timer 0 can happen.

The host meanwhile may configure, reset, save and restore the machine between
any two runs of it. What makes each part correct is stated as the properties of
section 3; the hazards they answer to are in `PROJECT.json`, each at its line.

## 2. The modules

### Interrupts

`tick()`, `handle_interrupts()`, RETI and the warm reset, with a firmware of any
shape around them. The firmware is not a program: it is every sequence of
instructions that balances its stack (RET only inside a subroutine, RETI only
at the top level of a service routine), chosen step by step. A program point is
a record: the routine, and how many calls deep in it; a stack entry is one
program point for the two bytes pushed.

| Code | Model |
|---|---|
| `mTickDelay`, `mMachineCycleScale` | `delay`, `scale` |
| IE, IP, TCON and CCON flags, `serial_interrupt_trigger` | `ea`, `ie`, `ip`, `flag` as sets of sources; the PCA's ECCFn bits are its member of `ie` |
| PCON.0, PCON.1 | `idl`, `pd` |
| `mInterruptActive` | `active` |
| SP and the stack in internal RAM | `stack` |
| `int_sp[2]` | `int_sp` |
| the six `if`s of the polling chain | `Consider`, folded in `Poll` |
| one call of `tick()` | `Countdown`, `PowerDownTick`, `TakeInterrupt`, `IdleTick`, or one opcode of `Firmware` |
| `stc12_tick()` raising a request | `Raise` |
| `reset(cpu, false)` | `Reset` |

`nest` is a history variable: the service routines entered and not left. RETI's
comparison of ACC and PSW is left out, as a firmware restores both; its
comparison of SP is `mismatch`. Parity, timers and memory are not part of it.

### Uart and ByteStream

UART1 between a host that sends numbered bytes and a firmware of one of four
kinds: polling or interrupt-driven, reading SBUF before or after it clears RI.
Each statement of the firmware is an action, with clocks and host bytes in
between. `gap` is `rx_next_clock - osc_clocks` cut off at 0, which is all the
code asks of the two. The firmware transmits when it likes: `WriteSBUF` stores into
SBUF whatever RI is, as `sfr_write_sbuf` does, and the history `overwritten` keeps
the unread bytes this costs. `ByteStream` is what such a port promises its two ends, a
lossy first-in first-out stream in which a transmission may cost the oldest byte
(`Overwrite`); `Uart` implements it with SBUF and the ring as the pending bytes
(`Pending`).

### IdleSkip

Two machines run the same firmware through the same slices, `slow` with the
fast-forward switched off and `fast` with it on: the differential test of
`test_idle_fastforward.c`, over every cut of the slices. A machine is a record,
since both execute the same code: `CoreTick` is `tick()`, `RxTick`, `T0Tick` and
`T1Tick` the parts of `stc12_tick()`, `Skippable` and `SkipTicks` the function
`stc12_idle_skip_clocks`. Absolute time is not kept: `left` and `frac` are the
time left to the target and the fixed-point remainder of `osc_clocks *
ns_per_clock_x256`, so the state space is finite with no bound on the clocks.
Timer 0 has one width at a time, and `reload` is 0 in mode 1 and TH0 in mode 2.
Guards of the skip whose peripheral the model does not have (BRT, PCA, ADC,
watchdog, clock outputs, the STC89) are left out: under them the function
returns 0 and the two machines are the same.

### Debugger

`debug.c` over the part of a core that a debugger sees: program counter, stack
pointer, one watched byte, which is also the state of the one task the symbols
may name. The core runs any firmware that balances its stack (`Opcode`): where
an opcode leads, what it stores, whether it calls, pushes or returns, and when an
interrupt comes are all open. `Inside` is a clock on which `tick()` returns false.

| Code | Model |
|---|---|
| `dbg_tick` after `tick` and `stc12_tick` | `DbgTick`: `CycleTick`, or `HitTick` for the first slot hit, or `StepTick` |
| `bps[]`, `watch_shadow[]`, `next_bp_id` | `bps`, a record for each slot, `next_bp_id` |
| `step_kind`, `step_count`, `step_entry_sp`, `step_task_state` | the same |
| `dbg_run`, `dbg_halt`, `dbg_step`, `dbg_reset` | `DbgRun`, `DbgHalt`, `DbgStep`, `DbgReset` |
| `dbg_set_breakpoint`, `dbg_clear_breakpoint`, `dbg_write_mem` | `SetBreakpoint`, `ClearBreakpoint`, `WriteMem` |
| `emu_dbg_set_task` | `SetTask` |
| `emu_tick`, `emu_run` on a halted target | `EmuTick` |

`frames` is what the core's stack means, the stack pointer at each call and
interrupt under way; the code sees only SP. Two history variables carry what the
properties compare with: `limit`, the depth at which the step last asked for may
end at most, and `touched`, the slots whose byte has moved since shadow and byte
agreed. A yield breakpoint is a code breakpoint to `dbg_tick`; STEP_LINE is
refused by the API and left out.

### Disasm and Opcodes

`Disasm` is the table of `disasm.c`: mnemonic, operands and length of every
opcode. `Opcodes` has the data side of every handler of `opcodes.c`, on one
machine record `m`, with `Handle` split by row of the opcode map as the source is.
Each opcode is run by both ways the code has to reach a handler, the table `OpPtr`
that `op_setptrs` fills and `DoOp`, `do_op` with its `Switch`: each is translated
from its own text, and `DispatchersAgree` proves them equal.

| Code | Model |
|---|---|
| `mSFR`, `mLowerData`, `mUpperData`, `mExtData` | `m.sfr`, `m.low`, `m.up`, `m.xdata`: functions over the bytes written, all others 0 |
| `read_mem`, `write_mem`, `read_mem_indir`, `write_mem_indir` | `ReadMem`, `WriteMem`, `ReadIndir`, `WriteIndir` |
| `sfrread`, `sfrwrite` of the ports, `emit_pin_changes` | `PortRead`, `SfrWritten`, `EmitPinChanges`; `m.shadow` is the code's shadow, `m.board` what the callbacks have told |
| handlers that read `mSFR` and not the pins | `Latch`, `LatchBit`, `PutBit` |
| `push_to_stack`, `pop_from_stack` | `Push`, `Pop`; an exception is a member of `m.raised` |
| `add_solve_flags`, `sub_solve_flags` | `AddFlags`, `SubFlags`, with the code's masks |
| the return of a handler and parity in `tick()` | `Goes`, `Ends`, `Branches` |

Code memory is left open: the k-th instruction is any of `Menu[k]`. The ports are
the six the STC15 hooks. Interrupts are `Interrupts`' matter, so RETI is RET here.
`frames` is a history of the calls whose two stack bytes no later instruction
names as a destination. Which handlers read the pins where the manual says latch
(ORL, ANL and XRL of an immediate, INC, DEC and DJNZ of a direct address, ORL
direct,A) is as in the code.

### Peripherals

One call of `stc12_tick`, UART1 apart, is `Clocked`: Timer 0, Timer 1, BRT, clock
outputs, ADC, PCA, watchdog, in the code's order, or on the STC89 the two timers
and Timer 2. `c` is `struct stc12_state` with the registers decoded to their
fields; `Written` is what the SFR write callbacks do; `SetPortInput`,
`SetAdcInput` and `Serial2Rx` are the board's and the host's calls. A firmware is
the set of writes its setup allows, at any clock. Of an analog input its count is
kept, of a port the latches of the pins a peripheral drives. GATE stops a timer
outright, as the code has no INT pin to gate it by. The STC15W takes the STC12's
paths. The histories `anchor` and `age` hold the machine at the last write and the
clocks since, `pulse` the PWM period under way, `asked` the last START of the ADC
and `fed` the clocks since the watchdog was cleared.

### Lifecycle

The API's calls on one machine record, in any order: `emu_init`, `emu_reset`,
`emu_set_part`, `emu_set_fosc`, `emu_load_hex`, `emu_dbg_reset`, registration of
callbacks, a run of one clock, `emu_checkpoint_save` and `emu_checkpoint_restore`.
`StcInit`, `CoreReset`, `ConfigurePart`, `Rebound` and the others are the C
functions they are named for, as functions of the record, so that one that calls
another applies it. `hooks` says which groups of entries of the two callback tables
are set. A checkpoint is the machine it was taken of; `Bytes` is what has become of
it (`Damage`: another length, build, checksum, a field no machine has, no memory
left, or an STC89's image from before its timers moved), `Temporaries` what decode
reads it into, `Valid` its validation, `Committed` the replacement. `reinit` is a
history: `emu_init` was called again and the part not set since. `emu_set_part` and
the registrations are called after init only, as `API.md` asks.

### StcFlash

`flashStc12` against the boot ROM of the mock it is tested with. A packet to the
host is four items that `readPacket` reads in turn (two start bytes, the direction,
and the rest under its length and checksum); a packet to the boot ROM, which acts
on whole ones, is one message. The line loses a message or an item, and garbles both:
an item becomes noise, which `readPacket` refuses by its checksum; a command becomes
another, a write of anything anywhere (`Stray`), or nothing (`Damaged`), since the
mock looks at neither checksum nor end byte (`parseHostPacket`). `doubt` is a history:
the addresses a garbled write was for or went to. A command the boot ROM does not take
in its state makes the mock throw out of the host's read (`Refused`). `transport` is `"timed"`, a read that gives up, or `"serial"`,
`serialTransport`, which looks at its deadline only between two chunks. `again`
is a boot ROM that greets at each pulse, which the mock does not: the code's own
retry of the greeting is for one. `Used`, `Base`, `Written` and `ValueAt` are
`parseIntelHex` as a definition: records up to the end record, addresses from the
last segment or linear record before, the last record that writes an address counts.

## 3. The runs

| Run | Result | What it shows |
|---|---|---|
| `interrupts` | passes | three sources, two sets of priorities, calls one deep, 1T and a scale of 2, opcodes returning 0 and 2 |
| `uart` | passes | a ring of 2, a character time of 2 clocks, 5 bytes from the host, 2 from the firmware, four kinds of firmware |
| `idle_skip` | passes | four main loops, Timer 0 in 1T and 12T, armed and not, slices shorter and longer than an idle period |
| `debugger` | passes | two slots, code and write breakpoints, steps of one and two, calls and interrupts over a stack of 3 bytes, two handles |
| `opcodes` | passes | a scene, any of the 256 opcodes, and an instruction that shows what is left, from four starts at the edges of pages, stack and flags |
| `peripherals` | passes | every timer mode, PCA source and watchdog prescaler, from every prescaler phase, with one to three writes at any clock |
| `lifecycle` | passes | six calls in any order, five parts, two crystals, five files |
| `flash` | passes | four files, both transports, three kinds of boot ROM, two faults of the line |
| `uart_late` | violated | clear RI, wait, read SBUF: the next byte |
| `idle_rx` | violated | a jump over a queued byte |
| `aux_carry` | violated | AC is not the carry of the low digit |
| `watchdog` | violated | with the largest prescaler the watchdog never bites |

Why the bounds are enough. *Interrupts*: INT0 stands for the sources the
firmware clears and that are polled first, T0 for those the vector clears, SER
for the one whose trigger is no SFR bit and comes late in the chain; with two of
the three at high priority every pair of levels nests both ways. One call deep
gives each routine a return address of its own on the stack, which is what
`StackBound` and RETI's check can confuse. A scale of 2 has the early return of
`tick()` that 12 has. *Uart*: five bytes pass a ring of two more than twice
around, with room for a drop; two clocks of gap tell "just delivered", "not yet"
and "due" apart. *IdleSkip*: twelve counts and a prescaler of 3 stand for 65536
and 12: a jump is larger than, equal to and smaller than a prescaler period; the
quantum 9/4 makes the nanoseconds of a clock a fraction; the slices of 2 and 30
end inside an instruction, inside a jump and after several wakes. *Debugger*: two
slots have an order and a hole; a stack of three bytes holds a frame and a pushed
byte on either side of it; two steps at once tell counting down from ending; two
handles allow one to be cleared and its slot reused. The run's VIEW leaves out what
a step that is over has left behind, but for what the code could still trip on.
*Opcodes*: every mnemonic comes with each kind of operand it has; columns 8 to 15
of a row share a handler and differ in the register only, so 8 and 15 stand for
them. Starting addresses lie before the end of a 2K page and of the 64K space, SP
at 7EH, FDH and in low RAM, the flags clear and set; the direct operands are a RAM
byte, a port, A and SP itself, the pins all high or one held low; the scene before
may move SP, the bank, the port's mode, R0 or DPTR, or call. *Peripherals*: bytes of
four values carry and wrap twice in the window of 12 clocks, which is also four
machine cycles of three; the prescaler of the watchdog has 8 values beside a
largest divisor of 8, as 256 beside 256; a PWM period is four counts, so three
writes can come in one. *Lifecycle*: six calls are enough for init, part, a callback,
save, something that changes the machine, and restore. *StcFlash*: blocks of two and
erase units of two blocks in a flash of two units give a file that fills a unit
partly, one with holes over a segment and a linear record, one written backwards over
itself and one refused; two pulses let a second greeting arrive late, two faults hit
both directions or a command and its successor, and a garbled write is one of nothing,
one across two blocks, or one of the whole flash and more.

Deadlock is checked in every run but four, where the system does stop: a program
of `opcodes` and `aux_carry` ends or parks the core, the calls of `lifecycle` are
counted, and a session of `flash` ends, or waits on the serial transport for a boot
ROM that is silent. Where a run is violated, its one property is what a comment, a
document or a test of the repository says; the findings quote it.

### Properties

- *Interrupts*. `NestingOK`: `mInterruptActive` names exactly the routines in
  service. `StackBound`: three routines at most share the stack.
  `NoFalseMismatch`: RETI compares the slot its entry filled. `PollPicksHighest`:
  the chain of ifs against its definition by order. `RequestKept`: no vector
  swallows another's request. `ParkedCoreStays` and `IdleWakes`: nothing runs
  while PCON parks the core, and an acceptable request ends idle.
- *Uart*. `ToldIsRead`: `RI = 0; c = SBUF;` reads the byte announced. `UnreadKept`: no
  received byte takes the place of an unread one, which a transmission may.
  `NoLostInterrupt`: RI set has its interrupt to come. `StreamSpec`, the refinement:
  order, nothing twice, drops only behind a full queue, and a transmission over an
  unread byte costs that byte alone. `EveryByteRead`: all others are read in the end.
- *IdleSkip*. `SlicesAgree`: at every return to the host the two machines are
  the same but for how far an instruction has got and a hidden prescaler.
  `NeverPastTarget`: no jump overshoots, whatever is rounded. `IdleWakes`: no
  jump steps over the overflow the firmware waits for.
- *Debugger*. `StepEndsInBounds`: a step over ends no deeper than it began, a step
  out outside its frame, a run is not ended by the step before it.
  `WatchHasCause`: a watchpoint is out of step with its byte only if the byte has
  moved. `PassesNoBreakpoint`: at an instruction boundary no slot that is hit is
  left behind, holes in the table or not; the clock of a vector is no such boundary
  for the code, so a breakpoint on the vector address itself is not promised.
  `HandlesNotReused`: a cleared handle stays nobody's.
- *Opcodes*. `WritesWhatItNames`: an instruction stores into nothing but what its
  disassembly names, the stack it implies and its flags, so that handler and
  disassembler check each other. `GoesWhereItSays`: the same for lengths and
  targets. `ArithmeticExact`: sums, differences, products and quotients as integers,
  signed and unsigned. `ReturnsHome`: RET on an intact frame goes behind its CALL.
  `BitOpsKeepLatch` and `BoardSeesPins`: of the ports. `AuxCarryOfLowDigit`:
  violated.
- *Peripherals*. `TimersCountClocks`: counting clock by clock comes to what a closed
  formula over the clocks passed says, counts, carries and flags, for both timers,
  the PCA and Timer 2; the pending Timer 0 overflow that a PCA started later counts
  at once is in the formula (`PcaTicks`), and so is TH0 of mode 3 stopping with TL0
  (`Ticks0`). `PwmPulseWhole`: a period is of one duty. `AdcAnswersAsked`: a
  conversion answers for its last START, when due; a write of the channel without a
  START is not covered, as the code then converts the new channel. `WdtBitesOnTime`:
  neither early nor late, the largest prescaler apart, which is `WdtBites`:
  violated.
- *Lifecycle*. `P5FollowsPart`: P5's address is another register on the parts without
  it. `SavedRestores`: what was saved can be restored, except after a second
  `emu_init` with the part not set again. `RestoreRewinds`: all or nothing, with the
  host's callbacks of now and the hooks of the image's part.
- *StcFlash*. `FlashedIsImage`: success means every byte of the file is in the flash and
  the rest erased, but at the addresses a garbled write was for or went to, where
  nothing could be said: lost and late messages, garbled replies and the other garbled
  commands cost nothing. A part of another protocol is untouched. `EndsWhenTimed`: a session over a
  transport that times out ends.

### Fairness

`emu_run`, `emu_advance_to_ns` and the tests call `tick()` and `stc12_tick()` in
loops that only the host ends, so `Interrupts` assumes weak fairness of `Tick`
and `Uart` of its `Tick`. In `Uart` a firmware that has work to do is run by
those ticks, hence weak fairness of `Receive`; nothing is assumed of its
transmissions or of the host. `IdleSkip` assumes that the host keeps asking for
slices. `IdleWakes` of `Interrupts` needs nothing of the firmware, which is
parked. `Peripherals` assumes weak fairness of `Tick` for the same loops. `StcFlash`
assumes it of the host's script alone, which is one asynchronous function: the boot
ROM and the line may take for ever.

### Assumptions that make the passing runs pass

`Uart.cfg` has a firmware that clears RI first read SBUF within a character time
(`Prompt`), which `UartLate.cfg` drops. `IdleSkip.cfg` has an empty receive queue (`Queued = 0`), which
`IdleRx.cfg` fills, and a firmware that does not use Timer 1 while Timer 0 counts
clocks (`~MixedRates`). The host acts between slices on neither machine. In `flash`
a file starts at 0 and fits the part: `flashStc12` drops the lowest address
`parseIntelHex` returns and never compares the image with the part's flash.

### Disagreements without a run of their own

Met while modelling, and kept in the modules as the code has them:

- Both directions of UART1 share one SBUF (stc12.c:1437): a firmware that transmits
  overwrites a byte RI announced and it has not read, where test_uart_rx_fifo.c:72
  says "An unread SBUF holds the queue: nothing overwrites it". `overwritten` are the
  bytes so lost in `uart`; `UnreadKept` without its second disjunct fails there.
- A write garbled on its way to the mock's boot ROM is programmed as it arrives and
  answered 00 (mock-bootloader.js:33-42, 112-121), and `flashStc12` reports success over
  a wrong flash. `FlashedIsImage` without `doubt` fails in `flash`. A boot ROM that
  verified the sum the host sends (stc-flash.js, buildPacket) would not answer.
- A jump that is no multiple of 12 clocks moves the phase of a stopped Timer 1's
  prescaler against stc12.c:1220-1221. `MixedRates = TRUE` shows it.
- On the 12T part a handler that returns 2 takes 36 clocks, on the 1T part 2
  (core.c:524), where spec-updates/006-stc89c52rc-delta.md:56 says twelve times.
- A capture on PCA module 2 sets CCF1 (stc12.c:732); a match there sets CCF2
  (stc12.c:635), the flag stc12.h:188 gives that module.
- A second `emu_init` leaves a machine whose own checkpoint is refused (`reinit`).
- After RETI or a write of IE or IP the code may vector at once, a TODO at core.c:506;
  a firmware that sets ES with RI already set gets no interrupt (stc12.c:1476); a jump
  in the clock after the PCON write leaves `mTickDelay` one clock behind (stc12.c:1272).

## 4. What is proved

`InterruptsProofs` proves, for every set of sources, priorities, scales, handler
results and every call depth, seven of the eight properties of the `interrupts`
run (all but the liveness one). TypeOK and NestingOK are not enough to be
inductive: that RETI pops the routine it should, and that the slot it compares
is the right one, depends on how the stack is divided. The invariant `IInv`
therefore says that the stack is a pile of segments, one for each routine in
service and one for main, each as long as its routine's calls (`base` of the
frames); that the program point's routine is the last frame's; and that
`int_sp` of a level in service is the base of its frame. Each action then
disturbs one end of the pile: CALL and RET the last segment, a vector pushes
one, RETI pops one. `PollSound` unfolds the chain of six ifs one `Consider` at a
time (`ConsiderStep`), keeping as its invariant "the best of the sources
considered so far".

`UartProofs` proves every property of the `uart` run but its liveness, for every
ring size, character time and number of bytes. `Ring(f, h, n)` is what the ring
holds from slot h on; `RingPush` and `RingPop` say that writing slot
`(head + len) % Cap` appends a byte and that advancing the head takes the first
one off, which is where the wrap-around is settled. `IInv` adds to the types what
the firmware relies on between two of its statements: with RI seen and not
cleared, SBUF is still the byte it saw (`Reading`); RI set with ES set has its
request pending until a vector takes it (`Requested`); and a prompt clear-first
firmware has clocks to spare while a byte is unread (`Ahead`), so that no
delivery falls between its two statements. The refinement follows action by
action: `SerialRx` is `Send`, `ReadSBUF` is `Take`, `WriteSBUF` over an unread byte is
`Overwrite` (`WriteStep`: the queue behind SBUF stays), a delivery from the ring to
SBUF and all the rest stutter. `TypeCorrect` and `InterruptTheorem` are
unconditional; `ToldTheorem`, `UnreadTheorem` and `StreamTheorem` assume `Prompt`, as
the run does.

`IdleSkipProofs` proves every safety property of the `idle_skip` run: that both
machines keep their shape, `NeverPastTarget` and `SlicesAgree`. For the second the argument
is `RoundTrip`: the clocks that fit the time left, rounded down, take no more
than that time even when a fraction of a nanosecond is already counted, because
`frac + n * quantum < (left + 1) * fixed_point`. Rounding the clocks down once
more to whole timer counts (`SkipFits`) only shortens the jump. Of the frequency
`TypeCorrect` and `NeverPastTargetTheorem` assume only that a clock takes time
(`QuantumAssumption`), which holds of every 32-bit frequency `stc12_set_fosc` accepts.
`SlicesAgreeTheorem` compares two runs through any number of clocks, so its invariant
(`AgreeInv`) holds the slow machine's history: there is a trace of the clocks of this
slice that ends in the slow machine, and the fast one is like some clock of that trace
(`Behind`). A clock of either machine takes one more step of the trace (`SlowBehind`,
`FastBehind`); a jump lands further along it (`SkipBehind`), since `Later`, the closed form
of a dozing machine so many clocks on, is what each clock adds to. It assumes
`Undisturbed`: an empty receive queue, Timer 1 at Timer 0's rate, and a clock of at least
a nanosecond. The first two are the limits the findings show; the third is real too. Beyond
1 GHz the clocks of a jump and the nanoseconds they take are rounded apart
(stc12.c:1269-1270): with a quantum of 3 in 13ths of a nanosecond TLC finds two machines
that disagree.

`DebuggerProofs` proves all five properties of the `debugger` run, for any number
of slots, places, handles and steps at once and any depth of stack. The frames form
a pile, each at least two bytes below the next and below SP (`Piled`), whatever
moves the stack. A step over that has not ended then keeps `OverPromise`: SP is at
or above its entry value, and so is the first frame entered since; should SP come
back to that value, no frame entered since can be left (`OverStep`). A step out
keeps `OutPromise`, that the frame to leave is still there and its base is the
entry value (`OutStep`). `FirstSlot`, that a scan of the slots comes to a first one
hit, is the well-foundedness of the naturals.

`OpcodesProofs` proves every property of the `opcodes` run for every firmware, part and
board: any menu of instructions, any start, any pins, any set of known extended registers.
The invariant is `Good`: the machine has its type, and the board was told of every pin
that changed (`Told`). `Touches` is a footprint, the places and flags an operation may
differ in; reads, writes and flag updates each have their lemma, and `HandleFits` puts them
together, one case for each handler of a row of the dispatch table (`Ops0Fits` to `OpsRxFits`).
What ties the table to the disassembler is `Listed`, one line for each handler: the
texts its opcodes may have. `AllListed` goes through the 256 opcodes with it, so a handler under
the wrong opcode, or a text with the wrong operands, breaks the proof. `WritesTheorem`,
`GoesTheorem`, `ArithmeticTheorem` and `BitOpsTheorem` follow from the
footprint, and `ReturnsTheorem` from an invariant of the frames: the two bytes a call
left on the stack are still its return address, or the frame is no longer kept.

`LifecycleProofs` proves TypeOK and every property of the `lifecycle` run for any
crystals, files and number of calls. None of them is inductive. The invariant
says of the live machine that P5 is hooked by the part (`Hooked`) and that before the
first init it is the zeroed one, and of the live machine and the saved one alike that,
unless it was initialised again, decode would take it and its clock scale suits its
part (`Restorable`): the saved machine has to carry this because a restore makes it
the live one, and the clock scale because a later reset keeps it. Calls that leave
the configuration alone are settled at once by `SameCarries` and `SameAllCarries`.
`RestoreRewinds` goes field by field (`TemporariesField`, `BytesField`,
`CommittedField`, which follow a field through the functions without naming it), so
a field that joins the machine and not the codec breaks the proof. It needs one
invariant more, `TimersFit`: core.c's timers are switched off on an STC machine only,
or an older image of an STC89 would come back with them in another state.

`StcFlashProofs` proves `FlashedIsImage` for any file, block, erase unit and flash
and any number of faults of the line. The host trusts a reply by its code alone, and
erase and write share the code 00 with the status packets of the greeting: that a
reply belongs to the command it follows is not in the protocol. The invariant says why
it holds all the same. Only status packets are ahead of the handshake's reply 8F,
which is the first that cannot be mistaken for one (`Greeted`); whoever accepts it has
read all of them, so from there on there is one command under way, or its reply, or
neither (`Alternates`), whatever is lost. The command is the one the host sent, or a
garbled one; and a garbled one that is not a write is refused, or answered by a code
the host does not accept, or takes the boot ROM where the host's own would have (a
handshake become a baud test), so that its state still follows the host's phase
(`Staged`). A reply then tells what is in the flash (`Filling`, `Matches`):
the first bytes of the image up to the end of the block written, but at the addresses
in `doubt`; `BlockFills` advances it, `FilledAll` ends it, the image being a whole
number of blocks (`PaddedFacts`). A host that times out a read has given up, so that a late reply meets
nobody. What the line and the readers leave of a sequence is `Garbled`: nothing new but
noise, and its last still the last.

`PeripheralsProofs` proves every property of the `peripherals` run, for every radix,
divisor, table of setups and set of registers the firmware writes. Each but TypeOK compares
a count made clock by clock with a closed form, so each needs the closed form of every
part of that count as its invariant:

- `TypesInv`: every field holds what `Held` says of it, which a setup and a write
  that is `Legal` keep. The counters are bytes of the radix, the prescalers below their
  divisors.
- `FedInv`: the watchdog's prescaler and counter are quotient and remainder of the clocks
  since it was cleared (`WatchdogTheorem`).
- `AskedInv`: the ADC's countdown and the clocks waited add up to the speed asked for
  (`ConversionTheorem`).
- `PulseInv`: the highs of a PWM period so far are what CL and the duty latched when it
  began leave, whatever CCAPnH says now (`PulseTheorem`).
- `CountInv`: every timer, prescaler and PCA counter, and the overflows the PCA has yet to
  take, are what `Counting` says of the clocks since the window's anchor. A clock is one
  more of each count: `TicksNext` for the prescalers, `CountsOn` for a counter in two
  bytes with its carry and reload, `SweepsOn` for the overflows (`TimersTheorem`).

A clock is a chain of stages, one for each part (`Clocked`). `Beside` names the fields a
stage does not touch and `Agree` carries what was said of them across it, so that
a claim about a part meets only the stages that concern it. That is where the order of the
stages counts: the PCA sees Timer 0's overflows of the same clock, since it comes after.

The assumptions are those named in the modules (`SetsAssumption`,
`NumbersAssumption`, `SizesAssumption`, `SwitchesAssumption`,
`QuantumAssumption`, `MainLoopsAssumption`, `CodeAssumption`, `ValueAssumption`,
`SlotAssumption`, `BoundsAssumption`, `LifecycleAssumption`,
`FlashAssumption`, `MenuAssumption`, `PartAssumption`, `WidthAssumption`,
`SetupsAssumption`): sources are known ones, instructions and
registers are bytes, scales and sizes are positive, a main loop is not empty, slots are numbered, the default crystal is one a
host may set, an erase unit is a whole number of blocks, a setup's registers hold what
their width allows, writes are ones the bus of the part carries, and an STC89 has
none of the STC12's handlers.

Model-checked only: the liveness properties, which are out of the prover's reach. Every
invariant and action property of a passing run is proved.

## 5. Not modelled

- `timer_tick` and `serial_tx` of core.c, which every machine the API configures as an
  STC switches off (`skip_timers`), and `load_obj`, the curses front end's loader.
- The single-byte peeks and pokes of the API, capability strings and profiling: they
  read, or write one byte the host names.
- The read accessors of the debugger, and a breakpoint on a vector address, which the
  clock of the vector passes (`PassesNoBreakpoint` says so).
- The guards of the idle jump on BRT, PCA, ADC, watchdog and clock outputs: under them
  it returns 0.
- The bytes of a checkpoint: field order and checksum are data.
- `detectStc15`, which reads the greeting and programs nothing.
- Of a damaged byte stream to the boot ROM: a false frame inside the data of a damaged
  command, so that one command would become two. A pulse or a start byte garbled is a
  command lost; a damaged length is one of the outcomes above or a command that never
  ends, which is one lost. A damaged item to the host is always refused by its sum.
- A linear record of 8000H or more, whose shifted base is negative in JavaScript
  (stc-flash.js:124); no such file starts at 0 and fits a part.
- The GDB stub, a translation of packets to calls that `Debugger` has; its two
  defects are listed with the hazards.
- Screens, traces, the serial bridge, symbol files, adapters for other processors and
  build tools: they keep no state the rest depends on.

## 6. The plan

Done: `Interrupts`, `Uart`, `IdleSkip`, `Debugger`, `Lifecycle`, `StcFlash`, `Peripherals`
and `Opcodes` over `Disasm`, each with proofs. Left, in this order:

1. `GdbStub` over `Debugger`: reassembly of packets from chunks, and z0.
2. A host that injects bytes between the slices of `IdleSkip`, and the guards of its
   jump with the peripherals of `Peripherals` behind them.
