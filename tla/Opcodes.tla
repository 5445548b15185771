------------------------------- MODULE Opcodes -------------------------------
(***************************************************************************)
(* The opcode handlers of opcodes.c on the data side: what each does to    *)
(* registers, memory, flags, ports and the program counter.                *)
(*                                                                         *)
(* A machine is one record.  Its memories are functions over the bytes     *)
(* written since a reset that wiped them, every other byte being 0.  A     *)
(* port has a latch (the SFR), the level the board puts on its pins (ext)  *)
(* and the drive and modes the board was last told of (board, shadow).     *)
(*                                                                         *)
(* A firmware is a sequence of instructions, the k-th any of Menu[k]; what *)
(* MOVC finds is any of Constants.  Interrupts, and what the SFRs with a   *)
(* write callback other than the ports' do, are in modules of their own.   *)
(***************************************************************************)
EXTENDS Disasm, FiniteSets

CONSTANTS
  Menu,       \* a sequence of sets of instructions [op, o1, o2]
  Start,      \* a set of initial registers [acc, b, psw, sp, pc]
  Pins,       \* the levels the board may put on the pins of a port
  Constants,  \* bytes of code memory MOVC may find
  HasUpper,   \* mUpperData is there: a part with 256 bytes of RAM
  HasExt      \* mExtData is there

Byte == 0 .. 255
Word == 0 .. 65535

ASSUME MenuAssumption ==
  /\ Menu \in Seq(SUBSET [op : Byte, o1 : Byte, o2 : Byte])
  /\ Start \subseteq [acc : Byte, b : Byte, psw : Byte, sp : Byte, pc : Word]
ASSUME PartAssumption ==
  Pins \subseteq Byte /\ Constants \subseteq Byte /\ HasUpper \in BOOLEAN /\ HasExt \in BOOLEAN

VARIABLES
  m,       \* the machine
  cycles,  \* what the last handler returned
  step,    \* instructions executed
  last,    \* history: the last instruction
  frames   \* history: calls whose return address is still on the stack

vars == <<m, cycles, step, last, frames>>

-----------------------------------------------------------------------------
(* Bytes and bits.                                                         *)

B8(x) == x % 256
W16(x) == x % 65536
Signed(v) == IF v > 127 THEN v - 256 ELSE v
Bit(v, k) == (v \div 2^k) % 2
SetBit(v, k, x) == v + (x - Bit(v, k)) * 2^k
OfBits(f) == f[0] + 2 * f[1] + 4 * f[2] + 8 * f[3] + 16 * f[4] + 32 * f[5] + 64 * f[6] + 128 * f[7]
And8(v, w) == OfBits([k \in 0 .. 7 |-> Bit(v, k) * Bit(w, k)])
Xor8(v, w) == OfBits([k \in 0 .. 7 |-> (Bit(v, k) + Bit(w, k)) % 2])
Or8(v, w) == v + w - And8(v, w)

(* Special function registers, by address.                                 *)
SP == 129
DPL == 130
DPH == 131
PCON == 135
PSW == 208
ACC == 224
B == 240
PortAt == <<128, 144, 160, 176, 192, 200>>
Mode1At == <<147, 145, 149, 177, 179, 201>>
Mode0At == <<148, 146, 150, 178, 180, 202>>
Port == 1 .. 6

At(memory, a) == IF a \in DOMAIN memory THEN memory[a] ELSE 0
Put(memory, a, v) == [x \in DOMAIN memory \cup {a} |-> IF x = a THEN v ELSE memory[x]]

Sfr(c, a) == At(c.sfr, a)
SetSfr(c, a, v) == [c EXCEPT !.sfr = Put(@, a, v)]
A(c) == Sfr(c, ACC)
SetA(c, v) == SetSfr(c, ACC, v)
Carry(c) == Bit(Sfr(c, PSW), 7)
SetCarry(c, x) == SetSfr(c, PSW, SetBit(Sfr(c, PSW), 7, x))
Flags(c, carry, aux, overflow) ==
  SetSfr(c, PSW, SetBit(SetBit(SetBit(Sfr(c, PSW), 7, carry), 6, aux), 2, overflow))
DPTR(c) == Sfr(c, DPH) * 256 + Sfr(c, DPL)

-----------------------------------------------------------------------------
(* Ports: what a read returns, and what the board is told of a write.      *)

Wires(c, p) == [drive |-> Sfr(c, PortAt[p]), m1 |-> Sfr(c, Mode1At[p]), m0 |-> Sfr(c, Mode0At[p])]

(* One bit of a port read: input-only pins show the outside, push-pull     *)
(* pins the latch, the others a wired AND.                                 *)
ModeRead(latch, outside, mode1, mode0) ==
  CASE mode1 = 0 /\ mode0 = 1 -> latch
    [] mode1 = 1 /\ mode0 = 0 -> outside
    [] OTHER                  -> latch * outside

PortRead(c, p) ==
  LET w == Wires(c, p)
  IN  OfBits([k \in 0 .. 7 |-> ModeRead(Bit(w.drive, k), Bit(c.ext, k), Bit(w.m1, k), Bit(w.m0, k))])

(* The board hears of the pins whose latch or mode differs from the shadow.*)
EmitPinChanges(c, p) ==
  LET w == Wires(c, p)
      s == c.shadow[p]
      Changed(k) == Bit(w.drive, k) # Bit(s.drive, k) \/ Bit(w.m1, k) # Bit(s.m1, k)
                    \/ Bit(w.m0, k) # Bit(s.m0, k)
      Told(old, new) == OfBits([k \in 0 .. 7 |-> IF Changed(k) THEN Bit(new, k) ELSE Bit(old, k)])
      b == c.board[p]
  IN  [c EXCEPT !.shadow[p] = w,
                !.board[p] = [drive |-> Told(b.drive, w.drive), m1 |-> Told(b.m1, w.m1),
                              m0 |-> Told(b.m0, w.m0)]]

PortsOf(a) == {p \in Port : a \in {PortAt[p], Mode1At[p], Mode0At[p]}}

(* Mutant: the mode registers have no callback.                            *)
SfrWrittenDriveOnly(c, a) ==
  IF ~\E p \in Port : PortAt[p] = a THEN c ELSE EmitPinChanges(c, CHOOSE p \in Port : PortAt[p] = a)

SfrWritten(c, a) ==
  IF PortsOf(a) = {} THEN c ELSE EmitPinChanges(c, CHOOSE p \in PortsOf(a) : TRUE)

-----------------------------------------------------------------------------
(* Memory as the handlers reach it.                                        *)

ReadMem(c, a) ==
  CASE a < 128                      -> At(c.low, a)
    [] a \in {PortAt[p] : p \in Port} -> PortRead(c, CHOOSE p \in Port : PortAt[p] = a)
    [] OTHER                        -> Sfr(c, a)

WriteMem(c, a, v) ==
  IF a < 128 THEN [c EXCEPT !.low = Put(@, a, v)] ELSE SfrWritten(SetSfr(c, a, v), a)

(* Read-modify-write handlers that take the latch, not the pins.           *)
Latch(c, a) == IF a < 128 THEN At(c.low, a) ELSE Sfr(c, a)

BadValue == 119

ReadIndir(c, a) ==
  CASE a < 128                -> At(c.low, a)
    [] a > 127 /\ HasUpper    -> At(c.up, a)
    [] a > 127 /\ ~HasUpper   -> BadValue

WriteIndir(c, a, v) ==
  CASE a < 128              -> [c EXCEPT !.low = Put(@, a, v)]
    [] a > 127 /\ HasUpper  -> [c EXCEPT !.up = Put(@, a, v)]
    [] a > 127 /\ ~HasUpper -> c

Bank(c) == 8 * ((Sfr(c, PSW) \div 8) % 4)
RxAddress(c, i) == (i.op % 8) + Bank(c)
Rx(c, i) == At(c.low, RxAddress(c, i))
SetRx(c, i, v) == [c EXCEPT !.low = Put(@, RxAddress(c, i), v)]
IndirAddress(c, i) == At(c.low, (i.op % 2) + Bank(c))

Raise(c, exception) == [c EXCEPT !.raised = @ \cup {exception}]

(* Mutant: the stack reaches the direct addresses, SFRs included.          *)
PushDirect(c, v) ==
  LET sp == B8(Sfr(c, SP) + 1) IN WriteMem(SetSfr(c, SP, sp), sp, v)

Push(c, v) ==
  LET sp == B8(Sfr(c, SP) + 1)
      pushed == WriteIndir(SetSfr(c, SP, sp), sp, v)
  IN  IF sp = 0 THEN Raise(pushed, "STACK") ELSE pushed

Top(c) == ReadIndir(c, Sfr(c, SP))

Pop(c) ==
  LET sp == B8(Sfr(c, SP) - 1)
      popped == SetSfr(c, SP, sp)
  IN  IF sp = 255 THEN Raise(popped, "STACK") ELSE popped

PushPC(c, length) ==
  LET back == W16(c.pc + length) IN Push(Push(c, back % 256), back \div 256)

(* Mutant: the bytes of the address are taken in the order pushed.         *)
ReturnAddressSwapped(c) == Top(c) + Top(Pop(c)) * 256

(* The address on the stack, high byte on top.                             *)
ReturnAddress(c) == Top(c) * 256 + Top(Pop(c))

(* Bits, in the lower RAM or in an SFR whose address ends in 0 or 8.       *)
BitHome(b) == IF b > 127 THEN b - (b % 8) ELSE b \div 8 + 32
ReadBit(c, b) == Bit(ReadMem(c, BitHome(b)), b % 8)
LatchBit(c, b) == Bit(Latch(c, BitHome(b)), b % 8)
(* Mutant: the other bits are read from the pins.                          *)
PutBitFromPins(c, b, x) == WriteMem(c, BitHome(b), SetBit(ReadMem(c, BitHome(b)), b % 8, x))

PutBit(c, b, x) == WriteMem(c, BitHome(b), SetBit(Latch(c, BitHome(b)), b % 8, x))

XAddress(c, i) == Sfr(c, PortAt[3]) * 256 + IndirAddress(c, i)
XRead(c, a) == IF HasExt THEN SetA(c, At(c.xdata, a)) ELSE c
XWrite(c, a, v) == IF HasExt THEN [c EXCEPT !.xdata = Put(@, a, v)] ELSE c

-----------------------------------------------------------------------------
(* Arithmetic.  The auxiliary carry is the code's: out of bit 2.           *)

(* Mutant: the carry into bit 7 forgets the carry coming in.               *)
AddFlagsNoCarryIn(c, v1, v2, carryin) ==
  LET carry == (v1 + v2 + carryin) \div 256
  IN  Flags(c, carry, ((v1 % 8) + (v2 % 8) + carryin) \div 8,
            ((((v1 % 128) + (v2 % 128)) \div 128) + carry) % 2)

AddFlags(c, v1, v2, carryin) ==
  LET carry == (v1 + v2 + carryin) \div 256
      auxcarry == ((v1 % 8) + (v2 % 8) + carryin) \div 8
      overflow == ((((v1 % 128) + (v2 % 128) + carryin) \div 128) + carry) % 2
  IN  Flags(c, carry, auxcarry, overflow)

Borrow(v1, v2, carryin) == IF v1 < v2 + carryin THEN 1 ELSE 0

SubFlags(c, v1, v2, carryin) ==
  LET carry == Borrow(v1, v2, carryin)
  IN  Flags(c, carry, Borrow(v1 % 8, v2 % 8, carryin),
            (Borrow(v1 % 128, v2 % 128, carryin) + carry) % 2)

Add(c, v, carryin) == SetA(AddFlags(c, A(c), v, carryin), B8(A(c) + v + carryin))
Subb(c, v) == SetA(SubFlags(c, A(c), v, Carry(c)), B8(A(c) - v - Carry(c)))

MulAB(c) ==
  LET product == A(c) * Sfr(c, B)
      flagged == SetSfr(c, PSW, SetBit(SetBit(Sfr(c, PSW), 7, 0), 2, IF product > 255 THEN 1 ELSE 0))
  IN  SetSfr(SetA(flagged, product % 256), B, product \div 256)

DivAB(c) ==
  LET a == A(c)
      b == Sfr(c, B)
      flagged == SetSfr(c, PSW, SetBit(SetBit(Sfr(c, PSW), 7, 0), 2, IF b = 0 THEN 1 ELSE 0))
  IN  IF b = 0 THEN flagged ELSE SetSfr(SetA(flagged, a \div b), B, a % b)

DaA(c) ==
  LET low == A(c) + (IF A(c) % 16 > 9 \/ Bit(Sfr(c, PSW), 6) = 1 THEN 6 ELSE 0)
      full == low + (IF low - (low % 16) > 144 \/ Carry(c) = 1 THEN 96 ELSE 0)
  IN  SetA(IF full > 153 THEN SetCarry(c, 1) ELSE c, B8(full))

(* CJNE: the carry is the comparison's borrow.                             *)
Compared(c, v1, v2) == SetCarry(c, IF v1 < v2 THEN 1 ELSE 0)

IncDptr(c) ==
  LET low == SetSfr(c, DPL, B8(Sfr(c, DPL) + 1))
  IN  IF Sfr(low, DPL) = 0 THEN SetSfr(low, DPH, B8(Sfr(c, DPH) + 1)) ELSE low

-----------------------------------------------------------------------------
(* How a handler ends.  tick() refreshes the parity flag afterwards.       *)

ParityOf(v) == (Bit(v, 0) + Bit(v, 1) + Bit(v, 2) + Bit(v, 3)
                + Bit(v, 4) + Bit(v, 5) + Bit(v, 6) + Bit(v, 7)) % 2

Parity(c) == SetSfr(c, PSW, SetBit(Sfr(c, PSW), 0, ParityOf(A(c))))

Goes(c, target, returned) ==
  /\ m' = Parity([c EXCEPT !.pc = target])
  /\ cycles' = returned

Ends(c, length, returned) == Goes(c, W16(m.pc + length), returned)

Branches(c, taken, offset, length) ==
  Goes(c, W16(m.pc + length + IF taken THEN Signed(offset) ELSE 0), 2)

(* Mutants: the page of the jump itself; a program counter that does not   *)
(* wrap.                                                                   *)
PageOfJump(i) == (m.pc \div 2048) * 2048 + (i.op \div 32) * 256 + i.o1
PageUnwrapped(i) == ((m.pc + 2) \div 2048) * 2048 + (i.op \div 32) * 256 + i.o1

Page(i) == (W16(m.pc + 2) \div 2048) * 2048 + (i.op \div 32) * 256 + i.o1

-----------------------------------------------------------------------------
(* The handlers, by row of the opcode map as opcodes.c has them; those of  *)
(* R0 to R7 come last.  h is the handler, i the instruction.               *)

Ops0(h, i) ==
  \/ h = "ajmp_offset" /\ Goes(m, Page(i), 2)
  \/ h = "ljmp_address" /\ Goes(m, i.o1 * 256 + i.o2, 2)
  \/ h = "rr_a" /\ Ends(SetA(m, A(m) \div 2 + (A(m) % 2) * 128), 1, 0)
  \/ h = "inc_a" /\ Ends(SetA(m, B8(A(m) + 1)), 1, 0)
  \/ h = "inc_mem" /\ Ends(WriteMem(m, i.o1, B8(ReadMem(m, i.o1) + 1)), 2, 2)
  \/ LET a == IndirAddress(m, i) IN
     h = "inc_indir_rx" /\ Ends(WriteIndir(m, a, B8(ReadIndir(m, a) + 1)), 1, 0)

Ops1(h, i) ==
  \/ /\ h = "jbc_bitaddr_offset"
     /\ IF LatchBit(m, i.o1) = 1 THEN Branches(PutBit(m, i.o1, 0), TRUE, i.o2, 3)
                                 ELSE Branches(m, FALSE, i.o2, 3)
  \/ h = "acall_offset" /\ Goes(PushPC(m, 2), Page(i), 2)
  \/ h = "lcall_address" /\ Goes(PushPC(m, 3), i.o1 * 256 + i.o2, 2)
  \/ h = "rrc_a" /\ Ends(SetCarry(SetA(m, A(m) \div 2 + Carry(m) * 128), A(m) % 2), 1, 0)
  \/ h = "dec_a" /\ Ends(SetA(m, B8(A(m) - 1)), 1, 0)
  \/ h = "dec_mem" /\ Ends(WriteMem(m, i.o1, B8(ReadMem(m, i.o1) - 1)), 2, 2)
  \/ LET a == IndirAddress(m, i) IN
     h = "dec_indir_rx" /\ Ends(WriteIndir(m, a, B8(ReadIndir(m, a) - 1)), 1, 0)

Ops2(h, i) ==
  \/ h = "jb_bitaddr_offset" /\ Branches(m, ReadBit(m, i.o1) = 1, i.o2, 3)
  \/ h = "ret" /\ Goes(Pop(Pop(m)), ReturnAddress(m), 2)
  \/ h = "rl_a" /\ Ends(SetA(m, B8(A(m) * 2) + A(m) \div 128), 1, 0)
  \/ h = "add_a_imm" /\ Ends(Add(m, i.o1, 0), 2, 0)
  \/ h = "add_a_mem" /\ Ends(Add(m, ReadMem(m, i.o1), 0), 2, 2)
  \/ h = "add_a_indir_rx" /\ Ends(Add(m, ReadIndir(m, IndirAddress(m, i)), 0), 1, 0)

(* Outside an interrupt RETI is RET.                                       *)
Ops3(h, i) ==
  \/ h = "jnb_bitaddr_offset" /\ Branches(m, ReadBit(m, i.o1) = 0, i.o2, 3)
  \/ h = "reti" /\ Goes(Pop(Pop(m)), ReturnAddress(m), 2)
  \/ h = "rlc_a" /\ Ends(SetCarry(SetA(m, B8(A(m) * 2) + Carry(m)), A(m) \div 128), 1, 0)
  \/ h = "addc_a_imm" /\ Ends(Add(m, i.o1, Carry(m)), 2, 0)
  \/ h = "addc_a_mem" /\ Ends(Add(m, ReadMem(m, i.o1), Carry(m)), 2, 2)
  \/ h = "addc_a_indir_rx" /\ Ends(Add(m, ReadIndir(m, IndirAddress(m, i)), Carry(m)), 1, 0)

Ops4(h, i) ==
  \/ h = "jc_offset" /\ Branches(m, Carry(m) = 1, i.o1, 2)
  \/ h = "orl_mem_a" /\ Ends(WriteMem(m, i.o1, Or8(ReadMem(m, i.o1), A(m))), 2, 2)
  \/ h = "orl_mem_imm" /\ Ends(WriteMem(m, i.o1, Or8(ReadMem(m, i.o1), i.o2)), 3, 2)
  \/ h = "orl_a_imm" /\ Ends(SetA(m, Or8(A(m), i.o1)), 2, 0)
  \/ h = "orl_a_mem" /\ Ends(SetA(m, Or8(A(m), ReadMem(m, i.o1))), 2, 2)
  \/ h = "orl_a_indir_rx" /\ Ends(SetA(m, Or8(A(m), ReadIndir(m, IndirAddress(m, i)))), 1, 0)

Ops5(h, i) ==
  \/ h = "jnc_offset" /\ Branches(m, Carry(m) = 0, i.o1, 2)
  \/ h = "anl_mem_a" /\ Ends(WriteMem(m, i.o1, And8(Latch(m, i.o1), A(m))), 2, 2)
  \/ h = "anl_mem_imm" /\ Ends(WriteMem(m, i.o1, And8(ReadMem(m, i.o1), i.o2)), 3, 2)
  \/ h = "anl_a_imm" /\ Ends(SetA(m, And8(A(m), i.o1)), 2, 0)
  \/ h = "anl_a_mem" /\ Ends(SetA(m, And8(A(m), ReadMem(m, i.o1))), 2, 2)
  \/ h = "anl_a_indir_rx" /\ Ends(SetA(m, And8(A(m), ReadIndir(m, IndirAddress(m, i)))), 1, 0)

Ops6(h, i) ==
  \/ h = "jz_offset" /\ Branches(m, A(m) = 0, i.o1, 2)
  \/ h = "xrl_mem_a" /\ Ends(WriteMem(m, i.o1, Xor8(Latch(m, i.o1), A(m))), 2, 2)
  \/ h = "xrl_mem_imm" /\ Ends(WriteMem(m, i.o1, Xor8(ReadMem(m, i.o1), i.o2)), 3, 2)
  \/ h = "xrl_a_imm" /\ Ends(SetA(m, Xor8(A(m), i.o1)), 2, 0)
  \/ h = "xrl_a_mem" /\ Ends(SetA(m, Xor8(A(m), ReadMem(m, i.o1))), 2, 2)
  \/ h = "xrl_a_indir_rx" /\ Ends(SetA(m, Xor8(A(m), ReadIndir(m, IndirAddress(m, i)))), 1, 0)

Ops7(h, i) ==
  \/ h = "jnz_offset" /\ Branches(m, A(m) # 0, i.o1, 2)
  \/ h = "orl_c_bitaddr" /\ Ends(SetCarry(m, IF ReadBit(m, i.o1) = 1 THEN 1 ELSE Carry(m)), 2, 2)
  \/ h = "jmp_indir_a_dptr" /\ Goes(m, W16(DPTR(m) + A(m)), 2)
  \/ h = "mov_a_imm" /\ Ends(SetA(m, i.o1), 2, 0)
  \/ h = "mov_mem_imm" /\ Ends(WriteMem(m, i.o1, i.o2), 3, 2)
  \/ h = "mov_indir_rx_imm" /\ Ends(WriteIndir(m, IndirAddress(m, i), i.o1), 2, 0)

Ops8(h, i) ==
  \/ h = "sjmp_offset" /\ Branches(m, TRUE, i.o1, 2)
  \/ h = "anl_c_bitaddr" /\ Ends(SetCarry(m, IF ReadBit(m, i.o1) = 1 THEN Carry(m) ELSE 0), 2, 2)
  \/ h = "movc_a_indir_a_pc" /\ \E v \in Constants : Ends(SetA(m, v), 1, 2)
  \/ h = "div_ab" /\ Ends(DivAB(m), 1, 4)
  \/ h = "mov_mem_mem" /\ Ends(WriteMem(m, i.o2, ReadMem(m, i.o1)), 3, 2)
  \/ /\ h = "mov_mem_indir_rx"
     /\ Ends(WriteMem(m, i.o1, ReadIndir(m, IndirAddress(m, i))), 2, 2)

Ops9(h, i) ==
  \/ h = "mov_dptr_imm" /\ Ends(SetSfr(SetSfr(m, DPH, i.o1), DPL, i.o2), 3, 2)
  \/ h = "mov_bitaddr_c" /\ Ends(PutBit(m, i.o1, Carry(m)), 2, 2)
  \/ h = "movc_a_indir_a_dptr" /\ \E v \in Constants : Ends(SetA(m, v), 1, 2)
  \/ h = "subb_a_imm" /\ Ends(Subb(m, i.o1), 2, 0)
  \/ h = "subb_a_mem" /\ Ends(Subb(m, ReadMem(m, i.o1)), 2, 2)
  \/ h = "subb_a_indir_rx" /\ Ends(Subb(m, ReadIndir(m, IndirAddress(m, i))), 1, 0)

OpsA(h, i) ==
  \/ /\ h = "orl_c_compl_bitaddr"
     /\ Ends(SetCarry(m, IF ReadBit(m, i.o1) = 1 THEN Carry(m) ELSE 1), 2, 2)
  \/ h = "mov_c_bitaddr" /\ Ends(SetCarry(m, ReadBit(m, i.o1)), 2, 0)
  \/ h = "inc_dptr" /\ Ends(IncDptr(m), 1, 2)
  \/ h = "mul_ab" /\ Ends(MulAB(m), 1, 4)
  \/ /\ h = "mov_indir_rx_mem"
     /\ Ends(WriteIndir(m, IndirAddress(m, i), ReadMem(m, i.o1)), 2, 2)

OpsB(h, i) ==
  \/ /\ h = "anl_c_compl_bitaddr"
     /\ Ends(SetCarry(m, IF ReadBit(m, i.o1) = 1 THEN 0 ELSE Carry(m)), 2, 2)
  \/ h = "cpl_bitaddr" /\ Ends(PutBit(m, i.o1, 1 - LatchBit(m, i.o1)), 2, 0)
  \/ h = "cpl_c" /\ Ends(SetCarry(m, 1 - Carry(m)), 1, 0)
  \/ h = "cjne_a_imm_offset" /\ Branches(Compared(m, A(m), i.o1), A(m) # i.o1, i.o2, 3)
  \/ LET v == ReadMem(m, i.o1) IN
     h = "cjne_a_mem_offset" /\ Branches(Compared(m, A(m), v), A(m) # v, i.o2, 3)
  \/ LET v == ReadIndir(m, IndirAddress(m, i)) IN
     h = "cjne_indir_rx_imm_offset" /\ Branches(Compared(m, v, i.o1), v # i.o1, i.o2, 3)

OpsC(h, i) ==
  \/ h = "push_mem" /\ Ends(Push(m, ReadMem(m, i.o1)), 2, 2)
  \/ h = "clr_bitaddr" /\ Ends(PutBit(m, i.o1, 0), 2, 0)
  \/ h = "clr_c" /\ Ends(SetCarry(m, 0), 1, 0)
  \/ h = "swap_a" /\ Ends(SetA(m, B8(A(m) * 16) + A(m) \div 16), 1, 0)
  \/ h = "xch_a_mem" /\ Ends(SetA(WriteMem(m, i.o1, A(m)), ReadMem(m, i.o1)), 2, 2)
  \/ LET a == IndirAddress(m, i) IN
     h = "xch_a_indir_rx" /\ Ends(SetA(WriteIndir(m, a, A(m)), ReadIndir(m, a)), 1, 0)

OpsD(h, i) ==
  \/ h = "pop_mem" /\ Ends(WriteMem(Pop(m), i.o1, Top(m)), 2, 2)
  \/ h = "setb_bitaddr" /\ Ends(PutBit(m, i.o1, 1), 2, 0)
  \/ h = "setb_c" /\ Ends(SetCarry(m, 1), 1, 0)
  \/ h = "da_a" /\ Ends(DaA(m), 1, 0)
  \/ LET v == B8(ReadMem(m, i.o1) - 1) IN
     h = "djnz_mem_offset" /\ Branches(WriteMem(m, i.o1, v), v # 0, i.o2, 3)
  \/ LET a == IndirAddress(m, i)
         v == ReadIndir(m, a)
     IN  /\ h = "xchd_a_indir_rx"
         /\ Ends(WriteIndir(SetA(m, A(m) - (A(m) % 16) + (v % 16)), a, v - (v % 16) + (A(m) % 16)), 1, 0)

OpsE(h, i) ==
  \/ h = "movx_a_indir_dptr" /\ Ends(XRead(m, DPTR(m)), 1, 2)
  \/ h = "movx_a_indir_rx" /\ Ends(XRead(m, XAddress(m, i)), 1, 2)
  \/ h = "clr_a" /\ Ends(SetA(m, 0), 1, 0)
  \/ LET read == SetA(m, ReadMem(m, i.o1)) IN
     h = "mov_a_mem" /\ Ends(IF i.o1 = ACC THEN Raise(read, "ACC_TO_A") ELSE read, 2, 0)
  \/ h = "mov_a_indir_rx" /\ Ends(SetA(m, ReadIndir(m, IndirAddress(m, i))), 1, 0)

OpsF(h, i) ==
  \/ h = "movx_indir_dptr_a" /\ Ends(XWrite(m, DPTR(m), A(m)), 1, 2)
  \/ h = "movx_indir_rx_a" /\ Ends(XWrite(m, XAddress(m, i), A(m)), 1, 2)
  \/ h = "cpl_a" /\ Ends(SetA(m, 255 - A(m)), 1, 0)
  \/ h = "mov_mem_a" /\ Ends(WriteMem(m, i.o1, A(m)), 2, 0)
  \/ h = "mov_indir_rx_a" /\ Ends(WriteIndir(m, IndirAddress(m, i), A(m)), 1, 0)
  \/ h = "nop" /\ Ends(IF i.op # 0 THEN Raise(m, "ILLEGAL_OPCODE") ELSE m, 1, 0)

OpsRx(h, i) ==
  LET v == Rx(m, i) IN
  \/ h = "inc_rx" /\ Ends(SetRx(m, i, B8(v + 1)), 1, 0)
  \/ h = "dec_rx" /\ Ends(SetRx(m, i, B8(v - 1)), 1, 0)
  \/ h = "add_a_rx" /\ Ends(Add(m, v, 0), 1, 0)
  \/ h = "addc_a_rx" /\ Ends(Add(m, v, Carry(m)), 1, 0)
  \/ h = "orl_a_rx" /\ Ends(SetA(m, Or8(A(m), v)), 1, 0)
  \/ h = "anl_a_rx" /\ Ends(SetA(m, And8(A(m), v)), 1, 0)
  \/ h = "xrl_a_rx" /\ Ends(SetA(m, Xor8(A(m), v)), 1, 0)
  \/ h = "mov_rx_imm" /\ Ends(SetRx(m, i, i.o1), 2, 0)
  \/ h = "mov_mem_rx" /\ Ends(WriteMem(m, i.o1, v), 2, 2)
  \/ h = "subb_a_rx" /\ Ends(Subb(m, v), 1, 0)
  \/ h = "mov_rx_mem" /\ Ends(SetRx(m, i, ReadMem(m, i.o1)), 2, 2)
  \/ h = "cjne_rx_imm_offset" /\ Branches(Compared(m, v, i.o1), v # i.o1, i.o2, 3)
  \/ h = "xch_a_rx" /\ Ends(SetRx(SetA(m, v), i, A(m)), 1, 0)
  \/ h = "djnz_rx_offset" /\ Branches(SetRx(m, i, B8(v - 1)), B8(v - 1) # 0, i.o1, 2)
  \/ h = "mov_a_rx" /\ Ends(SetA(m, v), 1, 0)
  \/ h = "mov_rx_a" /\ Ends(SetRx(m, i, A(m)), 1, 0)

-----------------------------------------------------------------------------
(* The two dispatchers: the table tick() calls through, and the switch     *)
(* emu8051.h offers beside it.  The table by the columns 0, 2 to 5, 6 and  *)
(* 7, 8 to 15, and column 1 by its row.                                    *)

Column(opcode) ==
  LET col == opcode % 16
  IN  CASE col = 0 -> 1 [] col \in 2 .. 6 -> col [] col = 7 -> 6 [] col > 7 -> 7

OpTable ==
  << <<"nop", "ljmp_address", "rr_a", "inc_a", "inc_mem", "inc_indir_rx", "inc_rx">>,
     <<"jbc_bitaddr_offset", "lcall_address", "rrc_a", "dec_a", "dec_mem", "dec_indir_rx", "dec_rx">>,
     <<"jb_bitaddr_offset", "ret", "rl_a", "add_a_imm", "add_a_mem", "add_a_indir_rx", "add_a_rx">>,
     <<"jnb_bitaddr_offset", "reti", "rlc_a", "addc_a_imm", "addc_a_mem", "addc_a_indir_rx", "addc_a_rx">>,
     <<"jc_offset", "orl_mem_a", "orl_mem_imm", "orl_a_imm", "orl_a_mem", "orl_a_indir_rx", "orl_a_rx">>,
     <<"jnc_offset", "anl_mem_a", "anl_mem_imm", "anl_a_imm", "anl_a_mem", "anl_a_indir_rx", "anl_a_rx">>,
     <<"jz_offset", "xrl_mem_a", "xrl_mem_imm", "xrl_a_imm", "xrl_a_mem", "xrl_a_indir_rx", "xrl_a_rx">>,
     <<"jnz_offset", "orl_c_bitaddr", "jmp_indir_a_dptr", "mov_a_imm", "mov_mem_imm", "mov_indir_rx_imm",
       "mov_rx_imm">>,
     <<"sjmp_offset", "anl_c_bitaddr", "movc_a_indir_a_pc", "div_ab", "mov_mem_mem", "mov_mem_indir_rx",
       "mov_mem_rx">>,
     <<"mov_dptr_imm", "mov_bitaddr_c", "movc_a_indir_a_dptr", "subb_a_imm", "subb_a_mem",
       "subb_a_indir_rx", "subb_a_rx">>,
     <<"orl_c_compl_bitaddr", "mov_c_bitaddr", "inc_dptr", "mul_ab", "nop", "mov_indir_rx_mem", "mov_rx_mem">>,
     <<"anl_c_compl_bitaddr", "cpl_bitaddr", "cpl_c", "cjne_a_imm_offset", "cjne_a_mem_offset",
       "cjne_indir_rx_imm_offset", "cjne_rx_imm_offset">>,
     <<"push_mem", "clr_bitaddr", "clr_c", "swap_a", "xch_a_mem", "xch_a_indir_rx", "xch_a_rx">>,
     <<"pop_mem", "setb_bitaddr", "setb_c", "da_a", "djnz_mem_offset", "xchd_a_indir_rx", "djnz_rx_offset">>,
     <<"movx_a_indir_dptr", "movx_a_indir_rx", "movx_a_indir_rx", "clr_a", "mov_a_mem", "mov_a_indir_rx",
       "mov_a_rx">>,
     <<"movx_indir_dptr_a", "movx_indir_rx_a", "movx_indir_rx_a", "cpl_a", "mov_mem_a", "mov_indir_rx_a",
       "mov_rx_a">> >>

OpPtr(opcode) ==
  CASE opcode % 32 = 1  -> "ajmp_offset"
    [] opcode % 32 = 17 -> "acall_offset"
    [] OTHER            -> OpTable[opcode \div 16 + 1][Column(opcode)]

\* The switch's cases in its own order: 0 to 7, each on its own, and 8 to F, which fall together.
Switch ==
  << <<"nop", "ajmp_offset", "ljmp_address", "rr_a", "inc_a", "inc_mem", "inc_indir_rx", "inc_indir_rx",
       "inc_rx">>,
     <<"jbc_bitaddr_offset", "acall_offset", "lcall_address", "rrc_a", "dec_a", "dec_mem",
       "dec_indir_rx", "dec_indir_rx", "dec_rx">>,
     <<"jb_bitaddr_offset", "ajmp_offset", "ret", "rl_a", "add_a_imm", "add_a_mem", "add_a_indir_rx",
       "add_a_indir_rx", "add_a_rx">>,
     <<"jnb_bitaddr_offset", "acall_offset", "reti", "rlc_a", "addc_a_imm", "addc_a_mem",
       "addc_a_indir_rx", "addc_a_indir_rx", "addc_a_rx">>,
     <<"jc_offset", "ajmp_offset", "orl_mem_a", "orl_mem_imm", "orl_a_imm", "orl_a_mem",
       "orl_a_indir_rx", "orl_a_indir_rx", "orl_a_rx">>,
     <<"jnc_offset", "acall_offset", "anl_mem_a", "anl_mem_imm", "anl_a_imm", "anl_a_mem",
       "anl_a_indir_rx", "anl_a_indir_rx", "anl_a_rx">>,
     <<"jz_offset", "ajmp_offset", "xrl_mem_a", "xrl_mem_imm", "xrl_a_imm", "xrl_a_mem",
       "xrl_a_indir_rx", "xrl_a_indir_rx", "xrl_a_rx">>,
     <<"jnz_offset", "acall_offset", "orl_c_bitaddr", "jmp_indir_a_dptr", "mov_a_imm", "mov_mem_imm",
       "mov_indir_rx_imm", "mov_indir_rx_imm", "mov_rx_imm">>,
     <<"sjmp_offset", "ajmp_offset", "anl_c_bitaddr", "movc_a_indir_a_pc", "div_ab", "mov_mem_mem",
       "mov_mem_indir_rx", "mov_mem_indir_rx", "mov_mem_rx">>,
     <<"mov_dptr_imm", "acall_offset", "mov_bitaddr_c", "movc_a_indir_a_dptr", "subb_a_imm",
       "subb_a_mem", "subb_a_indir_rx", "subb_a_indir_rx", "subb_a_rx">>,
     <<"orl_c_compl_bitaddr", "ajmp_offset", "mov_c_bitaddr", "inc_dptr", "mul_ab", "nop",
       "mov_indir_rx_mem", "mov_indir_rx_mem", "mov_rx_mem">>,
     <<"anl_c_compl_bitaddr", "acall_offset", "cpl_bitaddr", "cpl_c", "cjne_a_imm_offset",
       "cjne_a_mem_offset", "cjne_indir_rx_imm_offset", "cjne_indir_rx_imm_offset",
       "cjne_rx_imm_offset">>,
     <<"push_mem", "ajmp_offset", "clr_bitaddr", "clr_c", "swap_a", "xch_a_mem", "xch_a_indir_rx",
       "xch_a_indir_rx", "xch_a_rx">>,
     <<"pop_mem", "acall_offset", "setb_bitaddr", "setb_c", "da_a", "djnz_mem_offset",
       "xchd_a_indir_rx", "xchd_a_indir_rx", "djnz_rx_offset">>,
     <<"movx_a_indir_dptr", "ajmp_offset", "movx_a_indir_rx", "movx_a_indir_rx", "clr_a", "mov_a_mem",
       "mov_a_indir_rx", "mov_a_indir_rx", "mov_a_rx">>,
     <<"movx_indir_dptr_a", "acall_offset", "movx_indir_rx_a", "movx_indir_rx_a", "cpl_a", "mov_mem_a",
       "mov_indir_rx_a", "mov_indir_rx_a", "mov_rx_a">> >>

DoOp(opcode) == Switch[opcode \div 16 + 1][IF opcode % 16 < 8 THEN (opcode % 16) + 1 ELSE 9]

-----------------------------------------------------------------------------
(* History: the calls whose two stack bytes no later instruction names as  *)
(* a destination in its disassembly.                                       *)

Running == Sfr(m, PCON) % 4 = 0

Direct(a) == {<<IF a < 128 THEN "low" ELSE "sfr", a>>}
Indirect(a) == {<<IF a < 128 THEN "low" ELSE "up", a>>}
StackByte(k) == Indirect(B8(Sfr(m, SP) + k))

(* The bytes a printed operand stands for.                                 *)
Named(operand, i, external) ==
  CASE operand = "A"    -> Direct(ACC)
    [] operand = "AB"   -> Direct(ACC) \cup Direct(B)
    [] operand = "C"    -> Direct(PSW)
    [] operand = "DPTR" -> Direct(DPL) \cup Direct(DPH)
    [] operand = "R"    -> Direct(RxAddress(m, i))
    [] operand = "@R" /\ ~external -> Indirect(IndirAddress(m, i))
    [] operand = "m1"   -> Direct(i.o1)
    [] operand = "m2"   -> Direct(i.o2)
    [] operand = "b1"   -> Direct(IF i.o1 > 127 THEN BitByte(i.o1) ELSE BitByte(i.o1) + 32)
    [] OTHER            -> {}

Tests == {"CJNE", "JB", "JNB", "JC", "JNC", "JZ", "JNZ", "SJMP", "AJMP", "LJMP", "JMP",
          "NOP", "??UNKNOWN"}

(* Where the disassembled instruction t may store.                         *)
Destinations(t, i) ==
  LET operand(k) == Named(t.operands[k], i, t.mnemonic = "MOVX")
  IN  CASE t.mnemonic \in Tests              -> {}
        [] t.mnemonic = "PUSH"               -> Direct(SP) \cup StackByte(1)
        [] t.mnemonic \in {"ACALL", "LCALL"} -> Direct(SP) \cup StackByte(1) \cup StackByte(2)
        [] t.mnemonic \in {"RET", "RETI"}    -> Direct(SP)
        [] t.mnemonic = "POP"                -> Direct(SP) \cup operand(1)
        [] t.mnemonic \in {"XCH", "XCHD"}    -> operand(1) \cup operand(2)
        [] OTHER                             -> operand(1)

Exists(bytes) == \A x \in bytes : x[1] = "up" => HasUpper

FrameBytes(f) == Indirect(f.at) \cup Indirect(B8(f.at + 1))

NewFrames(t, i) ==
  IF t.mnemonic \in {"ACALL", "LCALL"} /\ Exists(StackByte(1) \cup StackByte(2))
  THEN {[at |-> B8(Sfr(m, SP) + 1), return |-> W16(m.pc + t.length)]}
  ELSE {}

Returning(f, t) == t.mnemonic \in {"RET", "RETI"} /\ f.at = B8(Sfr(m, SP) - 1)

-----------------------------------------------------------------------------
(* The machine as reset leaves it but for the registers Start gives.       *)
Init ==
  /\ \E s \in Start, level \in Pins :
       LET ports == [p \in Port |-> [drive |-> 255, m1 |-> 0, m0 |-> 0]]
           high == [a \in {PortAt[p] : p \in Port} |-> 255]
           regs == Put(Put(Put(Put(high, ACC, s.acc), B, s.b), PSW, s.psw), SP, s.sp)
       IN  m = [pc |-> s.pc, low |-> <<>>, up |-> <<>>, sfr |-> regs, xdata |-> <<>>,
                ext |-> level, shadow |-> ports, board |-> ports, raised |-> {}]
  /\ cycles = 0 /\ step = 0 /\ last = [op |-> 0, o1 |-> 0, o2 |-> 0] /\ frames = {}

Handle(h, i) ==
  \/ Ops0(h, i) \/ Ops1(h, i) \/ Ops2(h, i) \/ Ops3(h, i) \/ Ops4(h, i) \/ Ops5(h, i)
  \/ Ops6(h, i) \/ Ops7(h, i) \/ Ops8(h, i) \/ Ops9(h, i) \/ OpsA(h, i) \/ OpsB(h, i)
  \/ OpsC(h, i) \/ OpsD(h, i) \/ OpsE(h, i) \/ OpsF(h, i) \/ OpsRx(h, i)

Execute(h, i) ==
  /\ Running
  /\ Handle(h, i)
  /\ step' = step + 1
  /\ last' = i
  /\ LET t == Dec(i.op) IN
     frames' = {f \in frames : /\ FrameBytes(f) \cap Destinations(t, i) = {}
                               /\ ~Returning(f, t)}
               \cup NewFrames(t, i)

Next ==
  /\ step < Len(Menu)
  /\ \E i \in Menu[step + 1] : \E h \in {OpPtr(i.op), DoOp(i.op)} : Execute(h, i)

Spec == Init /\ [][Next]_vars

-----------------------------------------------------------------------------
Memory(f, addresses) == DOMAIN f \subseteq addresses /\ \A a \in DOMAIN f : f[a] \in Byte

(* Registers and memory hold bytes at addresses that exist, the program    *)
(* counter and every return address 16 bits: no handler forgets a cast.    *)
TypeOK ==
  /\ m.pc \in Word /\ m.ext \in Pins
  /\ Memory(m.low, 0 .. 127) /\ Memory(m.up, 128 .. 255) /\ Memory(m.sfr, 128 .. 255)
  /\ Memory(m.xdata, Word)
  /\ \A p \in Port : m.shadow[p] \in [drive : Byte, m1 : Byte, m0 : Byte]
  /\ m.raised \subseteq {"STACK", "ACC_TO_A", "ILLEGAL_OPCODE"}
  /\ cycles \in {0, 2, 4} /\ step \in 0 .. Len(Menu)
  /\ \A f \in frames : f.at \in Byte /\ f.return \in Word

Text == Dec(last'.op)

Changed ==
  {<<"low", a>> : a \in {x \in DOMAIN m.low' : At(m.low', x) # At(m.low, x)}}
  \cup {<<"up", a>> : a \in {x \in DOMAIN m.up' : At(m.up', x) # At(m.up, x)}}
  \cup {<<"sfr", a>> : a \in {x \in DOMAIN m.sfr' : At(m.sfr', x) # At(m.sfr, x)}}

(* The flags an instruction may set, the parity of A aside.                *)
FlagsOf(mnemonic) ==
  CASE mnemonic \in {"ADD", "ADDC", "SUBB"}       -> {7, 6, 2}
    [] mnemonic \in {"MUL", "DIV"}                -> {7, 2}
    [] mnemonic \in {"CJNE", "DA", "RRC", "RLC"}  -> {7}
    [] OTHER                                      -> {}

(* An instruction stores only into the bytes its disassembly names, the    *)
(* stack bytes and pointer it implies, and the flags it is defined to set: *)
(* a PUSH or CALL with SP at 7FH must not reach a port (the comment of     *)
(* push_to_stack tells of one that did), an Rn of one bank not another's.  *)
WritesWhatItNames ==
  [][ LET named == Destinations(Text, last')
          psw == <<"sfr", PSW>>
      IN  /\ Changed \subseteq named \cup {psw}
          /\ psw \notin named =>
               \A k \in 0 .. 7 : Bit(Sfr(m, PSW), k) # Bit(Sfr(m', PSW), k)
                                 => k \in FlagsOf(Text.mnemonic) \cup {0} ]_vars

Offsets == {"r1", "r2"}

(* Control goes to the next instruction by the length disasm.c gives, or   *)
(* to the target it prints: lengths and targets are computed twice, and    *)
(* AJMP and ACALL at the end of a 2K page in the page of the next one.     *)
GoesWhereItSays ==
  [][ LET t == Text
          i == last'
          next == W16(m.pc + t.length)
          final == IF t.operands = <<>> THEN "" ELSE t.operands[Len(t.operands)]
      IN  CASE t.mnemonic \in {"RET", "RETI"} -> TRUE
            [] t.mnemonic = "SJMP"   -> m'.pc = W16(next + Signed(i.o1))
            [] final = "r1" /\ t.mnemonic # "SJMP" -> m'.pc \in {next, W16(next + Signed(i.o1))}
            [] final = "r2"          -> m'.pc \in {next, W16(next + Signed(i.o2))}
            [] final = "a11"         -> m'.pc = Address11(m.pc, i.op, i.o1)
            [] final = "a16"         -> m'.pc = Address16(i.o1, i.o2)
            [] t.mnemonic = "JMP"    -> m'.pc = W16(DPTR(m) + A(m))
            [] OTHER                 -> m'.pc = next ]_vars

(* What the second operand of an arithmetic instruction reads.             *)
Operand(operand, i) ==
  CASE operand = "#1" -> i.o1
    [] operand = "m1" -> ReadMem(m, i.o1)
    [] operand = "@R" -> ReadIndir(m, IndirAddress(m, i))
    [] operand = "R"  -> Rx(m, i)

(* Carry, overflow and result make the integer result: of an unsigned sum  *)
(* or difference with C as its ninth bit, of a signed one unless OV.  MUL  *)
(* and DIV are exact over A and B.                                         *)
ArithmeticExact ==
  [][ LET t == Text
          mn == t.mnemonic
          a == A(m)
          b == Sfr(m, B)
          c == IF mn = "ADD" THEN 0 ELSE Carry(m)
          overflow == Bit(Sfr(m', PSW), 2) = 1
      IN  /\ mn \in {"ADD", "ADDC"} =>
               LET v == Operand(t.operands[2], last') IN
               /\ A(m') + 256 * Carry(m') = a + v + c
               /\ overflow <=> Signed(a) + Signed(v) + c \notin -128 .. 127
          /\ mn = "SUBB" =>
               LET v == Operand(t.operands[2], last') IN
               /\ A(m') - 256 * Carry(m') = a - v - c
               /\ overflow <=> Signed(a) - Signed(v) - c \notin -128 .. 127
          /\ mn = "MUL" => /\ A(m') + 256 * Sfr(m', B) = a * b
                           /\ overflow <=> a * b > 255
          /\ mn = "DIV" => /\ overflow <=> b = 0
                           /\ b # 0 => a = A(m') * b + Sfr(m', B) /\ Sfr(m', B) < b ]_vars

(* A RET on an intact frame goes to the instruction after its CALL, high   *)
(* and low byte in order, wherever on the stack the frame is.              *)
ReturnsHome ==
  [][ \A f \in frames : Returning(f, Text) => m'.pc = f.return ]_vars

(* SETB, CLR, CPL, MOV bit,C and JBC on a port change that one bit of the  *)
(* latch, whatever the board puts on the pins: "the value used as the      *)
(* original data will be read from the output data latch, not the input    *)
(* pin" (opcodes.c).                                                       *)
BitOpsKeepLatch ==
  [][ \A p \in Port :
        (/\ Text.operands # <<>> /\ Text.operands[1] = "b1"
         /\ BitByte(last'.o1) = PortAt[p])
        => \A k \in 0 .. 7 \ {last'.o1 % 8} :
             Bit(Sfr(m', PortAt[p]), k) = Bit(Sfr(m, PortAt[p]), k) ]_vars

(* After every instruction the board has been told the drive and the mode  *)
(* each pin has: no handler stores into a port behind its callback.        *)
BoardSeesPins == \A p \in Port : m.board[p] = Wires(m, p)

(* "Auxiliary carry: overflow from 3th bit to 4th bit" (opcodes.c, at      *)
(* add_solve_flags): AC after an addition is the carry of the low digits,  *)
(* which DA A needs to correct a BCD sum.                                  *)
AuxCarryOfLowDigit ==
  [][ Text.mnemonic \in {"ADD", "ADDC"} =>
        LET v == Operand(Text.operands[2], last')
            c == IF Text.mnemonic = "ADD" THEN 0 ELSE Carry(m)
        IN  Bit(Sfr(m', PSW), 6) = ((A(m) % 16) + (v % 16) + c) \div 16 ]_vars
=============================================================================
