------------------------------ MODULE MCOpcodes ------------------------------
(* A firmware of three instructions: one that sets the scene, any of the   *)
(* 256 opcodes with operands that reach registers, both memories, a port,  *)
(* the stack pointer and the flags, and one that shows what is left.       *)
EXTENDS Opcodes

I(op, o1, o2) == [op |-> op, o1 |-> o1, o2 |-> o2]

Operand1(operand) ==
  CASE operand \in {"m1"}        -> {48, 144, ACC, SP}
    [] operand \in {"b1", "/b1"} -> {7, 147, 148, 215}
    [] operand \in {"#1", "#16"} -> {0, 127, 128, 200}
    [] operand \in {"r1", "r2"}  -> {254}
    [] operand = "m2"            -> {PSW, 145}
    [] operand \in {"a11", "a16"} -> {18}
    [] OTHER -> {}

(* For a row's column 8 to 15 two registers stand for all.                 *)
MCOpcodesUsed == {op \in Byte : op % 16 \in {0, 1, 2, 3, 4, 5, 6, 7, 8, 15}}

Instructions(op) ==
  LET t == Dec(op)
      firsts == UNION {Operand1(t.operands[k]) :
                       k \in {x \in DOMAIN t.operands : t.operands[x] \notin {"#2", "r2", "m2"}}}
      seconds == UNION {Operand1(t.operands[k]) :
                        k \in {x \in DOMAIN t.operands : t.operands[x] \in {"r2", "m2"}}}
  IN  {I(op, o1, o2) : o1 \in (IF firsts = {} THEN {0} ELSE firsts),
                       o2 \in (IF seconds = {} THEN {60} ELSE seconds)}

Scene == {I(0, 0, 0),            \* NOP
          I(18, 3, 232),         \* LCALL
          I(17, 16, 0),          \* ACALL
          I(192, ACC, 0),        \* PUSH ACC
          I(117, 144, 15),       \* MOV P1,#0FH
          I(117, 145, 240),      \* MOV P1M1,#0F0H
          I(117, PSW, 152),      \* MOV PSW,#98H
          I(144, 255, 255),      \* MOV DPTR,#0FFFFH
          I(120, 144, 0),        \* MOV R0,#90H
          I(36, 4, 0),           \* ADD A,#4
          I(117, PCON, 1)}       \* MOV PCON,#1
Any == UNION {Instructions(op) : op \in MCOpcodesUsed}
Shows == {I(34, 0, 0),           \* RET
          I(208, 144, 0),        \* POP P1
          I(210, 147, 0),        \* SETB P1.3
          I(212, 0, 0)}          \* DA A

MCMenu == <<Scene, Any, Shows>>

Regs(acc, b, psw, sp, pc) == [acc |-> acc, b |-> b, psw |-> psw, sp |-> sp, pc |-> pc]
MCStart == {Regs(154, 3, 0, 7, 100), Regs(128, 0, 129, 126, 2044),
            Regs(0, 255, 64, 253, 65531), Regs(255, 16, 128, 6, 2045)}
MCPins == {255, 247}
MCConstants == {0, 165}
=============================================================================
