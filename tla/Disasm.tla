------------------------------- MODULE Disasm -------------------------------
(***************************************************************************)
(* The disassembler of disasm.c: what it prints for each opcode and the    *)
(* length it returns.  A line of disassembly is a mnemonic, its operands   *)
(* and a length.  An operand is named by what is printed for it:           *)
(*   "#1" "#2" "#16"   OPERAND1, OPERAND2 or both as an immediate          *)
(*   "m1" "m2"         a direct address, by register name or in hex        *)
(*   "@R" "R"          @R0/@R1 or R0..R7, the number taken from the opcode *)
(*   "b1" "/b1"        a bit address                                       *)
(*   "r1" "r2"         a signed jump offset                                *)
(*   "a11" "a16"       a jump target                                       *)
(* and anything else is printed as it stands.  Rows are the high digit of  *)
(* the opcode, columns the low one: 0 to 5 on their own, 6 and 7 alike, 8  *)
(* to 15 alike.                                                            *)
(***************************************************************************)
EXTENDS Integers, Sequences

LOCAL Asm(mnemonic, operands, length) ==
    [mnemonic |-> mnemonic, operands |-> operands, length |-> length]

AJMP == Asm("AJMP", <<"a11">>, 2)

ACALL == Asm("ACALL", <<"a11">>, 2)

(* Columns 0 and 2 to 7 of each row, in the order disasm.c defines them.   *)
Row0 == <<Asm("NOP", <<>>, 1), Asm("LJMP", <<"a16">>, 3), Asm("RR", <<"A">>, 1),
          Asm("INC", <<"A">>, 1), Asm("INC", <<"m1">>, 2), Asm("INC", <<"@R">>, 1)>>

Row1 == <<Asm("JBC", <<"b1", "r2">>, 3), Asm("LCALL", <<"a16">>, 3),
          Asm("RRC", <<"A">>, 1), Asm("DEC", <<"A">>, 1), Asm("DEC", <<"m1">>, 2),
          Asm("DEC", <<"@R">>, 1)>>

Row2 == <<Asm("JB", <<"b1", "r2">>, 3), Asm("RET", <<>>, 1), Asm("RL", <<"A">>, 1),
          Asm("ADD", <<"A", "#1">>, 2), Asm("ADD", <<"A", "m1">>, 2),
          Asm("ADD", <<"A", "@R">>, 1)>>

Row3 == <<Asm("JNB", <<"b1", "r2">>, 3), Asm("RETI", <<>>, 1), Asm("RLC", <<"A">>, 1),
          Asm("ADDC", <<"A", "#1">>, 2), Asm("ADDC", <<"A", "m1">>, 2),
          Asm("ADDC", <<"A", "@R">>, 1)>>

(* ORL, ANL and XRL: rows 4 to 6 differ in the mnemonic and the jump.      *)
LOCAL Logic(jump, name) ==
    <<Asm(jump, <<"r1">>, 2), Asm(name, <<"m1", "A">>, 2), Asm(name, <<"m1", "#2">>, 3),
      Asm(name, <<"A", "#1">>, 2), Asm(name, <<"A", "m1">>, 2), Asm(name, <<"A", "@R">>, 1)>>

Row4 == Logic("JC", "ORL")

Row5 == Logic("JNC", "ANL")

Row6 == Logic("JZ", "XRL")

Row7 == <<Asm("JNZ", <<"r1">>, 2), Asm("ORL", <<"C", "b1">>, 2),
          Asm("JMP", <<"@A+DPTR">>, 1), Asm("MOV", <<"A", "#1">>, 2),
          Asm("MOV", <<"m1", "#2">>, 3), Asm("MOV", <<"@R", "#1">>, 2)>>

Row8 == <<Asm("SJMP", <<"r1">>, 2), Asm("ANL", <<"C", "b1">>, 2),
          Asm("MOVC", <<"A", "@A+PC">>, 1), Asm("DIV", <<"AB">>, 1),
          Asm("MOV", <<"m2", "m1">>, 3), Asm("MOV", <<"m1", "@R">>, 2)>>

Row9 == <<Asm("MOV", <<"DPTR", "#16">>, 3), Asm("MOV", <<"b1", "C">>, 2),
          Asm("MOVC", <<"A", "@A+DPTR">>, 1), Asm("SUBB", <<"A", "#1">>, 2),
          Asm("SUBB", <<"A", "m1">>, 2), Asm("SUBB", <<"A", "@R">>, 1)>>

RowA == <<Asm("ORL", <<"C", "/b1">>, 2), Asm("MOV", <<"C", "b1">>, 2),
          Asm("INC", <<"DPTR">>, 1), Asm("MUL", <<"AB">>, 1), Asm("??UNKNOWN", <<>>, 1),
          Asm("MOV", <<"@R", "m1">>, 2)>>

RowB == <<Asm("ANL", <<"C", "/b1">>, 2), Asm("CPL", <<"b1">>, 2), Asm("CPL", <<"C">>, 1),
          Asm("CJNE", <<"A", "#1", "r2">>, 3), Asm("CJNE", <<"A", "m1", "r2">>, 3),
          Asm("CJNE", <<"@R", "#1", "r2">>, 3)>>

RowC == <<Asm("PUSH", <<"m1">>, 2), Asm("CLR", <<"b1">>, 2), Asm("CLR", <<"C">>, 1),
          Asm("SWAP", <<"A">>, 1), Asm("XCH", <<"A", "m1">>, 2), Asm("XCH", <<"A", "@R">>, 1)>>

RowD == <<Asm("POP", <<"m1">>, 2), Asm("SETB", <<"b1">>, 2), Asm("SETB", <<"C">>, 1),
          Asm("DA", <<"A">>, 1), Asm("DJNZ", <<"m1", "r2">>, 3), Asm("XCHD", <<"A", "@R">>, 1)>>

RowE == <<Asm("MOVX", <<"A", "@DPTR">>, 1), Asm("MOVX", <<"A", "@R">>, 1),
          Asm("MOVX", <<"A", "@R">>, 1), Asm("CLR", <<"A">>, 1),
          Asm("MOV", <<"A", "m1">>, 2), Asm("MOV", <<"A", "@R">>, 1)>>

RowF == <<Asm("MOVX", <<"@DPTR", "A">>, 1), Asm("MOVX", <<"@R", "A">>, 1),
          Asm("MOVX", <<"@R", "A">>, 1), Asm("CPL", <<"A">>, 1),
          Asm("MOV", <<"m1", "A">>, 2), Asm("MOV", <<"@R", "A">>, 1)>>

(* Columns 8 to 15, by row.                                                *)
Registers ==
    <<Asm("INC", <<"R">>, 1), Asm("DEC", <<"R">>, 1), Asm("ADD", <<"A", "R">>, 1),
      Asm("ADDC", <<"A", "R">>, 1), Asm("ORL", <<"A", "R">>, 1), Asm("ANL", <<"A", "R">>, 1),
      Asm("XRL", <<"A", "R">>, 1), Asm("MOV", <<"R", "#1">>, 2), Asm("MOV", <<"m1", "R">>, 2),
      Asm("SUBB", <<"A", "R">>, 1), Asm("MOV", <<"R", "m1">>, 2),
      Asm("CJNE", <<"R", "#1", "r2">>, 3), Asm("XCH", <<"A", "R">>, 1),
      Asm("DJNZ", <<"R", "r1">>, 2), Asm("MOV", <<"A", "R">>, 1), Asm("MOV", <<"R", "A">>, 1)>>

(* The table disasm_setptrs builds.                                        *)
Dec(opcode) ==
    LET row == opcode \div 16 + 1
        col == opcode % 16
        rows == <<Row0, Row1, Row2, Row3, Row4, Row5, Row6, Row7,
                  Row8, Row9, RowA, RowB, RowC, RowD, RowE, RowF>>
    IN  CASE col > 7 -> Registers[row]
          [] col = 1 -> IF row % 2 = 1 THEN AJMP ELSE ACALL
          [] col = 0 -> rows[row][1]
          [] OTHER   -> rows[row][IF col = 7 THEN 6 ELSE col]

(* decode(): a stopped processor has no next instruction, and no length.   *)
Decode(pcon, opcode) ==
    CASE pcon % 2 = 1        -> Asm("IDLE", <<>>, 0)
      [] (pcon \div 2) % 2 = 1 -> Asm("POWER DOWN", <<>>, 0)
      [] OTHER               -> Dec(opcode)

(* The byte of an operand's bit as printed: a register's name, or the      *)
(* number of the byte within the bit-addressable area.                     *)
BitByte(address) == IF address > 127 THEN address - (address % 8) ELSE address \div 8

(* The target printed for a jump within the page, and for a long one.      *)
Address11(position, opcode, operand) ==
    (((position + 2) % 65536) \div 2048) * 2048 + (opcode \div 32) * 256 + operand

Address16(operand1, operand2) == operand1 * 256 + operand2
=============================================================================
