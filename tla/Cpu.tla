-------------------------------- MODULE Cpu ---------------------------------
(***************************************************************************)
(* The functional emulation of the 6502 (cpu.cpp), one clock cycle at a    *)
(* time.  A cycle is a function on the state c of the processor: its       *)
(* registers, the latches of an instruction under way, and the bytes it    *)
(* has on the bus.  The address bus is abstracted to a memory that holds   *)
(* c.mem, and Rest(address) everywhere else.                               *)
(*                                                                         *)
(* The two tables of 256 entries are given by their inverses, and each     *)
(* addressing routine, a switch over the cycle, by the statements it       *)
(* executes in each cycle.  adl/adh and bal/bah are the latches of the     *)
(* code; ial/iah share the latter.                                         *)
(*                                                                         *)
(* Nothing calls IRQ() or NMI(), so neither is ever pending; they are left *)
(* out.                                                                    *)
(***************************************************************************)
EXTENDS Integers, SequencesExt

CONSTANT Rest(_)   \* the byte at an address the program has not written

IRQ_VECTOR   == \hFFFE
RESET_VECTOR == \hFFFC
RESET        == \h101    \* the pseudo operation code of a reset

Bytes == 0 .. \hFF
Words == 0 .. 2 ^ 16 - 1
Flags == {"N", "V", "M", "B", "D", "I", "Z", "C"}

ASSUME CpuAssumption == \A address \in Words : Rest(address) \in Bytes

\* What a program has written: bytes at some addresses.
IsMemory(mem) ==
  DOMAIN mem \subseteq Words /\ \A address \in DOMAIN mem : mem[address] \in Bytes

Byte(n)  == n % \h100
Word(n)  == n % 2 ^ 16
Low(n)   == n % \h100
High(n)  == n \div \h100
Pair(lo, hi) == hi * \h100 + lo

Digit(n) == n % 16
Tens(n)  == (n \div 16) % 16

BitSet(n, i) == (n \div 2 ^ i) % 2 = 1
Bits(n)      == {i \in 0 .. 7 : BitSet(n, i)}
FromBits(S)  == MapThenSumSet(LAMBDA i : 2 ^ i, S)

\* Status register and byte.
FlagBit == [C |-> 0, Z |-> 1, I |-> 2, D |-> 3, B |-> 4, M |-> 5, V |-> 6, N |-> 7]
PByte(p)  == FromBits({FlagBit[f] : f \in p})
PFlags(n) == {f \in Flags : BitSet(n, FlagBit[f])}

BusRead(c, address) == IF address \in DOMAIN c.mem THEN c.mem[address] ELSE Rest(address)

BusWrite(c) ==
  [c EXCEPT !.mem = [address \in {c.address} \cup DOMAIN c.mem |->
                       IF address = c.address THEN c.data ELSE c.mem[address]]]

-----------------------------------------------------------------------------
(* Operations.                                                             *)

SetP(p, f, on) == IF on THEN p \cup {f} ELSE p \ {f}

\* setStatusRegisterNZ
NZ(c, val) == [c EXCEPT !.p = SetP(SetP(c.p, "N", BitSet(val, 7)), "Z", val = 0)]

LoadA(c, val) == NZ([c EXCEPT !.a = val], val)
LoadX(c, val) == NZ([c EXCEPT !.x = val], val)
LoadY(c, val) == NZ([c EXCEPT !.y = val], val)
Data(c, val)  == NZ([c EXCEPT !.data = val], val)

Compare(c, r) ==
  NZ([c EXCEPT !.p = SetP(c.p, "C", r - c.data >= 0)], Byte(r - c.data))

Carry(c) == IF "C" \in c.p THEN 1 ELSE 0

\* shiftLeft, shiftRight, rotateLeft and rotateRight of a byte: its value, and
\* the bit that goes to the carry.
ShiftLeft(byt)      == [val |-> Byte(byt * 2), out |-> BitSet(byt, 7)]
ShiftRight(byt)     == [val |-> byt \div 2, out |-> BitSet(byt, 0)]
RotateLeft(c, byt)  == [val |-> Byte(byt * 2) + Carry(c), out |-> BitSet(byt, 7)]
RotateRight(c, byt) == [val |-> byt \div 2 + \h80 * Carry(c), out |-> BitSet(byt, 0)]

Carrying(c, shifted) == [c EXCEPT !.p = SetP(c.p, "C", shifted.out)]
DataShifted(c, shifted) == Data(Carrying(c, shifted), shifted.val)
AShifted(c, shifted)    == LoadA(Carrying(c, shifted), shifted.val)

\* Whether bit 7 of r is not the sign of the sum of op1 and op2.
Overflow(op1, op2, r) ==
  BitSet(op1, 7) # BitSet(r, 7) /\ BitSet(op1, 7) = BitSet(op2, 7)

BinaryADC(c) ==
  LET tmp == c.a + c.data + Carry(c)
      p   == SetP(SetP(c.p, "V", Overflow(c.a, c.data, Byte(tmp))), "C", tmp >= \h100)
  IN  LoadA([c EXCEPT !.p = p], Byte(tmp))

\* The negative flag would be set by a sum below zero.
DecimalADC(c) ==
  LET low  == Digit(c.a) + Digit(c.data) + Carry(c)
      tmp  == IF low >= 10 THEN low + 6 ELSE low
      sum  == 16 * (Tens(c.a) + Tens(c.data) + Tens(tmp))
      tens == IF sum >= 160 THEN sum + 96 ELSE sum
      pZ   == SetP(c.p, "Z", Byte(c.a + c.data + Carry(c)) = 0)
      pV   == SetP(pZ \ {"N"}, "V", Overflow(c.a, c.data, sum))
  IN  [c EXCEPT !.a = Digit(tmp) + Byte(tens), !.p = SetP(pV, "C", tens >= \h100)]

BinarySBC(c) ==
  LET tmp == c.a - c.data - (1 - Carry(c))
      v   == /\ BitSet(c.a, 7) # BitSet(c.data, 7)
             /\ BitSet(c.a, 7) # BitSet(Byte(tmp), 7)
  IN  LoadA([c EXCEPT !.p = SetP(SetP(c.p, "V", v), "C", tmp >= 0)], Byte(tmp))

DecimalSBC(c) ==
  LET low  == Digit(c.a) - Digit(c.data) - (1 - Carry(c))
      tmp  == IF low % 32 >= 16 THEN low - 6 ELSE low
      diff == 16 * (Tens(c.a) - Tens(c.data)) - (IF tmp % 32 >= 16 THEN 16 ELSE 0)
      tens == IF diff % 512 >= 256 THEN diff - 96 ELSE diff
      bin  == c.a - c.data - (1 - Carry(c))
  IN  NZ([c EXCEPT !.a = Digit(tmp) + Byte(tens), !.p = SetP(c.p, "C", bin >= 0)], Byte(bin))

ADC(c) == IF "D" \in c.p THEN DecimalADC(c) ELSE BinaryADC(c)
SBC(c) == IF "D" \in c.p THEN DecimalSBC(c) ELSE BinarySBC(c)

\* BIT
TestBits(c) ==
  LET pVN == SetP(SetP(c.p, "V", BitSet(c.data, 6)), "N", BitSet(c.data, 7))
  IN  [c EXCEPT !.p = SetP(pVN, "Z", Bits(c.data) \cap Bits(c.a) = {})]

\* The table of operations: the codes of each; Unoff is the others.
ExecCodes ==
 [ORA |-> {\h01, \h05, \h09, \h0D, \h11, \h15, \h19, \h1D},
  AND |-> {\h21, \h25, \h29, \h2D, \h31, \h35, \h39, \h3D},
  EOR |-> {\h41, \h45, \h49, \h4D, \h51, \h55, \h59, \h5D},
  ADC |-> {\h61, \h65, \h69, \h6D, \h71, \h75, \h79, \h7D},
  STA |-> {\h81, \h85, \h8D, \h91, \h95, \h99, \h9D},
  LDA |-> {\hA1, \hA5, \hA9, \hAD, \hB1, \hB5, \hB9, \hBD},
  CMP |-> {\hC1, \hC5, \hC9, \hCD, \hD1, \hD5, \hD9, \hDD},
  SBC |-> {\hE1, \hE5, \hE9, \hED, \hF1, \hF5, \hF9, \hFD},
  ASL |-> {\h06, \h0E, \h16, \h1E}, ROL |-> {\h26, \h2E, \h36, \h3E},
  LSR |-> {\h46, \h4E, \h56, \h5E}, ROR |-> {\h66, \h6E, \h76, \h7E},
  DEC |-> {\hC6, \hCE, \hD6, \hDE}, INC |-> {\hE6, \hEE, \hF6, \hFE},
  LDX |-> {\hA2, \hA6, \hAE, \hB6, \hBE}, LDY |-> {\hA0, \hA4, \hAC, \hB4, \hBC},
  STX |-> {\h86, \h8E, \h96}, STY |-> {\h84, \h8C, \h94},
  CPX |-> {\hE0, \hE4, \hEC}, CPY |-> {\hC0, \hC4, \hCC},
  BIT |-> {\h24, \h2C}, JMP |-> {\h4C, \h6C},
  ASL_A |-> {\h0A}, ROL_A |-> {\h2A}, LSR_A |-> {\h4A}, ROR_A |-> {\h6A},
  BRK |-> {\h00}, JSR |-> {\h20}, RTI |-> {\h40}, RTS |-> {\h60},
  PHP |-> {\h08}, PLP |-> {\h28}, PHA |-> {\h48}, PLA |-> {\h68},
  BPL |-> {\h10}, BMI |-> {\h30}, BVC |-> {\h50}, BVS |-> {\h70},
  BCC |-> {\h90}, BCS |-> {\hB0}, BNE |-> {\hD0}, BEQ |-> {\hF0},
  CLC |-> {\h18}, SEC |-> {\h38}, CLI |-> {\h58}, SEI |-> {\h78},
  CLV |-> {\hB8}, CLD |-> {\hD8}, SED |-> {\hF8}, NOP |-> {\hEA},
  TAX |-> {\hAA}, TXA |-> {\h8A}, TAY |-> {\hA8}, TYA |-> {\h98},
  TSX |-> {\hBA}, TXS |-> {\h9A}, DEX |-> {\hCA}, INX |-> {\hE8},
  DEY |-> {\h88}, INY |-> {\hC8},
  Unoff1 |-> {\h1A, \h3A, \h5A, \h7A, \hDA, \hFA},
  Unoff2 |-> {\h04, \h14, \h34, \h44, \h54, \h64, \h74, \h80, \h82, \h89, \hC2, \hD4,
              \hE2, \hF4},
  Unoff3 |-> {\h0C, \h1C, \h3C, \h5C, \h7C, \hDC, \hFC},
  Hang   |-> {\h02, \h12, \h22, \h32, \h42, \h52, \h62, \h72, \h92, \hB2, \hD2, \hF2}]

\* The entry of a code in a table given by its inverse.
Entry(codes, code, otherwise) ==
  LET names == {n \in DOMAIN codes : code \in codes[n]}
  IN  IF names = {} THEN otherwise ELSE CHOOSE n \in names : TRUE

ExecTable == [code \in 0 .. \hFF |-> Entry(ExecCodes, code, "Unoff")]

Branches == [BPL |-> <<"N", FALSE>>, BMI |-> <<"N", TRUE>>, BVC |-> <<"V", FALSE>>,
             BVS |-> <<"V", TRUE>>,  BCC |-> <<"C", FALSE>>, BCS |-> <<"C", TRUE>>,
             BNE |-> <<"Z", FALSE>>, BEQ |-> <<"Z", TRUE>>]

FlagOps == [CLC |-> <<"C", FALSE>>, SEC |-> <<"C", TRUE>>, CLI |-> <<"I", FALSE>>,
            SEI |-> <<"I", TRUE>>,  CLV |-> <<"V", FALSE>>, CLD |-> <<"D", FALSE>>,
            SED |-> <<"D", TRUE>>]

\* STA, STX and STY put a register on the bus.
Stored(c, op) ==
  [c EXCEPT !.data = CASE op = "STA" -> c.a [] op = "STX" -> c.x [] op = "STY" -> c.y]

\* AND, ORA and EOR, on the sets of bits that are 1.
Logic(c, op) ==
  LET both == Bits(c.a) \cap Bits(c.data)
      any  == Bits(c.a) \cup Bits(c.data)
  IN  LoadA(c, FromBits(CASE op = "AND" -> both [] op = "ORA" -> any [] op = "EOR" -> any \ both))

\* The transfers: only TXS leaves the flags alone.
Transferred(c, op) ==
  CASE op = "TAX" -> LoadX(c, c.a)
    [] op = "TXA" -> LoadA(c, c.x)
    [] op = "TAY" -> LoadY(c, c.a)
    [] op = "TYA" -> LoadA(c, c.y)
    [] op = "TXS" -> [c EXCEPT !.s = c.x]
    [] op = "TSX" -> LoadX(c, c.s)

\* NOP and the operations that are not documented: most do nothing, some skip the
\* bytes that follow, and one stays where it is.
Undocumented(c, op) ==
  CASE op = "Unoff2" -> [c EXCEPT !.pc = Word(c.pc + 1)]
    [] op = "Unoff3" -> [c EXCEPT !.pc = Word(c.pc + 2)]
    [] op = "Hang"   -> [c EXCEPT !.pc = Word(c.pc - 1)]
    [] OTHER         -> c

\* execute
Execute(c) ==
  LET op == ExecTable[c.opcode] IN
  CASE op = "LDA" -> LoadA(c, c.data)
    [] op = "LDX" -> LoadX(c, c.data)
    [] op = "LDY" -> LoadY(c, c.data)
    [] op \in {"STA", "STX", "STY"} -> Stored(c, op)
    [] op = "PHA" -> [c EXCEPT !.data = c.a]
    [] op = "CMP" -> Compare(c, c.a)
    [] op = "CPX" -> Compare(c, c.x)
    [] op = "CPY" -> Compare(c, c.y)
    [] op \in {"AND", "ORA", "EOR"} -> Logic(c, op)
    [] op = "ASL" -> DataShifted(c, ShiftLeft(c.data))
    [] op = "LSR" -> DataShifted(c, ShiftRight(c.data))
    [] op = "ROL" -> DataShifted(c, RotateLeft(c, c.data))
    [] op = "ROR" -> DataShifted(c, RotateRight(c, c.data))
    [] op = "ASL_A" -> AShifted(c, ShiftLeft(c.a))
    [] op = "LSR_A" -> AShifted(c, ShiftRight(c.a))
    [] op = "ROL_A" -> AShifted(c, RotateLeft(c, c.a))
    [] op = "ROR_A" -> AShifted(c, RotateRight(c, c.a))
    [] op = "ADC" -> ADC(c)
    [] op = "SBC" -> SBC(c)
    [] op = "INC" -> Data(c, Byte(c.data + 1))
    [] op = "DEC" -> Data(c, Byte(c.data - 1))
    [] op = "INX" -> LoadX(c, Byte(c.x + 1))
    [] op = "INY" -> LoadY(c, Byte(c.y + 1))
    [] op = "DEX" -> LoadX(c, Byte(c.x - 1))
    [] op = "DEY" -> LoadY(c, Byte(c.y - 1))
    [] op = "BIT" -> TestBits(c)
    [] op = "PHP" -> [c EXCEPT !.data = PByte(c.p \cup {"B"})]
    [] op = "PLA" -> LoadA(c, c.data)
    [] op = "PLP" -> [c EXCEPT !.p = PFlags(c.data) \cup {"M", "B"}]
    [] op \in {"TAX", "TXA", "TAY", "TYA", "TXS", "TSX"} -> Transferred(c, op)
    [] op \in DOMAIN Branches ->
         [c EXCEPT !.branch = (Branches[op][1] \in c.p) = Branches[op][2]]
    [] op \in DOMAIN FlagOps ->
         [c EXCEPT !.p = SetP(c.p, FlagOps[op][1], FlagOps[op][2])]
    [] op \in {"BRK", "RTI", "JMP", "RTS", "JSR"} -> c
    [] OTHER -> Undocumented(c, op)

-----------------------------------------------------------------------------
(* Addressing.                                                             *)

\* The table of addressing routines; SINGLE is the others.
AddrCodes ==
 [MISC_BREAK |-> {\h00}, MISC_JSR |-> {\h20}, MISC_RTI |-> {\h40}, RTS |-> {\h60},
  MISC_PUSH  |-> {\h08, \h48}, MISC_PULL |-> {\h28, \h68},
  JMP_ABSOLUTE |-> {\h4C}, JMP_INDIRECT |-> {\h6C},
  BRANCH |-> {\h10, \h30, \h50, \h70, \h90, \hB0, \hD0, \hF0},
  INTERNAL_IMMEDIATE |->
    {\h09, \h29, \h49, \h69, \hA0, \hA2, \hA9, \hC0, \hC9, \hE0, \hE9},
  INTERNAL_ZERO_PAGE |->
    {\h05, \h24, \h25, \h45, \h65, \hA4, \hA5, \hA6, \hC4, \hC5, \hE4, \hE5},
  INTERNAL_ABSOLUTE |->
    {\h0D, \h2C, \h2D, \h4D, \h6D, \hAC, \hAD, \hAE, \hCC, \hCD, \hEC, \hED},
  INTERNAL_INDIRECT_X |-> {\h01, \h21, \h41, \h61, \hA1, \hC1, \hE1},
  INTERNAL_INDIRECT_Y |-> {\h11, \h31, \h51, \h71, \hB1, \hD1, \hF1},
  INTERNAL_ZERO_PAGE_XY |-> {\h15, \h35, \h55, \h75, \hB4, \hB5, \hB6, \hD5, \hF5},
  INTERNAL_ABSOLUTE_XY |->
    {\h19, \h1D, \h39, \h3D, \h59, \h5D, \h79, \h7D, \hB9, \hBC, \hBD, \hBE, \hD9, \hDD,
     \hF9, \hFD},
  STORE_ZERO_PAGE |-> {\h84, \h85, \h86}, STORE_ABSOLUTE |-> {\h8C, \h8D, \h8E},
  STORE_INDIRECT_X |-> {\h81}, STORE_INDIRECT_Y |-> {\h91},
  STORE_ZERO_PAGE_XY |-> {\h94, \h95, \h96}, STORE_ABSOLUTE_XY |-> {\h99, \h9D},
  RMW_ZERO_PAGE   |-> {\h06, \h26, \h46, \h66, \hC6, \hE6},
  RMW_ABSOLUTE    |-> {\h0E, \h2E, \h4E, \h6E, \hCE, \hEE},
  RMW_ZERO_PAGE_X |-> {\h16, \h36, \h56, \h76, \hD6, \hF6},
  RMW_ABSOLUTE_X  |-> {\h1E, \h3E, \h5E, \h7E, \hDE, \hFE},
  RESET |-> {RESET}]

AddrTable == [code \in 0 .. \h102 |-> Entry(AddrCodes, code, "SINGLE")]

\* The addresses ad(), and ba() or ia().
BA(c) == Pair(c.bal, c.bah)
AD(c) == Pair(c.adl, c.adh)

\* FAULT: STX and LDX are indexed by X like the other codes.
IndexWithoutY(c) ==
  LET bbb == (c.opcode \div 4) % 8
  IN  CASE bbb \in {4, 6} -> c.y [] bbb \in {0, 5, 7} -> c.x [] OTHER -> 0

\* getIndex, of an operation code aaabbbcc
Index(c) ==
  LET bbb == (c.opcode \div 4) % 8
      aaa == c.opcode \div 32
      cc  == c.opcode % 4
  IN  CASE bbb \in {4, 6} -> c.y
        [] bbb \in {5, 7}  -> IF cc = 2 /\ aaa \in {4, 5} THEN c.y ELSE c.x
        [] bbb = 0         -> c.x
        [] OTHER           -> 0

Carries(c, i) == c.bal + i >= \h100

Branched(c) ==
  LET lo == Low(c.pc) + (IF BitSet(c.data, 7) THEN c.data - \h100 ELSE c.data)
  IN  [c EXCEPT !.sc = lo \div \h100, !.pc = Pair(Byte(lo), High(c.pc))]

\* The statements of the addressing routines.
Statement(c, m) ==
  CASE m = "read"   -> [c EXCEPT !.data = BusRead(c, c.address)]
    [] m = "write"  -> BusWrite(c)
    [] m = "exec"   -> Execute(c)
    [] m = "done"   -> [c EXCEPT !.t = -1]
    [] m = "exec and done unless wc" -> IF c.wc THEN c ELSE [Execute(c) EXCEPT !.t = -1]
    [] m = "done unless branch"      -> IF c.branch THEN c ELSE [c EXCEPT !.t = -1]
    [] m = "done unless sc"          -> IF c.sc # 0 THEN c ELSE [c EXCEPT !.t = -1]
    \* the address
    [] m = "pc"     -> [c EXCEPT !.address = c.pc]
    [] m = "pc++"   -> [c EXCEPT !.address = c.pc, !.pc = Word(c.pc + 1)]
    [] m = "ad"     -> [c EXCEPT !.address = AD(c)]
    [] m = "ba"     -> [c EXCEPT !.address = BA(c)]
    [] m = "ba+idx" -> [c EXCEPT !.address = Word(BA(c) + Index(c))]
    [] m = "ba+x"   -> [c EXCEPT !.address = Word(BA(c) + c.x)]
    [] m = "ba+y"   -> [c EXCEPT !.address = Word(BA(c) + c.y)]
    [] m = "bal"    -> [c EXCEPT !.address = c.bal]
    [] m = "+x"     -> [c EXCEPT !.address = Byte(c.address + c.x)]
    [] m = "+1"     -> [c EXCEPT !.address = Byte(c.address + 1)]
    [] m = "next"   -> [c EXCEPT !.address = Word(c.address + 1)]
    [] m = "irq"    -> [c EXCEPT !.address = IRQ_VECTOR]
    [] m = "sp"     -> [c EXCEPT !.address = \h100 + c.s]
    [] m = "push"   -> [c EXCEPT !.address = \h100 + c.s, !.s = Byte(c.s - 1)]
    [] m = "pull"   -> [c EXCEPT !.address = \h100 + Byte(c.s + 1), !.s = Byte(c.s + 1)]
    \* the latches
    [] m = "adl="   -> [c EXCEPT !.adl = c.data]
    [] m = "adh="   -> [c EXCEPT !.adh = c.data]
    [] m = "bal="   -> [c EXCEPT !.bal = c.data]
    [] m = "bah="   -> [c EXCEPT !.bah = c.data]
    [] m = "adh=0"  -> [c EXCEPT !.adh = 0]
    [] m = "bah=0"  -> [c EXCEPT !.bah = 0]
    [] m = "++bal"  -> [c EXCEPT !.bal = Byte(c.bal + 1)]
    [] m = "++bah"  -> [c EXCEPT !.bah = Byte(c.bah + 1)]
    [] m = "+idx"   -> [c EXCEPT !.bal = Byte(c.bal + Index(c)), !.wc = Carries(c, Index(c))]
    [] m = "+y"     -> [c EXCEPT !.bal = Byte(c.bal + c.y), !.wc = Carries(c, c.y)]
    [] m = "z+idx"  -> [c EXCEPT !.bal = Byte(c.bal + Index(c))]
    [] m = "z+x"    -> [c EXCEPT !.bal = Byte(c.bal + c.x)]
    \* data, program counter and status
    [] m = "=pch"   -> [c EXCEPT !.data = High(c.pc)]
    [] m = "=pcl"   -> [c EXCEPT !.data = Low(c.pc)]
    [] m = "=p"     -> [c EXCEPT !.data = PByte(c.p)]
    [] m = "pc=ad"  -> [c EXCEPT !.pc = AD(c)]
    [] m = "++pc"   -> [c EXCEPT !.pc = Word(c.pc + 1)]
    [] m = "branch low"  -> Branched(c)
    [] m = "branch high" -> [c EXCEPT !.pc = Word(c.pc + \h100 * c.sc)]
    [] m = "p+B"    -> [c EXCEPT !.p = c.p \cup {"B"}]
    [] m = "p+I"    -> [c EXCEPT !.p = c.p \cup {"I"}]
    [] m = "p="     -> [c EXCEPT !.p = PFlags(c.data) \cup {"M"}]
    [] m = "s=FF"   -> [c EXCEPT !.s = \hFF]
    [] m = "served" -> [c EXCEPT !.pendingReset = FALSE]

\* The statements of the cycles t = 1, 2, ... of each addressing routine.
addr_SINGLE == << <<"pc", "read", "exec", "done">> >>
addr_INTERNAL_IMMEDIATE == << <<"pc++", "read", "exec", "done">> >>
addr_INTERNAL_ZERO_PAGE ==
  << <<"pc++", "read", "adl=">>, <<"adh=0", "ad", "read", "exec", "done">> >>
addr_INTERNAL_ABSOLUTE ==
  << <<"pc++", "read", "adl=">>, <<"pc++", "read", "adh=">>,
     <<"ad", "read", "exec", "done">> >>
addr_INTERNAL_INDIRECT_X ==
  << <<"pc++", "read", "bal=">>, <<"bal", "read">>, <<"+x", "read", "adl=">>,
     <<"+1", "read", "adh=">>, <<"ad", "read", "exec", "done">> >>
addr_INTERNAL_ABSOLUTE_XY ==
  << <<"pc++", "read", "bal=">>, <<"pc++", "read", "bah=">>,
     <<"+idx", "ba", "read", "exec and done unless wc">>,
     <<"++bah", "ba", "read", "exec", "done">> >>
addr_INTERNAL_ZERO_PAGE_XY ==
  << <<"pc++", "read", "bal=">>, <<"bah=0", "ba", "read">>,
     <<"z+idx", "ba", "read", "exec", "done">> >>
addr_INTERNAL_INDIRECT_Y ==
  << <<"pc++", "read", "bal=">>, <<"bal", "read", "bal=">>, <<"+1", "read", "bah=">>,
     <<"+y", "ba", "read", "exec and done unless wc">>,
     <<"++bah", "ba", "read", "exec", "done">> >>
addr_STORE_ZERO_PAGE ==
  << <<"pc++", "read", "adl=", "exec">>, <<"adh=0", "ad", "write", "done">> >>
addr_STORE_ABSOLUTE ==
  << <<"pc++", "read", "adl=">>, <<"pc++", "read", "adh=", "exec">>,
     <<"ad", "write", "done">> >>
addr_STORE_INDIRECT_X ==
  << <<"pc++", "read", "bal=">>, <<"bal", "read">>, <<"+x", "read", "adl=">>,
     <<"+1", "read", "adh=", "exec">>, <<"ad", "write", "done">> >>
addr_STORE_ABSOLUTE_XY ==
  << <<"pc++", "read", "bal=">>, <<"pc++", "read", "bah=">>,
     <<"ba+idx", "read", "exec">>, <<"write", "done">> >>
addr_STORE_ZERO_PAGE_XY ==
  << <<"pc++", "read", "bal=">>, <<"bah=0", "ba", "read", "exec">>,
     <<"z+idx", "ba", "write", "done">> >>
addr_STORE_INDIRECT_Y ==
  << <<"pc++", "read", "bal=">>, <<"bal", "read", "bal=">>, <<"+1", "read", "bah=">>,
     <<"ba+y", "read", "exec">>, <<"write", "done">> >>
addr_RMW_ZERO_PAGE ==
  << <<"pc++", "read", "adl=">>, <<"adh=0", "ad", "read">>, <<"write", "exec">>,
     <<"write", "done">> >>
addr_RMW_ABSOLUTE ==
  << <<"pc++", "read", "adl=">>, <<"pc++", "read", "adh=">>, <<"ad", "read">>,
     <<"write", "exec">>, <<"write", "done">> >>
addr_RMW_ZERO_PAGE_X ==
  << <<"pc++", "read", "bal=">>, <<"bah=0", "ba", "read">>, <<"z+x", "ba", "read">>,
     <<"write", "exec">>, <<"write", "done">> >>
addr_RMW_ABSOLUTE_X ==
  << <<"pc++", "read", "bal=">>, <<"pc++", "read", "bah=">>, <<"ba+x", "read">>,
     <<"read">>, <<"write", "exec">>, <<"write", "done">> >>
addr_MISC_PUSH == << <<"pc", "read", "exec">>, <<"push", "write", "done">> >>

addr_MISC_PULL ==
  << <<"pc", "read">>, <<"sp", "read">>, <<"pull", "read", "exec", "done">> >>

addr_MISC_JSR ==
  << <<"pc++", "read", "adl=">>, <<"push", "read">>, <<"=pch", "write", "push">>,
     <<"=pcl", "write">>, <<"pc", "read", "adh=", "pc=ad", "done">> >>
addr_MISC_BREAK ==
  << <<"pc", "read">>, <<"push", "=pch", "write">>, <<"push", "=pcl", "write">>,
     <<"push", "p+B", "=p", "write">>, <<"irq", "read", "adl=">>,
     <<"next", "read", "adh=", "pc=ad", "done">> >>
addr_MISC_RTI ==
  << <<"pc", "read">>, <<"sp", "read">>, <<"pull", "read", "p=">>,
     <<"pull", "read", "adl=">>, <<"pull", "read", "adh=", "pc=ad", "done">> >>
addr_JMP_ABSOLUTE ==
  << <<"pc++", "read", "adl=">>, <<"pc", "read", "adh=", "pc=ad", "done">> >>
addr_JMP_INDIRECT ==
  << <<"pc++", "read", "bal=">>, <<"pc", "read", "bah=">>, <<"ba", "read", "adl=">>,
     <<"++bal", "ba", "read", "adh=", "pc=ad", "done">> >>
addr_RTS ==
  << <<"pc", "read">>, <<"sp", "read">>, <<"pull", "read", "adl=">>,
     <<"pull", "read", "adh=">>, <<"pc=ad", "pc", "read", "++pc", "done">> >>
addr_BRANCH ==
  << <<"pc++", "read", "exec", "done unless branch">>,
     <<"branch low", "pc", "read", "done unless sc">>,
     <<"branch high", "read", "done">> >>

\* FAULT: the program counter and status are pushed, as for an interrupt.
addr_RESETPushing ==
  << <<"pc++", "read">>, <<"s=FF", "push", "=pch", "write">>,
     <<"push", "=pcl", "write">>, <<"push", "p+I", "=p", "write">>,
     <<"pc++", "read", "adl=">>, <<"pc", "read", "adh=", "pc=ad", "served", "done">> >>

addr_RESET ==
  << <<"pc++", "read">>, <<"s=FF", "push", "=pch", "read">>,
     <<"push", "=pcl", "read">>, <<"push", "p+I", "=p", "read">>,
     <<"pc++", "read", "adl=">>, <<"pc", "read", "adh=", "pc=ad", "served", "done">> >>

\* addr, by the names in the table of codes
Microcode ==
 [SINGLE |-> addr_SINGLE, INTERNAL_IMMEDIATE |-> addr_INTERNAL_IMMEDIATE,
  INTERNAL_ZERO_PAGE |-> addr_INTERNAL_ZERO_PAGE,
  INTERNAL_ABSOLUTE |-> addr_INTERNAL_ABSOLUTE,
  INTERNAL_INDIRECT_X |-> addr_INTERNAL_INDIRECT_X,
  INTERNAL_ABSOLUTE_XY |-> addr_INTERNAL_ABSOLUTE_XY,
  INTERNAL_ZERO_PAGE_XY |-> addr_INTERNAL_ZERO_PAGE_XY,
  INTERNAL_INDIRECT_Y |-> addr_INTERNAL_INDIRECT_Y,
  STORE_ZERO_PAGE |-> addr_STORE_ZERO_PAGE, STORE_ABSOLUTE |-> addr_STORE_ABSOLUTE,
  STORE_INDIRECT_X |-> addr_STORE_INDIRECT_X,
  STORE_ABSOLUTE_XY |-> addr_STORE_ABSOLUTE_XY,
  STORE_ZERO_PAGE_XY |-> addr_STORE_ZERO_PAGE_XY,
  STORE_INDIRECT_Y |-> addr_STORE_INDIRECT_Y, RMW_ZERO_PAGE |-> addr_RMW_ZERO_PAGE,
  RMW_ABSOLUTE |-> addr_RMW_ABSOLUTE, RMW_ZERO_PAGE_X |-> addr_RMW_ZERO_PAGE_X,
  RMW_ABSOLUTE_X |-> addr_RMW_ABSOLUTE_X, MISC_PUSH |-> addr_MISC_PUSH,
  MISC_PULL |-> addr_MISC_PULL, MISC_JSR |-> addr_MISC_JSR,
  MISC_BREAK |-> addr_MISC_BREAK, MISC_RTI |-> addr_MISC_RTI,
  JMP_ABSOLUTE |-> addr_JMP_ABSOLUTE, JMP_INDIRECT |-> addr_JMP_INDIRECT,
  RTS |-> addr_RTS, BRANCH |-> addr_BRANCH, RESET |-> addr_RESET]

-----------------------------------------------------------------------------
(* The processor.                                                          *)

\* firstCycle
FirstCycle(c) ==
  LET start   == IF c.pendingReset THEN RESET_VECTOR - 2 ELSE c.pc
      fetched == FoldLeft(Statement, [c EXCEPT !.pc = start], <<"pc++", "read">>)
  IN  [fetched EXCEPT !.opcode = IF c.pendingReset THEN RESET ELSE fetched.data]

\* subsequentCycle
SubsequentCycle(c) == FoldLeft(Statement, c, Microcode[AddrTable[c.opcode]][c.t])

\* tick; done() sets t to -1, for the tick to count up to 0.
CpuTick(c) ==
  LET ticked == IF c.t = 0 THEN FirstCycle(c) ELSE SubsequentCycle(c)
  IN  IF c.started THEN [ticked EXCEPT !.t = @ + 1] ELSE c

CpuReset(c) == [c EXCEPT !.started = TRUE, !.pendingReset = TRUE, !.t = 0]

\* FAULT: the processor runs on.
CpuPowerOnRunning(c) == [c EXCEPT !.pendingReset = FALSE, !.p = {"M"}]

CpuPowerOn(c) == [c EXCEPT !.started = FALSE, !.pendingReset = FALSE, !.p = {"M"}]
=============================================================================
