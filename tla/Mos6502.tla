------------------------------ MODULE Mos6502 -------------------------------
(***************************************************************************)
(* What the documented instructions of a MOS 6502 do, as its programming   *)
(* manual gives them: the reference for Cpu.  An instruction is a function *)
(* of the registers r and of the memory M, with no cycles in between.      *)
(*                                                                         *)
(* BRK is left out (see README), and of an addition or subtraction in      *)
(* decimal mode the digits and the carry count only, if both numbers are   *)
(* decimal: the manual leaves the other flags and numbers undefined.       *)
(***************************************************************************)
EXTENDS Integers, Sequences, TLC

\* An operation code is aaabbbcc; most of the table is regular.
AAA(code) == code \div 32
BBB(code) == (code \div 4) % 8
CC(code)  == code % 4

Irregular ==
  (\h08 :> "PHP" @@ \h28 :> "PLP" @@ \h48 :> "PHA" @@ \h68 :> "PLA" @@
   \h88 :> "DEY" @@ \hA8 :> "TAY" @@ \hC8 :> "INY" @@ \hE8 :> "INX" @@
   \h8A :> "TXA" @@ \h9A :> "TXS" @@ \hAA :> "TAX" @@ \hBA :> "TSX" @@
   \hCA :> "DEX" @@ \hEA :> "NOP" @@ \h98 :> "TYA" @@
   \h18 :> "CLC" @@ \h38 :> "SEC" @@ \h58 :> "CLI" @@ \h78 :> "SEI" @@
   \hB8 :> "CLV" @@ \hD8 :> "CLD" @@ \hF8 :> "SED" @@
   \h20 :> "JSR" @@ \h40 :> "RTI" @@ \h60 :> "RTS" @@ \h4C :> "JMP" @@ \h6C :> "JMP()")

IsBranch(code) == CC(code) = 0 /\ BBB(code) = 4

Regular ==
  << <<"", "BIT", "", "", "STY", "LDY", "CPY", "CPX">>,
     <<"ORA", "AND", "EOR", "ADC", "STA", "LDA", "CMP", "SBC">>,
     <<"ASL", "ROL", "LSR", "ROR", "STX", "LDX", "DEC", "INC">> >>

Modes ==
  << <<"#", "zp", "", "abs", "", "zp,x", "", "abs,x">>,
     <<"(zp,x)", "zp", "#", "abs", "(zp),y", "zp,x", "abs,y", "abs,x">>,
     <<"#", "zp", "A", "abs", "", "zp,x", "", "abs,x">> >>

Shifts == {"ASL", "ROL", "LSR", "ROR"}
Stores == {"STA", "STX", "STY"}
Modifies == Shifts \cup {"DEC", "INC"}

Mnemonic(code) ==
  IF code \in DOMAIN Irregular THEN Irregular[code]
  ELSE IF IsBranch(code) THEN "branch"
  ELSE IF CC(code) = 3 THEN "" ELSE Regular[CC(code) + 1][AAA(code) + 1]

Mode(code) ==
  LET mode == Modes[CC(code) + 1][BBB(code) + 1]
  IN  IF Mnemonic(code) \notin {"STX", "LDX"} THEN mode
      ELSE CASE mode = "zp,x" -> "zp,y" [] mode = "abs,x" -> "abs,y" [] OTHER -> mode

\* The places of the regular part of the table that hold no instruction.
IsRegular(code) ==
  LET op == Mnemonic(code) mode == Mode(code) IN
  /\ code \notin DOMAIN Irregular /\ ~IsBranch(code)
  /\ CC(code) # 3 /\ op # "" /\ mode # ""
  /\ mode = "#" => op \notin Stores \cup Modifies \cup {"BIT"}
  /\ mode = "A" => op \in Shifts
  /\ mode \in {"zp,x", "abs,x", "abs,y"} => op \notin {"BIT", "CPX", "CPY"}
  /\ mode \in {"abs,x", "abs,y"} => op \notin {"STX", "STY"}

Documented ==
  {code \in 0 .. 255 : code \in DOMAIN Irregular \/ IsBranch(code) \/ IsRegular(code)}

-----------------------------------------------------------------------------
(* Addresses.                                                              *)

Word16(lo, hi) == lo + 256 * hi
Page(address) == address \div 256

Operand(r, M(_)) == Word16(M((r.pc + 1) % 65536), M((r.pc + 2) % 65536))

\* The address before it is indexed; in zero page the carry is lost.
Base(mode, r, M(_)) ==
  LET zp == M((r.pc + 1) % 65536)
      Vector(z) == Word16(M(z), M((z + 1) % 256))
  IN  CASE mode = "#" -> (r.pc + 1) % 65536
        [] mode = "zp" -> zp
        [] mode = "zp,x" -> (zp + r.x) % 256
        [] mode = "zp,y" -> (zp + r.y) % 256
        [] mode = "(zp,x)" -> Vector((zp + r.x) % 256)
        [] mode = "(zp),y" -> Vector(zp)
        [] OTHER -> Operand(r, M)

IndexOf(mode, r) ==
  CASE mode = "abs,x" -> r.x [] mode \in {"abs,y", "(zp),y"} -> r.y [] OTHER -> 0

Effective(mode, r, M(_)) == (Base(mode, r, M) + IndexOf(mode, r)) % 65536

Crosses(mode, r, M(_)) ==
  IF Page(Base(mode, r, M) + IndexOf(mode, r)) = Page(Base(mode, r, M)) THEN 0 ELSE 1

Length(mode) ==
  CASE mode = "A" -> 1 [] mode \in {"abs", "abs,x", "abs,y"} -> 3 [] OTHER -> 2

\* Cycles of an instruction that reads its operand; one that writes it always
\* takes the cycle for the next page, and one that modifies it two more.
ReadCycles ==
  "#" :> 2 @@ "zp" :> 3 @@ "zp,x" :> 4 @@ "zp,y" :> 4 @@ "abs" :> 4 @@
  "abs,x" :> 4 @@ "abs,y" :> 4 @@ "(zp,x)" :> 6 @@ "(zp),y" :> 5

IsIndexed(mode) == mode \in {"abs,x", "abs,y", "(zp),y"}

RegularCycles(op, mode, r, M(_)) ==
  IF mode = "A" THEN 2
  ELSE ReadCycles[mode]
         + (IF op \in Stores \cup Modifies
            THEN IF IsIndexed(mode) THEN 1 ELSE 0
            ELSE Crosses(mode, r, M))
         + (IF op \in Modifies THEN 2 ELSE 0)

-----------------------------------------------------------------------------
(* Flags: r.p holds those of N, V, D, I, Z and C that are set.             *)

If(on, f) == IF on THEN {f} ELSE {}

SetFlag(r, f, on) == [r EXCEPT !.p = (@ \ {f}) \cup If(on, f)]

\* r, with N and Z for the value v
Valued(r, v) == SetFlag(SetFlag(r, "N", v >= 128), "Z", v = 0)

CarryIn(r) == IF "C" \in r.p THEN 1 ELSE 0

Signed(v) == IF v < 128 THEN v ELSE v - 256

\* Bits set in both, by halving.
And[u \in 0 .. 255, v \in 0 .. 255] ==
  IF u = 0 \/ v = 0 THEN 0
  ELSE (u % 2) * (v % 2) + 2 * And[u \div 2, v \div 2]

Decimal(v) == 10 * (v \div 16) + (v % 16)
IsDecimal(v) == v \div 16 < 10 /\ v % 16 < 10
AsDecimal(n) == 16 * (n \div 10) + (n % 10)

Added(r, v) ==
  LET sum    == r.a + v + CarryIn(r)
      signed == Signed(r.a) + Signed(v) + CarryIn(r)
      flags  == SetFlag(SetFlag(r, "C", sum > 255), "V", signed \notin -128 .. 127)
  IN  Valued([flags EXCEPT !.a = sum % 256], sum % 256)

DecimalAdded(r, v) ==
  LET sum == Decimal(r.a) + Decimal(v) + CarryIn(r)
  IN  SetFlag([r EXCEPT !.a = AsDecimal(sum % 100)], "C", sum > 99)

DecimalSubtracted(r, v) ==
  LET difference == Decimal(r.a) - Decimal(v) - (1 - CarryIn(r))
  IN  SetFlag([r EXCEPT !.a = AsDecimal(difference % 100)], "C", difference >= 0)

Compared(r, register, v) == SetFlag(Valued(r, (register - v) % 256), "C", register >= v)

\* The value a shift, increment or decrement makes of v, and the registers.
Modified(op, r, v) ==
  CASE op = "ASL" -> <<(2 * v) % 256, SetFlag(r, "C", v >= 128)>>
    [] op = "ROL" -> <<(2 * v + CarryIn(r)) % 256, SetFlag(r, "C", v >= 128)>>
    [] op = "LSR" -> <<v \div 2, SetFlag(r, "C", v % 2 = 1)>>
    [] op = "ROR" -> <<(v + 256 * CarryIn(r)) \div 2, SetFlag(r, "C", v % 2 = 1)>>
    [] op = "INC" -> <<(v + 1) % 256, r>>
    [] op = "DEC" -> <<(v - 1) % 256, r>>

\* The registers after an instruction that reads v.
Operated(op, r, v) ==
  LET Into(value) == Valued([r EXCEPT !.a = value], value) IN
  CASE op = "LDA" -> Into(v)
    [] op = "LDX" -> Valued([r EXCEPT !.x = v], v)
    [] op = "LDY" -> Valued([r EXCEPT !.y = v], v)
    [] op = "AND" -> Into(And[r.a, v])
    [] op = "ORA" -> Into(r.a + v - And[r.a, v])
    [] op = "EOR" -> Into(r.a + v - 2 * And[r.a, v])
    [] op = "CMP" -> Compared(r, r.a, v)
    [] op = "CPX" -> Compared(r, r.x, v)
    [] op = "CPY" -> Compared(r, r.y, v)
    [] op = "BIT" -> SetFlag(SetFlag(SetFlag(r, "N", v >= 128), "V", (v \div 64) % 2 = 1),
                             "Z", And[r.a, v] = 0)
    [] op = "ADC" -> IF "D" \in r.p THEN DecimalAdded(r, v) ELSE Added(r, v)
    [] op = "SBC" -> IF "D" \in r.p THEN DecimalSubtracted(r, v) ELSE Added(r, 255 - v)

-----------------------------------------------------------------------------
(* Instructions: the registers after it, what it writes, and its cycles.   *)

Outcome(r, written, cycles) == [r |-> r, written |-> written, cycles |-> cycles]
Nothing == <<>>

At16(r, n) == [r EXCEPT !.pc = (r.pc + n) % 65536]

RegularOutcome(code, r, M(_)) ==
  LET op    == Mnemonic(code)
      mode  == Mode(code)
      ea    == Effective(mode, r, M)
      after == At16(r, Length(mode))
      time  == RegularCycles(op, mode, r, M)
  IN  CASE op \in Stores ->
             Outcome(after, ea :> (CASE op = "STA" -> r.a [] op = "STX" -> r.x
                                     [] op = "STY" -> r.y), time)
        [] op \in Modifies ->
             LET m == Modified(op, after, IF mode = "A" THEN r.a ELSE M(ea))
                 flags == Valued(m[2], m[1])
             IN  IF mode = "A" THEN Outcome([flags EXCEPT !.a = m[1]], Nothing, time)
                 ELSE Outcome(flags, ea :> m[1], time)
        [] OTHER -> Outcome(Operated(op, after, M(ea)), Nothing, time)

BranchTaken(code, r) ==
  LET flag == <<"N", "V", "C", "Z">>[(AAA(code) \div 2) + 1]
  IN  (flag \in r.p) = (AAA(code) % 2 = 1)

BranchOutcome(code, r, M(_)) ==
  LET next   == At16(r, 2)
      target == At16(next, Signed(M((r.pc + 1) % 65536)))
  IN  IF BranchTaken(code, r)
      THEN Outcome(target, Nothing, IF Page(target.pc) = Page(next.pc) THEN 3 ELSE 4)
      ELSE Outcome(next, Nothing, 2)

\* The stack: the n-th byte from its top, and where the n-th is pushed.
Pulled(r, n, M(_)) == M(256 + ((r.s + n) % 256))
Pushed(r, n) == 256 + ((r.s - (n - 1)) % 256)

FlagByte(p) ==
  LET Bit(f, value) == IF f \in p THEN value ELSE 0
  IN  Bit("N", 128) + Bit("V", 64) + 48 + Bit("D", 8) + Bit("I", 4) + Bit("Z", 2) + Bit("C", 1)

ByteFlags(v) ==
  If(v >= 128, "N") \cup If((v \div 64) % 2 = 1, "V") \cup If((v \div 8) % 2 = 1, "D")
    \cup If((v \div 4) % 2 = 1, "I") \cup If((v \div 2) % 2 = 1, "Z") \cup If(v % 2 = 1, "C")

\* Instructions of one byte that only change registers.
Implied(op, r) ==
  LET A(v) == Valued([r EXCEPT !.a = v], v)
      X(v) == Valued([r EXCEPT !.x = v], v)
      Y(v) == Valued([r EXCEPT !.y = v], v)
  IN  CASE op = "TAX" -> X(r.a) [] op = "TXA" -> A(r.x) [] op = "TAY" -> Y(r.a)
        [] op = "TYA" -> A(r.y) [] op = "TSX" -> X(r.s) [] op = "TXS" -> [r EXCEPT !.s = r.x]
        [] op = "INX" -> X((r.x + 1) % 256) [] op = "DEX" -> X((r.x - 1) % 256)
        [] op = "INY" -> Y((r.y + 1) % 256) [] op = "DEY" -> Y((r.y - 1) % 256)
        [] op = "CLC" -> SetFlag(r, "C", FALSE) [] op = "SEC" -> SetFlag(r, "C", TRUE)
        [] op = "CLI" -> SetFlag(r, "I", FALSE) [] op = "SEI" -> SetFlag(r, "I", TRUE)
        [] op = "CLD" -> SetFlag(r, "D", FALSE) [] op = "SED" -> SetFlag(r, "D", TRUE)
        [] op = "CLV" -> SetFlag(r, "V", FALSE) [] op = "NOP" -> r

\* Jumps and the stack.  JMP() takes the high byte of its target from the page
\* of the low one.
IrregularOutcome(code, r, M(_)) ==
  LET op   == Irregular[code]
      next == At16(r, 1)
      Stack(n) == [next EXCEPT !.s = (r.s + n) % 256]
      return == (r.pc + 2) % 65536
      ptr  == Operand(r, M)
  IN  CASE op = "PHA" -> Outcome(Stack(-1), Pushed(r, 1) :> r.a, 3)
        [] op = "PHP" -> Outcome(Stack(-1), Pushed(r, 1) :> FlagByte(r.p), 3)
        [] op = "PLA" -> Outcome(Valued([Stack(1) EXCEPT !.a = Pulled(r, 1, M)],
                                        Pulled(r, 1, M)), Nothing, 4)
        [] op = "PLP" -> Outcome([Stack(1) EXCEPT !.p = ByteFlags(Pulled(r, 1, M))], Nothing, 4)
        [] op = "JMP" -> Outcome([r EXCEPT !.pc = ptr], Nothing, 3)
        [] op = "JMP()" ->
             LET high == 256 * Page(ptr) + ((ptr + 1) % 256)
             IN  Outcome([r EXCEPT !.pc = Word16(M(ptr), M(high))], Nothing, 5)
        [] op = "JSR" ->
             Outcome([Stack(-2) EXCEPT !.pc = ptr],
                     Pushed(r, 1) :> Page(return) @@ Pushed(r, 2) :> return % 256, 6)
        [] op = "RTS" ->
             Outcome([Stack(2) EXCEPT
                        !.pc = (Word16(Pulled(r, 1, M), Pulled(r, 2, M)) + 1) % 65536],
                     Nothing, 6)
        [] op = "RTI" ->
             Outcome([Stack(3) EXCEPT !.p = ByteFlags(Pulled(r, 1, M)),
                                      !.pc = Word16(Pulled(r, 2, M), Pulled(r, 3, M))],
                     Nothing, 6)
        [] OTHER -> Outcome(Implied(op, next), Nothing, 2)

InstructionOutcome(code, r, M(_)) ==
  IF code \in DOMAIN Irregular THEN IrregularOutcome(code, r, M)
  ELSE IF IsBranch(code) THEN BranchOutcome(code, r, M)
  ELSE RegularOutcome(code, r, M)
=============================================================================
