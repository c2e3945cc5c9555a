------------------------------- MODULE Lifter -------------------------------
(***************************************************************************)
(* The scalar instructions, lifted to Semantic IR and executed: each operator*)
(* applies to a CPU state the IR operations the lifter emits for one decoded *)
(* instruction, in the order it emits them.  An operand form the lifter      *)
(* refuses leaves the state unsupported.                                     *)
(*                                                                           *)
(* A decoded instruction has an id, its operands, a condition, the fields of *)
(* its encoding the lifter reads itself (immr, imms, n, bit), a pc-relative  *)
(* value and an address.                                                     *)
(***************************************************************************)
EXTENDS CpuState

CONSTANTS
  Value(_, _, _),    \* the bits an IR operation gives, from its type and typed operands
  Holds(_, _),       \* whether a condition holds of the flags
  Polynomial(_)      \* the reflected polynomial of CRC32 and of CRC32C

Emit(op, t, a) == [bits |-> Value(op, t, a), type |-> t]
Constant(v, t) == [bits |-> v % Mod(t), type |-> t]
Refused == [bits |-> -2, type |-> 0]
IsRefused(v) == v.type = 0

Refuse(s) == IF s.status = "ok" THEN [s EXCEPT !.status = "unsupported"] ELSE s

\* A register read as a value; only W and X registers convert to IR registers.
IsScalar(o) == o.kind = "register" /\ o.reg.width \in {Word, Doubleword}
Read(r, s) == [bits |-> ReadRegister(r, s), type |-> r.width]

\* An undefined value ends the run: nothing after it means anything.
Put(r, v, s) ==
  CASE IsRefused(v) -> Refuse(s)
    [] v.bits = Undefined -> IF s.status = "ok" THEN [s EXCEPT !.status = "undefined"] ELSE s
    [] OTHER -> WriteRegister(r, v.bits, s)

MultiplyHigh(op, left, right, t) ==
  IF t # Doubleword THEN Refused ELSE Emit(op, t, <<left, right>>)

------------------------------------------------------------------------------
\* Operands: a register, extended when it is narrower than the destination and
\* then shifted; or an immediate.
SourceBits(e) == CASE e \in {"Uxtb", "Sxtb"} -> Byte
                   [] e \in {"Uxth", "Sxth"} -> Half
                   [] e \in {"Uxtx", "Sxtx"} -> Doubleword
                   [] OTHER -> Word
Signs(e) == e \in {"Sxtb", "Sxth", "Sxtw", "Sxtx"}

ShiftOpcode(k) == CASE k = "Lsl" -> "ShiftLeft" [] k = "Lsr" -> "LogicalShiftRight"
                    [] k = "Asr" -> "ArithmeticShiftRight" [] OTHER -> "RotateRight"

ApplyShift(v, t, o) ==
  CASE o.shift = "None" \/ o.amount = 0 -> v
    [] o.shift # "None" /\ o.amount >= t -> Refused
    [] OTHER -> Emit(ShiftOpcode(o.shift), t, <<v, Constant(o.amount, t)>>)

Extended(v, t, e) ==
  LET narrow == IF SourceBits(e) < v.type THEN Emit("Truncate", SourceBits(e), <<v>>) ELSE v
  IN Emit(IF Signs(e) THEN "SignExtend" ELSE "ZeroExtend", t, <<narrow>>)

RegisterValue(o, t, s) ==
  LET value == Read(o.reg, s)
  IN CASE o.reg.width = t -> ApplyShift(value, t, o)
       [] o.reg.width = Word /\ t = Doubleword /\ o.extension # "None" ->
            ApplyShift(Extended(value, t, o.extension), t, o)
       [] OTHER -> Refused

ImmediateValue(o, t) ==
  CASE o.shift \in {"Lsr", "Asr"} -> Refused
    [] o.shift = "Lsl" -> IF o.amount >= t THEN Refused ELSE Constant(o.immediate * 2 ^ o.amount, t)
    [] OTHER -> Constant(o.immediate, t)

OperandValue(o, t, s) ==
  CASE IsScalar(o) -> RegisterValue(o, t, s)
    [] o.kind = "immediate" -> ImmediateValue(o, t)
    [] OTHER -> Refused

------------------------------------------------------------------------------
\* Flags are computed before any is written, and written before the result.
ResultFlags(result, carry, overflow) ==
  LET t == result.type
  IN [N |-> Emit("Truncate", 1, <<Emit("LogicalShiftRight", t, <<result, Constant(t - 1, t)>>)>>),
      Z |-> Emit("CompareEqual", 1, <<result, Constant(0, t)>>),
      C |-> carry, V |-> overflow]

ArithmeticFlags(left, right, result, subtraction) ==
  ResultFlags(result,
              Emit(IF subtraction THEN "SubCarry" ELSE "AddCarry", 1, <<left, right>>),
              Emit(IF subtraction THEN "SubOverflow" ELSE "AddOverflow", 1, <<left, right>>))

LogicFlags(result) == ResultFlags(result, Constant(0, 1), Constant(0, 1))

WriteFlags(f, s) ==
  IF s.status # "ok" THEN s
  ELSE [s EXCEPT !.flags = [g \in {"N", "Z", "C", "V"} |-> f[g].bits]]

ConditionValue(c, s) == Constant(IF Holds(c, s.flags) THEN 1 ELSE 0, 1)

\* The width of the destination, and the operands after it as values of it.
Type(i) == i.ops[1].reg.width
Operand(i, k, s) == OperandValue(i.ops[k], Type(i), s)
Operands(i, n) == Len(i.ops) = n /\ IsScalar(i.ops[1])

\* Two operands as values, the k-th and the next: refused when either is none.
Given(left, right, Does(_, _), s) ==
  IF IsRefused(left) \/ IsRefused(right) THEN Refuse(s) ELSE Does(left, right)
WithOperands(i, n, k, Does(_, _), s) ==
  IF ~Operands(i, n) THEN Refuse(s) ELSE Given(Operand(i, k, s), Operand(i, k + 1, s), Does, s)

LiftArithmetic(i, opcode, sets, s) ==
  WithOperands(i, 3, 2,
    LAMBDA left, right :
      LET result == Emit(opcode, Type(i), <<left, right>>)
      IN Put(i.ops[1].reg, result,
             IF sets THEN WriteFlags(ArithmeticFlags(left, right, result, opcode = "Sub"), s)
                     ELSE s), s)

\* ADC, SBC and NGC: the right operand is complemented to subtract.
AddedWithCarry(i, left, source, s) ==
  LET right == IF i.id \in {"Sbc", "Sbcs", "Ngc", "Ngcs"} THEN Emit("Not", Type(i), <<source>>)
                                                         ELSE source
      sum == <<left, right, [bits |-> s.flags.C, type |-> 1]>>
      result == Emit("AddWithCarry", Type(i), sum)
      flags == ResultFlags(result, Emit("AddWithCarryCarry", 1, sum),
                           Emit("AddWithCarryOverflow", 1, sum))
  IN Put(i.ops[1].reg, result,
         IF i.id \in {"Adcs", "Sbcs", "Ngcs"} THEN WriteFlags(flags, s) ELSE s)

LiftAddWithCarry(i, s) ==
  LET source == IF i.id \in {"Ngc", "Ngcs"} THEN 2 ELSE 3
  IN IF \/ ~Operands(i, source)
        \/ \E k \in 2 .. Len(i.ops) : ~IsScalar(i.ops[k]) \/ i.ops[k].reg.width # Type(i)
       THEN Refuse(s)
       ELSE AddedWithCarry(i, IF source = 2 THEN Constant(0, Type(i)) ELSE Operand(i, 2, s),
                           Operand(i, source, s), s)

\* CMP and CMN: the flags alone.
ComparisonFlags(i, left, right, subtraction) ==
  ArithmeticFlags(left, right, Emit(IF subtraction THEN "Sub" ELSE "Add", Type(i), <<left, right>>),
                  subtraction)

LiftCompare(i, subtraction, s) ==
  WithOperands(i, 2, 1, LAMBDA l, r : WriteFlags(ComparisonFlags(i, l, r, subtraction), s), s)

\* CCMP and CCMN: each flag is the comparison's when the condition holds of the
\* flags before it, and the immediate's bit when it does not.
LiftConditionalCompare(i, subtraction, s) ==
  LET place == [N |-> 3, Z |-> 2, C |-> 1, V |-> 0]
      nzcv == i.ops[3].immediate % 16
      Selected(f, computed) ==
        Emit("Select", 1, <<ConditionValue(i.condition, s), computed[f],
                            Constant(nzcv \div 2 ^ place[f], 1)>>)
  IN IF Len(i.ops) = 3 /\ i.ops[3].kind # "immediate" THEN Refuse(s)
     ELSE WithOperands(i, 3, 1,
            LAMBDA l, r : WriteFlags([f \in DOMAIN place |->
                                        Selected(f, ComparisonFlags(i, l, r, subtraction))], s), s)

LiftLogic(i, opcode, sets, invert, s) ==
  WithOperands(i, 3, 2,
    LAMBDA left, source :
      LET right == IF invert THEN Emit("Not", Type(i), <<source>>) ELSE source
          result == Emit(opcode, Type(i), <<left, right>>)
      IN Put(i.ops[1].reg, result, IF sets THEN WriteFlags(LogicFlags(result), s) ELSE s), s)

LiftTest(i, s) ==
  WithOperands(i, 2, 1,
               LAMBDA l, r : WriteFlags(LogicFlags(Emit("And", Type(i), <<l, r>>)), s), s)

LiftMov(i, s) ==
  IF ~Operands(i, 2) THEN Refuse(s) ELSE Put(i.ops[1].reg, Operand(i, 2, s), s)

LiftMvn(i, s) ==
  LET source == Operand(i, 2, s)
  IN IF ~Operands(i, 2) \/ IsRefused(source) THEN Refuse(s)
     ELSE Put(i.ops[1].reg, Emit("Not", Type(i), <<source>>), s)

\* MOVZ, MOVN and MOVK: a lane of two bytes, the rest cleared or kept.
LiftMoveWide(i, keep, negate, s) ==
  LET t == Type(i)
      o == i.ops[2]
      lanes == {Half * k : k \in 0 .. (t \div Half - 1)}
      shifted == (o.immediate * 2 ^ o.amount) % Mod(t)
      mask == Ones(t) - Ones(Half) * 2 ^ o.amount
      cleared == Emit("And", t, <<Read(i.ops[1].reg, s), Constant(mask, t)>>)
  IN CASE \/ ~Operands(i, 2) \/ i.ops[1].reg.sp \/ o.kind # "immediate"
          \/ o.immediate \notin 0 .. Ones(Half)
          \/ o.shift \notin {"None", "Lsl"} \/ (o.shift = "None" /\ o.amount # 0)
          \/ o.amount \notin lanes -> Refuse(s)
       [] keep -> Put(i.ops[1].reg, Emit("Or", t, <<cleared, Constant(shifted, t)>>), s)
       [] negate -> Put(i.ops[1].reg, Constant(Ones(t) - shifted, t), s)
       [] OTHER -> Put(i.ops[1].reg, Constant(shifted, t), s)

LiftNegate(i, sets, s) ==
  IF ~Operands(i, 2) THEN Refuse(s)
  ELSE Given(Constant(0, Type(i)), Operand(i, 2, s),
         LAMBDA zero, source :
           LET result == Emit("Sub", Type(i), <<zero, source>>)
           IN Put(i.ops[1].reg, result,
                  IF sets THEN WriteFlags(ArithmeticFlags(zero, source, result, TRUE), s) ELSE s),
         s)

\* The CSEL family.  CINC, CINV and CNEG change the source taken when the
\* condition holds; CSINC, CSINV and CSNEG the other one.
SelectBetween(i, first, second, s) ==
  LET t == Type(i)
      Increment(v) == Emit("Add", t, <<v, Constant(1, t)>>)
      Inverted(v) == Emit("Not", t, <<v>>)
      Negation(v) == Emit("Sub", t, <<Constant(0, t), v>>)
      whenTrue == CASE i.id = "Cset" -> Constant(1, t)
                    [] i.id = "Csetm" -> Constant(Ones(t), t)
                    [] i.id = "Cinc" -> Increment(first)
                    [] i.id = "Cinv" -> Inverted(first)
                    [] i.id = "Cneg" -> Negation(first)
                    [] OTHER -> first
      whenFalse == CASE i.id \in {"Cset", "Csetm"} -> Constant(0, t)
                     [] i.id = "Csinc" -> Increment(second)
                     [] i.id = "Csinv" -> Inverted(second)
                     [] i.id = "Csneg" -> Negation(second)
                     [] OTHER -> second
  IN IF \/ ~IsScalar(i.ops[1])
        \/ i.id \notin {"Cset", "Csetm"} /\ (IsRefused(first) \/ IsRefused(second))
       THEN Refuse(s)
       ELSE Put(i.ops[1].reg,
                Emit("Select", t, <<ConditionValue(i.condition, s), whenTrue, whenFalse>>), s)

LiftConditionalSelect(i, s) ==
  LET source == IF i.id \in {"Csel", "Csinc", "Csinv", "Csneg"} THEN 3 ELSE 2
  IN IF i.id \in {"Cset", "Csetm"} THEN SelectBetween(i, Refused, Refused, s)
     ELSE SelectBetween(i, Operand(i, 2, s), Operand(i, source, s), s)

------------------------------------------------------------------------------
\* Multiplication, division and the other two-source operations.
Widths(i, w) == /\ Len(i.ops) = Len(w)
                /\ \A k \in DOMAIN w : i.ops[k].kind = "register" /\ i.ops[k].reg.width = w[k]

WideProduct(i, signed, s) ==
  LET Widened(k) == Emit(IF signed THEN "SignExtend" ELSE "ZeroExtend", Doubleword,
                         <<Read(i.ops[k].reg, s)>>)
  IN Emit("Mul", Doubleword, <<Widened(2), Widened(3)>>)

LiftLongMultiply(i, s) ==
  LET product == WideProduct(i, i.id \in {"Smaddl", "Smsubl"}, s)
      opcode == IF i.id \in {"Umsubl", "Smsubl"} THEN "Sub" ELSE "Add"
  IN IF ~Widths(i, <<Doubleword, Word, Word, Doubleword>>) THEN Refuse(s)
     ELSE Put(i.ops[1].reg, Emit(opcode, Doubleword, <<Read(i.ops[4].reg, s), product>>), s)

Multiplied(i, left, right, accumulator, s) ==
  LET t == Type(i)
      high == i.id \in {"Umulh", "Smulh"}
      product == CASE i.id = "Umulh" -> MultiplyHigh("MulHighUnsigned", left, right, t)
                   [] i.id = "Smulh" -> MultiplyHigh("MulHighSigned", left, right, t)
                   [] OTHER -> Emit("Mul", t, <<left, right>>)
  IN CASE \/ Len(i.ops) < 3 \/ ~IsScalar(i.ops[1])
          \/ high /\ ~Widths(i, <<Doubleword, Doubleword, Doubleword>>)
          \/ i.id \in {"Madd", "Msub"} /\ (Len(i.ops) # 4 \/ IsRefused(accumulator))
          \/ IsRefused(left) \/ IsRefused(right) -> Refuse(s)
       [] i.id = "Mneg" -> Put(i.ops[1].reg, Emit("Sub", t, <<Constant(0, t), product>>), s)
       [] i.id = "Madd" -> Put(i.ops[1].reg, Emit("Add", t, <<product, accumulator>>), s)
       [] i.id = "Msub" -> Put(i.ops[1].reg, Emit("Sub", t, <<accumulator, product>>), s)
       [] OTHER -> Put(i.ops[1].reg, product, s)

LiftMultiply(i, s) ==
  CASE i.id \in {"Umull", "Smull"} ->
         IF ~Widths(i, <<Doubleword, Word, Word>>) THEN Refuse(s)
         ELSE Put(i.ops[1].reg, WideProduct(i, i.id = "Smull", s), s)
    [] i.id \in {"Umaddl", "Umsubl", "Smaddl", "Smsubl"} -> LiftLongMultiply(i, s)
    [] OTHER -> Multiplied(i, Operand(i, 2, s), Operand(i, 3, s), Operand(i, 4, s), s)

LiftDivide(i, s) ==
  LET opcode == IF i.id = "Udiv" THEN "DivideUnsigned" ELSE "DivideSigned"
  IN WithOperands(i, 3, 2,
                  LAMBDA l, r : Put(i.ops[1].reg, Emit(opcode, Type(i), <<l, r>>), s), s)

LiftCrc32(i, s) ==
  LET source == IF i.crc = Doubleword THEN Doubleword ELSE Word
  IN IF ~Widths(i, <<Word, Word, source>>) \/ i.crc \notin 1 .. Doubleword \/ i.crc % Byte # 0
       THEN Refuse(s)
       ELSE Put(i.ops[1].reg,
                Emit("Crc32", Word, <<Read(i.ops[2].reg, s), Read(i.ops[3].reg, s),
                                      Constant(i.crc \div Byte, Doubleword),
                                      Constant(Polynomial(i.castagnoli), Word)>>), s)

\* REV and REV16: every byte is cut out and put where it belongs.
LiftReverse(i, s) ==
  LET t == Type(i)
      bytes == t \div Byte
      source == Read(i.ops[2].reg, s)
      To(input) == IF i.id = "Rev16" THEN (IF input % 2 = 0 THEN input + 1 ELSE input - 1)
                                     ELSE bytes - 1 - input
      Cut(k) == Emit("And", t, <<Emit("LogicalShiftRight", t, <<source, Constant(k * Byte, t)>>),
                                 Constant(Ones(Byte), t)>>)
      result[n \in 0 .. bytes] ==
        IF n = 0 THEN Constant(0, t)
        ELSE Emit("Or", t, <<result[n - 1],
                             Emit("ShiftLeft", t, <<Cut(n - 1), Constant(To(n - 1) * Byte, t)>>)>>)
  IN IF ~Widths(i, <<t, t>>) \/ ~IsScalar(i.ops[1]) THEN Refuse(s)
     ELSE Put(i.ops[1].reg, result[bytes], s)

------------------------------------------------------------------------------
\* Shifts and bitfields.
LiftExtract(i, s) ==
  LET t == Type(i)
      lsb == i.ops[4].immediate
      low == Read(i.ops[3].reg, s)
      right == Emit("LogicalShiftRight", t, <<low, Constant(lsb, t)>>)
      left == Emit("ShiftLeft", t, <<Read(i.ops[2].reg, s), Constant(t - lsb, t)>>)
  IN IF ~Widths([i EXCEPT !.ops = SubSeq(@, 1, 3)], <<t, t, t>>) \/ ~IsScalar(i.ops[1])
        \/ lsb \notin 0 .. t - 1
       THEN Refuse(s)
       ELSE Put(i.ops[1].reg, IF lsb = 0 THEN low ELSE Emit("Or", t, <<right, left>>), s)

\* An immediate amount is below the width; a register amount is masked to it.
LiftShift(i, s) ==
  LET t == Type(i)
      o == i.ops[3]
      amount == IF o.kind = "immediate" THEN Constant(o.immediate, t)
                ELSE Emit("And", t, <<Read(o.reg, s), Constant(t - 1, t)>>)
  IN IF \/ ~Operands(i, 3) \/ i.ops[2].reg.width # t
        \/ o.kind = "immediate" /\ o.immediate \notin 0 .. t - 1
        \/ o.kind = "register" /\ o.reg.width # t
       THEN Refuse(s)
       ELSE Put(i.ops[1].reg, Emit(ShiftOpcode(i.id), t, <<Read(i.ops[2].reg, s), amount>>), s)

LowMask(count, t) == IF count >= t THEN Ones(t) ELSE 2 ^ count - 1
Rotated(v, n, t) == IF n = 0 THEN v ELSE (v \div 2 ^ n + v * 2 ^ (t - n)) % Mod(t)

\* UBFM, SBFM and BFM, from the masks their immr and imms stand for.
LiftBitfield(i, s) ==
  LET t == Type(i)
      read == Read(i.ops[2].reg, s)
      source == CASE read.type = t -> read
                  [] read.type # t /\ i.id = "Sbfm" -> Emit("SignExtend", t, <<read>>)
                  [] OTHER -> Emit("ZeroExtend", t, <<read>>)
      write == Constant(Rotated(LowMask(i.imms + 1, t), i.immr, t), t)
      test == Constant(LowMask(((i.imms - i.immr) % t) + 1, t), t)
      And(a, b) == Emit("And", t, <<a, b>>)
      Or(a, b) == Emit("Or", t, <<a, b>>)
      Not(a) == Emit("Not", t, <<a>>)
      old == Read(i.ops[1].reg, s)
      rotated == IF i.immr = 0 THEN source
                 ELSE Emit("RotateRight", t, <<source, Constant(i.immr, t)>>)
      inserted == And(rotated, write)
      sign == Emit("Truncate", 1, <<Emit("LogicalShiftRight", t, <<source, Constant(i.imms, t)>>)>>)
      top == Emit("Select", t, <<sign, Constant(Ones(t), t), Constant(0, t)>>)
      result == CASE i.id = "Ubfm" -> And(inserted, test)
                  [] i.id = "Sbfm" -> Or(And(top, Not(test)), And(inserted, test))
                  [] i.id = "Bfm" -> Or(And(Or(And(old, Not(write)), inserted), test),
                                        And(old, Not(test)))
  IN IF \/ Len(i.ops) < 2 \/ ~IsScalar(i.ops[1]) \/ ~IsScalar(i.ops[2])
        \/ i.n # (t = Doubleword) \/ i.immr >= t \/ i.imms >= t
       THEN Refuse(s)
       ELSE Put(i.ops[1].reg, result, s)

LiftPcRelative(i, s) ==
  IF ~Operands(i, 2) \/ Type(i) # Doubleword \/ i.relative = Undefined THEN Refuse(s)
  ELSE Put(i.ops[1].reg, Constant(i.relative, Doubleword), s)
=============================================================================
