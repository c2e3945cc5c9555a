----------------------------- MODULE LlvmBackend -----------------------------
(***************************************************************************)
(* What the code the LLVM backend generates computes for each Semantic IR    *)
(* operation.  First the LLVM instructions it emits, on t-bit integers, with *)
(* their undefined cases; then the sequence of them each operation lowers    *)
(* to.                                                                       *)
(***************************************************************************)
EXTENDS CpuState, Bitwise

Flag(b) == IF b THEN 1 ELSE 0

\* Shifts by the width or more are poison.
Shl(v, n, t) == IF n >= t THEN Undefined ELSE (v * 2 ^ n) % Mod(t)
LShr(v, n, t) == IF n >= t THEN Undefined ELSE v \div 2 ^ n
AShr(v, n, t) == IF n >= t THEN Undefined ELSE (Signed(v, t) \div 2 ^ n) % Mod(t)

\* A signed division whose quotient does not fit is undefined behaviour, as is
\* any division by zero, whether or not its result is used.
UDiv(l, r) == IF r = 0 THEN Undefined ELSE l \div r
SDiv(l, r, t) ==
  LET Magnitude(n) == IF n < 0 THEN -n ELSE n
      x == Signed(l, t)
      y == Signed(r, t)
      q == Magnitude(x) \div Magnitude(y)
  IN IF r = 0 \/ (x = -(2 ^ (t - 1)) /\ y = -1) THEN Undefined
     ELSE (IF (x < 0) = (y < 0) THEN q ELSE -q) % Mod(t)

Invert(v, t) == Ones(t) - v
Top(v, t) == v \div 2 ^ (t - 1)

------------------------------------------------------------------------------
\* Rotation: a shift each way, the left one by the width less the amount,
\* masked to the width.
RotateRight(v, n, t) ==
  LET inverse == (t - n) & (t - 1)
  IN IF n >= t THEN Undefined ELSE LShr(v, n, t) | Shl(v, inverse, t)

LowerBinary(op, l, r, t) ==
  CASE op = "Add" -> (l + r) % Mod(t)
    [] op = "Sub" -> (l - r) % Mod(t)
    [] op = "Mul" -> (l * r) % Mod(t)
    [] op = "And" -> l & r
    [] op = "Or" -> l | r
    [] op = "Xor" -> l ^^ r
    [] op = "ShiftLeft" -> Shl(l, r, t)
    [] op = "LogicalShiftRight" -> LShr(l, r, t)
    [] op = "ArithmeticShiftRight" -> AShr(l, r, t)
    [] op = "RotateRight" -> RotateRight(l, r, t)

\* The operands are widened to twice the width and the product's upper half taken.
LowerMultiplyHigh(op, l, r, t) ==
  LET product == IF op = "MulHighSigned" THEN (Signed(l, t) * Signed(r, t)) % Mod(2 * t) ELSE l * r
  IN (product \div Mod(t)) % Mod(t)

\* The divisor is replaced by one when it is zero, and the two special cases
\* are selected afterwards: the division itself is always executed.
LowerDivide(op, l, r, t) ==
  LET divisor == IF r = 0 THEN 1 ELSE r
      quotient == IF op = "DivideSigned" THEN SDiv(l, divisor, t) ELSE UDiv(l, divisor)
  IN CASE quotient = Undefined -> Undefined
       [] quotient # Undefined /\ r = 0 -> 0
       [] OTHER -> quotient

LowerCast(op, v, from, t) ==
  CASE op = "Truncate" -> v % Mod(t)
    [] op = "ZeroExtend" -> v
    [] op = "SignExtend" -> Signed(v, from) % Mod(t)

LowerCompare(op, l, r, t) ==
  Flag(CASE op = "CompareEqual" -> l = r
         [] op = "CompareNotEqual" -> l # r
         [] op = "CompareUnsigned" -> l < r
         [] op = "CompareSigned" -> Signed(l, t) < Signed(r, t))

\* The overflow of a sum is the top bit of ~(l ^ r) & (l ^ sum).
SumOverflow(l, r, sum, t) == Top(Invert(l ^^ r, t) & (l ^^ sum), t)

LowerWithCarry(op, l, r, c, t) ==
  LET partial == (l + r) % Mod(t)
      result == (partial + c) % Mod(t)
  IN CASE op = "AddWithCarry" -> result
       [] op = "AddWithCarryCarry" -> Flag(partial < l \/ result < partial)
       [] op = "AddWithCarryOverflow" -> SumOverflow(l, r, result, t)

LowerCarryFlag(op, l, r, t) ==
  CASE op = "AddCarry" -> Flag((l + r) % Mod(t) < l)
    [] op = "SubCarry" -> Flag(l >= r)
    [] op = "AddOverflow" -> SumOverflow(l, r, (l + r) % Mod(t), t)
    [] op = "SubOverflow" -> Top((l ^^ r) & (l ^^ ((l - r) % Mod(t))), t)

\* Each bit step is unrolled: half of the CRC, and the polynomial selected by
\* the bit that left.
LowerCrc(crc, input, bytes, polynomial) ==
  LET Step(c) == (c \div 2) ^^ (IF c % 2 = 1 THEN polynomial ELSE 0)
      steps[k \in 0 .. bytes * ByteBits] ==
        CASE k = 0 -> crc
          [] k > 0 /\ (k - 1) % ByteBits = 0 ->
               Step(steps[k - 1] ^^ ((input \div 2 ^ (k - 1)) % Mod(Byte)))
          [] OTHER -> Step(steps[k - 1])
  IN steps[bytes * ByteBits]

\* Conditions are computed with the bitwise operations of i1.
LowerCondition(c, f) ==
  LET n == f.N  z == f.Z  carry == f.C  v == f.V
      Is(b) == b = 1
  IN CASE c = "Eq" -> Is(z)              [] c = "Ne" -> Is(1 - z)
       [] c = "Cs" -> Is(carry)          [] c = "Cc" -> Is(1 - carry)
       [] c = "Mi" -> Is(n)              [] c = "Pl" -> Is(1 - n)
       [] c = "Vs" -> Is(v)              [] c = "Vc" -> Is(1 - v)
       [] c = "Hi" -> Is(carry * (1 - z)) [] c = "Ls" -> Is(1 - carry) \/ Is(z)
       [] c = "Ge" -> n = v              [] c = "Lt" -> n # v
       [] c = "Gt" -> Is(1 - z) /\ n = v [] c = "Le" -> Is(z) \/ n # v
       [] c = "Al" -> TRUE               [] c = "Nv" -> FALSE

------------------------------------------------------------------------------
\* An operation on an undefined value is undefined.
LowerValue(op, t, a) ==
  LET l == a[1].bits
      r == a[2].bits
  IN CASE \E k \in DOMAIN a : a[k].bits = Undefined -> Undefined
       [] op \in {"Add", "Sub", "Mul", "And", "Or", "Xor", "ShiftLeft", "LogicalShiftRight",
                  "ArithmeticShiftRight", "RotateRight"} -> LowerBinary(op, l, r, t)
       [] op \in {"MulHighUnsigned", "MulHighSigned"} -> LowerMultiplyHigh(op, l, r, t)
       [] op \in {"DivideUnsigned", "DivideSigned"} -> LowerDivide(op, l, r, t)
       [] op = "Not" -> Invert(l, t)
       [] op \in {"Truncate", "ZeroExtend", "SignExtend"} -> LowerCast(op, l, a[1].type, t)
       [] op \in {"CompareEqual", "CompareNotEqual", "CompareUnsigned", "CompareSigned"} ->
            LowerCompare(op, l, r, a[1].type)
       [] op = "Select" -> IF l # 0 THEN r ELSE a[3].bits
       [] op \in {"AddWithCarry", "AddWithCarryCarry", "AddWithCarryOverflow"} ->
            LowerWithCarry(op, l, r, a[3].bits, a[1].type)
       [] op \in {"AddCarry", "SubCarry", "AddOverflow", "SubOverflow"} ->
            LowerCarryFlag(op, l, r, a[1].type)
       [] op = "Crc32" -> LowerCrc(l, r, a[3].bits, a[4].bits)
       [] op = "GuestAddressAdd" -> CheckedAdd(l, r)
       [] op = "GuestAddressAddSigned" -> CheckedAdd(l, Signed(r, t))

------------------------------------------------------------------------------
\* A function with a synchronization or system operation is lowered by another
\* class, which knows fewer operations and refuses the function for any other.
ConcurrentOperations ==
  {"Add", "Sub", "Mul", "And", "Or", "Xor", "MulHighUnsigned", "MulHighSigned", "Truncate",
   "ZeroExtend", "SignExtend", "CompareEqual", "CompareNotEqual", "CompareUnsigned",
   "CompareSigned", "Select", "GuestAddressAdd", "GuestAddressAddSigned"}

LowerConcurrent(op, t, a) == IF op \in ConcurrentOperations THEN LowerValue(op, t, a) ELSE Undefined

\* The instructions whose operations are all among them: no shift, complement,
\* division, flag, condition or vector.
ConcurrentInstructions ==
  {"Nop", "Mov", "Movz", "Movk", "Movn", "Add", "Sub", "And", "Orr", "Eor", "Neg", "Mul", "Madd",
   "Msub", "Mneg", "Umulh", "Smulh", "Umull", "Smull", "Umaddl", "Umsubl", "Smaddl", "Smsubl",
   "Adr", "Adrp", "LdrLiteral", "Ldr", "Ldur", "Ldrb", "Ldrh", "Ldrsb", "Ldrsh", "Ldrsw",
   "Str", "Stur", "Strb", "Strh", "Ldp", "Stp", "B", "Bl", "Br", "Blr", "Ret", "Cbz", "Cbnz", "Udf"}

LowersConcurrently(i) ==
  /\ i.id \in ConcurrentInstructions
  /\ \A k \in DOMAIN i.ops : /\ i.ops[k].kind # "vector" /\ i.ops[k].reg.width > 0
                             /\ i.ops[k].kind = "immediate" \/ i.ops[k].amount = 0
=============================================================================
