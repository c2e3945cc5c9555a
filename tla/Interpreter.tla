----------------------------- MODULE Interpreter -----------------------------
(***************************************************************************)
(* What the interpreter computes for each Semantic IR operation: a value of  *)
(* type t from the typed values a.  It keeps every value in 64 bits and      *)
(* masks each result to its type.                                            *)
(***************************************************************************)
EXTENDS CpuState, Bitwise

Complement(v, t) == Ones(t) - v

Arithmetic(op, l, r, t) ==
  CASE op = "Add" -> (l + r) % Mod(t)
    [] op = "Sub" -> (l - r) % Mod(t)
    [] op = "Mul" -> (l * r) % Mod(t)
    [] op = "And" -> (l & r) % Mod(t)
    [] op = "Or"  -> (l | r) % Mod(t)
    [] op = "Xor" -> (l ^^ r) % Mod(t)

MultiplyHigh(op, l, r, t) ==
  IF op = "MulHighUnsigned" THEN (l * r) \div Mod(t)
                            ELSE ((Signed(l, t) * Signed(r, t)) \div Mod(t)) % Mod(t)

\* Quotients are cut towards zero.
Quotient(l, r) == LET Abs(n) == IF n < 0 THEN -n ELSE n
                      q == Abs(l) \div Abs(r)
                  IN IF (l < 0) = (r < 0) THEN q ELSE -q

\* Division by zero gives zero, and the least integer over -1 gives itself.
Divide(op, l, r, t) ==
  LET least == -(2 ^ (t - 1))
  IN CASE r = 0 -> 0
       [] r # 0 /\ op = "DivideUnsigned" -> l \div r
       [] r # 0 /\ op = "DivideSigned" ->
            IF Signed(l, t) = least /\ Signed(r, t) = -1
              THEN least % Mod(t)
              ELSE Quotient(Signed(l, t), Signed(r, t)) % Mod(t)

\* An amount that is not below the width is an interpreter error.
Shift(op, v, n, t) ==
  CASE n >= t -> Undefined
    [] n < t /\ op = "ShiftLeft" -> (v * 2 ^ n) % Mod(t)
    [] n < t /\ op = "LogicalShiftRight" -> v \div 2 ^ n
    [] n < t /\ op = "ArithmeticShiftRight" ->
         v \div 2 ^ n + (IF Negative(v, t) /\ n # 0 THEN Mod(t) - 2 ^ (t - n) ELSE 0)
    [] n < t /\ op = "RotateRight" ->
         IF n = 0 THEN v ELSE (v \div 2 ^ n + v * 2 ^ (t - n)) % Mod(t)

Convert(op, v, from, t) ==
  (IF op = "SignExtend" /\ Negative(v, from) THEN v + Mod(t) - Mod(from) ELSE v) % Mod(t)

Bit(b) == IF b THEN 1 ELSE 0

Compare(op, l, r, t) ==
  Bit(CASE op = "CompareEqual" -> l = r
        [] op = "CompareNotEqual" -> l # r
        [] op = "CompareUnsigned" -> l < r
        [] op = "CompareSigned" ->
             IF Negative(l, t) # Negative(r, t) THEN Negative(l, t) ELSE l < r)

\* Addition with carry in, on operands of type t: the sum is taken in 64 bits,
\* which carries out of it only when t has 64.
WithCarry(op, l, r, c, t) ==
  LET partial == (l + r) % Mod(Doubleword)
      result == (partial + c) % Mod(t)
  IN CASE op = "AddWithCarry" -> result
       [] op = "AddWithCarryCarry" -> Bit(partial < l \/ result < partial)
       [] op = "AddWithCarryOverflow" ->
            Bit(Negative(l, t) = Negative(r, t) /\ Negative(result, t) # Negative(l, t))

\* A sum overflows when its operands share a sign it has not; a difference,
\* when its operands differ in sign and it has not the left one's.
AddOverflows(l, r, t) ==
  Negative(l, t) = Negative(r, t) /\ Negative((l + r) % Mod(t), t) # Negative(l, t)
SubOverflows(l, r, t) ==
  Negative(l, t) # Negative(r, t) /\ Negative((l - r) % Mod(t), t) # Negative(l, t)

CarryFlag(op, l, r, t) ==
  Bit(CASE op = "AddCarry" -> (l + r) % Mod(t) < l
        [] op = "SubCarry" -> l >= r
        [] op = "AddOverflow" -> AddOverflows(l, r, t)
        [] op = "SubOverflow" -> SubOverflows(l, r, t))

\* A reflected CRC over the low bytes of the input, a byte mixed in at a time.
Crc(crc, input, bytes, polynomial) ==
  LET Stepped(c) == IF c % 2 = 1 THEN (c \div 2) ^^ polynomial ELSE c \div 2
      eight[k \in 0 .. ByteBits] == [c \in 0 .. Ones(Word) |->
                                       IF k = 0 THEN c ELSE Stepped(eight[k - 1][c])]
      mixed[n \in 0 .. bytes] ==
        IF n = 0 THEN crc
        ELSE eight[ByteBits][mixed[n - 1] ^^ ((input \div 2 ^ ((n - 1) * ByteBits)) % Mod(Byte))]
  IN mixed[bytes]

------------------------------------------------------------------------------
Value(op, t, a) ==
  LET l == a[1].bits
      r == a[2].bits
  IN CASE op \in {"Add", "Sub", "Mul", "And", "Or", "Xor"} -> Arithmetic(op, l, r, t)
       [] op \in {"MulHighUnsigned", "MulHighSigned"} -> MultiplyHigh(op, l, r, t)
       [] op \in {"DivideUnsigned", "DivideSigned"} -> Divide(op, l, r, t)
       [] op = "Not" -> Complement(l, t)
       [] op \in {"ShiftLeft", "LogicalShiftRight", "ArithmeticShiftRight", "RotateRight"} ->
            Shift(op, l, r, t)
       [] op \in {"Truncate", "ZeroExtend", "SignExtend"} -> Convert(op, l, a[1].type, t)
       [] op \in {"CompareEqual", "CompareNotEqual", "CompareUnsigned", "CompareSigned"} ->
            Compare(op, l, r, a[1].type)
       [] op = "Select" -> IF l # 0 THEN r ELSE a[3].bits
       [] op \in {"AddWithCarry", "AddWithCarryCarry", "AddWithCarryOverflow"} ->
            WithCarry(op, l, r, a[3].bits, a[1].type)
       [] op \in {"AddCarry", "SubCarry", "AddOverflow", "SubOverflow"} ->
            CarryFlag(op, l, r, a[1].type)
       [] op = "Crc32" -> Crc(l, r, a[3].bits, a[4].bits)
       [] op = "GuestAddressAdd" -> CheckedAdd(l, r)
       [] op = "GuestAddressAddSigned" -> CheckedAdd(l, Signed(r, t))
=============================================================================
