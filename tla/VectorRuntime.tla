---------------------------- MODULE VectorRuntime ----------------------------
(***************************************************************************)
(* The runtime's vector helpers, which the interpreter and compiled code     *)
(* both call.  An arrangement has lanes of so many bits; a 64-bit one leaves *)
(* the upper half of its result zero.                                        *)
(***************************************************************************)
EXTENDS CpuState, Bitwise

Arrangement(bits, lanes) == [bits |-> bits, lanes |-> lanes]

\* A vector from the value of each lane, the unused ones cleared.
Laned(a, F(_)) ==
  LET lane == [l \in 0 .. a.lanes - 1 |-> F(l)]
      n == LaneBytes(a.bits)
  IN [k \in 0 .. 15 |-> IF k \div n < a.lanes
                          THEN (lane[k \div n] \div 2 ^ ((k % n) * ByteBits)) % Mod(Byte)
                          ELSE 0]

BroadcastLane(v, a) == Laned(a, LAMBDA l : v)

VectorBinary(op, a, left, right) ==
  LET Of(x, y) == CASE op = "And" -> x & y
                    [] op = "Or"  -> x | y
                    [] op = "Xor" -> x ^^ y
                    [] op = "Bic" -> x & (Ones(a.bits) - y)
                    [] op = "Add" -> (x + y) % Mod(a.bits)
                    [] op = "Sub" -> (x - y) % Mod(a.bits)
                    [] op = "Mul" -> (x * y) % Mod(a.bits)
  IN Laned(a, LAMBDA l : Of(ReadLane(left, a.bits, l), ReadLane(right, a.bits, l)))

VectorCompare(op, a, left, right) ==
  LET Selected(x, y) == CASE op = "Equal" -> x = y
                          [] op = "SignedGreaterThan" -> Signed(x, a.bits) > Signed(y, a.bits)
                          [] op = "SignedGreaterEqual" -> Signed(x, a.bits) >= Signed(y, a.bits)
                          [] op = "UnsignedHigher" -> x > y
                          [] op = "UnsignedHigherEqual" -> x >= y
  IN Laned(a, LAMBDA l : IF Selected(ReadLane(left, a.bits, l), ReadLane(right, a.bits, l))
                           THEN Ones(a.bits) ELSE 0)

\* A lane keeps the destination's byte, or zero, when its index is past the tables.
VectorTableLookup(a, tables, preserves, indexes, destination) ==
  [k \in 0 .. 15 |->
     LET at == indexes[k]
     IN CASE k < a.lanes /\ at < 16 * Len(tables) -> tables[(at \div 16) + 1][at % 16]
          [] preserves /\ ~(k < a.lanes /\ at < 16 * Len(tables)) -> destination[k]
          [] OTHER -> 0]

\* EXT takes sixteen bytes of both sources whatever the arrangement.
ExtractBytes(left, right, offset) ==
  [k \in 0 .. 15 |-> IF k + offset < 16 THEN left[k + offset] ELSE right[k + offset - 16]]

VectorShuffle(op, a, left, right) ==
  LET half == a.lanes \div 2
      odd == IF op \in {"Zip2", "Uzp2", "Trn2"} THEN 1 ELSE 0
      Source(out) == CASE op \in {"Zip1", "Zip2"} -> odd * half + out \div 2
                       [] op \in {"Uzp1", "Uzp2"} -> 2 * (out % half) + odd
                       [] op \in {"Trn1", "Trn2"} -> 2 * (out \div 2) + odd
      FromRight(out) == IF op \in {"Uzp1", "Uzp2"} THEN out >= half ELSE out % 2 = 1
  IN IF half = 0 THEN ZeroVector
     ELSE Laned(a, LAMBDA out : ReadLane(IF FromRight(out) THEN right ELSE left, a.bits, Source(out)))
=============================================================================
