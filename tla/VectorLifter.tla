---------------------------- MODULE VectorLifter ----------------------------
(***************************************************************************)
(* The integer vector instructions, lifted and executed.  A vector operand   *)
(* has an arrangement and perhaps a lane.  One guest instruction may become  *)
(* so many IR operations and no more: a function with an instruction past    *)
(* that is not lifted at all.                                                *)
(***************************************************************************)
EXTENDS MemoryLifter, VectorRuntime

CONSTANT MaxOperations    \* IR operations per guest instruction

IsVectorOperand(o) == o.kind = "vector"
Vectors(i, n) == Len(i.ops) = n /\ \A k \in 1 .. n : IsVectorOperand(i.ops[k])
Source(i, k, s) == s.v[i.ops[k].reg.index]
Into(i, v, s) == WriteVectorRegister(i.ops[1].reg.index, v, s)
Shape(i) == i.ops[1].arrangement

LiftVectorCommon(i, s) ==
  LET op == CASE i.id \in {"And", "Ands"} -> "And"
              [] i.id \in {"Bic", "Bics"} -> "Bic"
              [] i.id = "Orr" -> "Or"
              [] i.id = "Eor" -> "Xor"
              [] OTHER -> i.id
  IN IF ~Vectors(i, 3) THEN Refuse(s)
     ELSE Into(i, VectorBinary(op, Shape(i), Source(i, 2, s), Source(i, 3, s)), s)

\* The decoder has expanded the immediate, and inverted MVNI's.
LiftMoveImmediate(i, s) ==
  IF Len(i.ops) # 2 \/ ~IsVectorOperand(i.ops[1]) \/ i.ops[2].kind # "immediate" THEN Refuse(s)
  ELSE Into(i, BroadcastLane(i.ops[2].immediate % Mod(Shape(i).bits), Shape(i)), s)

\* The source of a lane: a general register narrowed or widened to it, or a
\* lane of a vector, the first when none is named.
NamedLane(o) == IF o.lane < 0 THEN 0 ELSE o.lane
ExtractLane(o, s) ==
  [bits |-> ReadLane(s.v[o.reg.index], o.arrangement.bits, NamedLane(o)), type |-> o.arrangement.bits]

LaneOperand(o, a, s) ==
  CASE IsVectorOperand(o) -> ExtractLane(o, s)
    [] IsScalar(o) -> IF o.reg.width = a.bits THEN Read(o.reg, s)
                      ELSE Emit(IF o.reg.width > a.bits THEN "Truncate" ELSE "ZeroExtend", a.bits,
                                <<Read(o.reg, s)>>)
    [] OTHER -> Refused

LiftDuplicate(i, s) ==
  LET lane == LaneOperand(i.ops[2], Shape(i), s)
  IN IF Len(i.ops) # 2 \/ ~IsVectorOperand(i.ops[1]) \/ IsRefused(lane) THEN Refuse(s)
     ELSE Into(i, BroadcastLane(lane.bits, Shape(i)), s)

LiftInsert(i, s) ==
  LET lane == LaneOperand(i.ops[2], Shape(i), s)
  IN IF Len(i.ops) # 2 \/ ~IsVectorOperand(i.ops[1]) \/ IsRefused(lane) THEN Refuse(s)
     ELSE Into(i, WriteLane(Source(i, 1, s), lane.type, NamedLane(i.ops[1]), lane.bits), s)

LiftMoveLane(i, s) ==
  LET t == Type(i)
      lane == ExtractLane(i.ops[2], s)
      extension == IF i.id = "Smov" THEN "SignExtend" ELSE "ZeroExtend"
  IN IF Len(i.ops) # 2 \/ ~IsScalar(i.ops[1]) \/ ~IsVectorOperand(i.ops[2]) THEN Refuse(s)
     ELSE Put(i.ops[1].reg,
              IF lane.type = t THEN lane
              ELSE Emit(IF lane.type < t THEN extension ELSE "Truncate", t, <<lane>>), s)

LiftExt(i, s) ==
  IF Len(i.ops) < 3 \/ ~IsVectorOperand(i.ops[1]) THEN Refuse(s)
  ELSE Into(i, ExtractBytes(Source(i, 2, s), Source(i, 3, s), i.ops[Len(i.ops)].immediate), s)

LiftPermute(i, s) ==
  IF ~Vectors(i, 3) THEN Refuse(s)
  ELSE Into(i, VectorShuffle(i.id, Shape(i), Source(i, 2, s), Source(i, 3, s)), s)

\* Against a vector or against zero.
LiftVectorCompare(i, s) ==
  LET op == CASE i.id = "Cmeq" -> "Equal"
              [] i.id = "Cmgt" -> "SignedGreaterThan"
              [] i.id = "Cmge" -> "SignedGreaterEqual"
              [] i.id = "Cmhi" -> "UnsignedHigher"
              [] i.id = "Cmhs" -> "UnsignedHigherEqual"
      zeroForm == i.ops[3].kind = "immediate" /\ i.ops[3].immediate = 0
      right == IF zeroForm THEN ZeroVector ELSE Source(i, 3, s)
  IN IF Len(i.ops) # 3 \/ ~IsVectorOperand(i.ops[2]) \/ ~(zeroForm \/ IsVectorOperand(i.ops[3]))
       THEN Refuse(s)
       ELSE Into(i, VectorCompare(op, Shape(i), Source(i, 2, s), right), s)

\* TBL and TBX: the tables are between the destination and the indexes.
TableForm(i) ==
  LET n == Len(i.ops)
  IN /\ n \in 3 .. 6 /\ Vectors(i, n)
     /\ Shape(i).bits = Byte /\ i.ops[n].arrangement = Shape(i)
     /\ \A k \in 2 .. n - 1 : /\ i.ops[k].arrangement = Arrangement(Byte, 16)
                              /\ i.ops[k].reg.index = (i.ops[2].reg.index + k - 2) % VectorFile

LiftTableLookup(i, s) ==
  LET n == Len(i.ops)
      tables == [k \in 1 .. n - 2 |-> Source(i, k + 1, s)]
  IN IF ~TableForm(i) THEN Refuse(s)
     ELSE Into(i, VectorTableLookup(Shape(i), tables, i.id = "Tbx", Source(i, n, s), Source(i, 1, s)), s)

\* BIT, BIF and BSL: what the mask keeps, or the second source.
LiftBitSelect(i, s) ==
  LET destination == Source(i, 1, s)
      first == Source(i, 2, s)
      second == Source(i, 3, s)
      mask == IF i.id = "Bsl" THEN destination ELSE first
      Combine(op, l, r) == VectorBinary(op, Shape(i), l, r)
      preserve == Combine(IF i.id = "Bit" THEN "Bic" ELSE "And",
                          IF i.id = "Bsl" THEN first ELSE destination, mask)
      insert == Combine(IF i.id = "Bit" THEN "And" ELSE "Bic", second, mask)
  IN IF ~Vectors(i, 3) \/ Shape(i).bits # Byte THEN Refuse(s)
     ELSE Into(i, Combine("Or", preserve, insert), s)

\* UMULL and the accumulating forms, of the lower or the upper lanes.
Accumulates == {"Umlal", "Umlal2", "Smlal", "Smlal2", "Umlsl", "Umlsl2", "Smlsl", "Smlsl2"}
Widening == Accumulates \cup {"Umull", "Umull2", "Smull", "Smull2"}
Upper == {"Umull2", "Smull2", "Umlal2", "Smlal2", "Umlsl2", "Smlsl2"}
SignedMultiplies == {"Smull", "Smull2", "Smlal", "Smlal2", "Smlsl", "Smlsl2"}
Subtracts == {"Umlsl", "Umlsl2", "Smlsl", "Smlsl2"}

WideningForm(i) ==
  LET to == Shape(i)
      from == i.ops[2].arrangement
  IN /\ Vectors(i, 3) /\ to.bits = 2 * from.bits /\ i.ops[3].arrangement = from
     /\ from.lanes >= to.lanes * (IF i.id \in Upper THEN 2 ELSE 1)

LiftWideningMultiply(i, s) ==
  LET t == Shape(i).bits
      from == i.ops[2].arrangement.bits
      first == IF i.id \in Upper THEN Shape(i).lanes ELSE 0
      Lane(k, l) == [bits |-> ReadLane(Source(i, k, s), from, first + l), type |-> from]
      Wide(k, l) == Emit(IF i.id \in SignedMultiplies THEN "SignExtend" ELSE "ZeroExtend", t,
                         <<Lane(k, l)>>)
      Product(l) == Emit("Mul", t, <<Wide(2, l), Wide(3, l)>>)
      Old(l) == [bits |-> ReadLane(Source(i, 1, s), t, l), type |-> t]
      Result(l) == IF i.id \in Accumulates
                     THEN Emit(IF i.id \in Subtracts THEN "Sub" ELSE "Add", t, <<Old(l), Product(l)>>)
                     ELSE Product(l)
  IN IF ~WideningForm(i) THEN Refuse(s) ELSE Into(i, Laned(Shape(i), LAMBDA l : Result(l).bits), s)

------------------------------------------------------------------------------
\* How many IR operations an instruction becomes, where that depends on lanes;
\* the others stay far below the limit.  The program counter is set first.
StructureLoads == {"Ld1", "Ld2", "Ld3", "Ld4"}
Replicates == {"Ld1r", "Ld2r", "Ld3r", "Ld4r"}
StructureStores == {"St1", "St2", "St3", "St4"}

AddressOperations(i) ==
  LET n == ListLength(i)
      o == i.ops[n + 1]
  IN 2 + (IF o.mode # "PostIndex" /\ o.displacement # 0 THEN 1 ELSE 0)
       + (CASE o.mode = "Base" -> 0 [] Len(i.ops) = n + 2 -> 3 [] OTHER -> 2)

ElementOperations(i) ==
  LET n == ListLength(i)
      lanes == Shape(i).lanes
  IN CASE i.ops[1].lane >= 0 -> IF i.id = "Ld1" THEN 4 ELSE 3
       [] i.id \in Replicates -> 2 * n + n + n * lanes + n - 1
       [] i.id \in StructureLoads -> 2 * n + 2 * n * lanes + n * lanes - 1
       [] OTHER -> n + 2 * n * lanes + n * lanes - 1

Operations(i) ==
  CASE i.id \in StructureLoads \cup Replicates \cup StructureStores ->
         1 + AddressOperations(i) + ElementOperations(i)
    [] i.id \in Widening -> 6 + Shape(i).lanes * (IF i.id \in Accumulates THEN 8 ELSE 6)
    [] OTHER -> 1

WithinLimit(i) == Operations(i) <= MaxOperations
=============================================================================
