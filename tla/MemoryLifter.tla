---------------------------- MODULE MemoryLifter ----------------------------
(***************************************************************************)
(* Loads and stores, lifted and executed: addresses, writeback, single       *)
(* registers, pairs, literals, and the vector structure loads and stores.    *)
(* A memory operand has a base register, a displacement, a mode, and perhaps *)
(* an index with its extension and shift.                                    *)
(***************************************************************************)
EXTENDS Lifter

IsVector(r) == r.width = 0       \* a V register: its size is i.size
NoIndex == [index |-> -1, width |-> 0, sp |-> FALSE, zero |-> FALSE]

AddressAdd(base, k) ==
  Emit("GuestAddressAdd", Doubleword, <<base, [bits |-> k, type |-> Doubleword]>>)

\* The index goes through the operand path: a W index needs an extension.
IndexValue(o, s) ==
  OperandValue([o EXCEPT !.kind = "register", !.reg = o.index,
                         !.shift = IF o.amount = 0 THEN "None" ELSE "Lsl"], Doubleword, s)

Failed(v) == v.bits < 0

Indexed(o, base, offset) ==
  CASE o.index = NoIndex -> base
    [] o.index # NoIndex /\ IsRefused(offset) -> Refused
    [] OTHER -> Emit(IF Signs(o.extension) THEN "GuestAddressAddSigned" ELSE "GuestAddressAdd",
                     Doubleword, <<base, offset>>)
Displaced(o, address) ==
  IF Failed(address) \/ o.displacement = 0 THEN address ELSE AddressAdd(address, o.displacement)

AddressFor(o, s) ==
  IF o.mode = "PostIndex" THEN Read(o.reg, s)
  ELSE Displaced(o, Indexed(o, Read(o.reg, s), IndexValue(o, s)))

\* The base is written back before the access when it is pre-indexed, so an
\* access that then faults leaves it moved.
Writeback(o, base, mode, s) ==
  LET updated == AddressAdd(base, o.displacement)
  IN CASE o.mode # mode -> s
       [] o.mode = mode /\ Failed(updated) -> Fault(s)
       [] OTHER -> Put(o.reg, updated, s)

\* One access: Size bits at an address, of the low bits of a value or into one.
StoreBits(a, size, v, s) == IF Failed(a) THEN Fault(s) ELSE StoreBytes(a.bits, size \div Byte, v, s)
LoadBits(a, size, s) ==
  [bits |-> IF Failed(a) THEN Undefined ELSE LoadBytes(a.bits, size \div Byte, s), type |-> size]

LoadRegister(r, a, size, signed, s) ==
  LET raw == LoadBits(a, size, s)
      wide == IF size = r.width THEN raw
              ELSE Emit(IF signed THEN "SignExtend" ELSE "ZeroExtend", r.width, <<raw>>)
  IN IF Failed(raw) THEN Fault(s) ELSE Put(r, wide, s)

StoreRegister(r, a, size, s) ==
  LET value == Read(r, s)
      low == IF size = r.width THEN value ELSE Emit("Truncate", size, <<value>>)
  IN StoreBits(a, size, low.bits, s)

\* A vector access: an S or D one is lane 0, and a load clears the rest; a Q
\* one is all sixteen bytes at once.
VectorBits(v, size) == ReadLane(v, size, 0)
StoreVector(r, a, size, s) ==
  IF Failed(a) \/ s.status # "ok" THEN Fault(s)
  ELSE IF size < 16 * Byte THEN StoreBytes(a.bits, size \div Byte, VectorBits(s.v[r.index], size), s)
  ELSE IF ~(Cells(a.bits, 16) \subseteq Storable) THEN Fault(s)
  ELSE Invalidated(a.bits, 16,
         [s EXCEPT !.memory = [b \in DOMAIN @ |-> IF b \in Cells(a.bits, 16)
                                                     THEN s.v[r.index][b - a.bits] ELSE @[b]]])

LoadVector(r, a, size, s) ==
  LET n == size \div Byte
  IN IF \/ Failed(a) \/ s.status # "ok"
        \/ ~(Cells(a.bits, n) \subseteq Loadable) \/ ~Placed(a.bits, n, s)
       THEN Fault(s)
       ELSE WriteVectorRegister(r.index,
              IF size < 16 * Byte
                THEN WriteLane(ZeroVector, size, 0, LoadBytes(a.bits, n, s))
                ELSE [k \in 0 .. 15 |-> s.memory[a.bits + k]], s)

------------------------------------------------------------------------------
\* Every access: the address first, then the base, its writeback when
\* pre-indexed, the access itself, its writeback when post-indexed.
AccessAt(o, address, Does(_, _), s) ==
  LET base == Read(o.reg, s)
  IN CASE IsRefused(address) \/ o.reg.width # Doubleword -> Refuse(s)
       [] ~IsRefused(address) /\ Failed(address) -> Fault(s)
       [] OTHER -> Writeback(o, base, "PostIndex", Does(address, Writeback(o, base, "PreIndex", s)))
Access(o, Does(_, _), s) == AccessAt(o, AddressFor(o, s), Does, s)

AccessSize(i) ==
  CASE i.id \in {"Ldrb", "Ldrsb", "Strb"} -> Byte
    [] i.id \in {"Ldrh", "Ldrsh", "Strh"} -> Half
    [] i.id = "Ldrsw" -> Word
    [] OTHER -> i.ops[1].reg.width

VectorSizes == {Word, Doubleword, 16 * Byte}
Transfer(r, store, a, size, signed, s) ==
  CASE IsVector(r) /\ store -> StoreVector(r, a, size, s)
    [] IsVector(r) /\ ~store -> LoadVector(r, a, size, s)
    [] ~IsVector(r) /\ store -> StoreRegister(r, a, size, s)
    [] OTHER -> LoadRegister(r, a, size, signed, s)

LiftMemory(i, store, s) ==
  LET r == i.ops[1].reg
      size == IF IsVector(r) THEN i.size ELSE AccessSize(i)
      signed == i.id \in {"Ldrsb", "Ldrsh", "Ldrsw"}
  IN IF \/ Len(i.ops) # 2 \/ i.ops[2].kind # "memory"
        \/ IsVector(r) /\ size \notin VectorSizes
       THEN Refuse(s)
       ELSE Access(i.ops[2], LAMBDA a, t : Transfer(r, store, a, size, signed, t), s)

\* A pair is two accesses, the second a register's size further on; the second
\* is computed, and can fault, after the first was done.
LiftPair(i, store, s) ==
  LET r == [k \in 1 .. 2 |-> i.ops[k].reg]
      size == IF IsVector(r[1]) THEN i.size ELSE r[1].width
      Second(a, t) == IF t.status # "ok" THEN t ELSE Transfer(r[2], store, a, size, FALSE, t)
  IN IF \/ Len(i.ops) # 3 \/ i.ops[3].kind # "memory" \/ r[1].width # r[2].width
        \/ size \notin VectorSizes
       THEN Refuse(s)
       ELSE Access(i.ops[3],
                   LAMBDA a, t : Second(AddressAdd(a, size \div Byte),
                                        Transfer(r[1], store, a, size, FALSE, t)), s)

\* A literal: the address is the validated pc-relative value.
LiftLiteral(i, s) ==
  LET r == i.ops[1].reg
      size == IF i.signed THEN Word ELSE r.width
  IN IF ~IsScalar(i.ops[1]) \/ i.relative = Undefined THEN Refuse(s)
     ELSE LoadRegister(r, Constant(i.relative, Doubleword), size, i.signed, s)

------------------------------------------------------------------------------
\* LD1 to LD4, their replicating forms, and ST1 to ST4.  The operands are the
\* register list, the memory operand, and perhaps an X offset register.
Fixed == [Ld1r |-> 1, Ld2 |-> 2, Ld2r |-> 2, Ld3 |-> 3, Ld3r |-> 3, Ld4 |-> 4, Ld4r |-> 4,
          St2 |-> 2, St3 |-> 3, St4 |-> 4]
ListLength(i) == Cardinality({k \in DOMAIN i.ops : i.ops[k].kind = "vector"})

\* A list is of consecutive registers, modulo the size of the vector file.
StructureForm(i) ==
  LET n == ListLength(i)
      o == i.ops[1]
  IN /\ Len(i.ops) \in {n + 1, n + 2} /\ i.ops[n + 1].kind = "memory"
     /\ IF i.id \in {"Ld1", "St1"} THEN n \in 1 .. 4 ELSE n = Fixed[i.id]
     /\ Len(i.ops) = n + 2 => /\ i.ops[n + 1].mode = "PostIndex"
                              /\ i.ops[n + 2].kind = "register"
                              /\ i.ops[n + 2].reg.width = Doubleword
     /\ i.ops[n + 1].mode \in {"Base", "PreIndex", "PostIndex"}
     /\ \A k \in 1 .. n : /\ i.ops[k].arrangement = o.arrangement
                          /\ i.ops[k].reg.index = (o.reg.index + k - 1) % VectorFile
     /\ o.lane >= 0 => i.id \in {"Ld1", "St1"} /\ n = 1 /\ o.lane < o.arrangement.lanes
     /\ i.id \in {"Ld2", "Ld3", "Ld4", "St2", "St3", "St4"} =>
          ~(o.arrangement.lanes = 1 /\ o.arrangement.bits = Doubleword)

\* The elements in the order they are accessed: a register of the list and a lane.
LaneMajor(n, lanes) == [k \in 1 .. n * lanes |-> <<((k - 1) % n) + 1, (k - 1) \div n>>]
RegisterMajor(n, lanes) == [k \in 1 .. n * lanes |-> <<((k - 1) \div lanes) + 1, (k - 1) % lanes>>]

\* The base afterwards: plus the offset register, or plus the displacement.
StructureWriteback(i, base, s) ==
  LET n == ListLength(i)
      offset == Read(i.ops[n + 2].reg, s)
      updated == Emit("GuestAddressAdd", Doubleword, <<base, offset>>)
  IN CASE s.status # "ok" -> s
       [] s.status = "ok" /\ Len(i.ops) = n + 2 ->
            IF Failed(updated) THEN Fault(s) ELSE Put(i.ops[n + 1].reg, updated, s)
       [] OTHER -> Writeback(i.ops[n + 1], base, "PostIndex", s)

ElementAddress(a, k, bits) ==
  IF k = 1 THEN a ELSE AddressAdd(a, (k - 1) * LaneBytes(bits))

Replicating == {"Ld1r", "Ld2r", "Ld3r", "Ld4r"}

\* A list is loaded lane by lane, LD1's too; a single lane is one element; a
\* replicating form loads one element for each register.
StructureLoadVisits(i) ==
  LET n == ListLength(i)
      o == i.ops[1]
  IN CASE o.lane >= 0 -> <<<<1, o.lane>>>>
       [] i.id \in Replicating -> [k \in 1 .. n |-> <<k, 0>>]
       [] OTHER -> LaneMajor(n, o.arrangement.lanes)

\* Nothing is written until every element was loaded; the lanes that were not
\* loaded keep what they had, the upper half of a 64-bit form included.
LoadElements(i, visits, start, s) ==
  LET bits == i.ops[1].arrangement.bits
  IN [k \in DOMAIN visits |-> LoadBits(ElementAddress(start, k, bits), bits, s).bits]

\* The registers of the list, from the elements loaded.
FillList(i, visits, element, s) ==
  LET n == ListLength(i)
      o == i.ops[1]
      bits == o.arrangement.bits
      replicates == i.id \in Replicating
      Lane(d, l) == {k \in DOMAIN visits : visits[k][1] = d /\ (replicates \/ visits[k][2] = l)}
      Loaded(d) ==
        [b \in 0 .. 15 |->
           LET l == b \div LaneBytes(bits)
           IN IF l < o.arrangement.lanes /\ Lane(d, l) # {}
                THEN (element[CHOOSE k \in Lane(d, l) : TRUE]
                        \div 2 ^ ((b % LaneBytes(bits)) * ByteBits)) % Mod(Byte)
                ELSE s.v[i.ops[d].reg.index][b]]
      Destination(v) == {d \in 1 .. n : i.ops[d].reg.index = v}
  IN IF \E k \in DOMAIN element : element[k] = Undefined THEN Fault(s)
     ELSE [s EXCEPT !.v = [v \in DOMAIN @ |->
             IF Destination(v) = {} THEN @[v] ELSE Loaded(CHOOSE d \in Destination(v) : TRUE)]]

LiftStructureLoad(i, s) ==
  LET memory == i.ops[ListLength(i) + 1]
      base == Read(memory.reg, s)
      visits == StructureLoadVisits(i)
  IN IF ~StructureForm(i) THEN Refuse(s)
     ELSE StructureWriteback(i, base,
            FillList(i, visits, LoadElements(i, visits, AddressFor(memory, s), s),
                     Writeback(memory, base, "PreIndex", s)))

\* A list is stored register by register by ST1 and lane by lane by the others.
StructureStoreVisits(i) ==
  LET n == ListLength(i)
      o == i.ops[1]
  IN CASE o.lane >= 0 -> <<<<1, o.lane>>>>
       [] i.id = "St1" /\ o.lane < 0 -> RegisterMajor(n, o.arrangement.lanes)
       [] OTHER -> LaneMajor(n, o.arrangement.lanes)

\* Elements are stored one at a time: a fault leaves the earlier ones stored.
StoreElements(i, visits, start, s) ==
  LET bits == i.ops[1].arrangement.bits
      Element(k) == ReadLane(s.v[i.ops[visits[k][1]].reg.index], bits, visits[k][2])
      stored[k \in 0 .. Len(visits)] ==
        IF k = 0 THEN s
        ELSE StoreBits(ElementAddress(start, k, bits), bits, Element(k), stored[k - 1])
  IN stored[Len(visits)]

LiftStructureStore(i, s) ==
  LET memory == i.ops[ListLength(i) + 1]
      base == Read(memory.reg, s)
  IN IF ~StructureForm(i) THEN Refuse(s)
     ELSE StructureWriteback(i, base,
            StoreElements(i, StructureStoreVisits(i), AddressFor(memory, s),
                          Writeback(memory, base, "PreIndex", s)))
=============================================================================
