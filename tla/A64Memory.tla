------------------------------ MODULE A64Memory ------------------------------
(***************************************************************************)
(* What the A64 loads and stores, integer vector instructions and branches   *)
(* mean, and with them a whole instruction: Meaning.                         *)
(***************************************************************************)
EXTENDS A64

\* The address an operand stands for, and its base afterwards.
Offset(o, s) ==
  IF o.index.index < 0 THEN 0
  ELSE LET x == Shifted(ExtendedTo(Of(o.index, s), o.extension, Doubleword), "Lsl", o.amount, Doubleword)
       IN IF o.extension \in {"Sxtb", "Sxth", "Sxtw", "Sxtx"} THEN Signed(x, Doubleword) ELSE x

Base(o, s) == Of(o.reg, s)
Address(o, s) == Base(o, s) + (IF o.mode = "PostIndex" THEN 0 ELSE Offset(o, s) + o.displacement)
Rebased(o, base, s) == IF o.mode = "Base" THEN s ELSE Set(o.reg, base + o.displacement, s)
InSpace(o, s) == o.mode # "Base" => Base(o, s) + o.displacement \in 0 .. 2 ^ Doubleword - 1

Bytes(a, n) == {a + k : k \in 0 .. n - 1}
Loads(a, n) == Bytes(a, n) \subseteq Loadable
Stores(a, n) == Bytes(a, n) \subseteq Storable

\* Where threads share memory, what is not a whole vector must be aligned
\* (docs/MILESTONE_9.md), and a write to the granule a load-exclusive marked
\* takes the mark away.
Aligned(a, n, s) == s.shared /\ n # 16 => a % n = 0
Unmarked == [at |-> Undefined, size |-> 0]
GranulesOf(a, n) == {b \div GranuleSize : b \in Bytes(a, n)}
Marking(m, a, n) == IF m # Unmarked /\ m.at \div GranuleSize \in GranulesOf(a, n) THEN Unmarked ELSE m
LoadedFrom(a, n, s) == Joined([k \in 0 .. n - 1 |-> s.memory[a + k]])
StoredTo(a, n, v, s) ==
  [s EXCEPT !.memory = [b \in DOMAIN @ |-> IF b \in Bytes(a, n) THEN Cut(v, (b - a) * Byte, Byte) ELSE @[b]],
            !.monitor = Marking(@, a, n)]

Aborted(s) == [s EXCEPT !.status = "fault"]

\* A vector register is one number.
Whole(v) == Joined(v)
InBytes(n) == [k \in 0 .. 15 |-> Cut(n, k * Byte, Byte)]
LaneOf(v, bits, l) == Cut(Whole(v), l * bits, bits)
FromLanes(a, F(_)) == InBytes(MapThenSumSet(LAMBDA l : F(l) * 2 ^ (l * a.bits), 0 .. a.lanes - 1))
PutLane(v, bits, l, x) == InBytes(Deposit(Whole(v), l * bits, bits, x))
SetVector(r, v, s) == [s EXCEPT !.v[r.index] = v]

------------------------------------------------------------------------------
\* Single registers and pairs: what is transferred, and how wide it is.
IsStore(i) == i.id \in {"Str", "Stur", "Strb", "Strh", "Stp"}
Width(i) ==
  CASE i.id \in {"Ldrb", "Ldrsb", "Strb"} -> Byte
    [] i.id \in {"Ldrh", "Ldrsh", "Strh"} -> Half
    [] i.id = "Ldrsw" \/ i.signed -> Word
    [] i.ops[1].reg.width = 0 -> i.size
    [] OTHER -> i.ops[1].reg.width

ToRegister(r, w, signed, x, s) ==
  CASE r.width = 0 -> SetVector(r, InBytes(x), s)
    [] signed -> Set(r, SignExtended(x, w, r.width), s)
    [] OTHER -> Set(r, x, s)

FromRegister(r, w, s) == IF r.width = 0 THEN Cut(Whole(s.v[r.index]), 0, w) ELSE Cut(Of(r, s), 0, w)

Transfer(i, a, s) ==
  LET n == IF i.id \in {"Ldp", "Stp"} THEN 2 ELSE 1
      w == Width(i)
      size == w \div Byte
      signed == i.signed \/ i.id \in {"Ldrsb", "Ldrsh", "Ldrsw"}
      At(k) == a + (k - 1) * size
      done[k \in 0 .. n] ==
        CASE k = 0 -> s
          [] k > 0 /\ IsStore(i) -> StoredTo(At(k), size, FromRegister(i.ops[k].reg, w, s), done[k - 1])
          [] OTHER -> ToRegister(i.ops[k].reg, w, signed, LoadedFrom(At(k), size, s), done[k - 1])
  IN IF Aligned(a, size, s) /\ (IF IsStore(i) THEN Stores(a, n * size) ELSE Loads(a, n * size))
       THEN done[n] ELSE Aborted(s)

\* The base moves whether the index comes before or after the access.
Accessed(i, s) ==
  LET o == i.ops[Len(i.ops)]
      after == Transfer(i, Address(o, s), s)
  IN IF after.status = "ok" /\ InSpace(o, s) THEN Rebased(o, Base(o, s), after) ELSE Aborted(s)

------------------------------------------------------------------------------
\* Integer vectors.
LanewiseOf(id, x, y, t) ==
  CASE id = "Add" -> (x + y) % 2 ^ t [] id = "Sub" -> (x - y) % 2 ^ t [] id = "Mul" -> (x * y) % 2 ^ t
    [] id \in {"Cmeq", "Cmgt", "Cmge", "Cmhi", "Cmhs"} ->
         IF CASE id = "Cmeq" -> x = y [] id = "Cmhi" -> x > y [] id = "Cmhs" -> x >= y
              [] id = "Cmgt" -> Signed(x, t) > Signed(y, t)
              [] id = "Cmge" -> Signed(x, t) >= Signed(y, t)
           THEN 2 ^ t - 1 ELSE 0
    [] OTHER -> LogicOf(id, x, y, t)

\* The lane a permutation takes: zip reads the pairs of lanes of one half one
\* after the other, uzp every other lane of the two sources end to end, and trn
\* every other lane of each.
Permuted(id, a, n, m, l) ==
  LET part == IF id \in {"Zip2", "Uzp2", "Trn2"} THEN 1 ELSE 0
      pair == l \div 2
      one == IF l % 2 = 0 THEN n ELSE m
      both == [k \in 0 .. 2 * a.lanes - 1 |-> IF k < a.lanes THEN LaneOf(n, a.bits, k)
                                                            ELSE LaneOf(m, a.bits, k - a.lanes)]
  IN CASE id \in {"Zip1", "Zip2"} -> LaneOf(one, a.bits, part * (a.lanes \div 2) + pair)
       [] id \in {"Uzp1", "Uzp2"} -> both[2 * l + part]
       [] id \in {"Trn1", "Trn2"} -> LaneOf(one, a.bits, 2 * pair + part)

\* The bits of a where the mask is set, and of b elsewhere.
Choose(mask, a, b) == LogicOf("Orr", LogicOf("And", a, mask, 16 * Byte), LogicOf("Bic", b, mask, 16 * Byte), 16 * Byte)

Vectored(i, s) ==
  LET a == i.ops[1].arrangement
      V(k) == s.v[i.ops[k].reg.index]
      Used(v) == Cut(Whole(v), 0, a.bits * a.lanes)
      zero == i.ops[Len(i.ops)].kind = "immediate"
      signed == i.id \in {"Smull", "Smull2", "Smlal", "Smlal2", "Smlsl", "Smlsl2"}
      from == i.ops[2].arrangement.bits
      high == i.id \in {"Umull2", "Smull2", "Umlal2", "Smlal2", "Umlsl2", "Smlsl2"}
      Factor(k, l) == LET x == LaneOf(V(k), from, IF high THEN l + a.lanes ELSE l)
                      IN IF signed THEN Signed(x, from) ELSE x
      old == CASE i.id \in {"Umull", "Smull", "Umull2", "Smull2"} -> [l \in 0 .. a.lanes - 1 |-> 0]
               [] OTHER -> [l \in 0 .. a.lanes - 1 |-> LaneOf(V(1), a.bits, l)]
      sign == IF i.id \in {"Umlsl", "Smlsl", "Umlsl2", "Smlsl2"} THEN -1 ELSE 1
  IN CASE i.id \in {"Umull", "Smull", "Umull2", "Smull2", "Umlal", "Smlal", "Umlal2", "Smlal2",
                    "Umlsl", "Smlsl", "Umlsl2", "Smlsl2"} ->
            FromLanes(a, LAMBDA l : (old[l] + sign * Factor(2, l) * Factor(3, l)) % 2 ^ a.bits)
       [] i.id \in {"Zip1", "Zip2", "Uzp1", "Uzp2", "Trn1", "Trn2"} ->
            FromLanes(a, LAMBDA l : Permuted(i.id, a, V(2), V(3), l))
       [] i.id = "Bsl" -> InBytes(Choose(Used(V(1)), Used(V(2)), Used(V(3))))
       [] i.id = "Bit" -> InBytes(Choose(Used(V(3)), Used(V(2)), Used(V(1))))
       [] i.id = "Bif" -> InBytes(Choose(Used(V(3)), Used(V(1)), Used(V(2))))
       [] i.id \in {"Movi", "Mvni"} -> FromLanes(a, LAMBDA l : i.ops[2].immediate)
       [] i.id \in {"Tbl", "Tbx"} ->
            [k \in 0 .. 15 |->
               LET at == V(Len(i.ops))[k]
                   tables == Len(i.ops) - 2
               IN CASE k >= a.lanes -> 0
                    [] k < a.lanes /\ at < 16 * tables -> V(2 + at \div 16)[at % 16]
                    [] OTHER -> IF i.id = "Tbx" THEN V(1)[k] ELSE 0]
       [] i.id = "Ext" ->
            [k \in 0 .. 15 |-> LET n == k + i.ops[4].immediate IN IF n < 16 THEN V(2)[n] ELSE V(3)[n - 16]]
       [] OTHER -> FromLanes(a, LAMBDA l : LanewiseOf(i.id, LaneOf(V(2), a.bits, l),
                                              IF zero THEN 0 ELSE LaneOf(V(3), a.bits, l), a.bits))

\* Lanes moved between registers; a lane not named is the first.
Named(o) == IF o.lane < 0 THEN 0 ELSE o.lane
LaneMoved(i, s) ==
  LET to == i.ops[1]
      from == i.ops[2]
      a == IF to.kind = "vector" THEN to.arrangement ELSE from.arrangement
      lane == IF from.kind = "vector" THEN LaneOf(s.v[from.reg.index], from.arrangement.bits, Named(from))
              ELSE Of(from.reg, s) % 2 ^ a.bits
  IN CASE i.id = "Dup" -> SetVector(to.reg, FromLanes(a, LAMBDA l : lane), s)
       [] i.id = "Ins" -> SetVector(to.reg, PutLane(s.v[to.reg.index], a.bits, Named(to), lane), s)
       [] i.id = "Umov" -> Set(to.reg, lane, s)
       [] i.id = "Smov" -> Set(to.reg, SignExtended(lane, a.bits, to.reg.width), s)

\* Structures: element e of structure k is at k * n + e, and LD1 and ST1 move
\* whole registers one after the other.
Structured(i, s) ==
  LET n == Cardinality({k \in DOMAIN i.ops : i.ops[k].kind = "vector"})
      o == i.ops[1]
      memory == i.ops[n + 1]
      a == Base(memory, s)
      bits == o.arrangement.bits
      size == bits \div Byte
      lanes == o.arrangement.lanes
      single == o.lane >= 0
      replicates == i.id \in {"Ld1r", "Ld2r", "Ld3r", "Ld4r"}
      count == IF single \/ replicates THEN n ELSE n * lanes
      lists == i.id \in {"Ld1", "St1"}
      Place(e, l) == CASE single -> 0 [] replicates -> e
                       [] lists /\ ~single -> e * lanes + l [] OTHER -> l * n + e
      At(e, l) == a + Place(e, l) * size
      touched == IF single THEN {o.lane} ELSE 0 .. lanes - 1
      moved == IF Len(i.ops) = n + 2 THEN Set(memory.reg, a + Of(i.ops[n + 2].reg, s), s)
                                     ELSE Rebased(memory, a, s)
      Element(e) == i.ops[e + 1].reg.index
      Filled(e) == FromLanes([bits |-> bits, lanes |-> 16 \div size],
                     LAMBDA l : IF l \in touched THEN LoadedFrom(At(e, l), size, s)
                                ELSE LaneOf(s.v[Element(e)], bits, l))
      loaded == [moved EXCEPT !.v = [r \in DOMAIN @ |->
                   LET es == {e \in 0 .. n - 1 : Element(e) = r}
                   IN IF es = {} THEN @[r] ELSE Filled(CHOOSE e \in es : TRUE)]]
      stored == [moved EXCEPT !.memory = [b \in DOMAIN @ |->
                   LET hits == {p \in (0 .. n - 1) \X touched : b \in Bytes(At(p[1], p[2]), size)}
                   IN IF hits = {} THEN @[b]
                      ELSE LET p == CHOOSE p \in hits : TRUE
                           IN Cut(LaneOf(s.v[Element(p[1])], bits, p[2]), (b - At(p[1], p[2])) * Byte, Byte)],
                 !.monitor = Marking(@, a, count * size)]
      reached == IF Len(i.ops) = n + 2 THEN a + Of(i.ops[n + 2].reg, s) < 2 ^ Doubleword
                                       ELSE InSpace(memory, s)
  IN CASE ~reached \/ ~Aligned(a, size, s) -> Aborted(s)
       [] reached /\ Aligned(a, size, s) /\ i.id \in {"St1", "St2", "St3", "St4"} ->
            IF Stores(a, count * size) THEN stored ELSE Aborted(s)
       [] OTHER -> IF Loads(a, count * size) THEN loaded ELSE Aborted(s)

------------------------------------------------------------------------------
\* Synchronization: exclusive pairs, acquire and release, system registers.
Synchronized(i) ==
  LET Among(names) == i.id \in names
  IN CASE Among({"Ldxr", "Ldxrb", "Ldxrh", "Ldaxr", "Ldaxrb", "Ldaxrh"}) -> "LoadExclusive"
       [] Among({"Stxr", "Stxrb", "Stxrh", "Stlxr", "Stlxrb", "Stlxrh"}) -> "StoreExclusive"
       [] Among({"Ldar", "Ldarb", "Ldarh"}) -> "Load" [] Among({"Stlr", "Stlrb", "Stlrh"}) -> "Store"
       [] Among({"Clrex", "Dmb", "Dsb", "Isb", "Mrs", "Msr"}) -> i.id
       [] OTHER -> "None"

\* A store-exclusive stores when its own mark is still there, and tells whether.
Synchronizes(i, s) ==
  LET kind == Synchronized(i)
      data == i.ops[IF kind = "StoreExclusive" THEN 2 ELSE 1].reg
      a == Of(i.ops[Len(i.ops)].reg, s)
      n == CASE i.id \in {"Ldxrb", "Ldaxrb", "Stxrb", "Stlxrb", "Ldarb", "Stlrb"} -> 1
             [] i.id \in {"Ldxrh", "Ldaxrh", "Stxrh", "Stlxrh", "Ldarh", "Stlrh"} -> 2
             [] OTHER -> data.width \div Byte
      loaded == Set(data, LoadedFrom(a, n, s), s)
      stored == StoredTo(a, n, Cut(Of(data, s), 0, n * Byte), s)
      reachable == a % n = 0 /\ (IF kind \in {"Load", "LoadExclusive"} THEN Loads(a, n) ELSE Stores(a, n))
      marked == s.monitor = [at |-> a, size |-> n]
  IN CASE kind = "Clrex" -> [s EXCEPT !.monitor = Unmarked]
       [] kind \in {"Dmb", "Dsb", "Isb"} -> s
       [] kind = "Mrs" -> Set(i.ops[1].reg, IF i.system = "TpidrEl0" THEN s.tpidr ELSE s.tpidrro, s)
       [] kind = "Msr" -> [s EXCEPT !.tpidr = Of(i.ops[1].reg, s)]
       [] kind \notin {"Clrex", "Dmb", "Dsb", "Isb", "Mrs", "Msr"} /\ ~reachable -> Aborted(s)
       [] reachable /\ kind = "Load" -> loaded
       [] reachable /\ kind = "Store" -> stored
       [] reachable /\ kind = "LoadExclusive" -> [loaded EXCEPT !.monitor = [at |-> a, size |-> n]]
       [] reachable /\ kind = "StoreExclusive" ->
            [Set(i.ops[1].reg, Flagged(~marked), IF marked THEN stored ELSE s) EXCEPT !.monitor = Unmarked]

------------------------------------------------------------------------------
\* Control flow: where the program counter goes next.
Next(i, s) ==
  LET v == Of(i.ops[1].reg, s)
      taken == CASE i.id = "BCond" -> Truth(i.condition, s.flags)
                 [] i.id = "Cbz" -> v = 0 [] i.id = "Cbnz" -> v # 0
                 [] i.id = "Tbz" -> BitOf(v, i.bit) = 0 [] i.id = "Tbnz" -> BitOf(v, i.bit) = 1
  IN CASE i.id \in {"Br", "Blr"} -> Of(i.flow.register, s)
       [] i.id = "Ret" -> IF Of(i.flow.register, s) = 0 THEN i.address ELSE Of(i.flow.register, s)
       [] i.id \in {"B", "Bl"} -> i.flow.target
       [] i.id \in {"BCond", "Cbz", "Cbnz", "Tbz", "Tbnz"} ->
            IF taken THEN i.flow.target ELSE i.address + 4
       [] OTHER -> i.address + 4

Links(i) == i.id \in {"Bl", "Blr"}

\* A return to address zero ends the guest: the program counter stays.
Performed(i, s, Reflected(_)) ==
  LET Gives(v) == Set(i.ops[1].reg, v, s)
      vector == i.ops # <<>> /\ i.ops[1].kind = "vector"
      Is(ids) == i.id \in ids
  IN CASE Is({"Nop", "Prfm", "B", "Br", "Ret", "BCond", "Cbz", "Cbnz", "Tbz", "Tbnz"}) -> s
       [] Links(i) -> Set(Link, i.address + 4, s)
       [] i.id = "Udf" -> [s EXCEPT !.status = "trap"]
       [] Synchronized(i) # "None" -> Synchronizes(i, s)
       [] Is({"Dup", "Ins", "Umov", "Smov"}) -> LaneMoved(i, s)
       [] i.simd /\ Len(i.ops) > 1 /\ (\E k \in DOMAIN i.ops : i.ops[k].kind = "memory") -> Structured(i, s)
       [] vector /\ \A k \in DOMAIN i.ops : i.ops[k].kind # "memory" ->
            SetVector(i.ops[1].reg, Vectored(i, s), s)
       [] ~vector /\ Is(Adds \cup Subtracts) -> Summed(i, s)
       [] ~vector /\ Is({"And", "Ands", "Tst", "Bic", "Bics", "Orr", "Orn", "Eor", "Eon"}) -> Logical(i, s)
       [] i.id = "Mov" -> Gives(Source(i.ops[2], i.ops[1].reg.width, s))
       [] i.id = "Mvn" -> Gives(Flip(Source(i.ops[2], i.ops[1].reg.width, s), i.ops[1].reg.width))
       [] Is({"Movz", "Movn", "Movk"}) -> Gives(MovedWide(i, s))
       [] Is({"Csel", "Csinc", "Csinv", "Csneg", "Cset", "Csetm", "Cinc", "Cinv", "Cneg"}) -> Gives(Selected(i, s))
       [] ~vector /\ Is({"Mul", "Mneg", "Madd", "Msub", "Umull", "Smull", "Umaddl", "Umsubl", "Smaddl", "Smsubl",
              "Umulh", "Smulh"}) -> Gives(Product(i, s))
       [] Is({"Udiv", "Sdiv"}) -> Gives(Divided(i, s))
       [] i.id = "Crc32" -> Gives(Checksum(i, s, Reflected))
       [] Is({"Rev", "Rev16"}) -> Gives(Reversed(i, s))
       [] Is({"Ubfm", "Sbfm", "Bfm"}) -> Gives(Bitfielded(i, s))
       [] i.id = "Extr" -> Gives(Cut(Of(i.ops[3].reg, s) + Of(i.ops[2].reg, s) * 2 ^ i.ops[1].reg.width,
                                      i.ops[4].immediate, i.ops[1].reg.width))
       [] Is({"Lsl", "Lsr", "Asr", "Ror"}) -> Gives(ShiftedBy(i, s))
       [] Is({"Adr", "Adrp"}) -> Gives(i.relative)
       [] i.id = "LdrLiteral" -> Transfer(i, i.relative, s)
       [] OTHER -> Accessed(i, s)

Meaning(i, s, Reflected(_)) ==
  IF s.status # "ok" THEN s
  ELSE LET advance(after) == IF after.status = "ok" THEN [after EXCEPT !.pc = Next(i, s)] ELSE after
       IN advance(Performed(i, s, Reflected))
=============================================================================
