--------------------------------- MODULE A64 ---------------------------------
(***************************************************************************)
(* What each A64 instruction means: the abstract specification translated    *)
(* code is compared with.  It is written from the architecture, so it shares *)
(* no formula with the lifter or the backends: sums and products are of      *)
(* integers, bitfields are cut out and put in place, memory is bytes and a   *)
(* vector register is one number that lanes are cut from.                    *)
(*                                                                           *)
(* Where the project's documentation departs from the architecture it is     *)
(* followed: an address is a sum that must not leave the address space       *)
(* (docs/SEMANTIC_IR.md), and a 64-bit structure load keeps the upper half   *)
(* of its destination (docs/AARCH64_SUPPORT.md).                             *)
(***************************************************************************)
EXTENDS CpuState

Cut(v, from, n) == (v \div 2 ^ from) % 2 ^ n
BitOf(v, k) == Cut(v, k, 1)
ByBit(F(_, _), a, b, t) == MapThenSumSet(LAMBDA k : F(BitOf(a, k), BitOf(b, k)) * 2 ^ k, 0 .. t - 1)
Flip(v, t) == 2 ^ t - 1 - v
SignExtended(v, n, t) == Signed(v, n) % 2 ^ t
Flagged(b) == IF b THEN 1 ELSE 0

Of(r, s) == IF r.zero THEN 0 ELSE (IF r.sp THEN s.sp ELSE s.x[r.index]) % 2 ^ r.width
Set(r, v, s) == CASE r.zero -> s [] r.sp -> [s EXCEPT !.sp = v] [] OTHER -> [s EXCEPT !.x[r.index] = v]

------------------------------------------------------------------------------
\* Operands.
Shifted(v, kind, n, t) ==
  CASE kind = "None" -> v
    [] kind = "Lsl" -> (v * 2 ^ n) % 2 ^ t
    [] kind = "Lsr" -> v \div 2 ^ n
    [] kind = "Asr" -> (Signed(v, t) \div 2 ^ n) % 2 ^ t
    [] kind = "Ror" -> Cut(v + v * 2 ^ t, n, t)

ExtendedTo(v, e, t) ==
  CASE e = "None" -> v
    [] e = "Uxtb" -> Cut(v, 0, Byte) [] e = "Sxtb" -> SignExtended(Cut(v, 0, Byte), Byte, t)
    [] e = "Uxth" -> Cut(v, 0, Half) [] e = "Sxth" -> SignExtended(Cut(v, 0, Half), Half, t)
    [] e = "Uxtw" -> Cut(v, 0, Word) [] e = "Sxtw" -> SignExtended(Cut(v, 0, Word), Word, t)
    [] OTHER -> v % 2 ^ t

Source(o, t, s) ==
  IF o.kind = "immediate" THEN Shifted(o.immediate % 2 ^ t, o.shift, o.amount, t)
  ELSE Shifted(ExtendedTo(Of(o.reg, s), o.extension, t), o.shift, o.amount, t)

\* A sum with carry: what it is, and the flags it gives.
Sum(a, b, c, t) ==
  LET r == (a + b + c) % 2 ^ t
  IN [result |-> r,
      flags |-> [N |-> BitOf(r, t - 1), Z |-> Flagged(r = 0), C |-> Flagged(r # a + b + c),
                 V |-> Flagged(Signed(r, t) # Signed(a, t) + Signed(b, t) + c)]]

Truth(c, f) ==
  CASE c \in {"Eq", "Ne"} -> (f.Z = 1) = (c = "Eq")
    [] c \in {"Cs", "Cc"} -> (f.C = 1) = (c = "Cs")
    [] c \in {"Mi", "Pl"} -> (f.N = 1) = (c = "Mi")
    [] c \in {"Vs", "Vc"} -> (f.V = 1) = (c = "Vs")
    [] c \in {"Hi", "Ls"} -> (f.C = 1 /\ f.Z = 0) = (c = "Hi")
    [] c \in {"Ge", "Lt"} -> (f.N = f.V) = (c = "Ge")
    [] c \in {"Gt", "Le"} -> (f.N = f.V /\ f.Z = 0) = (c = "Gt")
    [] c = "Al" -> TRUE

------------------------------------------------------------------------------
\* Data processing: each gives the value of its destination.
Adds == {"Add", "Adds", "Adc", "Adcs", "Cmn", "Ccmn"}
Subtracts == {"Sub", "Subs", "Sbc", "Sbcs", "Neg", "Negs", "Ngc", "Ngcs", "Cmp", "Ccmp"}
Compares == {"Cmp", "Cmn", "Ccmp", "Ccmn"}
Sets == Compares \cup {"Adds", "Subs", "Adcs", "Sbcs", "Negs", "Ngcs"}

Total(i, s) ==
  LET t == i.ops[1].reg.width
      V(k) == Source(i.ops[k], t, s)
      left == CASE i.id \in Compares -> V(1)
                [] i.id \in {"Neg", "Negs", "Ngc", "Ngcs"} -> 0
                [] OTHER -> V(2)
      right == V(IF i.id \in Compares \cup {"Neg", "Negs", "Ngc", "Ngcs"} THEN 2 ELSE 3)
      carry == CASE i.id \in {"Adc", "Adcs", "Sbc", "Sbcs", "Ngc", "Ngcs"} -> s.flags.C
                 [] i.id \in {"Add", "Adds", "Cmn", "Ccmn"} -> 0
                 [] OTHER -> 1
  IN Sum(left, IF i.id \in Subtracts THEN Flip(right, t) ELSE right, carry, t)

Summed(i, s) ==
  LET r == Total(i, s)
      chosen == IF i.id \in {"Ccmp", "Ccmn"} /\ ~Truth(i.condition, s.flags)
                  THEN LET n == i.ops[3].immediate
                       IN [N |-> BitOf(n, 3), Z |-> BitOf(n, 2), C |-> BitOf(n, 1), V |-> BitOf(n, 0)]
                  ELSE r.flags
      flagged == IF i.id \in Sets THEN [s EXCEPT !.flags = chosen] ELSE s
  IN IF i.id \in Compares THEN flagged ELSE Set(i.ops[1].reg, r.result, flagged)

LogicOf(id, a, b, t) ==
  CASE id \in {"And", "Ands", "Tst"} -> ByBit(LAMBDA x, y : x * y, a, b, t)
    [] id \in {"Bic", "Bics"} -> ByBit(LAMBDA x, y : x * (1 - y), a, b, t)
    [] id = "Orr" -> ByBit(LAMBDA x, y : x + y - x * y, a, b, t)
    [] id = "Orn" -> ByBit(LAMBDA x, y : 1 - y + x * y, a, b, t)
    [] id = "Eor" -> ByBit(LAMBDA x, y : (x + y) % 2, a, b, t)
    [] id = "Eon" -> ByBit(LAMBDA x, y : (x + y + 1) % 2, a, b, t)

Logical(i, s) ==
  LET t == i.ops[1].reg.width
      test == i.id = "Tst"
      r == LogicOf(i.id, Source(i.ops[IF test THEN 1 ELSE 2], t, s),
                   Source(i.ops[IF test THEN 2 ELSE 3], t, s), t)
      flagged == IF i.id \in {"Ands", "Bics", "Tst"}
                   THEN [s EXCEPT !.flags = [N |-> BitOf(r, t - 1), Z |-> Flagged(r = 0), C |-> 0, V |-> 0]]
                   ELSE s
  IN IF test THEN flagged ELSE Set(i.ops[1].reg, r, flagged)

\* The fields n bits wide of v, the one at p replaced.
Deposit(v, p, n, field) == v - Cut(v, p, n) * 2 ^ p + field * 2 ^ p

MovedWide(i, s) ==
  LET t == i.ops[1].reg.width
      o == i.ops[2]
      lane == o.immediate * 2 ^ o.amount
  IN CASE i.id = "Movz" -> lane
       [] i.id = "Movn" -> Flip(lane, t)
       [] i.id = "Movk" -> Deposit(Of(i.ops[1].reg, s), o.amount, Half, o.immediate)

Selected(i, s) ==
  LET t == i.ops[1].reg.width
      a == Of(i.ops[2].reg, s)
      b == Of(i.ops[3].reg, s)
      Changed(id, v) == CASE id \in {"Csinc", "Cinc"} -> (v + 1) % 2 ^ t
                          [] id \in {"Csinv", "Cinv"} -> Flip(v, t)
                          [] id \in {"Csneg", "Cneg"} -> (-v) % 2 ^ t
                          [] OTHER -> v
      holds == Truth(i.condition, s.flags)
  IN CASE i.id = "Cset" -> Flagged(holds)
       [] i.id = "Csetm" -> IF holds THEN 2 ^ t - 1 ELSE 0
       [] i.id \in {"Cinc", "Cinv", "Cneg"} -> IF holds THEN Changed(i.id, a) ELSE a
       [] OTHER -> IF holds THEN a ELSE Changed(i.id, b)

Product(i, s) ==
  LET t == i.ops[1].reg.width
      Plain(k) == Of(i.ops[k].reg, s)
      Sign(k) == Signed(Plain(k), i.ops[k].reg.width)
      unsigned == Plain(2) * Plain(3)
      signed == Sign(2) * Sign(3)
  IN CASE i.id \in {"Mul", "Umull"} -> unsigned % 2 ^ t
       [] i.id = "Smull" -> signed % 2 ^ t
       [] i.id = "Mneg" -> (-unsigned) % 2 ^ t
       [] i.id \in {"Madd", "Umaddl"} -> (Plain(4) + unsigned) % 2 ^ t
       [] i.id \in {"Msub", "Umsubl"} -> (Plain(4) - unsigned) % 2 ^ t
       [] i.id = "Smaddl" -> (Plain(4) + signed) % 2 ^ t
       [] i.id = "Smsubl" -> (Plain(4) - signed) % 2 ^ t
       [] i.id = "Umulh" -> unsigned \div 2 ^ t
       [] i.id = "Smulh" -> (signed \div 2 ^ t) % 2 ^ t

\* The quotient cut towards zero, of which there is exactly one; zero by zero.
Divided(i, s) ==
  LET t == i.ops[1].reg.width
      n == IF i.id = "Sdiv" THEN Signed(Of(i.ops[2].reg, s), t) ELSE Of(i.ops[2].reg, s)
      d == IF i.id = "Sdiv" THEN Signed(Of(i.ops[3].reg, s), t) ELSE Of(i.ops[3].reg, s)
      Size(v) == IF v < 0 THEN -v ELSE v
      q == CHOOSE q \in -Size(n) .. Size(n) :
             /\ Size(q * d) <= Size(n) /\ Size(n) - Size(q * d) < Size(d)
             /\ q * d * n >= 0
  IN IF d = 0 THEN 0 ELSE q % 2 ^ t

\* The remainder of the message by the polynomial, bit by bit, lowest first.
Checksum(i, s, Reflected(_)) ==
  LET message == Cut(Of(i.ops[3].reg, s), 0, i.crc)
      Xor(a, b) == LogicOf("Eor", a, b, Doubleword)
      after[k \in 0 .. i.crc] ==
        IF k = 0 THEN Of(i.ops[2].reg, s)
        ELSE LET out == (after[k - 1] + BitOf(message, k - 1)) % 2
             IN Xor(after[k - 1] \div 2, IF out = 1 THEN Reflected(i.castagnoli) ELSE 0)
  IN after[i.crc]

BytesOf(v, n) == [k \in 0 .. n - 1 |-> Cut(v, k * Byte, Byte)]
Joined(b) == MapThenSumSet(LAMBDA k : b[k] * 2 ^ (k * Byte), DOMAIN b)
Reversed(i, s) ==
  LET n == i.ops[1].reg.width \div Byte
      b == BytesOf(Of(i.ops[2].reg, s), n)
  IN Joined([k \in 0 .. n - 1 |-> IF i.id = "Rev" THEN b[n - 1 - k] ELSE b[4 * (k \div 2) + 1 - k]])

\* A field moved down to the bottom when imms is at or past immr, and up to
\* t - immr otherwise.
Bitfielded(i, s) ==
  LET t == i.ops[1].reg.width
      v == Of(i.ops[2].reg, s)
      down == i.imms >= i.immr
      n == IF down THEN i.imms - i.immr + 1 ELSE i.imms + 1
      field == Cut(v, IF down THEN i.immr ELSE 0, n)
      p == IF down THEN 0 ELSE t - i.immr
  IN CASE i.id = "Ubfm" -> field * 2 ^ p
       [] i.id = "Sbfm" -> (Signed(field, n) * 2 ^ p) % 2 ^ t
       [] i.id = "Bfm" -> Deposit(Of(i.ops[1].reg, s), p, n, field)

ShiftedBy(i, s) ==
  LET t == i.ops[1].reg.width
      o == i.ops[3]
  IN Shifted(Of(i.ops[2].reg, s), i.id,
             (IF o.kind = "immediate" THEN o.immediate ELSE Of(o.reg, s)) % t, t)
=============================================================================
