------------------------------ MODULE CpuState ------------------------------
(***************************************************************************)
(* The guest CPU state and the runtime helpers translated code works on it   *)
(* with: registers, flags, vectors and checked guest memory.                 *)
(*                                                                           *)
(* A byte is ByteBits wide, so that a W register has 4 * ByteBits bits and   *)
(* an X register 8 * ByteBits: with ByteBits = 1 every width keeps its       *)
(* proportion to the others and an X register has 256 values.  A type is its *)
(* number of bits.                                                           *)
(***************************************************************************)
EXTENDS Integers, Sequences, FiniteSetsExt

CONSTANTS
  ByteBits,     \* the bits of a byte, a power of two
  Loadable,     \* the guest addresses that can be loaded from
  Storable,     \* those that can be stored to
  VectorFile,   \* how many vector registers there are
  GranuleSize   \* the bytes of a reservation granule

ASSUME CpuAssumption ==
  /\ ByteBits \in {1, 2, 4, 8}
  /\ VectorFile \in Nat \ {0}
  /\ GranuleSize \in Nat \ {0} /\ GranuleSize % 8 = 0
  /\ Storable \subseteq Loadable /\ Loadable \subseteq Nat

Byte == ByteBits
Half == 2 * ByteBits
Word == 4 * ByteBits
Doubleword == 8 * ByteBits

\* No bits: the result of undefined behaviour, or of an operation that failed.
Undefined == -1

Mod(t) == 2 ^ t
Negative(v, t) == v >= 2 ^ (t - 1)
Signed(v, t) == IF Negative(v, t) THEN v - Mod(t) ELSE v
Ones(t) == Mod(t) - 1

\* A register: its index, its width, and whether it is the stack pointer or
\* the zero register.
Register(n, w) == [index |-> n, width |-> w, sp |-> FALSE, zero |-> FALSE]
StackPointer(w) == [index |-> 31, width |-> w, sp |-> TRUE, zero |-> FALSE]
ZeroRegister(w) == [index |-> 31, width |-> w, sp |-> FALSE, zero |-> TRUE]
Link == Register(30, Doubleword)

ReadRegister(r, s) ==
  IF r.zero THEN 0 ELSE (IF r.sp THEN s.sp ELSE s.x[r.index]) % Mod(r.width)

\* A W write clears the upper half; a write to the zero register is dropped.
WriteRegister(r, v, s) ==
  CASE s.status # "ok" \/ r.zero -> s
    [] r.sp -> [s EXCEPT !.sp = v % Mod(r.width)]
    [] OTHER -> [s EXCEPT !.x[r.index] = v % Mod(r.width)]

WriteFlag(f, v, s) == IF s.status = "ok" THEN [s EXCEPT !.flags[f] = v] ELSE s

Conditions ==
  {"Eq", "Ne", "Cs", "Cc", "Mi", "Pl", "Vs", "Vc", "Hi", "Ls", "Ge", "Lt", "Gt", "Le", "Al", "Nv"}

EvaluateCondition(c, f) ==
  LET n == f.N = 1  z == f.Z = 1  carry == f.C = 1  v == f.V = 1
  IN CASE c = "Eq" -> z            [] c = "Ne" -> ~z
       [] c = "Cs" -> carry        [] c = "Cc" -> ~carry
       [] c = "Mi" -> n            [] c = "Pl" -> ~n
       [] c = "Vs" -> v            [] c = "Vc" -> ~v
       [] c = "Hi" -> carry /\ ~z  [] c = "Ls" -> ~carry \/ z
       [] c = "Ge" -> n = v        [] c = "Lt" -> n # v
       [] c = "Gt" -> ~z /\ n = v  [] c = "Le" -> z \/ n # v
       [] c = "Al" -> TRUE         [] OTHER -> FALSE

------------------------------------------------------------------------------
\* Guest memory: little-endian, checked, and read and written as a whole.
Fault(s) == IF s.status = "ok" THEN [s EXCEPT !.status = "fault"] ELSE s
Cells(a, n) == a .. (a + n - 1)

\* Threads that share memory count the writes to every granule of it, and must
\* align every access that is not a whole vector.
Granule(a) == a \div GranuleSize
Invalidated(a, n, s) ==
  IF s.shared THEN [s EXCEPT !.generation = [g \in DOMAIN @ |->
                      IF g \in Granule(a) .. Granule(a + n - 1) THEN @[g] + 1 ELSE @[g]]]
  ELSE s
Placed(a, n, s) == s.shared /\ n < 16 => a % n = 0

LoadBytes(a, n, s) ==
  IF Cells(a, n) \subseteq Loadable /\ Placed(a, n, s)
    THEN MapThenSumSet(LAMBDA k : s.memory[a + k] * 2 ^ (k * ByteBits), 0 .. n - 1)
    ELSE Undefined

StoreBytes(a, n, v, s) ==
  CASE s.status # "ok" -> s
    [] ~(Cells(a, n) \subseteq Storable) \/ ~Placed(a, n, s) -> Fault(s)
    [] OTHER -> Invalidated(a, n, [s EXCEPT !.memory = [b \in DOMAIN @ |->
                   IF b \in Cells(a, n) THEN (v \div 2 ^ ((b - a) * ByteBits)) % Mod(Byte) ELSE @[b]]])

\* Address arithmetic does not wrap: a sum outside the address space fails.
CheckedAdd(base, offset) ==
  IF base + offset \in 0 .. Ones(Doubleword) THEN base + offset ELSE Undefined

------------------------------------------------------------------------------
\* A vector register is sixteen bytes; a lane of n bytes is n consecutive ones.
ZeroVector == [k \in 0 .. 15 |-> 0]
LaneBytes(bits) == bits \div ByteBits

ReadLane(v, bits, lane) ==
  MapThenSumSet(LAMBDA k : v[lane * LaneBytes(bits) + k] * 2 ^ (k * ByteBits),
                0 .. LaneBytes(bits) - 1)

WriteLane(v, bits, lane, value) ==
  [k \in DOMAIN v |->
     IF k \div LaneBytes(bits) = lane
       THEN (value \div 2 ^ ((k % LaneBytes(bits)) * ByteBits)) % Mod(Byte)
       ELSE v[k]]

WriteVectorRegister(n, v, s) == IF s.status = "ok" THEN [s EXCEPT !.v[n] = v] ELSE s
=============================================================================
