---------------------------- MODULE MCTranslation ----------------------------
(***************************************************************************)
(* Blocks of one to three instructions for TLC, in the states that are edge  *)
(* cases of them.  A byte has one bit, so that an X register has 256 values: *)
(* the edges are around 0, the W sign (8), the W limit (16), the X sign      *)
(* (128) and the X limit (255).                                              *)
(***************************************************************************)
EXTENDS Translation

MCLoadable == 64 .. 135
MCStorable == 64 .. 127

Registers == {0, 1, 2, 3, 30}
EdgeValues == {0, 1, 7, 8, 15, 16, 127, 128, 255}
Few == {0, 1, 8, 15, 200, 255}

NZCV(n, z, c, v) == [N |-> n, Z |-> z, C |-> c, V |-> v]
Flags == [{"N", "Z", "C", "V"} -> {0, 1}]
Clear == NZCV(0, 0, 0, 0)

\* Registers 1 and 2 (and 3) as given; the others hold what they should keep.
Entered(x1, x2, x3, flags) ==
  [x |-> [r \in Registers |-> CASE r = 1 -> x1 [] r = 2 -> x2 [] r = 3 -> x3 [] r = 30 -> 77 [] OTHER -> 165],
   sp |-> 90, flags |-> flags, pc |-> 0, status |-> "ok",
   exit |-> [kind |-> "None", to |-> Undefined, continuation |-> Undefined],
   shared |-> FALSE, tpidr |-> 99, tpidrro |-> 55,
   reservation |-> [address |-> Undefined, size |-> 0, generation |-> 0],
   generation |-> [g \in {a \div GranuleSize : a \in MCLoadable} |-> 0],
   monitor |-> [at |-> Undefined, size |-> 0],
   memory |-> [a \in MCLoadable |-> ((a * a + a \div 3) % 5) % 2],
   v |-> [r \in 0 .. VectorFile - 1 |-> [k \in 0 .. 15 |-> ((k * k + r * k + k \div 2 + r) % 7) % 2]]]

X2(values) == {Entered(a, b, 3, Clear) : a \in values, b \in values}
Shared(x1, x2, x3) == [Entered(x1, x2, x3, Clear) EXCEPT !.shared = TRUE]
X1(values) == {Entered(a, 2, 3, Clear) : a \in values}

------------------------------------------------------------------------------
NoIndex == [index |-> -1, width |-> 0, sp |-> FALSE, zero |-> FALSE]
Shape(b, l) == [bits |-> b, lanes |-> l]
R(r) == [kind |-> "register", reg |-> r, immediate |-> 0, shift |-> "None", amount |-> 0,
         extension |-> "None", index |-> NoIndex, displacement |-> 0, mode |-> "Base",
         arrangement |-> Shape(0, 0), lane |-> -1]
W(n) == R(Register(n, Word))
X(n) == R(Register(n, Doubleword))
G(n, w) == R(Register(n, w))
Q(n) == R(Register(n, 0))
Imm(v) == [W(0) EXCEPT !.kind = "immediate", !.immediate = v]
Lsl(o, k) == [o EXCEPT !.shift = "Lsl", !.amount = k]
V(n, a) == [Q(n) EXCEPT !.kind = "vector", !.arrangement = a]
Lane(n, a, l) == [V(n, a) EXCEPT !.lane = l]
Mem(n, d, m) == [X(n) EXCEPT !.kind = "memory", !.displacement = d, !.mode = m]
MemX(n, index, e, k) == [Mem(n, 0, "Base") EXCEPT !.index = index, !.extension = e, !.amount = k]

Ending(k, t, r) == [kind |-> k, target |-> t, register |-> r]
I(id, ops) == [id |-> id, simd |-> FALSE, ops |-> ops, condition |-> "Al", immr |-> 0, imms |-> 0,
               n |-> FALSE, bit |-> 0, relative |-> Undefined, address |-> 40, crc |-> 0,
               castagnoli |-> FALSE, size |-> 0, signed |-> FALSE, option |-> 15, system |-> "None",
               flow |-> Ending("Fallthrough", Undefined, Link)]
S(id, ops) == [I(id, ops) EXCEPT !.simd = TRUE]
At(i, a) == [i EXCEPT !.address = a]
When(i, c) == [i EXCEPT !.condition = c]

Edge(k, t, i) == [kind |-> k, target |-> t, internal |-> i]
Block(is, edges) == [instructions |-> [k \in DOMAIN is |-> At(is[k], 40 + 4 * (k - 1))], edges |-> edges]
Straight(is) == Block(is, {Edge("Fallthrough", 40 + 4 * Len(is), TRUE)})
Run(blocks, states) == {[blocks |-> blocks, states |-> states]}
Singles(instructions, states) == Run({Straight(<<i>>) : i \in instructions}, states)

------------------------------------------------------------------------------
\* Integers.
Sizes == {Word, Doubleword}
TwoSource == {"Add", "Adds", "Sub", "Subs", "And", "Ands", "Orr", "Orn", "Eor", "Eon", "Bic", "Bics",
              "Mul", "Mneg", "Udiv", "Lsl", "Lsr", "Asr", "Ror"}
Carrying == {"Adc", "Adcs", "Sbc", "Sbcs"}
DataProcessing ==
  Singles({I(id, <<G(0, w), G(1, w), G(2, w)>>) : id \in TwoSource, w \in Sizes}, X2(EdgeValues))
  \cup Singles({I(id, <<G(0, w), G(1, w), G(2, w)>>) : id \in Carrying, w \in Sizes},
               {Entered(a, b, 3, NZCV(1, 0, c, 1)) : a \in Few, b \in Few, c \in {0, 1}})
  \cup Singles({I(id, <<G(1, w), G(2, w)>>) : id \in {"Cmp", "Cmn", "Tst"}, w \in Sizes}, X2(EdgeValues))
  \cup Singles({I(id, <<X(0), X(1), X(2)>>) : id \in {"Umulh", "Smulh"}}, X2(EdgeValues))
  \cup Singles({I(id, <<G(0, w), G(1, w)>>) :
                  id \in {"Neg", "Negs", "Ngc", "Ngcs", "Mvn", "Mov", "Rev", "Rev16"}, w \in Sizes},
               {Entered(a, 2, 3, NZCV(0, 0, c, 0)) : a \in EdgeValues, c \in {0, 1}})

\* The quotient of the least integer by -1 overflows, and the code the backend
\* generates is then undefined: it is left out.
Overflows(s, t) == s.x[1] % Mod(t) = 2 ^ (t - 1) /\ s.x[2] % Mod(t) = Ones(t)
Divisions ==
  UNION {Singles({I("Sdiv", <<G(0, w), G(1, w), G(2, w)>>)}, {s \in X2(EdgeValues) : ~Overflows(s, w)}) : w \in Sizes}

Shiftable == {"Add", "Subs", "Ands", "Orn", "Bic"}
Operand2 ==
  Singles({I(id, <<G(0, w), G(1, w), [G(2, w) EXCEPT !.shift = k, !.amount = n]>>) :
             id \in Shiftable, w \in Sizes, k \in {"Lsl", "Lsr", "Asr", "Ror"}, n \in {0, 1, 3}},
          {Entered(100, b, 3, Clear) : b \in Few})
  \cup Singles({I(id, <<X(0), X(1), [W(2) EXCEPT !.extension = e, !.shift = "Lsl", !.amount = n]>>) :
             id \in {"Add", "Subs"}, n \in {0, 2},
             e \in {"Uxtb", "Uxth", "Uxtw", "Sxtb", "Sxth", "Sxtw"}},
          {Entered(100, b, 3, Clear) : b \in Few})
  \cup Singles({I(id, <<G(0, w), G(1, w), Lsl(Imm(v), k)>>) :
             id \in Shiftable, w \in Sizes, v \in {0, 1, 7}, k \in {0, 3}}, X1(EdgeValues))
  \cup Singles({I("Add", <<R(StackPointer(Doubleword)), R(StackPointer(Doubleword)), Imm(200)>>),
                I("Sub", <<X(0), R(StackPointer(Doubleword)), Imm(91)>>),
                I("Mov", <<R(StackPointer(Doubleword)), X(1)>>), I("Mov", <<X(0), Imm(9)>>),
                I("Subs", <<R(ZeroRegister(Word)), W(1), W(2)>>),
                I("Adds", <<X(0), R(ZeroRegister(Doubleword)), X(1)>>)}, X2(Few))
  \cup Singles({I(id, <<G(0, w), Lsl(Imm(v), k)>>) : id \in {"Movz", "Movn", "Movk"}, w \in Sizes,
                  v \in 0 .. 3, k \in {0, 2}}, X1({0}))
  \cup Singles({I(id, <<X(0), Lsl(Imm(v), k)>>) : id \in {"Movz", "Movn", "Movk"}, v \in 0 .. 3,
                  k \in {4, 6}}, X1({0}))

Wide3 == {"Umaddl", "Umsubl", "Smaddl", "Smsubl"}
Products ==
  Singles({I(id, <<G(0, w), G(1, w), G(2, w), G(3, w)>>) : id \in {"Madd", "Msub"}, w \in Sizes}
          \cup {I(id, <<X(0), W(1), W(2), X(3)>>) : id \in Wide3}
          \cup {I(id, <<X(0), W(1), W(2)>>) : id \in {"Umull", "Smull"}},
          {Entered(a, b, c, Clear) : a \in Few, b \in Few, c \in {0, 130}})
  \cup Singles({[I("Crc32", <<W(0), W(1), IF n = 8 THEN X(2) ELSE W(2)>>)
                   EXCEPT !.crc = n, !.castagnoli = k] : n \in {1, 2, 4, 8}, k \in BOOLEAN}, X2(EdgeValues))

Bitfields ==
  Singles({[I(id, <<X(0), X(1)>>) EXCEPT !.immr = r, !.imms = k, !.n = TRUE] :
             id \in {"Ubfm", "Sbfm", "Bfm"}, r \in 0 .. 7, k \in 0 .. 7}, X1({0, 90, 129, 255}))
  \cup Singles({[I(id, <<W(0), W(1)>>) EXCEPT !.immr = r, !.imms = k] :
             id \in {"Ubfm", "Sbfm", "Bfm"}, r \in 0 .. 3, k \in 0 .. 3}, X1({0, 5, 9, 250}))
  \cup Singles({I("Extr", <<G(0, w), G(1, w), G(2, w), Imm(n)>>) : w \in Sizes, n \in 0 .. 3}, X2(Few))
  \cup Singles({I(k, <<G(0, w), G(1, w), Imm(n)>>) :
             k \in {"Lsl", "Lsr", "Asr", "Ror"}, w \in Sizes, n \in 0 .. 3}, X1(EdgeValues))

------------------------------------------------------------------------------
\* Conditions: a comparison, or the flags, and what depends on them.
Conditional == Conditions \ {"Nv"}
BranchOn(i) ==
  [i EXCEPT !.flow = Ending("ConditionalBranch", 60, Link)]
TwoWay(is) == Block(is, {Edge("ConditionalTaken", 60, TRUE),
                         Edge("ConditionalNotTaken", 40 + 4 * Len(is), TRUE)})
Selections ==
  {When(I(id, <<G(0, w), G(1, w), G(2, w)>>), c) :
     id \in {"Csel", "Csinc", "Csinv", "Csneg"}, w \in Sizes, c \in Conditional}
  \cup {When(I(id, <<X(0), X(1)>>), c) : id \in {"Cinc", "Cinv", "Cneg"}, c \in Conditional}
  \cup {When(I(id, <<X(0)>>), c) : id \in {"Cset", "Csetm"}, c \in Conditional}
Decisions ==
  Singles(Selections, {Entered(a, 8, 3, f) : a \in {0, 255}, f \in Flags})
  \cup Run({TwoWay(<<I(id, <<X(1), X(2)>>), BranchOn(When(I("BCond", <<X(1)>>), c))>>) :
              id \in {"Cmp", "Cmn"}, c \in Conditional}, X2(Few))
  \cup Run({Straight(<<I("Cmp", <<W(1), W(2)>>),
                       When(I(id, <<G(1, w), [W(2) EXCEPT !.reg.width = w], Imm(n)>>), c),
                       When(I("Cset", <<X(0)>>), d)>>) :
              id \in {"Ccmp", "Ccmn"}, w \in Sizes, n \in {4, 9}, c \in {"Eq", "Lt", "Hi"},
              d \in {"Ne", "Ge", "Cs"}}, X2({0, 8, 15, 255}))
  \cup Run({TwoWay(<<BranchOn([I(id, <<G(1, w)>>) EXCEPT !.bit = n])>>) :
              id \in {"Cbz", "Cbnz", "Tbz", "Tbnz"}, w \in Sizes, n \in {0, 3}}, X1(EdgeValues))

------------------------------------------------------------------------------
\* Leaving a function: calls, returns and jumps, and what cannot be executed.
Jump(id, k, t, n) == [I(id, <<X(n)>>) EXCEPT !.flow = Ending(k, t, Register(n, Doubleword))]
Leaving ==
  Run({Block(<<I("Mov", <<X(0), X(1)>>), Jump(p[1], p[2], Undefined, n)>>, {Edge("Fallthrough", 48, TRUE)}) :
         p \in {<<"Br", "IndirectBranch">>, <<"Blr", "IndirectCall">>, <<"Ret", "Return">>}, n \in {1, 30}}
      \cup {Block(<<Jump("Bl", "DirectCall", 72, 30)>>, e) : e \in {{Edge("Fallthrough", 44, TRUE)}, {}}}
      \cup {Block(<<Jump("B", "DirectBranch", 60, 30)>>, {Edge(k, 60, FALSE)}) : k \in {"Branch", "FunctionTransfer"}}
      \cup {Block(<<I("Nop", <<>>), Jump(id, "Trap", Undefined, 30)>>, {}) : id \in {"Udf", "Svc"}}
      \cup {Straight(<<I("Mov", <<X(0), X(1)>>), I("Unknown", <<>>), I("Mov", <<X(0), X(2)>>)>>)},
      X2({0, 80}))

------------------------------------------------------------------------------
\* Memory: in the middle, across the ends of what can be read and written, and
\* past the end of the address space.
Bases == {60, 63, 64, 80, 124, 126, 130, 134, 250}
Modes(n) == {Mem(2, n, "Base"), Mem(2, n, "PreIndex"), Mem(2, n, "PostIndex"), Mem(2, -n, "PreIndex")}
Narrow == {"Ldrb", "Ldrh", "Ldrsb", "Ldrsh", "Strb", "Strh"}
Indexed == {MemX(2, Register(3, Word), e, k) : e \in {"Uxtw", "Sxtw"}, k \in {0, 2}}
           \cup {MemX(2, Register(3, Doubleword), e, k) : e \in {"None", "Sxtx"}, k \in {0, 1}}
Vectorial(id, m, z) == [I(id, <<Q(1), m>>) EXCEPT !.size = z]
Accesses ==
  {I(id, <<G(1, w), m>>) : id \in {"Ldr", "Str", "Ldur"}, w \in Sizes, m \in Modes(8) \cup Indexed}
  \cup {I(id, <<W(1), m>>) : id \in Narrow, m \in Modes(2)}
  \cup {I(id, <<X(1), m>>) : id \in {"Ldrsb", "Ldrsh", "Ldrsw"}, m \in Modes(4)}
  \cup {Vectorial(id, m, z) : id \in {"Ldr", "Str"}, m \in Modes(16), z \in {4, 8, 16}}
  \cup {I(id, <<G(1, w), G(0, w), m>>) : id \in {"Ldp", "Stp"}, w \in Sizes, m \in Modes(16)}
  \cup {[I(id, <<Q(1), Q(3), m>>) EXCEPT !.size = z] : id \in {"Ldp", "Stp"}, m \in Modes(16), z \in {4, 8, 16}}
Literals == {[I("LdrLiteral", <<G(0, w)>>) EXCEPT !.relative = a, !.signed = k] :
               w \in Sizes, a \in {70, 130, 20}, k \in {FALSE}}
            \cup {[I("LdrLiteral", <<X(0)>>) EXCEPT !.relative = 75, !.signed = TRUE]}
            \cup {[I(id, <<X(0)>> \o <<Imm(0)>>) EXCEPT !.relative = 200] : id \in {"Adr", "Adrp"}}
Moves ==
  Singles(Accesses, {Entered(147, b, i, Clear) : b \in Bases, i \in {5, 14, 250}})
  \cup Singles(Literals, X1({9}))
  \cup Run({Straight(<<I("Stp", <<X(1), X(3), Mem(2, -16, "PreIndex")>>), I("Mov", <<X(1), Imm(0)>>),
                       I("Ldp", <<X(3), X(1), Mem(2, 16, "PostIndex")>>)>>)},
           {Entered(a, b, 200, Clear) : a \in Few, b \in Bases})

------------------------------------------------------------------------------
\* Vectors.  A lane of b bits is b bytes of one bit.  Of the structures, and of the
\* long multiplies, those that are too many operations are blocks that never run.
Full == {Shape(1, 16), Shape(2, 8), Shape(4, 4), Shape(8, 2)}
Short == {Shape(1, 8), Shape(2, 4), Shape(4, 2)}
Three(a, d) == <<V(d, a), V(1, a), V(2, a)>>
BitSelects(ids) == {S(id, Three(a, d)) : id \in ids, a \in {Shape(1, 16), Shape(1, 8)}, d \in {0, 1}}
Lanewise ==
  {I(id, Three(a, d)) : id \in {"Add", "Sub", "Mul", "And", "Orr", "Eor", "Bic"}, a \in Full \cup Short, d \in {0, 2}}
  \cup {S(id, Three(a, 0)) : id \in {"Cmeq", "Cmgt", "Cmge", "Cmhi", "Cmhs", "Zip1", "Zip2", "Uzp1",
                                     "Uzp2", "Trn1", "Trn2"}, a \in Full \cup Short}
  \cup {S(id, <<V(0, a), V(1, a), Imm(0)>>) : id \in {"Cmeq", "Cmgt", "Cmge"}, a \in Full}
  \cup BitSelects({"Bsl"})
  \cup {S("Ext", Three(Shape(1, 16), 0) \o <<Imm(n)>>) : n \in {0, 5, 15}}
  \cup {S(id, <<V(0, a)>> \o [k \in 1 .. n |-> V(k % VectorFile, Shape(1, 16))] \o <<V(3, a)>>) :
          id \in {"Tbl"}, a \in {Shape(1, 16), Shape(1, 8)}, n \in 1 .. 4}
  \cup {S("Tbx", <<V(0, Shape(1, 16)), V(1, Shape(1, 16)), V(3, Shape(1, 16))>>)}
  \cup {S(id, <<V(0, a), Imm(Ones(a.bits) \div 2)>>) : id \in {"Movi", "Mvni"}, a \in Full \cup Short}
LaneMoves ==
  {S("Dup", <<V(0, a), Lane(1, a, a.lanes - 1)>>) : a \in Full \cup Short}
  \cup {S("Dup", <<V(0, a), G(1, IF a.bits = 8 THEN Doubleword ELSE Word)>>) : a \in Full \cup Short}
  \cup {S("Ins", <<Lane(0, a, 1), Lane(1, a, 0)>>) : a \in Full}
  \cup {S("Ins", <<Lane(0, a, a.lanes - 1), G(1, IF a.bits = 8 THEN Doubleword ELSE Word)>>) : a \in Full}
  \cup {S("Umov", <<G(0, IF a.bits = 8 THEN Doubleword ELSE Word), Lane(1, a, 1)>>) : a \in Full}
  \cup {S("Smov", <<X(0), Lane(r, a, 1)>>) : r \in 1 .. 3, a \in Full \ {Shape(8, 2)}}
Narrowed == [a \in {Shape(2, 8), Shape(4, 4), Shape(8, 2)} |->
               CASE a.bits = 2 -> Shape(1, 8) [] a.bits = 4 -> Shape(2, 4) [] a.bits = 8 -> Shape(4, 2)]
Long == {S(id, <<V(0, a), V(1, Narrowed[a]), V(2, Narrowed[a])>>) :
           id \in {"Umull", "Smull", "Umlal", "Smlal", "Umlsl", "Smlsl"}, a \in DOMAIN Narrowed}
        \cup {S(id, <<V(0, a), V(1, Shape(a.bits \div 2, 2 * a.lanes)), V(2, Shape(a.bits \div 2, 2 * a.lanes))>>) :
           id \in {"Umull2", "Smull2", "Umlal2", "Smlal2", "Umlsl2", "Smlsl2"}, a \in DOMAIN Narrowed}

\* Register lists, wrapping round the vector file; LD1 of one register only.
List(n, a) == [k \in 1 .. n |-> V((k + 1) % VectorFile, a)]
Many == {<<"Ld1", 1>>, <<"Ld2", 2>>, <<"Ld3", 3>>, <<"Ld4", 4>>, <<"Ld1r", 1>>, <<"Ld2r", 2>>, <<"Ld3r", 3>>,
         <<"Ld4r", 4>>, <<"St1", 1>>, <<"St1", 2>>, <<"St1", 3>>, <<"St2", 2>>, <<"St3", 3>>, <<"St4", 4>>}
Structures ==
  {S(p[1], List(p[2], a) \o m) : p \in Many, a \in Full \cup Short,
     m \in {<<Mem(2, 0, "Base")>>, <<Mem(2, 8, "PostIndex")>>, <<Mem(2, 0, "PostIndex"), X(3)>>}}
  \cup {S(id, <<Lane(1, a, l), Mem(2, 0, "Base")>>) : id \in {"Ld1", "St1"}, a \in Full, l \in {0, 1}}
Vectors ==
  Singles(Lanewise \cup LaneMoves \cup Long, X1({5, 200}))
  \cup Singles(Structures, {Entered(1, b, 9, Clear) : b \in {60, 64, 80, 100, 118, 130}})

------------------------------------------------------------------------------
\* Synchronization, where threads share memory: exclusive pairs with something
\* between, the loop that tries again, and what alignment then means.
Plain(n) == Mem(n, 0, "Base")
Barrier(id, option) == [I(id, <<>>) EXCEPT !.option = option]
SystemMove(id, r, system) == [I(id, <<r>>) EXCEPT !.system = system]
Openings == {I("Ldxr", <<W(1), Plain(2)>>), I("Ldaxr", <<X(1), Plain(2)>>),
             I("Ldxrh", <<W(1), Plain(2)>>), I("Ldaxrb", <<W(1), Plain(2)>>)}
Endings == {I("Stxr", <<W(0), W(30), Plain(2)>>), I("Stlxr", <<W(0), X(30), Plain(2)>>),
            I("Stlxrh", <<W(0), W(30), Plain(2)>>), I("Stxrb", <<W(2), W(30), Plain(2)>>),
            I("Stxr", <<W(0), W(30), Plain(3)>>)}
Between == {I("Nop", <<>>), I("Clrex", <<>>), I("Ldr", <<X(3), Plain(2)>>), I("Adds", <<X(1), X(1), X(1)>>),
            I("Strb", <<W(1), Mem(2, 15, "Base")>>), I("Str", <<W(30), Mem(2, -8, "PreIndex")>>),
            I("Str", <<X(30), Mem(2, 16, "Base")>>), Vectorial("Str", Mem(2, -8, "Base"), 16),
            I("Stp", <<W(1), W(30), Plain(2)>>), I("Stlr", <<W(30), Plain(2)>>),
            I("Stlrb", <<W(30), Plain(3)>>), I("Stxrb", <<W(3), W(30), Plain(2)>>),
            I("Ldxrb", <<W(1), Plain(3)>>), I("Mov", <<W(2), W(3)>>),
            S("St1", <<Lane(1, Shape(4, 4), 1), Plain(2)>>)}
Alone == {I("Ldar", <<G(1, w), Plain(2)>>) : w \in Sizes} \cup {I("Stlr", <<G(1, w), Plain(2)>>) : w \in Sizes}
         \cup {I(id, <<W(1), Plain(2)>>) : id \in {"Ldarb", "Ldarh", "Stlrb", "Stlrh"}}
         \cup {I("Stlr", <<R(ZeroRegister(Word)), Plain(2)>>), I("Ldar", <<R(ZeroRegister(Word)), Plain(2)>>),
                I("Stxr", <<R(ZeroRegister(Word)), X(1), Plain(2)>>)}
Unaligned == {a \in Accesses : a.ops[Len(a.ops)].mode = "Base"}
             \cup {S(p[1], List(p[2], Shape(4, 4)) \o <<Plain(2)>>) : p \in {<<"Ld1", 1>>, <<"Ld4r", 4>>, <<"St2", 2>>}}
SystemMoves ==
  {SystemMove("Mrs", r, z) : r \in {X(1), R(ZeroRegister(Doubleword))}, z \in {"TpidrEl0", "TpidrroEl0", "None"}}
  \cup {SystemMove("Msr", X(1), z) : z \in {"TpidrEl0", "TpidrroEl0"}}
Barriers == {Barrier(id, n) : id \in {"Dmb", "Dsb", "Isb"}, n \in {0, 3, 15}}

Anywhere == {64, 72, 78, 81, 120, 128, 140}
Synchronization ==
  Run({Straight(<<a, b, c>>) : a \in Openings, b \in Between, c \in Endings},
      {Shared(5, a, 88) : a \in Anywhere})
  \cup Run({TwoWay(<<I("Ldaxr", <<W(1), Plain(2)>>), I("Add", <<W(1), W(1), Imm(1)>>), b,
                     I("Stlxr", <<W(0), W(1), Plain(2)>>), BranchOn(I("Cbnz", <<W(0)>>))>>) :
              b \in {I("Nop", <<>>), I("Clrex", <<>>)}}, {Shared(5, a, 3) : a \in {64, 72, 100}})
  \cup Singles(Alone \cup Unaligned, {Shared(5, a, 14) : a \in Anywhere})
  \cup Run({Straight(<<m, SystemMove("Mrs", X(0), "TpidrEl0"), b>>) : m \in SystemMoves, b \in Barriers},
           {Shared(5, 2, 3), Entered(5, 2, 3, Clear)})

\* Forms no encoding has, which a decoder's mistake would give the lifter.
Malformed ==
  Singles({I("Adc", <<X(0), W(1), W(2)>>), I("Ngcs", <<W(0), X(1)>>), I("Rev", <<X(0), W(1)>>),
           I("Umull", <<X(0), X(1), W(2)>>), I("Smaddl", <<X(0), W(1), W(2), W(3)>>),
           [I("Crc32", <<W(0), W(1), W(2)>>) EXCEPT !.crc = 8],
           S("Umlal", <<V(0, Shape(4, 4)), V(1, Shape(2, 4)), V(2, Shape(2, 8))>>),
           S("Umull2", <<V(0, Shape(4, 4)), V(1, Shape(2, 4)), V(2, Shape(2, 4))>>),
           S("Tbl", <<V(0, Shape(1, 16)), V(1, Shape(1, 16)), V(3, Shape(1, 16)), V(2, Shape(1, 16))>>),
           S("Bsl", Three(Shape(2, 8), 0)),
           S("Ld2", <<V(1, Shape(4, 4)), V(3, Shape(4, 4)), Mem(2, 0, "Base")>>),
           S("St4", List(3, Shape(4, 4)) \o <<Mem(2, 0, "Base")>>),
           S("Ld1", <<Lane(1, Shape(8, 2), 2), Mem(2, 0, "Base")>>),
           S("St2", <<V(1, Shape(8, 1)), V(2, Shape(8, 1)), Mem(2, 0, "Base")>>),
           S("Ld1r", <<V(1, Shape(4, 4)), Mem(2, 0, "Base"), X(3)>>)}, X2({80}))

MCJobs == DataProcessing \cup Divisions \cup Operand2 \cup Products \cup Bitfields
          \cup Decisions \cup Leaving \cup Moves \cup Vectors \cup Synchronization \cup Malformed
MCLiftable == Singles(Lanewise \cup LaneMoves \cup Long \cup Structures, {Entered(1, 64, 9, Clear)})
MCBitSelects == Singles(BitSelects({"Bif", "Bit", "Bsl"}), X1({5}))

TranslationSpec == TranslationInit /\ [][TranslationNext]_translation
=============================================================================
