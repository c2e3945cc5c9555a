----------------------------- MODULE BlockLifter -----------------------------
(***************************************************************************)
(* A basic block, lifted and executed one guest instruction at a time: the   *)
(* program counter, then the instruction's operations, and at the end the    *)
(* terminator its control flow becomes.  The block ends in an exit: another  *)
(* block of the function, or a boundary with the guest address to go to.     *)
(*                                                                           *)
(* A block is its decoded instructions and the edges the control-flow graph  *)
(* gives it.  Execution asks for a prefix: the first instruction the lifter  *)
(* refuses becomes a trap.                                                   *)
(***************************************************************************)
EXTENDS VectorLifter, SystemLifter

Exit(kind, to, continuation) == [kind |-> kind, to |-> to, continuation |-> continuation]
NotEnded == Exit("None", Undefined, Undefined)
Leave(exit, s) == IF s.status = "ok" THEN [s EXCEPT !.exit = exit] ELSE s

SetPc(i, s) == [s EXCEPT !.pc = i.address]

------------------------------------------------------------------------------
\* lift_non_terminator: what each instruction id is lifted to.
AddCarries == {"Adc", "Adcs", "Sbc", "Sbcs", "Ngc", "Ngcs"}
Selects == {"Csel", "Csinc", "Csinv", "Csneg", "Cset", "Csetm", "Cinc", "Cinv", "Cneg"}
Shifts == {"Lsl", "Lsr", "Asr", "Ror"}
Bitfields == {"Ubfm", "Sbfm", "Bfm"}
Multiplies == {"Mul", "Madd", "Msub", "Mneg", "Umulh", "Smulh", "Umull", "Smull",
               "Umaddl", "Umsubl", "Smaddl", "Smsubl"}
Divides == {"Udiv", "Sdiv"}
Loads == {"Ldr", "Ldur", "Ldrb", "Ldrh", "Ldrsb", "Ldrsh", "Ldrsw"}
Stores == {"Str", "Stur", "Strb", "Strh"}
Arithmetics == {"Add", "Adds", "Sub", "Subs"}
Logics == {"And", "Ands", "Orr", "Orn", "Eor", "Eon", "Bic", "Bics"}
VectorCommons == {"Add", "Sub", "Mul", "And", "Ands", "Orr", "Eor", "Bic", "Bics"}

LogicOpcode(id) == CASE id \in {"Orr", "Orn"} -> "Or" [] id \in {"Eor", "Eon"} -> "Xor" [] OTHER -> "And"

\* lift_link: the address after the call.
LiftLink(i, s) == Put(Link, Constant(i.address + 4, Doubleword), s)

LiftScalar(i, s) ==
  CASE i.id \in {"Nop", "Prfm"} -> s
    [] i.id = "Mov" -> LiftMov(i, s)
    [] i.id \in {"Movz", "Movk", "Movn"} -> LiftMoveWide(i, i.id = "Movk", i.id = "Movn", s)
    [] i.id \in Arithmetics ->
         LiftArithmetic(i, IF i.id \in {"Add", "Adds"} THEN "Add" ELSE "Sub", i.id \in {"Adds", "Subs"}, s)
    [] i.id \in AddCarries -> LiftAddWithCarry(i, s)
    [] i.id \in {"Cmp", "Cmn"} -> LiftCompare(i, i.id = "Cmp", s)
    [] i.id \in {"Ccmp", "Ccmn"} -> LiftConditionalCompare(i, i.id = "Ccmp", s)
    [] i.id = "Tst" -> LiftTest(i, s)
    [] i.id \in Logics ->
         LiftLogic(i, LogicOpcode(i.id), i.id \in {"Ands", "Bics"}, i.id \in {"Orn", "Eon", "Bic", "Bics"}, s)
    [] i.id \in {"Neg", "Negs"} -> LiftNegate(i, i.id = "Negs", s)
    [] i.id = "Mvn" -> LiftMvn(i, s)
    [] i.id \in Selects -> LiftConditionalSelect(i, s)
    [] i.id \in Shifts -> LiftShift(i, s)
    [] i.id \in Bitfields -> LiftBitfield(i, s)
    [] i.id = "Extr" -> LiftExtract(i, s)
    [] i.id \in Multiplies -> LiftMultiply(i, s)
    [] i.id = "Crc32" -> LiftCrc32(i, s)
    [] i.id \in {"Rev", "Rev16"} -> LiftReverse(i, s)
    [] i.id \in Divides -> LiftDivide(i, s)
    [] i.id \in {"Adr", "Adrp"} -> LiftPcRelative(i, s)
    [] i.id \in Loads \cup Stores -> LiftMemory(i, i.id \in Stores, s)
    [] i.id \in {"Ldp", "Stp"} -> LiftPair(i, i.id = "Stp", s)
    [] i.id = "LdrLiteral" -> LiftLiteral(i, s)
    [] i.id \in {"Bl", "Blr"} -> LiftLink(i, s)
    [] i.id \in {"Br", "Ret"} -> s
    [] OTHER -> Refuse(s)

Compares == {"Cmeq", "Cmgt", "Cmge", "Cmhi", "Cmhs"}
Permutes == {"Zip1", "Zip2", "Uzp1", "Uzp2", "Trn1", "Trn2"}

\* lift_fp_simd, of the operations that are not floating point.
LiftSimd(i, s) ==
  CASE i.id \in {"Movi", "Mvni"} -> LiftMoveImmediate(i, s)
    [] i.id \in {"Tbl", "Tbx"} -> LiftTableLookup(i, s)
    [] i.id \in Widening -> LiftWideningMultiply(i, s)
    [] i.id \in StructureStores -> LiftStructureStore(i, s)
    [] i.id \in StructureLoads \cup Replicates -> LiftStructureLoad(i, s)
    [] i.id \in {"Bif", "Bit", "Bsl"} -> LiftBitSelect(i, s)
    [] i.id = "Dup" -> LiftDuplicate(i, s)
    [] i.id = "Ins" -> LiftInsert(i, s)
    [] i.id \in {"Umov", "Smov"} -> LiftMoveLane(i, s)
    [] i.id = "Ext" -> LiftExt(i, s)
    [] i.id \in Permutes -> LiftPermute(i, s)
    [] i.id \in Compares -> LiftVectorCompare(i, s)
    [] OTHER -> Refuse(s)

LiftNonTerminator(i, s) ==
  CASE i.simd -> LiftSimd(i, s)
    [] IsSystem(i) -> Inject(i, s)
    [] ~i.simd /\ i.ops # <<>> /\ IsVectorOperand(i.ops[1]) /\ i.id \in VectorCommons ->
         LiftVectorCommon(i, s)
    [] OTHER -> LiftScalar(i, s)

------------------------------------------------------------------------------
\* terminate: where the last instruction of a block goes.
EdgeTo(block, kind) == (CHOOSE e \in block.edges : e.kind = kind).target
HasEdge(block, kind) == \E e \in block.edges : e.kind = kind
Continuation(block) == IF \E e \in block.edges : e.kind = "Fallthrough" /\ e.internal
                         THEN EdgeTo(block, "Fallthrough") ELSE Undefined

\* To a guest address: the program counter is left at it.
Boundary(kind, to, continuation, s) == Leave(Exit(kind, to, continuation), [s EXCEPT !.pc = to])
Branch(block, kind, s) == Leave(Exit("Branch", EdgeTo(block, kind), Undefined), s)

BranchTaken(i, s) ==
  LET t == i.ops[1].reg.width
      value == Read(i.ops[1].reg, s)
      tested == Emit("And", t, <<Emit("LogicalShiftRight", t, <<value, Constant(i.bit, t)>>),
                                 Constant(1, t)>>)
      zero == Constant(0, t)
      taken == CASE i.id = "BCond" -> ConditionValue(i.condition, s)
                 [] i.id = "Cbz" -> Emit("CompareEqual", 1, <<value, zero>>)
                 [] i.id = "Cbnz" -> Emit("CompareNotEqual", 1, <<value, zero>>)
                 [] i.id = "Tbz" -> Emit("CompareEqual", 1, <<tested, zero>>)
                 [] i.id = "Tbnz" -> Emit("CompareNotEqual", 1, <<tested, zero>>)
  IN taken.bits # 0

Return(i, s) ==
  LET to == ReadRegister(i.flow.register, s)
  IN Leave(Exit("Return", IF to = 0 THEN s.pc ELSE to, Undefined),
           [s EXCEPT !.pc = IF to = 0 THEN @ ELSE to])

\* Mutant: BLR reads its target after the link register was written.
IndirectCallLinksFirst(block, i, s) ==
  LET linked == LiftLink(i, s)
  IN Boundary("IndirectCall", ReadRegister(i.flow.register, linked), Continuation(block), linked)

\* BLR: the target is read before the link register is written.
IndirectCall(block, i, s) ==
  Boundary("IndirectCall", ReadRegister(i.flow.register, s), Continuation(block), LiftLink(i, s))

Terminate(block, i, s) ==
  CASE i.flow.kind = "Trap" -> IF i.id = "Udf" THEN [s EXCEPT !.status = "trap"] ELSE Refuse(s)
    [] i.flow.kind = "Return" -> Return(i, s)
    [] i.flow.kind = "IndirectBranch" ->
         Boundary("IndirectBranch", ReadRegister(i.flow.register, s), Undefined, s)
    [] i.flow.kind = "IndirectCall" -> IndirectCall(block, i, s)
    [] i.flow.kind = "DirectCall" ->
         Boundary("DirectCall", i.flow.target, Continuation(block), LiftLink(i, s))
    [] i.flow.kind = "DirectBranch" ->
         IF HasEdge(block, "FunctionTransfer")
           THEN Boundary("FunctionTransfer", EdgeTo(block, "FunctionTransfer"), Undefined, s)
           ELSE Branch(block, "Branch", s)
    [] i.flow.kind = "ConditionalBranch" ->
         Branch(block, IF BranchTaken(i, s) THEN "ConditionalTaken" ELSE "ConditionalNotTaken", s)
    [] i.flow.kind = "Fallthrough" -> Branch(block, "Fallthrough", s)
    [] OTHER -> Refuse(s)

\* Every system instruction is put in the place of its NOP, or the function
\* fails.
Injectable(block) ==
  \A k \in DOMAIN block.instructions :
    IsSystem(block.instructions[k]) => Injects(block.instructions[k])

\* A function is lifted whole or not at all: not when a call is to itself, nor
\* when an instruction becomes too many operations.  (None of these is behind an
\* instruction that is refused.)
Lifts(block) ==
  /\ Injectable(block)
  /\ \A k \in DOMAIN block.instructions : WithinLimit(block.instructions[k])
  /\ LET last == block.instructions[Len(block.instructions)]
     IN ~(last.id = "Bl" /\ last.flow.target = last.address)

\* lift_block, the k-th instruction; one that was refused stops the block.
LiftInstruction(block, k, s) ==
  LET i == block.instructions[k]
      last == k = Len(block.instructions)
      terminates == last /\ i.flow.kind # "Fallthrough"
      Ended(after) == IF last THEN Terminate(block, i, after) ELSE after
  IN IF s.status # "ok" THEN s
     ELSE Ended(IF terminates THEN SetPc(i, s) ELSE LiftNonTerminator(i, SetPc(i, s)))

------------------------------------------------------------------------------
\* is_instruction_liftable: what coverage counts as translated.
Registers(i, k) == \A j \in k : j \in DOMAIN i.ops /\ i.ops[j].kind = "register"
SameWidths(i, n) == /\ Len(i.ops) = n /\ Registers(i, 1 .. n)
                    /\ \A k \in 1 .. n : i.ops[k].reg.width = i.ops[1].reg.width

LiftableScalar(i) ==
  CASE i.id \in {"Adc", "Adcs", "Sbc", "Sbcs"} -> SameWidths(i, 3)
    [] i.id \in {"Ngc", "Ngcs"} -> SameWidths(i, 2)
    [] i.id \in {"Umull", "Smull"} -> Widths(i, <<Doubleword, Word, Word>>)
    [] i.id = "Crc32" -> /\ i.crc \in 1 .. Doubleword /\ i.crc % Byte = 0
                         /\ Widths(i, <<Word, Word, IF i.crc = Doubleword THEN Doubleword ELSE Word>>)
    [] i.id \in {"Umaddl", "Umsubl", "Smaddl", "Smsubl"} ->
         Widths(i, <<Doubleword, Word, Word, Doubleword>>)
    [] i.id \in {"Rev", "Rev16"} -> SameWidths(i, 2)
    [] IsSystem(i) -> LiftableSystem(i)
    [] OTHER -> i.id \notin {"Unknown", "Ldxp", "Ldaxp", "Stxp", "Stlxp", "Svc", "Brk", "Hlt", "Hvc",
                             "Smc", "Eret"}

LiftableSimd(i) ==
  CASE i.id \in Widening -> WideningForm(i)
    [] i.id \in {"Tbl", "Tbx"} -> TableForm(i)
    [] i.id \in {"Bif", "Bit", "Bsl"} -> Vectors(i, 3) /\ Shape(i).bits = Byte
    [] i.id \in {"Movi", "Mvni"} ->
         Len(i.ops) = 2 /\ IsVectorOperand(i.ops[1]) /\ i.ops[2].kind = "immediate"
    [] i.id \in StructureLoads \cup StructureStores -> StructureForm(i)
    [] i.id \in Replicates ->
         StructureForm(i) /\ (i.id = "Ld1r" \/ Shape(i) # Arrangement(Doubleword, 1))
    [] OTHER -> i.id \notin {"None", "Fmadd", "Fmsub", "Fnmadd", "Fnmsub"}

IsLiftable(i) == IF i.simd THEN LiftableSimd(i) ELSE LiftableScalar(i)
=============================================================================
