----------------------------- MODULE Translation -----------------------------
(***************************************************************************)
(* A basic block translated and executed, against what its instructions mean.*)
(* The lifted block is executed twice, by the interpreter and by the code    *)
(* the LLVM backend generates, in step with a third machine that does what   *)
(* the architecture says.  All three start in the same state.                *)
(***************************************************************************)
EXTENDS CpuState

CONSTANTS
  TranslationJobs,    \* sets of blocks, each with the states they are entered in
  MaxOperations       \* IR operations per guest instruction

VARIABLES block, position, interpreted, compiled, expected

translation == <<block, position, interpreted, compiled, expected>>

\* The CRC polynomials, reflected, for bytes of ByteBits.
Reflected(castagnoli) == IF castagnoli THEN 9 ELSE 12

IR == INSTANCE Interpreter
LLVM == INSTANCE LlvmBackend
InterpretedValue(op, t, a) == IR!Value(op, t, a)
CompiledValue(op, t, a) == LLVM!LowerValue(op, t, a)
ConcurrentValue(op, t, a) == LLVM!LowerConcurrent(op, t, a)
CompiledCondition(c, f) == LLVM!LowerCondition(c, f)

InInterpreter == INSTANCE BlockLifter
  WITH Value <- InterpretedValue, Holds <- EvaluateCondition, Polynomial <- Reflected
InCompiled == INSTANCE BlockLifter
  WITH Value <- CompiledValue, Holds <- CompiledCondition, Polynomial <- Reflected
InConcurrent == INSTANCE BlockLifter
  WITH Value <- ConcurrentValue, Holds <- CompiledCondition, Polynomial <- Reflected
Architecture == INSTANCE A64Memory

\* Which lowering compiles a block, and whether it does.
Concurrent(b) == \E k \in DOMAIN b.instructions : InInterpreter!IsSystem(b.instructions[k])
Compiles(b) ==
  Concurrent(b) => \A k \in DOMAIN b.instructions :
                     \/ InInterpreter!IsSystem(b.instructions[k])
                     \/ LLVM!LowersConcurrently(b.instructions[k])

------------------------------------------------------------------------------
TranslationInit ==
  /\ \E j \in TranslationJobs : block \in j.blocks /\ interpreted \in j.states
  /\ position = 1
  /\ compiled = interpreted /\ expected = interpreted

\* One guest instruction.  Nothing runs of a function that was not lifted; a
\* block stops at an instruction the lifter refused.
ExecuteInstruction ==
  /\ position <= Len(block.instructions)
  /\ InInterpreter!Lifts(block)
  /\ interpreted.status = "ok" /\ compiled.status = "ok"
  /\ position' = position + 1
  /\ interpreted' = InInterpreter!LiftInstruction(block, position, interpreted)
  /\ compiled' = CASE ~Compiles(block) -> compiled
                   [] Compiles(block) /\ Concurrent(block) ->
                        InConcurrent!LiftInstruction(block, position, compiled)
                   [] OTHER -> InCompiled!LiftInstruction(block, position, compiled)
  /\ expected' = IF interpreted'.status = "unsupported" THEN expected
                 ELSE Architecture!Meaning(block.instructions[position], expected, Reflected)
  /\ UNCHANGED block

TranslationNext == ExecuteInstruction

------------------------------------------------------------------------------
\* Where a machine that left its block goes on.
Resumes(m) == IF m.exit.kind = "Branch" THEN m.exit.to ELSE m.pc
Calls == {"DirectCall", "IndirectCall"}

SameState(m) ==
  /\ m.x = expected.x /\ m.sp = expected.sp /\ m.flags = expected.flags
  /\ m.memory = expected.memory /\ m.v = expected.v
  /\ m.tpidr = expected.tpidr /\ m.tpidrro = expected.tpidrro
  /\ m.exit.kind # "None" => Resumes(m) = expected.pc
  /\ m.exit.kind \in Calls /\ m.exit.continuation # Undefined => m.exit.continuation = expected.x[30]

Faithful(m) ==
  CASE m.status = "ok" \/ m.status = "unsupported" -> expected.status = "ok" /\ SameState(m)
    [] OTHER -> m.status = expected.status

\* For every block of TranslationJobs, in every state it is entered in, the
\* interpreter and the compiled code, when the backend compiles the block, agree
\* with the architecture after every instruction: registers, flags, vectors,
\* memory, thread registers, whether a store-exclusive stored, where the block
\* goes next, and whether it faults or traps.  An instruction that was refused
\* has had no effect and is none that coverage counts as liftable; nor does
\* coverage count a system instruction the injector would fail on.  (lift_block
\* and the injector, is_instruction_liftable, the interpreter's and the two LLVM
\* lowerings' operations, and the runtime's atomic helpers.)
TranslationCorrect ==
  /\ Faithful(interpreted)
  /\ Compiles(block) =>
       /\ Faithful(compiled)
       /\ (interpreted.status = "unsupported") = (compiled.status = "unsupported")
       /\ position > Len(block.instructions) /\ interpreted.status = "ok" =>
            interpreted.exit.kind # "None" /\ compiled.exit = interpreted.exit
  /\ interpreted.status = "unsupported" =>
       ~InInterpreter!IsLiftable(block.instructions[position - 1])
  /\ \A k \in DOMAIN block.instructions :
       LET i == block.instructions[k]
       IN InInterpreter!IsLiftable(i) /\ InInterpreter!IsSystem(i) => InInterpreter!Injects(i)

\* A block of instructions that the coverage predicate counts as liftable is
\* lifted: the predicate and the lifter agree on the forms there are.
\* (is_instruction_liftable against lift_function and account_operation.)
LiftableMeansLifted ==
  (\A k \in DOMAIN block.instructions : InInterpreter!IsLiftable(block.instructions[k]))
    => InInterpreter!Lifts(block)

\* BIF, BIT and BSL select bits as the architecture does, in both backends.
\* (The lifter's bit_select, whose test is named so.)
BitSelectArchitectural ==
  position = 2 /\ block.instructions[1].id \in {"Bif", "Bit", "Bsl"} =>
    SameState(interpreted) /\ SameState(compiled)
=============================================================================
