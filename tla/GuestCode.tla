----------------------------- MODULE GuestCode -----------------------------
(***************************************************************************)
(* Guest code as the analyses of src/switchrecomp/analysis see it: a word    *)
(* of each executable slot is decoded to a kind of control flow and, for a   *)
(* direct one, a target.  An address stands for an aligned instruction slot, *)
(* so ranges of code are sets of slots.  What one analysis of a function     *)
(* finds is defined here once, by reachability: CfgAnalyzer is the worklist  *)
(* that computes it, and FunctionMap and IndirectAssessment use it.          *)
(***************************************************************************)
EXTENDS Integers, FiniteSets, FiniteSetsExt

CONSTANTS
  CodeSize,  \* the number of executable slots
  Programs   \* the contents they may have

VARIABLE code  \* the contents of the executable slots, fixed for a behaviour

Slots == 0 .. CodeSize - 1

\* The first address after the code, which is not executable.
Outside == CodeSize

\* ControlFlowKind, where a return stands for every kind without a successor
\* and "invalid" for a word that does not decode.
Kinds == {"plain", "jump", "cond", "call", "icall", "ijump", "unknown", "return", "invalid"}

Instruction == [kind : Kinds, target : Slots \cup {Outside}]

ASSUME GuestCodeAssumption ==
  /\ CodeSize \in Nat \ {0}
  /\ Programs \subseteq [Slots -> Instruction]

\* A direct branch from the code of entry to a known function leaves it.
Transfer(entry, known, a) ==
  code[a].kind = "jump" /\ code[a].target # entry /\ code[a].target \in known

\* The edges of the instruction at a: targets, and whether they are internal.
Flow(entry, known, allowed, a) ==
  LET next == [target |-> a + 1, kind |-> "Fallthrough", internal |-> a + 1 \in allowed]
      taken(kind, internal) ==
        [target |-> code[a].target, kind |-> kind,
         internal |-> internal /\ code[a].target \in allowed]
  IN CASE code[a].kind \in {"plain", "call", "icall"} -> {next}
       [] code[a].kind = "jump" ->
            {IF Transfer(entry, known, a) THEN taken("FunctionTransfer", FALSE)
             ELSE taken("Branch", TRUE)}
       [] code[a].kind = "cond" ->
            {taken("ConditionalTaken", TRUE), [next EXCEPT !.kind = "ConditionalNotTaken"]}
       [] OTHER -> {}

Inner(edges) == {e.target : e \in {x \in edges : x.internal}}

\* What is reachable from entry inside the allowed range.
Reach(entry, known, allowed) ==
  LET grow(found) ==
        found \cup UNION {Inner(Flow(entry, known, allowed, a)) : a \in found}
      step[n \in 0 .. CodeSize] == IF n = 0 THEN {entry} ELSE grow(step[n - 1])
  IN step[CodeSize]

\* The instruction decodes and a branch of it goes to executable code.
Sound(a) ==
  /\ code[a].kind # "invalid"
  /\ code[a].kind \in {"jump", "cond"} => code[a].target \in Slots

\* Where blocks begin: the entry, and what instructions other than plain ones
\* lead to inside the range.
Starts(entry, known, allowed) ==
  {entry} \cup UNION {Inner(Flow(entry, known, allowed, a)) :
                        a \in {b \in Reach(entry, known, allowed) : code[b].kind # "plain"}}

\* A branch that leaves the function for a known entry, where that entry begins
\* a block of the function as well: the graph has no consistent reading of it.
Contradicted(entry, known, allowed) ==
  \E a \in Reach(entry, known, allowed) :
    /\ Transfer(entry, known, a)
    /\ code[a].target \in Starts(entry, known, allowed)

\* The result of analyze_control_flow: whether it succeeds, the slots owned,
\* the targets of direct calls and of ordinary branches, and the instructions
\* left unresolved.
Analysis(entry, known) ==
  LET owned == Reach(entry, known, Slots)
  IN [ok |-> (\A a \in owned : Sound(a)) /\ ~Contradicted(entry, known, Slots),
      owned |-> owned,
      calls |-> {code[a].target : a \in {x \in owned : code[x].kind = "call"}},
      branches |-> {code[a].target : a \in {x \in owned : code[x].kind = "jump"
                                                         /\ ~Transfer(entry, known, x)}},
      unresolved |-> {a \in owned : code[a].kind \in {"icall", "ijump", "unknown"}}]
=============================================================================
