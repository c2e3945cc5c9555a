----------------------------- MODULE Relocation -----------------------------
(***************************************************************************)
(* loader/relocation_processor.cpp and loader/symbol_resolver.cpp: a plan of *)
(* relocation writes is made against a guest memory, kept, and applied as    *)
(* one transaction.  Between the two the owner of the memory may store to it *)
(* or release a mapping it owns, and it may release one while the writes are *)
(* being committed, which is what the rollback is for, or while they are     *)
(* being rolled back.  A slot is one word (ABS32) or two, the low one first. *)
(***************************************************************************)
EXTENDS ModuleFile

VARIABLES
  words,    \* the contents of guest memory, by address
  regions,  \* its mappings
  order,    \* the planned writes: slot, width and value
  turn,     \* the next one
  kept,     \* the contents of the slots before any was written
  loading,    \* what the loader is doing
  before    \* history: all of memory when the writes began

memoryVars == <<words, regions>>
planVars == <<order, turn, kept, loading, before>>
relocation == <<words, regions, order, turn, kept, loading, before>>

Width(type) == IF type = "Abs32" THEN 1 ELSE 2

\* The word a value puts at the i-th address of its slot.
Digit(value, i) == IF i = 0 THEN value % Radix ELSE value \div Radix

Holds(memory, slot, width) ==
  IF width = 1 THEN memory[slot] ELSE memory[slot] + Radix * memory[slot + 1]

Put(memory, w) ==
  [a \in DOMAIN memory |->
     IF a \in Span(w.slot, w.width) THEN Digit(w.value, a - w.slot) ELSE memory[a]]

Region(space, a, size) ==
  {r \in space : Span(a, size) \subseteq Span(r.base, r.size)}

\* validate_target: an aligned slot inside one mapping; loader writes ignore
\* its permissions, guest writes do not.
Writable(space, slot, width, loader) ==
  /\ slot # Nowhere
  /\ slot % width = 0
  /\ \E r \in Region(space, slot, width) : loader \/ r.write

\* A relocation that is performed changes memory in one write, and one whose
\* symbol nobody defines stays a boundary of the module.
Write(relocation_, value) ==
  [slot |-> relocation_.slot, width |-> Width(relocation_.type), value |-> value]

\* resolve_for_relocation: an address, Missing for an undefined global or weak
\* symbol no one registered, Nowhere for an error.
Address(symbol, base) == IF symbol.absolute THEN symbol.value ELSE Plus(base, symbol.value)

Resolve(symbols, externals, base, index) ==
  CASE index \notin DOMAIN symbols -> Nowhere
    [] index \in DOMAIN symbols /\ symbols[index].defined -> Address(symbols[index], base)
    [] OTHER ->
         CASE symbols[index].name \in DOMAIN externals -> externals[symbols[index].name]
           [] symbols[index].name \notin DOMAIN externals ->
                IF symbols[index].binding \in {"Global", "Weak"} THEN Missing ELSE Nowhere

\* plan_relocations, which changes nothing: every relocation is classified, and
\* one that cannot be makes the whole plan fail.
Target(r, job) == IF r.type = "Relative" THEN job.base
                  ELSE Resolve(job.symbols, job.externals, job.base, r.symbol)

Fits(r, target) ==
  LET value == Plus(target, r.addend)
  IN value # Nowhere /\ (r.type = "Abs32" => value < Radix)

\* What becomes of a relocation to a target.
Outcome(r, target, loader) ==
  CASE r.type = "None" -> "skip"
    [] r.type = "Unknown" -> "fail"
    [] OTHER ->
         CASE target = Nowhere \/ ~Writable(regions, r.slot, Width(r.type), loader) -> "fail"
           [] target = Missing -> "unresolved"
           [] OTHER -> IF Fits(r, target) THEN "write" ELSE "fail"

Classified(r, job) == Outcome(r, Target(r, job), job.loader)

PlanWrites(job) ==
  LET write(r) == IF Classified(r, job) = "write" THEN <<Write(r, Target(r, job) + r.addend)>>
                  ELSE <<>>
  IN FlattenSeq([i \in DOMAIN job.relocations |-> write(job.relocations[i])])

Plan(job) ==
  /\ loading = "idle"
  /\ IF \E i \in DOMAIN job.relocations : Classified(job.relocations[i], job) = "fail"
     THEN loading' = "rejected" /\ UNCHANGED order
     ELSE loading' = "planned" /\ order' = PlanWrites(job)
  /\ UNCHANGED <<words, regions, turn, kept, before>>

\* apply_relocation_plan begins: every slot is validated again, and read.
Preflight(loader) ==
  /\ loading = "planned"
  /\ IF \A i \in DOMAIN order : Writable(regions, order[i].slot, order[i].width, loader)
     THEN /\ loading' = "commit"
          /\ kept' = [i \in DOMAIN order |->
                        [order[i] EXCEPT !.value = Holds(words, order[i].slot, order[i].width)]]
          /\ turn' = 1
          /\ before' = words
     ELSE loading' = "rejected" /\ UNCHANGED <<kept, turn, before>>
  /\ UNCHANGED <<words, regions, order>>

Commit(loader) ==
  /\ loading = "commit"
  /\ turn <= Len(order)
  /\ Writable(regions, order[turn].slot, order[turn].width, loader)
  /\ words' = Put(words, order[turn])
  /\ turn' = turn + 1
  /\ UNCHANGED <<regions, order, kept, loading, before>>

\* Mutant: the write before the one that failed is not undone.
RollBackButLast(loader) ==
  /\ loading = "commit"
  /\ turn <= Len(order)
  /\ ~Writable(regions, order[turn].slot, order[turn].width, loader)
  /\ loading' = "rollback"
  /\ turn' = IF turn < 2 THEN 0 ELSE turn - 2
  /\ UNCHANGED <<words, regions, order, kept, before>>

\* A write that fails: every slot is restored, the last one first.
RollBack(loader) ==
  /\ loading = "commit"
  /\ turn <= Len(order)
  /\ ~Writable(regions, order[turn].slot, order[turn].width, loader)
  /\ loading' = "rollback"
  /\ turn' = Len(order)
  /\ UNCHANGED <<words, regions, order, kept, before>>

\* A restoring write that fails is ignored.
Restore(loader) ==
  /\ loading = "rollback"
  /\ turn > 0
  /\ words' = IF Writable(regions, kept[turn].slot, kept[turn].width, loader)
              THEN Put(words, kept[turn]) ELSE words
  /\ turn' = turn - 1
  /\ UNCHANGED <<regions, order, kept, loading, before>>

RolledBack ==
  /\ loading = "rollback"
  /\ turn = 0
  /\ loading' = "rolled_back"
  /\ UNCHANGED <<words, regions, order, turn, kept, before>>

Committed ==
  /\ loading = "commit"
  /\ turn > Len(order)
  /\ loading' = "applied"
  /\ UNCHANGED <<words, regions, order, turn, kept, before>>

\* The owner of the memory: a guest store, and the release of an owned mapping.
Store(a, value) ==
  /\ loading = "planned"
  /\ \E r \in Region(regions, a, 1) : r.write
  /\ words' = [words EXCEPT ![a] = value]
  /\ UNCHANGED <<regions, order, turn, kept, loading, before>>

Release(r) ==
  /\ loading \in {"planned", "commit", "rollback"}
  /\ r \in regions /\ r.owned
  /\ regions' = regions \ {r}
  /\ UNCHANGED <<words, order, turn, kept, loading, before>>

Mapped(a) == Region(regions, a, 1) # {}

\* The writes of the plan that reach an address, of which the last one stays.
Reaching(a) == {i \in DOMAIN order : a \in Span(order[i].slot, order[i].width)}

\* docs/ARCHITECTURE.md has the writes staged so that a relocation that fails
\* does not partially modify the image.  Whatever happens to the memory between
\* the plan and the last write, a commit that ends has written every slot, the
\* last writer of an address standing, and nothing else; one that rolled back
\* has left every address that is still mapped as it found it.
RelocationAtomic ==
  \A a \in DOMAIN words : Mapped(a) =>
    /\ loading = "rolled_back" => words[a] = before[a]
    /\ loading = "applied" =>
         words[a] = IF Reaching(a) = {} THEN before[a]
                    ELSE LET w == order[Max(Reaching(a))] IN Digit(w.value, a - w.slot)
=============================================================================
