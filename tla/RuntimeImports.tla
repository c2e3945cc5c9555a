--------------------------- MODULE RuntimeImports ---------------------------
(***************************************************************************)
(* The boundary between guest and host: the registry of import handlers,     *)
(* the session's use of it when guest code calls an import, what a handler   *)
(* may do and how its outcome is judged, and the registry of compiled guest  *)
(* functions.  A handler is any host code, so it may end in any way.         *)
(***************************************************************************)
EXTENDS Integers, Sequences

CONSTANTS
  LastAddress,   \* the last address, which no range reaches
  Pages,         \* the mappings: base, size, read, write, execute
  ImportNames,   \* the names of imports
  Signatures,    \* signatures: declared, listed, observed, returns
  StackPointers, \* the values of SP a guest may call with
  TlsModules,    \* descriptors of modules a handler may register
  MaxTls,        \* bound of this model: registered modules
  Compiled       \* registrations of compiled functions: entry, begin, end

\* argument_count when it has no value.
Undeclared == -1

ASSUME RuntimeAssumption ==
  /\ LastAddress \in Nat /\ MaxTls \in Nat
  /\ \A p \in Pages : p.base \in Nat /\ p.size \in Nat /\ p.base + p.size <= LastAddress
                      /\ {p.read, p.write, p.execute} \subseteq BOOLEAN
  /\ \A g \in Signatures : /\ g.declared \in Nat \cup {Undeclared}
                           /\ g.listed \in Nat /\ g.observed \in Nat
                           /\ g.returns \in {"Void", "Integer", "Unknown"}
  /\ StackPointers \subseteq Nat
  /\ \A m \in TlsModules : \A part \in {"executable", "tdata", "tbss"} :
       m[part].begin \in Nat /\ m[part].end \in Nat
  /\ \A f \in Compiled : f.entry \in Nat /\ f.begin \in Nat /\ f.end \in Nat

VARIABLES
  imports,   \* entries_: what is registered under each name
  modules,   \* dso_modules_
  sp,        \* the guest's stack pointer
  call,      \* the import whose handler runs, or NoImport
  written,   \* return_written_ of its call
  returned,  \* history: its handler has written X0 since it was entered
  ending,    \* "running", or why the guest stopped
  functions, \* entries_ of the compiled functions
  frozen     \* frozen_

importVars == <<imports, modules, sp, call, written, returned, ending>>
functionVars == <<functions, frozen>>
runtime == <<importVars, functionVars>>

NoImport == [name |-> "none"]

\* validate_range: a range of one mapping.
InPageOf(p, a, n) == a + n <= LastAddress /\ p.base <= a /\ a + n <= p.base + p.size
InPage(a, n) == \E p \in Pages : InPageOf(p, a, n)

------------------------------------------------------------------------------
\* The registry.
Supports == {"Unknown", "Unimplemented", "Implemented"}
Registrations == [support : Supports, signature : Signatures, handler : BOOLEAN]

Registrable(r) ==
  LET g == r.signature
  IN /\ r.support # "Unknown"
     /\ g.declared # Undeclared =>
          g.observed <= g.declared /\ (g.listed = 0 \/ g.listed = g.declared)
     /\ r.handler = (r.support = "Implemented")

RegisterImport(name, r) ==
  /\ ending # "running" /\ Registrable(r) /\ name \notin DOMAIN imports
  /\ imports' = [k \in DOMAIN imports \cup {name} |-> IF k = name THEN r ELSE imports[k]]
  /\ UNCHANGED <<modules, sp, call, written, returned, ending>>

------------------------------------------------------------------------------
\* The call frame of an import: eight arguments in registers, the rest above SP.
RegisterArguments == 8
ArgumentSize == 8
StackAlignment == 16

Arguments(g) == 0 .. (IF g.declared = Undeclared THEN g.observed ELSE g.declared) - 1
OnStack(g) == {i \in Arguments(g) : i >= RegisterArguments}
Argument(i) == sp + (i - RegisterArguments) * ArgumentSize

\* raw_argument gives a value for it.
Obtainable(i) ==
  i >= RegisterArguments => \E p \in Pages : InPageOf(p, Argument(i), ArgumentSize) /\ p.read

\* validate, and how its error is classified: an address that is not there is
\* a memory fault, a sum that leaves the address space is not.
LeavesSpace(i) == Argument(i) + ArgumentSize > LastAddress
Verdict(g) ==
  LET bad == {i \in OnStack(g) : ~Obtainable(i)}
  IN CASE sp = 0 \/ sp % StackAlignment # 0 -> "MemoryFault"
       [] OnStack(g) # {} /\ ~InPage(sp, 1) -> "MemoryFault"
       [] bad = {} -> "Valid"
       [] \E i \in bad : LeavesSpace(i) /\ \A j \in bad : i <= j -> "AbiViolation"
       [] OTHER -> "MemoryFault"

------------------------------------------------------------------------------
\* What the session does when a block ends in an import.  A supplied module
\* that provides the name, or may provide it, leaves nothing to the host.
Bindings == {"NoProcessImage", "BindingMissing", "NotFoundInSuppliedModules", "OtherStatus"}
Boundaries == [name : ImportNames, binding : Bindings, invocation : {"Call", "TailTransfer"}]

FallbackEligible(b) == b.binding \in {"NoProcessImage", "NotFoundInSuppliedModules"}
Resolved(b) == FallbackEligible(b) /\ b.name \in DOMAIN imports
Signature(b) == imports[b.name].signature

Running == ending = "running" /\ call = NoImport
Stopped(why) == ending' = why /\ call' = NoImport
Kept == UNCHANGED <<imports, sp, modules>>
Same == Kept /\ UNCHANGED <<written, returned>>

Unresolved(b) ==
  /\ Running /\ ~Resolved(b)
  /\ Stopped("UnresolvedImport") /\ Same

Invalid(b) ==
  /\ Running /\ Resolved(b) /\ Verdict(Signature(b)) # "Valid"
  /\ Stopped(Verdict(Signature(b))) /\ Same

Unimplemented(b) ==
  /\ Running /\ Resolved(b) /\ Verdict(Signature(b)) = "Valid"
  /\ imports[b.name].support = "Unimplemented"
  /\ Stopped("Unimplemented") /\ Same

Enters(b) ==
  /\ Running /\ Resolved(b) /\ Verdict(Signature(b)) = "Valid"
  /\ imports[b.name].support = "Implemented" /\ imports[b.name].handler
  /\ call' = b /\ written' = FALSE /\ returned' = FALSE
  /\ Kept /\ UNCHANGED ending

------------------------------------------------------------------------------
\* What a handler can do with its context.
InHandler == call # NoImport

SetsReturn ==
  /\ InHandler /\ written' = TRUE /\ returned' = TRUE
  /\ Kept /\ UNCHANGED <<call, ending>>

TlsParts == {"executable", "tdata", "tbss"}
Meet(r, s) == r.begin < s.end /\ s.begin < r.end
PowerOfTwo(n) == n # 0 /\ \A d \in 2 .. n : n % d = 0 => d % 2 = 0

\* require_permissions of a range.
Granted(r, rights) ==
  r.begin = r.end \/ \E p \in Pages : /\ InPageOf(p, r.begin, r.end - r.begin)
                                      /\ \A right \in rights : p[right]

ValidModule(m) ==
  /\ \A part \in TlsParts : m[part].begin <= m[part].end /\ m[part].end <= LastAddress
  /\ \A p, q \in TlsParts : p # q => ~Meet(m[p], m[q])
  /\ \A part \in {"tdata", "tbss"} :
       /\ PowerOfTwo(m.alignment[part])
       /\ m[part].begin # m[part].end => m[part].begin % m.alignment[part] = 0
  /\ Granted(m.executable, {"read", "execute"})
  /\ Granted(m.tdata, {"read"})
  /\ Granted(m.tbss, {"read", "write"})

\* Mutant: a module is validated, but not compared with those before it.
RegisterTlsUncompared(m) ==
  /\ InHandler /\ Len(modules) < MaxTls
  /\ ValidModule(m)
  /\ modules' = Append(modules, m)
  /\ UNCHANGED <<imports, sp, call, written, returned, ending>>

\* register_dso_tls.
RegisterTls(m) ==
  /\ InHandler /\ Len(modules) < MaxTls
  /\ ValidModule(m)
  /\ \A i \in DOMAIN modules : \A p, q \in TlsParts : ~Meet(m[p], modules[i][q])
  /\ modules' = Append(modules, m)
  /\ UNCHANGED <<imports, sp, call, written, returned, ending>>

------------------------------------------------------------------------------
\* How a handler ends: an outcome of its choice, an error or an exception.
Outcomes == {"Handled", "Unimplemented", "AbiViolation", "MemoryFault", "InvariantViolation"}
HandlerEnds == Outcomes \cup {"MemoryError", "OtherError", "Throws"}

\* Mutant: a handler that says it has handled the import is believed.
JudgedBelieving(end) ==
  CASE end = "MemoryError" -> "MemoryFault"
    [] end \in {"OtherError", "Throws"} -> "InvariantViolation"
    [] OTHER -> end

\* invoke, after the handler: an integer that was promised must be there.
Judged(end) ==
  CASE end = "MemoryError" -> "MemoryFault"
    [] end \in {"OtherError", "Throws"} -> "InvariantViolation"
    [] end = "Handled" /\ Signature(call).returns = "Integer" /\ ~written -> "InvariantViolation"
    [] OTHER -> end

\* A tail transfer of the entry function ends the run.
ResumesGuest(end) ==
  /\ InHandler /\ Judged(end) = "Handled"
  /\ call' = NoImport
  /\ ending' \in {"running"} \cup (IF call.invocation = "TailTransfer" THEN {"EntryReturned"} ELSE {})
  /\ Same

StopsIn(end) ==
  /\ InHandler /\ Judged(end) # "Handled"
  /\ Stopped(Judged(end)) /\ Same

------------------------------------------------------------------------------
\* The guest, between imports; a run forgets the modules of the one before.
GuestMoves ==
  /\ Running /\ sp' \in StackPointers
  /\ UNCHANGED <<imports, modules, call, written, returned, ending>>

StartsRun ==
  /\ ending # "running" /\ ending' = "running" /\ modules' = <<>> /\ sp' \in StackPointers
  /\ UNCHANGED <<imports, call, written, returned>>

ImportsNext ==
  \/ \E name \in ImportNames, r \in Registrations : RegisterImport(name, r)
  \/ \E b \in Boundaries : Unresolved(b) \/ Invalid(b) \/ Unimplemented(b) \/ Enters(b)
  \/ SetsReturn
  \/ \E m \in TlsModules : RegisterTls(m)
  \/ \E end \in HandlerEnds : ResumesGuest(end) \/ StopsIn(end)
  \/ GuestMoves
  \/ StartsRun

------------------------------------------------------------------------------
\* The compiled functions: ranges that hold their entry and no other's code.
InstructionSize == 4
Aligned(a) == a % InstructionSize = 0
Fetchable(a, n) == \E p \in Pages : InPageOf(p, a, n) /\ p.execute

Add(f) ==
  /\ ~frozen /\ Aligned(f.entry) /\ Aligned(f.begin)
  /\ f.begin <= f.entry /\ f.entry < f.end
  /\ Fetchable(f.begin, f.end - f.begin)
  /\ \A g \in functions : f.entry # g.entry /\ ~Meet(f, g)
  /\ functions' = functions \cup {f} /\ UNCHANGED frozen

Freeze == ~frozen /\ frozen' = TRUE /\ UNCHANGED functions

\* lower_bound over the sorted entries, and what it must have found.
AtOrAbove(a) == {f \in functions : f.entry >= a}
LowerBound(a) == CHOOSE f \in AtOrAbove(a) : \A g \in AtOrAbove(a) : f.entry <= g.entry
Finds(a) ==
  /\ frozen /\ Aligned(a) /\ AtOrAbove(a) # {}
  /\ LowerBound(a).entry = a /\ Fetchable(a, InstructionSize)

FunctionsNext == Freeze \/ \E f \in Compiled : Add(f)

------------------------------------------------------------------------------
ImportsInit ==
  /\ imports = [k \in {} |-> {}] /\ modules = <<>> /\ sp \in StackPointers
  /\ call = NoImport /\ written = FALSE /\ returned = FALSE /\ ending = "idle"
FunctionsInit == functions = {} /\ frozen = FALSE

RuntimeInit == ImportsInit /\ FunctionsInit
RuntimeNext ==
  \/ ImportsNext /\ UNCHANGED functionVars
  \/ FunctionsNext /\ UNCHANGED importVars
RuntimeSpec == RuntimeInit /\ [][RuntimeNext]_runtime

------------------------------------------------------------------------------
(* Properties. *)

\* While a handler runs, no supplied module could have served the import, its
\* name is registered as implemented, and every argument of its signature can
\* be read, although validate looked at the frame before it ran.
HandlersAreDue ==
  InHandler =>
    /\ call.binding \in {"NoProcessImage", "NotFoundInSuppliedModules"}
    /\ call.name \in DOMAIN imports /\ imports[call.name].support = "Implemented"
    /\ \A i \in Arguments(Signature(call)) : Obtainable(i)

\* No byte belongs to two ranges of registered modules, whatever order they
\* came in, and every byte of one is mapped as its use needs.
Covers(r, a) == r.begin <= a /\ a < r.end
ModulesApart ==
  /\ \A i, j \in DOMAIN modules : \A p, q \in TlsParts :
       <<i, p>> # <<j, q>> =>
         ~\E a \in modules[i][p].begin .. modules[i][p].end - 1 : Covers(modules[j][q], a)
  /\ \A i \in DOMAIN modules : \A part \in TlsParts :
       \A a \in modules[i][part].begin .. modules[i][part].end - 1 :
         \E p \in Pages : /\ InPageOf(p, a, 1) /\ p.read
                          /\ part = "executable" => p.execute
                          /\ part = "tbss" => p.write

\* The search for a function's entry finds that function, once the registry is
\* frozen, and no other function has code where it has.
FunctionsApart ==
  \A f \in functions :
    /\ LowerBound(f.entry) = f
    /\ frozen /\ Fetchable(f.entry, InstructionSize) => Finds(f.entry)
    /\ \A g \in functions, a \in f.begin .. f.end - 1 : Covers(g, a) => f = g

\* The boundary between guest and host (imports.cpp, dispatcher.cpp, session.cpp).
BoundaryHolds == HandlersAreDue /\ ModulesApart /\ FunctionsApart

\* The guest goes on after an import that promises an integer only when its
\* handler has written X0 since it was entered (invoke, dispatch_runtime_import):
\* what X0 held before the call never passes for a result.
GuestGoesOn == ending' \in {"running", "EntryReturned"}
ResumesWhenDone ==
  [][(InHandler /\ call' = NoImport /\ GuestGoesOn) =>
       (Signature(call).returns = "Integer" => returned)]_importVars
=============================================================================
