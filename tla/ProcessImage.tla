---------------------------- MODULE ProcessImage ----------------------------
(***************************************************************************)
(* analysis/process_image.cpp: the modules of a process are laid out, loaded *)
(* into one guest memory, and bound to each other through the namespace of   *)
(* their dynamic symbols; the relocations of all of them are one plan, which *)
(* Relocation applies, and an image is published when every slot bound to a  *)
(* provider reads back as its address.  A job of kind "plan" is a caller of  *)
(* Relocation's plan and apply instead (whole_module.cpp has one).           *)
(***************************************************************************)
EXTENDS Relocation

CONSTANT ImageJobs  \* the inputs

\* The mappings of a memory are disjoint, and the relocations of a caller's plan
\* are typed.
PlanTyped(t) ==
  /\ \A r \in t.regions : {r.base, r.size} \subseteq Nat /\ r.base + r.size <= Top
  /\ \A r, s \in t.regions : r # s => Span(r.base, r.size) \cap Span(s.base, s.size) = {}
  /\ t.relocations \in Seq(Relas)

\* Sizes are unsigned, and a table holds as many entries as it is read for.
FileTyped(f) ==
  /\ \A k \in Parts : {f.segments[k].memory, f.segments[k].size} \subseteq Nat
  /\ f.bss \in Nat
  /\ Symbols(f) \in Seq(SymbolEntries)
  /\ RelaTables(f, Dynamic(f)) \in Seq(Relas)

ASSUME ImageAssumption ==
  \A t \in ImageJobs :
    \/ t.kind = "plan" /\ PlanTyped(t)
    \/ /\ t.kind = "image"
       /\ t.gap \in Nat
       /\ Len(t.modules) \in Nat /\ DOMAIN t.modules = 1 .. Len(t.modules)
       /\ \A i \in DOMAIN t.modules : FileTyped(t.modules[i])

VARIABLES
  task,      \* the input of this behaviour
  bases,     \* the bases of the modules placed so far
  bindings   \* the relocations against undefined symbols, and what they got

imageVars == <<task, bases, bindings>>
image == <<relocation, imageVars>>

Modules == DOMAIN task.modules

Occupied(i, base) == Span(base, ImageSpan(task.modules[i]))

AlignUp(a) == IF a = Nowhere THEN Nowhere
              ELSE LET up == ((a + task.align - 1) \div task.align) * task.align
                   IN IF a + task.align - 1 < Top THEN up ELSE Nowhere

\* The explicit modules an automatic one at base would meet, the first of which
\* it is moved past, to where the layout does not align it again.
Blocking(i, base) ==
  {j \in Modules : /\ task.modules[j].base # Nowhere
                   /\ Occupied(j, task.modules[j].base) \cap Occupied(i, base) # {}}

Settled(i, from) ==
  LET past(base) ==
        IF base = Nowhere \/ Blocking(i, base) = {} THEN base
        ELSE LET j == Min(Blocking(i, base))
             IN Plus(task.modules[j].base + ImageSpan(task.modules[j]), task.gap)
      move[n \in 0 .. Len(task.modules)] == IF n = 0 THEN from ELSE past(move[n - 1])
  IN move[Len(task.modules)]

\* Where the next automatic module is tried: after the last one placed.
Cursor == IF bases = <<>> THEN task.start
          ELSE Plus(Last(bases), ImageSpan(task.modules[Len(bases)]) + task.gap)

Chosen(i) ==
  IF task.modules[i].base # Nowhere
  THEN IF task.modules[i].base % task.align = 0 THEN task.modules[i].base ELSE Nowhere
  ELSE IF AlignUp(Cursor) = Nowhere THEN Nowhere ELSE Settled(i, AlignUp(Cursor))

PlaceModule ==
  LET i == Len(bases) + 1
      base == Chosen(i)
      fits == /\ HeaderAccepted(task.modules[i])
              /\ Materializes(task.modules[i])
              /\ base \in 0 .. Top - 1
              /\ base + ImageSpan(task.modules[i]) + task.gap < Top
              /\ \A j \in DOMAIN bases : Occupied(i, base) \cap Occupied(j, bases[j]) = {}
              /\ Occupied(i, base) \cap task.stack = {}
  IN /\ loading = "place"
     /\ i \in Modules
     /\ IF fits THEN bases' = Append(bases, base) /\ UNCHANGED loading
                ELSE loading' = "failed" /\ UNCHANGED bases
     /\ UNCHANGED <<words, regions, order, turn, kept, before, task, bindings>>

\* load_nso for each module, then its metadata out of the loaded memory.
Readable(space, base) == {Span(r.base - base, r.size) : r \in space}

LoadModules ==
  LET each(i) == {[base |-> r.base, size |-> r.size, execute |-> r.execute, write |-> r.write,
                   owned |-> FALSE] : r \in ImageRegions(task.modules[i], bases[i])}
      loads(space) ==
        /\ \A r, s \in space : r # s => Span(r.base, r.size) \cap Span(s.base, s.size) = {}
        /\ \A i \in Modules : MetadataValid(task.modules[i], bases[i], Readable(space, bases[i]))
      load(space) == IF loads(space) THEN loading' = "bind" /\ regions' = space
                     ELSE loading' = "failed" /\ UNCHANGED regions
  IN /\ loading = "place"
     /\ Len(bases) = Len(task.modules)
     /\ load(UNION {each(i) : i \in Modules})
     /\ UNCHANGED <<words, order, turn, kept, before, imageVars>>

------------------------------------------------------------------------------
(* The namespace of dynamic symbols.                                          *)

Executable(a) == \E r \in Region(regions, a, 1) : r.execute

Eligible(s, base) ==
  LET a == Address(s, base) IN
    /\ s.name # "" /\ s.defined
    /\ a # Nowhere
    /\ s.binding \in {"Global", "Weak"}
    /\ s.visibility \notin {"Hidden", "Internal"}
    /\ Mapped(a)
    /\ s.type = "Function" => Executable(a)
    /\ s.type \notin {"None", "Unknown"}

Candidates(name) ==
  LET named(s, i) == s.name = name /\ Eligible(s, bases[i])
      exports(i, symbols) ==
        {[module |-> i, index |-> k] : k \in {n \in DOMAIN symbols : named(symbols[n], i)}}
  IN UNION {exports(i, Symbols(task.modules[i])) : i \in Modules}

SymbolOf(c) == Symbols(task.modules[c.module])[c.index]
StrongDefinitions(candidates) == {c \in candidates : SymbolOf(c).binding = "Global"}

\* Mutant: the first of several strong candidates is selected.
SelectedFirst(name) ==
  LET select(all, strong) ==
        IF ~task.complete THEN {}
        ELSE IF strong # {} THEN {CHOOSE c \in strong : TRUE}
        ELSE IF Cardinality(all) = 1 THEN all ELSE {}
  IN select(Candidates(name), StrongDefinitions(Candidates(name)))

\* The one strong candidate, or the only one; nothing while the set of modules
\* may lack some.
Selected(name) ==
  LET select(all, strong) ==
        CASE ~task.complete -> {}
          [] task.complete /\ Cardinality(strong) = 1 -> strong
          [] OTHER -> IF Cardinality(all) = 1 THEN all ELSE {}
  IN select(Candidates(name), StrongDefinitions(Candidates(name)))

\* What a relocation of module i refers to: an address, Missing when its symbol
\* is undefined and no provider is selected, Nowhere for an error.
Provided(r, provider) ==
  LET c == CHOOSE x \in provider : TRUE
  IN CASE provider = {} -> Missing
       [] provider # {} /\ r.type = "JumpSlot" /\ SymbolOf(c).type # "Function" -> Nowhere
       [] OTHER -> Address(SymbolOf(c), bases[c.module])

Referred(i, r) ==
  LET refer(symbols) ==
        CASE r.symbol \notin DOMAIN symbols -> Nowhere
          [] r.symbol \in DOMAIN symbols /\ symbols[r.symbol].defined ->
               Address(symbols[r.symbol], bases[i])
          [] OTHER -> Provided(r, Selected(symbols[r.symbol].name))
  IN IF r.type = "Relative" THEN bases[i] ELSE refer(Symbols(task.modules[i]))

\* Every relocation of every module, and how it fares.
AllRelocations ==
  LET of(i, rs) == [k \in DOMAIN rs |-> [module |-> i, r |-> rs[k]]]
  IN FlattenSeq([i \in Modules |-> of(i, RelaEntries(task.modules[i], bases[i]))])

Fate(x) == Outcome(x.r, Referred(x.module, x.r), TRUE)

Imported(x) ==
  LET symbols == Symbols(task.modules[x.module]) IN
    x.r.type # "Relative" /\ x.r.symbol \in DOMAIN symbols /\ ~symbols[x.r.symbol].defined

\* What a relocation adds to the plan, and to the bindings.
WriteOf(x) == Write(x.r, Referred(x.module, x.r) + x.r.addend)
Written(x) == IF Fate(x) = "write" THEN <<WriteOf(x)>> ELSE <<>>
Bound(x) ==
  IF Fate(x) = "write" /\ Imported(x)
  THEN <<[consumer |-> x.module, symbol |-> x.r.symbol, addend |-> x.r.addend,
          write |-> WriteOf(x), applied |-> task.apply]>>
  ELSE <<>>

BindImage ==
  LET each(list, Of(_)) == FlattenSeq([k \in DOMAIN list |-> Of(list[k])])
      bind(all) ==
        IF \E k \in DOMAIN all : Fate(all[k]) = "fail"
        THEN loading' = "failed" /\ UNCHANGED <<order, bindings>>
        ELSE /\ order' = each(all, Written)
             /\ bindings' = each(all, Bound)
             /\ loading' = IF task.apply THEN "planned" ELSE "published"
  IN /\ loading = "bind"
     /\ bind(AllRelocations)
     /\ UNCHANGED <<words, regions, turn, kept, before, task, bases>>

\* The slots of the bindings are read back before the image is handed out.
Verify ==
  /\ loading = "applied"
  /\ task.kind = "image"
  /\ loading' = IF \A k \in DOMAIN bindings :
                   LET w == bindings[k].write IN Holds(words, w.slot, w.width) = w.value
              THEN "published" ELSE "failed"
  /\ UNCHANGED <<words, regions, order, turn, kept, before, imageVars>>

------------------------------------------------------------------------------
Blank == [a \in 0 .. Top - 1 |-> 1]

ImageInit ==
  /\ task \in ImageJobs
  /\ words = Blank
  /\ regions = IF task.kind = "plan" THEN task.regions ELSE {}
  /\ order = <<>> /\ turn = 0 /\ kept = <<>> /\ before = <<>>
  /\ bases = <<>> /\ bindings = <<>>
  /\ loading = IF task.kind = "plan" THEN "idle" ELSE "place"

Loading ==
  \/ PlaceModule
  \/ LoadModules
  \/ BindImage
  \/ Verify

\* A plan of the loader's own and its memory's owner, who has no hold on the
\* memory of an image that is still being staged.
Retained ==
  \/ Plan(task)
  \/ \E a \in 0 .. Top - 1 : Store(a, 0)
  \/ \E r \in regions : Release(r)

ImageNext ==
  \/ task.kind = "image" /\ Loading
  \/ task.kind = "plan" /\ Retained /\ UNCHANGED imageVars
  \/ /\ \/ Preflight(task.loader) \/ Commit(task.loader) \/ Committed
        \/ RollBack(task.loader) \/ Restore(task.loader) \/ RolledBack
     /\ UNCHANGED imageVars

ImageSpec == ImageInit /\ [][ImageNext]_image

\* An image that is handed out is laid out without overlap and clear of the
\* reserved stack; a slot of an import holds the address, plus the addend, of
\* one exported definition of its name, of which there is no other strong one,
\* and no other at all when it is weak; and nothing is bound while the set of
\* modules may be incomplete (process_image.cpp:441-493, 1109-1145).
ImageBound ==
  loading = "published" =>
    /\ \A i, j \in Modules : i # j => Occupied(i, bases[i]) \cap Occupied(j, bases[j]) = {}
    /\ \A i \in Modules : Occupied(i, bases[i]) \cap task.stack = {}
    /\ bindings # <<>> => task.complete
    /\ \A k \in DOMAIN bindings :
         LET b == bindings[k]
             name == Symbols(task.modules[b.consumer])[b.symbol].name
             exported(i) == {s \in Range(Symbols(task.modules[i])) :
                               s.name = name /\ Eligible(s, bases[i])}
             all == UNION {{<<i, s>> : s \in exported(i)} : i \in Modules}
             rivals(d) == {e \in all : e # d /\ e[2].binding = "Global"}
         IN \E d \in all :
              /\ rivals(d) = {}
              /\ d[2].binding = "Weak" => all = {d}
              /\ b.applied => Holds(words, b.write.slot, b.write.width)
                                = Address(d[2], bases[d[1]]) + b.addend
=============================================================================
