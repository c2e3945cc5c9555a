-------------------------- MODULE MCStaticAnalysis --------------------------
(***************************************************************************)
(* What a process goes through before it runs, for TLC: its image            *)
(* (ProcessImage), the control flow of one function (CfgAnalyzer), the       *)
(* function map and its refinements (MapRefinement), the translation of its  *)
(* blocks (Translation); and, once it runs, its boundary to the host         *)
(* (RuntimeImports).  Each behaviour is about one of them.                   *)
(***************************************************************************)
EXTENDS CfgAnalyzer, MapRefinement, ProcessImage, MCTranslation, RuntimeImports

VARIABLE subject

Slot(k, t) == [kind |-> k, target |-> t]
Ends == {"return", "jump", "plain"}

\* Four slots of code, for the analyzer and for the map.
CfgPrograms ==
  {p \in [0 .. 3 -> {Slot("plain", 0), Slot("return", 0), Slot("call", 0), Slot("invalid", 0)}
                      \cup {Slot(k, t) : k \in {"jump", "cond"}, t \in 0 .. 4}] :
     p[0].kind = "cond" /\ p[1].kind # "cond" /\ p[3].kind \in Ends}

Onward == {Slot("plain", 0), Slot("return", 0), Slot("invalid", 0)}
Turns(a) == {Slot(k, t) : k \in {"jump", "call", "cond"}, t \in (0 .. 3) \ {a}}
MapPrograms ==
  {p \in [0 .. 3 -> Onward \cup UNION {Turns(a) : a \in 0 .. 3}] :
     /\ \A a \in 0 .. 3 : p[a] \in Onward \cup Turns(a)
     /\ p[0].kind \in {"call", "plain", "jump"}
     /\ p[3].kind \in {"return", "jump"}}

MCPrograms == CfgPrograms \cup MapPrograms

\* A function that branches to a tail function both ways, a function that calls
\* the tail function, and a target that calls into the first and the second.
TailPrograms ==
  {[a \in 0 .. 7 |-> <<Slot("cond", 2), Slot("jump", 2), Slot("return", 0), Slot("call", 2),
                      Slot("return", 0), Slot("call", 1), Slot("call", 3), Slot("return", 0)>>[a + 1]]}
MCTailJobs == [candidates : {{}}, trusted : {{0}}, workers : {1, 2}]
MCLimits == {[instructions |-> 9, blocks |-> 9, pending |-> 9],
             [instructions |-> 2, blocks |-> 2, pending |-> 1]}
MCRanges == {0 .. 3, 1 .. 3}
MCMapJobs == [candidates : {{}, {2}}, trusted : {{0}, {0, 1}}, workers : {1, 2}]

\* Modules: main imports f and defines g; two providers define what they do.
Symbol(n, d, b, t, v) == [name |-> n, defined |-> d, absolute |-> FALSE, binding |-> b,
                          type |-> t, visibility |-> "Default", value |-> v]
Rela(t, s, y, a) == [type |-> t, slot |-> s, symbol |-> y, addend |-> a]
Entry(t, v) == [tag |-> t, value |-> v]
Segment(from, m, z) == [at |-> from, stored |-> z, memory |-> m, size |-> z, compressed |-> FALSE,
                        inflated |-> 0, hashed |-> FALSE, genuine |-> TRUE]
File(base, t, r, d, bss, symbols, rels, more) ==
  [recognised |-> TRUE, length |-> 1 + t + r + d, zbic |-> FALSE, bss |-> bss,
   segments |-> [k \in Parts |-> CASE k = "text" -> Segment(1, 0, t)
                                   [] k = "rodata" -> Segment(1 + t, t, r)
                                   [] OTHER -> Segment(1 + t + r, t + r, d)],
   mod0 |-> "found", base |-> base,
   dynamic |-> <<Entry("STRTAB", 2), Entry("STRSZ", 2), Entry("SYMTAB", 4), Entry("SYMENT", 1)>>
               \o more \o <<Entry("NULL", 0)>>,
   tables |-> [o \in 2 .. 5 |->
                 CASE o = 2 -> [chains |-> Len(symbols)]
                   [] o = 3 -> [first |-> 0, buckets |-> <<0>>,
                                chain |-> [i \in DOMAIN symbols |-> i = Len(symbols)]]
                   [] o = 4 -> symbols
                   [] OTHER -> rels]]

Provider(base, symbol) ==
  File(base, 2, 4, 0, 0, <<symbol>>, <<>>, <<Entry("HASH", 2), Entry("GNU_HASH", 3)>>)
Main(base, rels) ==
  File(base, 2, 7, 4, 1,
       <<Symbol("f", FALSE, "Global", "None", 0), Symbol("g", TRUE, "Global", "Function", 1)>>,
       rels, <<Entry("HASH", 2), Entry("RELA", 5), Entry("RELASZ", 4), Entry("RELAENT", 2)>>)

Relocs == {Rela("GlobDat", 9, 1, 0), Rela("JumpSlot", 10, 1, 0), Rela("JumpSlot", 10, 1, 2),
           Rela("Abs32", 10, 2, 0), Rela("Abs32", 11, 1, 0), Rela("Relative", 10, 1, 2),
           Rela("Abs64", 9, 2, 0)}
First == {Symbol("f", TRUE, b, t, 1) : b \in {"Global", "Weak", "Local"}, t \in {"Function", "Object"}}
Second == {Symbol("f", TRUE, "Global", "Function", 0), Symbol("f", TRUE, "Weak", "Object", 0),
           Symbol("h", TRUE, "Weak", "Function", 0)}

Image(b, rels, f1, f2, c, a) ==
  [kind |-> "image", complete |-> c, apply |-> a, loader |-> TRUE, start |-> 0, gap |-> 1,
   align |-> 2, stack |-> {34, 35},
   modules |-> <<Main(b[1], rels), Provider(b[2], f1), Provider(b[3], f2)>>]

Images ==
  {Image(<<b, Nowhere, Nowhere>>, <<r1, r2>>, f1, Symbol("f", TRUE, "Global", "Function", 0), TRUE, TRUE) :
     b \in {Nowhere, 0}, r1 \in Relocs, r2 \in Relocs, f1 \in First}
  \cup
  {Image(<<b1, b2, b3>>, <<r, r>>, f1, f2, c, a) :
     b1 \in {Nowhere, 2}, b2 \in {Nowhere, 10, 16}, b3 \in {Nowhere, 16},
     r \in {Rela("GlobDat", 11, 1, 0), Rela("JumpSlot", 9, 1, 2)},
     f1 \in {Symbol("f", TRUE, "Weak", t, 1) : t \in {"Function", "Object"}},
     f2 \in Second, c \in BOOLEAN, a \in BOOLEAN}

\* Plans of two or three writes over four mappings, two of which may go away.
Mapping(b, s, x, w, o) == [base |-> b, size |-> s, execute |-> x, write |-> w, owned |-> o]
Slotted == {Rela(t, s, 1, 1) : t \in {"Relative", "Abs32"}, s \in {0, 1, 4}}
Plans ==
  {[kind |-> "plan", base |-> 2, loader |-> l, externals |-> [n \in {"f"} |-> 4],
    symbols |-> <<Symbol("f", FALSE, "Weak", "None", 0), Symbol("g", TRUE, "Global", "Function", 1)>>,
    regions |-> {Mapping(0, 4, FALSE, TRUE, FALSE), Mapping(4, 2, FALSE, TRUE, TRUE),
                 Mapping(6, 2, TRUE, FALSE, FALSE), Mapping(8, 2, FALSE, TRUE, TRUE)},
    relocations |-> <<r1, r2, r3>>] :
     l \in BOOLEAN, r1 \in Slotted, r2 \in Slotted,
     r3 \in {Rela("Abs64", 4, 2, 1), Rela("None", 0, 0, 0)}}

MCImageJobs == Images \cup Plans

\* The boundary to the host: a text, a data, a write-only page and the last one.
HostPage(b, n, r, w, x) == [base |-> b, size |-> n, read |-> r, write |-> w, execute |-> x]
MCPages == {HostPage(16, 32, TRUE, FALSE, TRUE), HostPage(64, 48, TRUE, TRUE, FALSE), HostPage(112, 16, FALSE, TRUE, FALSE),
            HostPage(240, 15, TRUE, TRUE, FALSE)}
Takes(d, l, o, r) == [declared |-> d, listed |-> l, observed |-> o, returns |-> r]
MCSignatures == {Takes(1, 1, 0, "Integer"), Takes(Undeclared, 0, 10, "Unknown"),
                 Takes(9, 9, 10, "Integer"), Takes(9, 8, 9, "Integer")}
MCStackPointers == {0, 56, 80, 96, 112, 240}
Extent(b, e) == [begin |-> b, end |-> e]
Tls(x, d, z, da, za) == [executable |-> x, tdata |-> d, tbss |-> z, alignment |-> [tdata |-> da, tbss |-> za]]
MCTlsModules ==
  {Tls(Extent(16, 32), Extent(64, 72), Extent(72, 80), 8, 8),
   Tls(Extent(32, 48), Extent(80, 80), Extent(80, 96), 1, 16),
   Tls(Extent(40, 48), Extent(66, 68), Extent(96, 96), 2, 1),
   Tls(Extent(20, 24), Extent(84, 88), Extent(88, 92), 4, 4),
   Tls(Extent(16, 16), Extent(64, 64), Extent(76, 76), 1, 1),
   Tls(Extent(64, 72), Extent(16, 24), Extent(80, 88), 8, 8),
   Tls(Extent(32, 40), Extent(80, 88), Extent(84, 92), 8, 4),
   Tls(Extent(16, 24), Extent(64, 72), Extent(24, 32), 8, 8),
   Tls(Extent(32, 64), Extent(64, 68), Extent(68, 72), 4, 3)}
CompiledAt(e, b, n) == [entry |-> e, begin |-> b, end |-> n]
MCCompiled == {CompiledAt(16, 16, 24), CompiledAt(24, 24, 32), CompiledAt(28, 24, 32), CompiledAt(20, 20, 28),
               CompiledAt(36, 32, 38), CompiledAt(44, 40, 52), CompiledAt(18, 16, 20), CompiledAt(16, 16, 20),
               CompiledAt(28, 28, 30)}

------------------------------------------------------------------------------
\* The other subjects, while one is analysed.
Code0 == [a \in 0 .. 3 |-> Slot("return", 0)]

CfgAside ==
  /\ options = [entry |-> 0, known |-> {}, allowed |-> 0 .. 3, limits |-> [instructions |-> 9, blocks |-> 9, pending |-> 9]]
  /\ blocks = [b \in {} |-> {}] /\ unresolved = {} /\ calls = {} /\ count = 0
  /\ leaders = {} /\ worklist = <<>> /\ result = "running"

MapAside ==
  /\ job = [candidates |-> {}, trusted |-> {}, workers |-> 1]
  /\ phase = "aside" /\ stop = FALSE /\ published = NoMap
  /\ records = [e \in {} |-> {}]
  /\ previous = {} /\ pending = {} /\ processed = {} /\ known = {} /\ reused = {}
  /\ boundaries = {} /\ discovered = {} /\ wave = {}
  /\ checkpoint = [e \in {} |-> {}] /\ cursor = -1 /\ passes = 0 /\ consumed = 0
  /\ changed = FALSE /\ batch = [t \in {} |-> {}] /\ refinements = 0 /\ outcome = "none"

ImageAside ==
  /\ task = [kind |-> "none"] /\ words = <<>> /\ regions = {}
  /\ order = <<>> /\ turn = 0 /\ kept = <<>> /\ before = <<>>
  /\ bases = <<>> /\ bindings = <<>> /\ loading = "aside"

TranslationAside ==
  /\ block = [instructions |-> <<>>, edges |-> {}] /\ position = 1
  /\ interpreted = [status |-> "aside"] /\ compiled = interpreted /\ expected = interpreted

HostAside ==
  /\ imports = [k \in {} |-> {}] /\ modules = <<>> /\ sp = 0 /\ call = NoImport
  /\ written = FALSE /\ returned = FALSE /\ ending = "aside" /\ functions = {} /\ frozen = FALSE

StaticInit ==
  \/ /\ subject = "cfg" /\ code \in CfgPrograms
     /\ CfgInit /\ options.entry \in {0, 2} /\ options.known \in {{}, {2}}
     /\ MapAside /\ ImageAside /\ TranslationAside /\ HostAside
  \/ /\ subject = "map" /\ code \in MapPrograms
     /\ MapInit
     /\ CfgAside /\ ImageAside /\ TranslationAside /\ HostAside
  \/ /\ subject = "image" /\ code = Code0
     /\ ImageInit
     /\ CfgAside /\ MapAside /\ TranslationAside /\ HostAside
  \/ /\ subject = "translation" /\ code = Code0
     /\ TranslationInit
     /\ CfgAside /\ MapAside /\ ImageAside /\ HostAside
  \/ /\ subject \in {"imports", "functions"} /\ code = Code0
     /\ RuntimeInit
     /\ CfgAside /\ MapAside /\ ImageAside /\ TranslationAside

TailInit ==
  /\ subject = "map" /\ MapInit
  /\ CfgAside /\ ImageAside /\ TranslationAside /\ HostAside

cfgOnly == <<options, blocks, unresolved, calls, count, leaders, worklist, result>>
mapOnly == <<job, phase, stop, published, previous, build, batch, refinements, outcome>>

StaticNext ==
  /\ UNCHANGED <<subject, code>>
  /\ \/ subject = "cfg" /\ CfgNext /\ UNCHANGED <<mapOnly, image, translation, runtime>>
     \/ subject = "map" /\ MapNext /\ UNCHANGED <<cfgOnly, image, translation, runtime>>
     \/ subject = "image" /\ ImageNext /\ UNCHANGED <<cfgOnly, mapOnly, translation, runtime>>
     \/ subject = "translation" /\ TranslationNext /\ UNCHANGED <<cfgOnly, mapOnly, image, runtime>>
     \/ /\ UNCHANGED <<cfgOnly, mapOnly, image, translation>>
        /\ \/ subject = "imports" /\ ImportsNext /\ UNCHANGED functionVars
           \/ subject = "functions" /\ FunctionsNext /\ UNCHANGED importVars

allVars == <<subject, code, cfgOnly, mapOnly, image, translation, runtime>>

StaticSpec == StaticInit /\ [][StaticNext]_allVars

TailSpec == TailInit /\ [][StaticNext]_allVars
=============================================================================
