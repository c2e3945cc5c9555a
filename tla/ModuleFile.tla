----------------------------- MODULE ModuleFile -----------------------------
(***************************************************************************)
(* What src/switchrecomp/format makes of a module file: the NSO header it    *)
(* accepts, the image it materializes, and the MOD0, dynamic, symbol and     *)
(* relocation tables it reads back from the loaded image.  Sizes, offsets    *)
(* and addresses count words; the content of a table is a record found at    *)
(* the offset the file keeps it at.  A file is a record with                 *)
(*   recognised    magic, version and flag bits are the supported ones       *)
(*   length        its size                                                  *)
(*   zbic          its compressed segments are ZBIC's                        *)
(*   segments      per kind: at and stored (in the file), memory and size    *)
(*                 (in the image), compressed, inflated (what the            *)
(*                 decompressor yields), hashed, genuine (the digest agrees) *)
(*   bss           the zeroed words after data                               *)
(*   mod0          "absent", "broken" or "found"                             *)
(*   dynamic       the entries [tag, value] of the dynamic table             *)
(*   tables        the tables, by module offset                              *)
(***************************************************************************)
EXTENDS Integers, Sequences, FiniteSets, FiniteSetsExt, SequencesExt

CONSTANTS
  Radix,       \* the number of values of one word
  MaxEntries,  \* max_dynamic_entries
  MaxTable,    \* max_relocations and max_symbols
  MaxImage     \* max_total_image_size

\* A 64-bit value takes two words, and an address is such a value.
Top == Radix * Radix

ASSUME ModuleFileAssumption ==
  Radix \in Nat \ {0, 1} /\ {MaxEntries, MaxTable, MaxImage} \subseteq Nat

HeaderSize == 1
RelaSize == 2
SymbolSize == 1

\* DT_RELA, the only encoding DT_PLTREL may name.
RelaEncoding == 7

Parts == {"text", "rodata", "data"}

\* checked_add_u64 and checked_add_signed_u64: Nowhere is the overflow.
Nowhere == -1
Plus(a, b) == IF a # Nowhere /\ a + b \in 0 .. Top - 1 THEN a + b ELSE Nowhere

Span(from, size) == from .. from + size - 1

FileRange(s) == Span(s.at, s.stored)
ImageRange(s) == Span(s.memory, s.size)

BssStart(f) == f.segments["data"].memory + f.segments["data"].size

HeaderAccepted(f) ==
  /\ f.recognised
  /\ \A k \in Parts :
       LET s == f.segments[k] IN
         /\ s.at + s.stored <= f.length
         /\ s.stored # 0 => s.at >= HeaderSize
         /\ ~s.compressed => s.stored = s.size
         /\ s.memory + s.size <= Top
         /\ \A j \in Parts \ {k} :
              /\ FileRange(s) \cap FileRange(f.segments[j]) = {}
              /\ ImageRange(s) \cap ImageRange(f.segments[j]) = {}
  /\ BssStart(f) + f.bss <= Top

Materializes(f) ==
  /\ f.bss + MapThenSumSet(LAMBDA k : f.segments[k].size, Parts) <= MaxImage
  /\ \A k \in Parts :
       LET s == f.segments[k] IN
         /\ s.compressed => ~f.zbic /\ s.inflated = s.size
                            /\ (s.size = 0) = (s.stored = 0)
         /\ s.hashed => s.genuine

\* load_nso: the four mappings, of which the empty ones take no address.  Its
\* staging refuses those that meet; only text executes, only data and BSS write.
ImageRegions(f, base) ==
  LET region(from, size, x, w) == [base |-> base + from, size |-> size, execute |-> x, write |-> w]
      part(k) == region(f.segments[k].memory, f.segments[k].size, k = "text", k = "data")
  IN {r \in {part(k) : k \in Parts} \cup {region(BssStart(f), f.bss, FALSE, TRUE)} : r.size # 0}

ImageSpan(f) ==
  LET tops == {f.segments[k].memory + f.segments[k].size : k \in Parts}
  IN Max(tops \cup {BssStart(f) + f.bss})

------------------------------------------------------------------------------
(* Metadata: readable is a set of ranges of offsets, those of the mappings.   *)

Within(from, size, readable) == size = 0 \/ \E r \in readable : Span(from, size) \subseteq r

PointerTags == {"HASH", "GNU_HASH", "STRTAB", "SYMTAB", "RELA", "JMPREL", "INIT"}

\* The entries up to the terminator, which must come within the limit.
Entries(f) ==
  LET ends == {i \in DOMAIN f.dynamic : f.dynamic[i].tag = "NULL"}
      size == IF ends = {} THEN Len(f.dynamic) + 1 ELSE Min(ends)
  IN [ok |-> size <= Len(f.dynamic) /\ size <= MaxEntries,
      list |-> SubSeq(f.dynamic, 1, size - 1)]

\* The singleton tags, and nothing for those the table lacks.
Missing == -2
Dynamic(f) ==
  LET list == Entries(f).list
      at(tag) == {i \in DOMAIN list : list[i].tag = tag}
  IN [tag \in {"HASH", "GNU_HASH", "STRTAB", "STRSZ", "SYMTAB", "SYMENT", "RELA", "RELASZ",
               "RELAENT", "JMPREL", "PLTRELSZ", "PLTREL", "INIT"} |->
        IF at(tag) = {} THEN Missing ELSE list[Max(at(tag))].value]

AllOrNone(d, tags) == Cardinality({t \in tags : d[t] = Missing}) \in {0, Cardinality(tags)}

TableValid(d, pointer, size, readable) ==
  d[pointer] # Missing => /\ d[size] % RelaSize = 0
                          /\ d[size] \div RelaSize <= MaxTable
                          /\ Within(d[pointer], d[size], readable)

DynamicValid(entries, d, base, readable) ==
    /\ entries.ok
    /\ \A i, j \in DOMAIN entries.list :
         entries.list[i].tag = entries.list[j].tag /\ i # j => entries.list[i].tag = "NEEDED"
    /\ \A t \in PointerTags : d[t] # Missing => Plus(base, d[t]) # Nowhere
    /\ AllOrNone(d, {"STRTAB", "STRSZ"})
    /\ d["STRTAB"] # Missing => Within(d["STRTAB"], d["STRSZ"], readable)
    /\ \A i \in DOMAIN entries.list :
         entries.list[i].tag = "NEEDED" => entries.list[i].value \in 0 .. d["STRSZ"] - 1
    /\ AllOrNone(d, {"SYMTAB", "SYMENT"})
    /\ d["SYMENT"] \in {Missing, SymbolSize}
    /\ d["SYMTAB"] # Missing => Within(d["SYMTAB"], SymbolSize, readable)
    /\ AllOrNone(d, {"RELA", "RELASZ", "RELAENT"})
    /\ d["RELAENT"] \in {Missing, RelaSize}
    /\ TableValid(d, "RELA", "RELASZ", readable)
    /\ AllOrNone(d, {"JMPREL", "PLTRELSZ", "PLTREL"})
    /\ d["PLTREL"] \in {Missing, RelaEncoding}
    /\ TableValid(d, "JMPREL", "PLTRELSZ", readable)

\* A symbol and a relocation, as they are parsed.
SymbolEntries == [name : STRING, defined : BOOLEAN, absolute : BOOLEAN, binding : STRING,
                  type : STRING, visibility : STRING, value : 0 .. Top - 1]
Relas == [type : STRING, slot : 0 .. Top - 1, symbol : Nat, addend : Int]

\* DT_HASH gives the count; a GNU table gives it by the chain of its highest
\* bucket, walked to the word that ends it.
SysvCount(f, d) == f.tables[d["HASH"]].chains

GnuCount(f, d) ==
  LET table == f.tables[d["GNU_HASH"]]
      highest == Max(Range(table.buckets) \cup {0})
      ends == {i \in DOMAIN table.chain : table.chain[i]}
      last == {i \in ends : i - 1 >= highest - table.first}
  IN CASE table.buckets = <<>> -> Nowhere
       [] table.buckets # <<>> /\ highest < table.first -> table.first
       [] OTHER -> IF last = {} THEN Nowhere ELSE table.first + Min(last)

SymbolCount(f, d) ==
  CASE d["HASH"] = Missing /\ d["GNU_HASH"] = Missing -> Nowhere
    [] d["HASH"] = Missing /\ d["GNU_HASH"] # Missing -> GnuCount(f, d)
    [] d["HASH"] # Missing /\ d["GNU_HASH"] = Missing -> SysvCount(f, d)
    [] OTHER -> IF SysvCount(f, d) = GnuCount(f, d) THEN SysvCount(f, d) ELSE Nowhere

\* DynamicSymbolTable::parse: the symbols, each with a name in the string table.
SymbolsValid(d, count, readable) ==
  d["SYMTAB"] # Missing => /\ d["STRTAB"] # Missing
                           /\ count \in 0 .. MaxTable
                           /\ Within(d["SYMTAB"], count * SymbolSize, readable)

SymbolTable(f, d) ==
  IF f.mod0 # "found" \/ d["SYMTAB"] = Missing THEN <<>>
  ELSE SubSeq(f.tables[d["SYMTAB"]], 1, SymbolCount(f, d))
Symbols(f) == SymbolTable(f, Dynamic(f))

\* The RELA table and then JMPREL's, their slots moved to the module's base.
RelaTables(f, d) ==
  LET table(pointer, size) ==
        IF f.mod0 # "found" \/ d[pointer] = Missing THEN <<>>
        ELSE SubSeq(f.tables[d[pointer]], 1, d[size] \div RelaSize)
  IN table("RELA", "RELASZ") \o table("JMPREL", "PLTRELSZ")
Moved(entries, base) == [i \in DOMAIN entries |-> [entries[i] EXCEPT !.slot = Plus(base, @)]]
RelaEntries(f, base) == Moved(RelaTables(f, Dynamic(f)), base)

TablesValid(f, d, base, readable) ==
  /\ DynamicValid(Entries(f), d, base, readable)
  /\ SymbolsValid(d, SymbolCount(f, d), readable)
  /\ \A r \in Range(RelaEntries(f, base)) : r.slot # Nowhere
  /\ RelaEntries(f, base) # <<>> => d["SYMTAB"] # Missing

MetadataValid(f, base, readable) ==
  /\ f.mod0 # "broken"
  /\ f.mod0 = "found" => TablesValid(f, Dynamic(f), base, readable)
=============================================================================
