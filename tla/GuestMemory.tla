---------------------------- MODULE GuestMemory ----------------------------
(***************************************************************************)
(* GuestMemory (memory/guest_memory.cpp): mappings of a 64-bit guest        *)
(* address space, the limits and counters kept on them, mappings owned      *)
(* through a token, and the transactional load of an NSO image into it      *)
(* (loader/nso_guest_loader.cpp).                                           *)
(*                                                                         *)
(* regions_ is a vector kept sorted by base address; it is the set of its   *)
(* elements here, and lower_bound the least element at or above a base.     *)
(* The contents of the mappings are left to AtomicMemory; the counters that *)
(* only feed reports are left out.                                          *)
(***************************************************************************)
EXTENDS Integers, Sequences, FiniteSets

CONSTANTS
  Memories,       \* the GuestMemory objects of the process
  MaxAddr,        \* the largest address and size (2^64 - 1 in the code)
  MaxRegionSize,  \* limits_.max_region_size
  MaxTotal,       \* limits_.max_total_size
  MaxRegions,     \* limits_.max_regions
  Images,         \* the NSO images, a sequence of sequences of segments
  MaxDomains      \* bound of the model on the ownership domains created

Addr == 0 .. MaxAddr

Segments == [base : Addr, size : Addr]

ASSUME MemoryAssumption ==
  /\ IsFiniteSet(Memories)
  /\ MaxAddr \in Nat
  /\ MaxRegionSize \in Addr
  /\ MaxTotal \in Addr
  /\ MaxRegions \in Nat
  /\ Images \in Seq(Seq(Segments))
  /\ MaxDomains \in Nat

VARIABLES
  mem,     \* the GuestMemory objects
  issued,  \* history: every token ever handed out; holders may keep copies
  held,    \* history: the tokens of those that were not released yet
  loading, \* the load_nso call each object is in, if any
  domains, \* how many ownership domains were created
  ids      \* how many mapping identities were created

vars == <<mem, issued, held, loading, domains, ids>>

-----------------------------------------------------------------------------
(* Mappings. *)

\* owner is the identity of an owned mapping, 0 for a static one; image the NSO
\* image it was loaded from, 0 for none.
Region(b, s, owner, image) == [base |-> b, size |-> s, owner |-> owner, image |-> image]

End(r) == r.base + r.size

Contains(r, a) == r.base <= a /\ a < End(r)

Overlaps(r, b, s) == r.base < b + s /\ b < End(r)

\* lower_bound, and the element before it.
AtOrAbove(R, b) == {r \in R : r.base >= b /\ \A q \in R : q.base >= b => r.base <= q.base}
Below(R, b)     == {r \in R : r.base < b /\ \A q \in R : q.base < b => q.base <= r.base}

\* Mutants: the mapping below is forgotten; adjacent mappings are refused.
NeighbourAboveClear(R, b, s) == \A r \in AtOrAbove(R, b) : r.base >= b + s

NeighboursApart(R, b, s) ==
  /\ \A r \in AtOrAbove(R, b) : r.base > b + s
  /\ \A r \in Below(R, b) : End(r) <= b

\* map_bytes compares a new range with these two neighbours only.
NeighboursClear(R, b, s) ==
  /\ \A r \in AtOrAbove(R, b) : r.base >= b + s
  /\ \A r \in Below(R, b) : End(r) <= b

\* find_region: the mapping that starts at a, or the one before if it reaches a.
FindRegion(R, a) ==
  LET at == {r \in AtOrAbove(R, a) : r.base = a}
  IN IF at # {} THEN at ELSE {r \in Below(R, a) : a < End(r)}

-----------------------------------------------------------------------------
(* map_bytes and release_owned. *)

\* A fresh GuestMemory.
Empty(d) ==
  [regions |-> {}, domain |-> d, total |-> 0, peak |-> 0, cumulative |-> 0,
   created |-> 0, reclaimed |-> 0, live |-> 0, liveSize |-> 0, highWater |-> 0]

\* Mutant: the end of the range may wrap.
CanMapWrapping(m, b, s) ==
  /\ s <= MaxRegionSize
  /\ m.total + s <= MaxTotal
  /\ Cardinality(m.regions) + 1 <= MaxRegions
  /\ m.cumulative + s <= MaxAddr
  /\ NeighboursClear(m.regions, b, s)

\* The checks of map_bytes on a non-empty range; the first that fails names the error.
CanMap(m, b, s) ==
  /\ s <= MaxRegionSize
  /\ b + s <= MaxAddr
  /\ m.total + s <= MaxTotal
  /\ Cardinality(m.regions) + 1 <= MaxRegions
  /\ m.cumulative + s <= MaxAddr
  /\ NeighboursClear(m.regions, b, s)

Larger(x, y) == IF x < y THEN y ELSE x

\* m after a successful map_bytes.
Mapped(m, b, s, owner, image) ==
  LET new == IF owner = 0 THEN 0 ELSE 1
      newSize == IF owner = 0 THEN 0 ELSE s
  IN
  [m EXCEPT !.regions = @ \cup {Region(b, s, owner, image)},
            !.total = @ + s,
            !.peak = Larger(@, m.total + s),
            !.cumulative = @ + s,
            !.highWater = Larger(@, b + s),
            !.created = @ + new,
            !.live = @ + new,
            !.liveSize = @ + newSize]

Token(d, id, b, s) == [domain |-> d, id |-> id, base |-> b, size |-> s]

\* What map_owned returns for an empty range.
EmptyToken == Token(0, 0, 0, 0)

\* Mutant: the mapping's place is enough.
NamedByPlace(m, token) ==
  {r \in AtOrAbove(m.regions, token.base) :
     /\ token.domain # 0 /\ token.id # 0
     /\ token.domain = m.domain
     /\ r.base = token.base /\ r.size = token.size
     /\ r.owner # 0}

\* The mapping a token names in m, with the counters release_owned checks.
Named(m, token) ==
  {r \in AtOrAbove(m.regions, token.base) :
     /\ token.domain # 0 /\ token.id # 0
     /\ token.domain = m.domain
     /\ r.base = token.base /\ r.size = token.size
     /\ r.owner # 0 /\ r.owner = token.id}

CanRelease(m, token) ==
  \E r \in Named(m, token) :
    /\ m.total >= r.size /\ m.liveSize >= r.size
    /\ m.regions # {} /\ m.live >= 1
    /\ m.reclaimed + 1 <= m.created

\* Mutant: the size of live owned mappings is not reduced.
ReleasedPartly(m, token) ==
  [m EXCEPT !.regions = @ \ Named(m, token),
            !.total = @ - token.size,
            !.live = @ - 1,
            !.reclaimed = @ + 1]

Released(m, token) ==
  [m EXCEPT !.regions = @ \ Named(m, token),
            !.total = @ - token.size,
            !.liveSize = @ - token.size,
            !.live = @ - 1,
            !.reclaimed = @ + 1]

-----------------------------------------------------------------------------
(* load_nso. *)

\* A call of load_nso: the staged copy and the segment to map next.
Load(image, staged) == [image |-> image, next |-> 1, staged |-> staged]

NoLoad == [image |-> 0, next |-> 0, staged |-> Empty(0)]

Idle(o) == loading[o].image = 0

\* Mutant: any memory may be copied.
CanCopyAny(m) == TRUE

\* The copy that stages a load belongs to a new domain; copying a memory with
\* live owned mappings throws.
CanCopy(m) == m.live = 0 /\ m.liveSize = 0

-----------------------------------------------------------------------------

Init ==
  /\ \E d \in [Memories -> 1 .. Cardinality(Memories)] :
       /\ \A o, p \in Memories : o # p => d[o] # d[p]
       /\ mem = [o \in Memories |-> Empty(d[o])]
  /\ issued = {}
  /\ held = {}
  /\ loading = [o \in Memories |-> NoLoad]
  /\ domains = Cardinality(Memories)
  /\ ids = 0

\* A call that is refused changes nothing, nor does one that maps an empty range.
Refuse == UNCHANGED vars

Map(o, b, s) ==
  /\ Idle(o)
  /\ IF s > 0 /\ CanMap(mem[o], b, s)
     THEN /\ mem' = [mem EXCEPT ![o] = Mapped(@, b, s, 0, 0)]
          /\ UNCHANGED <<issued, held, loading, domains, ids>>
     ELSE Refuse

\* Each owned mapping has an identity of its own; the one made for a range that
\* is then refused dies with the call.
MapOwned(o, b, s) ==
  /\ Idle(o)
  /\ IF s > 0 /\ CanMap(mem[o], b, s)
     THEN LET token == Token(mem[o].domain, ids + 1, b, s) IN
          /\ mem' = [mem EXCEPT ![o] = Mapped(@, b, s, ids + 1, 0)]
          /\ issued' = issued \cup {token}
          /\ held' = held \cup {token}
          /\ ids' = ids + 1
          /\ UNCHANGED <<loading, domains>>
     ELSE Refuse

\* Any token may be presented to any memory: a held one, a copy of one already
\* released, one of another memory.
Release(o, token) ==
  /\ Idle(o)
  /\ IF CanRelease(mem[o], token)
     THEN /\ mem' = [mem EXCEPT ![o] = Released(@, token)]
          /\ held' = held \ {token}
          /\ UNCHANGED <<issued, loading, domains, ids>>
     ELSE Refuse

\* load_nso works on a copy of the memory, which its caller keeps to itself ...
BeginLoad(o, image) ==
  /\ Idle(o)
  /\ domains < MaxDomains
  /\ IF CanCopy(mem[o])
     THEN /\ loading' = [loading EXCEPT ![o] =
                          Load(image, [mem[o] EXCEPT !.domain = domains + 1])]
          /\ domains' = domains + 1
          /\ UNCHANGED <<mem, issued, held, ids>>
     ELSE Refuse

\* ... maps the segments one by one and gives up at the first that does not fit ...
LoadSegment(o) ==
  LET load == loading[o]
      segment == Images[load.image][load.next]
  IN
  /\ ~ Idle(o)
  /\ load.next <= Len(Images[load.image])
  /\ loading' = [loading EXCEPT ![o] =
       IF segment.size = 0 THEN [load EXCEPT !.next = @ + 1]
       ELSE IF CanMap(load.staged, segment.base, segment.size)
            THEN [load EXCEPT !.next = @ + 1,
                    !.staged = Mapped(@, segment.base, segment.size, 0, load.image)]
            ELSE NoLoad]
  /\ UNCHANGED <<mem, issued, held, domains, ids>>

\* ... or when the host runs out of memory ...
LoadRunsOut(o) ==
  /\ ~ Idle(o)
  /\ loading' = [loading EXCEPT ![o] = NoLoad]
  /\ UNCHANGED <<mem, issued, held, domains, ids>>

\* Mutant: what was mapped before a failure is kept.
CommitPart(o) ==
  /\ ~ Idle(o)
  /\ mem' = [mem EXCEPT ![o] = loading[o].staged]
  /\ loading' = [loading EXCEPT ![o] = NoLoad]
  /\ UNCHANGED <<issued, held, domains, ids>>

\* ... and replaces the memory once every segment is mapped.
CommitLoad(o) ==
  /\ ~ Idle(o)
  /\ loading[o].next > Len(Images[loading[o].image])
  /\ mem' = [mem EXCEPT ![o] = loading[o].staged]
  /\ loading' = [loading EXCEPT ![o] = NoLoad]
  /\ UNCHANGED <<issued, held, domains, ids>>

Next ==
  \E o \in Memories :
    \/ \E b \in Addr, s \in Addr : Map(o, b, s) \/ MapOwned(o, b, s)
    \/ \E token \in issued \cup {EmptyToken} : Release(o, token)
    \/ \E image \in 1 .. Len(Images) : BeginLoad(o, image)
    \/ LoadSegment(o)
    \/ LoadRunsOut(o)
    \/ CommitLoad(o)

Spec == Init /\ [][Next]_vars

-----------------------------------------------------------------------------
(* Properties. *)

Regions == [base : Addr, size : Addr, owner : Nat, image : 0 .. Len(Images)]

MemoryType ==
  [regions : SUBSET Regions, domain : Nat, total : Nat, peak : Nat, cumulative : Nat,
   created : Nat, reclaimed : Nat, live : Nat, liveSize : Nat, highWater : Addr]

Tokens == [domain : Nat, id : Nat, base : Addr, size : Addr]

TypeOK ==
  /\ mem \in [Memories -> MemoryType]
  /\ issued \subseteq Tokens
  /\ held \subseteq issued
  /\ loading \in [Memories -> [image : 0 .. Len(Images), next : Nat, staged : MemoryType]]
  /\ domains \in Nat
  /\ ids \in Nat

\* No two mappings of a memory overlap, none is empty and none wraps.
MappingsDisjoint ==
  \A o \in Memories : LET R == mem[o].regions IN
    /\ \A r \in R : r.size > 0 /\ End(r) <= MaxAddr
    /\ \A p, q \in R : p # q => End(p) <= q.base \/ End(q) <= p.base

\* Comparing a new range with its two neighbours finds an overlap exactly when
\* there is one with some mapping.
NeighboursSuffice ==
  \A o \in Memories, b \in Addr : \A s \in 1 .. MaxAddr - b :
    NeighboursClear(mem[o].regions, b, s)
      <=> \A r \in mem[o].regions : ~ Overlaps(r, b, s)

\* find_region finds the mapping that contains an address, and only that one.
FindRegionExact ==
  \A o \in Memories, a \in Addr :
    FindRegion(mem[o].regions, a) = {r \in mem[o].regions : Contains(r, a)}

\* The addresses mapped; there are as many as the mappings have bytes together.
AddressesOf(R) == {a \in Addr : \E r \in R : Contains(r, a)}

Owned(R) == {r \in R : r.owner # 0}

\* The counters are those of the mappings, through every refusal, release and load.
AccountingExact ==
  \A o \in Memories : LET m == mem[o] IN
    /\ m.total = Cardinality(AddressesOf(m.regions))
    /\ m.liveSize = Cardinality(AddressesOf(Owned(m.regions)))
    /\ m.live = Cardinality(Owned(m.regions))
    /\ m.live = m.created - m.reclaimed
    /\ m.total <= m.peak /\ m.peak <= m.cumulative
    /\ \A r \in m.regions : End(r) <= m.highWater

\* A token its holder has not released yet is good for its memory: nothing the
\* other users of the memory do, a load included, can make its release fail.
\* A session that could not release its stack would terminate the process.
HeldTokenReleasable ==
  \A token \in held : \E o \in Memories : CanRelease(mem[o], token)

\* A mapping goes away only by the release of the token handed out for it, which
\* is held until then and works once, and takes nothing else with it.
OnlyTheHolderReleases ==
  [][\A o \in Memories : ~ (mem[o].regions \subseteq mem'[o].regions) =>
       \E token \in held :
         /\ token \notin held'
         /\ mem[o].regions \ mem'[o].regions = Named(mem[o], token)
         /\ mem'[o].regions \subseteq mem[o].regions
         /\ \A p \in Memories \ {o} : mem'[p] = mem[p]]_vars

\* The mappings of an image in R, and those of its segments before the n-th.
OfImage(R, i) == {r \in R : r.image = i}

Parts(i, n) ==
  {Region(Images[i][k].base, Images[i][k].size, 0, i) :
     k \in {j \in 1 .. Len(Images[i]) : j < n /\ Images[i][j].size > 0}}

\* The segments of an image are all mapped or none is.
NoPartialImage ==
  \A o \in Memories, i \in 1 .. Len(Images) :
    OfImage(mem[o].regions, i) \in {{}, Parts(i, Len(Images[i]) + 1)}

\* Who uses each address: a mapping is used through its token, by the image it
\* was loaded from, or by whoever knows it.
UsersOf(R) == [a \in Addr |-> {<<r.owner, r.image>> : r \in {q \in R : Contains(q, a)}}]

Users == [o \in Memories |-> UsersOf(mem[o].regions)]

InForce == {token.id : token \in held}

Space == INSTANCE AddressSpace WITH users <- Users, leased <- InForce, given <- ids

\* Everything done to the memories is a reservation of unused addresses, a lease
\* of some, the return of one by its holder, or an image installed whole: no call,
\* however it is refused or fails, takes an address from its user.
ImplementsAddressSpace == Space!Spec

=============================================================================
