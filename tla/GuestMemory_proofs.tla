------------------------- MODULE GuestMemory_proofs -------------------------
(***************************************************************************)
(* Proofs about GuestMemory: the mappings of a memory are disjoint and       *)
(* exactly accounted for, two neighbours decide every overlap, a token stays *)
(* good until its holder gives it back, and the whole implements an          *)
(* AddressSpace.                                                             *)
(***************************************************************************)
EXTENDS GuestMemory, FiniteSetTheorems, WellFoundedInduction, TLAPS

-----------------------------------------------------------------------------
(* Least and greatest elements. *)

\* A nonempty family of finite sets has a minimal member.
LEMMA FamilyMin ==
  ASSUME NEW F \in SUBSET SUBSET Nat, F # {}, \A s \in F : IsFiniteSet(s)
  PROVE  \E s \in F : \A r \in F : r \subseteq s => r = s
<1>1. F \subseteq FiniteSubsetsOf(Nat)
  BY DEF FiniteSubsetsOf
<1>2. PICK s \in F : \A r \in F : ~ (<<r, s>> \in StrictSubsetOrdering(Nat))
  BY <1>1, WFMin, FS_StrictSubsetOrderingWellFounded
<1>3. ASSUME NEW r \in F, r \subseteq s, r # s PROVE FALSE
  <2>1. <<r, s>> \in (SUBSET Nat) \X (SUBSET Nat)
    OBVIOUS
  <2> QED BY <1>2, <1>3, <2>1 DEF StrictSubsetOrdering
<1> QED BY <1>3

\* A nonempty set of naturals has a least element.
LEMMA LeastExists ==
  ASSUME NEW T \in SUBSET Nat, T # {}
  PROVE  \E x \in T : \A y \in T : x <= y
<1> DEFINE F == {0 .. x : x \in T}
<1>1. \A s \in F : IsFiniteSet(s) /\ s \in SUBSET Nat
  <2>1. \A x \in T : IsFiniteSet(0 .. x) /\ 0 .. x \in SUBSET Nat
    BY FS_Interval
  <2> QED BY <2>1
<1>2. F # {}
  OBVIOUS
<1>3. PICK s \in F : \A r \in F : r \subseteq s => r = s
  <2> HIDE DEF F
  <2> QED BY <1>1, <1>2, FamilyMin
<1>4. PICK x \in T : s = 0 .. x
  BY <1>3
<1>5. ASSUME NEW y \in T, y < x PROVE FALSE
  <2>1. 0 .. y \subseteq 0 .. x
    BY <1>5
  <2>2. x \in 0 .. x /\ x \notin 0 .. y
    BY <1>5
  <2> QED BY <1>3, <1>4, <2>1, <2>2
<1> QED BY <1>5

\* A nonempty bounded set of naturals has a greatest element.
LEMMA GreatestExists ==
  ASSUME NEW n \in Nat, NEW T \in SUBSET (0 .. n), T # {}
  PROVE  \E x \in T : \A y \in T : y <= x
<1> DEFINE F == {x .. n : x \in T}
<1>1. \A s \in F : IsFiniteSet(s) /\ s \in SUBSET Nat
  <2>1. \A x \in T : IsFiniteSet(x .. n) /\ x .. n \in SUBSET Nat
    BY FS_Interval
  <2> QED BY <2>1
<1>2. F # {}
  OBVIOUS
<1>3. PICK s \in F : \A r \in F : r \subseteq s => r = s
  <2> HIDE DEF F
  <2> QED BY <1>1, <1>2, FamilyMin
<1>4. PICK x \in T : s = x .. n
  BY <1>3
<1>5. ASSUME NEW y \in T, x < y PROVE FALSE
  <2>1. y .. n \subseteq x .. n
    BY <1>5
  <2>2. x \in x .. n /\ x \notin y .. n
    BY <1>5
  <2> QED BY <1>3, <1>4, <2>1, <2>2
<1> QED BY <1>5

-----------------------------------------------------------------------------
(* Sets of mappings. *)

\* The part of the assumptions most steps need.
LEMMA MaxAddrNat == MaxAddr \in Nat
  BY MemoryAssumption

Disjoint(R) == \A p, q \in R : p # q => End(p) <= q.base \/ End(q) <= p.base

\* Mappings as map_bytes leaves them.
Proper(R) ==
  /\ R \in SUBSET Regions
  /\ IsFiniteSet(R)
  /\ \A r \in R : r.size > 0 /\ End(r) <= MaxAddr /\ (r.owner # 0 => r.image = 0)
  /\ Disjoint(R)

\* The least mapping at or above an address exists if there is one at all.
LEMMA AtOrAboveExists ==
  ASSUME NEW R \in SUBSET Regions, NEW b \in Addr, NEW r \in R, r.base >= b
  PROVE  \E q \in AtOrAbove(R, b) : q.base <= r.base
<1> DEFINE T == {q.base : q \in {p \in R : p.base >= b}}
<1>1. T \in SUBSET Nat /\ T # {}
  <2>1. \A q \in R : q.base \in Nat
    BY DEF Regions, Addr
  <2> QED BY <2>1
<1>2. PICK x \in T : \A y \in T : x <= y
  <2> HIDE DEF T
  <2> QED BY <1>1, LeastExists
<1>3. PICK q \in R : q.base >= b /\ x = q.base
  OBVIOUS
<1>4. \A p \in R : p.base >= b => q.base <= p.base
  BY <1>2, <1>3
<1> QED BY <1>3, <1>4 DEF AtOrAbove

\* ... and so does the greatest below it.
LEMMA BelowExists ==
  ASSUME NEW R \in SUBSET Regions, NEW b \in Addr, NEW r \in R, r.base < b
  PROVE  \E q \in Below(R, b) : r.base <= q.base
<1> DEFINE T == {q.base : q \in {p \in R : p.base < b}}
<1>1. T \in SUBSET (0 .. MaxAddr) /\ T # {}
  BY DEF Regions, Addr
<1>2. PICK x \in T : \A y \in T : y <= x
  <2> HIDE DEF T
  <2> QED BY <1>1, GreatestExists, MaxAddrNat
<1>3. PICK q \in R : q.base < b /\ x = q.base
  OBVIOUS
<1>4. \A p \in R : p.base < b => p.base <= q.base
  BY <1>2, <1>3
<1> QED BY <1>3, <1>4 DEF Below

\* Two neighbours decide every overlap.
LEMMA NeighboursDecide ==
  ASSUME NEW R, Proper(R), NEW b \in Addr, NEW s \in Addr, s > 0
  PROVE  NeighboursClear(R, b, s) <=> \A r \in R : ~ Overlaps(r, b, s)
<1> USE MaxAddrNat
<1>0. \A r \in R : r \in Regions /\ r.base \in Nat /\ r.size \in Nat
  BY DEF Proper, Regions, Addr
<1>1. ASSUME NeighboursClear(R, b, s), NEW r \in R, Overlaps(r, b, s) PROVE FALSE
  <2>1. CASE r.base >= b
    <3>1. PICK q \in AtOrAbove(R, b) : q.base <= r.base
      BY <2>1, AtOrAboveExists DEF Proper
    <3> QED BY <1>0, <1>1, <3>1 DEF NeighboursClear, Overlaps, AtOrAbove, Addr
  <2>2. CASE r.base < b
    <3>1. PICK q \in Below(R, b) : r.base <= q.base
      BY <2>2, BelowExists DEF Proper
    <3>2. q \in R /\ q.base < b /\ End(q) <= b
      BY <1>1, <3>1 DEF NeighboursClear, Below
    <3>3. b < r.base + r.size /\ q.base + q.size <= b
      BY <1>1, <3>2 DEF Overlaps, End
    <3>4. r # q
      <4>1. r.base + r.size \in Nat /\ b \in Nat
        BY <1>0 DEF Addr
      <4> QED BY <3>3, <4>1
    <3>5. r.base + r.size <= q.base \/ q.base + q.size <= r.base
      BY <3>2, <3>4 DEF Proper, Disjoint, End
    <3>6. q.size > 0 /\ b \in Nat
      BY <3>2 DEF Proper, Addr
    <3> QED BY <1>0, <3>1, <3>2, <3>3, <3>5, <3>6
  <2> QED BY <1>0, <2>1, <2>2 DEF Addr
<1>2. ASSUME \A r \in R : ~ Overlaps(r, b, s) PROVE NeighboursClear(R, b, s)
  BY <1>0, <1>2 DEF NeighboursClear, AtOrAbove, Below, Overlaps, End, Addr, Proper
<1> QED BY <1>1, <1>2

\* find_region finds the mapping that contains an address, and only that one.
LEMMA FindExact ==
  ASSUME NEW R, Proper(R), NEW a \in Addr
  PROVE  FindRegion(R, a) = {r \in R : Contains(r, a)}
<1> USE MaxAddrNat
<1>0. \A r \in R : r \in Regions /\ r.base \in Nat /\ r.size \in Nat /\ r.size > 0
  BY DEF Proper, Regions, Addr
<1>a. \A p, q \in R : p # q => p.base + p.size <= q.base \/ q.base + q.size <= p.base
  BY DEF Proper, Disjoint, End
<1> DEFINE at == {r \in AtOrAbove(R, a) : r.base = a}
<1>1. CASE at # {}
  <2>1. PICK r \in R : r.base = a /\ r \in at
    BY <1>1 DEF AtOrAbove
  <2>2. \A q \in R : Contains(q, a) => q = r
    BY <1>0, <1>a, <2>1 DEF Contains, End, Addr
  <2>3. Contains(r, a)
    BY <1>0, <2>1 DEF Contains, End, Addr
  <2>4. \A q \in at : q \in R /\ Contains(q, a)
    BY <1>0 DEF AtOrAbove, Contains, End, Addr
  <2>5. FindRegion(R, a) = at
    BY <1>1 DEF FindRegion
  <2> QED BY <2>1, <2>2, <2>3, <2>4, <2>5
<1>2. CASE at = {}
  <2>1. FindRegion(R, a) = {r \in Below(R, a) : a < End(r)}
    BY <1>2 DEF FindRegion
  <2>2. \A r \in R : r.base # a
    <3> SUFFICES ASSUME NEW r \in R, r.base = a PROVE FALSE
      OBVIOUS
    <3>1. r \in AtOrAbove(R, a)
      BY <1>0 DEF AtOrAbove, Addr
    <3> QED BY <1>2, <3>1
  <2>3. ASSUME NEW r \in R, Contains(r, a) PROVE r \in Below(R, a) /\ a < End(r)
    <3>1. r.base < a /\ a < r.base + r.size
      BY <1>0, <2>2, <2>3 DEF Contains, End, Addr
    <3>2. \A q \in R : q.base < a => q.base <= r.base
      BY <1>0, <1>a, <3>1 DEF Addr
    <3> QED BY <3>1, <3>2 DEF Below, End
  <2>4. \A r \in Below(R, a) : a < End(r) => r \in R /\ Contains(r, a)
    BY <1>0 DEF Below, Contains, Addr
  <2> QED BY <2>1, <2>3, <2>4
<1> QED BY <1>1, <1>2

-----------------------------------------------------------------------------
(* The bytes mapped. *)

\* A new mapping adds its bytes to those mapped, and one more mapping.
LEMMA AddressesAdd ==
  ASSUME NEW R, Proper(R), NEW r \in Regions, Proper(R \cup {r}), r \notin R
  PROVE  /\ Cardinality(AddressesOf(R)) \in Nat
         /\ Cardinality(AddressesOf(R \cup {r})) = Cardinality(AddressesOf(R)) + r.size
<1> USE MaxAddrNat
<1> DEFINE I == r.base .. (r.base + r.size - 1)
<1>1. r.base \in Nat /\ r.size \in Nat /\ r.size > 0 /\ r.base + r.size <= MaxAddr
  BY DEF Regions, Proper, End, Addr
<1>2. IsFiniteSet(I) /\ Cardinality(I) = r.size
  <2>1. r.base \in Int /\ r.base + r.size - 1 \in Int
    BY <1>1
  <2>2. IsFiniteSet(I) /\ Cardinality(I) =
          IF r.base > r.base + r.size - 1 THEN 0 ELSE (r.base + r.size - 1) - r.base + 1
    BY <2>1, FS_Interval
  <2> QED BY <1>1, <2>2
<1>3. IsFiniteSet(AddressesOf(R))
  <2>1. IsFiniteSet(Addr)
    BY FS_Interval DEF Addr
  <2>2. AddressesOf(R) \in SUBSET Addr
    BY DEF AddressesOf
  <2> QED BY <2>1, <2>2, FS_Subset
<1>4. AddressesOf(R \cup {r}) = AddressesOf(R) \cup I
  <2>1. \A a \in Addr : Contains(r, a) <=> a \in I
    BY <1>1 DEF Contains, End, Addr
  <2>2. I \subseteq Addr
    BY <1>1 DEF Addr
  <2> HIDE DEF I
  <2> QED BY <2>1, <2>2 DEF AddressesOf
<1>5. AddressesOf(R) \cap I = {}
  <2> SUFFICES ASSUME NEW a \in Addr, NEW q \in R, Contains(q, a), a \in I PROVE FALSE
    BY DEF AddressesOf
  <2>1. q # r
    OBVIOUS
  <2>2. q.base + q.size <= r.base \/ r.base + r.size <= q.base
    BY <2>1 DEF Proper, Disjoint, End
  <2>3. q.base \in Nat /\ q.size \in Nat
    BY DEF Proper, Regions, Addr
  <2>4. q.base <= a /\ a < q.base + q.size
    BY DEF Contains, End
  <2> QED BY <1>1, <2>2, <2>3, <2>4 DEF Addr
<1>6. Cardinality(AddressesOf(R)) \in Nat
  BY <1>3, FS_CardinalityType
<1> HIDE DEF I
<1>7. Cardinality(AddressesOf(R) \cup I) =
        Cardinality(AddressesOf(R)) + Cardinality(I) - Cardinality(AddressesOf(R) \cap I)
  BY <1>2, <1>3, FS_Union
<1>8. Cardinality(AddressesOf(R) \cap I) = 0
  BY <1>5, FS_EmptySet
<1>9. Cardinality(AddressesOf(R \cup {r})) = Cardinality(AddressesOf(R) \cup I)
  BY <1>4
<1> QED BY <1>1, <1>2, <1>6, <1>7, <1>8, <1>9

\* Taking a mapping away takes its bytes away.
LEMMA AddressesRemove ==
  ASSUME NEW R, Proper(R), NEW r \in R
  PROVE  /\ Proper(R \ {r})
         /\ Cardinality(AddressesOf(R \ {r})) \in Nat
         /\ Cardinality(AddressesOf(R)) = Cardinality(AddressesOf(R \ {r})) + r.size
<1>1. Proper(R \ {r})
  BY FS_RemoveElement DEF Proper, Disjoint
<1>2. (R \ {r}) \cup {r} = R /\ r \in Regions /\ r \notin R \ {r}
  BY DEF Proper
<1> QED BY <1>1, <1>2, AddressesAdd

\* The owned mappings are proper on their own.
LEMMA OwnedProper ==
  ASSUME NEW R, Proper(R)
  PROVE  Proper(Owned(R))
<1>1. Owned(R) \in SUBSET R
  BY DEF Owned
<1> QED BY <1>1, FS_Subset DEF Proper, Disjoint

-----------------------------------------------------------------------------
(* One memory. *)

\* A memory between two calls.
Good(m) ==
  /\ m \in MemoryType
  /\ Proper(m.regions)
  /\ m.total = Cardinality(AddressesOf(m.regions))
  /\ m.liveSize = Cardinality(AddressesOf(Owned(m.regions)))
  /\ m.live = Cardinality(Owned(m.regions))
  /\ m.live = m.created - m.reclaimed
  /\ m.total <= m.peak /\ m.peak <= m.cumulative
  /\ \A r \in m.regions : End(r) <= m.highWater

\* The fields release_owned assigns.
LEMMA ReleaseType ==
  ASSUME NEW m \in MemoryType, NEW R \in SUBSET Regions, NEW total \in Nat,
         NEW liveSize \in Nat, NEW live \in Nat, NEW reclaimed \in Nat
  PROVE  [m EXCEPT !.regions = R, !.total = total, !.liveSize = liveSize, !.live = live,
            !.reclaimed = reclaimed] \in MemoryType
  BY DEF MemoryType

\* map_bytes keeps a memory good.
LEMMA MapGood ==
  ASSUME NEW m, Good(m), NEW b \in Addr, NEW s \in Addr, s > 0, CanMap(m, b, s),
         NEW owner \in Nat, NEW image \in 0 .. Len(Images), owner # 0 => image = 0
  PROVE  /\ Good(Mapped(m, b, s, owner, image))
         /\ Mapped(m, b, s, owner, image).regions = m.regions \cup {Region(b, s, owner, image)}
         /\ Mapped(m, b, s, owner, image).domain = m.domain
         /\ owner = 0 => /\ Mapped(m, b, s, owner, image).live = m.live
                         /\ Mapped(m, b, s, owner, image).liveSize = m.liveSize
<1> USE MaxAddrNat
<1> DEFINE r == Region(b, s, owner, image)
           n == Mapped(m, b, s, owner, image)
           new == IF owner = 0 THEN 0 ELSE 1
           newSize == IF owner = 0 THEN 0 ELSE s
<1>1. r \in Regions /\ r.base = b /\ r.size = s /\ r.owner = owner /\ r.image = image
  BY DEF Region, Regions
<1>2. m \in MemoryType /\ b \in Nat /\ s \in Nat /\ b + s <= MaxAddr
  BY DEF Good, CanMap, Addr
<1>3. \A q \in m.regions : End(q) <= b \/ b + s <= q.base
  <2>1. \A q \in m.regions : ~ Overlaps(q, b, s)
    BY NeighboursDecide DEF CanMap, Good
  <2> SUFFICES ASSUME NEW q \in m.regions
               PROVE  q.base + q.size <= b \/ b + s <= q.base
    BY DEF End
  <2>2. q.base \in Nat /\ q.size \in Nat
    BY DEF Good, Proper, Regions, Addr
  <2>3. ~ (q.base < b + s /\ b < q.base + q.size)
    BY <2>1 DEF Overlaps, End
  <2> QED BY <1>2, <2>2, <2>3
<1>4. \A q \in m.regions : q.base # b
  <2>1. Proper(m.regions)
    BY DEF Good
  <2>2. \A q \in m.regions : q.base \in Nat /\ q.size \in Nat /\ q.size > 0
    <3> HIDE DEF r, n, new, newSize
    <3> QED BY <2>1 DEF Regions, Addr, Proper
  <2> SUFFICES ASSUME NEW q \in m.regions, q.base = b
               PROVE  FALSE
    OBVIOUS
  <2>3. q.base + q.size <= b \/ b + s <= q.base
    BY <1>3 DEF End
  <2>4. q.base \in Nat /\ q.size \in Nat /\ q.size > 0
    BY <2>2
  <2> HIDE DEF r, n, new, newSize
  <2> QED BY <1>2, <2>3, <2>4
<1>5. r \notin m.regions
  BY <1>1, <1>4
<1>6. Proper(m.regions \cup {r})
  <2>1. IsFiniteSet(m.regions \cup {r}) /\ m.regions \cup {r} \in SUBSET Regions
    BY <1>1, FS_AddElement DEF Good, Proper
  <2>2. \A q \in m.regions \cup {r} : q.size > 0 /\ End(q) <= MaxAddr /\ (q.owner # 0 => q.image = 0)
    BY <1>1, <1>2 DEF Good, Proper, End
  <2>3. Disjoint(m.regions \cup {r})
    BY <1>1, <1>3 DEF Good, Proper, Disjoint, End
  <2> QED BY <2>1, <2>2, <2>3 DEF Proper
<1>7. /\ n.regions = m.regions \cup {r}
      /\ n.domain = m.domain
      /\ n.total = m.total + s
      /\ n.peak = Larger(m.peak, m.total + s)
      /\ n.cumulative = m.cumulative + s
      /\ n.created = m.created + new
      /\ n.reclaimed = m.reclaimed
      /\ n.live = m.live + new
      /\ n.liveSize = m.liveSize + newSize
      /\ n.highWater = Larger(m.highWater, b + s)
  BY <1>2 DEF Mapped, MemoryType
<1>8. n \in MemoryType
  <2>1. b + s \in Addr
    BY <1>2 DEF Addr
  <2>2. newSize \in Nat
    BY <1>2
  <2>3. m.regions \cup {r} \in SUBSET Regions
    BY <1>6 DEF Proper
  <2>4. /\ m.total + s \in Nat /\ m.cumulative + s \in Nat /\ m.created + new \in Nat
        /\ m.live + new \in Nat /\ m.liveSize + newSize \in Nat
    <3>1. new \in Nat
      OBVIOUS
    <3>2. /\ m.total \in Nat /\ m.cumulative \in Nat /\ m.created \in Nat
          /\ m.live \in Nat /\ m.liveSize \in Nat
      BY <1>2 DEF MemoryType
    <3>3. \A x, y \in Nat : x + y \in Nat
      OBVIOUS
    <3> HIDE DEF new, newSize
    <3> QED BY <1>2, <2>2, <3>1, <3>2, <3>3
  <2>6. Larger(m.peak, m.total + s) \in Nat /\ Larger(m.highWater, b + s) \in Addr
    <3>1. m.peak \in Nat /\ m.highWater \in Addr
      BY <1>2 DEF MemoryType
    <3> QED BY <2>1, <2>4, <3>1 DEF Larger
  <2>5. n = [m EXCEPT !.regions = m.regions \cup {r}, !.total = m.total + s,
               !.peak = Larger(m.peak, m.total + s), !.cumulative = m.cumulative + s,
               !.highWater = Larger(m.highWater, b + s), !.created = m.created + new,
               !.live = m.live + new, !.liveSize = m.liveSize + newSize]
    BY DEF Mapped
  <2> HIDE DEF r, n, new, newSize
  <2> QED
    <3>1. m \in MemoryType /\ m.regions \cup {r} \in SUBSET Regions
      BY <1>2, <2>3
    <3> DEFINE R == m.regions \cup {r}
               total == m.total + s
               peak == Larger(m.peak, m.total + s)
               cumulative == m.cumulative + s
               highWater == Larger(m.highWater, b + s)
               created == m.created + new
               live == m.live + new
               liveSize == m.liveSize + newSize
    <3>2. /\ R \in SUBSET Regions /\ total \in Nat /\ peak \in Nat /\ cumulative \in Nat
          /\ highWater \in Addr /\ created \in Nat /\ live \in Nat /\ liveSize \in Nat
      BY <2>4, <2>6, <3>1
    <3>3. n = [m EXCEPT !.regions = R, !.total = total, !.peak = peak, !.cumulative = cumulative,
                 !.highWater = highWater, !.created = created, !.live = live,
                 !.liveSize = liveSize]
      BY <2>5
    <3> HIDE DEF R, total, peak, cumulative, highWater, created, live, liveSize
    <3>4. [m EXCEPT !.regions = R, !.total = total, !.peak = peak, !.cumulative = cumulative,
             !.highWater = highWater, !.created = created, !.live = live,
             !.liveSize = liveSize] \in MemoryType
      BY <3>1, <3>2 DEF MemoryType
    <3> QED BY <3>3, <3>4
<1> HIDE DEF n
<1>9. n.total = Cardinality(AddressesOf(n.regions))
  BY <1>1, <1>5, <1>6, <1>7, AddressesAdd DEF Good
<1>10. /\ n.liveSize = Cardinality(AddressesOf(Owned(n.regions)))
       /\ n.live = Cardinality(Owned(n.regions))
  <2>1. CASE owner = 0
    <3>1. Owned(n.regions) = Owned(m.regions)
      BY <1>1, <1>7, <2>1 DEF Owned
    <3>2. n.liveSize = m.liveSize /\ n.live = m.live
      BY <1>2, <1>7, <2>1 DEF MemoryType
    <3> QED BY <3>1, <3>2 DEF Good
  <2>2. CASE owner # 0
    <3>1. Owned(n.regions) = Owned(m.regions) \cup {r} /\ r \notin Owned(m.regions)
      BY <1>1, <1>5, <1>7, <2>2 DEF Owned
    <3>2. n.liveSize = m.liveSize + s /\ n.live = m.live + 1
      BY <1>2, <1>7, <2>2 DEF MemoryType
    <3>3. Proper(Owned(m.regions)) /\ Proper(Owned(m.regions) \cup {r})
      BY <1>6, <1>7, <3>1, OwnedProper DEF Good
    <3>4. Cardinality(AddressesOf(Owned(n.regions))) = Cardinality(AddressesOf(Owned(m.regions))) + s
      BY <1>1, <3>1, <3>3, AddressesAdd
    <3>5. Cardinality(Owned(n.regions)) = Cardinality(Owned(m.regions)) + 1
      BY <3>1, <3>3, FS_AddElement DEF Proper
    <3> QED BY <3>2, <3>4, <3>5 DEF Good
  <2> QED BY <2>1, <2>2
<1>11. n.live = n.created - n.reclaimed
  BY <1>2, <1>7 DEF Good, MemoryType
<1>12. n.total <= n.peak /\ n.peak <= n.cumulative
  BY <1>2, <1>7 DEF Good, MemoryType, Larger
<1>13. \A q \in n.regions : End(q) <= n.highWater
  <2>1. \A q \in m.regions \cup {r} : End(q) \in Nat
    BY <1>6 DEF Proper, Regions, End, Addr
  <2>2. n.highWater = Larger(m.highWater, b + s) /\ n.regions = m.regions \cup {r}
    BY <1>7
  <2>3. m.highWater \in Nat /\ \A q \in m.regions : End(q) <= m.highWater
    BY <1>2 DEF Good, MemoryType, Addr
  <2>4. m.highWater <= n.highWater /\ b + s <= n.highWater
    BY <1>2, <2>2, <2>3 DEF Larger
  <2>5. End(r) = b + s
    BY <1>1 DEF End
  <2>6. n.highWater \in Nat
    BY <1>2, <2>2, <2>3 DEF Larger
  <2> SUFFICES ASSUME NEW q \in m.regions \cup {r}
               PROVE  End(q) <= n.highWater
    BY <2>2
  <2> HIDE DEF r, n, new, newSize
  <2>7. CASE q = r
    BY <2>4, <2>5, <2>7
  <2>8. CASE q \in m.regions
    BY <2>1, <2>3, <2>4, <2>6, <2>8
  <2> QED BY <2>7, <2>8
<1>14. Proper(n.regions)
  BY <1>6, <1>7
<1>15. Good(n)
  BY <1>8, <1>9, <1>10, <1>11, <1>12, <1>13, <1>14 DEF Good
<1>16. owner = 0 => n.live = m.live /\ n.liveSize = m.liveSize
  BY <1>2, <1>7 DEF MemoryType
<1> QED BY <1>7, <1>15, <1>16 DEF n

\* release_owned finds the mapping the token was handed out for, and only that.
LEMMA NamedOne ==
  ASSUME NEW m, Good(m), NEW token, NEW r \in Named(m, token)
  PROVE  /\ Named(m, token) = {r}
         /\ r \in m.regions
         /\ r = Region(token.base, token.size, token.id, 0)
         /\ r.owner # 0
         /\ token.domain = m.domain
<1>1. /\ r \in m.regions /\ r.base = token.base /\ r.size = token.size
      /\ r.owner = token.id /\ r.owner # 0 /\ token.domain = m.domain
  BY DEF Named, AtOrAbove
<1>2. r \in Regions /\ r.image = 0
  BY <1>1 DEF Good, Proper
<1>3. r = Region(token.base, token.size, token.id, 0)
  BY <1>1, <1>2 DEF Region, Regions
<1>4. ASSUME NEW q \in Named(m, token) PROVE q = r
  <2>1. /\ q \in m.regions /\ q.base = token.base /\ q.size = token.size
        /\ q.owner = token.id /\ q.owner # 0
    BY DEF Named, AtOrAbove
  <2>2. q \in Regions /\ q.image = 0
    BY <2>1 DEF Good, Proper
  <2> QED BY <1>3, <2>1, <2>2 DEF Region, Regions
<1> QED BY <1>1, <1>3, <1>4

\* release_owned keeps a memory good.
LEMMA ReleaseGood ==
  ASSUME NEW m, Good(m), NEW token, NEW r \in Named(m, token), CanRelease(m, token)
  PROVE  /\ Good(Released(m, token))
         /\ Released(m, token).regions = m.regions \ {r}
         /\ Released(m, token).domain = m.domain
<1> USE MaxAddrNat
<1> DEFINE n == Released(m, token)
<1>1. /\ Named(m, token) = {r} /\ r \in m.regions /\ r.owner # 0
      /\ r.size = token.size
  BY NamedOne DEF Region
<1>2. m \in MemoryType /\ r.size \in Nat
  BY <1>1 DEF Good, Proper, Regions, Addr
<1>3. /\ m.total >= r.size /\ m.liveSize >= r.size
      /\ m.live >= 1 /\ m.reclaimed + 1 <= m.created
  BY <1>1 DEF CanRelease
<1>4. /\ n.regions = m.regions \ {r}
      /\ n.domain = m.domain
      /\ n.total = m.total - r.size
      /\ n.peak = m.peak
      /\ n.cumulative = m.cumulative
      /\ n.created = m.created
      /\ n.reclaimed = m.reclaimed + 1
      /\ n.live = m.live - 1
      /\ n.liveSize = m.liveSize - r.size
      /\ n.highWater = m.highWater
  BY <1>1, <1>2 DEF Released, MemoryType
<1>5. n \in MemoryType
  <2>1. m.regions \ {r} \in SUBSET Regions
    BY <1>2 DEF MemoryType
  <2>2. /\ m.total - r.size \in Nat /\ m.liveSize - r.size \in Nat
        /\ m.live - 1 \in Nat /\ m.reclaimed + 1 \in Nat
    BY <1>2, <1>3 DEF MemoryType
  <2>3. n = [m EXCEPT !.regions = m.regions \ {r}, !.total = m.total - r.size,
               !.liveSize = m.liveSize - r.size, !.live = m.live - 1,
               !.reclaimed = m.reclaimed + 1]
    BY <1>1 DEF Released
  <2> HIDE DEF n
  <2> QED BY <1>2, <2>1, <2>2, <2>3, ReleaseType
<1> HIDE DEF n
<1>6. Proper(n.regions) /\ n.total = Cardinality(AddressesOf(n.regions))
  BY <1>1, <1>2, <1>4, AddressesRemove DEF Good
<1>7. /\ n.liveSize = Cardinality(AddressesOf(Owned(n.regions)))
      /\ n.live = Cardinality(Owned(n.regions))
  <2>1. Owned(n.regions) = Owned(m.regions) \ {r} /\ r \in Owned(m.regions)
    BY <1>1, <1>4 DEF Owned
  <2>2. Proper(Owned(m.regions))
    BY OwnedProper DEF Good
  <2> DEFINE O == Owned(m.regions)
  <2>5. /\ Cardinality(AddressesOf(O \ {r})) \in Nat
        /\ Cardinality(AddressesOf(O)) = Cardinality(AddressesOf(O \ {r})) + r.size
    <3>1. r \in O /\ Proper(O)
      BY <2>1, <2>2
    <3> HIDE DEF O
    <3> QED BY <3>1, AddressesRemove
  <2>3. Cardinality(AddressesOf(Owned(m.regions))) = Cardinality(AddressesOf(Owned(n.regions))) + r.size
        /\ Cardinality(AddressesOf(Owned(n.regions))) \in Nat
    BY <2>1, <2>5
  <2>4. Cardinality(Owned(n.regions)) = Cardinality(Owned(m.regions)) - 1
    <3>1. r \in O /\ IsFiniteSet(O) /\ Owned(n.regions) = O \ {r}
      BY <2>1, <2>2 DEF Proper
    <3>2. Cardinality(O \ {r}) = Cardinality(O) - 1
      <4> HIDE DEF O
      <4> QED BY <3>1, FS_RemoveElement
    <3> QED BY <3>1, <3>2
  <2> QED BY <1>2, <1>4, <2>3, <2>4 DEF Good
<1>8. n.live = n.created - n.reclaimed
  BY <1>2, <1>4 DEF Good, MemoryType
<1>9. n.total <= n.peak /\ n.peak <= n.cumulative
  BY <1>2, <1>4 DEF Good, MemoryType
<1>10. \A q \in n.regions : End(q) <= n.highWater
  BY <1>4 DEF Good
<1>11. Good(n)
  BY <1>5, <1>6, <1>7, <1>8, <1>9, <1>10 DEF Good
<1> QED BY <1>4, <1>11 DEF n

\* The mapping a token was handed out for is there: the token is good.
LEMMA Releasable ==
  ASSUME NEW m, Good(m), NEW token \in Tokens, token.domain = m.domain, token.domain # 0,
         token.id # 0, Region(token.base, token.size, token.id, 0) \in m.regions
  PROVE  CanRelease(m, token) /\ Region(token.base, token.size, token.id, 0) \in Named(m, token)
<1> USE MaxAddrNat
<1> DEFINE r == Region(token.base, token.size, token.id, 0)
<1>1. /\ r \in m.regions /\ r \in Regions /\ r.base = token.base /\ r.size = token.size
      /\ r.owner = token.id
  BY DEF Region, Tokens, Regions
<1>2. m \in MemoryType /\ r.size \in Nat
  BY <1>1 DEF Good, Proper, Regions, Addr
<1>3. r \in Named(m, token)
  <2>1. r \in AtOrAbove(m.regions, token.base)
    <3>1. token.base \in Nat
      BY DEF Tokens, Addr
    <3> QED BY <1>1, <3>1 DEF AtOrAbove
  <2> QED BY <1>1, <2>1 DEF Named
<1>4. m.total >= r.size
  <2>1. /\ Cardinality(AddressesOf(m.regions \ {r})) \in Nat
        /\ Cardinality(AddressesOf(m.regions)) = Cardinality(AddressesOf(m.regions \ {r})) + r.size
    BY <1>1, AddressesRemove DEF Good
  <2> QED BY <1>2, <2>1 DEF Good
<1>5. r \in Owned(m.regions) /\ Proper(Owned(m.regions))
  BY <1>1, OwnedProper DEF Owned, Good
<1>6. m.liveSize >= r.size
  <2>1. /\ Cardinality(AddressesOf(Owned(m.regions) \ {r})) \in Nat
        /\ Cardinality(AddressesOf(Owned(m.regions))) = Cardinality(AddressesOf(Owned(m.regions) \ {r})) + r.size
    BY <1>5, AddressesRemove
  <2> QED BY <1>2, <2>1 DEF Good
<1>7. m.live >= 1
  <2>1. Cardinality(Owned(m.regions)) # 0 /\ Cardinality(Owned(m.regions)) \in Nat
    BY <1>5, FS_EmptySet, FS_CardinalityType DEF Proper
  <2> QED BY <2>1 DEF Good
<1>8. m.reclaimed + 1 <= m.created
  BY <1>2, <1>7 DEF Good, MemoryType
<1> QED BY <1>1, <1>3, <1>4, <1>6, <1>7, <1>8 DEF CanRelease

-----------------------------------------------------------------------------
(* The inductive invariant. *)

\* Domains are never shared, by memories or by the copies that stage a load.
DomainsApart ==
  /\ \A o \in Memories : mem[o].domain \in 1 .. domains
  /\ \A o, p \in Memories : o # p => mem[o].domain # mem[p].domain
  /\ \A o \in Memories : ~ Idle(o) => loading[o].staged.domain \in 1 .. domains
  /\ \A o, p \in Memories : ~ Idle(o) => loading[o].staged.domain # mem[p].domain
  /\ \A o, p \in Memories : ~ Idle(o) /\ ~ Idle(p) /\ o # p
                               => loading[o].staged.domain # loading[p].staged.domain

\* Tokens and owned mappings correspond one to one.
TokensMatch ==
  /\ \A t \in issued : t.id \in 1 .. ids /\ t.domain \in 1 .. domains
  /\ \A t, u \in issued : t.id = u.id => t = u
  /\ \A t \in held : \E o \in Memories :
       mem[o].domain = t.domain /\ Region(t.base, t.size, t.id, 0) \in mem[o].regions
  /\ \A o \in Memories : \A r \in Owned(mem[o].regions) :
       Token(mem[o].domain, r.owner, r.base, r.size) \in held

\* A load only adds mappings, those of its image so far, to a memory without tokens.
Staged(o) ==
  LET load == loading[o] IN
  /\ load.next \in 1 .. Len(Images[load.image]) + 1
  /\ mem[o].live = 0 /\ mem[o].liveSize = 0 /\ load.staged.live = 0
  /\ mem[o].regions \subseteq load.staged.regions
  /\ \A i \in 1 .. Len(Images) :
       OfImage(load.staged.regions, i) =
         OfImage(mem[o].regions, i) \cup (IF i = load.image THEN Parts(i, load.next) ELSE {})

IInv ==
  /\ TypeOK
  /\ \A o \in Memories : Good(mem[o]) /\ Good(loading[o].staged)
  /\ DomainsApart
  /\ TokensMatch
  /\ \A o \in Memories : ~ Idle(o) => Staged(o)
  /\ NoPartialImage

-----------------------------------------------------------------------------
(* Every step preserves it. *)

\* A fresh memory is good.
LEMMA EmptyGood ==
  ASSUME NEW d \in Nat
  PROVE  Good(Empty(d)) /\ Empty(d).regions = {} /\ Empty(d).domain = d
<1>1. Empty(d) \in MemoryType
  BY MaxAddrNat DEF Empty, MemoryType, Addr
<1>2. AddressesOf({}) = {} /\ Owned({}) = {}
  BY DEF AddressesOf, Owned
<1> QED BY <1>1, <1>2, FS_EmptySet DEF Good, Empty, Proper, Disjoint

\* The images are sequences of segments.
LEMMA ImageType ==
  ASSUME NEW i \in 1 .. Len(Images)
  PROVE  Images[i] \in Seq(Segments) /\ Len(Images) \in Nat /\ Len(Images[i]) \in Nat
  BY MemoryAssumption

\* The invariant holds at the start.
LEMMA InitInv == Init => IInv
<1> SUFFICES ASSUME Init PROVE IInv
  OBVIOUS
<1>1. PICK d \in [Memories -> 1 .. Cardinality(Memories)] :
        /\ \A o, p \in Memories : o # p => d[o] # d[p]
        /\ mem = [o \in Memories |-> Empty(d[o])]
  BY DEF Init
<1>2. Cardinality(Memories) \in Nat /\ Len(Images) \in Nat
  BY MemoryAssumption, FS_CardinalityType
<1>3. \A o \in Memories : /\ mem[o] = Empty(d[o]) /\ d[o] \in Nat
                          /\ Good(mem[o]) /\ mem[o].regions = {} /\ mem[o].domain = d[o]
  BY <1>1, <1>2, EmptyGood
<1>4. \A o \in Memories : Good(loading[o].staged) /\ Idle(o) /\ loading[o] = NoLoad
  BY EmptyGood DEF Init, NoLoad, Idle
<1>5. TypeOK
  <2>1. mem \in [Memories -> MemoryType]
    BY <1>1, <1>3 DEF Good
  <2>2. Empty(0) \in MemoryType
    BY EmptyGood DEF Good
  <2>3. NoLoad \in [image : 0 .. Len(Images), next : Nat, staged : MemoryType]
    BY <1>2, <2>2 DEF NoLoad
  <2> QED BY <1>2, <2>1, <2>3 DEF Init, TypeOK
<1>6. DomainsApart
  BY <1>1, <1>3, <1>4 DEF DomainsApart, Init
<1>7. TokensMatch
  BY <1>3 DEF TokensMatch, Init, Owned
<1>8. NoPartialImage
  BY <1>3 DEF NoPartialImage, OfImage
<1> QED BY <1>3, <1>4, <1>5, <1>6, <1>7, <1>8 DEF IInv

\* What is said of a load depends on its memory and its copy only.
LEMMA StagedFrame ==
  ASSUME NEW p, mem'[p] = mem[p], loading'[p] = loading[p], Staged(p)
  PROVE  Staged(p)'
<1> DEFINE i == loading[p].image
           n == loading[p].next
           S == loading[p].staged
           m == mem[p]
<1>1. /\ n \in 1 .. Len(Images[i]) + 1
      /\ m.live = 0 /\ m.liveSize = 0 /\ S.live = 0
      /\ m.regions \subseteq S.regions
      /\ \A j \in 1 .. Len(Images) :
           OfImage(S.regions, j) = OfImage(m.regions, j) \cup (IF j = i THEN Parts(j, n) ELSE {})
  BY DEF Staged
<1>2. i' = i /\ n' = n /\ S' = S /\ m' = m
  OBVIOUS
<1>3. /\ n' \in 1 .. Len(Images[i']) + 1
      /\ m'.live = 0 /\ m'.liveSize = 0 /\ S'.live = 0
      /\ m'.regions \subseteq S'.regions
      /\ \A j \in 1 .. Len(Images) :
           OfImage(S'.regions, j) = OfImage(m'.regions, j) \cup (IF j = i' THEN Parts(j, n') ELSE {})
  <2> HIDE DEF i, n, S, m
  <2> QED BY <1>1, <1>2
<1> QED BY <1>3 DEF Staged

\* A call that changes nothing.
LEMMA RefuseInv == IInv /\ UNCHANGED vars => IInv'
<1> SUFFICES ASSUME IInv, UNCHANGED vars PROVE IInv'
  OBVIOUS
<1>1. /\ mem' = mem /\ issued' = issued /\ held' = held
      /\ loading' = loading /\ domains' = domains /\ ids' = ids
  BY DEF vars
<1>2. TypeOK'
  BY <1>1 DEF IInv, TypeOK
<1>3. \A p \in Memories : Good(mem[p])' /\ Good(loading[p].staged)'
  BY <1>1 DEF IInv
<1>4. DomainsApart'
  BY <1>1 DEF IInv, DomainsApart, Idle
<1>5. TokensMatch'
  BY <1>1 DEF IInv, TokensMatch
<1>6. \A p \in Memories : ~ Idle(p)' => Staged(p)'
  BY <1>1, StagedFrame DEF IInv, Idle
<1>7. NoPartialImage'
  BY <1>1 DEF IInv, NoPartialImage
<1> QED BY <1>2, <1>3, <1>4, <1>5, <1>6, <1>7 DEF IInv

\* A static mapping disturbs no token and no image.
LEMMA MapInv ==
  ASSUME IInv, NEW o \in Memories, NEW b \in Addr, NEW s \in Addr, Map(o, b, s)
  PROVE  IInv'
<1>1. CASE ~ (s > 0 /\ CanMap(mem[o], b, s))
  BY <1>1, RefuseInv DEF Map, Refuse
<1>2. CASE s > 0 /\ CanMap(mem[o], b, s)
  <2> DEFINE r == Region(b, s, 0, 0)
  <2>1. /\ mem' = [mem EXCEPT ![o] = Mapped(mem[o], b, s, 0, 0)] /\ Idle(o)
        /\ UNCHANGED <<issued, held, loading, domains, ids>>
    BY <1>2 DEF Map
  <2>2. mem \in [Memories -> MemoryType] /\ Len(Images) \in Nat
    BY MemoryAssumption DEF IInv, TypeOK
  <2>3. /\ Good(mem'[o])
        /\ mem'[o].regions = mem[o].regions \cup {r}
        /\ mem'[o].domain = mem[o].domain
    <3>1. mem'[o] = Mapped(mem[o], b, s, 0, 0)
      BY <2>1, <2>2
    <3>2. Good(mem[o]) /\ s > 0 /\ CanMap(mem[o], b, s) /\ 0 \in Nat /\ 0 \in 0 .. Len(Images)
      BY <1>2, <2>2 DEF IInv
    <3> QED BY <3>1, <3>2, MapGood
  <2>4. \A p \in Memories : p # o => mem'[p] = mem[p]
    BY <2>1, <2>2
  <2>5. /\ Owned(mem'[o].regions) = Owned(mem[o].regions)
        /\ \A i \in 1 .. Len(Images) : OfImage(mem'[o].regions, i) = OfImage(mem[o].regions, i)
    BY <2>2, <2>3 DEF Region, Owned, OfImage
  <2>6. \A p \in Memories : Idle(p)' <=> Idle(p)
    BY <2>1 DEF Idle
  <2>7. TypeOK'
    <3>1. mem' \in [Memories -> MemoryType]
      BY <2>1, <2>2, <2>3 DEF Good
    <3> QED BY <2>1, <3>1 DEF IInv, TypeOK
  <2>8. \A p \in Memories : Good(mem[p])' /\ Good(loading[p].staged)'
    BY <2>1, <2>3, <2>4 DEF IInv
  <2>9. DomainsApart'
    BY <2>1, <2>3, <2>4, <2>6 DEF IInv, DomainsApart
  <2>10. TokensMatch'
    BY <2>1, <2>3, <2>4, <2>5 DEF IInv, TokensMatch
  <2>11. \A p \in Memories : ~ Idle(p)' => Staged(p)'
    BY <2>1, <2>4, <2>6, StagedFrame DEF IInv
  <2>12. NoPartialImage'
    BY <2>4, <2>5 DEF IInv, NoPartialImage
  <2> QED BY <2>7, <2>8, <2>9, <2>10, <2>11, <2>12 DEF IInv
<1> QED BY <1>1, <1>2

\* A new owned mapping has an identity no token had before.
LEMMA MapOwnedInv ==
  ASSUME IInv, NEW o \in Memories, NEW b \in Addr, NEW s \in Addr, MapOwned(o, b, s)
  PROVE  IInv'
<1>1. CASE ~ (s > 0 /\ CanMap(mem[o], b, s))
  BY <1>1, RefuseInv DEF MapOwned, Refuse
<1>2. CASE s > 0 /\ CanMap(mem[o], b, s)
  <2> DEFINE r == Region(b, s, ids + 1, 0)
             token == Token(mem[o].domain, ids + 1, b, s)
  <2>1. /\ mem' = [mem EXCEPT ![o] = Mapped(mem[o], b, s, ids + 1, 0)] /\ Idle(o)
        /\ issued' = issued \cup {token} /\ held' = held \cup {token} /\ ids' = ids + 1
        /\ UNCHANGED <<loading, domains>>
    BY <1>2 DEF MapOwned
  <2>2. /\ mem \in [Memories -> MemoryType] /\ Len(Images) \in Nat /\ ids \in Nat
        /\ domains \in Nat /\ mem[o].domain \in 1 .. domains
    BY MemoryAssumption DEF IInv, TypeOK, DomainsApart
  <2>3. /\ Good(mem'[o])
        /\ mem'[o].regions = mem[o].regions \cup {r}
        /\ mem'[o].domain = mem[o].domain
    BY <1>2, <2>1, <2>2, MapGood DEF IInv
  <2>4. \A p \in Memories : p # o => mem'[p] = mem[p]
    BY <2>1, <2>2
  <2>5. /\ Owned(mem'[o].regions) = Owned(mem[o].regions) \cup {r}
        /\ \A i \in 1 .. Len(Images) : OfImage(mem'[o].regions, i) = OfImage(mem[o].regions, i)
    BY <2>2, <2>3 DEF Region, Owned, OfImage
  <2>6. \A p \in Memories : Idle(p)' <=> Idle(p)
    BY <2>1 DEF Idle
  <2>7. TypeOK'
    <3>1. mem' \in [Memories -> MemoryType]
      BY <2>1, <2>2, <2>3 DEF Good
    <3>2. token \in Tokens
      BY <2>2 DEF Token, Tokens
    <3> QED BY <2>1, <2>2, <3>1, <3>2 DEF IInv, TypeOK
  <2>8. \A p \in Memories : Good(mem[p])' /\ Good(loading[p].staged)'
    BY <2>1, <2>3, <2>4 DEF IInv
  <2>9. DomainsApart'
    BY <2>1, <2>3, <2>4, <2>6 DEF IInv, DomainsApart
  <2>10. TokensMatch'
    <3>1. /\ token.domain = mem[o].domain /\ token.id = ids + 1 /\ token.base = b /\ token.size = s
          /\ r.owner = ids + 1 /\ r.base = b /\ r.size = s
      BY DEF Token, Region
    <3>2. \A t \in issued : t.id \in 1 .. ids /\ t.domain \in 1 .. domains
      BY DEF IInv, TokensMatch
    <3>3. \A t \in issued' : t.id \in 1 .. ids' /\ t.domain \in 1 .. domains'
      BY <2>1, <2>2, <3>1, <3>2
    <3>4. \A t, u \in issued' : t.id = u.id => t = u
      <4>1. \A t \in issued : t.id # token.id
        BY <2>2, <3>1, <3>2
      <4>2. \A t, u \in issued : t.id = u.id => t = u
        BY DEF IInv, TokensMatch
      <4> HIDE DEF token
      <4> QED BY <2>1, <4>1, <4>2
    <3>5. ASSUME NEW t \in held' PROVE \E p \in Memories :
            mem'[p].domain = t.domain /\ Region(t.base, t.size, t.id, 0) \in mem'[p].regions
      <4>1. CASE t = token
        BY <2>3, <3>1, <4>1
      <4>2. CASE t \in held
        <5>1. PICK p \in Memories :
                mem[p].domain = t.domain /\ Region(t.base, t.size, t.id, 0) \in mem[p].regions
          BY <4>2 DEF IInv, TokensMatch
        <5> QED BY <2>3, <2>4, <5>1
      <4> QED BY <2>1, <3>5, <4>1, <4>2
    <3>6. ASSUME NEW p \in Memories, NEW q \in Owned(mem'[p].regions)
          PROVE  Token(mem'[p].domain, q.owner, q.base, q.size) \in held'
      <4>1. CASE p = o /\ q = r
        BY <2>1, <2>3, <3>1, <4>1
      <4>2. CASE q \in Owned(mem[p].regions)
        BY <2>1, <2>3, <2>4, <4>2 DEF IInv, TokensMatch
      <4> QED BY <2>4, <2>5, <3>6, <4>1, <4>2
    <3> QED BY <3>3, <3>4, <3>5, <3>6 DEF TokensMatch
  <2>11. \A p \in Memories : ~ Idle(p)' => Staged(p)'
    BY <2>1, <2>4, <2>6, StagedFrame DEF IInv
  <2>12. NoPartialImage'
    BY <2>4, <2>5 DEF IInv, NoPartialImage
  <2> QED BY <2>7, <2>8, <2>9, <2>10, <2>11, <2>12 DEF IInv
<1> QED BY <1>1, <1>2

\* A release takes one owned mapping away and its token with it; no other token
\* names the same mapping.
LEMMA ReleaseInv ==
  ASSUME IInv, NEW o \in Memories, NEW token \in issued \cup {EmptyToken}, Release(o, token)
  PROVE  IInv'
<1>1. CASE ~ CanRelease(mem[o], token)
  BY <1>1, RefuseInv DEF Release, Refuse
<1>2. CASE CanRelease(mem[o], token)
  <2>1. /\ mem' = [mem EXCEPT ![o] = Released(mem[o], token)] /\ Idle(o)
        /\ held' = held \ {token}
        /\ UNCHANGED <<issued, loading, domains, ids>>
    BY <1>2 DEF Release
  <2>2. mem \in [Memories -> MemoryType] /\ Good(mem[o])
    BY DEF IInv, TypeOK
  <2>3. PICK r \in Named(mem[o], token) : TRUE
    BY <1>2 DEF CanRelease
  <2>4. /\ r \in mem[o].regions /\ r.owner # 0
        /\ r = Region(token.base, token.size, token.id, 0)
        /\ token.domain = mem[o].domain
    BY <2>2, <2>3, NamedOne
  <2>5. /\ Good(mem'[o])
        /\ mem'[o].regions = mem[o].regions \ {r}
        /\ mem'[o].domain = mem[o].domain
    BY <1>2, <2>1, <2>2, <2>3, ReleaseGood
  <2>6. \A p \in Memories : p # o => mem'[p] = mem[p]
    BY <2>1, <2>2
  <2>7. /\ Owned(mem'[o].regions) = Owned(mem[o].regions) \ {r}
        /\ \A i \in 1 .. Len(Images) : OfImage(mem'[o].regions, i) = OfImage(mem[o].regions, i)
    <3>1. r.image = 0
      BY <2>4 DEF Region
    <3> QED BY <2>5, <3>1 DEF Owned, OfImage
  <2>8. \A p \in Memories : Idle(p)' <=> Idle(p)
    BY <2>1 DEF Idle
  <2>9. TypeOK'
    <3>1. mem' \in [Memories -> MemoryType]
      BY <2>1, <2>2, <2>5 DEF Good
    <3> QED BY <2>1, <3>1 DEF IInv, TypeOK
  <2>10. \A p \in Memories : Good(mem[p])' /\ Good(loading[p].staged)'
    BY <2>1, <2>5, <2>6 DEF IInv
  <2>11. DomainsApart'
    BY <2>1, <2>5, <2>6, <2>8 DEF IInv, DomainsApart
  <2>12. TokensMatch'
    <3>1. /\ \A t \in issued : t.id \in 1 .. ids /\ t.domain \in 1 .. domains
          /\ \A t, u \in issued : t.id = u.id => t = u
          /\ held \subseteq issued /\ domains \in Nat /\ issued \subseteq Tokens
      BY DEF IInv, TokensMatch, TypeOK
    <3>2. token \in issued
      <4>1. token # EmptyToken
        BY <2>3 DEF Named, EmptyToken, Token
      <4> QED BY <4>1
    <3>3. ASSUME NEW t \in held' PROVE \E p \in Memories :
            mem'[p].domain = t.domain /\ Region(t.base, t.size, t.id, 0) \in mem'[p].regions
      <4>1. t \in held /\ t # token
        BY <2>1, <3>3
      <4>2. PICK p \in Memories :
              mem[p].domain = t.domain /\ Region(t.base, t.size, t.id, 0) \in mem[p].regions
        BY <4>1 DEF IInv, TokensMatch
      <4>3. Region(t.base, t.size, t.id, 0) # r
        <5>1. t.id # token.id
          BY <3>1, <3>2, <4>1
        <5> QED BY <2>4, <5>1 DEF Region
      <4> QED BY <2>5, <2>6, <4>2, <4>3
    <3>4. ASSUME NEW p \in Memories, NEW q \in Owned(mem'[p].regions)
          PROVE  Token(mem'[p].domain, q.owner, q.base, q.size) \in held'
      <4>1. q \in Owned(mem[p].regions) /\ mem'[p].domain = mem[p].domain /\ (p = o => q # r)
        BY <2>5, <2>6, <2>7, <3>4
      <4>2. Token(mem[p].domain, q.owner, q.base, q.size) \in held
        BY <4>1 DEF IInv, TokensMatch
      <4>3. ASSUME Token(mem[p].domain, q.owner, q.base, q.size) = token PROVE FALSE
        <5>1. /\ mem[p].domain = token.domain /\ q.owner = token.id
              /\ q.base = token.base /\ q.size = token.size
          BY <4>3 DEF Token
        <5>2. p = o
          BY <2>4, <5>1 DEF IInv, DomainsApart
        <5>3. q \in Regions /\ q.image = 0
          BY <2>2, <4>1, <5>2 DEF Good, Proper, Owned
        <5>4. q = r
          BY <2>4, <5>1, <5>3 DEF Region, Regions
        <5> QED BY <4>1, <5>2, <5>4
      <4> QED BY <2>1, <4>1, <4>2, <4>3
    <3> QED BY <2>1, <3>1, <3>3, <3>4 DEF TokensMatch
  <2>13. \A p \in Memories : ~ Idle(p)' => Staged(p)'
    BY <2>1, <2>6, <2>8, StagedFrame DEF IInv
  <2>14. NoPartialImage'
    BY <2>6, <2>7 DEF IInv, NoPartialImage
  <2> QED BY <2>9, <2>10, <2>11, <2>12, <2>13, <2>14 DEF IInv
<1> QED BY <1>1, <1>2

\* What a load does before it commits concerns its own copy only.
LEMMA LoadFrame ==
  ASSUME IInv, NEW o \in Memories, mem' = mem, issued' = issued, held' = held, ids' = ids,
         domains' \in Nat, domains <= domains',
         loading' \in [Memories -> [image : 0 .. Len(Images), next : Nat, staged : MemoryType]],
         \A p \in Memories : p # o => loading'[p] = loading[p],
         Good(loading'[o].staged),
         loading'[o].image # 0 =>
           /\ Staged(o)'
           /\ loading'[o].staged.domain \in 1 .. domains'
           /\ \A p \in Memories : loading'[o].staged.domain # mem[p].domain
           /\ \A p \in Memories : ~ Idle(p) /\ p # o =>
                loading'[o].staged.domain # loading[p].staged.domain
  PROVE  IInv'
<1>1. TypeOK'
  BY DEF IInv, TypeOK
<1>2. \A p \in Memories : Good(mem[p])' /\ Good(loading[p].staged)'
  BY DEF IInv
<1>3. /\ \A p \in Memories : p # o => (Idle(p)' <=> Idle(p))
      /\ Idle(o)' <=> loading'[o].image = 0
  BY DEF Idle
<1>4. domains \in Nat
  BY DEF IInv, TypeOK
<1>5. DomainsApart'
  <2>1. \A p \in Memories : mem'[p].domain \in 1 .. domains'
    BY <1>4 DEF IInv, DomainsApart
  <2>2. \A p, q \in Memories : p # q => mem'[p].domain # mem'[q].domain
    BY DEF IInv, DomainsApart
  <2>3. \A p \in Memories : ~ Idle(p)' => loading'[p].staged.domain \in 1 .. domains'
    BY <1>3, <1>4 DEF IInv, DomainsApart
  <2>4. \A p, q \in Memories : ~ Idle(p)' => loading'[p].staged.domain # mem'[q].domain
    BY <1>3 DEF IInv, DomainsApart
  <2>5. \A p, q \in Memories : ~ Idle(p)' /\ ~ Idle(q)' /\ p # q
                               => loading'[p].staged.domain # loading'[q].staged.domain
    BY <1>3 DEF IInv, DomainsApart
  <2> QED BY <2>1, <2>2, <2>3, <2>4, <2>5 DEF DomainsApart
<1>6. TokensMatch'
  <2>1. \A t \in issued' : t.id \in 1 .. ids' /\ t.domain \in 1 .. domains'
    BY <1>4 DEF IInv, TokensMatch
  <2> QED BY <2>1 DEF IInv, TokensMatch
<1>7. \A p \in Memories : ~ Idle(p)' => Staged(p)'
  BY <1>3, StagedFrame DEF IInv
<1>8. NoPartialImage'
  BY DEF IInv, NoPartialImage
<1> QED BY <1>1, <1>2, <1>5, <1>6, <1>7, <1>8 DEF IInv

\* The copy that stages a load has the mappings and the counters of the memory.
LEMMA CopyGood ==
  ASSUME NEW m, Good(m), NEW d \in Nat
  PROVE  Good([m EXCEPT !.domain = d])
<1> DEFINE n == [m EXCEPT !.domain = d]
<1>1. m \in MemoryType
  BY DEF Good
<1>2. n \in MemoryType
  BY <1>1 DEF MemoryType
<1>3. /\ n.regions = m.regions /\ n.total = m.total /\ n.peak = m.peak
      /\ n.cumulative = m.cumulative /\ n.created = m.created /\ n.reclaimed = m.reclaimed
      /\ n.live = m.live /\ n.liveSize = m.liveSize /\ n.highWater = m.highWater
  BY <1>1 DEF MemoryType
<1> HIDE DEF n
<1>4. Good(n)
  BY <1>2, <1>3 DEF Good
<1> QED BY <1>4 DEF n

\* A load starts with a copy that has no segment of its image yet.
LEMMA BeginLoadInv ==
  ASSUME IInv, NEW o \in Memories, NEW image \in 1 .. Len(Images), BeginLoad(o, image)
  PROVE  IInv'
<1>1. CASE ~ CanCopy(mem[o])
  BY <1>1, RefuseInv DEF BeginLoad, Refuse
<1>2. CASE CanCopy(mem[o])
  <2> DEFINE copy == [mem[o] EXCEPT !.domain = domains + 1]
             load == Load(image, copy)
  <2>1. /\ loading' = [loading EXCEPT ![o] = load] /\ Idle(o)
        /\ domains' = domains + 1
        /\ UNCHANGED <<mem, issued, held, ids>>
    BY <1>2 DEF BeginLoad
  <2>2. /\ loading \in [Memories -> [image : 0 .. Len(Images), next : Nat, staged : MemoryType]]
        /\ Good(mem[o]) /\ domains \in Nat /\ mem[o] \in MemoryType
    BY DEF IInv, TypeOK
  <2>3. Good(copy)
    <3>1. \A m, d : Good(m) /\ d \in Nat => Good([m EXCEPT !.domain = d])
      BY CopyGood
    <3>2. domains + 1 \in Nat
      BY <2>2
    <3> QED BY <2>2, <3>1, <3>2
  <2>4. /\ copy.domain = domains + 1 /\ copy.regions = mem[o].regions
        /\ copy.live = mem[o].live
    BY <2>2 DEF MemoryType
  <2>5. load.image = image /\ load.next = 1 /\ load.staged = copy
    BY DEF Load
  <2>6. loading'[o] = load /\ \A p \in Memories : p # o => loading'[p] = loading[p]
    BY <2>1, <2>2
  <2>7. load \in [image : 0 .. Len(Images), next : Nat, staged : MemoryType]
    <3>1. image \in 0 .. Len(Images)
      BY ImageType
    <3> HIDE DEF copy
    <3> QED BY <2>3, <3>1 DEF Load, Good
  <2> HIDE DEF copy, load
  <2>8. Staged(o)'
    <3>1. mem[o].live = 0 /\ mem[o].liveSize = 0
      BY <1>2 DEF CanCopy
    <3>2. 1 \in 1 .. Len(Images[image]) + 1
      BY ImageType
    <3>3. \A i \in 1 .. Len(Images) : Parts(i, 1) = {}
      BY ImageType DEF Parts
    <3>4. mem' = mem
      BY <2>1
    <3> QED BY <2>4, <2>5, <2>6, <3>1, <3>2, <3>3, <3>4 DEF Staged
  <2>9. /\ copy.domain \in 1 .. domains'
        /\ \A p \in Memories : copy.domain # mem[p].domain
        /\ \A p \in Memories : ~ Idle(p) /\ p # o => copy.domain # loading[p].staged.domain
    BY <2>1, <2>2, <2>4 DEF IInv, DomainsApart
  <2>10. /\ loading' \in [Memories -> [image : 0 .. Len(Images), next : Nat, staged : MemoryType]]
         /\ loading'[o].staged = copy
    BY <2>1, <2>2, <2>5, <2>6, <2>7
  <2>11. domains' \in Nat /\ domains <= domains'
    BY <2>1, <2>2
  <2>12. /\ Good(loading'[o].staged)
         /\ loading'[o].staged.domain \in 1 .. domains'
         /\ \A p \in Memories : loading'[o].staged.domain # mem[p].domain
         /\ \A p \in Memories : ~ Idle(p) /\ p # o =>
              loading'[o].staged.domain # loading[p].staged.domain
    BY <2>3, <2>9, <2>10
  <2>13. mem' = mem /\ issued' = issued /\ held' = held /\ ids' = ids
    BY <2>1
  <2> QED BY <2>6, <2>8, <2>10, <2>11, <2>12, <2>13, LoadFrame
<1> QED BY <1>1, <1>2

\* The record of a memory that is not being loaded.
LEMMA NoLoadType ==
  /\ NoLoad \in [image : 0 .. Len(Images), next : Nat, staged : MemoryType]
  /\ Good(NoLoad.staged)
  /\ NoLoad.image = 0
<1>1. Good(Empty(0)) /\ Len(Images) \in Nat
  BY EmptyGood, MemoryAssumption
<1> QED BY <1>1 DEF NoLoad, Good

\* A load that ends without a commit leaves nothing behind.
LEMMA EndedInv ==
  ASSUME IInv, NEW o \in Memories, mem' = mem, issued' = issued, held' = held, ids' = ids,
         domains' = domains, loading'[o] = NoLoad,
         loading' \in [Memories -> [image : 0 .. Len(Images), next : Nat, staged : MemoryType]],
         \A p \in Memories : p # o => loading'[p] = loading[p]
  PROVE  IInv'
<1>1. loading'[o].image = 0 /\ Good(loading'[o].staged)
  BY NoLoadType
<1>2. domains' \in Nat /\ domains <= domains'
  BY DEF IInv, TypeOK
<1> QED BY <1>1, <1>2, LoadFrame

\* A load that fails, or runs out of host memory.
LEMMA AbandonInv ==
  ASSUME IInv, NEW o \in Memories, loading' = [loading EXCEPT ![o] = NoLoad],
         UNCHANGED <<mem, issued, held, domains, ids>>
  PROVE  IInv'
<1>1. loading \in [Memories -> [image : 0 .. Len(Images), next : Nat, staged : MemoryType]]
  BY DEF IInv, TypeOK
<1>2. /\ loading'[o] = NoLoad
      /\ loading' \in [Memories -> [image : 0 .. Len(Images), next : Nat, staged : MemoryType]]
      /\ \A p \in Memories : p # o => loading'[p] = loading[p]
  BY <1>1, NoLoadType
<1>3. mem' = mem /\ issued' = issued /\ held' = held /\ ids' = ids /\ domains' = domains
  OBVIOUS
<1> QED BY <1>2, <1>3, EndedInv

\* One more segment of an image, mapped unless it is empty.
LEMMA PartsNext ==
  ASSUME NEW i \in 1 .. Len(Images), NEW n \in 1 .. Len(Images[i])
  PROVE  Parts(i, n + 1) = Parts(i, n) \cup
           (IF Images[i][n].size > 0
            THEN {Region(Images[i][n].base, Images[i][n].size, 0, i)} ELSE {})
<1> DEFINE J(k) == {j \in 1 .. Len(Images[i]) : j < k /\ Images[i][j].size > 0}
<1>1. Len(Images[i]) \in Nat
  BY ImageType
<1>2. J(n + 1) = J(n) \cup (IF Images[i][n].size > 0 THEN {n} ELSE {})
  BY <1>1
<1>3. \A k : Parts(i, k) = {Region(Images[i][j].base, Images[i][j].size, 0, i) : j \in J(k)}
  BY DEF Parts
<1> HIDE DEF J
<1> QED BY <1>2, <1>3

\* Mapping a segment adds it to the copy, or ends the load.
LEMMA LoadSegmentInv ==
  ASSUME IInv, NEW o \in Memories, LoadSegment(o)
  PROVE  IInv'
<1> DEFINE load == loading[o]
           i == load.image
           n == load.next
           segment == Images[i][n]
<1>1. /\ ~ Idle(o) /\ n <= Len(Images[i])
      /\ loading' = [loading EXCEPT ![o] =
           IF segment.size = 0 THEN [load EXCEPT !.next = @ + 1]
           ELSE IF CanMap(load.staged, segment.base, segment.size)
                THEN [load EXCEPT !.next = @ + 1,
                        !.staged = Mapped(@, segment.base, segment.size, 0, i)]
                ELSE NoLoad]
      /\ UNCHANGED <<mem, issued, held, domains, ids>>
  BY DEF LoadSegment
<1>2. /\ loading \in [Memories -> [image : 0 .. Len(Images), next : Nat, staged : MemoryType]]
      /\ domains \in Nat /\ Len(Images) \in Nat /\ Good(load.staged) /\ Staged(o)
  BY <1>1, MemoryAssumption DEF IInv, TypeOK
<1>3. /\ i \in 1 .. Len(Images) /\ n \in 1 .. Len(Images[i]) /\ Len(Images[i]) \in Nat
      /\ load \in [image : 0 .. Len(Images), next : Nat, staged : MemoryType]
  <2>1. i \in 1 .. Len(Images)
    BY <1>1, <1>2 DEF Idle
  <2>2. n \in 1 .. Len(Images[i]) + 1
    BY <1>2 DEF Staged
  <2> QED BY <1>1, <1>2, <2>1, <2>2, ImageType
<1>4. segment \in Segments
  BY <1>3, ImageType
<1>8. segment.base \in Addr /\ segment.size \in Addr /\ segment.size \in Nat
  <2>1. segment.base \in Addr /\ segment.size \in Addr
    BY <1>4 DEF Segments
  <2> HIDE DEF segment
  <2> QED BY <2>1, MaxAddrNat DEF Addr
<1>5. /\ load.staged.domain \in 1 .. domains
      /\ \A p \in Memories : load.staged.domain # mem[p].domain
      /\ \A p \in Memories : ~ Idle(p) /\ p # o => load.staged.domain # loading[p].staged.domain
  BY <1>1 DEF IInv, DomainsApart
<1>6. CASE segment.size = 0
  <2>1. loading' = [loading EXCEPT ![o] = [load EXCEPT !.next = n + 1]]
    BY <1>1, <1>6
  <2>2. loading'[o] = [load EXCEPT !.next = n + 1] /\ \A p \in Memories : p # o => loading'[p] = loading[p]
    BY <1>2, <2>1
  <2>3. loading'[o].image = i /\ loading'[o].next = n + 1 /\ loading'[o].staged = load.staged
    BY <1>3, <2>2
  <2>4. loading' \in [Memories -> [image : 0 .. Len(Images), next : Nat, staged : MemoryType]]
    BY <1>2, <1>3, <2>1
  <2>5. Staged(o)'
    <3>1. Parts(i, n + 1) = Parts(i, n)
      <4> HIDE DEF i, n, load
      <4>1. Parts(i, n + 1) = Parts(i, n) \cup
              (IF segment.size > 0 THEN {Region(segment.base, segment.size, 0, i)} ELSE {})
        BY <1>3, PartsNext
      <4>2. ~ (segment.size > 0)
        BY <1>6
      <4> QED BY <4>1, <4>2
    <3>2. n + 1 \in 1 .. Len(Images[i]) + 1
      BY <1>3
    <3>3. mem' = mem
      BY <1>1
    <3> QED BY <1>2, <2>3, <3>1, <3>2, <3>3 DEF Staged
  <2>6. domains' \in Nat /\ domains <= domains' /\ loading'[o].staged.domain = load.staged.domain
    BY <1>1, <1>2, <2>3
  <2>7. /\ Good(loading'[o].staged)
        /\ loading'[o].staged.domain \in 1 .. domains'
        /\ \A p \in Memories : loading'[o].staged.domain # mem[p].domain
        /\ \A p \in Memories : ~ Idle(p) /\ p # o =>
             loading'[o].staged.domain # loading[p].staged.domain
    <3> HIDE DEF load
    <3> QED BY <1>1, <1>2, <1>5, <2>3, <2>6
  <2>8. mem' = mem /\ issued' = issued /\ held' = held /\ ids' = ids
    BY <1>1
  <2>9. \A p \in Memories : p # o => loading'[p] = loading[p]
    BY <2>2
  <2> QED BY <2>4, <2>5, <2>6, <2>7, <2>8, <2>9, LoadFrame
<1>7. CASE segment.size # 0 /\ CanMap(load.staged, segment.base, segment.size)
  <2> DEFINE staged == Mapped(load.staged, segment.base, segment.size, 0, i)
             r == Region(segment.base, segment.size, 0, i)
  <2>0. loading' = [loading EXCEPT ![o] = [load EXCEPT !.next = n + 1, !.staged = staged]]
    BY <1>1, <1>7
  <2>1. /\ Good(staged) /\ staged.regions = load.staged.regions \cup {r}
        /\ staged.domain = load.staged.domain
        /\ staged.live = load.staged.live
    <3> HIDE DEF segment, i, load
    <3>1. segment.size > 0 /\ i \in 0 .. Len(Images) /\ 0 \in Nat
      BY <1>2, <1>3, <1>7, <1>8
    <3> QED BY <1>2, <1>7, <1>8, <3>1, MapGood
  <2> HIDE DEF staged
  <2>2. /\ loading'[o] = [load EXCEPT !.next = n + 1, !.staged = staged]
        /\ \A p \in Memories : p # o => loading'[p] = loading[p]
    BY <1>2, <2>0
  <2>3. loading'[o].image = i /\ loading'[o].next = n + 1 /\ loading'[o].staged = staged
    BY <1>3, <2>2
  <2>4. loading' \in [Memories -> [image : 0 .. Len(Images), next : Nat, staged : MemoryType]]
    <3>1. n + 1 \in Nat /\ staged \in MemoryType
      <4> HIDE DEF n, i
      <4>1. n \in Nat
        BY <1>3
      <4>2. staged \in MemoryType
        BY <2>1 DEF Good
      <4> QED BY <4>1, <4>2
    <3>2. [load EXCEPT !.next = n + 1, !.staged = staged] \in
            [image : 0 .. Len(Images), next : Nat, staged : MemoryType]
      <4> HIDE DEF load, n
      <4> QED BY <1>3, <3>1
    <3> QED BY <1>2, <2>0, <3>2
  <2>5. Staged(o)'
    <3>1. Parts(i, n + 1) = Parts(i, n) \cup {r}
      <4>1. i \in 1 .. Len(Images) /\ n \in 1 .. Len(Images[i]) /\ Images[i][n].size > 0
        BY <1>3, <1>7, <1>8
      <4> HIDE DEF n, i, load
      <4> QED BY <4>1, PartsNext
    <3>2. n + 1 \in 1 .. Len(Images[i]) + 1
      BY <1>3
    <3>3. mem' = mem
      BY <1>1
    <3>4. r.image = i
      BY DEF Region
    <3>5. \A j \in 1 .. Len(Images) :
            OfImage(staged.regions, j) = OfImage(load.staged.regions, j) \cup (IF j = i THEN {r} ELSE {})
      BY <2>1, <3>4 DEF OfImage
    <3>6. \A j \in 1 .. Len(Images) :
            OfImage(staged.regions, j) =
              OfImage(mem[o].regions, j) \cup (IF j = i THEN Parts(j, n + 1) ELSE {})
      <4>1. \A j \in 1 .. Len(Images) :
              OfImage(load.staged.regions, j) =
                OfImage(mem[o].regions, j) \cup (IF j = i THEN Parts(j, n) ELSE {})
        BY <1>2 DEF Staged
      <4> HIDE DEF r, i, n, load
      <4> QED BY <3>1, <3>5, <4>1
    <3> QED BY <1>2, <2>1, <2>3, <3>2, <3>3, <3>6 DEF Staged
  <2>6. /\ domains' \in Nat /\ domains <= domains'
        /\ loading'[o].staged.domain = load.staged.domain
    <3>1. domains' = domains /\ domains \in Nat
      BY <1>1, <1>2
    <3>2. loading'[o].staged = staged
      BY <2>3
    <3>3. staged.domain = load.staged.domain
      BY <2>1
    <3> HIDE DEF load
    <3> QED BY <3>1, <3>2, <3>3
  <2>7. /\ Good(loading'[o].staged)
        /\ loading'[o].staged.domain \in 1 .. domains'
        /\ \A p \in Memories : loading'[o].staged.domain # mem[p].domain
        /\ \A p \in Memories : ~ Idle(p) /\ p # o =>
             loading'[o].staged.domain # loading[p].staged.domain
    <3> HIDE DEF load
    <3> QED BY <1>1, <1>2, <1>5, <2>3, <2>6, <2>1
  <2>8. mem' = mem /\ issued' = issued /\ held' = held /\ ids' = ids
    BY <1>1
  <2>9. \A p \in Memories : p # o => loading'[p] = loading[p]
    BY <2>2
  <2> QED BY <2>4, <2>5, <2>6, <2>7, <2>8, <2>9, LoadFrame
<1>9. CASE segment.size # 0 /\ ~ CanMap(load.staged, segment.base, segment.size)
  BY <1>1, <1>9, AbandonInv
<1> QED BY <1>6, <1>7, <1>9

\* The memory after a load has the domain of the copy, which no token names, and
\* all the mappings it had before.
LEMMA CommitLoadInv ==
  ASSUME IInv, NEW o \in Memories, CommitLoad(o)
  PROVE  IInv'
<1> DEFINE load == loading[o]
           i == load.image
<1>1. /\ ~ Idle(o) /\ load.next > Len(Images[i])
      /\ mem' = [mem EXCEPT ![o] = load.staged]
      /\ loading' = [loading EXCEPT ![o] = NoLoad]
      /\ UNCHANGED <<issued, held, domains, ids>>
  BY DEF CommitLoad
<1>2. /\ loading \in [Memories -> [image : 0 .. Len(Images), next : Nat, staged : MemoryType]]
      /\ mem \in [Memories -> MemoryType] /\ Good(mem[o]) /\ Good(load.staged) /\ Staged(o)
      /\ Len(Images) \in Nat
  BY <1>1, MemoryAssumption DEF IInv, TypeOK
<1>3. i \in 1 .. Len(Images) /\ load.next = Len(Images[i]) + 1
  <2>1. i \in 1 .. Len(Images)
    BY <1>1, <1>2 DEF Idle
  <2>2. load.next \in 1 .. Len(Images[i]) + 1 /\ Len(Images[i]) \in Nat
    BY <1>2, <2>1, ImageType DEF Staged
  <2> QED BY <1>1, <2>1, <2>2
<1>4. /\ mem'[o] = load.staged /\ loading'[o] = NoLoad
      /\ \A p \in Memories : p # o => mem'[p] = mem[p] /\ loading'[p] = loading[p]
  BY <1>1, <1>2
<1>5. NoLoad \in [image : 0 .. Len(Images), next : Nat, staged : MemoryType]
      /\ Good(NoLoad.staged) /\ NoLoad.image = 0
  BY NoLoadType
<1>6. TypeOK'
  <2>1. mem' \in [Memories -> MemoryType]
    BY <1>1, <1>2 DEF Good
  <2>2. loading' \in [Memories -> [image : 0 .. Len(Images), next : Nat, staged : MemoryType]]
    BY <1>1, <1>2, <1>5
  <2> QED BY <1>1, <2>1, <2>2 DEF IInv, TypeOK
<1>7. \A p \in Memories : Good(mem[p])' /\ Good(loading[p].staged)'
  BY <1>2, <1>4, <1>5 DEF IInv
<1>8. Idle(o)' /\ \A p \in Memories : p # o => (Idle(p)' <=> Idle(p))
  BY <1>4, <1>5 DEF Idle
<1>9. DomainsApart'
  BY <1>1, <1>4, <1>8 DEF IInv, DomainsApart
<1>10. Owned(mem[o].regions) = {} /\ Owned(load.staged.regions) = {}
  <2>1. \A R : Proper(R) /\ Cardinality(Owned(R)) = 0 => Owned(R) = {}
    BY OwnedProper, FS_EmptySet DEF Proper
  <2> QED BY <1>2, <2>1 DEF Staged, Good
<1>11. TokensMatch'
  <2>1. ASSUME NEW t \in held PROVE \E p \in Memories :
          mem'[p].domain = t.domain /\ Region(t.base, t.size, t.id, 0) \in mem'[p].regions
    <3>1. PICK p \in Memories :
            mem[p].domain = t.domain /\ Region(t.base, t.size, t.id, 0) \in mem[p].regions
      BY DEF IInv, TokensMatch
    <3>2. Region(t.base, t.size, t.id, 0).owner # 0
      <4>1. t.id \in 1 .. ids /\ ids \in Nat
        BY DEF IInv, TokensMatch, TypeOK
      <4> QED BY <4>1 DEF Region
    <3>3. p # o
      BY <1>10, <3>1, <3>2 DEF Owned
    <3> QED BY <1>4, <3>1, <3>3
  <2>2. \A p \in Memories : \A r \in Owned(mem'[p].regions) :
          Token(mem'[p].domain, r.owner, r.base, r.size) \in held
    BY <1>4, <1>10 DEF IInv, TokensMatch
  <2> QED BY <1>1, <2>1, <2>2 DEF IInv, TokensMatch
<1>12. \A p \in Memories : ~ Idle(p)' => Staged(p)'
  BY <1>4, <1>8, StagedFrame DEF IInv
<1>13. NoPartialImage'
  <2> SUFFICES ASSUME NEW p \in Memories, NEW j \in 1 .. Len(Images)
               PROVE  OfImage(mem'[p].regions, j) \in {{}, Parts(j, Len(Images[j]) + 1)}
    BY DEF NoPartialImage
  <2>1. OfImage(mem[p].regions, j) \in {{}, Parts(j, Len(Images[j]) + 1)}
    BY DEF IInv, NoPartialImage
  <2>2. CASE p # o
    BY <1>4, <2>1, <2>2
  <2>3. CASE p = o
    <3>1. OfImage(load.staged.regions, j) =
            OfImage(mem[o].regions, j) \cup (IF j = i THEN Parts(j, load.next) ELSE {})
      BY <1>2 DEF Staged
    <3> QED BY <1>3, <1>4, <2>1, <2>3, <3>1
  <2> QED BY <2>2, <2>3
<1> QED BY <1>6, <1>7, <1>9, <1>11, <1>12, <1>13 DEF IInv

\* Every step preserves the invariant.
LEMMA NextInv == IInv /\ [Next]_vars => IInv'
<1> SUFFICES ASSUME IInv, [Next]_vars PROVE IInv'
  OBVIOUS
<1>1. CASE UNCHANGED vars
  BY <1>1, RefuseInv
<1>2. ASSUME NEW o \in Memories, NEW b \in Addr, NEW s \in Addr, Map(o, b, s) \/ MapOwned(o, b, s)
      PROVE  IInv'
  BY <1>2, MapInv, MapOwnedInv
<1>3. ASSUME NEW o \in Memories, NEW token \in issued \cup {EmptyToken}, Release(o, token)
      PROVE  IInv'
  BY <1>3, ReleaseInv
<1>4. ASSUME NEW o \in Memories, NEW image \in 1 .. Len(Images), BeginLoad(o, image)
      PROVE  IInv'
  BY <1>4, BeginLoadInv
<1>5. ASSUME NEW o \in Memories, LoadSegment(o) PROVE IInv'
  BY <1>5, LoadSegmentInv
<1>6. ASSUME NEW o \in Memories, LoadRunsOut(o) PROVE IInv'
  BY <1>6, AbandonInv DEF LoadRunsOut
<1>7. ASSUME NEW o \in Memories, CommitLoad(o) PROVE IInv'
  BY <1>7, CommitLoadInv
<1> QED BY <1>1, <1>2, <1>3, <1>4, <1>5, <1>6, <1>7 DEF Next

\* IInv is an inductive invariant of the memories of a process.
THEOREM Invariance == Spec => []IInv
  BY InitInv, NextInv, PTL DEF Spec

-----------------------------------------------------------------------------
(* The properties. *)

\* Every variable keeps its type, through any calls.
THEOREM TypeCorrect == Spec => []TypeOK
<1>1. IInv => TypeOK
  BY DEF IInv
<1> QED BY <1>1, Invariance, PTL

\* The mappings of a memory never overlap, are never empty and never wrap,
\* although map_bytes looks at two of them only.
THEOREM NeverOverlap == Spec => []MappingsDisjoint
<1>1. IInv => MappingsDisjoint
  BY DEF IInv, Good, Proper, Disjoint, MappingsDisjoint
<1> QED BY <1>1, Invariance, PTL

\* The comparison with the two neighbours is exact in every reachable memory.
THEOREM NeighboursAreEnough == Spec => []NeighboursSuffice
<1>1. IInv => NeighboursSuffice
  <2> SUFFICES ASSUME IInv, NEW o \in Memories, NEW b \in Addr, NEW s \in 1 .. MaxAddr - b
               PROVE  NeighboursClear(mem[o].regions, b, s)
                        <=> \A r \in mem[o].regions : ~ Overlaps(r, b, s)
    BY DEF NeighboursSuffice
  <2>1. s \in Addr /\ s > 0
    BY MaxAddrNat DEF Addr
  <2>2. Proper(mem[o].regions)
    BY DEF IInv, Good
  <2> QED BY <2>1, <2>2, NeighboursDecide
<1> QED BY <1>1, Invariance, PTL

\* find_region is exact in every reachable memory.
THEOREM FindsTheMapping == Spec => []FindRegionExact
<1>1. IInv => FindRegionExact
  BY FindExact DEF IInv, Good, FindRegionExact
<1> QED BY <1>1, Invariance, PTL

\* The counters of a memory are those of its mappings.
THEOREM CountersExact == Spec => []AccountingExact
<1>1. IInv => AccountingExact
  BY DEF IInv, Good, AccountingExact
<1> QED BY <1>1, Invariance, PTL

\* A token can be given back until it is: nothing done to the memory in between
\* makes release_owned refuse it.
THEOREM TokensStayGood == Spec => []HeldTokenReleasable
<1>1. IInv => HeldTokenReleasable
  <2> SUFFICES ASSUME IInv, NEW token \in held
               PROVE  \E o \in Memories : CanRelease(mem[o], token)
    BY DEF HeldTokenReleasable
  <2>1. PICK o \in Memories : /\ mem[o].domain = token.domain
                             /\ Region(token.base, token.size, token.id, 0) \in mem[o].regions
    BY DEF IInv, TokensMatch
  <2>2. token \in issued /\ token \in Tokens /\ ids \in Nat /\ domains \in Nat
    BY DEF IInv, TypeOK
  <2>3. token.id # 0 /\ token.domain # 0
    BY <2>2 DEF IInv, TokensMatch
  <2> QED BY <2>1, <2>2, <2>3, Releasable DEF IInv
<1> QED BY <1>1, Invariance, PTL

\* An image is mapped as a whole or not at all.
THEOREM ImagesAreWhole == Spec => []NoPartialImage
<1>1. IInv => NoPartialImage
  BY DEF IInv
<1> QED BY <1>1, Invariance, PTL

\* What a step that takes a mapping away has to be.
LEMMA OnlyHolder ==
  ASSUME IInv, IInv', Next, NEW o \in Memories, ~ (mem[o].regions \subseteq mem'[o].regions)
  PROVE  \E token \in held :
           /\ token \notin held'
           /\ mem[o].regions \ mem'[o].regions = Named(mem[o], token)
           /\ mem'[o].regions \subseteq mem[o].regions
           /\ \A p \in Memories \ {o} : mem'[p] = mem[p]
<1>0. /\ mem \in [Memories -> MemoryType] /\ \A p \in Memories : Good(mem[p])
      /\ loading \in [Memories -> [image : 0 .. Len(Images), next : Nat, staged : MemoryType]]
      /\ ids \in Nat /\ domains \in Nat
  BY DEF IInv, TypeOK
<1>1. ASSUME NEW q \in Memories, NEW b \in Addr, NEW s \in Addr, Map(q, b, s) \/ MapOwned(q, b, s)
      PROVE  FALSE
  <2>1. PICK owner \in Nat : s > 0 /\ CanMap(mem[q], b, s) /\
                             mem' = [mem EXCEPT ![q] = Mapped(mem[q], b, s, owner, 0)]
    BY <1>0, <1>1 DEF Map, MapOwned, Refuse, vars
  <2>2. mem'[q].regions = mem[q].regions \cup {Region(b, s, owner, 0)}
    <3>1. 0 \in 0 .. Len(Images)
      BY MemoryAssumption
    <3> QED BY <1>0, <2>1, <3>1, MapGood
  <2> QED BY <1>0, <2>1, <2>2
<1>2. ASSUME NEW q \in Memories, NEW token \in issued \cup {EmptyToken}, Release(q, token)
      PROVE  /\ token \in held /\ token \notin held'
             /\ mem[o].regions \ mem'[o].regions = Named(mem[o], token)
             /\ mem'[o].regions \subseteq mem[o].regions
             /\ \A p \in Memories \ {o} : mem'[p] = mem[p]
  <2>1. CanRelease(mem[q], token)
    BY <1>2 DEF Release, Refuse, vars
  <2>2. mem' = [mem EXCEPT ![q] = Released(mem[q], token)] /\ held' = held \ {token}
    BY <1>2, <2>1 DEF Release
  <2>3. q = o /\ \A p \in Memories \ {o} : mem'[p] = mem[p]
    BY <1>0, <2>2
  <2>4. PICK r \in Named(mem[o], token) : TRUE
    BY <2>1, <2>3 DEF CanRelease
  <2>5. /\ Named(mem[o], token) = {r} /\ r \in mem[o].regions /\ r.owner # 0
        /\ r = Region(token.base, token.size, token.id, 0) /\ token.domain = mem[o].domain
    BY <1>0, <2>4, NamedOne
  <2>6. mem'[o].regions = mem[o].regions \ {r}
    BY <1>0, <2>1, <2>2, <2>3, <2>4, ReleaseGood
  <2>7. token \in held
    <3>1. Token(mem[o].domain, r.owner, r.base, r.size) \in held
      BY <2>5 DEF IInv, TokensMatch, Owned
    <3>2. r.owner = token.id /\ r.base = token.base /\ r.size = token.size
      BY <2>5 DEF Region
    <3>3. token \in Tokens
      BY <2>4 DEF Named, EmptyToken, Token, IInv, TypeOK
    <3>4. token = Token(token.domain, token.id, token.base, token.size)
      BY <3>3 DEF Tokens, Token
    <3> QED BY <2>5, <3>1, <3>2, <3>4
  <2> QED BY <2>2, <2>3, <2>5, <2>6, <2>7
<1>3. ASSUME NEW q \in Memories,
             (\E image \in 1 .. Len(Images) : BeginLoad(q, image)) \/ LoadSegment(q) \/ LoadRunsOut(q)
      PROVE  FALSE
  <2>1. mem' = mem
    BY <1>3 DEF BeginLoad, LoadSegment, LoadRunsOut, Refuse, vars
  <2> QED BY <2>1
<1>4. ASSUME NEW q \in Memories, CommitLoad(q) PROVE FALSE
  <2>1. mem' = [mem EXCEPT ![q] = loading[q].staged] /\ ~ Idle(q)
    BY <1>4 DEF CommitLoad
  <2>2. mem[q].regions \subseteq loading[q].staged.regions
    BY <2>1 DEF IInv, Staged
  <2> QED BY <1>0, <2>1, <2>2
<1> QED BY <1>1, <1>2, <1>3, <1>4 DEF Next

\* Only the release of the token handed out for a mapping takes it away, once.
THEOREM HoldersOnly == Spec => OnlyTheHolderReleases
<1> DEFINE Step == \A o \in Memories : ~ (mem[o].regions \subseteq mem'[o].regions) =>
       \E token \in held :
         /\ token \notin held'
         /\ mem[o].regions \ mem'[o].regions = Named(mem[o], token)
         /\ mem'[o].regions \subseteq mem[o].regions
         /\ \A p \in Memories \ {o} : mem'[p] = mem[p]
<1>1. IInv /\ IInv' /\ [Next]_vars => [Step]_vars
  BY OnlyHolder
<1>2. Spec => [][Step]_vars
  <2> HIDE DEF Step
  <2> QED BY <1>1, Invariance, PTL DEF Spec
<1> QED BY <1>2 DEF OnlyTheHolderReleases

-----------------------------------------------------------------------------
(* The address space that the mappings implement. *)

\* Mappings of one user, none of which contains an address of the others.
Claim(N, R, x, y) ==
  /\ \A r \in N : r.owner = x /\ r.image = y
  /\ \A r \in N, q \in R : \A a \in Addr : ~ (Contains(r, a) /\ Contains(q, a))

Reached(N) == {a \in Addr : \E r \in N : Contains(r, a)}

\* Mappings added clear of the others take the addresses they contain, which
\* nobody used, and no other.
LEMMA Taking ==
  ASSUME NEW R, NEW N, NEW x, NEW y, Claim(N, R, x, y), NEW a \in Addr
  PROVE  /\ a \in Reached(N) => UsersOf(R)[a] = {} /\ UsersOf(R \cup N)[a] = {<<x, y>>}
         /\ a \notin Reached(N) => UsersOf(R \cup N)[a] = UsersOf(R)[a]
<1>1. \A S : UsersOf(S)[a] = {<<r.owner, r.image>> : r \in {q \in S : Contains(q, a)}}
  BY DEF UsersOf
<1>2. CASE a \in Reached(N)
  <2>1. {q \in R : Contains(q, a)} = {}
    BY <1>2 DEF Claim, Reached
  <2>2. {q \in R \cup N : Contains(q, a)} = {q \in N : Contains(q, a)}
    BY <2>1
  <2>3. {<<r.owner, r.image>> : r \in {q \in N : Contains(q, a)}} = {<<x, y>>}
    BY <1>2 DEF Claim, Reached
  <2> QED BY <1>1, <1>2, <2>1, <2>2, <2>3
<1>3. CASE a \notin Reached(N)
  <2>1. {q \in R \cup N : Contains(q, a)} = {q \in R : Contains(q, a)}
    BY <1>3 DEF Reached
  <2> QED BY <1>1, <1>3, <2>1
<1> QED BY <1>2, <1>3

\* A step that adds such mappings to one memory is a taking of the abstract one.
LEMMA TakingMaps ==
  ASSUME NEW o \in Memories, NEW N, NEW x, NEW y, Claim(N, mem[o].regions, x, y),
         Reached(N) # {},
         mem'[o].regions = mem[o].regions \cup N,
         \A p \in Memories : p # o => mem'[p] = mem[p]
  PROVE  /\ Space!Changed(o) = Reached(N)
         /\ Space!Take(o, <<x, y>>)
         /\ Users' # Users
<1>1. /\ Users[o] = UsersOf(mem[o].regions) /\ Users'[o] = UsersOf(mem[o].regions \cup N)
      /\ \A p \in Memories \ {o} : Users'[p] = Users[p]
  BY DEF Users
<1>2. \A a \in Addr :
        /\ a \in Reached(N) => Users[o][a] = {} /\ Users'[o][a] = {<<x, y>>}
        /\ a \notin Reached(N) => Users'[o][a] = Users[o][a]
  BY <1>1, Taking
<1>3. Space!Changed(o) = {a \in Addr : Users'[o][a] # Users[o][a]}
  BY DEF Space!Changed, Space!Addresses, Addr
<1>4. Space!Changed(o) = Reached(N)
  <2>1. Reached(N) \subseteq Addr
    BY DEF Reached
  <2> QED BY <1>2, <1>3, <2>1
<1>5. Users' # Users
  BY <1>3, <1>4
<1>6. \A a \in Reached(N) : a \in Addr
  BY DEF Reached
<1> QED BY <1>1, <1>2, <1>4, <1>5, <1>6 DEF Space!Take, Space!Only

\* The addresses of a mapping, and of several.
LEMMA ExtentIs ==
  ASSUME NEW r, r.base \in Addr, r.size \in Addr, End(r) <= MaxAddr
  PROVE  {a \in Addr : Contains(r, a)} = Space!Extent(r.base, r.size)
  BY MaxAddrNat DEF Contains, End, Addr, Space!Extent

\* A range that may be mapped has no address of a mapping.
LEMMA ClearAddresses ==
  ASSUME NEW m, Good(m), NEW b \in Addr, NEW s \in Addr, s > 0, CanMap(m, b, s),
         NEW owner, NEW image, NEW q \in m.regions, NEW a \in Addr
  PROVE  ~ (Contains(Region(b, s, owner, image), a) /\ Contains(q, a))
<1>1. ~ Overlaps(q, b, s)
  BY NeighboursDecide DEF Good, CanMap
<1>2. q.base \in Nat /\ q.size \in Nat
  BY DEF Good, Proper, Regions, Addr
<1>3. Region(b, s, owner, image).base = b /\ Region(b, s, owner, image).size = s
  BY DEF Region
<1> QED BY <1>1, <1>2, <1>3, MaxAddrNat DEF Overlaps, Contains, End, Addr

\* One mapping, static or owned, at addresses clear of the neighbours.
LEMMA MappingTakes ==
  ASSUME IInv, NEW o \in Memories, NEW b \in Addr, NEW s \in Addr, s > 0,
         CanMap(mem[o], b, s), NEW owner \in Nat,
         mem' = [mem EXCEPT ![o] = Mapped(mem[o], b, s, owner, 0)]
  PROVE  /\ Space!Take(o, <<owner, 0>>)
         /\ Space!OneExtent(Space!Changed(o))
         /\ Users' # Users
<1> DEFINE r == Region(b, s, owner, 0)
<1>1. mem \in [Memories -> MemoryType] /\ Good(mem[o]) /\ 0 \in 0 .. Len(Images)
  BY MemoryAssumption DEF IInv, TypeOK
<1>2. mem'[o].regions = mem[o].regions \cup {r}
  <2>1. mem'[o] = Mapped(mem[o], b, s, owner, 0)
    BY <1>1
  <2> QED BY <1>1, <2>1, MapGood
<1>3. \A p \in Memories : p # o => mem'[p] = mem[p]
  OBVIOUS
<1>4. r.base = b /\ r.size = s /\ r.owner = owner /\ r.image = 0 /\ b + s <= MaxAddr
  BY DEF Region, CanMap
<1>5. \A q \in mem[o].regions, a \in Addr : ~ (Contains(r, a) /\ Contains(q, a))
  BY <1>1, ClearAddresses
<1>6. b \in Addr /\ Contains(r, b)
  BY <1>4, MaxAddrNat DEF Contains, End, Addr
<1>7. {a \in Addr : Contains(r, a)} = Space!Extent(b, s)
  BY <1>4, ExtentIs DEF End
<1> HIDE DEF r
<1>8. Reached({r}) = Space!Extent(b, s) /\ Reached({r}) # {}
  <2>1. Reached({r}) = {a \in Addr : Contains(r, a)}
    BY DEF Reached
  <2> QED BY <1>6, <1>7, <2>1
<1>10. Claim({r}, mem[o].regions, owner, 0)
  BY <1>4, <1>5 DEF Claim
<1>11. /\ Space!Changed(o) = Reached({r})
       /\ Space!Take(o, <<owner, 0>>)
       /\ Users' # Users
  BY <1>2, <1>3, <1>8, <1>10, TakingMaps
<1>12. Space!Changed(o) = Space!Extent(b, s)
  BY <1>8, <1>11
<1> QED BY <1>11, <1>12 DEF Space!OneExtent, Space!Addresses, Addr

\* A release gives back the addresses of one mapping, and the lease they were
\* given for: no other mapping has its identity.
LEMMA ReleaseReturns ==
  ASSUME IInv, NEW o \in Memories, NEW token \in issued \cup {EmptyToken}, Release(o, token),
         CanRelease(mem[o], token)
  PROVE  Space!Return(o) /\ Users' # Users
<1>1. /\ mem' = [mem EXCEPT ![o] = Released(mem[o], token)]
      /\ held' = held \ {token} /\ ids' = ids
  BY DEF Release
<1>2. mem \in [Memories -> MemoryType] /\ Good(mem[o])
  BY DEF IInv, TypeOK
<1>3. PICK r \in Named(mem[o], token) : TRUE
  BY DEF CanRelease
<1>4. /\ r \in mem[o].regions /\ r.owner # 0
      /\ r = Region(token.base, token.size, token.id, 0)
      /\ token.domain = mem[o].domain
  BY <1>2, <1>3, NamedOne
<1>5. r.base = token.base /\ r.size = token.size /\ r.owner = token.id /\ r.image = 0
  BY <1>4 DEF Region
<1>6. mem'[o].regions = mem[o].regions \ {r}
  BY <1>1, <1>2, <1>3, ReleaseGood
<1>7. \A p \in Memories \ {o} : mem'[p] = mem[p]
  BY <1>1, <1>2
<1>8. token \in held
  <2>1. Token(mem[o].domain, r.owner, r.base, r.size) \in held
    BY <1>4 DEF IInv, TokensMatch, Owned
  <2>2. token \in Tokens
    BY <1>3 DEF Named, EmptyToken, Token, IInv, TypeOK
  <2>3. token = Token(token.domain, token.id, token.base, token.size)
    BY <2>2 DEF Tokens, Token
  <2> QED BY <1>4, <1>5, <2>1, <2>3
<1>9. InForce' = InForce \ {token.id} /\ token.id \in InForce
  <2>1. \A t \in held : t.id = token.id => t = token
    BY <1>8 DEF IInv, TokensMatch, TypeOK
  <2> QED BY <1>1, <1>8, <2>1 DEF InForce
<1>10. ASSUME NEW q \in mem[o].regions, q.owner = token.id PROVE q = r
  <2>1. Token(mem[o].domain, q.owner, q.base, q.size) \in held
    BY <1>4, <1>5, <1>10 DEF IInv, TokensMatch, Owned
  <2>2. Token(mem[o].domain, q.owner, q.base, q.size) = token
    BY <1>8, <1>10, <2>1 DEF IInv, TokensMatch, TypeOK, Token
  <2>3. q.base = r.base /\ q.size = r.size
    BY <1>5, <2>2 DEF Token
  <2>4. q \in Regions /\ r \in Regions /\ q.image = 0
    BY <1>2, <1>4, <1>5, <1>10 DEF Good, Proper
  <2> QED BY <1>5, <1>10, <2>3, <2>4 DEF Regions
<1>11. \A a \in Addr :
         /\ Contains(r, a) => Users[o][a] = {<<token.id, 0>>} /\ Users'[o][a] = {}
         /\ ~ Contains(r, a) => Users'[o][a] = Users[o][a] /\ <<token.id, 0>> \notin Users[o][a]
  <2> SUFFICES ASSUME NEW a \in Addr
               PROVE  /\ Contains(r, a) => Users[o][a] = {<<token.id, 0>>} /\ Users'[o][a] = {}
                      /\ ~ Contains(r, a) => /\ Users'[o][a] = Users[o][a]
                                             /\ <<token.id, 0>> \notin Users[o][a]
    OBVIOUS
  <2> DEFINE at == {q \in mem[o].regions : Contains(q, a)}
             left == {q \in mem[o].regions \ {r} : Contains(q, a)}
  <2>1. /\ Users[o][a] = {<<q.owner, q.image>> : q \in at}
        /\ Users'[o][a] = {<<q.owner, q.image>> : q \in left}
    BY <1>6 DEF Users, UsersOf
  <2>2. CASE Contains(r, a)
    <3>1. ASSUME NEW q \in at PROVE q = r
      <4>1. Disjoint(mem[o].regions) /\ q \in Regions /\ r \in Regions
        BY <1>2, <1>4 DEF Good, Proper
      <4> QED BY <1>4, <2>2, <4>1, MaxAddrNat DEF Disjoint, Contains, End, Regions, Addr
    <3>2. at = {r} /\ left = {}
      BY <1>4, <2>2, <3>1
    <3> QED BY <1>5, <2>1, <2>2, <3>2
  <2>3. CASE ~ Contains(r, a)
    <3>1. left = at /\ r \notin at
      BY <2>3
    <3>2. \A q \in at : q.owner # token.id
      BY <1>10, <3>1
    <3> HIDE DEF at, left
    <3> QED BY <2>1, <2>3, <3>1, <3>2
  <2> QED BY <2>2, <2>3
<1>12. Space!Changed(o) = {a \in Addr : Contains(r, a)}
  <2>1. Space!Changed(o) = {a \in Addr : Users'[o][a] # Users[o][a]}
    BY DEF Space!Changed, Space!Addresses, Addr
  <2>2. \A a \in Addr : Contains(r, a) => Users'[o][a] # Users[o][a]
    BY <1>11
  <2> QED BY <1>11, <2>1, <2>2
<1>13. token.base \in Addr /\ Contains(r, token.base)
  <2>1. r \in Regions /\ r.size > 0
    BY <1>2, <1>4 DEF Good, Proper
  <2> QED BY <1>5, <2>1, MaxAddrNat DEF Contains, End, Regions, Addr
<1>14. Users' # Users
  BY <1>11, <1>13
<1>15. Space!Only(o)
  <2>1. \A p \in Memories \ {o} : Users'[p] = Users[p]
    BY <1>7 DEF Users
  <2> QED BY <1>12, <1>13, <2>1 DEF Space!Only
<1>16. Space!Changed(o) = {a \in Space!Addresses : Space!Holder(token.id) \in Users[o][a]}
  BY <1>11, <1>12 DEF Space!Holder, Space!Addresses, Addr
<1>17. \A a \in Space!Changed(o) : Users'[o][a] = {}
  BY <1>11, <1>12
<1> QED BY <1>1, <1>9, <1>14, <1>15, <1>16, <1>17 DEF Space!Return

\* What a load has staged: the memory, and the segments so far at addresses that
\* neither the memory nor another segment has.
StagedExactly(o) ==
  LET i == loading[o].image
      n == loading[o].next
      R == mem[o].regions
  IN /\ loading[o].staged.regions = R \cup Parts(i, n)
     /\ R \cap Parts(i, n) = {}
     /\ \A j, k \in 1 .. n - 1 :
          j < k => Space!SegmentExtent(i, j) \cap Space!SegmentExtent(i, k) = {}

LoadsExact == \A o \in Memories : ~ Idle(o) => StagedExactly(o)

\* A load is as exact as it was when neither it nor its memory changes.
LEMMA ExactFrame ==
  ASSUME NEW p \in Memories, mem'[p] = mem[p], loading'[p] = loading[p],
         ~ Idle(p) => StagedExactly(p), ~ Idle(p)'
  PROVE  StagedExactly(p)'
<1>1. ~ Idle(p) /\ StagedExactly(p)
  BY DEF Idle
<1> DEFINE i == loading[p].image
           n == loading[p].next
           S == loading[p].staged.regions
           R == mem[p].regions
<1>2. i' = i /\ n' = n /\ S' = S /\ R' = R
  OBVIOUS
<1>3. /\ S = R \cup Parts(i, n)
      /\ R \cap Parts(i, n) = {}
      /\ \A j, k \in 1 .. n - 1 :
           j < k => Space!SegmentExtent(i, j) \cap Space!SegmentExtent(i, k) = {}
  BY <1>1 DEF StagedExactly
<1>4. /\ S' = R' \cup Parts(i', n')
      /\ R' \cap Parts(i', n') = {}
      /\ \A j, k \in 1 .. n' - 1 :
           j < k => Space!SegmentExtent(i', j) \cap Space!SegmentExtent(i', k) = {}
  <2> HIDE DEF i, n, S, R
  <2> QED BY <1>2, <1>3
<1> QED BY <1>4 DEF StagedExactly

\* Nothing is staged before the first segment.
LEMMA BeginExact ==
  ASSUME IInv, NEW o \in Memories, NEW image \in 1 .. Len(Images), BeginLoad(o, image),
         CanCopy(mem[o])
  PROVE  StagedExactly(o)'
<1>1. /\ loading' = [loading EXCEPT ![o] = Load(image, [mem[o] EXCEPT !.domain = domains + 1])]
      /\ mem' = mem
  BY DEF BeginLoad
<1>2. /\ loading \in [Memories -> [image : 0 .. Len(Images), next : Nat, staged : MemoryType]]
      /\ mem[o] \in MemoryType
  BY DEF IInv, TypeOK
<1>3. loading'[o] = Load(image, [mem[o] EXCEPT !.domain = domains + 1])
  BY <1>1, <1>2
<1>4. /\ loading'[o].image = image /\ loading'[o].next = 1
      /\ loading'[o].staged.regions = mem[o].regions
  BY <1>2, <1>3 DEF Load, MemoryType
<1>5. Parts(image, 1) = {}
  BY DEF Parts
<1> QED BY <1>1, <1>4, <1>5 DEF StagedExactly

\* A segment is staged at addresses that nothing staged has.
LEMMA SegmentExact ==
  ASSUME IInv, NEW o \in Memories, LoadSegment(o), StagedExactly(o), ~ Idle(o)'
  PROVE  StagedExactly(o)'
<1> DEFINE load == loading[o]
           i == load.image
           n == load.next
           segment == Images[i][n]
           r == Region(segment.base, segment.size, 0, i)
           R == mem[o].regions
           S == load.staged.regions
           Clear(j, k) == Space!SegmentExtent(i, j) \cap Space!SegmentExtent(i, k) = {}
<1>1. /\ ~ Idle(o) /\ n <= Len(Images[i])
      /\ loading' = [loading EXCEPT ![o] =
           IF segment.size = 0 THEN [load EXCEPT !.next = @ + 1]
           ELSE IF CanMap(load.staged, segment.base, segment.size)
                THEN [load EXCEPT !.next = @ + 1,
                        !.staged = Mapped(@, segment.base, segment.size, 0, i)]
                ELSE NoLoad]
      /\ mem' = mem
  BY DEF LoadSegment
<1>2. /\ loading \in [Memories -> [image : 0 .. Len(Images), next : Nat, staged : MemoryType]]
      /\ Len(Images) \in Nat /\ Good(load.staged) /\ Staged(o)
  BY <1>1, MemoryAssumption DEF IInv, TypeOK
<1>3. /\ i \in 1 .. Len(Images) /\ n \in 1 .. Len(Images[i]) /\ Len(Images[i]) \in Nat
      /\ load \in [image : 0 .. Len(Images), next : Nat, staged : MemoryType]
  <2>1. i \in 1 .. Len(Images)
    BY <1>1, <1>2 DEF Idle
  <2>2. n \in 1 .. Len(Images[i]) + 1
    BY <1>2 DEF Staged
  <2> QED BY <1>1, <1>2, <2>1, <2>2, ImageType
<1>4. segment.base \in Addr /\ segment.size \in Addr
  <2>1. segment \in Segments
    BY <1>3, ImageType
  <2> QED BY <2>1 DEF Segments
<1>5. S = R \cup Parts(i, n) /\ R \cap Parts(i, n) = {}
      /\ \A j, k \in 1 .. n - 1 : j < k => Clear(j, k)
  BY DEF StagedExactly
<1>6. Space!SegmentExtent(i, n) = Space!Extent(segment.base, segment.size)
  BY DEF Space!SegmentExtent
<1>7. Parts(i, n + 1) = Parts(i, n) \cup (IF segment.size > 0 THEN {r} ELSE {})
  <2> HIDE DEF i, n
  <2> QED BY <1>3, PartsNext
<1>8. /\ loading'[o].image = i /\ loading'[o].next = n + 1
      /\ loading'[o].staged.regions = S \cup (IF segment.size > 0 THEN {r} ELSE {})
      /\ segment.size = 0 \/ CanMap(load.staged, segment.base, segment.size)
  <2>1. CASE segment.size = 0
    <3>1. loading'[o] = [load EXCEPT !.next = n + 1]
      BY <1>1, <1>2, <2>1
    <3> QED BY <1>3, <2>1, <3>1
  <2>2. CASE segment.size # 0 /\ CanMap(load.staged, segment.base, segment.size)
    <3> DEFINE staged == Mapped(load.staged, segment.base, segment.size, 0, i)
    <3>1. loading'[o] = [load EXCEPT !.next = n + 1, !.staged = staged]
      BY <1>1, <1>2, <2>2
    <3>2. segment.size > 0
      BY <1>4, <2>2, MaxAddrNat DEF Addr
    <3>3. staged.regions = S \cup {r}
      <4> HIDE DEF segment, i, load
      <4>1. i \in 0 .. Len(Images) /\ 0 \in Nat
        BY <1>2, <1>3
      <4>2. Mapped(load.staged, segment.base, segment.size, 0, i).regions =
              load.staged.regions \cup {Region(segment.base, segment.size, 0, i)}
        BY <1>2, <1>4, <2>2, <3>2, <4>1, MapGood
      <4> QED BY <4>2
    <3> HIDE DEF staged
    <3>4. loading'[o].image = i /\ loading'[o].next = n + 1 /\ loading'[o].staged = staged
      BY <1>3, <3>1
    <3> QED BY <2>2, <3>2, <3>3, <3>4
  <2>3. CASE segment.size # 0 /\ ~ CanMap(load.staged, segment.base, segment.size)
    <3>1. loading'[o] = NoLoad
      BY <1>1, <1>2, <2>3
    <3> QED BY <3>1, NoLoadType DEF Idle
  <2> QED BY <2>1, <2>2, <2>3
<1>9. segment.size > 0 => r \notin S /\ \A q \in S, a \in Addr : ~ (Contains(r, a) /\ Contains(q, a))
  <2> SUFFICES ASSUME segment.size > 0
               PROVE  r \notin S /\ \A q \in S, a \in Addr : ~ (Contains(r, a) /\ Contains(q, a))
    OBVIOUS
  <2>1. CanMap(load.staged, segment.base, segment.size)
    BY <1>8
  <2>2. \A q \in S, a \in Addr : ~ (Contains(r, a) /\ Contains(q, a))
    <3> HIDE DEF segment, i, load
    <3>1. \A q \in load.staged.regions, a \in Addr :
            ~ (Contains(Region(segment.base, segment.size, 0, i), a) /\ Contains(q, a))
      BY <1>2, <1>4, <2>1, ClearAddresses
    <3> QED BY <3>1
  <2>3. Contains(r, segment.base)
    <3>1. r.base = segment.base /\ r.size = segment.size
      BY DEF Region
    <3> HIDE DEF r, segment
    <3> QED BY <1>4, <3>1, MaxAddrNat DEF Contains, End, Addr
  <2> HIDE DEF r, S
  <2> QED BY <1>4, <2>2, <2>3
<1>10. ASSUME NEW j \in 1 .. n - 1 PROVE Clear(j, n)
  <2> DEFINE before == Images[i][j]
             q == Region(before.base, before.size, 0, i)
  <2>1. j \in 1 .. Len(Images[i]) /\ j < n
    <3> HIDE DEF i, n
    <3> QED BY <1>3
  <2>2. before.base \in Addr /\ before.size \in Addr
    <3>1. before \in Segments
      BY <1>3, <2>1, ImageType
    <3> QED BY <3>1 DEF Segments
  <2>3. Space!SegmentExtent(i, j) = Space!Extent(before.base, before.size)
    BY DEF Space!SegmentExtent
  <2>4. ASSUME NEW a \in Space!Extent(before.base, before.size), a \in Space!Extent(segment.base, segment.size)
        PROVE  FALSE
    <3> HIDE DEF before, segment
    <3>1. /\ before.size > 0 /\ segment.size > 0
          /\ a \in Int /\ before.base <= a /\ a < before.base + before.size
          /\ segment.base <= a /\ a < segment.base + segment.size
      BY <1>4, <2>2, <2>4, MaxAddrNat DEF Space!Extent, Addr
    <3>2. CanMap(load.staged, segment.base, segment.size)
      BY <1>4, <1>8, <3>1
    <3>3. a \in Addr
      BY <1>4, <3>1, <3>2, MaxAddrNat DEF CanMap, Addr
    <3>4. q \in S
      BY <1>5, <2>1, <3>1 DEF Parts, before
    <3>5. Contains(q, a) /\ Contains(r, a)
      BY <3>1 DEF Contains, End, Region
    <3> QED BY <1>9, <3>1, <3>3, <3>4, <3>5
  <2> HIDE DEF before, segment
  <2> QED BY <1>6, <2>3, <2>4
<1>11. /\ loading'[o].staged.regions = R \cup Parts(i, n + 1)
       /\ R \cap Parts(i, n + 1) = {}
  <2>1. segment.size > 0 => r \notin S
    BY <1>9
  <2>2. S = R \cup Parts(i, n) /\ R \cap Parts(i, n) = {}
    BY <1>5
  <2>3. loading'[o].staged.regions = S \cup (IF segment.size > 0 THEN {r} ELSE {})
    BY <1>8
  <2> HIDE DEF R, S, i, n, r, segment
  <2>4. CASE segment.size > 0
    BY <1>7, <2>1, <2>2, <2>3, <2>4
  <2>5. CASE ~ (segment.size > 0)
    BY <1>7, <2>2, <2>3, <2>5
  <2> QED BY <2>4, <2>5
<1>12. \A j, k \in 1 .. n : j < k => Clear(j, k)
  <2> HIDE DEF Clear, i
  <2> QED BY <1>3, <1>5, <1>10
<1>13. loading'[o].image = i /\ loading'[o].next = n + 1 /\ (n + 1) - 1 = n /\ mem'[o].regions = R
  <2>1. n \in Nat /\ mem'[o].regions = R
    BY <1>1, <1>3
  <2>2. loading'[o].image = i /\ loading'[o].next = n + 1
    BY <1>8
  <2> HIDE DEF n, i, R
  <2> QED BY <2>1, <2>2
<1>14. /\ loading'[o].staged.regions = R \cup Parts(i, n + 1) /\ R \cap Parts(i, n + 1) = {}
       /\ \A j, k \in 1 .. (n + 1) - 1 :
            j < k => Space!SegmentExtent(i, j) \cap Space!SegmentExtent(i, k) = {}
  BY <1>11, <1>12, <1>13
<1> HIDE DEF i, n, R
<1> QED BY <1>13, <1>14 DEF StagedExactly

\* Every step keeps the loads exact: the memory of one that goes on is left alone.
LEMMA LoadsKept == IInv /\ LoadsExact /\ [Next]_vars => LoadsExact'
<1> SUFFICES ASSUME IInv, LoadsExact, [Next]_vars, NEW p \in Memories, ~ Idle(p)'
             PROVE  StagedExactly(p)'
  BY DEF LoadsExact
<1>0. /\ mem \in [Memories -> MemoryType]
      /\ loading \in [Memories -> [image : 0 .. Len(Images), next : Nat, staged : MemoryType]]
      /\ ~ Idle(p) => StagedExactly(p)
  BY DEF IInv, TypeOK, LoadsExact
<1>1. CASE mem'[p] = mem[p] /\ loading'[p] = loading[p]
  BY <1>0, <1>1, ExactFrame
<1>2. ASSUME NEW o \in Memories, NEW b \in Addr, NEW s \in Addr, Map(o, b, s) \/ MapOwned(o, b, s)
      PROVE  mem'[p] = mem[p] /\ loading'[p] = loading[p]
  <2>1. Idle(o) /\ loading' = loading /\ \A q \in Memories : q # o => mem'[q] = mem[q]
    BY <1>0, <1>2 DEF Map, MapOwned, Refuse, vars
  <2> QED BY <2>1 DEF Idle
<1>3. ASSUME NEW o \in Memories, NEW token \in issued \cup {EmptyToken}, Release(o, token)
      PROVE  mem'[p] = mem[p] /\ loading'[p] = loading[p]
  <2>1. Idle(o) /\ loading' = loading /\ \A q \in Memories : q # o => mem'[q] = mem[q]
    BY <1>0, <1>3 DEF Release, Refuse, vars
  <2> QED BY <2>1 DEF Idle
<1>4. ASSUME NEW o \in Memories, NEW image \in 1 .. Len(Images), BeginLoad(o, image)
      PROVE  StagedExactly(p)'
  <2>1. CASE p = o /\ CanCopy(mem[o])
    BY <1>4, <2>1, BeginExact
  <2>2. CASE ~ (p = o /\ CanCopy(mem[o]))
    <3>1. mem'[p] = mem[p] /\ loading'[p] = loading[p]
      BY <1>0, <1>4, <2>2 DEF BeginLoad, Refuse, vars
    <3> QED BY <1>1, <3>1
  <2> QED BY <2>1, <2>2
<1>5. ASSUME NEW o \in Memories, LoadSegment(o) PROVE StagedExactly(p)'
  <2>1. CASE p = o
    <3>1. LoadSegment(p)
      BY <1>5, <2>1, Zenon
    <3>2. StagedExactly(p)
      BY <1>0, <3>1 DEF LoadSegment
    <3> QED BY <3>1, <3>2, SegmentExact
  <2>2. CASE p # o
    BY <1>0, <1>1, <1>5, <2>2 DEF LoadSegment
  <2> QED BY <2>1, <2>2
<1>6. ASSUME NEW o \in Memories, LoadRunsOut(o) \/ CommitLoad(o)
      PROVE  mem'[p] = mem[p] /\ loading'[p] = loading[p]
  <2>1. loading'[o] = NoLoad
    BY <1>0, <1>6 DEF LoadRunsOut, CommitLoad
  <2>2. p # o
    BY <2>1, NoLoadType DEF Idle
  <2> QED BY <1>0, <1>6, <2>2 DEF LoadRunsOut, CommitLoad
<1>7. CASE UNCHANGED vars
  BY <1>1, <1>7 DEF vars
<1> QED BY <1>1, <1>2, <1>3, <1>4, <1>5, <1>6, <1>7 DEF Next

\* A load that commits installs its image, or has nothing to install.
LEMMA CommitInstalls ==
  ASSUME IInv, LoadsExact, NEW o \in Memories, CommitLoad(o)
  PROVE  \/ Space!Install(o) /\ Users' # Users
         \/ UNCHANGED <<Users, InForce, ids>>
<1> DEFINE i == loading[o].image
           last == Len(Images[i])
           N == Parts(i, last + 1)
           R == mem[o].regions
<1>1. /\ ~ Idle(o) /\ loading[o].next > last
      /\ mem' = [mem EXCEPT ![o] = loading[o].staged]
      /\ held' = held /\ ids' = ids
  BY DEF CommitLoad
<1>2. /\ mem \in [Memories -> MemoryType] /\ Good(loading[o].staged) /\ Staged(o)
      /\ loading[o].image \in 0 .. Len(Images) /\ Len(Images) \in Nat
  BY <1>1, MemoryAssumption DEF IInv, TypeOK
<1>3. i \in 1 .. Len(Images)
  BY <1>1, <1>2 DEF Idle
<1>4. last \in Nat /\ Images[i] \in Seq(Segments)
  BY <1>3, ImageType
<1>5. loading[o].next = last + 1
  <2>1. loading[o].next \in 1 .. last + 1
    BY <1>2 DEF Staged
  <2> HIDE DEF last
  <2> QED BY <1>1, <1>4, <2>1
<1>6. /\ loading[o].staged.regions = R \cup N /\ R \cap N = {}
      /\ \A j, k \in 1 .. last :
           j < k => Space!SegmentExtent(i, j) \cap Space!SegmentExtent(i, k) = {}
  <2>1. StagedExactly(o)
    BY <1>1 DEF LoadsExact
  <2>2. /\ loading[o].staged.regions = R \cup Parts(i, loading[o].next)
        /\ R \cap Parts(i, loading[o].next) = {}
        /\ \A j, k \in 1 .. loading[o].next - 1 :
             j < k => Space!SegmentExtent(i, j) \cap Space!SegmentExtent(i, k) = {}
    BY <2>1 DEF StagedExactly
  <2>3. loading[o].next - 1 = last
    <3> HIDE DEF last
    <3> QED BY <1>4, <1>5
  <2> HIDE DEF i, R, last
  <2> QED BY <1>5, <2>2, <2>3
<1>7. mem'[o].regions = R \cup N /\ \A p \in Memories : p # o => mem'[p] = mem[p]
  BY <1>1, <1>2, <1>6
<1>8. InForce' = InForce
  BY <1>1 DEF InForce
<1>9. \A k \in 1 .. last : Images[i][k].base \in Addr /\ Images[i][k].size \in Addr
  <2>1. \A k \in 1 .. last : Images[i][k] \in Segments
    BY <1>4
  <2> QED BY <2>1 DEF Segments
<1>10. \A r \in N : r.owner = 0 /\ r.image = i
  BY DEF Parts, Region
<1>11. \A r \in N, q \in R : \A a \in Addr : ~ (Contains(r, a) /\ Contains(q, a))
  <2> SUFFICES ASSUME NEW r \in N, NEW q \in R, NEW a \in Addr, Contains(r, a), Contains(q, a)
               PROVE  FALSE
    OBVIOUS
  <2>1. /\ Disjoint(loading[o].staged.regions) /\ r # q
        /\ r \in loading[o].staged.regions /\ q \in loading[o].staged.regions
    <3> HIDE DEF N, R
    <3> QED BY <1>2, <1>6 DEF Good, Proper
  <2>2. r \in Regions /\ q \in Regions
    BY <1>2, <2>1 DEF Good, Proper
  <2>3. r.base \in Nat /\ r.size \in Nat /\ q.base \in Nat /\ q.size \in Nat /\ a \in Nat
    BY <2>2, MaxAddrNat DEF Regions, Addr
  <2>5. r.base + r.size <= q.base \/ q.base + q.size <= r.base
    <3> HIDE DEF N, R
    <3> QED BY <2>1 DEF Disjoint, End
  <2>4. r.base <= a /\ a < r.base + r.size /\ q.base <= a /\ a < q.base + q.size
    BY DEF Contains, End
  <2> HIDE DEF N, R
  <2> QED BY <2>3, <2>4, <2>5
<1>12. Reached(N) = UNION {Space!SegmentExtent(i, k) : k \in 1 .. last}
  <2>1. \A k \in 1 .. last : Space!SegmentExtent(i, k) = Space!Extent(Images[i][k].base, Images[i][k].size)
    BY DEF Space!SegmentExtent
  <2>2. ASSUME NEW a \in Reached(N) PROVE \E k \in 1 .. last : a \in Space!SegmentExtent(i, k)
    <3>1. PICK r \in N : a \in Addr /\ Contains(r, a)
      BY <2>2 DEF Reached
    <3>2. PICK k \in 1 .. last : r = Region(Images[i][k].base, Images[i][k].size, 0, i)
      BY <3>1 DEF Parts
    <3>3. r.base = Images[i][k].base /\ r.size = Images[i][k].size
      BY <3>2 DEF Region
    <3>4. r.base \in Nat /\ r.size \in Nat
      BY <1>9, <3>3, MaxAddrNat DEF Addr
    <3>5. a \in Space!Extent(r.base, r.size)
      BY <3>1, <3>4, MaxAddrNat DEF Contains, End, Addr, Space!Extent
    <3> QED BY <2>1, <3>3, <3>5
  <2>3. ASSUME NEW k \in 1 .. last, NEW a \in Space!SegmentExtent(i, k) PROVE a \in Reached(N)
    <3> DEFINE r == Region(Images[i][k].base, Images[i][k].size, 0, i)
    <3>1. r.base = Images[i][k].base /\ r.size = Images[i][k].size
      BY DEF Region
    <3>2. a \in Space!Extent(r.base, r.size) /\ r.base \in Addr /\ r.size \in Addr
      BY <1>9, <2>1, <3>1
    <3>3. Contains(r, a) /\ r.size > 0 /\ a \in Nat
      <4> HIDE DEF r
      <4> QED BY <3>2, MaxAddrNat DEF Contains, End, Addr, Space!Extent
    <3>4. r \in N
      <4>1. k \in {j \in 1 .. last : j < last + 1 /\ Images[i][j].size > 0}
        <5>1. k < last + 1
          <6> HIDE DEF last
          <6> QED BY <1>4
        <5> QED BY <3>1, <3>3, <5>1
      <4> QED BY <4>1 DEF Parts
    <3>5. End(r) <= MaxAddr
      <4>1. r \in loading[o].staged.regions
        <5> HIDE DEF r, N, R
        <5> QED BY <1>6, <3>4
      <4> QED BY <1>2, <4>1 DEF Good, Proper
    <3>6. a \in Addr
      <4> HIDE DEF r
      <4> QED BY <3>2, <3>3, <3>5, MaxAddrNat DEF Contains, End, Addr
    <3> QED BY <3>3, <3>4, <3>6 DEF Reached
  <2> HIDE DEF N, i, last
  <2> QED BY <2>2, <2>3
<1>13. CASE Reached(N) = {}
  <2>1. UsersOf(R \cup N) = UsersOf(R)
    <3>1. \A a \in Addr : {q \in R \cup N : Contains(q, a)} = {q \in R : Contains(q, a)}
      BY <1>13 DEF Reached
    <3> HIDE DEF R, N
    <3> QED BY <3>1 DEF UsersOf
  <2>2. \A p \in Memories : UsersOf(mem'[p].regions) = UsersOf(mem[p].regions)
    BY <1>7, <2>1
  <2>3. Users' = Users
    BY <2>2 DEF Users
  <2> QED BY <1>1, <1>8, <2>3
<1>14. CASE Reached(N) # {}
  <2>1. Claim(N, mem[o].regions, 0, i)
    BY <1>10, <1>11 DEF Claim
  <2>2. mem'[o].regions = mem[o].regions \cup N
    BY <1>7
  <2> HIDE DEF N, i
  <2>3. Space!Changed(o) = Reached(N) /\ Space!Take(o, <<0, i>>) /\ Users' # Users
    BY <1>7, <1>14, <2>1, <2>2, TakingMaps
  <2>4. Space!Image(i) = <<0, i>>
    BY DEF Space!Image
  <2>5. \A j, k \in 1 .. Len(Images[i]) :
          j < k => Space!SegmentExtent(i, j) \cap Space!SegmentExtent(i, k) = {}
    BY <1>6
  <2> QED BY <1>1, <1>3, <1>8, <1>12, <2>3, <2>4, <2>5 DEF Space!Install
<1> QED BY <1>13, <1>14

\* Every step of the memories is a step of the address space, or none.
LEMMA StepImplements ==
  ASSUME IInv, LoadsExact, [Next]_vars
  PROVE  [Space!Next]_<<Users, InForce, ids>>
<1>0. /\ mem \in [Memories -> MemoryType] /\ issued \subseteq Tokens
      /\ loading \in [Memories -> [image : 0 .. Len(Images), next : Nat, staged : MemoryType]]
  BY DEF IInv, TypeOK
<1>1. CASE mem' = mem /\ held' = held /\ ids' = ids
  BY <1>1 DEF Users, InForce
<1>2. ASSUME NEW o \in Memories, NEW b \in Addr, NEW s \in Addr, Map(o, b, s)
      PROVE  [Space!Next]_<<Users, InForce, ids>>
  <2>1. CASE s > 0 /\ CanMap(mem[o], b, s)
    <3>1. mem' = [mem EXCEPT ![o] = Mapped(mem[o], b, s, 0, 0)] /\ held' = held /\ ids' = ids
      BY <1>2, <2>1 DEF Map
    <3>2. /\ Space!Take(o, <<0, 0>>) /\ Space!OneExtent(Space!Changed(o))
          /\ Users' # Users
      <4>1. 0 \in Nat
        OBVIOUS
      <4> QED BY <2>1, <3>1, <4>1, MappingTakes
    <3>3. Space!Reserve(o)
      BY <3>1, <3>2 DEF Space!Reserve, Space!Static, InForce
    <3> QED BY <3>2, <3>3 DEF Space!Next
  <2>2. CASE ~ (s > 0 /\ CanMap(mem[o], b, s))
    BY <1>1, <1>2, <2>2 DEF Map, Refuse, vars
  <2> QED BY <2>1, <2>2
<1>3. ASSUME NEW o \in Memories, NEW b \in Addr, NEW s \in Addr, MapOwned(o, b, s)
      PROVE  [Space!Next]_<<Users, InForce, ids>>
  <2>1. CASE s > 0 /\ CanMap(mem[o], b, s)
    <3>1. /\ mem' = [mem EXCEPT ![o] = Mapped(mem[o], b, s, ids + 1, 0)]
          /\ held' = held \cup {Token(mem[o].domain, ids + 1, b, s)} /\ ids' = ids + 1
      BY <1>3, <2>1 DEF MapOwned
    <3>2. /\ Space!Take(o, <<ids + 1, 0>>) /\ Space!OneExtent(Space!Changed(o))
          /\ Users' # Users
      <4>1. ids + 1 \in Nat
        BY DEF IInv, TypeOK
      <4> QED BY <2>1, <3>1, <4>1, MappingTakes
    <3>3. InForce' = InForce \cup {ids + 1}
      <4> DEFINE token == Token(mem[o].domain, ids + 1, b, s)
      <4>1. token.id = ids + 1
        BY DEF Token
      <4>2. held' = held \cup {token}
        BY <3>1
      <4> HIDE DEF token
      <4> QED BY <4>1, <4>2 DEF InForce
    <3>4. Space!Lease(o)
      BY <3>1, <3>2, <3>3 DEF Space!Lease, Space!Holder
    <3> QED BY <3>2, <3>4 DEF Space!Next
  <2>2. CASE ~ (s > 0 /\ CanMap(mem[o], b, s))
    BY <1>1, <1>3, <2>2 DEF MapOwned, Refuse, vars
  <2> QED BY <2>1, <2>2
<1>4. ASSUME NEW o \in Memories, NEW token \in issued \cup {EmptyToken}, Release(o, token)
      PROVE  [Space!Next]_<<Users, InForce, ids>>
  <2>1. CASE CanRelease(mem[o], token)
    <3>1. Space!Return(o) /\ Users' # Users
      BY <1>4, <2>1, ReleaseReturns
    <3> QED BY <3>1 DEF Space!Next
  <2>2. CASE ~ CanRelease(mem[o], token)
    BY <1>1, <1>4, <2>2 DEF Release, Refuse, vars
  <2> QED BY <2>1, <2>2
<1>5. ASSUME NEW o \in Memories,
             (\E image \in 1 .. Len(Images) : BeginLoad(o, image)) \/ LoadSegment(o) \/ LoadRunsOut(o)
      PROVE  [Space!Next]_<<Users, InForce, ids>>
  BY <1>1, <1>5 DEF BeginLoad, LoadSegment, LoadRunsOut, Refuse, vars
<1>6. ASSUME NEW o \in Memories, CommitLoad(o) PROVE [Space!Next]_<<Users, InForce, ids>>
  BY <1>6, CommitInstalls DEF Space!Next
<1>7. CASE UNCHANGED vars
  BY <1>1, <1>7 DEF vars
<1> QED BY <1>2, <1>3, <1>4, <1>5, <1>6, <1>7 DEF Next

\* The memories, with their limits, counters, tokens and staged copies, implement
\* the address space: map_bytes, release_owned and load_nso never take an address
\* from its user, whatever their callers pass and however often they are refused.
THEOREM MemoriesImplementAddressSpace == Spec => ImplementsAddressSpace
<1>1. Init => LoadsExact
  BY DEF Init, LoadsExact, Idle, NoLoad
<1>2. Init => Space!Init
  <2> SUFFICES ASSUME Init PROVE Space!Init
    OBVIOUS
  <2>1. \A o \in Memories : mem[o].regions = {}
    <3>1. PICK d \in [Memories -> 1 .. Cardinality(Memories)] : mem = [o \in Memories |-> Empty(d[o])]
      BY DEF Init
    <3> QED BY <3>1 DEF Empty
  <2>2. UsersOf({}) = [a \in Space!Addresses |-> {}]
    BY DEF UsersOf, Space!Addresses, Addr
  <2>3. Users = [o \in Memories |-> [a \in Space!Addresses |-> {}]]
    BY <2>1, <2>2 DEF Users
  <2>4. InForce = {} /\ ids = 0
    BY DEF Init, InForce
  <2> QED BY <2>3, <2>4 DEF Space!Init
<1>3. IInv /\ LoadsExact /\ [Next]_vars => LoadsExact'
  BY LoadsKept
<1>4. IInv /\ LoadsExact /\ [Next]_vars => [Space!Next]_<<Users, InForce, ids>>
  BY StepImplements
<1> QED BY <1>1, <1>2, <1>3, <1>4, Invariance, PTL DEF Spec, ImplementsAddressSpace, Space!Spec
=============================================================================
