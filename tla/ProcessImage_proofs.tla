------------------------- MODULE ProcessImage_proofs -------------------------
(***************************************************************************)
(* Proofs about ProcessImage and the Relocation it applies: a plan of        *)
(* relocation writes is one transaction, and an image that is handed out is  *)
(* laid out without overlap and bound to the one definition of each name.    *)
(* And about RuntimeImports, where the names that no module defines end: the *)
(* boundary between guest and host holds for any imports, signatures,        *)
(* mappings, modules and compiled functions.                                 *)
(***************************************************************************)
EXTENDS ProcessImage, RuntimeImports, FiniteSetTheorems, WellFoundedInduction, TLAPS

-----------------------------------------------------------------------------
(* Natural numbers. *)

\* A nonempty set of naturals has a least element.
LEMMA LeastOf ==
  ASSUME NEW T \in SUBSET Nat, T # {}
  PROVE  \E x \in T : \A y \in T : x <= y
<1> DEFINE Less == {ss \in Nat \X Nat : ss[1] < ss[2]}
<1>1. IsWellFoundedOn(Less, Nat)
  BY NatLessThanWellFounded DEF OpToRel
<1>2. PICK x \in T : \A y \in T : ~ (<<y, x>> \in Less)
  <2> HIDE DEF Less
  <2> QED BY <1>1, WFMin
<1>3. ASSUME NEW y \in T, y < x PROVE FALSE
  <2>1. <<y, x>> \in Less
    BY <1>3
  <2> HIDE DEF Less
  <2> QED BY <1>2, <2>1
<1> QED BY <1>3

\* Induction: a set of naturals that has 0 and with each number the next has
\* them all.
LEMMA Induction ==
  ASSUME NEW G \in SUBSET Nat, 0 \in G, \A n \in G : n + 1 \in G
  PROVE  G = Nat
<1> SUFFICES ASSUME Nat \ G # {} PROVE FALSE
  OBVIOUS
<1>1. PICK x \in Nat \ G : \A y \in Nat \ G : x <= y
  <2> DEFINE T == Nat \ G
  <2>1. T \in SUBSET Nat /\ T # {}
    OBVIOUS
  <2> HIDE DEF T
  <2>2. \E x \in T : \A y \in T : x <= y
    BY <2>1, LeastOf
  <2> QED BY <2>2 DEF T
<1>2. x # 0 /\ x - 1 \in Nat
  BY <1>1
<1>3. x - 1 \in G
  BY <1>1, <1>2
<1>4. (x - 1) + 1 \in G
  BY <1>3
<1> QED BY <1>1, <1>4

\* The maximum of a nonempty set of numbers up to a bound is its greatest.
LEMMA GreatestOf ==
  ASSUME NEW n \in Nat, NEW T \in SUBSET (0 .. n), T # {}
  PROVE  Max(T) \in T /\ \A y \in T : y <= Max(T)
<1> DEFINE U == {n - x : x \in T}
<1>1. U \in SUBSET Nat /\ U # {}
  <2>1. \A x \in T : n - x \in Nat
    OBVIOUS
  <2> QED BY <2>1
<1>2. PICK u \in U : \A y \in U : u <= y
  <2> HIDE DEF U
  <2> QED BY <1>1, LeastOf
<1>3. PICK x \in T : u = n - x
  BY <1>2
<1>4. \A y \in T : y <= x
  <2> TAKE y \in T
  <2>1. n - y \in U
    OBVIOUS
  <2> QED BY <1>2, <1>3, <2>1
<1>5. \A y \in T : x >= y
  BY <1>4
<1> QED BY <1>5 DEF Max

-----------------------------------------------------------------------------
(* Sequences of sequences. *)

\* What FlattenSeq makes of sequences over S is a sequence over S.
LEMMA FlattenType ==
  ASSUME NEW S, NEW ss \in Seq(Seq(S))
  PROVE  FlattenSeq(ss) \in Seq(S)
<1>1. CASE Len(ss) = 0
  BY <1>1 DEF FlattenSeq
<1>2. CASE Len(ss) # 0
  <2> DEFINE N == Len(ss)
             Step(f, i) == IF i = 1 THEN ss[i] ELSE f[i - 1] \o ss[i]
             Good(g, n) == \A i \in 1 .. n : g[i] = Step(g, i)
             Upto(n) == \E g \in [1 .. n -> Seq(S)] : Good(g, n)
             F == CHOOSE f : f = [i \in 1 .. N |-> Step(f, i)]
  <2>1. N \in Nat \ {0} /\ \A i \in 1 .. N : ss[i] \in Seq(S)
    BY <1>2
  <2>2. ASSUME NEW f, NEW i \in 1 .. N, i > 1 => f[i - 1] \in Seq(S)
        PROVE  Step(f, i) \in Seq(S)
    <3>1. CASE i = 1
      BY <2>1, <3>1
    <3>2. CASE i > 1
      BY <2>1, <2>2, <3>2
    <3> QED BY <3>1, <3>2
  <2>3. \A n \in Nat : n <= N => Upto(n)
    <3> DEFINE G == {n \in Nat : n <= N => Upto(n)}
    <3>1. Upto(0)
      <4>1. [i \in 1 .. 0 |-> <<>>] \in [1 .. 0 -> Seq(S)]
        OBVIOUS
      <4>2. Good([i \in 1 .. 0 |-> <<>>], 0)
        OBVIOUS
      <4> HIDE DEF Good
      <4> QED BY <4>1, <4>2
    <3>2. ASSUME NEW n \in Nat, Upto(n), n + 1 <= N PROVE Upto(n + 1)
      <4>1. PICK g \in [1 .. n -> Seq(S)] : Good(g, n)
        BY <3>2
      <4> DEFINE h == [i \in 1 .. n + 1 |-> IF i = n + 1 THEN Step(g, n + 1) ELSE g[i]]
      <4>2. Step(g, n + 1) \in Seq(S)
        <5>1. n + 1 \in 1 .. N /\ (n + 1 > 1 => g[(n + 1) - 1] \in Seq(S))
          BY <3>2, <4>1
        <5> HIDE DEF Step
        <5> QED BY <2>2, <5>1
      <4>3. h \in [1 .. n + 1 -> Seq(S)]
        <5> HIDE DEF Step
        <5> QED BY <4>2
      <4>4. Good(h, n + 1)
        <5> SUFFICES ASSUME NEW i \in 1 .. n + 1 PROVE h[i] = Step(h, i)
          OBVIOUS
        <5>1. i # 1 => h[i - 1] = g[i - 1]
          OBVIOUS
        <5>2. Step(h, i) = Step(g, i)
          <6> HIDE DEF h
          <6> QED BY <5>1
        <5>3. h[i] = Step(g, i)
          <6> HIDE DEF Step
          <6>1. i # n + 1 => i \in 1 .. n
            OBVIOUS
          <6> QED BY <4>1, <6>1
        <5> QED BY <5>2, <5>3
      <4> HIDE DEF Good, h
      <4> QED BY <4>3, <4>4
    <3> HIDE DEF Upto
    <3>3. 0 \in G /\ \A n \in G : n + 1 \in G
      <4> HIDE DEF N
      <4> QED BY <2>1, <3>1, <3>2
    <3>4. G \in SUBSET Nat
      OBVIOUS
    <3>5. G = Nat
      <4> HIDE DEF G
      <4> QED BY <3>3, <3>4, Induction
    <3> QED BY <3>5
  <2>4. PICK g \in [1 .. N -> Seq(S)] : Good(g, N)
    <3>1. N \in Nat /\ N <= N
      BY <2>1
    <3> HIDE DEF Good
    <3> QED BY <2>3, <3>1
  <2>5. g = [i \in 1 .. N |-> Step(g, i)]
    <3> HIDE DEF Step
    <3> QED BY <2>4
  <2>6. F = [i \in 1 .. N |-> Step(F, i)]
    <3> HIDE DEF Step
    <3> QED BY <2>5
  <2>7. \A n \in Nat : n \in 1 .. N => F[n] \in Seq(S)
    <3> DEFINE H == {n \in Nat : n \in 1 .. N => F[n] \in Seq(S)}
    <3> HIDE DEF F, Step
    <3>1. \A n \in H : n + 1 \in H
      <4> SUFFICES ASSUME NEW n \in H, n + 1 \in 1 .. N PROVE F[n + 1] \in Seq(S)
        OBVIOUS
      <4>1. F[n + 1] = Step(F, n + 1)
        BY <2>6
      <4>2. n + 1 > 1 => F[(n + 1) - 1] \in Seq(S)
        OBVIOUS
      <4> QED BY <2>2, <4>1, <4>2
    <3>2. 0 \in H /\ H \in SUBSET Nat
      OBVIOUS
    <3>3. H = Nat
      <4> HIDE DEF H
      <4> QED BY <3>1, <3>2, Induction
    <3> QED BY <3>3
  <2>8. FlattenSeq(ss) = F[N]
    BY <1>2 DEF FlattenSeq
  <2> HIDE DEF F
  <2> QED BY <2>1, <2>7, <2>8
<1> QED BY <1>1, <1>2

-----------------------------------------------------------------------------
(* Words and digits. *)

Words == 0 .. Radix - 1
Memory == [0 .. Top - 1 -> Words]

LEMMA TopType == Radix \in Nat \ {0, 1} /\ Top \in Nat
<1>1. Radix \in Nat \ {0, 1}
  BY ModuleFileAssumption
<1> QED BY <1>1 DEF Top

\* Division is what it should be.
LEMMA Quotient ==
  ASSUME NEW q \in Nat, NEW r \in Words
  PROVE  (r + Radix * q) % Radix = r /\ (r + Radix * q) \div Radix = q
<1>1. Radix \in Nat /\ r \in Nat /\ r < Radix
  BY TopType DEF Words
<1>2. Radix * q \in Nat
  BY <1>1
<1> QED BY <1>1, <1>2

\* Every value of a slot is two digits.
LEMMA DigitType ==
  ASSUME NEW v \in 0 .. Top - 1, NEW i
  PROVE  Digit(v, i) \in Words
<1>1. Radix \in Nat /\ Radix > 0 /\ v \in Nat /\ v < Radix * Radix
  BY TopType DEF Top
<1>2. v % Radix \in Words
  BY <1>1 DEF Words
<1>3. v \div Radix \in Words
  BY <1>1 DEF Words
<1> QED BY <1>2, <1>3 DEF Digit

\* What a slot holds fits it, and its digits are the words it was read from.
LEMMA HoldsDigits ==
  ASSUME NEW m \in Memory, NEW slot \in Nat, NEW width \in {1, 2}, slot + width <= Top
  PROVE  /\ Holds(m, slot, width) \in 0 .. Top - 1
         /\ \A a \in Span(slot, width) : Digit(Holds(m, slot, width), a - slot) = m[a]
<1>1. Radix \in Nat \ {0, 1} /\ Top \in Nat
  BY TopType
<1>2. CASE width = 1
  <2>1. m[slot] \in Words
    BY <1>1, <1>2 DEF Memory
  <2>2. m[slot] \in Nat /\ m[slot] < Radix
    BY <1>1, <2>1 DEF Words
  <2>3. m[slot] % Radix = m[slot] /\ m[slot] \in 0 .. Top - 1
    BY <1>1, <2>2 DEF Top
  <2>4. Span(slot, width) = {slot}
    BY <1>2 DEF Span
  <2> QED BY <1>2, <2>3, <2>4 DEF Holds, Digit
<1>3. CASE width = 2
  <2>1. m[slot] \in Words /\ m[slot + 1] \in Words
    BY <1>1, <1>3 DEF Memory
  <2> DEFINE v == m[slot] + Radix * m[slot + 1]
  <2>2. v % Radix = m[slot] /\ v \div Radix = m[slot + 1]
    <3>1. m[slot + 1] \in Nat
      BY <1>1, <2>1 DEF Words
    <3> QED BY <2>1, <3>1, Quotient
  <2>3. v \in 0 .. Top - 1
    <3>1. m[slot] \in Nat /\ m[slot + 1] \in Nat /\ m[slot] <= Radix - 1 /\ m[slot + 1] <= Radix - 1
      BY <1>1, <2>1 DEF Words
    <3>2. Radix * m[slot + 1] \in Nat /\ Radix * m[slot + 1] <= Radix * (Radix - 1)
      BY <1>1, <3>1
    <3>3. Radix * (Radix - 1) + Radix = Top
      BY <1>1 DEF Top
    <3>4. Radix * (Radix - 1) \in Int
      BY <1>1
    <3> QED BY <1>1, <3>1, <3>2, <3>3, <3>4
  <2>4. Holds(m, slot, width) = v
    BY <1>3 DEF Holds
  <2>5. Span(slot, width) = {slot, slot + 1}
    BY <1>3 DEF Span
  <2>6. Digit(v, slot - slot) = m[slot] /\ Digit(v, (slot + 1) - slot) = m[slot + 1]
    BY <2>2 DEF Digit
  <2> HIDE DEF v
  <2> QED BY <2>3, <2>4, <2>5, <2>6
<1> QED BY <1>2, <1>3

\* The writes of a plan: slots inside the memory, values of two digits.
PlannedWrites ==
  {w \in [slot : Nat, width : {1, 2}, value : 0 .. Top - 1] : w.slot + w.width <= Top}

LEMMA PutType ==
  ASSUME NEW m \in Memory, NEW w \in PlannedWrites
  PROVE  Put(m, w) \in Memory
<1>1. \A i : Digit(w.value, i) \in Words
  BY DigitType DEF PlannedWrites
<1>2. DOMAIN m = 0 .. Top - 1 /\ \A a \in 0 .. Top - 1 : m[a] \in Words
  BY DEF Memory
<1> QED BY <1>1, <1>2 DEF Put, Memory

-----------------------------------------------------------------------------
(* Mappings. *)

\* The mappings of a memory lie inside it and do not meet.
Proper(space) ==
  /\ \A r \in space : r.base \in Nat /\ r.size \in Nat /\ r.base + r.size <= Top
  /\ \A r, s \in space : r # s => Span(r.base, r.size) \cap Span(s.base, s.size) = {}

\* A slot that may be written is inside the memory.
LEMMA WritableInside ==
  ASSUME NEW space, Proper(space), NEW slot \in Int, NEW width \in {1, 2}, NEW loader,
         Writable(space, slot, width, loader)
  PROVE  slot \in Nat /\ slot + width <= Top
<1>1. PICK r \in space : Span(slot, width) \subseteq Span(r.base, r.size)
  BY DEF Writable, Region
<1>2. slot \in Span(slot, width) /\ slot + width - 1 \in Span(slot, width)
  BY DEF Span
<1>3. slot \in Span(r.base, r.size) /\ slot + width - 1 \in Span(r.base, r.size)
  BY <1>1, <1>2
<1>4. r.base \in Nat /\ r.size \in Nat /\ r.base + r.size <= Top
  BY DEF Proper
<1> QED BY <1>3, <1>4, TopType DEF Span

\* Of disjoint mappings the one an address lies in is the one its slot is in: a
\* slot of which an address stays mapped stays writable.
LEMMA StillWritable ==
  ASSUME NEW space, Proper(space), NEW left \in SUBSET space,
         NEW slot \in Int, NEW width \in {1, 2}, NEW loader, Writable(space, slot, width, loader),
         NEW a \in Span(slot, width), Region(left, a, 1) # {}
  PROVE  Writable(left, slot, width, loader)
<1>1. PICK r \in space : Span(slot, width) \subseteq Span(r.base, r.size) /\ (loader \/ r.write)
  BY DEF Writable, Region
<1>2. PICK s \in left : Span(a, 1) \subseteq Span(s.base, s.size)
  BY DEF Region
<1>3. a \in Span(a, 1) /\ a \in Span(r.base, r.size)
  BY <1>1 DEF Span
<1>4. r = s
  BY <1>2, <1>3 DEF Proper
<1> QED BY <1>1, <1>2, <1>4 DEF Writable, Region

-----------------------------------------------------------------------------
(* Layout. *)

\* The part of a job that is written into the memory of an image.
LEMMA JobTyped ==
  ASSUME NEW t \in ImageJobs
  PROVE  /\ t.kind = "plan" => PlanTyped(t)
         /\ t.kind = "image" => /\ t.gap \in Nat
                                /\ Len(t.modules) \in Nat /\ DOMAIN t.modules = 1 .. Len(t.modules)
                                /\ \A i \in DOMAIN t.modules : FileTyped(t.modules[i])
  BY ImageAssumption

\* Where the modules placed so far lie: inside the memory with the guard gap
\* after each, clear of the stack, and apart.
Placed ==
  /\ bases \in Seq(0 .. Top - 1)
  /\ DOMAIN bases \subseteq Modules
  /\ \A i \in DOMAIN bases :
       /\ HeaderAccepted(task.modules[i])
       /\ bases[i] + ImageSpan(task.modules[i]) + task.gap < Top
       /\ Occupied(i, bases[i]) \cap task.stack = {}
  /\ \A i, j \in DOMAIN bases :
       i # j => Occupied(i, bases[i]) \cap Occupied(j, bases[j]) = {}

Layout ==
  /\ task \in ImageJobs
  /\ task.kind = "image" => Placed
  /\ task.kind = "image" /\ loading \notin {"place", "failed"} => DOMAIN bases = Modules
  /\ loading \in {"place", "bind", "published"} => task.kind = "image"
  /\ loading = "idle" => task.kind = "plan"

LEMMA LayoutInit == ImageInit => Layout
<1> SUFFICES ASSUME ImageInit PROVE Layout
  OBVIOUS
<1>1. task \in ImageJobs /\ bases = <<>>
  BY DEF ImageInit
<1>2. task.kind = "image" => Placed
  BY <1>1, JobTyped DEF Placed
<1>3. task.kind = "plan" \/ task.kind = "image"
  BY <1>1, ImageAssumption
<1> QED BY <1>1, <1>2, <1>3 DEF ImageInit, Layout

\* The steps of the transaction that writes a plan.
Transactions ==
  \/ Preflight(task.loader)
  \/ Commit(task.loader)
  \/ Committed
  \/ RollBack(task.loader)
  \/ Restore(task.loader)
  \/ RolledBack

LEMMA StepCases ==
  ASSUME [ImageNext]_image
  PROVE  \/ task.kind = "image" /\ PlaceModule
         \/ task.kind = "image" /\ LoadModules
         \/ task.kind = "image" /\ BindImage
         \/ task.kind = "image" /\ Verify
         \/ task.kind = "plan" /\ Plan(task) /\ UNCHANGED imageVars
         \/ \E a \in 0 .. Top - 1 : task.kind = "plan" /\ Store(a, 0) /\ UNCHANGED imageVars
         \/ \E r \in regions : task.kind = "plan" /\ Release(r) /\ UNCHANGED imageVars
         \/ Transactions /\ UNCHANGED imageVars
         \/ UNCHANGED image
  BY DEF ImageNext, Loading, Retained, Transactions

LEMMA PlaceModuleLayout ==
  ASSUME Layout, task.kind = "image", PlaceModule
  PROVE  Layout'
<1> DEFINE i == Len(bases) + 1
           base == Chosen(i)
<1>1. task' = task /\ loading = "place" /\ i \in Modules
  BY DEF PlaceModule
<1>2. CASE bases' = bases /\ loading' = "failed"
  BY <1>1, <1>2 DEF Layout, Placed, Modules, Occupied
<1>3. CASE /\ bases' = Append(bases, base) /\ loading' = loading
           /\ HeaderAccepted(task.modules[i])
           /\ base \in 0 .. Top - 1
           /\ base + ImageSpan(task.modules[i]) + task.gap < Top
           /\ \A j \in DOMAIN bases : Occupied(i, base) \cap Occupied(j, bases[j]) = {}
           /\ Occupied(i, base) \cap task.stack = {}
  <2> HIDE DEF base
  <2>1. Placed
    BY DEF Layout
  <2>2. bases' \in Seq(0 .. Top - 1) /\ DOMAIN bases' = DOMAIN bases \cup {i} /\ bases'[i] = base
    BY <1>3, <2>1 DEF Placed
  <2>3. i \notin DOMAIN bases /\ \A j \in DOMAIN bases : bases'[j] = bases[j]
    BY <1>3, <2>1 DEF Placed
  <2> HIDE DEF i
  <2>4. \A j \in DOMAIN bases' :
          /\ HeaderAccepted(task.modules[j])
          /\ bases'[j] + ImageSpan(task.modules[j]) + task.gap < Top
          /\ Occupied(j, bases'[j]) \cap task.stack = {}
    BY <1>3, <2>1, <2>2, <2>3 DEF Placed
  <2>5. \A j, k \in DOMAIN bases' :
          j # k => Occupied(j, bases'[j]) \cap Occupied(k, bases'[k]) = {}
    <3> TAKE j, k \in DOMAIN bases'
    <3>1. CASE j \in DOMAIN bases /\ k \in DOMAIN bases
      BY <2>1, <2>3, <3>1 DEF Placed
    <3>2. CASE j = i /\ k \in DOMAIN bases
      BY <1>3, <2>2, <2>3, <3>2
    <3>3. CASE j \in DOMAIN bases /\ k = i
      BY <1>3, <2>2, <2>3, <3>3
    <3> QED BY <2>2, <3>1, <3>2, <3>3
  <2>6. \A j, b : Occupied(j, b)' = Occupied(j, b')
    BY <1>1 DEF Occupied
  <2>7. Placed'
    <3>1. DOMAIN bases' \subseteq Modules'
      BY <1>1, <2>1, <2>2 DEF Placed, Modules
    <3> QED BY <1>1, <2>2, <2>4, <2>5, <3>1 DEF Placed, Occupied
  <2> QED BY <1>1, <1>3, <2>7 DEF Layout
<1> QED BY <1>1, <1>2, <1>3 DEF PlaceModule

LEMMA LayoutStep ==
  ASSUME Layout, [ImageNext]_image
  PROVE  Layout'
<1>1. CASE task.kind = "image" /\ PlaceModule
  BY <1>1, PlaceModuleLayout
<1>2. CASE task.kind = "image" /\ LoadModules
  <2>1. UNCHANGED <<task, bases>> /\ loading = "place" /\ loading' \in {"bind", "failed"}
    BY <1>2 DEF LoadModules, imageVars
  <2>2. Len(bases) = Len(task.modules)
    BY <1>2 DEF LoadModules
  <2>3. Placed /\ DOMAIN bases = Modules
    BY <1>2, <2>2, JobTyped DEF Layout, Placed, Modules
  <2> QED BY <1>2, <2>1, <2>3 DEF Layout, Placed, Modules, Occupied
<1>3. CASE task.kind = "image" /\ BindImage
  <2>1. UNCHANGED <<task, bases>> /\ loading = "bind" /\ loading' \in {"failed", "planned", "published"}
    BY <1>3 DEF BindImage
  <2> QED BY <1>3, <2>1 DEF Layout, Placed, Modules, Occupied
<1>4. CASE task.kind = "image" /\ Verify
  <2>1. UNCHANGED <<task, bases>> /\ loading = "applied" /\ loading' \in {"failed", "published"}
    BY <1>4 DEF Verify, imageVars
  <2> QED BY <1>4, <2>1 DEF Layout, Placed, Modules, Occupied
<1>5. CASE /\ UNCHANGED <<task, bases>>
           /\ \/ loading' = loading
              \/ /\ loading \notin {"place", "failed"}
                 /\ loading' \notin {"place", "failed", "bind", "published", "idle"}
  BY <1>5 DEF Layout, Placed, Modules, Occupied
<1>6. CASE task.kind = "plan" /\ Plan(task) /\ UNCHANGED imageVars
  BY <1>5, <1>6 DEF Plan, imageVars
<1>7. CASE \E a \in 0 .. Top - 1 : Store(a, 0) /\ UNCHANGED imageVars
  BY <1>5, <1>7 DEF Store, imageVars
<1>8. CASE \E r \in regions : Release(r) /\ UNCHANGED imageVars
  BY <1>5, <1>8 DEF Release, imageVars
<1>9. CASE Transactions /\ UNCHANGED imageVars
  BY <1>5, <1>9 DEF Transactions, Preflight, Commit, Committed, RollBack, Restore, RolledBack, imageVars
<1>10. CASE UNCHANGED image
  BY <1>5, <1>10 DEF image, relocation, imageVars
<1> QED BY <1>1, <1>2, <1>3, <1>4, <1>6, <1>7, <1>8, <1>9, <1>10, StepCases

-----------------------------------------------------------------------------
(* Memory and plan. *)

\* The span of a module covers its mappings.
LEMMA SpanCovers ==
  ASSUME NEW f, FileTyped(f), HeaderAccepted(f)
  PROVE  /\ ImageSpan(f) \in Nat
         /\ \A k \in Parts : f.segments[k].memory + f.segments[k].size <= ImageSpan(f)
         /\ BssStart(f) \in Nat /\ BssStart(f) + f.bss <= ImageSpan(f)
<1> DEFINE T == {f.segments[k].memory + f.segments[k].size : k \in Parts} \cup {BssStart(f) + f.bss}
<1>1. \A k \in Parts : /\ f.segments[k].memory \in Nat /\ f.segments[k].size \in Nat
                        /\ f.segments[k].memory + f.segments[k].size \in 0 .. Top
  BY TopType DEF FileTyped, HeaderAccepted
<1>2. BssStart(f) \in Nat /\ f.bss \in Nat /\ BssStart(f) + f.bss \in 0 .. Top
  <2>1. f.segments["data"].memory \in Nat /\ f.segments["data"].size \in Nat
    BY <1>1 DEF Parts
  <2>2. BssStart(f) \in Nat
    BY <2>1 DEF BssStart
  <2> QED BY <2>2, TopType DEF FileTyped, HeaderAccepted
<1>3. T \in SUBSET (0 .. Top) /\ T # {}
  BY <1>1, <1>2
<1>4. Max(T) \in T /\ \A y \in T : y <= Max(T)
  <2> HIDE DEF T
  <2> QED BY <1>3, GreatestOf, TopType
<1>5. ImageSpan(f) = Max(T)
  BY DEF ImageSpan
<1>6. Max(T) \in Nat
  <2> HIDE DEF T
  <2>1. Max(T) \in 0 .. Top
    BY <1>3, <1>4
  <2> QED BY <2>1, TopType
<1>7. \A k \in Parts : f.segments[k].memory + f.segments[k].size \in T
  OBVIOUS
<1>8. BssStart(f) + f.bss \in T
  OBVIOUS
<1> HIDE DEF T
<1> QED BY <1>2, <1>4, <1>5, <1>6, <1>7, <1>8

LEMMA RegionsInside ==
  ASSUME NEW f, FileTyped(f), HeaderAccepted(f), NEW base \in Nat, NEW r \in ImageRegions(f, base)
  PROVE  /\ r.base \in Nat /\ r.size \in Nat
         /\ base <= r.base /\ r.base + r.size <= base + ImageSpan(f)
<1>1. \A k \in Parts : f.segments[k].memory \in Nat /\ f.segments[k].size \in Nat
  BY DEF FileTyped
<1>2. f.bss \in Nat
  BY DEF FileTyped
<1>3. CASE \E k \in Parts : r.base = base + f.segments[k].memory /\ r.size = f.segments[k].size
  BY <1>1, <1>3, SpanCovers
<1>4. CASE r.base = base + BssStart(f) /\ r.size = f.bss
  BY <1>2, <1>4, SpanCovers
<1> QED BY <1>3, <1>4 DEF ImageRegions

\* What a commit starts from: the contents of the slots are kept, and a slot
\* that is still mapped can be restored.
Staged ==
  /\ before \in Memory
  /\ kept = [i \in DOMAIN order |->
               [order[i] EXCEPT !.value = Holds(before, order[i].slot, order[i].width)]]
  /\ \A i \in DOMAIN order : \A a \in Span(order[i].slot, order[i].width) :
       Mapped(a) => Writable(regions, order[i].slot, order[i].width, task.loader)

\* The writes that are done reach an address, and no later one of them does.
Reaches(i, a) == a \in Span(order[i].slot, order[i].width)
Stands(i, a, n) == Reaches(i, a) /\ \A j \in i + 1 .. n : ~Reaches(j, a)

\* Of the first n writes the last that reaches an address stands.
InEffect(n) ==
  \A a \in 0 .. Top - 1 :
    /\ (\A i \in 1 .. n : ~Reaches(i, a)) => words[a] = before[a]
    /\ \A i \in 1 .. n : Stands(i, a, n) => words[a] = Digit(order[i].value, a - order[i].slot)

Committing == Staged /\ turn \in 1 .. Len(order) + 1 /\ InEffect(turn - 1)

\* An address that is mapped is as it was, or still has a slot to be restored.
RollingBack ==
  /\ Staged
  /\ turn \in 0 .. Len(order)
  /\ \A a \in 0 .. Top - 1 :
       Mapped(a) /\ (\A i \in 1 .. turn : ~Reaches(i, a)) => words[a] = before[a]

Transaction ==
  /\ words \in Memory
  /\ Proper(regions)
  /\ order \in Seq(PlannedWrites)
  /\ loading = "commit" => Committing
  /\ loading = "rollback" => RollingBack
  /\ RelocationAtomic

LEMMA TransactionInit == ImageInit => Transaction
<1> SUFFICES ASSUME ImageInit PROVE Transaction
  OBVIOUS
<1>1. words \in Memory
  BY TopType DEF ImageInit, Blank, Memory, Words
<1>2. Proper(regions)
  BY JobTyped DEF ImageInit, Proper, PlanTyped
<1>3. order \in Seq(PlannedWrites) /\ loading \in {"idle", "place"}
  BY DEF ImageInit
<1> QED BY <1>1, <1>2, <1>3 DEF Transaction, RelocationAtomic

\* A relocation whose slot was moved to a module's base, or could not be.
MovedRelas == [type : STRING, slot : Int, symbol : Nat, addend : Int]

\* The plan only has writes inside the memory.
LEMMA WritePlanned ==
  ASSUME Proper(regions), NEW r \in MovedRelas, NEW target, NEW loader, Outcome(r, target, loader) = "write"
  PROVE  Write(r, target + r.addend) \in PlannedWrites
<1>1. Writable(regions, r.slot, Width(r.type), loader) /\ Fits(r, target) /\ target # Nowhere
  BY DEF Outcome
<1>2. Width(r.type) \in {1, 2} /\ r.slot \in Int
  BY DEF Width, MovedRelas
<1>3. r.slot \in Nat /\ r.slot + Width(r.type) <= Top
  BY <1>1, <1>2, WritableInside
<1>4. target + r.addend \in 0 .. Top - 1
  BY <1>1 DEF Fits, Plus
<1> QED BY <1>2, <1>3, <1>4 DEF Write, PlannedWrites

\* The relocations of an image, their slots moved to the bases.
LEMMA AllRelocationsType ==
  ASSUME Layout, task.kind = "image"
  PROVE  AllRelocations \in Seq([module : Modules, r : MovedRelas])
<1> DEFINE S == [module : Modules, r : MovedRelas]
           R(i) == RelaEntries(task.modules[i], bases[i])
           Of(i) == [k \in DOMAIN R(i) |-> [module |-> i, r |-> R(i)[k]]]
           ss == [i \in Modules |-> Of(i)]
<1>1. \A i \in Modules : R(i) \in Seq(MovedRelas)
  <2> TAKE i \in Modules
  <2> DEFINE t == RelaTables(task.modules[i], Dynamic(task.modules[i]))
  <2>1. t \in Seq(Relas)
    BY JobTyped DEF Layout, FileTyped, Modules
  <2> HIDE DEF t
  <2>2. \A k \in DOMAIN t : [t[k] EXCEPT !.slot = Plus(bases[i], @)] \in MovedRelas
    <3> TAKE k \in DOMAIN t
    <3>1. t[k] \in Relas
      BY <2>1
    <3>2. Plus(bases[i], t[k].slot) \in Int
      BY TopType DEF Plus, Nowhere
    <3> QED BY <3>1, <3>2 DEF Relas, MovedRelas
  <2>3. Moved(t, bases[i]) \in Seq(MovedRelas)
    BY <2>1, <2>2 DEF Moved
  <2> QED BY <2>3 DEF RelaEntries, t
<1>2. \A i \in Modules : Of(i) \in Seq(S)
  <2> TAKE i \in Modules
  <2>1. R(i) \in Seq(MovedRelas)
    BY <1>1
  <2> HIDE DEF R
  <2>2. \A k \in DOMAIN R(i) : [module |-> i, r |-> R(i)[k]] \in S
    BY <2>1
  <2> HIDE DEF S
  <2> QED BY <2>1, <2>2
<1>3. Modules = 1 .. Len(task.modules) /\ Len(task.modules) \in Nat
  BY JobTyped DEF Layout, Modules
<1>4. ss \in Seq(Seq(S))
  <2> HIDE DEF Of, S
  <2> QED BY <1>2, <1>3
<1>5. FlattenSeq(ss) \in Seq(S)
  <2> HIDE DEF ss, S
  <2> QED BY <1>4, FlattenType
<1> QED BY <1>5 DEF AllRelocations

LEMMA PlanOrder ==
  ASSUME Layout, Transaction, task.kind = "plan", Plan(task)
  PROVE  order' \in Seq(PlannedWrites)
<1> DEFINE list == task.relocations
           W(r) == IF Classified(r, task) = "write" THEN <<Write(r, Target(r, task) + r.addend)>> ELSE <<>>
<1>1. list \in Seq(Relas)
  BY JobTyped DEF Layout, PlanTyped
<1>2. \A k \in DOMAIN list : W(list[k]) \in Seq(PlannedWrites)
  <2> TAKE k \in DOMAIN list
  <2>1. list[k] \in MovedRelas
    <3> HIDE DEF list
    <3>1. list[k] \in Relas
      BY <1>1
    <3>2. 0 .. Top - 1 \subseteq Int
      BY TopType
    <3> QED BY <3>1, <3>2 DEF Relas, MovedRelas
  <2>2. Classified(list[k], task) = "write" =>
          Write(list[k], Target(list[k], task) + list[k].addend) \in PlannedWrites
    BY <2>1, WritePlanned DEF Classified, Transaction
  <2> QED BY <2>2
<1>3. PlanWrites(task) \in Seq(PlannedWrites)
  <2> DEFINE ss == [k \in DOMAIN list |-> W(list[k])]
  <2>1. ss \in Seq(Seq(PlannedWrites))
    <3> HIDE DEF W, list
    <3> QED BY <1>1, <1>2
  <2>2. FlattenSeq(ss) \in Seq(PlannedWrites)
    <3> HIDE DEF ss
    <3> QED BY <2>1, FlattenType
  <2> QED BY <2>2 DEF PlanWrites
<1> QED BY <1>3 DEF Plan, Transaction

LEMMA ImageOrder ==
  ASSUME Layout, Transaction, task.kind = "image", BindImage
  PROVE  order' \in Seq(PlannedWrites)
<1> DEFINE list == AllRelocations
           ss == [k \in DOMAIN list |-> Written(list[k])]
<1>1. list \in Seq([module : Modules, r : MovedRelas])
  BY AllRelocationsType
<1>2. \A k \in DOMAIN list : Written(list[k]) \in Seq(PlannedWrites)
  <2> TAKE k \in DOMAIN list
  <2>1. list[k].r \in MovedRelas
    <3> DEFINE S == [module : Modules, r : MovedRelas]
    <3>1. list[k] \in S
      <4> HIDE DEF list, S
      <4>1. list \in Seq(S)
        BY <1>1 DEF S
      <4> QED BY <4>1
    <3> QED BY <3>1
  <2>2. Fate(list[k]) = "write" => WriteOf(list[k]) \in PlannedWrites
    BY <2>1, WritePlanned DEF Fate, WriteOf, Transaction
  <2> QED BY <2>2 DEF Written
<1>3. FlattenSeq(ss) \in Seq(PlannedWrites)
  <2>1. ss \in Seq(Seq(PlannedWrites))
    <3> HIDE DEF list
    <3> QED BY <1>1, <1>2
  <2> HIDE DEF ss
  <2> QED BY <2>1, FlattenType
<1>4. order' = order \/ order' = FlattenSeq(ss)
  BY DEF BindImage
<1> QED BY <1>3, <1>4 DEF Transaction

LEMMA LoadedProper ==
  ASSUME Layout, Transaction, task.kind = "image", LoadModules
  PROVE  Proper(regions')
<1> DEFINE each(i) == {[base |-> r.base, size |-> r.size, execute |-> r.execute, write |-> r.write,
                        owned |-> FALSE] : r \in ImageRegions(task.modules[i], bases[i])}
           space == UNION {each(i) : i \in Modules}
<1>1. Len(bases) = Len(task.modules) /\ Placed
  BY DEF LoadModules, Layout
<1>2. DOMAIN bases = Modules /\ \A i \in Modules : FileTyped(task.modules[i]) /\ task.gap \in Nat
  BY <1>1, JobTyped DEF Layout, Placed, Modules
<1>3. \A r \in space : r.base \in Nat /\ r.size \in Nat /\ r.base + r.size <= Top
  <2> TAKE r \in space
  <2>1. PICK i \in Modules : r \in each(i)
    OBVIOUS
  <2>2. PICK q \in ImageRegions(task.modules[i], bases[i]) : r.base = q.base /\ r.size = q.size
    BY <2>1
  <2>3. bases[i] \in Nat
    BY <1>1, <1>2, TopType DEF Placed
  <2>4. /\ q.base \in Nat /\ q.size \in Nat
        /\ q.base + q.size <= bases[i] + ImageSpan(task.modules[i])
    BY <1>1, <1>2, <2>3, RegionsInside DEF Placed
  <2>5. ImageSpan(task.modules[i]) \in Nat
    BY <1>1, <1>2, SpanCovers DEF Placed
  <2>6. bases[i] + ImageSpan(task.modules[i]) + task.gap < Top
    BY <1>1, <1>2 DEF Placed
  <2> QED BY <1>2, <2>2, <2>3, <2>4, <2>5, <2>6, TopType
<1>4. CASE regions' = regions
  BY <1>4 DEF Transaction
<1>5. CASE /\ regions' = space
           /\ \A r, s \in space : r # s => Span(r.base, r.size) \cap Span(s.base, s.size) = {}
  <2> HIDE DEF space
  <2> QED BY <1>3, <1>5 DEF Proper
<1> QED BY <1>4, <1>5 DEF LoadModules

LEMMA PreflightStep ==
  ASSUME Transaction, Preflight(task.loader), UNCHANGED task
  PROVE  Transaction'
<1>1. UNCHANGED <<words, regions, order>> /\ loading' \in {"commit", "rejected"}
  BY DEF Preflight
<1>2. RelocationAtomic'
  BY <1>1 DEF RelocationAtomic
<1>3. ASSUME loading' = "commit" PROVE Committing'
  <2>1. /\ \A i \in DOMAIN order : Writable(regions, order[i].slot, order[i].width, task.loader)
        /\ kept' = [i \in DOMAIN order |->
                      [order[i] EXCEPT !.value = Holds(words, order[i].slot, order[i].width)]]
        /\ turn' = 1 /\ before' = words
    BY <1>3 DEF Preflight
  <2>2. Staged'
    BY <1>1, <2>1 DEF Staged, Transaction
  <2>3. InEffect(turn - 1)'
    BY <1>1, <2>1 DEF InEffect
  <2>4. turn' \in 1 .. Len(order') + 1
    BY <1>1, <2>1 DEF Transaction
  <2> QED BY <2>2, <2>3, <2>4 DEF Committing
<1> QED BY <1>1, <1>2, <1>3 DEF Transaction

LEMMA CommitStep ==
  ASSUME Transaction, Commit(task.loader), UNCHANGED task
  PROVE  Transaction'
<1>1. /\ loading = "commit" /\ turn <= Len(order)
      /\ words' = Put(words, order[turn]) /\ turn' = turn + 1
      /\ UNCHANGED <<regions, order, kept, loading, before>>
  BY DEF Commit
<1>2. /\ words \in Memory /\ order \in Seq(PlannedWrites)
      /\ Staged /\ turn \in 1 .. Len(order) /\ InEffect(turn - 1)
  BY <1>1 DEF Transaction, Committing
<1>3. order[turn] \in PlannedWrites
  BY <1>2
<1>4. words' \in Memory
  BY <1>1, <1>2, <1>3, PutType
<1>5. \A a \in 0 .. Top - 1 :
        words'[a] = IF Reaches(turn, a) THEN Digit(order[turn].value, a - order[turn].slot) ELSE words[a]
  BY <1>1, <1>2 DEF Put, Memory, Reaches
<1>6. InEffect(turn - 1)'
  <2> SUFFICES ASSUME NEW a \in 0 .. Top - 1
               PROVE  /\ (\A i \in 1 .. turn : ~Reaches(i, a)) => words'[a] = before[a]
                      /\ \A i \in 1 .. turn :
                           Stands(i, a, turn) => words'[a] = Digit(order[i].value, a - order[i].slot)
    <3>1. turn' - 1 = turn /\ order' = order /\ before' = before
      BY <1>1, <1>2
    <3> QED BY <3>1 DEF InEffect, Stands, Reaches
  <2>1. ASSUME \A i \in 1 .. turn : ~Reaches(i, a) PROVE words'[a] = before[a]
    BY <1>2, <1>5, <2>1 DEF InEffect
  <2>2. ASSUME NEW i \in 1 .. turn, Stands(i, a, turn)
        PROVE  words'[a] = Digit(order[i].value, a - order[i].slot)
    <3>1. CASE i = turn
      BY <1>5, <2>2, <3>1 DEF Stands
    <3>2. CASE i # turn
      <4>1. i \in 1 .. turn - 1 /\ turn \in i + 1 .. turn
        BY <1>2, <3>2
      <4>2. Stands(i, a, turn - 1) /\ ~Reaches(turn, a)
        BY <1>2, <2>2, <4>1 DEF Stands
      <4> QED BY <1>2, <1>5, <4>1, <4>2 DEF InEffect
    <3> QED BY <3>1, <3>2
  <2> QED BY <2>1, <2>2
<1>7. Staged'
  BY <1>1, <1>2 DEF Staged, Mapped
<1>8. turn' \in 1 .. Len(order') + 1
  BY <1>1, <1>2
<1>9. RelocationAtomic'
  BY <1>1 DEF RelocationAtomic
<1> QED BY <1>1, <1>4, <1>6, <1>7, <1>8, <1>9 DEF Transaction, Committing

LEMMA RollBackStep ==
  ASSUME Transaction, RollBack(task.loader), UNCHANGED task
  PROVE  Transaction'
<1>1. /\ loading = "commit" /\ turn <= Len(order)
      /\ loading' = "rollback" /\ turn' = Len(order)
      /\ UNCHANGED <<words, regions, order, kept, before>>
  BY DEF RollBack
<1>2. Staged /\ turn \in 1 .. Len(order) + 1 /\ InEffect(turn - 1) /\ order \in Seq(PlannedWrites)
  BY <1>1 DEF Transaction, Committing
<1>3. ASSUME NEW a \in 0 .. Top - 1, \A i \in 1 .. Len(order) : ~Reaches(i, a)
      PROVE  words[a] = before[a]
  BY <1>1, <1>2, <1>3 DEF InEffect
<1>4. RollingBack'
  BY <1>1, <1>2, <1>3 DEF RollingBack, Staged, Mapped, Reaches
<1> QED BY <1>1, <1>4 DEF Transaction, RelocationAtomic

LEMMA RestoreStep ==
  ASSUME Transaction, Restore(task.loader), UNCHANGED task
  PROVE  Transaction'
<1> DEFINE w == kept[turn]
<1>1. /\ loading = "rollback" /\ turn > 0 /\ turn' = turn - 1
      /\ UNCHANGED <<regions, order, kept, loading, before>>
      /\ words' = IF Writable(regions, w.slot, w.width, task.loader) THEN Put(words, w) ELSE words
  BY DEF Restore
<1>2. /\ words \in Memory /\ order \in Seq(PlannedWrites)
      /\ RollingBack /\ Staged /\ turn \in 1 .. Len(order) /\ before \in Memory
  BY <1>1 DEF Transaction, RollingBack, Staged
<1>3. order[turn] \in PlannedWrites
  BY <1>2
<1>4. /\ w.slot = order[turn].slot /\ w.width = order[turn].width
      /\ w = [order[turn] EXCEPT !.value = Holds(before, order[turn].slot, order[turn].width)]
  <2>1. turn \in DOMAIN order
    BY <1>2
  <2>2. w = [order[turn] EXCEPT !.value = Holds(before, order[turn].slot, order[turn].width)]
    BY <1>2, <2>1 DEF Staged
  <2> HIDE DEF w
  <2> QED BY <1>3, <2>2 DEF PlannedWrites
<1>5. /\ w \in PlannedWrites
      /\ \A a \in Span(w.slot, w.width) : Digit(w.value, a - w.slot) = before[a]
  <2>1. /\ order[turn].slot \in Nat /\ order[turn].width \in {1, 2}
        /\ order[turn].slot + order[turn].width <= Top
    BY <1>3 DEF PlannedWrites
  <2> DEFINE v == Holds(before, order[turn].slot, order[turn].width)
  <2>2. /\ v \in 0 .. Top - 1
        /\ \A a \in Span(order[turn].slot, order[turn].width) : Digit(v, a - order[turn].slot) = before[a]
    BY <1>2, <2>1, HoldsDigits
  <2> HIDE DEF v
  <2>3. w = [order[turn] EXCEPT !.value = v]
    BY <1>4 DEF v
  <2> HIDE DEF w
  <2>4. w.value = v
    BY <1>3, <2>3 DEF PlannedWrites
  <2> QED BY <1>3, <1>4, <2>1, <2>2, <2>3, <2>4 DEF PlannedWrites
<1> HIDE DEF w
<1>6. words' \in Memory
  BY <1>1, <1>2, <1>5, PutType
<1>7. ASSUME NEW a \in 0 .. Top - 1, Mapped(a), \A i \in 1 .. turn - 1 : ~Reaches(i, a)
      PROVE  words'[a] = before[a]
  <2>1. CASE Reaches(turn, a)
    <3>1. a \in Span(w.slot, w.width)
      BY <1>4, <2>1 DEF Reaches
    <3>2. Writable(regions, w.slot, w.width, task.loader)
      BY <1>2, <1>4, <1>7, <3>1 DEF Staged
    <3>3. words' = Put(words, w)
      BY <1>1, <3>2
    <3>4. words'[a] = Digit(w.value, a - w.slot)
      BY <1>2, <3>1, <3>3 DEF Put, Memory
    <3> QED BY <1>5, <3>1, <3>4
  <2>2. CASE ~Reaches(turn, a)
    <3>1. \A i \in 1 .. turn : ~Reaches(i, a)
      BY <1>2, <1>7, <2>2
    <3>2. words[a] = before[a]
      BY <1>2, <1>7, <3>1 DEF RollingBack
    <3>3. a \notin Span(w.slot, w.width)
      BY <1>4, <2>2 DEF Reaches
    <3> QED BY <1>1, <1>2, <3>2, <3>3 DEF Put, Memory
  <2> QED BY <2>1, <2>2
<1>8. RollingBack'
  <2>1. Staged'
    BY <1>1, <1>2 DEF Staged, Mapped
  <2>2. turn' \in 0 .. Len(order')
    BY <1>1, <1>2
  <2> QED BY <1>1, <1>7, <2>1, <2>2 DEF RollingBack, Mapped, Reaches
<1>9. RelocationAtomic'
  BY <1>1 DEF RelocationAtomic
<1> QED BY <1>1, <1>6, <1>8, <1>9 DEF Transaction

LEMMA RolledBackStep ==
  ASSUME Transaction, RolledBack, UNCHANGED task
  PROVE  Transaction'
<1>1. /\ loading = "rollback" /\ turn = 0 /\ loading' = "rolled_back"
      /\ UNCHANGED <<words, regions, order, kept, before, turn>>
  BY DEF RolledBack
<1>2. RollingBack /\ words \in Memory
  BY <1>1 DEF Transaction
<1>3. \A a \in 0 .. Top - 1 : Mapped(a) => words[a] = before[a]
  BY <1>1, <1>2 DEF RollingBack
<1>4. RelocationAtomic'
  BY <1>1, <1>2, <1>3 DEF RelocationAtomic, Mapped, Memory
<1> QED BY <1>1, <1>4 DEF Transaction

LEMMA CommittedStep ==
  ASSUME Transaction, Committed, UNCHANGED task
  PROVE  Transaction'
<1>1. /\ loading = "commit" /\ turn > Len(order) /\ loading' = "applied"
      /\ UNCHANGED <<words, regions, order, kept, before, turn>>
  BY DEF Committed
<1>2. /\ turn \in 1 .. Len(order) + 1 /\ InEffect(turn - 1)
      /\ words \in Memory /\ order \in Seq(PlannedWrites)
  BY <1>1 DEF Transaction, Committing
<1>3. InEffect(Len(order)) /\ DOMAIN order = 1 .. Len(order) /\ Len(order) \in Nat
  <2>1. turn - 1 = Len(order)
    BY <1>1, <1>2
  <2> QED BY <1>2, <2>1
<1>4. ASSUME NEW a \in 0 .. Top - 1
      PROVE  words[a] = IF Reaching(a) = {} THEN before[a]
                        ELSE LET w == order[Max(Reaching(a))] IN Digit(w.value, a - w.slot)
  <2>1. Reaching(a) = {i \in 1 .. Len(order) : Reaches(i, a)}
    BY <1>3 DEF Reaching, Reaches
  <2>2. CASE Reaching(a) = {}
    BY <1>3, <2>1, <2>2 DEF InEffect
  <2>3. CASE Reaching(a) # {}
    <3>1. Reaching(a) \in SUBSET (0 .. Len(order))
      BY <1>3, <2>1
    <3> DEFINE m == Max(Reaching(a))
    <3>2. m \in Reaching(a) /\ \A y \in Reaching(a) : y <= m
      BY <1>3, <2>3, <3>1, GreatestOf
    <3> HIDE DEF m
    <3>3. m \in 1 .. Len(order) /\ Reaches(m, a)
      BY <2>1, <3>2
    <3>4. \A j \in m + 1 .. Len(order) : ~Reaches(j, a)
      BY <1>3, <2>1, <3>2, <3>3
    <3>5. words[a] = Digit(order[m].value, a - order[m].slot)
      BY <1>3, <3>3, <3>4 DEF InEffect, Stands
    <3> QED BY <2>3, <3>5 DEF m
  <2> QED BY <2>2, <2>3
<1>5. \A a \in DOMAIN words : Reaching(a)' = Reaching(a)
  BY <1>1 DEF Reaching
<1>6. RelocationAtomic'
  BY <1>1, <1>2, <1>4, <1>5 DEF RelocationAtomic, Memory
<1> QED BY <1>1, <1>6 DEF Transaction

\* The owner takes a mapping away: what stays mapped stays writable.
LEMMA ReleaseStep ==
  ASSUME Transaction, NEW r \in regions, Release(r), UNCHANGED task
  PROVE  Transaction'
<1>1. /\ loading \in {"planned", "commit", "rollback"}
      /\ regions' = regions \ {r}
      /\ UNCHANGED <<words, order, turn, kept, loading, before>>
  BY DEF Release
<1>2. Proper(regions) /\ Proper(regions')
  BY <1>1 DEF Transaction, Proper
<1>3. \A a : Mapped(a)' => Mapped(a)
  BY <1>1 DEF Mapped, Region
<1>4. ASSUME Staged PROVE Staged'
  <2> SUFFICES ASSUME NEW i \in DOMAIN order, NEW a \in Span(order[i].slot, order[i].width), Mapped(a)'
               PROVE  Writable(regions', order[i].slot, order[i].width, task.loader)
    BY <1>1, <1>4 DEF Staged
  <2>1. order[i].slot \in Int /\ order[i].width \in {1, 2}
    BY DEF Transaction, PlannedWrites
  <2>2. Writable(regions, order[i].slot, order[i].width, task.loader)
    BY <1>3, <1>4 DEF Staged
  <2>3. Region(regions', a, 1) # {}
    BY DEF Mapped
  <2>4. regions' \in SUBSET regions
    BY <1>1
  <2> QED BY <1>2, <2>1, <2>2, <2>3, <2>4, StillWritable
<1>5. Committing => Committing'
  BY <1>1, <1>4 DEF Committing, InEffect, Stands, Reaches
<1>6. RollingBack => RollingBack'
  BY <1>1, <1>3, <1>4 DEF RollingBack, Reaches
<1>7. RelocationAtomic'
  BY <1>1 DEF RelocationAtomic
<1> QED BY <1>1, <1>2, <1>5, <1>6, <1>7 DEF Transaction

\* A step that changes nothing of the transaction, or happens outside it.
LEMMA OutsideStep ==
  ASSUME Transaction, words' \in Memory, Proper(regions'), order' \in Seq(PlannedWrites),
         loading' \notin {"commit", "rollback", "rolled_back", "applied"}
  PROVE  Transaction'
<1>1. RelocationAtomic'
  BY DEF RelocationAtomic
<1> QED BY <1>1 DEF Transaction

LEMMA TransactionStep ==
  ASSUME Layout, Transaction, [ImageNext]_image
  PROVE  Transaction'
<1>0. words \in Memory /\ Proper(regions) /\ order \in Seq(PlannedWrites)
  BY DEF Transaction
<1>1. CASE task.kind = "image" /\ PlaceModule
  BY <1>0, <1>1, OutsideStep DEF PlaceModule
<1>2. CASE task.kind = "image" /\ LoadModules
  <2>1. UNCHANGED <<words, order>> /\ loading' \in {"bind", "failed"}
    BY <1>2 DEF LoadModules
  <2> QED BY <1>0, <1>2, <2>1, LoadedProper, OutsideStep
<1>3. CASE task.kind = "image" /\ BindImage
  <2>1. UNCHANGED <<words, regions>> /\ loading' \in {"failed", "planned", "published"}
    BY <1>3 DEF BindImage
  <2> QED BY <1>0, <1>3, <2>1, ImageOrder, OutsideStep
<1>4. CASE task.kind = "image" /\ Verify
  <2>1. UNCHANGED <<words, regions, order>> /\ loading' \in {"failed", "published"}
    BY <1>4 DEF Verify
  <2> QED BY <1>0, <2>1, OutsideStep
<1>5. CASE task.kind = "plan" /\ Plan(task) /\ UNCHANGED imageVars
  <2>1. UNCHANGED <<words, regions>> /\ loading' \in {"rejected", "planned"}
    BY <1>5 DEF Plan
  <2> QED BY <1>0, <1>5, <2>1, PlanOrder, OutsideStep
<1>6. CASE \E a \in 0 .. Top - 1 : Store(a, 0) /\ UNCHANGED imageVars
  <2>1. PICK a \in 0 .. Top - 1 : Store(a, 0)
    BY <1>6
  <2>2. words' \in Memory
    <3>1. 0 \in Words
      BY TopType DEF Words
    <3> QED BY <1>0, <2>1, <3>1 DEF Store, Memory
  <2>3. UNCHANGED <<regions, order, loading>> /\ loading = "planned"
    BY <2>1 DEF Store
  <2> QED BY <1>0, <2>2, <2>3, OutsideStep
<1>7. CASE \E r \in regions : Release(r) /\ UNCHANGED imageVars
  BY <1>7, ReleaseStep DEF imageVars
<1>8. CASE Transactions /\ UNCHANGED imageVars
  BY <1>8, PreflightStep, CommitStep, RollBackStep, RestoreStep, RolledBackStep, CommittedStep
     DEF Transactions, imageVars
<1>9. CASE UNCHANGED image
  <2>1. UNCHANGED <<words, regions, order, turn, kept, loading, before, task>>
    BY <1>9 DEF image, relocation, imageVars
  <2>2. (Committing => Committing') /\ (RollingBack => RollingBack')
    BY <2>1 DEF Committing, RollingBack, Staged, Mapped, InEffect, Stands, Reaches
  <2>3. RelocationAtomic'
    BY <1>0, <2>1 DEF Transaction, RelocationAtomic, Mapped, Reaching
  <2> QED BY <1>0, <2>1, <2>2, <2>3 DEF Transaction
<1> QED BY <1>1, <1>2, <1>3, <1>4, <1>5, <1>6, <1>7, <1>8, <1>9, StepCases

THEOREM LayoutHolds == ImageSpec => []Layout
<1>1. ImageInit => Layout
  BY LayoutInit
<1>2. Layout /\ [ImageNext]_image => Layout'
  BY LayoutStep
<1> QED BY <1>1, <1>2, PTL DEF ImageSpec

\* A plan of relocation writes is one transaction, for any memory, any plan and
\* any releases of mappings: a commit that ends has written every slot and
\* nothing else, and one that was rolled back left what is mapped as it was
\* (relocation_processor.cpp, apply_relocation_plan).
THEOREM RelocationIsAtomic == ImageSpec => []RelocationAtomic
<1>1. ImageInit => Transaction
  BY TransactionInit
<1>2. Layout /\ Transaction /\ [ImageNext]_image => Transaction'
  BY TransactionStep
<1>3. Transaction => RelocationAtomic
  BY DEF Transaction
<1> QED BY <1>1, <1>2, <1>3, LayoutHolds, PTL DEF ImageSpec

-----------------------------------------------------------------------------
(* BindingsHold. *)

\* The values of a function on a finite set are finitely many.
LEMMA FiniteValues ==
  ASSUME NEW f, IsFiniteSet(DOMAIN f)
  PROVE  IsFiniteSet({f[x] : x \in DOMAIN f})
<1> DEFINE T == {f[x] : x \in DOMAIN f}
           g == [x \in DOMAIN f |-> f[x]]
<1>1. g \in Surjection(DOMAIN f, T)
  BY DEF Surjection
<1> HIDE DEF g, T
<1>2. IsFiniteSet(T)
  BY <1>1, FS_Surjection
<1> QED BY <1>2 DEF T

LEMMA CandidatesFinite ==
  ASSUME Layout, task.kind = "image", NEW name
  PROVE  IsFiniteSet(Candidates(name))
<1> DEFINE K(i) == {n \in DOMAIN Symbols(task.modules[i]) :
                      Symbols(task.modules[i])[n].name = name
                      /\ Eligible(Symbols(task.modules[i])[n], bases[i])}
           f(i) == [k \in K(i) |-> [module |-> i, index |-> k]]
           E(i) == {f(i)[k] : k \in DOMAIN f(i)}
           e == [i \in Modules |-> E(i)]
<1>1. \A i \in Modules : IsFiniteSet(E(i))
  <2> TAKE i \in Modules
  <2>1. Symbols(task.modules[i]) \in Seq(SymbolEntries)
    BY JobTyped DEF Layout, FileTyped, Modules
  <2>2. IsFiniteSet(DOMAIN Symbols(task.modules[i]))
    <3>1. DOMAIN Symbols(task.modules[i]) = 1 .. Len(Symbols(task.modules[i]))
      BY <2>1
    <3>2. Len(Symbols(task.modules[i])) \in Nat
      BY <2>1
    <3> QED BY <3>1, <3>2, FS_Interval
  <2>3. IsFiniteSet(K(i))
    BY <2>2, FS_Subset
  <2>4. DOMAIN f(i) = K(i)
    <3> HIDE DEF K
    <3> QED OBVIOUS
  <2> HIDE DEF f, K
  <2> QED BY <2>3, <2>4, FiniteValues
<1>2. IsFiniteSet(Modules)
  <2>1. Modules = 1 .. Len(task.modules) /\ Len(task.modules) \in Nat
    BY JobTyped DEF Layout, Modules
  <2> QED BY <2>1, FS_Interval
<1>3. IsFiniteSet({e[i] : i \in DOMAIN e})
  <2>1. DOMAIN e = Modules
    OBVIOUS
  <2> HIDE DEF e
  <2> QED BY <1>2, <2>1, FiniteValues
<1>4. IsFiniteSet(UNION {e[i] : i \in DOMAIN e})
  <2>1. \A s \in {e[i] : i \in DOMAIN e} : IsFiniteSet(s)
    <3> HIDE DEF E
    <3> QED BY <1>1
  <2> HIDE DEF e
  <2> QED BY <1>3, <2>1, FS_UNION
<1>5. Candidates(name) = UNION {e[i] : i \in DOMAIN e}
  <2> DEFINE c(i) == {[module |-> i, index |-> k] : k \in K(i)}
  <2>1. \A i \in Modules : e[i] = c(i)
    <3> HIDE DEF K
    <3> QED OBVIOUS
  <2>2. {e[i] : i \in DOMAIN e} = {c(i) : i \in Modules}
    <3>1. DOMAIN e = Modules
      OBVIOUS
    <3> HIDE DEF e, c
    <3> QED BY <2>1, <3>1
  <2>3. Candidates(name) = UNION {c(i) : i \in Modules}
    BY DEF Candidates
  <2> HIDE DEF c, e
  <2> QED BY <2>2, <2>3
<1> QED BY <1>4, <1>5

\* Every definition that is exported under a name, by module and symbol.
Exported(name, i) ==
  {s \in Range(Symbols(task.modules[i])) : s.name = name /\ Eligible(s, bases[i])}
Definitions(name) == UNION {{<<i, s>> : s \in Exported(name, i)} : i \in Modules}

\* A definition has no other strong one beside it, and none at all if it is weak.
Sole(d, name) ==
  /\ {e \in Definitions(name) : e # d /\ e[2].binding = "Global"} = {}
  /\ d[2].binding = "Weak" => Definitions(name) = {d}

NameOf(b) == Symbols(task.modules[b.consumer])[b.symbol].name

\* What is bound is the address of the one definition of its name.
WellBound(b) ==
  /\ task.complete
  /\ b.applied = task.apply
  /\ \E d \in Definitions(NameOf(b)) :
       Sole(d, NameOf(b)) /\ b.write.value = Address(d[2], bases[d[1]]) + b.addend

BindingsHold ==
  /\ task.kind = "plan" \/ loading \in {"place", "bind"} => bindings = <<>>
  /\ bindings # <<>> => task.complete
  /\ \A b \in Range(bindings) : WellBound(b)
  /\ loading = "published" =>
       \A b \in Range(bindings) :
         b.applied => Holds(words, b.write.slot, b.write.width) = b.write.value

\* A candidate is a definition, and every definition is one.
LEMMA CandidatesDefine ==
  ASSUME NEW name
  PROVE  /\ \A c \in Candidates(name) :
              c.module \in Modules /\ <<c.module, SymbolOf(c)>> \in Definitions(name)
         /\ \A d \in Definitions(name) :
              \E c \in Candidates(name) : d = <<c.module, SymbolOf(c)>>
<1>1. ASSUME NEW c \in Candidates(name)
      PROVE  c.module \in Modules /\ <<c.module, SymbolOf(c)>> \in Definitions(name)
  <2>0. PICK i \in Modules : \E k \in DOMAIN Symbols(task.modules[i]) :
          /\ c = [module |-> i, index |-> k]
          /\ Symbols(task.modules[i])[k].name = name
          /\ Eligible(Symbols(task.modules[i])[k], bases[i])
    BY <1>1 DEF Candidates
  <2>1. PICK k \in DOMAIN Symbols(task.modules[i]) :
          /\ c = [module |-> i, index |-> k]
          /\ Symbols(task.modules[i])[k].name = name
          /\ Eligible(Symbols(task.modules[i])[k], bases[i])
    BY <2>0
  <2>2. c.module = i /\ SymbolOf(c) = Symbols(task.modules[i])[k]
    BY <2>1 DEF SymbolOf
  <2>3. SymbolOf(c) \in Exported(name, i)
    BY <2>1, <2>2 DEF Exported, Range
  <2> QED BY <2>2, <2>3 DEF Definitions
<1>2. ASSUME NEW d \in Definitions(name)
      PROVE  \E c \in Candidates(name) : d = <<c.module, SymbolOf(c)>>
  <2>1. PICK i \in Modules : \E s \in Exported(name, i) : d = <<i, s>>
    BY <1>2 DEF Definitions
  <2>2. PICK k \in DOMAIN Symbols(task.modules[i]) :
          /\ Symbols(task.modules[i])[k].name = name
          /\ Eligible(Symbols(task.modules[i])[k], bases[i])
          /\ d = <<i, Symbols(task.modules[i])[k]>>
    BY <2>1 DEF Exported, Range
  <2> DEFINE c == [module |-> i, index |-> k]
  <2>3. c \in Candidates(name)
    BY <2>2 DEF Candidates
  <2>4. c.module = i /\ SymbolOf(c) = Symbols(task.modules[i])[k]
    BY DEF SymbolOf
  <2> QED BY <2>2, <2>3, <2>4
<1> QED BY <1>1, <1>2

\* A provider is selected in a complete set of modules only, and it is the one
\* definition of its name (ProcessSymbolNamespace::lookup).
LEMMA SelectedSole ==
  ASSUME Layout, task.kind = "image", NEW name, Selected(name) # {}
  PROVE  /\ task.complete
         /\ \A c \in Selected(name) :
              /\ c \in Candidates(name)
              /\ Sole(<<c.module, SymbolOf(c)>>, name)
<1> DEFINE all == Candidates(name)
           strong == StrongDefinitions(all)
<1>1. IsFiniteSet(all) /\ IsFiniteSet(strong) /\ strong \subseteq all
  <2>1. strong \subseteq all
    BY DEF StrongDefinitions
  <2> QED BY <2>1, CandidatesFinite, FS_Subset
<1>2. /\ task.complete
      /\ \/ Cardinality(strong) = 1 /\ Selected(name) = strong
         \/ Cardinality(all) = 1 /\ Selected(name) = all
  <2> HIDE DEF all, strong
  <2>1. Selected(name) = CASE ~task.complete -> {}
                           [] task.complete /\ Cardinality(strong) = 1 -> strong
                           [] OTHER -> IF Cardinality(all) = 1 THEN all ELSE {}
    BY DEF Selected, all, strong
  <2> QED BY <2>1
<1>3. ASSUME NEW c \in Selected(name) PROVE c \in all /\ Sole(<<c.module, SymbolOf(c)>>, name)
  <2> DEFINE d == <<c.module, SymbolOf(c)>>
  <2>1. c \in all
    BY <1>1, <1>2
  <2>2. ASSUME NEW e \in Definitions(name), e # d PROVE \E x \in all : x # c /\ e = <<x.module, SymbolOf(x)>>
    BY <2>2, CandidatesDefine
  <2>3. CASE Cardinality(strong) = 1 /\ Selected(name) = strong
    <3>1. strong = {c}
      BY <1>1, <2>3, FS_Singleton
    <3>2. SymbolOf(c).binding = "Global"
      BY <3>1 DEF StrongDefinitions
    <3>3. ASSUME NEW e \in Definitions(name), e # d PROVE e[2].binding # "Global"
      <4>1. PICK x \in all : x # c /\ e = <<x.module, SymbolOf(x)>>
        BY <2>2, <3>3
      <4>2. x \notin strong
        BY <3>1, <4>1
      <4> QED BY <4>1, <4>2 DEF StrongDefinitions
    <3> QED BY <2>1, <3>2, <3>3 DEF Sole
  <2>4. CASE Cardinality(all) = 1 /\ Selected(name) = all
    <3>1. all = {c}
      BY <1>1, <2>4, FS_Singleton
    <3>2. Definitions(name) = {d}
      <4>1. d \in Definitions(name)
        BY <2>1, CandidatesDefine
      <4>2. \A e \in Definitions(name) : e = d
        BY <2>2, <3>1
      <4> HIDE DEF d
      <4> QED BY <4>1, <4>2
    <3> QED BY <2>1, <3>2 DEF Sole
  <2> QED BY <1>2, <2>3, <2>4
<1> QED BY <1>2, <1>3

\* A binding of a relocation that is written is to the one definition.
LEMMA BoundWell ==
  ASSUME Layout, task.kind = "image", NEW x, Fate(x) = "write", Imported(x), NEW b,
         b = [consumer |-> x.module, symbol |-> x.r.symbol, addend |-> x.r.addend,
              write |-> WriteOf(x), applied |-> task.apply]
  PROVE  WellBound(b)
<1> DEFINE symbols == Symbols(task.modules[x.module])
           name == symbols[x.r.symbol].name
           provider == Selected(name)
           c == CHOOSE y \in provider : TRUE
<1>1. x.r.type # "Relative" /\ x.r.symbol \in DOMAIN symbols /\ ~symbols[x.r.symbol].defined
  BY DEF Imported
<1>2. Referred(x.module, x.r) = Provided(x.r, provider)
  <2> HIDE DEF provider
  <2>1. Referred(x.module, x.r) =
          CASE x.r.symbol \notin DOMAIN symbols -> Nowhere
            [] x.r.symbol \in DOMAIN symbols /\ symbols[x.r.symbol].defined ->
                 Address(symbols[x.r.symbol], bases[x.module])
            [] OTHER -> Provided(x.r, provider)
    BY <1>1 DEF Referred, provider
  <2> HIDE DEF symbols
  <2> QED BY <1>1, <2>1
<1>3. Referred(x.module, x.r) \notin {Nowhere, Missing}
  BY DEF Fate, Outcome
<1>4. provider # {} /\ Referred(x.module, x.r) = Address(SymbolOf(c), bases[c.module])
  <2>1. Provided(x.r, provider) =
          CASE provider = {} -> Missing
            [] provider # {} /\ x.r.type = "JumpSlot" /\ SymbolOf(c).type # "Function" -> Nowhere
            [] OTHER -> Address(SymbolOf(c), bases[c.module])
    BY DEF Provided
  <2> HIDE DEF provider, c
  <2> QED BY <1>2, <1>3, <2>1
<1>5. c \in provider
  BY <1>4
<1>6. task.complete /\ c \in Candidates(name) /\ Sole(<<c.module, SymbolOf(c)>>, name)
  <2> HIDE DEF name, c
  <2> QED BY <1>4, <1>5, SelectedSole
<1>7. <<c.module, SymbolOf(c)>> \in Definitions(name)
  <2> HIDE DEF name, c
  <2> QED BY <1>6, CandidatesDefine
<1>8. NameOf(b) = name /\ b.addend = x.r.addend /\ b.applied = task.apply
  BY DEF NameOf
<1>9. b.write.value = Address(SymbolOf(c), bases[c.module]) + x.r.addend
  <2> HIDE DEF c
  <2> QED BY <1>4 DEF WriteOf, Write
<1> HIDE DEF name, c
<1> DEFINE d == <<c.module, SymbolOf(c)>>
<1>10. d[1] = c.module /\ d[2] = SymbolOf(c)
  OBVIOUS
<1> HIDE DEF d
<1>11. d \in Definitions(name) /\ Sole(d, name)
  BY <1>6, <1>7 DEF d
<1> QED BY <1>6, <1>8, <1>9, <1>10, <1>11 DEF WellBound

LEMMA BindImageWell ==
  ASSUME Layout, task.kind = "image", BindingsHold, BindImage
  PROVE  /\ bindings' # <<>> => task.complete
         /\ \A b \in Range(bindings') : WellBound(b)
<1> DEFINE list == AllRelocations
           bound == {k \in DOMAIN list : Fate(list[k]) = "write" /\ Imported(list[k])}
           Binding(k) == [consumer |-> list[k].module, symbol |-> list[k].r.symbol,
                          addend |-> list[k].r.addend, write |-> WriteOf(list[k]), applied |-> task.apply]
           S == {Binding(k) : k \in bound}
           ss == [k \in DOMAIN list |-> Bound(list[k])]
<1>1. \A b \in S : WellBound(b)
  <2> TAKE b \in S
  <2>1. PICK k \in bound : b = Binding(k)
    OBVIOUS
  <2>2. Fate(list[k]) = "write" /\ Imported(list[k])
    OBVIOUS
  <2> HIDE DEF list
  <2> QED BY <2>1, <2>2, BoundWell
<1>2. \A k \in DOMAIN list : Bound(list[k]) \in Seq(S)
  <2> TAKE k \in DOMAIN list
  <2>1. CASE k \in bound
    <3>1. Binding(k) \in S
      BY <2>1
    <3>2. Bound(list[k]) = <<Binding(k)>>
      <4> HIDE DEF list
      <4> QED BY <2>1 DEF Bound
    <3> HIDE DEF S, Binding
    <3> QED BY <3>1, <3>2
  <2>2. CASE k \notin bound
    <3>1. Bound(list[k]) = <<>>
      <4> HIDE DEF list
      <4> QED BY <2>2 DEF Bound
    <3> HIDE DEF S
    <3> QED BY <3>1
  <2> QED BY <2>1, <2>2
<1>3. FlattenSeq(ss) \in Seq(S)
  <2>1. list \in Seq([module : Modules, r : MovedRelas])
    BY AllRelocationsType
  <2>2. ss \in Seq(Seq(S))
    <3> HIDE DEF list, S
    <3> QED BY <1>2, <2>1
  <2> HIDE DEF ss, S
  <2> QED BY <2>2, FlattenType
<1>4. bindings' = bindings \/ bindings' = FlattenSeq(ss)
  BY DEF BindImage
<1>5. CASE bindings' = bindings
  BY <1>5 DEF BindingsHold
<1>6. CASE bindings' = FlattenSeq(ss)
  <2> HIDE DEF S, ss
  <2>1. bindings' \in Seq(S)
    BY <1>3, <1>6
  <2>2. Range(bindings') \subseteq S
    BY <2>1 DEF Range
  <2>3. bindings' # <<>> => bindings'[1] \in S
    BY <2>1
  <2> QED BY <1>1, <2>2, <2>3 DEF WellBound
<1> QED BY <1>4, <1>5, <1>6

\* A binding stands as long as the modules, their bases and the mappings do.
LEMMA WellBoundStays ==
  ASSUME UNCHANGED <<task, bases, regions>>
  PROVE  \A b : WellBound(b) => WellBound(b)'
<1>1. \A s, a : Eligible(s, a)' = Eligible(s, a)
  BY DEF Eligible, Mapped, Executable
<1>2. \A name : Definitions(name)' = Definitions(name)
  BY <1>1 DEF Definitions, Exported, Modules
<1> QED BY <1>2 DEF WellBound, NameOf, Sole

LEMMA BindingsInit == ImageInit => BindingsHold
  BY DEF ImageInit, BindingsHold, Range

LEMMA BindingsStep ==
  ASSUME Layout, BindingsHold, [ImageNext]_image
  PROVE  BindingsHold'
<1> DEFINE Read == loading = "published" =>
              \A b \in Range(bindings) :
                b.applied => Holds(words, b.write.slot, b.write.width) = b.write.value
<1>1. task' = task
  BY DEF ImageNext, Loading, Retained, PlaceModule, LoadModules, BindImage, Verify, image, imageVars
<1>2. CASE bindings = <<>> /\ bindings' = <<>>
  <2>1. Range(bindings') = {}
    BY <1>2 DEF Range
  <2> QED BY <1>2, <2>1 DEF BindingsHold
<1>3. CASE task.kind = "image" /\ PlaceModule
  <2>1. bindings = <<>> /\ bindings' = <<>>
    BY <1>3 DEF PlaceModule, BindingsHold
  <2> QED BY <1>2, <2>1
<1>4. CASE task.kind = "image" /\ LoadModules
  <2>1. bindings = <<>> /\ bindings' = <<>>
    BY <1>4 DEF LoadModules, BindingsHold, imageVars
  <2> QED BY <1>2, <2>1
<1>5. CASE task.kind = "plan"
  <2>1. bindings = <<>>
    BY <1>5 DEF BindingsHold
  <2>2. bindings' = bindings
    BY <1>5, StepCases DEF imageVars, image
  <2> QED BY <1>2, <2>1, <2>2
<1>6. CASE task.kind = "image" /\ BindImage
  <2>1. UNCHANGED <<task, bases, regions>> /\ loading' \in {"failed", "planned", "published"}
    BY <1>6 DEF BindImage
  <2>2. /\ bindings' # <<>> => task.complete
        /\ \A b \in Range(bindings') : WellBound(b)
    BY <1>6, BindImageWell
  <2>3. Read'
    <3> SUFFICES ASSUME loading' = "published"
                 PROVE  \A b \in Range(bindings') : ~b.applied
      OBVIOUS
    <3>1. ~task.apply
      <4>1. loading = "bind"
        BY <1>6 DEF BindImage
      <4> QED BY <1>6, <4>1 DEF BindImage
    <3> QED BY <2>2, <3>1 DEF WellBound
  <2>4. task.kind = "image" /\ loading' \notin {"place", "bind"}
    BY <1>6, <2>1
  <2>5. (\A b \in Range(bindings) : WellBound(b))'
    BY <2>1, <2>2, WellBoundStays
  <2> QED BY <1>1, <2>2, <2>3, <2>4, <2>5 DEF BindingsHold
<1>7. CASE task.kind = "image" /\ Verify
  <2>1. /\ UNCHANGED <<task, bases, regions, bindings, words>> /\ loading = "applied"
        /\ loading' \in {"failed", "published"}
    BY <1>7 DEF Verify, imageVars
  <2>2. (\A b \in Range(bindings) : WellBound(b))'
    BY <2>1, WellBoundStays DEF BindingsHold, Range
  <2>3. Read'
    BY <1>7, <2>1 DEF Verify, Range
  <2> QED BY <1>7, <2>1, <2>2, <2>3 DEF BindingsHold
<1>8. CASE task.kind = "image" /\ Transactions /\ UNCHANGED imageVars
  <2>1. UNCHANGED <<task, bases, regions, bindings>>
    BY <1>8 DEF Transactions, Preflight, Commit, Committed, RollBack, Restore, RolledBack, imageVars
  <2>2. loading \notin {"place", "bind"} /\ loading' \notin {"place", "bind", "published"}
    BY <1>8 DEF Transactions, Preflight, Commit, Committed, RollBack, Restore, RolledBack
  <2>3. (\A b \in Range(bindings) : WellBound(b))'
    BY <2>1, WellBoundStays DEF BindingsHold, Range
  <2> QED BY <1>8, <2>1, <2>2, <2>3 DEF BindingsHold
<1>9. CASE UNCHANGED image
  <2>1. UNCHANGED <<task, bases, regions, bindings, words, loading>>
    BY <1>9 DEF image, imageVars, relocation
  <2>2. (\A b \in Range(bindings) : WellBound(b))'
    BY <2>1, WellBoundStays DEF BindingsHold, Range
  <2> QED BY <2>1, <2>2 DEF BindingsHold
<1>10. task.kind = "image" \/ task.kind = "plan"
  BY ImageAssumption DEF Layout
<1> QED BY <1>3, <1>4, <1>5, <1>6, <1>7, <1>8, <1>9, <1>10, StepCases

\* An image is handed out laid out without overlap and clear of the stack, with
\* every import bound to the one definition of its name and read back, for any
\* modules, any bases and any symbols (process_image.cpp, load_process_image).
THEOREM ImageIsBound == ImageSpec => []ImageBound
<1>1. ImageInit => BindingsHold
  BY BindingsInit
<1>2. Layout /\ BindingsHold /\ [ImageNext]_image => BindingsHold'
  BY BindingsStep
<1>3. Layout /\ BindingsHold => ImageBound
  <2> SUFFICES ASSUME Layout, BindingsHold, loading = "published" PROVE ImageBound
    BY DEF ImageBound
  <2>1. Placed /\ DOMAIN bases = Modules
    BY DEF Layout
  <2>2. ASSUME NEW k \in DOMAIN bindings
        PROVE  \E d \in Definitions(NameOf(bindings[k])) :
                 /\ Sole(d, NameOf(bindings[k]))
                 /\ bindings[k].applied =>
                      Holds(words, bindings[k].write.slot, bindings[k].write.width)
                        = Address(d[2], bases[d[1]]) + bindings[k].addend
    <3>1. PICK d \in Definitions(NameOf(bindings[k])) :
            /\ Sole(d, NameOf(bindings[k]))
            /\ bindings[k].write.value = Address(d[2], bases[d[1]]) + bindings[k].addend
      BY <2>2 DEF BindingsHold, WellBound, Range
    <3>2. bindings[k].applied =>
            Holds(words, bindings[k].write.slot, bindings[k].write.width) = bindings[k].write.value
      BY <2>2 DEF BindingsHold, Range
    <3> QED BY <3>1, <3>2
  <2>3. bindings # <<>> => task.complete
    BY DEF BindingsHold
  <2> QED BY <2>1, <2>2, <2>3 DEF ImageBound, Placed, Definitions, Sole, Exported, NameOf
<1> QED BY <1>1, <1>2, <1>3, LayoutHolds, PTL DEF ImageSpec

-----------------------------------------------------------------------------
(* The boundary between guest and host (RuntimeImports). *)

\* Every registered import has one of the signatures.
SignaturesKnown == \A k \in DOMAIN imports : imports[k].signature \in Signatures

\* Registered modules were valid when they came, and meet no other.
Registered ==
  /\ modules \in Seq(TlsModules)
  /\ \A i \in DOMAIN modules : ValidModule(modules[i])
  /\ \A i, j \in DOMAIN modules : i # j => \A p, q \in TlsParts : ~Meet(modules[i][p], modules[j][q])

\* A handler runs only in a run, and the session sees what it wrote.
HandlerSeen == InHandler => ending = "running" /\ written = returned

\* Compiled functions were checked when they came, and meet no other.
FunctionsPlaced ==
  /\ functions \subseteq Compiled
  /\ \A f \in functions : Aligned(f.entry) /\ f.begin <= f.entry /\ f.entry < f.end
  /\ \A f, g \in functions : f # g => f.entry # g.entry /\ ~Meet(f, g)

BoundaryInv == SignaturesKnown /\ Registered /\ HandlerSeen /\ HandlersAreDue /\ FunctionsPlaced

-----------------------------------------------------------------------------
\* A frame that validate accepts gives every argument.
LEMMA ValidGivesAll ==
  ASSUME NEW g \in Signatures, Verdict(g) = "Valid"
  PROVE  \A i \in Arguments(g) : Obtainable(i)
<1> DEFINE bad == {i \in OnStack(g) : ~Obtainable(i)}
<1>1. bad = {}
  BY DEF Verdict
<1>2. ASSUME NEW i \in Arguments(g), i \notin OnStack(g)
      PROVE  Obtainable(i)
  <2>1. i \in Int
    BY RuntimeAssumption DEF Arguments, Undeclared
  <2> QED BY <2>1, <1>2 DEF OnStack, Obtainable, RegisterArguments
<1> QED BY <1>1, <1>2

\* Ranges that do not meet have no address in common.
LEMMA NoCommonAddress ==
  ASSUME NEW r, NEW s, r.begin \in Int, r.end \in Int, s.begin \in Int, s.end \in Int,
         ~Meet(r, s), NEW a \in r.begin .. r.end - 1
  PROVE  ~Covers(s, a)
BY DEF Meet, Covers

\* A range that is granted is mapped at each of its addresses.
LEMMA GrantedEverywhere ==
  ASSUME NEW r, r.begin \in Int, r.end \in Int, NEW rights, Granted(r, rights),
         NEW a \in r.begin .. r.end - 1
  PROVE  \E p \in Pages : InPageOf(p, a, 1) /\ \A right \in rights : p[right]
<1>1. r.begin # r.end
  OBVIOUS
<1>2. PICK p \in Pages : /\ InPageOf(p, r.begin, r.end - r.begin)
                         /\ \A right \in rights : p[right]
  BY <1>1 DEF Granted
<1>3. InPageOf(p, a, 1)
  <2>1. p.base \in Int /\ p.size \in Int /\ LastAddress \in Int
    BY RuntimeAssumption
  <2>2. /\ r.begin + (r.end - r.begin) <= LastAddress
        /\ p.base <= r.begin /\ r.begin + (r.end - r.begin) <= p.base + p.size
    BY <1>2 DEF InPageOf
  <2>3. a \in Int /\ r.begin <= a /\ a + 1 <= r.end
    OBVIOUS
  <2>4. a + 1 <= LastAddress /\ p.base <= a /\ a + 1 <= p.base + p.size
    BY <2>1, <2>2, <2>3
  <2> QED BY <2>4 DEF InPageOf
<1> QED BY <1>2, <1>3

-----------------------------------------------------------------------------
(* The invariant. *)

LEMMA InitHolds == RuntimeInit => BoundaryInv
<1> SUFFICES ASSUME RuntimeInit PROVE BoundaryInv
  OBVIOUS
<1>1. SignaturesKnown /\ Registered
  BY DEF RuntimeInit, ImportsInit, SignaturesKnown, Registered
<1>2. HandlerSeen /\ HandlersAreDue
  BY DEF RuntimeInit, ImportsInit, HandlerSeen, HandlersAreDue, InHandler
<1>3. FunctionsPlaced
  BY DEF RuntimeInit, FunctionsInit, FunctionsPlaced
<1> QED BY <1>1, <1>2, <1>3 DEF BoundaryInv

\* The registered modules stay as they are except where a step changes them.
LEMMA SameModules ==
  ASSUME Registered, UNCHANGED modules
  PROVE  Registered'
BY DEF Registered

LEMMA SameImports ==
  ASSUME SignaturesKnown, UNCHANGED imports
  PROVE  SignaturesKnown'
BY DEF SignaturesKnown

\* A handler that leaves the frame alone finds it as it was.
LEMMA SameCall ==
  ASSUME HandlersAreDue, UNCHANGED <<imports, sp, call>>
  PROVE  HandlersAreDue'
BY DEF HandlersAreDue, InHandler, Signature, Obtainable, Argument

\* Nothing is due while no handler runs.
LEMMA NoHandler ==
  ASSUME call' = NoImport
  PROVE  HandlersAreDue' /\ HandlerSeen'
BY DEF HandlersAreDue, HandlerSeen, InHandler

LEMMA ImportStep ==
  ASSUME BoundaryInv, ImportsNext, UNCHANGED functionVars
  PROVE  BoundaryInv'
<1> USE DEF BoundaryInv
<1>1. FunctionsPlaced'
  BY DEF functionVars, FunctionsPlaced
<1>2. ASSUME NEW name \in ImportNames, NEW r \in Registrations, RegisterImport(name, r)
      PROVE  BoundaryInv'
  <2>1. call' = NoImport
    BY <1>2 DEF RegisterImport, HandlerSeen, InHandler
  <2>2. SignaturesKnown'
    BY <1>2 DEF RegisterImport, SignaturesKnown, Registrations
  <2> QED BY <1>1, <1>2, <2>1, <2>2, SameModules, NoHandler DEF RegisterImport
<1>3. ASSUME NEW b \in Boundaries, Unresolved(b) \/ Invalid(b) \/ Unimplemented(b)
      PROVE  BoundaryInv'
  <2>1. call' = NoImport /\ UNCHANGED <<imports, modules>>
    BY <1>3 DEF Unresolved, Invalid, Unimplemented, Stopped, Same, Kept
  <2> QED BY <1>1, <2>1, SameImports, SameModules, NoHandler
<1>4. ASSUME NEW b \in Boundaries, Enters(b)
      PROVE  BoundaryInv'
  <2>1. UNCHANGED <<imports, sp, modules, ending>> /\ call' = b /\ ending = "running"
    BY <1>4 DEF Enters, Kept, Running
  <2>2. HandlerSeen'
    BY <1>4, <2>1 DEF Enters, HandlerSeen
  <2>3. \A i \in Arguments(Signature(b)) : Obtainable(i)
    BY <1>4, ValidGivesAll DEF Enters, Signature, Resolved, SignaturesKnown
  <2>4. HandlersAreDue'
    BY <1>4, <2>1, <2>3
    DEF HandlersAreDue, Enters, Resolved, FallbackEligible, Signature, Obtainable, Argument
  <2> QED BY <1>1, <2>1, <2>2, <2>4, SameImports, SameModules
<1>5. CASE SetsReturn
  <2>1. UNCHANGED <<imports, sp, call, modules, ending>>
    BY <1>5 DEF SetsReturn, Kept
  <2>2. HandlerSeen'
    BY <1>5, <2>1 DEF SetsReturn, HandlerSeen, InHandler
  <2> QED BY <1>1, <2>1, <2>2, SameImports, SameModules, SameCall
<1>6. ASSUME NEW m \in TlsModules, RegisterTls(m)
      PROVE  BoundaryInv'
  <2>1. UNCHANGED <<imports, sp, call, written, returned, ending>>
    BY <1>6 DEF RegisterTls
  <2>2. HandlerSeen'
    BY <2>1 DEF HandlerSeen, InHandler
  <2>3. Registered'
    <3>1. modules' = Append(modules, m) /\ modules \in Seq(TlsModules)
      BY <1>6 DEF RegisterTls, Registered
    <3>2. /\ modules' \in Seq(TlsModules)
          /\ DOMAIN modules' = 1 .. Len(modules) + 1 /\ DOMAIN modules = 1 .. Len(modules)
          /\ Len(modules) \in Nat
          /\ modules'[Len(modules) + 1] = m
          /\ \A i \in DOMAIN modules : modules'[i] = modules[i]
      BY <3>1
    <3>3. \A i \in DOMAIN modules' : i \in DOMAIN modules \/ i = Len(modules) + 1
      BY <3>2
    <3>4. ValidModule(m) /\ \A i \in DOMAIN modules : \A p, q \in TlsParts : ~Meet(m[p], modules[i][q])
      BY <1>6 DEF RegisterTls
    <3>5. \A i \in DOMAIN modules' : ValidModule(modules'[i])
      BY <3>2, <3>3, <3>4 DEF Registered
    <3>6. ASSUME NEW i \in DOMAIN modules', NEW j \in DOMAIN modules', i # j,
                 NEW p \in TlsParts, NEW q \in TlsParts
          PROVE  ~Meet(modules'[i][p], modules'[j][q])
      <4>1. CASE i \in DOMAIN modules /\ j \in DOMAIN modules
        BY <3>2, <3>6, <4>1 DEF Registered
      <4>2. CASE i = Len(modules) + 1
        <5>1. j \in DOMAIN modules
          BY <3>3, <3>6, <4>2
        <5> QED BY <3>2, <3>4, <4>2, <5>1
      <4>3. CASE j = Len(modules) + 1
        <5>1. i \in DOMAIN modules
          BY <3>3, <3>6, <4>3
        <5>2. ~Meet(m[q], modules[i][p])
          BY <3>4, <5>1
        <5> QED BY <3>2, <4>3, <5>1, <5>2 DEF Meet
      <4> QED BY <3>3, <4>1, <4>2, <4>3
    <3> QED BY <3>2, <3>5, <3>6 DEF Registered
  <2> QED BY <1>1, <2>1, <2>2, <2>3, SameImports, SameCall
<1>7. ASSUME NEW end \in HandlerEnds, ResumesGuest(end) \/ StopsIn(end)
      PROVE  BoundaryInv'
  <2>1. call' = NoImport /\ UNCHANGED <<imports, modules>>
    BY <1>7 DEF ResumesGuest, StopsIn, Stopped, Same, Kept
  <2> QED BY <1>1, <2>1, SameImports, SameModules, NoHandler
<1>8. CASE GuestMoves
  <2>1. call' = NoImport /\ UNCHANGED <<imports, modules>>
    BY <1>8 DEF GuestMoves, Running
  <2> QED BY <1>1, <2>1, SameImports, SameModules, NoHandler
<1>9. CASE StartsRun
  <2>1. call' = NoImport /\ modules' = <<>> /\ UNCHANGED imports
    BY <1>9 DEF StartsRun, HandlerSeen, InHandler
  <2>2. Registered'
    BY <2>1 DEF Registered
  <2> QED BY <1>1, <2>1, <2>2, SameImports, NoHandler
<1> QED BY <1>2, <1>3, <1>4, <1>5, <1>6, <1>7, <1>8, <1>9 DEF ImportsNext

LEMMA FunctionStep ==
  ASSUME BoundaryInv, FunctionsNext, UNCHANGED importVars
  PROVE  BoundaryInv'
<1> USE DEF BoundaryInv
<1>1. Registered' /\ HandlersAreDue'
  BY SameModules, SameCall DEF importVars
<1>2. HandlerSeen'
  BY DEF importVars, HandlerSeen, InHandler
<1>3. ASSUME Freeze PROVE FunctionsPlaced'
  BY <1>3 DEF Freeze, FunctionsPlaced
<1>4. ASSUME NEW f \in Compiled, Add(f)
      PROVE  FunctionsPlaced'
  <2>1. functions' = functions \cup {f} /\ Aligned(f.entry) /\ f.begin <= f.entry /\ f.entry < f.end
    BY <1>4 DEF Add
  <2>2. \A g \in functions : f.entry # g.entry /\ ~Meet(f, g) /\ ~Meet(g, f)
    BY <1>4 DEF Add, Meet
  <2> QED BY <2>1, <2>2 DEF FunctionsPlaced
<1>5. FunctionsPlaced'
  BY <1>3, <1>4 DEF FunctionsNext
<1> QED BY <1>1, <1>2, <1>5, SameImports DEF importVars

LEMMA StepHolds == BoundaryInv /\ [RuntimeNext]_runtime => BoundaryInv'
<1>1. ASSUME BoundaryInv, UNCHANGED runtime PROVE BoundaryInv'
  <2>1. SignaturesKnown' /\ Registered' /\ HandlersAreDue' /\ HandlerSeen'
    BY <1>1, SameImports, SameModules, SameCall DEF runtime, importVars, BoundaryInv, HandlerSeen, InHandler
  <2>2. FunctionsPlaced'
    BY <1>1 DEF runtime, functionVars, BoundaryInv, FunctionsPlaced
  <2> QED BY <2>1, <2>2 DEF BoundaryInv
<1> QED BY <1>1, ImportStep, FunctionStep DEF RuntimeNext

LEMMA Inductive == RuntimeSpec => []BoundaryInv
BY InitHolds, StepHolds, PTL DEF RuntimeSpec

-----------------------------------------------------------------------------
(* The properties. *)

LEMMA ModulesStayApart == BoundaryInv => ModulesApart
<1> SUFFICES ASSUME BoundaryInv PROVE ModulesApart
  OBVIOUS
<1>1. \A i \in DOMAIN modules : modules[i] \in TlsModules /\ ValidModule(modules[i])
  BY DEF BoundaryInv, Registered
<1>2. \A i \in DOMAIN modules : \A p \in TlsParts :
        modules[i][p].begin \in Int /\ modules[i][p].end \in Int
  BY <1>1, RuntimeAssumption DEF TlsParts
<1>3. ASSUME NEW i \in DOMAIN modules, NEW j \in DOMAIN modules,
             NEW p \in TlsParts, NEW q \in TlsParts, <<i, p>> # <<j, q>>,
             NEW a \in modules[i][p].begin .. modules[i][p].end - 1
      PROVE  ~Covers(modules[j][q], a)
  <2>1. ~Meet(modules[i][p], modules[j][q])
    BY <1>1, <1>3 DEF BoundaryInv, Registered, ValidModule
  <2> QED BY <1>2, <2>1, NoCommonAddress
<1>4. ASSUME NEW i \in DOMAIN modules, NEW part \in TlsParts,
             NEW a \in modules[i][part].begin .. modules[i][part].end - 1
      PROVE  \E p \in Pages : /\ InPageOf(p, a, 1) /\ p.read
                              /\ part = "executable" => p.execute
                              /\ part = "tbss" => p.write
  <2>1. CASE part = "executable"
    <3>1. Granted(modules[i].executable, {"read", "execute"})
      BY <1>1 DEF ValidModule
    <3> QED BY <1>2, <1>4, <2>1, <3>1, GrantedEverywhere
  <2>2. CASE part = "tdata"
    <3>1. Granted(modules[i].tdata, {"read"})
      BY <1>1 DEF ValidModule
    <3> QED BY <1>2, <1>4, <2>2, <3>1, GrantedEverywhere
  <2>3. CASE part = "tbss"
    <3>1. Granted(modules[i].tbss, {"read", "write"})
      BY <1>1 DEF ValidModule
    <3> QED BY <1>2, <1>4, <2>3, <3>1, GrantedEverywhere
  <2> QED BY <2>1, <2>2, <2>3 DEF TlsParts
<1> QED BY <1>3, <1>4 DEF ModulesApart

LEMMA FunctionsStayApart == BoundaryInv => FunctionsApart
<1> SUFFICES ASSUME BoundaryInv, NEW f \in functions
             PROVE  /\ LowerBound(f.entry) = f
                    /\ frozen /\ Fetchable(f.entry, InstructionSize) => Finds(f.entry)
                    /\ \A g \in functions, a \in f.begin .. f.end - 1 : Covers(g, a) => f = g
  BY DEF FunctionsApart
<1>1. \A g \in functions : g.begin \in Int /\ g.end \in Int /\ g.entry \in Int
  BY RuntimeAssumption DEF BoundaryInv, FunctionsPlaced
<1>2. LowerBound(f.entry) = f
  <2>1. f \in AtOrAbove(f.entry) /\ \A g \in AtOrAbove(f.entry) : f.entry <= g.entry
    BY <1>1 DEF AtOrAbove
  <2>2. /\ LowerBound(f.entry) \in AtOrAbove(f.entry)
        /\ LowerBound(f.entry).entry <= f.entry
    BY <2>1 DEF LowerBound
  <2> QED BY <1>1, <2>2 DEF AtOrAbove, BoundaryInv, FunctionsPlaced
<1>3. ASSUME NEW g \in functions, NEW a \in f.begin .. f.end - 1, f # g
      PROVE  ~Covers(g, a)
  BY <1>1, <1>3, NoCommonAddress DEF BoundaryInv, FunctionsPlaced
<1>4. ASSUME frozen, Fetchable(f.entry, InstructionSize)
      PROVE  Finds(f.entry)
  <2>1. f \in AtOrAbove(f.entry)
    BY <1>1 DEF AtOrAbove
  <2>2. Aligned(f.entry)
    BY DEF BoundaryInv, FunctionsPlaced
  <2> QED BY <1>2, <1>4, <2>1, <2>2 DEF Finds
<1> QED BY <1>2, <1>3, <1>4

\* A handler runs only for an import the host may serve and with arguments it
\* can read, registered modules share no byte, and a call reaches the one
\* function at its target (imports.cpp, dispatcher.cpp).
THEOREM BoundaryAlwaysHolds == RuntimeSpec => []BoundaryHolds
<1>1. BoundaryInv => BoundaryHolds
  BY ModulesStayApart, FunctionsStayApart DEF BoundaryInv, BoundaryHolds
<1> QED BY <1>1, Inductive, PTL

\* No guest goes on with an X0 from before the import that promised it one
\* (invoke, dispatch_runtime_import).
THEOREM ResumedWhenDone == RuntimeSpec => ResumesWhenDone
<1> DEFINE Step == (InHandler /\ call' = NoImport /\ GuestGoesOn) =>
                     (Signature(call).returns = "Integer" => returned)
<1>1. ASSUME BoundaryInv, RuntimeNext PROVE Step
  <2> SUFFICES ASSUME InHandler, call' = NoImport, GuestGoesOn,
                      Signature(call).returns = "Integer"
               PROVE  returned
    OBVIOUS
  <2>1. ending = "running" /\ written = returned
    BY <1>1 DEF BoundaryInv, HandlerSeen
  <2>2. PICK end \in HandlerEnds : ResumesGuest(end) \/ StopsIn(end)
    <3>1. call' # call
      BY DEF InHandler
    <3>2. ImportsNext
      BY <1>1, <3>1 DEF RuntimeNext, importVars
    <3> QED BY <2>1, <3>1, <3>2
        DEF ImportsNext, RegisterImport, Unresolved, Invalid, Unimplemented, Enters, Running,
            InHandler, SetsReturn, RegisterTls, GuestMoves, StartsRun, Kept
  <2>3. Judged(end) = "Handled"
    <3>1. Judged(end) \in {"running", "EntryReturned"} => FALSE
      BY DEF Judged, HandlerEnds, Outcomes
    <3> QED BY <2>2, <3>1 DEF ResumesGuest, StopsIn, Stopped, GuestGoesOn
  <2> QED BY <2>1, <2>3 DEF Judged
<1>2. BoundaryInv /\ [RuntimeNext]_runtime => [Step]_importVars
  BY <1>1 DEF runtime
<1> QED BY <1>2, Inductive, PTL DEF RuntimeSpec, ResumesWhenDone
=============================================================================
