------------------------- MODULE CfgAnalyzer_proofs -------------------------
(***************************************************************************)
(* Proofs about CfgAnalyzer: whatever the order in which leaders are found,  *)
(* the graph it returns is that of the reachable code, and it fails only for *)
(* a reason the code has.                                                    *)
(***************************************************************************)
EXTENDS CfgAnalyzer, FiniteSetTheorems, WellFoundedInduction, TLAPS

-----------------------------------------------------------------------------
(* Natural numbers. *)

\* A nonempty set of naturals has a least element.
LEMMA LeastOf ==
  ASSUME NEW T \in SUBSET Nat, T # {}
  PROVE  \E x \in T : \A y \in T : x <= y
<1> DEFINE Less == {ss \in Nat \X Nat : ss[1] < ss[2]}
<1>1. IsWellFoundedOn(Less, Nat)
  BY NatLessThanWellFounded DEF OpToRel
<1>2. PICK x \in T : \A y \in T : ~ (<<y, x>> \in Less)
  <2> HIDE DEF Less
  <2> QED BY <1>1, WFMin
<1>3. ASSUME NEW y \in T, y < x PROVE FALSE
  <2>1. <<y, x>> \in Less
    BY <1>3
  <2> HIDE DEF Less
  <2> QED BY <1>2, <2>1
<1> QED BY <1>3

\* Induction: a set of naturals that has 0 and with each number the next has
\* them all.
LEMMA Induction ==
  ASSUME NEW G \in SUBSET Nat, 0 \in G, \A n \in G : n + 1 \in G
  PROVE  G = Nat
<1> SUFFICES ASSUME Nat \ G # {} PROVE FALSE
  OBVIOUS
<1>1. PICK x \in Nat \ G : \A y \in Nat \ G : x <= y
  <2> DEFINE T == Nat \ G
  <2>1. T \in SUBSET Nat /\ T # {}
    OBVIOUS
  <2> HIDE DEF T
  <2>2. \E x \in T : \A y \in T : x <= y
    BY <2>1, LeastOf
  <2> QED BY <2>2 DEF T
<1>2. x # 0 /\ x - 1 \in Nat
  BY <1>1
<1>3. x - 1 \in G
  BY <1>1, <1>2
<1>4. (x - 1) + 1 \in G
  BY <1>3
<1> QED BY <1>1, <1>4

\* The maximum of a nonempty set of numbers up to a bound is its greatest.
LEMMA GreatestOf ==
  ASSUME NEW n \in Nat, NEW T \in SUBSET (0 .. n), T # {}
  PROVE  Max(T) \in T /\ \A y \in T : y <= Max(T)
<1> DEFINE U == {n - x : x \in T}
<1>1. U \in SUBSET Nat /\ U # {}
  <2>1. \A x \in T : n - x \in Nat
    OBVIOUS
  <2> QED BY <2>1
<1>2. PICK u \in U : \A y \in U : u <= y
  <2> HIDE DEF U
  <2> QED BY <1>1, LeastOf
<1>3. PICK x \in T : u = n - x
  BY <1>2
<1>4. \A y \in T : y <= x
  <2> TAKE y \in T
  <2>1. n - y \in U
    OBVIOUS
  <2> QED BY <1>2, <1>3, <2>1
<1>5. \A y \in T : x >= y
  BY <1>4
<1> QED BY <1>5 DEF Max

\* The minimum of a nonempty set of naturals is its least.
LEMMA MinOf ==
  ASSUME NEW T \in SUBSET Nat, T # {}
  PROVE  Min(T) \in T /\ \A y \in T : Min(T) <= y
<1>1. \E x \in T : \A y \in T : x <= y
  BY LeastOf
<1> QED BY <1>1 DEF Min

-----------------------------------------------------------------------------
(* Reachability. *)

Reached == Reach(options.entry, options.known, options.allowed)
EdgesOf == [a \in Slots |-> Edges(a)]

Typed ==
  /\ code \in Programs
  /\ options \in [entry : Slots, known : SUBSET Slots, allowed : Ranges, limits : Limits]
  /\ options.entry \in options.allowed

\* What is known of an edge of the instruction at a.
LEMMA FlowEdges ==
  ASSUME NEW entry, NEW known, NEW allowed, NEW a, NEW e \in Flow(entry, known, allowed, a)
  PROVE  /\ e.internal => e.target \in allowed
         /\ e.kind = "FunctionTransfer" =>
              Transfer(entry, known, a) /\ ~e.internal /\ e.target = code[a].target
         /\ code[a].kind = "jump" => e.kind # "Fallthrough"
         /\ code[a].kind = "plain" => e.target = a + 1
<1> DEFINE next == [target |-> a + 1, kind |-> "Fallthrough", internal |-> a + 1 \in allowed]
           left == [target |-> code[a].target, kind |-> "FunctionTransfer",
                    internal |-> FALSE /\ code[a].target \in allowed]
           branch == [target |-> code[a].target, kind |-> "Branch",
                      internal |-> TRUE /\ code[a].target \in allowed]
           taken == [target |-> code[a].target, kind |-> "ConditionalTaken",
                     internal |-> TRUE /\ code[a].target \in allowed]
           passed == [next EXCEPT !.kind = "ConditionalNotTaken"]
<1>1. CASE code[a].kind \in {"plain", "call", "icall"}
  <2>1. Flow(entry, known, allowed, a) = {next}
    BY <1>1 DEF Flow
  <2>2. e = next
    BY <2>1, Zenon
  <2>3. e.target = a + 1 /\ e.kind = "Fallthrough" /\ (e.internal <=> a + 1 \in allowed)
    BY <2>2, Zenon
  <2> QED BY <1>1, <2>3
<1>2. CASE code[a].kind = "jump" /\ Transfer(entry, known, a)
  <2>1. Flow(entry, known, allowed, a) = {left}
    BY <1>2 DEF Flow
  <2>2. e = left
    BY <2>1, Zenon
  <2>3. e.target = code[a].target /\ e.kind = "FunctionTransfer" /\ ~e.internal
    BY <2>2, Zenon
  <2> QED BY <1>2, <2>3
<1>3. CASE code[a].kind = "jump" /\ ~Transfer(entry, known, a)
  <2>1. Flow(entry, known, allowed, a) = {branch}
    BY <1>3 DEF Flow
  <2>2. e = branch
    BY <2>1, Zenon
  <2>3. e.target = code[a].target /\ e.kind = "Branch"
        /\ (e.internal <=> code[a].target \in allowed)
    BY <2>2, Zenon
  <2> QED BY <1>3, <2>3
<1>4. CASE code[a].kind = "cond"
  <2>1. Flow(entry, known, allowed, a) = {taken, passed}
    BY <1>4 DEF Flow
  <2>2. e = taken \/ e = passed
    BY <2>1, Zenon
  <2>3. CASE e = taken
    <3>1. e.target = code[a].target /\ e.kind = "ConditionalTaken"
          /\ (e.internal <=> code[a].target \in allowed)
      BY <2>3, Zenon
    <3> QED BY <1>4, <3>1
  <2>4. e = passed => e.target = a + 1 /\ e.kind = "ConditionalNotTaken"
                      /\ (e.internal <=> a + 1 \in allowed)
    BY Zenon
  <2> HIDE DEF taken, passed
  <2> QED BY <1>4, <2>2, <2>3, <2>4
<1>5. CASE code[a].kind \notin {"plain", "call", "icall", "jump", "cond"}
  BY <1>5 DEF Flow
<1> QED BY <1>1, <1>2, <1>3, <1>4, <1>5

\* Every successor inside the range is in it.
LEMMA InnerAllowed ==
  ASSUME NEW entry, NEW known, NEW allowed, NEW a
  PROVE  Inner(Flow(entry, known, allowed, a)) \subseteq allowed
BY FlowEdges DEF Inner

\* A plain instruction leads to the next one inside the range.
LEMMA PlainFlow ==
  ASSUME NEW entry, NEW known, NEW allowed, NEW a, code[a].kind = "plain", a + 1 \in allowed
  PROVE  Flow(entry, known, allowed, a)
           = {[target |-> a + 1, kind |-> "Fallthrough", internal |-> TRUE]}
<1>1. Flow(entry, known, allowed, a)
        = {[target |-> a + 1, kind |-> "Fallthrough", internal |-> a + 1 \in allowed]}
  BY DEF Flow
<1>2. (a + 1 \in allowed) = TRUE
  OBVIOUS
<1> QED BY <1>1, <1>2, Zenon

\* The one edge of a block that was cut.
LEMMA InnerNext ==
  ASSUME NEW t, NEW k
  PROVE  Inner({[target |-> t, kind |-> k, internal |-> TRUE]}) = {t}
<1> DEFINE e == [target |-> t, kind |-> k, internal |-> TRUE]
<1>1. e.target = t /\ e.internal
  BY Zenon
<1> HIDE DEF e
<1>2. Inner({e}) = {t}
  BY <1>1 DEF Inner
<1> QED BY <1>2 DEF e

\* A transfer is an edge.
LEMMA TransferFlow ==
  ASSUME NEW entry, NEW known, NEW allowed, NEW a, Transfer(entry, known, a)
  PROVE  \E e \in Flow(entry, known, allowed, a) :
           e.kind = "FunctionTransfer" /\ e.target = code[a].target
<1> DEFINE left == [target |-> code[a].target, kind |-> "FunctionTransfer",
                    internal |-> FALSE /\ code[a].target \in allowed]
<1>1. Flow(entry, known, allowed, a) = {left}
  BY DEF Flow, Transfer
<1>2. left.kind = "FunctionTransfer" /\ left.target = code[a].target
  BY Zenon
<1> QED BY <1>1, <1>2, Zenon

\* The range bounds what InOrder marks: the successors inside it.
LEMMA Ordered ==
  ASSUME NEW a \in Nat
  PROVE  /\ InOrder(a) \in Seq(Inner(Edges(a)))
         /\ Len(InOrder(a)) <= 2
         /\ Range(InOrder(a)) = Inner(Edges(a))
<1> DEFINE inner == Inner(Edges(a))
           direct == IF code[a].kind \in {"jump", "cond"} /\ code[a].target \in inner
                     THEN <<code[a].target>> ELSE <<>>
           next == IF code[a].kind # "jump" /\ a + 1 \in inner THEN <<a + 1>> ELSE <<>>
<1>1. inner \subseteq (IF code[a].kind \in {"jump", "cond"} THEN {code[a].target} ELSE {})
                       \cup (IF code[a].kind # "jump" THEN {a + 1} ELSE {})
  <2> SUFFICES ASSUME NEW e \in Edges(a), e.internal
               PROVE  \/ code[a].kind \in {"jump", "cond"} /\ e.target = code[a].target
                      \/ code[a].kind # "jump" /\ e.target = a + 1
    BY DEF Inner
  <2> QED BY DEF Edges, Flow
<1>2. direct \in Seq(inner) /\ Len(direct) \in {0, 1}
      /\ direct = IF Len(direct) = 0 THEN <<>> ELSE <<code[a].target>>
  <2> HIDE DEF inner
  <2> QED OBVIOUS
<1>3. next \in Seq(inner) /\ Len(next) \in {0, 1}
      /\ next = IF Len(next) = 0 THEN <<>> ELSE <<a + 1>>
  <2> HIDE DEF inner
  <2> QED OBVIOUS
<1>4. InOrder(a) = direct \o next
  BY DEF InOrder
<1>5. InOrder(a) \in Seq(inner) /\ Len(InOrder(a)) <= 2
  <2> HIDE DEF inner, direct, next
  <2> QED BY <1>2, <1>3, <1>4
<1>6. ASSUME NEW x \in inner PROVE \E i \in DOMAIN InOrder(a) : InOrder(a)[i] = x
  <2>1. CASE code[a].kind \in {"jump", "cond"} /\ x = code[a].target
    <3>1. direct = <<x>>
      BY <1>6, <2>1
    <3> HIDE DEF direct, next, inner
    <3>2. InOrder(a)[1] = x /\ 1 \in DOMAIN InOrder(a)
      BY <1>3, <1>4, <3>1
    <3> QED BY <3>2
  <2>2. CASE code[a].kind # "jump" /\ x = a + 1
    <3>1. next = <<x>>
      BY <1>6, <2>2
    <3> HIDE DEF direct, next, inner
    <3>2. Len(direct) + 1 \in DOMAIN InOrder(a) /\ InOrder(a)[Len(direct) + 1] = x
      BY <1>2, <1>4, <3>1
    <3> QED BY <3>2
  <2> HIDE DEF inner
  <2> QED BY <1>1, <1>6, <2>1, <2>2
<1> HIDE DEF inner
<1>7. Range(InOrder(a)) = inner
  BY <1>5, <1>6 DEF Range
<1> QED BY <1>5, <1>7 DEF inner

\* What a function that is defined by recursion from entry makes of the sets it
\* passes through is the least set with entry that is closed under succession.
LEMMA ReachLeast ==
  ASSUME NEW entry \in Slots, NEW known, NEW allowed \in SUBSET Slots, entry \in allowed
  PROVE  LET R == Reach(entry, known, allowed)
             Next(a) == Inner(Flow(entry, known, allowed, a))
         IN /\ entry \in R
            /\ R \subseteq allowed
            /\ \A a \in R : Next(a) \subseteq R
            /\ \A T : entry \in T /\ (\A a \in T : Next(a) \subseteq T) => R \subseteq T
<1> DEFINE N == CodeSize
           Next(a) == Inner(Flow(entry, known, allowed, a))
           grow(found) == found \cup UNION {Next(a) : a \in found}
           Step(f, n) == IF n = 0 THEN {entry} ELSE grow(f[n - 1])
           Good(g, n) == \A i \in 0 .. n : g[i] = Step(g, i)
           Upto(n) == \E g \in [0 .. n -> SUBSET allowed] : Good(g, n)
           F == CHOOSE f : f = [n \in 0 .. N |-> Step(f, n)]
<1>1. N \in Nat \ {0}
  BY GuestCodeAssumption
<1>2. ASSUME NEW T \in SUBSET allowed PROVE grow(T) \in SUBSET allowed
  BY InnerAllowed
<1>3. \A n \in Nat : n <= N => Upto(n)
  <2> DEFINE G == {n \in Nat : n <= N => Upto(n)}
  <2>1. Upto(0)
    <3> DEFINE g == [i \in 0 .. 0 |-> {entry}]
    <3>1. g \in [0 .. 0 -> SUBSET allowed]
      OBVIOUS
    <3>2. Good(g, 0)
      <4> HIDE DEF grow
      <4> QED OBVIOUS
    <3> HIDE DEF Good, g
    <3> QED BY <3>1, <3>2
  <2>2. ASSUME NEW n \in Nat, Upto(n), n + 1 <= N PROVE Upto(n + 1)
    <3>1. PICK g \in [0 .. n -> SUBSET allowed] : Good(g, n)
      BY <2>2
    <3> DEFINE h == [i \in 0 .. n + 1 |-> IF i = n + 1 THEN grow(g[n]) ELSE g[i]]
    <3>2. grow(g[n]) \in SUBSET allowed
      BY <1>2, <3>1
    <3>3. h \in [0 .. n + 1 -> SUBSET allowed]
      <4> HIDE DEF grow
      <4> QED BY <3>1, <3>2
    <3>4. Good(h, n + 1)
      <4> HIDE DEF grow
      <4> SUFFICES ASSUME NEW i \in 0 .. n + 1 PROVE h[i] = Step(h, i)
        OBVIOUS
      <4>1. CASE i = n + 1
        BY <4>1
      <4>2. CASE i \in 0 .. n
        <5>1. h[i] = g[i] /\ g[i] = Step(g, i)
          BY <3>1, <4>2
        <5>2. i # 0 => h[i - 1] = g[i - 1]
          BY <4>2
        <5> QED BY <5>1, <5>2
      <4> QED BY <4>1, <4>2
    <3> HIDE DEF Good, h
    <3> QED BY <3>3, <3>4
  <2> HIDE DEF Upto
  <2>3. 0 \in G /\ \A n \in G : n + 1 \in G
    <3> HIDE DEF N
    <3> QED BY <1>1, <2>1, <2>2
  <2>4. G \in SUBSET Nat
    OBVIOUS
  <2>5. G = Nat
    <3> HIDE DEF G
    <3> QED BY <2>3, <2>4, Induction
  <2> QED BY <2>5
<1>4. PICK g \in [0 .. N -> SUBSET allowed] : Good(g, N)
  <2>1. N \in Nat /\ N <= N
    BY <1>1
  <2> HIDE DEF Good
  <2> QED BY <1>3, <2>1
<1>5. g = [n \in 0 .. N |-> Step(g, n)]
  <2> HIDE DEF Step
  <2> QED BY <1>4
<1>6. F = [n \in 0 .. N |-> Step(F, n)]
  <2> HIDE DEF Step
  <2> QED BY <1>5
<1>7. Reach(entry, known, allowed) = F[N]
  BY DEF Reach
<1> HIDE DEF F
<1>8. F[0] = {entry} /\ \A n \in 0 .. N - 1 : F[n + 1] = grow(F[n])
  <2> HIDE DEF grow
  <2>1. ASSUME NEW n \in 0 .. N - 1 PROVE F[n + 1] = grow(F[n])
    <3>1. n + 1 \in 0 .. N /\ n + 1 # 0 /\ (n + 1) - 1 = n
      BY <1>1
    <3>2. F[n + 1] = Step(F, n + 1)
      <4> HIDE DEF Step
      <4> QED BY <1>6, <3>1
    <3> QED BY <3>1, <3>2
  <2>2. F[0] = Step(F, 0)
    <3> HIDE DEF Step
    <3> QED BY <1>1, <1>6
  <2> QED BY <2>1, <2>2
\* Each set grows, until one is closed.
<1> DEFINE H == {n \in Nat : n <= N =>
                   /\ entry \in F[n] /\ F[n] \subseteq allowed
                   /\ grow(F[n]) = F[n] \/ Cardinality(F[n]) >= n + 1
                   /\ \A T : entry \in T /\ (\A a \in T : Next(a) \subseteq T) => F[n] \subseteq T}
<1>9. 0 \in H
  <2>1. Cardinality({entry}) = 1
    BY FS_Singleton
  <2>2. Cardinality(F[0]) >= 0 + 1
    BY <1>8, <2>1
  <2> HIDE DEF Next, grow
  <2> QED BY <1>8, <2>2
<1>10. ASSUME NEW n \in H, n + 1 <= N PROVE n + 1 \in H
  <2>1. n \in 0 .. N - 1 /\ n <= N
    BY <1>1, <1>10
  <2>2. F[n + 1] = grow(F[n])
    BY <1>8, <2>1
  <2>3. entry \in F[n + 1] /\ F[n + 1] \subseteq allowed
    BY <1>2, <2>1, <2>2
  <2>4. grow(F[n + 1]) = F[n + 1] \/ Cardinality(F[n + 1]) >= (n + 1) + 1
    <3>1. CASE grow(F[n]) = F[n]
      BY <2>2, <3>1
    <3>2. CASE grow(F[n]) # F[n] /\ Cardinality(F[n]) >= n + 1
      <4>1. IsFiniteSet(F[n + 1])
        <5>1. IsFiniteSet(0 .. CodeSize - 1)
          BY <1>1, FS_Interval
        <5>2. F[n + 1] \in SUBSET (0 .. CodeSize - 1)
          BY <2>3 DEF Slots
        <5> QED BY <5>1, <5>2, FS_Subset
      <4>2. F[n] \in SUBSET F[n + 1] /\ F[n] # F[n + 1]
        BY <2>2, <3>2
      <4>3. Cardinality(F[n]) <= Cardinality(F[n + 1]) /\ Cardinality(F[n]) # Cardinality(F[n + 1])
        BY <4>1, <4>2, FS_Subset
      <4>4. Cardinality(F[n]) \in Nat /\ Cardinality(F[n + 1]) \in Nat
        BY <4>1, <4>2, FS_Subset, FS_CardinalityType
      <4> QED BY <3>2, <4>3, <4>4
    <3> QED BY <2>1, <3>1, <3>2
  <2>5. ASSUME NEW T, entry \in T, \A a \in T : Next(a) \subseteq T PROVE F[n + 1] \subseteq T
    <3>1. F[n] \subseteq T
      BY <2>1, <2>5
    <3> HIDE DEF Next
    <3> QED BY <2>2, <2>5, <3>1
  <2> HIDE DEF grow, Next
  <2> QED BY <2>3, <2>4, <2>5
<1>11. N \in H
  <2>1. \A n \in H : n + 1 \in H
    <3> SUFFICES ASSUME NEW n \in H PROVE n + 1 \in H
      OBVIOUS
    <3>1. CASE n + 1 <= N
      BY <1>10, <3>1
    <3>2. CASE ~ (n + 1 <= N)
      BY <3>2
    <3> QED BY <3>1, <3>2
  <2>2. H \in SUBSET Nat
    OBVIOUS
  <2>3. H = Nat
    <3> HIDE DEF H
    <3> QED BY <1>9, <2>1, <2>2, Induction
  <2> QED BY <1>1, <2>3
<1>12. grow(F[N]) = F[N]
  <2>1. IsFiniteSet(0 .. CodeSize - 1) /\ Cardinality(0 .. CodeSize - 1) = N
    BY <1>1, FS_Interval
  <2>2. F[N] \in SUBSET (0 .. CodeSize - 1)
    <3>1. F[N] \subseteq allowed
      <4>1. N <= N
        BY <1>1
      <4> HIDE DEF grow, Next, N
      <4> QED BY <1>11, <4>1
    <3> QED BY <3>1 DEF Slots
  <2>3. IsFiniteSet(F[N]) /\ Cardinality(F[N]) <= N
    <3> HIDE DEF H, N
    <3> QED BY <2>1, <2>2, FS_Subset
  <2>4. Cardinality(F[N]) \in Nat
    BY <2>3, FS_CardinalityType
  <2> HIDE DEF grow
  <2> QED BY <1>1, <1>11, <2>3, <2>4
<1>13. \A a \in F[N] : Next(a) \subseteq F[N]
  <2> HIDE DEF Next
  <2> QED BY <1>12
<1> HIDE DEF grow
<1> QED BY <1>1, <1>7, <1>11, <1>13

-----------------------------------------------------------------------------
(* Graphs whose blocks are cut at leaders. *)

\* What is needed of the code c, the edges E of its slots, the slots R that are
\* reached and those Z that are sound, to cut blocks.
Follows(c, E, R, Z) ==
  /\ R \subseteq Nat
  /\ \A a \in R : c[a].kind = "plain" =>
       /\ a \in Z
       /\ a + 1 \in R =>
            E[a] = {[target |-> a + 1, kind |-> "Fallthrough", internal |-> TRUE]}

OwnedBy(P) == UNION {s .. P[s].last : s \in DOMAIN P}

\* The blocks P of reached slots do not overlap, control is transferred at their
\* last slot only, by the edges of it, and there is no leader inside one.
Cut(c, E, R, Z, P, L) ==
  /\ \A s \in DOMAIN P :
       /\ s \in Nat /\ P[s].last \in Nat /\ s <= P[s].last
       /\ s .. P[s].last \subseteq R
       /\ P[s].last \in Z
       /\ P[s].edges = E[P[s].last]
       /\ Inner(E[P[s].last]) \subseteq L
       /\ \A a \in s .. P[s].last - 1 : c[a].kind = "plain"
       /\ \A a \in s + 1 .. P[s].last : a \notin L
  /\ \A s, t \in DOMAIN P : s < t => P[s].last < t

\* split_existing_block cuts a graph at one more leader.
LEMMA SplitCuts ==
  ASSUME NEW c, NEW E, NEW R, NEW Z, NEW P, NEW L, NEW t \in R,
         Follows(c, E, R, Z), Cut(c, E, R, Z, P, L)
  PROVE  /\ Cut(c, E, R, Z, Split(P, t), L \cup {t})
         /\ OwnedBy(Split(P, t)) = OwnedBy(P)
         /\ DOMAIN P \subseteq DOMAIN Split(P, t)
         /\ DOMAIN Split(P, t) \subseteq DOMAIN P \cup {t}
<1> DEFINE before == {b \in DOMAIN P : b <= t}
           s == Max(before)
           Q == Split(P, t)
           D == DOMAIN P
<1>1. t \in Nat /\ \A b \in D : b \in Nat /\ P[b].last \in Nat /\ b <= P[b].last
  BY DEF Follows, Cut
<1>2. before # {} => s \in before /\ \A b \in before : b <= s
  <2>1. before \in SUBSET (0 .. t)
    BY <1>1
  <2> HIDE DEF before
  <2> QED BY <1>1, <2>1, GreatestOf
<1>3. CASE before # {} /\ s < t /\ t <= P[s].last
  <2>1. s \in D /\ s \in Nat /\ P[s].last \in Nat
    BY <1>1, <1>2, <1>3
  <2>2. t \notin D
    BY <1>3, <2>1 DEF Cut
  <2> DEFINE cut == [target |-> t, kind |-> "Fallthrough", internal |-> TRUE]
  <2>3. Q = [b \in D \cup {t} |-> CASE b = s -> [last |-> t - 1, edges |-> {cut}]
                                    [] b = t -> P[s]
                                    [] OTHER -> P[b]]
    BY <1>3 DEF Split
  <2> HIDE DEF Q, s
  <2>4. DOMAIN Q = D \cup {t}
    BY <2>3
  <2>5. Q[s].last = t - 1 /\ Q[s].edges = {cut}
    <3> HIDE DEF cut
    <3>1. s \in D \cup {t} /\ s # t
      BY <2>1, <2>2
    <3>2. Q[s] = [last |-> t - 1, edges |-> {cut}]
      BY <2>3, <3>1
    <3> QED BY <3>2
  <2>6. Q[t] = P[s] /\ \A b \in D \ {s} : Q[b] = P[b]
    BY <1>3, <2>1, <2>2, <2>3
  <2>7. /\ t - 1 \in Nat /\ s <= t - 1 /\ t - 1 \in s .. P[s].last - 1 /\ t - 1 \in R
        /\ c[t - 1].kind = "plain"
    <3>1. t - 1 \in s .. P[s].last - 1 /\ t - 1 \in s .. P[s].last
      BY <1>1, <1>3, <2>1
    <3> QED BY <1>1, <1>3, <2>1, <3>1 DEF Cut
  <2>8. E[t - 1] = {cut} /\ t - 1 \in Z
    <3>1. (t - 1) + 1 = t
      BY <1>1
    <3> QED BY <2>7, <3>1 DEF Follows
  <2>9. Inner(E[t - 1]) = {t}
    BY <2>8, InnerNext
  <2> HIDE DEF cut
  <2>10. \A b \in DOMAIN Q : b \in Nat /\ Q[b].last \in Nat /\ b <= Q[b].last
    BY <1>1, <1>3, <2>1, <2>4, <2>5, <2>6, <2>7
  <2>11. ASSUME NEW b \in DOMAIN Q
         PROVE  /\ b .. Q[b].last \subseteq R
                /\ Q[b].last \in Z
                /\ Q[b].edges = E[Q[b].last]
                /\ Inner(E[Q[b].last]) \subseteq L \cup {t}
                /\ \A a \in b .. Q[b].last - 1 : c[a].kind = "plain"
                /\ \A a \in b + 1 .. Q[b].last : a \notin L \cup {t}
    <3>1. CASE b = s
      <4>1. b .. t - 1 \subseteq s .. P[s].last /\ b .. (t - 1) - 1 \subseteq s .. P[s].last - 1
            /\ b + 1 .. t - 1 \subseteq s + 1 .. P[s].last
        BY <1>1, <1>3, <2>1, <3>1
      <4>2. \A a \in b + 1 .. t - 1 : a # t
        BY <1>1
      <4> QED BY <2>1, <2>5, <2>8, <2>9, <3>1, <4>1, <4>2 DEF Cut
    <3>2. CASE b = t
      <4>1. b .. P[s].last \subseteq s .. P[s].last /\ b .. P[s].last - 1 \subseteq s .. P[s].last - 1
            /\ b + 1 .. P[s].last \subseteq s + 1 .. P[s].last
        BY <1>1, <1>3, <2>1, <3>2
      <4>2. \A a \in b + 1 .. P[s].last : a # t
        BY <1>1, <2>1, <3>2
      <4> QED BY <2>1, <2>6, <3>2, <4>1, <4>2 DEF Cut
    <3>3. CASE b \in D \ {s}
      <4>1. t \notin b + 1 .. P[b].last
        <5>1. CASE b < s
          BY <1>1, <1>3, <2>1, <3>3, <5>1 DEF Cut
        <5>2. CASE b > s
          <6>1. b \notin before
            BY <1>2, <1>3, <1>1, <2>1, <3>3, <5>2
          <6> QED BY <1>1, <3>3, <6>1
        <5> QED BY <1>1, <2>1, <3>3, <5>1, <5>2
      <4> QED BY <2>6, <3>3, <4>1 DEF Cut
    <3> QED BY <2>4, <3>1, <3>2, <3>3
  <2>12. ASSUME NEW x \in DOMAIN Q, NEW y \in DOMAIN Q, x < y PROVE Q[x].last < y
    <3>1. x \in D \ {s} /\ y \in D => Q[x].last < y
      BY <2>6, <2>12 DEF Cut
    <3>2. x = s /\ y = t => Q[x].last < y
      BY <1>1, <2>5
    <3>3. x = s /\ y \in D => Q[x].last < y
      <4>1. x = s /\ y \in D => P[s].last < y
        BY <2>1, <2>12 DEF Cut
      <4> QED BY <1>1, <1>3, <2>1, <2>5, <4>1
    <3>4. x = t /\ y \in D => Q[x].last < y
      <4>1. x = t /\ y \in D => s < y
        BY <1>1, <1>3, <2>1, <2>12
      <4> QED BY <2>1, <2>6, <4>1 DEF Cut
    <3>5. x \in D \ {s} /\ y = t => Q[x].last < y
      <4>1. x \in D \ {s} /\ y = t => x <= s
        BY <1>1, <1>2, <1>3, <2>12
      <4>2. x \in D \ {s} /\ y = t => P[x].last < s
        BY <1>1, <2>1, <4>1 DEF Cut
      <4> QED BY <1>1, <1>3, <2>1, <2>6, <4>2
    <3> QED BY <1>1, <2>4, <2>12, <3>1, <3>2, <3>3, <3>4, <3>5
  <2>13. OwnedBy(Q) = OwnedBy(P)
    <3>1. ASSUME NEW x, NEW b \in D, x \in b .. P[b].last PROVE \E d \in DOMAIN Q : x \in d .. Q[d].last
      <4>1. b # s => x \in b .. Q[b].last
        BY <2>6, <3>1
      <4>2. b = s /\ x < t => x \in s .. Q[s].last
        BY <1>1, <2>1, <2>5, <3>1
      <4>3. b = s /\ ~ (x < t) => x \in t .. Q[t].last
        BY <1>1, <2>1, <2>6, <3>1
      <4> QED BY <2>1, <2>4, <4>1, <4>2, <4>3
    <3>2. ASSUME NEW x, NEW b \in DOMAIN Q, x \in b .. Q[b].last PROVE \E d \in D : x \in d .. P[d].last
      <4>1. b \in D \ {s} => x \in b .. P[b].last
        BY <2>6, <3>2
      <4>2. b \in {s, t} => x \in s .. P[s].last
        BY <1>1, <1>3, <2>1, <2>5, <2>6, <3>2
      <4> QED BY <2>1, <2>4, <4>1, <4>2
    <3> QED BY <3>1, <3>2 DEF OwnedBy
  <2> QED BY <2>4, <2>10, <2>11, <2>12, <2>13 DEF Cut, Q
<1>4. CASE ~ (before # {} /\ s < t /\ t <= P[s].last)
  <2>1. Q = P
    BY <1>4 DEF Split
  <2>2. ASSUME NEW b \in D, t \in b + 1 .. P[b].last PROVE FALSE
    <3>1. b \in before /\ b < t /\ t <= P[b].last
      BY <1>1, <2>2
    <3>2. s \in before /\ b <= s
      BY <1>2, <3>1
    <3> HIDE DEF s
    <3>3. b # s
      BY <1>4, <3>1
    <3>4. P[b].last < s
      BY <1>1, <3>2, <3>3 DEF Cut
    <3> QED BY <1>1, <3>1, <3>2, <3>4
  <2> HIDE DEF Q, s
  <2> QED BY <2>1, <2>2 DEF Cut, Q
<1> QED BY <1>3, <1>4

-----------------------------------------------------------------------------
(* The invariant of the worklist. *)

Sounds == {a \in Slots : Sound(a)}
Begun == Starts(options.entry, options.known, options.allowed)
Unresolvable == {"icall", "ijump", "unknown"}

\* The graph so far is cut at the leaders found so far.
Graphed == Cut(code, EdgesOf, Reached, Sounds, blocks, leaders)

\* A leader has its block or waits for it, and all of them begin blocks.
Queued ==
  /\ worklist \in Seq(Slots)
  /\ leaders = DOMAIN blocks \cup Range(worklist)
  /\ options.entry \in leaders
  /\ leaders \subseteq Begun

\* What has been counted and collected is that of the slots owned.
Counted ==
  /\ count = Cardinality(Owned)
  /\ unresolved = {a \in Owned : code[a].kind \in Unresolvable}
  /\ calls = {a \in Owned : code[a].kind \in {"call", "icall"}}

CfgInv == Typed /\ Graphed /\ Queued /\ Counted

\* The slots from start to last, a walk from which blocks may be made.
Walk(P, L, start, last) ==
  /\ start \in Nat /\ last \in Nat /\ start <= last
  /\ start \in L /\ last \in Sounds
  /\ start .. last \subseteq Reached
  /\ \A a \in start .. last - 1 : code[a].kind = "plain"
  /\ EdgesOf[last] = Edges(last) /\ Inner(EdgesOf[last]) \subseteq L
  /\ OwnedBy(P) \cap (start .. last) = {}

\* Q has the slots of P and of the walk, and begins blocks where P does and at
\* the leaders of the walk.
Adds(P, L, start, last, Q) ==
  /\ OwnedBy(Q) = OwnedBy(P) \cup (start .. last)
  /\ DOMAIN Q = DOMAIN P \cup {start} \cup (L \cap (start + 1 .. last))

\* publish_block adds a walked range of slots to a graph, cut at its leaders.
LEMMA PublishCuts ==
  ASSUME NEW P, NEW L, NEW start, NEW last,
         Follows(code, EdgesOf, Reached, Sounds), Cut(code, EdgesOf, Reached, Sounds, P, L), Walk(P, L, start, last)
  PROVE  /\ Cut(code, EdgesOf, Reached, Sounds, Published(P, start, last, L), L)
         /\ Adds(P, L, start, last, Published(P, start, last, L))
<1> DEFINE D == DOMAIN P
           starts == {start} \cup {a \in start + 1 .. last : a \in L}
           parts(b) == {a \in b .. last : a + 1 \in starts \/ a = last}
           lastOf(b) == Min(parts(b))
           cut(b) == {[target |-> lastOf(b) + 1, kind |-> "Fallthrough", internal |-> TRUE]}
           Q == Published(P, start, last, L)
<1>0. /\ start \in Nat /\ last \in Nat /\ start <= last
      /\ start \in L /\ last \in Sounds
      /\ start .. last \subseteq Reached
      /\ \A a \in start .. last - 1 : code[a].kind = "plain"
      /\ EdgesOf[last] = Edges(last) /\ Inner(EdgesOf[last]) \subseteq L
      /\ OwnedBy(P) \cap (start .. last) = {}
  BY DEF Walk
<1> USE <1>0
<1>1. starts \subseteq start .. last /\ starts \subseteq L
  OBVIOUS
<1>2. \A b \in D : b \in Nat /\ P[b].last \in Nat /\ b <= P[b].last /\ b \notin starts
  BY <1>1 DEF Cut, OwnedBy
<1>3. ASSUME NEW b \in starts
      PROVE  /\ lastOf(b) \in b .. last
             /\ lastOf(b) + 1 \in starts \/ lastOf(b) = last
             /\ \A a \in b + 1 .. lastOf(b) : a \notin L
  <2>1. parts(b) \in SUBSET Nat /\ last \in parts(b)
    BY <1>1
  <2>2. lastOf(b) \in parts(b) /\ \A a \in parts(b) : lastOf(b) <= a
    <3> HIDE DEF parts
    <3> QED BY <2>1, MinOf
  <2> HIDE DEF lastOf
  <2>3. ASSUME NEW a \in b + 1 .. lastOf(b) PROVE a \notin L
    <3>1. a - 1 \in b .. last /\ ~ (lastOf(b) <= a - 1) /\ (a - 1) + 1 = a
      BY <1>1, <2>2
    <3>2. a \notin starts
      BY <2>2, <3>1
    <3>3. a \in start + 1 .. last
      BY <1>1, <2>2
    <3> QED BY <3>2, <3>3
  <2> QED BY <2>2, <2>3
<1> HIDE DEF parts, lastOf
<1>4. Q = [b \in D \cup starts |->
             IF b \in starts THEN [last |-> lastOf(b), edges |-> IF lastOf(b) = last THEN Edges(last) ELSE cut(b)]
             ELSE P[b]]
  BY DEF Published, lastOf, parts
<1> HIDE DEF Q, starts
<1>5. DOMAIN Q = D \cup starts
  BY <1>4
<1>6. \A b \in D : Q[b] = P[b]
  BY <1>2, <1>4
<1>7. ASSUME NEW b \in starts PROVE Q[b].last = lastOf(b) /\ Q[b].edges = EdgesOf[lastOf(b)]
  <2> DEFINE edges == IF lastOf(b) = last THEN Edges(last) ELSE cut(b)
  <2>1. Q[b] = [last |-> lastOf(b), edges |-> edges]
    BY <1>4
  <2>2. Q[b].last = lastOf(b) /\ Q[b].edges = edges
    <3> HIDE DEF edges
    <3> QED BY <2>1
  <2>3. CASE lastOf(b) = last
    BY <2>2, <2>3
  <2>4. CASE lastOf(b) # last
    <3>1. lastOf(b) \in start .. last - 1 /\ lastOf(b) \in Reached /\ lastOf(b) + 1 \in Reached
      BY <1>1, <1>3, <2>4
    <3>2. EdgesOf[lastOf(b)] = cut(b)
      BY <3>1 DEF Follows
    <3> QED BY <2>2, <2>4, <3>2
  <2> QED BY <2>3, <2>4
<1>8. ASSUME NEW b \in starts
      PROVE  /\ b \in Nat /\ Q[b].last \in Nat /\ b <= Q[b].last
             /\ b .. Q[b].last \subseteq Reached
             /\ Q[b].last \in Sounds
             /\ Q[b].edges = EdgesOf[Q[b].last]
             /\ Inner(EdgesOf[Q[b].last]) \subseteq L
             /\ \A a \in b .. Q[b].last - 1 : code[a].kind = "plain"
             /\ \A a \in b + 1 .. Q[b].last : a \notin L
  <2>1. b \in start .. last /\ lastOf(b) \in b .. last
    BY <1>1, <1>3
  <2>2. b .. lastOf(b) \subseteq Reached
    BY <2>1
  <2>3. lastOf(b) \in Sounds /\ Inner(EdgesOf[lastOf(b)]) \subseteq L
    <3>1. CASE lastOf(b) = last
      BY <3>1
    <3>2. CASE lastOf(b) # last
      <4>1. lastOf(b) \in start .. last - 1 /\ lastOf(b) \in Reached /\ lastOf(b) + 1 \in Reached
        BY <2>1, <3>2
      <4>2. EdgesOf[lastOf(b)] = cut(b) /\ lastOf(b) \in Sounds
        BY <4>1 DEF Follows
      <4>3. lastOf(b) + 1 \in L
        BY <1>1, <1>3, <3>2
      <4>4. Inner(EdgesOf[lastOf(b)]) = {lastOf(b) + 1}
        BY <4>2, InnerNext
      <4> QED BY <4>2, <4>3, <4>4
    <3> QED BY <3>1, <3>2
  <2>4. \A a \in b .. lastOf(b) - 1 : code[a].kind = "plain"
    BY <2>1
  <2> QED BY <1>3, <1>7, <2>1, <2>2, <2>3, <2>4
<1>9. ASSUME NEW x \in DOMAIN Q, NEW y \in DOMAIN Q, x < y PROVE Q[x].last < y
  <2>1. CASE x \in D /\ y \in D
    BY <1>6, <1>9, <2>1 DEF Cut
  <2>2. CASE x \in D /\ y \in starts
    <3>1. y \notin OwnedBy(P)
      BY <1>1, <2>2
    <3>2. ~ (y \in x .. P[x].last)
      BY <2>2, <3>1 DEF OwnedBy
    <3> QED BY <1>1, <1>2, <1>6, <1>9, <2>2, <3>2
  <2>3. CASE x \in starts /\ y \in D
    <3>1. y \in OwnedBy(P)
      BY <1>2, <2>3 DEF OwnedBy
    <3>2. ~ (y \in start .. last)
      BY <3>1
    <3> QED BY <1>1, <1>2, <1>3, <1>7, <1>9, <2>3, <3>2
  <2>4. CASE x \in starts /\ y \in starts
    <3>1. y \in L /\ y \notin x + 1 .. lastOf(x)
      BY <1>1, <1>3, <2>4
    <3> QED BY <1>1, <1>3, <1>7, <1>9, <2>4, <3>1
  <2> QED BY <1>5, <2>1, <2>2, <2>3, <2>4
<1>10. OwnedBy(Q) = OwnedBy(P) \cup (start .. last)
  <2>1. ASSUME NEW x \in start .. last PROVE \E b \in starts : x \in b .. Q[b].last
    <3> DEFINE below == {b \in starts : b <= x}
               s == Max(below)
    <3>1. below \in SUBSET (0 .. x) /\ start \in below
      BY <1>1, <2>1 DEF starts
    <3>2. s \in below /\ \A b \in below : b <= s
      <4>1. x \in Nat /\ below # {}
        BY <2>1, <3>1
      <4> HIDE DEF below
      <4> QED BY <3>1, <4>1, GreatestOf
    <3> HIDE DEF s
    <3>3. x <= lastOf(s)
      <4> SUFFICES ASSUME ~ (x <= lastOf(s)) PROVE FALSE
        OBVIOUS
      <4>1. lastOf(s) \in s .. last /\ s \in Nat
        <5>1. s \in starts
          BY <3>2
        <5>2. lastOf(s) \in s .. last
          BY <1>3, <5>1
        <5>3. s \in start .. last
          BY <1>1, <5>1
        <5>4. s \in Nat
          BY <5>3
        <5> QED BY <5>2, <5>4
      <4>2. lastOf(s) # last
        BY <2>1, <4>1
      <4>3. lastOf(s) + 1 \in starts
        BY <1>3, <3>2, <4>2
      <4>4. lastOf(s) + 1 \in below /\ lastOf(s) + 1 > s
        BY <2>1, <4>1, <4>3
      <4> QED BY <3>2, <4>1, <4>4
    <3> QED BY <1>1, <1>3, <1>7, <3>2, <3>3
  <2>2. ASSUME NEW b \in starts, NEW x \in b .. Q[b].last PROVE x \in start .. last
    BY <1>1, <1>3, <1>7
  <2> QED BY <1>5, <1>6, <2>1, <2>2 DEF OwnedBy
<1>11. Cut(code, EdgesOf, Reached, Sounds, Q, L)
  <2>1. ASSUME NEW b \in D
        PROVE  /\ b \in Nat /\ Q[b].last \in Nat /\ b <= Q[b].last
               /\ b .. Q[b].last \subseteq Reached
               /\ Q[b].last \in Sounds
               /\ Q[b].edges = EdgesOf[Q[b].last]
               /\ Inner(EdgesOf[Q[b].last]) \subseteq L
               /\ \A a \in b .. Q[b].last - 1 : code[a].kind = "plain"
               /\ \A a \in b + 1 .. Q[b].last : a \notin L
    BY <1>6 DEF Cut
  <2>2. \A b \in DOMAIN Q : b \in D \/ b \in starts
    BY <1>5
  <2> QED BY <1>8, <1>9, <2>1, <2>2 DEF Cut
<1>12. D \cup starts = DOMAIN P \cup {start} \cup (L \cap (start + 1 .. last))
  BY DEF starts
<1> QED BY <1>5, <1>10, <1>11, <1>12 DEF Q, Adds

LEMMA OwnedIs == Owned = OwnedBy(blocks)
BY DEF Owned, OwnedBy, SlotsOf

\* What the code and the options say of the slots reached.
LEMMA Guest ==
  ASSUME Typed
  PROVE  /\ options.allowed \subseteq Slots /\ Slots \subseteq Nat /\ CodeSize \notin Slots
         /\ code \in [Slots -> Instruction] /\ options.entry \in Slots
         /\ options.entry \in Reached
         /\ Reached \subseteq options.allowed /\ Reached \subseteq Slots /\ Reached \subseteq Nat
         /\ \A a \in Reached : Inner(Edges(a)) \subseteq Reached
         /\ \A a \in Slots : EdgesOf[a] = Edges(a)
         /\ Follows(code, EdgesOf, Reached, Sounds)
         /\ Begun \subseteq Reached
<1>1. /\ options.allowed \subseteq Slots /\ Slots \subseteq Nat /\ CodeSize \notin Slots
      /\ code \in [Slots -> Instruction] /\ options.entry \in Slots
      /\ options.entry \in options.allowed
  <2>1. Slots \subseteq Nat /\ CodeSize \notin Slots
    BY GuestCodeAssumption DEF Slots
  <2>2. code \in [Slots -> Instruction]
    BY GuestCodeAssumption DEF Typed
  <2>3. options.allowed \in Ranges /\ options.entry \in Slots /\ options.entry \in options.allowed
    BY DEF Typed
  <2>4. options.allowed \subseteq Slots
    BY <2>3, CfgAssumption
  <2> QED BY <2>1, <2>2, <2>3, <2>4
<1>2. /\ options.entry \in Reached
      /\ Reached \subseteq options.allowed
      /\ \A a \in Reached : Inner(Edges(a)) \subseteq Reached
  BY <1>1, ReachLeast DEF Reached, Edges
<1>3. \A a \in Slots : EdgesOf[a] = Edges(a)
  BY DEF EdgesOf
<1>4. Follows(code, EdgesOf, Reached, Sounds)
  <2> SUFFICES ASSUME NEW a \in Reached, code[a].kind = "plain"
               PROVE  /\ a \in Sounds
                      /\ a + 1 \in Reached => EdgesOf[a]
                           = {[target |-> a + 1, kind |-> "Fallthrough", internal |-> TRUE]}
    BY <1>1, <1>2 DEF Follows
  <2>1. a \in Sounds
    BY <1>1, <1>2 DEF Sounds, Sound
  <2>2. ASSUME a + 1 \in Reached
        PROVE EdgesOf[a] = {[target |-> a + 1, kind |-> "Fallthrough", internal |-> TRUE]}
    <3>1. EdgesOf[a] = Edges(a) /\ a + 1 \in options.allowed
      BY <1>1, <1>2, <1>3, <2>2
    <3> QED BY <3>1, PlainFlow DEF Edges
  <2> QED BY <2>1, <2>2
<1>5. Begun \subseteq Reached
  BY <1>2 DEF Begun, Starts, Reached, Edges
<1> QED BY <1>1, <1>2, <1>3, <1>4, <1>5

\* decode_block finds the end of the block.
LEMMA EndsAt ==
  ASSUME Typed, NEW start \in Slots
  PROVE  /\ LastFrom(start) \in start .. CodeSize - 1
         /\ Stops(LastFrom(start))
         /\ \A b \in start .. LastFrom(start) - 1 : ~Stops(b)
<1> DEFINE T == {a \in start .. CodeSize - 1 : Stops(a)}
<1>1. CodeSize \in Nat /\ start \in Nat /\ start <= CodeSize - 1
  BY GuestCodeAssumption DEF Slots
<1>2. CodeSize - 1 \in T
  <2>1. (CodeSize - 1) + 1 \notin options.allowed
    BY <1>1, Guest
  <2> QED BY <1>1, <2>1 DEF Stops
<1>3. PICK a \in T : \A b \in T : a <= b
  <2>1. T \in SUBSET Nat /\ T # {}
    BY <1>1, <1>2
  <2> HIDE DEF T
  <2> QED BY <2>1, LeastOf
<1>4. a \in start .. CodeSize - 1 /\ Stops(a) /\ \A b \in start .. a - 1 : ~Stops(b)
  BY <1>1, <1>3
<1>5. LastFrom(start) = CHOOSE x \in start .. CodeSize - 1 : Stops(x) /\ \A b \in start .. x - 1 : ~Stops(b)
  BY DEF LastFrom
<1> HIDE DEF T
<1> QED BY <1>4, <1>5

\* The slots a start is decoded to are reached, are not owned yet, and hold no
\* leader but the start; and what their last one leads to begins a block.
LEMMA Walked ==
  ASSUME CfgInv, NEW start \in leaders, start \notin DOMAIN blocks,
         NEW last, last = LastFrom(start)
  PROVE  /\ start \in Nat /\ last \in Nat /\ start <= last
         /\ start .. last \subseteq Reached
         /\ \A a \in start .. last - 1 : code[a].kind = "plain"
         /\ (start .. last) \cap Owned = {}
         /\ (start + 1 .. last) \cap leaders = {}
         /\ Inner(Edges(last)) \subseteq Begun
<1>1. start \in Reached /\ start \in Slots /\ start \in Nat /\ CodeSize \in Nat
  BY Guest, GuestCodeAssumption DEF CfgInv, Queued
<1>2. last \in start .. CodeSize - 1 /\ Stops(last) /\ \A b \in start .. last - 1 : ~Stops(b)
  BY <1>1, EndsAt DEF CfgInv
<1>3. last \in Nat /\ start <= last
  BY <1>1, <1>2
<1>4. \A a \in start .. last - 1 :
         code[a].kind = "plain" /\ a + 1 \notin leaders /\ a + 1 \in options.allowed
  BY <1>2 DEF Stops
<1>5. \A a \in Nat : a \in start .. last => a \in Reached
  <2> DEFINE G == {n \in Nat : start + n <= last => start + n \in Reached}
  <2>1. 0 \in G
    BY <1>1
  <2>2. ASSUME NEW n \in G PROVE n + 1 \in G
    <3> SUFFICES ASSUME start + (n + 1) <= last PROVE start + (n + 1) \in Reached
      OBVIOUS
    <3> DEFINE a == start + n
    <3>1. a \in Reached /\ a \in start .. last - 1 /\ a + 1 = start + (n + 1)
      BY <1>1, <1>3
    <3> HIDE DEF a
    <3>2. code[a].kind = "plain" /\ a + 1 \in options.allowed
      BY <1>4, <3>1
    <3>3. Edges(a) = {[target |-> a + 1, kind |-> "Fallthrough", internal |-> TRUE]}
      BY <3>2, PlainFlow DEF Edges
    <3>4. a + 1 \in Inner(Edges(a))
      <4>1. Inner(Edges(a)) = {a + 1}
        BY <3>3, InnerNext
      <4> QED BY <4>1
    <3> QED BY <3>1, <3>4, Guest DEF CfgInv
  <2>3. G \in SUBSET Nat
    OBVIOUS
  <2>4. G = Nat
    <3> HIDE DEF G
    <3> QED BY <2>1, <2>2, <2>3, Induction
  <2> SUFFICES ASSUME NEW a \in Nat, a \in start .. last PROVE a \in Reached
    OBVIOUS
  <2>5. a - start \in Nat /\ start + (a - start) = a
    BY <1>1, <1>3
  <2>6. a - start \in G
    BY <2>4, <2>5
  <2> QED BY <1>1, <1>3, <2>5, <2>6
<1>6. start .. last \subseteq Reached
  BY <1>1, <1>3, <1>5
<1>7. ASSUME NEW a \in start + 1 .. last, a \in leaders PROVE FALSE
  <2>1. a - 1 \in start .. last - 1 /\ (a - 1) + 1 = a
    BY <1>1, <1>3
  <2> QED BY <1>4, <1>7, <2>1
<1>8. ASSUME NEW x \in start .. last, x \in Owned PROVE FALSE
  <2>1. PICK s \in DOMAIN blocks : x \in s .. blocks[s].last
    BY <1>8, OwnedIs DEF OwnedBy
  <2>2. s \in leaders /\ s # start
    BY DEF CfgInv, Queued
  <2>3. s \in Nat /\ blocks[s].last \in Nat
    BY DEF CfgInv, Graphed, Cut
  <2>4. CASE s < start
    <3>1. start \in s + 1 .. blocks[s].last
      BY <1>1, <1>3, <2>1, <2>3, <2>4
    <3> QED BY <3>1 DEF CfgInv, Graphed, Cut
  <2>5. CASE s > start
    <3>1. s \in start + 1 .. last
      BY <1>1, <1>3, <2>1, <2>3, <2>5
    <3> QED BY <1>7, <2>2, <3>1
  <2> QED BY <1>1, <2>2, <2>3, <2>4, <2>5
<1>9. Inner(Edges(last)) \subseteq Begun
  <2>1. last \in Reached
    BY <1>1, <1>3, <1>6
  <2>2. CASE code[last].kind # "plain"
    BY <2>1, <2>2 DEF Begun, Starts, Reached, Edges
  <2>3. CASE code[last].kind = "plain"
    <3> SUFFICES ASSUME NEW t \in Inner(Edges(last)) PROVE t \in Begun
      OBVIOUS
    <3>1. PICK e \in Edges(last) : e.internal /\ e.target = t
      BY DEF Inner
    <3>2. t = last + 1 /\ t \in options.allowed
      BY <2>3, <3>1, FlowEdges DEF Edges
    <3>3. t \in leaders
      BY <1>2, <2>3, <3>2 DEF Stops
    <3> QED BY <3>3 DEF CfgInv, Queued
  <2> QED BY <2>2, <2>3
<1> QED BY <1>1, <1>3, <1>4, <1>6, <1>7, <1>8, <1>9

\* A sequence of at most two, element by element.
LEMMA OneOrTwo ==
  ASSUME NEW S, NEW q \in Seq(S), Len(q) <= 2
  PROVE  \/ q = <<>> /\ Range(q) = {}
         \/ Len(q) = 1 /\ q # <<>> /\ Head(q) \in S /\ Range(q) = {Head(q)}
         \/ Len(q) = 2 /\ q # <<>> /\ Head(q) \in S /\ q[2] \in S /\ Range(q) = {Head(q), q[2]}
<1>1. Len(q) \in Nat /\ DOMAIN q = 1 .. Len(q)
  OBVIOUS
<1>2. CASE Len(q) = 0
  BY <1>2 DEF Range
<1>3. CASE Len(q) = 1
  <2>1. q # <<>> /\ Head(q) = q[1] /\ q[1] \in S /\ DOMAIN q = {1}
    BY <1>3
  <2> QED BY <1>3, <2>1 DEF Range
<1>4. CASE Len(q) = 2
  <2>1. q # <<>> /\ Head(q) = q[1] /\ q[1] \in S /\ q[2] \in S /\ DOMAIN q = {1, 2}
    BY <1>4
  <2> QED BY <1>4, <2>1 DEF Range
<1> QED BY <1>1, <1>2, <1>3, <1>4

\* Marking the successors of a slot cuts the graph at them.
LEMMA SplitAllCuts ==
  ASSUME NEW c, NEW E, NEW R, NEW Z, NEW P, NEW L, NEW q \in Seq(R), Len(q) <= 2,
         Follows(c, E, R, Z), Cut(c, E, R, Z, P, L)
  PROVE  /\ Cut(c, E, R, Z, SplitAll(P, q), L \cup Range(q))
         /\ OwnedBy(SplitAll(P, q)) = OwnedBy(P)
         /\ DOMAIN P \subseteq DOMAIN SplitAll(P, q)
         /\ DOMAIN SplitAll(P, q) \subseteq DOMAIN P \cup Range(q)
<1>1. CASE q = <<>> /\ Range(q) = {}
  <2>1. SplitAll(P, q) = P /\ L \cup Range(q) = L
    BY <1>1 DEF SplitAll
  <2> QED BY <2>1
<1>2. CASE Len(q) = 1 /\ q # <<>> /\ Head(q) \in R /\ Range(q) = {Head(q)}
  <2>1. SplitAll(P, q) = Split(P, Head(q))
    BY <1>2 DEF SplitAll
  <2> QED BY <1>2, <2>1, SplitCuts
<1>3. CASE Len(q) = 2 /\ q # <<>> /\ Head(q) \in R /\ q[2] \in R /\ Range(q) = {Head(q), q[2]}
  <2> DEFINE x == Head(q)
             y == q[2]
             Q == Split(P, x)
             M == L \cup {x}
  <2>1. SplitAll(P, q) = Split(Q, y) /\ x \in R /\ y \in R
    BY <1>3 DEF SplitAll
  <2> HIDE DEF x, y
  <2>2. /\ Cut(c, E, R, Z, Q, M)
        /\ OwnedBy(Q) = OwnedBy(P)
        /\ DOMAIN P \subseteq DOMAIN Q /\ DOMAIN Q \subseteq DOMAIN P \cup {x}
    BY <2>1, SplitCuts
  <2>3. M \cup {y} = L \cup Range(q) /\ Range(q) = {x, y}
    BY <1>3 DEF x, y
  <2> HIDE DEF Q, M
  <2>4. /\ Cut(c, E, R, Z, Split(Q, y), M \cup {y})
        /\ OwnedBy(Split(Q, y)) = OwnedBy(Q)
        /\ DOMAIN Q \subseteq DOMAIN Split(Q, y)
        /\ DOMAIN Split(Q, y) \subseteq DOMAIN Q \cup {y}
    BY <2>1, <2>2, SplitCuts
  <2> QED BY <2>1, <2>2, <2>3, <2>4
<1> QED BY <1>1, <1>2, <1>3, OneOrTwo

\* enqueue appends what is neither queued nor published.
LEMMA Enqueued ==
  ASSUME NEW S, NEW q \in Seq(S), NEW D, NEW a \in S
  PROVE  /\ Enqueue(q, D, a) \in Seq(S)
         /\ Range(Enqueue(q, D, a)) \subseteq Range(q) \cup {a}
         /\ Range(q) \cup ({a} \ D) \subseteq Range(Enqueue(q, D, a))
<1>1. CASE a \in Range(q) \cup D
  BY <1>1 DEF Enqueue
<1>2. CASE a \notin Range(q) \cup D
  <2>1. Enqueue(q, D, a) = Append(q, a)
    BY <1>2 DEF Enqueue
  <2> DEFINE r == Append(q, a)
  <2>2. r \in Seq(S) /\ Len(r) = Len(q) + 1 /\ r[Len(q) + 1] = a
        /\ \A i \in 1 .. Len(q) : r[i] = q[i]
    OBVIOUS
  <2>3. DOMAIN r = 1 .. Len(q) + 1 /\ DOMAIN q = 1 .. Len(q) /\ Len(q) \in Nat
    BY <2>2
  <2> HIDE DEF r
  <2>4. ASSUME NEW i \in DOMAIN r PROVE r[i] \in Range(q) \cup {a}
    BY <2>2, <2>3 DEF Range
  <2>5. ASSUME NEW i \in DOMAIN q PROVE q[i] \in Range(r)
    BY <2>2, <2>3 DEF Range
  <2>6. a \in Range(r)
    BY <2>2, <2>3 DEF Range
  <2>7. Range(r) \subseteq Range(q) \cup {a} /\ Range(q) \subseteq Range(r)
    BY <2>4, <2>5 DEF Range
  <2> QED BY <2>1, <2>2, <2>6, <2>7 DEF r
<1> QED BY <1>1, <1>2

LEMMA EnqueuedAll ==
  ASSUME NEW S, NEW q \in Seq(S), NEW D, NEW T \in SUBSET S, NEW new \in Seq(T), Len(new) <= 2
  PROVE  /\ EnqueueAll(q, D, new) \in Seq(S)
         /\ Range(EnqueueAll(q, D, new)) \subseteq Range(q) \cup Range(new)
         /\ Range(q) \cup (Range(new) \ D) \subseteq Range(EnqueueAll(q, D, new))
<1>1. CASE new = <<>> /\ Range(new) = {}
  BY <1>1 DEF EnqueueAll
<1>2. CASE Len(new) = 1 /\ new # <<>> /\ Head(new) \in T /\ Range(new) = {Head(new)}
  <2>1. EnqueueAll(q, D, new) = Enqueue(q, D, Head(new)) /\ Head(new) \in S
    BY <1>2 DEF EnqueueAll
  <2> QED BY <1>2, <2>1, Enqueued
<1>3. CASE Len(new) = 2 /\ new # <<>> /\ Head(new) \in T /\ new[2] \in T /\ Range(new) = {Head(new), new[2]}
  <2> DEFINE r == Enqueue(q, D, Head(new))
  <2>1. EnqueueAll(q, D, new) = Enqueue(r, D, new[2]) /\ Head(new) \in S /\ new[2] \in S
    BY <1>3 DEF EnqueueAll
  <2>2. /\ r \in Seq(S)
        /\ Range(r) \subseteq Range(q) \cup {Head(new)}
        /\ Range(q) \cup ({Head(new)} \ D) \subseteq Range(r)
    BY <2>1, Enqueued
  <2> HIDE DEF r
  <2>3. /\ Enqueue(r, D, new[2]) \in Seq(S)
        /\ Range(Enqueue(r, D, new[2])) \subseteq Range(r) \cup {new[2]}
        /\ Range(r) \cup ({new[2]} \ D) \subseteq Range(Enqueue(r, D, new[2]))
    BY <2>1, <2>2, Enqueued
  <2> QED BY <1>3, <2>1, <2>2, <2>3
<1> QED BY <1>1, <1>2, <1>3, OneOrTwo

\* The head and the tail of a queue are its elements.
LEMMA HeadTail ==
  ASSUME NEW S, NEW q \in Seq(S), q # <<>>
  PROVE  Head(q) \in S /\ Tail(q) \in Seq(S) /\ Range(q) = {Head(q)} \cup Range(Tail(q))
<1>1. Len(q) \in Nat \ {0} /\ DOMAIN q = 1 .. Len(q) /\ Head(q) = q[1] /\ Head(q) \in S
  OBVIOUS
<1>2. Tail(q) \in Seq(S) /\ DOMAIN Tail(q) = 1 .. Len(q) - 1
      /\ \A i \in 1 .. Len(q) - 1 : Tail(q)[i] = q[i + 1]
  OBVIOUS
<1>3. ASSUME NEW i \in DOMAIN q, i # 1 PROVE q[i] \in Range(Tail(q))
  <2>1. i - 1 \in DOMAIN Tail(q) /\ (i - 1) + 1 = i
    BY <1>1, <1>2, <1>3
  <2>2. q[i] = Tail(q)[i - 1]
    BY <1>2, <2>1
  <2> QED BY <2>1, <2>2 DEF Range
<1>4. ASSUME NEW i \in DOMAIN Tail(q) PROVE Tail(q)[i] \in Range(q)
  <2>1. i + 1 \in DOMAIN q /\ Tail(q)[i] = q[i + 1]
    BY <1>1, <1>2
  <2> QED BY <2>1 DEF Range
<1>5. Head(q) \in Range(q)
  BY <1>1 DEF Range
<1> QED BY <1>1, <1>2, <1>3, <1>4, <1>5 DEF Range

-----------------------------------------------------------------------------
(* Every step keeps the invariant. *)

\* The sets that the code and the options define, as the next state has them.
LEMMA Same ==
  ASSUME code' = code, options' = options
  PROVE  /\ Reached' = Reached /\ EdgesOf' = EdgesOf /\ Sounds' = Sounds /\ Begun' = Begun
         /\ \A a : Edges(a)' = Edges(a)
<1>1. EdgesOf' = EdgesOf /\ \A a : Edges(a)' = Edges(a)
  BY DEF EdgesOf, Edges, Flow, Transfer
<1>2. Reached' = Reached
  BY SMTT(30) DEF Reached, Reach, Flow, Transfer
<1>3. Sounds' = Sounds
  BY DEF Sounds, Sound
<1>4. Begun' = Begun
  BY <1>2 DEF Begun, Starts, Reached, Flow, Transfer
<1> QED BY <1>1, <1>2, <1>3, <1>4

\* What DecodeBlock makes of the first start that waits.
Waiting == Head(worklist)
EndOf == LastFrom(Waiting)
Known == leaders \cup Range(InOrder(EndOf))
SplitUp == SplitAll(blocks, InOrder(EndOf))
LeadersMarked == EnqueueAll(Tail(worklist), DOMAIN SplitUp, InOrder(EndOf))
NewQueue == EnqueueCuts(LeadersMarked, DOMAIN SplitUp, Known \cap (Waiting + 1 .. EndOf))
NewBlocks == Published(SplitUp, Waiting, EndOf, Known)

\* The new state of a decoded block.
LEMMA DecodedBlock ==
  ASSUME CfgInv, worklist # <<>>, Waiting \notin DOMAIN blocks, Sound(EndOf)
  PROVE  /\ Cut(code, EdgesOf, Reached, Sounds, NewBlocks, Known)
         /\ OwnedBy(NewBlocks) = Owned \cup (Waiting .. EndOf)
         /\ NewQueue \in Seq(Slots)
         /\ Known = DOMAIN NewBlocks \cup Range(NewQueue)
         /\ options.entry \in Known
         /\ Known \subseteq Begun
<1> DEFINE R == Reached
           q == InOrder(EndOf)
           inner == Inner(Edges(EndOf))
<1>1. Waiting \in leaders /\ Waiting \in Slots /\ Tail(worklist) \in Seq(Slots)
      /\ Range(worklist) = {Waiting} \cup Range(Tail(worklist))
  <2>1. worklist \in Seq(Slots) /\ leaders = DOMAIN blocks \cup Range(worklist)
    BY DEF CfgInv, Queued
  <2> QED BY <2>1, HeadTail DEF Waiting
<1>2. /\ Waiting \in Nat /\ EndOf \in Nat /\ Waiting <= EndOf
      /\ Waiting .. EndOf \subseteq R
      /\ \A a \in Waiting .. EndOf - 1 : code[a].kind = "plain"
      /\ (Waiting .. EndOf) \cap Owned = {}
      /\ (Waiting + 1 .. EndOf) \cap leaders = {}
      /\ inner \subseteq Begun
  BY <1>1, Walked DEF EndOf
<1>3. /\ R \subseteq Slots /\ Begun \subseteq R
      /\ Follows(code, EdgesOf, R, Sounds)
      /\ \A a \in Slots : EdgesOf[a] = Edges(a)
  BY Guest DEF CfgInv
<1>4. EndOf \in R /\ EndOf \in Slots /\ EndOf \in Sounds /\ EdgesOf[EndOf] = Edges(EndOf)
  BY <1>2, <1>3 DEF Sounds
<1>5. q \in Seq(inner) /\ Len(q) <= 2 /\ Range(q) = inner
  BY <1>2, Ordered
<1> HIDE DEF q, inner, R
<1>6. q \in Seq(R)
  BY <1>2, <1>3, <1>5
<1>7. /\ Cut(code, EdgesOf, R, Sounds, SplitUp, Known)
      /\ OwnedBy(SplitUp) = Owned
      /\ DOMAIN blocks \subseteq DOMAIN SplitUp
      /\ DOMAIN SplitUp \subseteq DOMAIN blocks \cup inner
  <2>1. Cut(code, EdgesOf, R, Sounds, blocks, leaders)
    BY DEF CfgInv, Graphed, R
  <2>2. SplitUp = SplitAll(blocks, q) /\ Known = leaders \cup Range(q)
    BY DEF q, SplitUp, Known
  <2>3. /\ Cut(code, EdgesOf, R, Sounds, SplitAll(blocks, q), leaders \cup Range(q))
        /\ OwnedBy(SplitAll(blocks, q)) = OwnedBy(blocks)
        /\ DOMAIN blocks \subseteq DOMAIN SplitAll(blocks, q)
        /\ DOMAIN SplitAll(blocks, q) \subseteq DOMAIN blocks \cup Range(q)
    BY <1>3, <1>5, <1>6, <2>1, SplitAllCuts
  <2> QED BY <1>5, <2>2, <2>3, OwnedIs
<1>8. Known = leaders \cup inner
  BY <1>5 DEF q, Known
<1>9. /\ Cut(code, EdgesOf, R, Sounds, NewBlocks, Known)
      /\ OwnedBy(NewBlocks) = Owned \cup (Waiting .. EndOf)
      /\ DOMAIN NewBlocks = DOMAIN SplitUp \cup {Waiting} \cup (Known \cap (Waiting + 1 .. EndOf))
  <2>1. Inner(EdgesOf[EndOf]) \subseteq Known /\ Waiting \in Known
    BY <1>1, <1>4, <1>8 DEF inner
  <2>2. Walk(SplitUp, Known, Waiting, EndOf)
    <3>1. OwnedBy(SplitUp) \cap (Waiting .. EndOf) = {}
      BY <1>2, <1>7
    <3> QED BY <1>2, <1>4, <2>1, <3>1 DEF Walk, R
  <2> DEFINE Q == Published(SplitUp, Waiting, EndOf, Known)
  <2>3. /\ Cut(code, EdgesOf, R, Sounds, Q, Known)
        /\ OwnedBy(Q) = OwnedBy(SplitUp) \cup (Waiting .. EndOf)
        /\ DOMAIN Q = DOMAIN SplitUp \cup {Waiting} \cup (Known \cap (Waiting + 1 .. EndOf))
    <3>1. Follows(code, EdgesOf, Reached, Sounds) /\ Cut(code, EdgesOf, Reached, Sounds, SplitUp, Known)
      BY <1>3, <1>7 DEF R
    <3>2. Cut(code, EdgesOf, Reached, Sounds, Q, Known) /\ Adds(SplitUp, Known, Waiting, EndOf, Q)
      BY ONLY <2>2, <3>1, PublishCuts
    <3> HIDE DEF Q
    <3> QED BY <3>2 DEF Adds, R
  <2>4. NewBlocks = Q
    BY DEF NewBlocks
  <2> HIDE DEF Q
  <2> QED BY <1>7, <2>3, <2>4
<1>10. /\ LeadersMarked \in Seq(Slots)
       /\ Range(LeadersMarked) \subseteq Range(Tail(worklist)) \cup inner
       /\ Range(Tail(worklist)) \cup (inner \ DOMAIN SplitUp) \subseteq Range(LeadersMarked)
  <2>1. inner \in SUBSET Slots
    BY <1>2, <1>3
  <2>2. LeadersMarked = EnqueueAll(Tail(worklist), DOMAIN SplitUp, q)
    BY DEF LeadersMarked, q
  <2> QED BY <1>1, <1>5, <2>1, <2>2, EnqueuedAll
<1>11. NewQueue = EnqueueCuts(LeadersMarked, DOMAIN SplitUp, Known \cap (Waiting + 1 .. EndOf))
  BY DEF NewQueue
<1>12. NewQueue = LeadersMarked
  <2>1. (Known \cap (Waiting + 1 .. EndOf)) \subseteq inner
    BY <1>2, <1>8
  <2>2. (Known \cap (Waiting + 1 .. EndOf)) \ (Range(LeadersMarked) \cup DOMAIN SplitUp) = {}
    BY <1>10, <2>1
  <2> QED BY <1>11, <2>2 DEF EnqueueCuts
<1>13. Known = DOMAIN NewBlocks \cup Range(NewQueue)
  <2>1. leaders = DOMAIN blocks \cup {Waiting} \cup Range(Tail(worklist))
    BY <1>1 DEF CfgInv, Queued
  <2> QED BY <1>7, <1>8, <1>9, <1>10, <1>12, <2>1
<1>14. options.entry \in Known /\ Known \subseteq Begun
  BY <1>2, <1>8 DEF CfgInv, Queued
<1> QED BY <1>9, <1>10, <1>12, <1>13, <1>14 DEF R

\* The slots owned are finitely many, and those of a decoded block come on top.
LEMMA OwnedCount ==
  ASSUME CfgInv
  PROVE  /\ Owned \subseteq Reached /\ IsFiniteSet(Reached) /\ IsFiniteSet(Owned)
         /\ Cardinality(Owned) \in Nat /\ Cardinality(Reached) \in Nat
         /\ \A start, last \in Nat : start <= last /\ (start .. last) \cap Owned = {} =>
              Cardinality(Owned \cup (start .. last)) = Cardinality(Owned) + last - start + 1
<1>1. Owned \subseteq Reached
  BY OwnedIs DEF CfgInv, Graphed, Cut, OwnedBy
<1>2. IsFiniteSet(Reached)
  <2>1. IsFiniteSet(0 .. CodeSize - 1)
    BY GuestCodeAssumption, FS_Interval
  <2>2. Reached \in SUBSET (0 .. CodeSize - 1)
    BY Guest DEF CfgInv, Slots
  <2> QED BY <2>1, <2>2, FS_Subset
<1>3. IsFiniteSet(Owned)
  <2>1. Owned \in SUBSET Reached
    BY <1>1
  <2> QED BY <1>2, <2>1, FS_Subset
<1>4. Cardinality(Owned) \in Nat /\ Cardinality(Reached) \in Nat
  BY <1>2, <1>3, FS_CardinalityType
<1>5. ASSUME NEW start \in Nat, NEW last \in Nat, start <= last, (start .. last) \cap Owned = {}
      PROVE  Cardinality(Owned \cup (start .. last)) = Cardinality(Owned) + last - start + 1
  <2> DEFINE T == start .. last
  <2>1. IsFiniteSet(T) /\ Cardinality(T) = last - start + 1
    BY <1>5, FS_Interval
  <2>2. Owned \cap T = {}
    BY <1>5
  <2> HIDE DEF T
  <2>3. Cardinality(Owned \cup T) = Cardinality(Owned) + Cardinality(T) - Cardinality(Owned \cap T)
    BY <1>3, <2>1, FS_Union
  <2>4. Cardinality(Owned \cap T) = 0
    BY <2>2, FS_EmptySet
  <2> QED BY <1>4, <2>1, <2>3, <2>4 DEF T
<1> QED BY <1>1, <1>2, <1>3, <1>4, <1>5

LEMMA InitInv == CfgInit => CfgInv
<1> SUFFICES ASSUME CfgInit PROVE CfgInv
  OBVIOUS
<1>1. DOMAIN blocks = {} /\ leaders = {options.entry} /\ worklist = <<options.entry>>
  BY DEF CfgInit
<1>2. Typed
  BY DEF CfgInit, Typed
<1>3. Graphed
  BY <1>1 DEF Graphed, Cut
<1>4. Queued
  <2>1. options.entry \in Slots
    BY <1>2, Guest
  <2>2. worklist \in Seq(Slots) /\ Range(worklist) = {options.entry}
    BY <1>1, <2>1 DEF Range
  <2> QED BY <1>1, <2>2 DEF Queued, Begun, Starts
<1>5. Counted
  <2>1. Owned = {}
    BY <1>1, OwnedIs DEF OwnedBy
  <2>2. count = 0 /\ unresolved = {} /\ calls = {}
    BY DEF CfgInit
  <2> QED BY <2>1, <2>2, FS_EmptySet DEF Counted
<1> QED BY <1>2, <1>3, <1>4, <1>5 DEF CfgInv

\* A step that changes only the result, and one that drops a start from the worklist.
LEMMA SkipInv ==
  ASSUME CfgInv, UNCHANGED <<code, options, blocks, unresolved, calls, count, leaders>>,
         \/ worklist' = worklist
         \/ worklist # <<>> /\ Head(worklist) \in DOMAIN blocks /\ worklist' = Tail(worklist)
  PROVE  CfgInv'
<1>1. Typed'
  BY DEF CfgInv, Typed
<1>2. Reached' = Reached /\ EdgesOf' = EdgesOf /\ Sounds' = Sounds /\ Begun' = Begun
  BY Same
<1>3. Graphed'
  BY <1>2 DEF CfgInv, Graphed
<1>4. Queued'
  <2>1. worklist \in Seq(Slots) /\ leaders = DOMAIN blocks \cup Range(worklist)
    BY DEF CfgInv, Queued
  <2>2. worklist' \in Seq(Slots) /\ leaders = DOMAIN blocks \cup Range(worklist')
    <3>1. CASE worklist' = worklist
      BY <2>1, <3>1
    <3>2. CASE worklist # <<>> /\ Head(worklist) \in DOMAIN blocks /\ worklist' = Tail(worklist)
      BY <2>1, <3>2, HeadTail
    <3> QED BY <3>1, <3>2
  <2> QED BY <1>2, <2>2 DEF CfgInv, Queued
<1>5. Counted'
  <2>1. Owned' = Owned
    BY DEF Owned, SlotsOf
  <2> QED BY <2>1 DEF CfgInv, Counted
<1> QED BY <1>1, <1>3, <1>4, <1>5 DEF CfgInv

\* What a block adds to the collections is what its last slot is.
LEMMA DecodeInv ==
  ASSUME CfgInv, worklist # <<>>, DecodeBlock
  PROVE  CfgInv'
<1>1. Waiting \notin DOMAIN blocks
  BY DEF DecodeBlock, Waiting
<1>2. CASE \E error : Fail(error)
  BY <1>2, SkipInv DEF Fail
<1>3. CASE ~ \E error : Fail(error)
  <2>1. /\ Sound(EndOf)
        /\ blocks' = NewBlocks /\ leaders' = Known /\ worklist' = NewQueue
        /\ count' = count + EndOf - Waiting + 1
        /\ calls' = calls \cup {a \in {EndOf} : code[a].kind \in {"call", "icall"}}
        /\ unresolved' = unresolved \cup {a \in {EndOf} : code[a].kind \in {"icall", "ijump", "unknown"}}
        /\ UNCHANGED <<code, options, result>>
    BY <1>3 DEF DecodeBlock, Waiting, EndOf, Known, SplitUp, LeadersMarked, NewQueue, NewBlocks
  <2>2. /\ Cut(code, EdgesOf, Reached, Sounds, NewBlocks, Known)
        /\ OwnedBy(NewBlocks) = Owned \cup (Waiting .. EndOf)
        /\ NewQueue \in Seq(Slots)
        /\ Known = DOMAIN NewBlocks \cup Range(NewQueue)
        /\ options.entry \in Known
        /\ Known \subseteq Begun
    BY <1>1, <2>1, DecodedBlock
  <2>3. Waiting \in leaders
    <3>1. worklist \in Seq(Slots) /\ leaders = DOMAIN blocks \cup Range(worklist)
      BY DEF CfgInv, Queued
    <3> QED BY <3>1, HeadTail DEF Waiting
  <2>4. /\ Waiting \in Nat /\ EndOf \in Nat /\ Waiting <= EndOf
        /\ \A a \in Waiting .. EndOf - 1 : code[a].kind = "plain"
        /\ (Waiting .. EndOf) \cap Owned = {}
    BY <1>1, <2>3, Walked DEF EndOf
  <2>5. Typed'
    BY <2>1 DEF CfgInv, Typed
  <2>6. Reached' = Reached /\ EdgesOf' = EdgesOf /\ Sounds' = Sounds /\ Begun' = Begun
    BY <2>1, Same
  <2>7. Graphed'
    BY <2>1, <2>2, <2>6 DEF Graphed
  <2>8. Queued'
    BY <2>1, <2>2, <2>6 DEF Queued
  <2>9. Owned' = Owned \cup (Waiting .. EndOf)
    <3>1. Owned' = OwnedBy(NewBlocks)
      BY <2>1 DEF Owned, SlotsOf, OwnedBy
    <3> QED BY <2>2, <3>1
  <2>10. Counted'
    <3>1. count' = Cardinality(Owned')
      BY <2>1, <2>4, <2>9, OwnedCount DEF CfgInv, Counted
    <3>2. \A a \in Waiting .. EndOf : a = EndOf \/ code[a].kind = "plain"
      BY <2>4
    <3>3. EndOf \in Waiting .. EndOf
      BY <2>4
    <3>4. unresolved' = {a \in Owned' : code'[a].kind \in Unresolvable}
      BY <2>1, <2>9, <3>2, <3>3 DEF CfgInv, Counted, Unresolvable
    <3>5. calls' = {a \in Owned' : code'[a].kind \in {"call", "icall"}}
      BY <2>1, <2>9, <3>2, <3>3 DEF CfgInv, Counted
    <3> QED BY <3>1, <3>4, <3>5 DEF Counted
  <2> QED BY <2>5, <2>7, <2>8, <2>10 DEF CfgInv
<1> QED BY <1>2, <1>3

-----------------------------------------------------------------------------
(* What the result says. *)

Contrary == Contradicted(options.entry, options.known, options.allowed)

\* What CfgExact says of a graph that is returned.
Right ==
  /\ Owned = Reached
  /\ count = Cardinality(Owned)
  /\ DOMAIN blocks = leaders
  /\ \A s \in DOMAIN blocks : blocks[s].edges = Edges(blocks[s].last)
  /\ \A s \in DOMAIN blocks : \A a \in SlotsOf(s) \ {blocks[s].last} : code[a].kind = "plain"
  /\ unresolved = {a \in Owned : code[a].kind \in Unresolvable}
  /\ calls = {a \in Owned : code[a].kind \in {"call", "icall"}}
  /\ ~Contrary /\ \A a \in Reached : Sound(a)

\* CfgExact, in the terms of these proofs.
Justified ==
  /\ result = "ok" => Right
  /\ result = "InvalidFormat" => Contrary
  /\ result = "InvalidCode" => \E a \in Reached : ~Sound(a)
  /\ result = "InstructionLimit" => Cardinality(Reached) > options.limits.instructions
  /\ result = "BlockLimit" => Cardinality(Begun) > options.limits.blocks

LEMMA JustifiedIs == Justified => CfgExact
BY DEF Justified, CfgExact, Right, Contrary, Reached, Begun, Unresolvable

\* When the worklist is empty, the graph is that of the reachable code, and is
\* valid unless the code contradicts itself.
LEMMA Complete ==
  ASSUME CfgInv, worklist = <<>>
  PROVE  /\ GraphValid => Right
         /\ ~GraphValid => Contrary
<1>1. DOMAIN blocks = leaders
  BY DEF CfgInv, Queued, Range
<1>2. \A s \in DOMAIN blocks :
        /\ s \in Nat /\ blocks[s].last \in Nat /\ s <= blocks[s].last
        /\ blocks[s].last \in Reached
        /\ blocks[s].last \in Sounds
        /\ blocks[s].edges = Edges(blocks[s].last)
        /\ Inner(Edges(blocks[s].last)) \subseteq leaders
        /\ \A a \in s .. blocks[s].last - 1 : code[a].kind = "plain"
  <2>1. \A s \in DOMAIN blocks :
          /\ s \in Nat /\ blocks[s].last \in Nat /\ s <= blocks[s].last
          /\ s .. blocks[s].last \subseteq Reached
          /\ blocks[s].last \in Sounds
          /\ blocks[s].edges = EdgesOf[blocks[s].last]
          /\ Inner(EdgesOf[blocks[s].last]) \subseteq leaders
          /\ \A a \in s .. blocks[s].last - 1 : code[a].kind = "plain"
    BY DEF CfgInv, Graphed, Cut
  <2>2. ASSUME NEW s \in DOMAIN blocks
        PROVE  blocks[s].last \in Reached /\ EdgesOf[blocks[s].last] = Edges(blocks[s].last)
    <3>1. blocks[s].last \in Reached
      BY <2>1
    <3> QED BY <3>1, Guest DEF CfgInv
  <2> QED BY <2>1, <2>2
\* The slots owned are closed under succession.
<1>3. ASSUME NEW a \in Owned PROVE Inner(Edges(a)) \subseteq Owned
  <2>1. PICK s \in DOMAIN blocks : a \in s .. blocks[s].last
    BY OwnedIs DEF OwnedBy
  <2>2. CASE a = blocks[s].last
    <3>1. \A t \in leaders : t \in t .. blocks[t].last
      BY <1>1, <1>2
    <3>2. leaders \subseteq Owned
      BY <1>1, <3>1, OwnedIs DEF OwnedBy
    <3> QED BY <1>2, <2>2, <3>2
  <2>3. CASE a # blocks[s].last
    <3>1. a \in s .. blocks[s].last - 1 /\ a + 1 \in s .. blocks[s].last
      BY <1>2, <2>1, <2>3
    <3>2. code[a].kind = "plain" /\ a + 1 \in Owned
      BY <1>2, <3>1, OwnedIs DEF OwnedBy
    <3>3. \A e \in Edges(a) : e.target = a + 1
      BY <3>2, FlowEdges DEF Edges
    <3> QED BY <3>2, <3>3 DEF Inner
  <2> QED BY <2>2, <2>3
<1>4. Owned = Reached
  <2>1. options.entry \in Owned
    <3>1. options.entry \in DOMAIN blocks /\ options.entry \in options.entry .. blocks[options.entry].last
      BY <1>1, <1>2 DEF CfgInv, Queued
    <3> QED BY <3>1, OwnedIs DEF OwnedBy
  <2>2. \A T : options.entry \in T
               /\ (\A a \in T : Inner(Flow(options.entry, options.known, options.allowed, a)) \subseteq T)
               => Reached \subseteq T
    <3>1. /\ options.entry \in Slots /\ options.entry \in options.allowed
          /\ options.allowed \in SUBSET Slots
      BY Guest DEF CfgInv, Typed
    <3> QED BY <3>1, ReachLeast DEF Reached
  <2>3. Reached \subseteq Owned
    BY <1>3, <2>1, <2>2 DEF Edges
  <2> QED BY <2>3, OwnedCount
\* Control is transferred at the last slot of a block.
<1>5. ASSUME NEW a \in Reached, code[a].kind # "plain"
      PROVE  \E s \in DOMAIN blocks : a = blocks[s].last
  <2>1. PICK s \in DOMAIN blocks : a \in s .. blocks[s].last
    BY <1>4, OwnedIs DEF OwnedBy
  <2>2. a \notin s .. blocks[s].last - 1
    BY <1>2, <1>5
  <2>3. a = blocks[s].last
    BY <1>2, <2>1, <2>2
  <2> QED BY <2>3
<1>6. Begun = leaders
  <2> SUFFICES ASSUME NEW t \in Begun PROVE t \in leaders
    BY DEF CfgInv, Queued
  <2>1. CASE t = options.entry
    BY <2>1 DEF CfgInv, Queued
  <2>2. CASE t # options.entry
    <3>1. PICK a \in Reached : code[a].kind # "plain" /\ t \in Inner(Edges(a))
      BY <2>2 DEF Begun, Starts, Reached, Edges
    <3> QED BY <1>2, <1>5, <3>1
  <2> QED BY <2>1, <2>2
<1>7. \A a \in Reached : Sound(a)
  <2> SUFFICES ASSUME NEW a \in Reached PROVE Sound(a)
    OBVIOUS
  <2>1. CASE code[a].kind = "plain"
    BY <2>1 DEF Sound
  <2>2. CASE code[a].kind # "plain"
    BY <1>2, <1>5, <2>2 DEF Sounds
  <2> QED BY <2>1, <2>2
<1>8. ASSUME GraphValid PROVE ~Contrary
  <2> SUFFICES ASSUME NEW a \in Reached, Transfer(options.entry, options.known, a),
                      code[a].target \in Begun
               PROVE  FALSE
    BY DEF Contrary, Contradicted, Reached, Begun
  <2>1. code[a].kind # "plain"
    BY DEF Transfer
  <2>2. PICK s \in DOMAIN blocks : a = blocks[s].last
    BY <1>5, <2>1
  <2>3. PICK e \in blocks[s].edges : e.kind = "FunctionTransfer" /\ e.target = code[a].target
    BY <1>2, <2>2, TransferFlow DEF Edges
  <2>4. e.target \notin DOMAIN blocks
    BY <1>8, <2>3 DEF GraphValid
  <2> QED BY <1>1, <1>6, <2>3, <2>4
<1>9. ASSUME ~GraphValid PROVE Contrary
  <2> SUFFICES ASSUME ~Contrary PROVE GraphValid
    BY <1>9
  <2>1. ASSUME NEW s \in DOMAIN blocks, NEW t \in DOMAIN blocks, s # t
        PROVE SlotsOf(s) \cap SlotsOf(t) = {}
    <3>1. s < t \/ t < s
      BY <1>2, <2>1
    <3>2. s < t => blocks[s].last < t
      BY DEF CfgInv, Graphed, Cut
    <3>3. t < s => blocks[t].last < s
      BY DEF CfgInv, Graphed, Cut
    <3> QED BY <1>2, <3>1, <3>2, <3>3 DEF SlotsOf
  <2>2. ASSUME NEW s \in DOMAIN blocks, NEW e \in blocks[s].edges
        PROVE  /\ e.internal => e.target \in DOMAIN blocks
               /\ e.kind = "FunctionTransfer" =>
                    ~e.internal /\ e.target \notin DOMAIN blocks /\ code[blocks[s].last].kind = "jump"
               /\ code[blocks[s].last].kind = "jump" => e.kind # "Fallthrough"
    <3> DEFINE a == blocks[s].last
    <3>1. a \in Reached /\ e \in Edges(a) /\ Inner(Edges(a)) \subseteq leaders
      BY <1>2
    <3> HIDE DEF a
    <3>2. e.internal => e.target \in DOMAIN blocks
      BY <1>1, <3>1 DEF Inner
    <3>3. /\ e.kind = "FunctionTransfer" =>
               Transfer(options.entry, options.known, a) /\ ~e.internal /\ e.target = code[a].target
          /\ code[a].kind = "jump" => e.kind # "Fallthrough"
      BY <3>1, FlowEdges DEF Edges
    <3>4. Transfer(options.entry, options.known, a) =>
            code[a].target \notin DOMAIN blocks /\ code[a].kind = "jump"
      BY <1>1, <1>6, <3>1 DEF Contrary, Contradicted, Reached, Begun, Transfer
    <3> QED BY <3>2, <3>3, <3>4 DEF a
  <2> QED BY <2>1, <2>2 DEF GraphValid
<1>10. ASSUME GraphValid PROVE Right
  <2>1. \A s \in DOMAIN blocks : \A a \in SlotsOf(s) \ {blocks[s].last} : code[a].kind = "plain"
    <3> SUFFICES ASSUME NEW s \in DOMAIN blocks, NEW a \in s .. blocks[s].last, a # blocks[s].last
                 PROVE  code[a].kind = "plain"
      BY DEF SlotsOf
    <3>1. a \in s .. blocks[s].last - 1
      BY <1>2
    <3> QED BY <1>2, <3>1
  <2> QED BY <1>1, <1>2, <1>4, <1>7, <1>8, <1>10, <2>1 DEF Right, CfgInv, Counted
<1> QED BY <1>9, <1>10

\* What Justified speaks of, in a next state that leaves it alone.
LEMMA SameResult ==
  ASSUME UNCHANGED <<code, options, blocks, unresolved, calls, count, leaders>>
  PROVE  /\ Reached' = Reached /\ Begun' = Begun
         /\ Right => Right'
         /\ Contrary => Contrary'
         /\ (\E a \in Reached : ~Sound(a)) => (\E a \in Reached : ~Sound(a))'
<1>1. Reached' = Reached /\ Begun' = Begun /\ \A a : Edges(a)' = Edges(a)
  BY Same
<1>2. Contrary' <=> Contrary
  BY <1>1 DEF Contrary, Contradicted, Transfer, Reached, Begun
<1>3. \A a : Sound(a)' <=> Sound(a)
  BY DEF Sound
<1>4. Owned' = Owned /\ \A s : SlotsOf(s)' = SlotsOf(s)
  BY DEF Owned, SlotsOf
<1>5. Right => Right'
  BY <1>1, <1>2, <1>3, <1>4 DEF Right
<1> QED BY <1>1, <1>2, <1>3, <1>5

\* decode_block fails for a reason the code has.
LEMMA DecodeJustified ==
  ASSUME CfgInv, worklist # <<>>, DecodeBlock, result = "running"
  PROVE  Justified'
<1>1. Waiting \notin DOMAIN blocks /\ Waiting \in leaders
  <2>1. worklist \in Seq(Slots) /\ leaders = DOMAIN blocks \cup Range(worklist)
    BY DEF CfgInv, Queued
  <2>2. Waiting \in leaders
    BY <2>1, HeadTail DEF Waiting
  <2> QED BY <2>2 DEF DecodeBlock, Waiting
<1>2. /\ Waiting \in Nat /\ EndOf \in Nat /\ Waiting <= EndOf
      /\ Waiting .. EndOf \subseteq Reached
      /\ (Waiting .. EndOf) \cap Owned = {}
  BY <1>1, Walked DEF EndOf
<1>3. options.limits.blocks \in Nat /\ options.limits.instructions \in Nat
  <2>1. options.limits \in Limits
    BY DEF CfgInv, Typed
  <2> QED BY <2>1, CfgAssumption DEF LimitType
<1>4. \/ result' = "running"
      \/ Fail("BlockLimit") /\ Cardinality(DOMAIN blocks) >= options.limits.blocks
      \/ Fail("InstructionLimit") /\ count + EndOf - Waiting >= options.limits.instructions
      \/ Fail("InvalidCode") /\ ~Sound(EndOf)
      \/ Fail("WorklistLimit")
  BY DEF DecodeBlock, Waiting, EndOf
<1>5. CASE result' = "running"
  BY <1>5 DEF Justified
<1>6. CASE Fail("BlockLimit") /\ Cardinality(DOMAIN blocks) >= options.limits.blocks
  <2> DEFINE D == DOMAIN blocks
  <2>1. IsFiniteSet(Begun)
    <3>1. Begun \in SUBSET Reached
      BY Guest DEF CfgInv
    <3> QED BY <3>1, OwnedCount, FS_Subset
  <2>2. D \cup {Waiting} \in SUBSET Begun /\ Waiting \notin D
    BY <1>1 DEF CfgInv, Queued
  <2> HIDE DEF D
  <2>3. IsFiniteSet(D) /\ IsFiniteSet(D \cup {Waiting})
        /\ Cardinality(D \cup {Waiting}) <= Cardinality(Begun)
    <3>1. D \in SUBSET Begun
      BY <2>2
    <3> QED BY <2>1, <2>2, <3>1, FS_Subset
  <2>4. Cardinality(D \cup {Waiting}) = Cardinality(D) + 1
    BY <2>2, <2>3, FS_AddElement
  <2>5. Cardinality(D) \in Nat /\ Cardinality(Begun) \in Nat
    BY <2>1, <2>3, FS_CardinalityType
  <2>6. Cardinality(Begun) > options.limits.blocks
    BY <1>3, <1>6, <2>3, <2>4, <2>5 DEF D
  <2>7. Begun' = Begun /\ options' = options /\ result' = "BlockLimit"
    BY <1>6, SameResult DEF Fail
  <2> QED BY <2>6, <2>7 DEF Justified
<1>7. CASE Fail("InstructionLimit") /\ count + EndOf - Waiting >= options.limits.instructions
  <2> DEFINE T == Owned \cup (Waiting .. EndOf)
  <2>1. Cardinality(T) = count + EndOf - Waiting + 1
    BY <1>2, OwnedCount DEF CfgInv, Counted
  <2>2. T \in SUBSET Reached
    BY <1>2, OwnedCount
  <2>3. count \in Nat
    BY OwnedCount DEF CfgInv, Counted
  <2> HIDE DEF T
  <2>4. Cardinality(T) <= Cardinality(Reached) /\ Cardinality(Reached) \in Nat
    BY <2>2, OwnedCount, FS_Subset
  <2>5. Cardinality(Reached) > options.limits.instructions
    BY <1>2, <1>3, <1>7, <2>1, <2>3, <2>4
  <2>6. Reached' = Reached /\ options' = options /\ result' = "InstructionLimit"
    BY <1>7, SameResult DEF Fail
  <2> QED BY <2>5, <2>6 DEF Justified
<1>8. CASE Fail("InvalidCode") /\ ~Sound(EndOf)
  <2>1. EndOf \in Reached
    BY <1>2
  <2>2. (\E a \in Reached : ~Sound(a))' /\ result' = "InvalidCode"
    BY <1>8, <2>1, SameResult DEF Fail
  <2> QED BY <2>2 DEF Justified
<1>9. CASE Fail("WorklistLimit")
  BY <1>9 DEF Fail, Justified
<1> QED BY <1>4, <1>5, <1>6, <1>7, <1>8, <1>9

\* Every step keeps the invariant and justifies the result it leaves.
LEMMA CfgStep == CfgInv /\ Justified /\ [CfgNext]_cfg => CfgInv' /\ Justified'
<1> SUFFICES ASSUME CfgInv, Justified, [CfgNext]_cfg PROVE CfgInv' /\ Justified'
  OBVIOUS
<1>1. CASE UNCHANGED cfg
  <2>1. CfgInv'
    BY <1>1, SkipInv DEF cfg
  <2>2. UNCHANGED <<code, options, blocks, unresolved, calls, count, leaders, result>>
    BY <1>1 DEF cfg
  <2> QED BY <2>1, <2>2, SameResult DEF Justified
<1>2. CASE result = "running" /\ worklist # <<>> /\ SkipBlock
  <2>1. CfgInv'
    BY <1>2, SkipInv DEF SkipBlock
  <2> QED BY <1>2, <2>1 DEF SkipBlock, Justified
<1>3. CASE result = "running" /\ worklist # <<>> /\ DecodeBlock
  BY <1>3, DecodeInv, DecodeJustified
<1>4. CASE result = "running" /\ worklist = <<>> /\ Finish
  <2>1. CfgInv'
    BY <1>4, SkipInv DEF Finish
  <2>2. UNCHANGED <<code, options, blocks, unresolved, calls, count, leaders>>
        /\ result' = IF GraphValid THEN "ok" ELSE "InvalidFormat"
    BY <1>4 DEF Finish
  <2> QED BY <1>4, <2>1, <2>2, Complete, SameResult DEF Justified
<1> QED BY <1>1, <1>2, <1>3, <1>4 DEF CfgNext

\* The invariant of the worklist: blocks do not overlap, hold reached slots only
\* and no leader inside, and every leader has its block or waits for it; so no
\* order in which branches are met makes decode_block or split_existing_block
\* count an instruction twice.
THEOREM CfgInvariant == CfgSpec => []CfgInv
<1>1. CfgInit => CfgInv /\ Justified
  BY InitInv DEF CfgInit, Justified
<1> QED BY <1>1, CfgStep, PTL DEF CfgSpec

\* The analyzer is exact: for every program, entry, set of known entries, range
\* and limits, the graph that run returns is that of the reachable code, and
\* the error it returns is one the code has.
THEOREM CfgIsExact == CfgSpec => []CfgExact
<1>1. CfgInit => CfgInv /\ Justified
  BY InitInv DEF CfgInit, Justified
<1> QED BY <1>1, CfgStep, JustifiedIs, PTL DEF CfgSpec

-----------------------------------------------------------------------------
(* Why the analysis ends. *)

\* There are no more slots to own than the code has.
LEMMA UnownedNat ==
  ASSUME CfgInv
  PROVE  count \in Nat /\ CodeSize \in Nat /\ Unowned \in Nat
<1>1. CodeSize \in Nat /\ Slots = 0 .. CodeSize - 1
  BY GuestCodeAssumption DEF Slots
<1>2. IsFiniteSet(Slots) /\ Cardinality(Slots) = CodeSize
  <2>1. IsFiniteSet(0 .. CodeSize - 1) /\ Cardinality(0 .. CodeSize - 1) = CodeSize
    BY <1>1, FS_Interval
  <2> QED BY <1>1, <2>1
<1>3. Owned \in SUBSET Slots
  BY OwnedCount, Guest DEF CfgInv
<1>4. Cardinality(Owned) \in Nat /\ Cardinality(Owned) <= CodeSize
  BY <1>2, <1>3, FS_Subset, FS_CardinalityType
<1>5. count = Cardinality(Owned)
  BY DEF CfgInv, Counted
<1> QED BY <1>1, <1>4, <1>5 DEF Unowned

\* A turn that does not end the analysis makes progress.
LEMMA TurnAdvances ==
  ASSUME CfgInv, CfgNext, result' = "running"
  PROVE  \/ Unowned' < Unowned
         \/ Unowned' = Unowned /\ Len(worklist') < Len(worklist)
<1>0. result = "running"
  BY DEF CfgNext
<1>1. CASE worklist # <<>> /\ SkipBlock
  <2>1. worklist \in Seq(Slots) /\ worklist' = Tail(worklist) /\ count' = count
    BY <1>1 DEF CfgInv, Queued, SkipBlock
  <2>2. Len(worklist') < Len(worklist)
    BY <1>1, <2>1
  <2> QED BY <2>1, <2>2 DEF Unowned
<1>2. CASE worklist # <<>> /\ DecodeBlock
  <2>1. Waiting \notin DOMAIN blocks /\ count' = count + EndOf - Waiting + 1
    BY <1>0, <1>2 DEF DecodeBlock, Waiting, EndOf, Fail
  <2>2. Waiting \in leaders
    <3>1. worklist \in Seq(Slots) /\ leaders = DOMAIN blocks \cup Range(worklist)
      BY DEF CfgInv, Queued
    <3> QED BY <1>2, <3>1, HeadTail DEF Waiting
  <2>3. Waiting \in Nat /\ EndOf \in Nat /\ Waiting <= EndOf
    BY <2>1, <2>2, Walked DEF EndOf
  <2>4. count' > count
    BY <2>1, <2>3, UnownedNat
  <2> QED BY <2>1, <2>3, <2>4, UnownedNat DEF Unowned
<1>3. CASE worklist = <<>> /\ Finish
  BY <1>3 DEF Finish
<1> QED BY <1>1, <1>2, <1>3 DEF CfgNext

\* Every turn of run decodes slots that no block had or shortens the worklist, so
\* that the analysis of any code ends without help of a limit
\* (GraphBuilder::run of cfg_analyzer.cpp).
THEOREM AnalysisAlwaysAdvances == CfgSpec => AnalysisAdvances
<1>1. CfgInv /\ [CfgNext]_cfg =>
        [/\ Unowned \in Nat
         /\ result' = "running" =>
              \/ Unowned' < Unowned
              \/ Unowned' = Unowned /\ Len(worklist') < Len(worklist)]_cfg
  BY UnownedNat, TurnAdvances
<1> QED BY <1>1, CfgInvariant, PTL DEF CfgSpec, AnalysisAdvances
=============================================================================
