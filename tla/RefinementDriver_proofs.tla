---------------------- MODULE RefinementDriver_proofs ----------------------
(***************************************************************************)
(* Proofs about the refinement worklist and its two clients: the ledgers     *)
(* hold under any order of calls, an exhausted worklist stands still, and    *)
(* the driver loop settles what it took up.                                  *)
(***************************************************************************)
EXTENDS RefinementDriver, FiniteSetTheorems, SequenceTheorems, TLAPS

-----------------------------------------------------------------------------
(* Counting. *)

CountersTyped == counters \in [CounterNames -> 0..CounterMax]

\* The counters the ledgers are stated about, and those they are not.
Ledgered ==
  {"unique_candidates", "candidate_assessments", "first_candidate_assessments",
   "generation_reassessments", "successful_promotions", "map_rebuilds", "rebuilds_avoided",
   "batch_candidates", "singleton_batches"}

Quiet == CounterNames \ Ledgered

LEMMA MaxPositive == CounterMax \in Nat /\ CounterMax > 0
  BY WorklistAssumption

\* A list of counters is a function on its indices.
LEMMA ListShape ==
  ASSUME NEW S, NEW names \in Seq(S)
  PROVE  /\ Len(names) \in Nat
         /\ DOMAIN names = 1 .. Len(names)
         /\ \A i \in DOMAIN names : names[i] \in S
  BY LenProperties, ElementOfSeq

\* The beginning of a list, and its members.
LEMMA Beginning ==
  ASSUME NEW S, NEW names \in Seq(S), NEW i \in DOMAIN names
  PROVE  /\ SubSeq(names, 1, i) \in Seq(S)
         /\ DOMAIN SubSeq(names, 1, i) = 1 .. i
         /\ \A j \in 1 .. i : j \in DOMAIN names /\ SubSeq(names, 1, i)[j] = names[j]
<1>1. i \in Nat /\ 1 <= i /\ i <= Len(names) /\ Len(names) \in Nat
  BY ListShape
<1>2. \A j \in 1 .. i : j \in DOMAIN names /\ names[j] \in S
  BY <1>1, ListShape
<1>3. /\ SubSeq(names, 1, i) \in Seq(S)
      /\ Len(SubSeq(names, 1, i)) = i
      /\ \A j \in 1 .. i : SubSeq(names, 1, i)[j] = names[j]
  <2>1. 1 \in Int /\ i \in Int /\ \A j \in 1 .. i : names[j] \in S
    BY <1>1, <1>2
  <2>2. /\ SubSeq(names, 1, i) \in Seq(S)
        /\ Len(SubSeq(names, 1, i)) = IF 1 <= i THEN i - 1 + 1 ELSE 0
        /\ \A j \in 1 .. i - 1 + 1 : SubSeq(names, 1, i)[j] = names[1 + j - 1]
    BY <2>1, SubSeqProperties
  <2>3. i - 1 + 1 = i /\ \A j \in 1 .. i : 1 + j - 1 = j
    BY <1>1
  <2> QED BY <1>1, <2>2, <2>3
<1>4. DOMAIN SubSeq(names, 1, i) = 1 .. i
  BY <1>3, ListShape
<1> QED BY <1>2, <1>3, <1>4

\* Counting keeps every counter in its range.
LEMMA CountedTyped ==
  ASSUME CountersTyped, NEW names \in Seq(CounterNames)
  PROVE  Counted(names) \in [CounterNames -> 0..CounterMax]
<1> SUFFICES ASSUME NEW c \in CounterNames, NEW i \in DOMAIN names, names[i] = c,
                    Countable(SubSeq(names, 1, i))
             PROVE  counters[c] + 1 \in 0..CounterMax
  BY DEF Counted, CountersTyped
<1>1. i \in 1 .. i /\ SubSeq(names, 1, i)[i] = c /\ i \in DOMAIN SubSeq(names, 1, i)
  BY Beginning, ListShape
<1>2. counters[c] < CounterMax
  BY <1>1 DEF Countable
<1> QED BY <1>2, MaxPositive DEF CountersTyped

\* A counter that is not in the list keeps its value.
LEMMA CountedElsewhere ==
  ASSUME NEW S, NEW names \in Seq(S), NEW c \in CounterNames, c \notin S
  PROVE  Counted(names)[c] = counters[c]
  BY ListShape DEF Counted

\* What can be counted can be counted up to any place in the list.
LEMMA CountableBeginning ==
  ASSUME NEW S, NEW names \in Seq(S), Countable(names), NEW i \in DOMAIN names
  PROVE  Countable(SubSeq(names, 1, i))
<1> SUFFICES ASSUME NEW j \in DOMAIN SubSeq(names, 1, i)
             PROVE  counters[SubSeq(names, 1, i)[j]] < CounterMax
  BY DEF Countable
<1>1. j \in DOMAIN names /\ SubSeq(names, 1, i)[j] = names[j]
  BY Beginning
<1> QED BY <1>1 DEF Countable

\* A counter in a list that can be counted goes up by one.
LEMMA CountedHere ==
  ASSUME NEW S, NEW names \in Seq(S), Countable(names), NEW i \in DOMAIN names,
         names[i] \in CounterNames
  PROVE  Counted(names)[names[i]] = counters[names[i]] + 1
  BY CountableBeginning DEF Counted

\* Lists are put together from members of one set.
LEMMA Lists ==
  ASSUME NEW S
  PROVE  /\ <<>> \in Seq(S)
         /\ \A p, q \in Seq(S) : p \o q \in Seq(S)
         /\ \A p \in Seq(S), b \in BOOLEAN : OnlyIf(b, p) \in Seq(S)
  BY EmptySeq, ConcatProperties DEF OnlyIf

\* Which counters are which.
LEMMA Names ==
  /\ Ledgered \subseteq CounterNames /\ Quiet \subseteq CounterNames
  /\ Quiet \cap Ledgered = {}
  /\ {"observations_received", "unique_observations", "duplicate_coalesced_observations",
      "existing_trusted_hits", "structurally_ineligible_candidates", "rejected_candidates",
      "terminal_resolutions", "candidates_reconsidered_after_map_change",
      "total_execution_attempts", "productive_rounds", "stagnant_rounds",
      "same_generation_assessment_attempts", "failed_refinements", "rollback_assessments"}
       \subseteq Quiet
  BY DEF Ledgered, Quiet, CounterNames

\* One or two quiet counters are a list of them.
LEMMA ShortLists ==
  ASSUME NEW S, NEW x \in S, NEW y \in S
  PROVE  <<x>> \in Seq(S) /\ <<x, y>> \in Seq(S)
  OBVIOUS

LEMMA CoalescedQuiet ==
  ASSUME NEW a
  PROVE  Coalesced(a) \in Seq(Quiet)
  BY Names, ShortLists DEF Coalesced

\* A list of quiet counters is one of counters.
LEMMA QuietLists == Seq(Quiet) \subseteq Seq(CounterNames)
  BY Names, SeqMonotonic

-----------------------------------------------------------------------------
(* Steps that leave the ledgers alone. *)

\* The worklist keeps its types.
WorkTyped ==
  /\ budgets \in BudgetSets
  /\ items \in [DOMAIN items -> WorkItem]
  /\ DOMAIN items \subseteq Targets
  /\ IsFiniteSet(DOMAIN items)
  /\ seen \subseteq Targets \X Sites
  /\ CountersTyped
  /\ ledger \in [Ledgers -> Nat]
  /\ exhaustion \in Dimensions
  /\ overflowing \subseteq Targets
  /\ generation \in 0..CounterMax
  /\ round \in {"idle", "active", "productive"}

\* What ExhaustionStands asks of a step.
Stands ==
  Exhausted =>
    /\ exhaustion' \in {exhaustion, "CounterOverflow"}
    /\ generation' = generation
    /\ DOMAIN items' = DOMAIN items
    /\ \A t \in DOMAIN items :
         /\ items'[t].pending => items[t].pending
         /\ items'[t].assessed = items[t].assessed
         /\ items'[t].promoted = items[t].promoted

WorkStep == WorkTyped' /\ LedgersHold' /\ Stands

\* A step that promotes nothing.
Kept ==
  /\ budgets' = budgets
  /\ generation' = generation
  /\ \A c \in {"successful_promotions", "batch_candidates", "singleton_batches"} :
       counters'[c] = counters[c]

QuietWork == WorkStep /\ Kept

Neutral ==
  /\ budgets' = budgets
  /\ ledger' = ledger
  /\ generation' = generation
  /\ DOMAIN items' = DOMAIN items
  /\ items' \in [DOMAIN items -> WorkItem]
  /\ CountersTyped'
  /\ \A c \in Ledgered : counters'[c] = counters[c]
  /\ exhaustion' \in Dimensions
  /\ exhaustion = "CounterOverflow" => exhaustion' = "CounterOverflow"
  /\ seen' \subseteq Targets \X Sites
  /\ overflowing' \subseteq Targets
  /\ round' \in {"idle", "active", "productive"}

LEMMA NeutralKeeps ==
  ASSUME WorkTyped, LedgersHold, Neutral
  PROVE  WorkTyped' /\ LedgersHold' /\ Kept
<1>1. WorkTyped'
  BY DEF WorkTyped, Neutral
<1>2. LedgersHold'
  <2>1. \A c \in {"unique_candidates", "candidate_assessments", "first_candidate_assessments",
                  "generation_reassessments", "successful_promotions", "map_rebuilds",
                  "rebuilds_avoided"} : counters'[c] = counters[c]
    BY DEF Neutral, Ledgered
  <2>2. Limit' = Limit
    BY DEF Neutral, Limit
  <2> QED BY <2>1, <2>2 DEF LedgersHold, Neutral
<1>3. Kept
  BY DEF Kept, Neutral, Ledgered
<1> QED BY <1>1, <1>2, <1>3

\* Counting quiet counters.
LEMMA CountQuiet ==
  ASSUME CountersTyped, NEW names \in Seq(Quiet)
  PROVE  /\ Counted(names) \in [CounterNames -> 0..CounterMax]
         /\ \A c \in Ledgered : Counted(names)[c] = counters[c]
<1>1. \A c \in Ledgered : c \in CounterNames /\ c \notin Quiet
  BY Names
<1> QED BY <1>1, QuietLists, CountedTyped, CountedElsewhere

\* What Count does to the exhaustion.
LEMMA CountExhaustion ==
  ASSUME WorkTyped, NEW names, Count(names)
  PROVE  /\ exhaustion' \in {exhaustion, "CounterOverflow"}
         /\ exhaustion' \in Dimensions
         /\ exhaustion = "CounterOverflow" => exhaustion' = "CounterOverflow"
  BY DEF Count, WorkTyped, Dimensions

\* A candidate that is resolved keeps what was assessed and promoted.
LEMMA ResolvedRecord ==
  ASSUME WorkTyped, NEW t \in DOMAIN items
  PROVE  LET new == [items EXCEPT ![t] = Resolved(@)]
         IN /\ new \in [DOMAIN items -> WorkItem]
            /\ DOMAIN new = DOMAIN items
            /\ \A u \in DOMAIN items : u # t => new[u] = items[u]
            /\ new[t] = Resolved(items[t])
            /\ ~new[t].pending
            /\ new[t].processed
            /\ new[t].at = generation
            /\ new[t].assessed = items[t].assessed
            /\ new[t].promoted = items[t].promoted
<1>1. items[t] \in WorkItem /\ generation \in Nat
  BY DEF WorkTyped
<1>2. /\ Resolved(items[t]) \in WorkItem
      /\ ~Resolved(items[t]).pending
      /\ Resolved(items[t]).processed
      /\ Resolved(items[t]).at = generation
      /\ Resolved(items[t]).assessed = items[t].assessed
      /\ Resolved(items[t]).promoted = items[t].promoted
  BY <1>1 DEF Resolved, WorkItem
<1> QED BY <1>2 DEF WorkTyped

-----------------------------------------------------------------------------
(* Observations. *)

\* A worklist that does not change keeps everything.
LEMMA NothingHappens ==
  ASSUME WorkTyped, LedgersHold, UNCHANGED worklist
  PROVE  QuietWork
<1>1. WorkTyped'
  BY DEF WorkTyped, worklist, CountersTyped
<1>2. LedgersHold'
  BY DEF LedgersHold, worklist, Limit
<1>3. Stands
  BY DEF Stands, worklist
<1>4. Kept
  BY DEF Kept, worklist
<1> QED BY <1>1, <1>2, <1>3, <1>4 DEF QuietWork, WorkStep

LEMMA SeenTyped ==
  ASSUME WorkTyped, NEW a \in Assessments, See(a)
  PROVE  seen' \subseteq Targets \X Sites
  BY DEF WorkTyped, See, ObservedKey, Assessments

\* Counting a quiet list, with the records unchanged or one resolved, is neutral.
LEMMA QuietStep ==
  ASSUME WorkTyped, LedgersHold, NEW names \in Seq(Quiet),
         NEW t, items' = items \/ (t \in DOMAIN items /\ items' = [items EXCEPT ![t] = Resolved(@)]),
         Count(names),
         seen' \subseteq Targets \X Sites, overflowing' \subseteq Targets,
         round' \in {"idle", "active", "productive"},
         UNCHANGED <<budgets, ledger, generation>>
  PROVE  WorkTyped' /\ LedgersHold' /\ Kept
<1>1. DOMAIN items' = DOMAIN items /\ items' \in [DOMAIN items -> WorkItem]
  BY ResolvedRecord DEF WorkTyped
<1>2. CountersTyped' /\ \A c \in Ledgered : counters'[c] = counters[c]
  BY CountQuiet DEF Count, WorkTyped, CountersTyped
<1>3. Neutral
  BY <1>1, <1>2, CountExhaustion DEF Neutral
<1> QED BY <1>3, NeutralKeeps

LEMMA ProductiveRound ==
  ASSUME WorkTyped
  PROVE  Productive \in {"idle", "active", "productive"}
  BY DEF Productive

LEMMA ExistingStep ==
  ASSUME WorkTyped, LedgersHold, NEW a \in Assessments, ObserveExisting(a), See(a),
         UNCHANGED <<budgets, ledger, generation>>
  PROVE  WorkTyped' /\ LedgersHold' /\ Kept
<1> DEFINE known == a.target \in DOMAIN items
           open == known /\ Unresolved(items[a.target])
           names == Coalesced(a) \o <<"existing_trusted_hits">>
                      \o OnlyIf(open, <<"terminal_resolutions">>)
<1>1. names \in Seq(Quiet)
  <2>1. <<"existing_trusted_hits">> \in Seq(Quiet) /\ <<"terminal_resolutions">> \in Seq(Quiet)
    BY Names, ShortLists
  <2>2. open \in BOOLEAN
    BY DEF Unresolved
  <2> QED BY <2>1, <2>2, CoalescedQuiet, Lists
<1> HIDE DEF names
<1>2. /\ Count(names)
      /\ items' = items \/ (known /\ items' = [items EXCEPT ![a.target] = Resolved(@)])
      /\ round' \in {round, Productive}
      /\ overflowing' = overflowing
  BY DEF ObserveExisting, names
<1> QED BY <1>1, <1>2, QuietStep, SeenTyped, ProductiveRound DEF WorkTyped

LEMMA IneligibleStep ==
  ASSUME WorkTyped, LedgersHold, NEW a \in Assessments, ObserveIneligible(a), See(a),
         UNCHANGED <<budgets, ledger, generation>>
  PROVE  WorkTyped' /\ LedgersHold' /\ Kept
<1> DEFINE more == <<"structurally_ineligible_candidates", "rejected_candidates",
                     "terminal_resolutions">>
           names == Coalesced(a) \o OnlyIf(ObservedKey(a) \notin seen, more)
<1>1. names \in Seq(Quiet)
  <2>1. more \in Seq(Quiet)
    BY Names
  <2> QED BY <2>1, CoalescedQuiet, Lists
<1> HIDE DEF names
<1>2. /\ Count(names)
      /\ items' = items
      /\ round' \in {round, Productive}
      /\ overflowing' = overflowing
  BY DEF ObserveIneligible, names
<1> QED BY <1>1, <1>2, QuietStep, SeenTyped, ProductiveRound DEF WorkTyped

LEMMA RejectedAgainStep ==
  ASSUME WorkTyped, LedgersHold, NEW a \in Assessments, ObserveRejectedAgain(a), See(a),
         UNCHANGED <<budgets, ledger, generation>>
  PROVE  WorkTyped' /\ LedgersHold' /\ Kept
<1> DEFINE w == items[a.target]
           resolution == Coalesced(a) \o OnlyIf(Unresolved(w), <<"terminal_resolutions">>)
           names == resolution \o <<"rejected_candidates">>
<1>1. names \in Seq(Quiet)
  <2>1. <<"rejected_candidates">> \in Seq(Quiet) /\ <<"terminal_resolutions">> \in Seq(Quiet)
    BY Names, ShortLists
  <2>2. Unresolved(w) \in BOOLEAN
    BY DEF WorkTyped, WorkItem, Unresolved, ObserveRejectedAgain
  <2> QED BY <2>1, <2>2, CoalescedQuiet, Lists
<1> HIDE DEF names, resolution
<1>2. /\ items' = items \/ (a.target \in DOMAIN items
                            /\ items' = [items EXCEPT ![a.target] = Resolved(@)])
      /\ round' \in {round, Productive}
      /\ overflowing' = overflowing
      /\ Count(names) \/ Count(Coalesced(a))
  BY DEF ObserveRejectedAgain, names, resolution
<1> QED BY <1>1, <1>2, CoalescedQuiet, QuietStep, SeenTyped, ProductiveRound DEF WorkTyped

LEMMA NewAgainStep ==
  ASSUME WorkTyped, LedgersHold, NEW a \in Assessments, ObserveNewAgain(a), See(a),
         UNCHANGED <<budgets, ledger, generation>>
  PROVE  WorkTyped' /\ LedgersHold' /\ Kept
<1> DEFINE w == items[a.target]
           reopen == ~w.pending /\ (~w.processed \/ w.at < generation)
           again == reopen /\ w.assessed # NoGeneration /\ w.assessed < generation
           names == Coalesced(a)
                      \o OnlyIf(again, <<"candidates_reconsidered_after_map_change">>)
<1>0. w \in WorkItem
  BY DEF WorkTyped, ObserveNewAgain
<1>1. names \in Seq(Quiet)
  <2>1. <<"candidates_reconsidered_after_map_change">> \in Seq(Quiet)
    BY Names, ShortLists
  <2>2. again \in BOOLEAN
    OBVIOUS
  <2> QED BY <2>1, <2>2, CoalescedQuiet, Lists
<1> HIDE DEF names
<1>2. /\ Count(names)
      /\ items' = items \/ items' = [items EXCEPT ![a.target].pending = TRUE]
      /\ a.target \in DOMAIN items
      /\ round' \in {round, Productive}
      /\ overflowing' = overflowing
  BY DEF ObserveNewAgain, names
<1>3. DOMAIN items' = DOMAIN items /\ items' \in [DOMAIN items -> WorkItem]
  <2>1. [w EXCEPT !.pending = TRUE] \in WorkItem
    BY <1>0 DEF WorkItem
  <2>2. items \in [DOMAIN items -> WorkItem]
    BY DEF WorkTyped
  <2> QED BY <1>2, <2>1, <2>2
<1>4. CountersTyped' /\ \A c \in Ledgered : counters'[c] = counters[c]
  BY <1>1, <1>2, CountQuiet DEF Count, WorkTyped, CountersTyped
<1>5. Neutral
  BY <1>2, <1>3, <1>4, CountExhaustion, SeenTyped, ProductiveRound DEF Neutral, WorkTyped
<1> QED BY <1>5, NeutralKeeps

\* Two lists one after the other.
LEMMA Joined ==
  ASSUME NEW S, NEW p \in Seq(S), NEW q \in Seq(S), Len(p) > 0
  PROVE  /\ p \o q \in Seq(S)
         /\ Len(p) \in Nat /\ Len(q) \in Nat
         /\ Len(p \o q) = Len(p) + Len(q)
         /\ \A i \in 1 .. Len(p) + Len(q) :
              (p \o q)[i] = IF i <= Len(p) THEN p[i] ELSE q[i - Len(p)]
         /\ SubSeq(p \o q, 1, Len(p)) = p
<1>1. Len(p) \in 1 .. Len(p) /\ 1 \in 1 .. Len(p)
  BY ListShape
<1>2. SubSeq(p \o q, 1, Len(p)) = SubSeq(p, 1, Len(p))
  BY <1>1, SubSeqOfConcat1
<1>3. SubSeq(p, 1, Len(p)) = p
  BY SubSeqFull
<1> QED BY <1>2, <1>3, ConcatProperties, ListShape

\* The list of a first observation, up to the counter of candidates and whole.
LEMMA FirstLists ==
  ASSUME CountersTyped, NEW a, NEW more \in Seq(Quiet)
  PROVE  LET names == Coalesced(a) \o <<"unique_candidates">>
             full == names \o more
         IN
         /\ full \in Seq(Quiet \cup {"unique_candidates"})
         /\ full \in Seq(CounterNames)
         /\ Countable(names) => Countable(Coalesced(a))
         /\ Countable(names) => Counted(full)["unique_candidates"]
                                  = counters["unique_candidates"] + 1
         /\ ~Countable(names) => Counted(full)["unique_candidates"]
                                  = counters["unique_candidates"]
         /\ Countable(full) => Countable(names)
<1> DEFINE S == Quiet \cup {"unique_candidates"}
           one == <<"unique_candidates">>
           names == Coalesced(a) \o one
           full == names \o more
<1>0. S \subseteq CounterNames /\ "unique_candidates" \notin Quiet
      /\ "unique_candidates" \in CounterNames
  BY Names DEF Ledgered, Quiet
<1>1. Coalesced(a) \in Seq(Quiet) /\ Coalesced(a) \in Seq(S) /\ more \in Seq(S)
  BY CoalescedQuiet, SeqMonotonic
<1>2. one \in Seq(S) /\ Len(one) = 1 /\ one[1] = "unique_candidates"
  BY ShortLists
<1>3. Len(Coalesced(a)) = 2
  BY DEF Coalesced
<1>4. /\ names \in Seq(S) /\ Len(names) = 3 /\ names[3] = "unique_candidates"
      /\ \A i \in 1 .. 2 : names[i] = Coalesced(a)[i]
  <2> DEFINE p == Coalesced(a)
  <2>1. p \in Seq(S) /\ Len(p) > 0 /\ Len(p) = 2
    BY <1>1, <1>3
  <2> HIDE DEF S, one, p
  <2>2. /\ p \o one \in Seq(S)
        /\ Len(p \o one) = Len(p) + Len(one)
        /\ \A i \in 1 .. Len(p) + Len(one) :
             (p \o one)[i] = IF i <= Len(p) THEN p[i] ELSE one[i - Len(p)]
    BY <1>2, <2>1, Joined
  <2>3. names = p \o one
    BY DEF p
  <2> HIDE DEF names
  <2>4. \A i \in 1 .. 2 : names[i] = p[i]
    BY <1>2, <2>1, <2>2, <2>3
  <2>5. names[3] = "unique_candidates"
    BY <1>2, <2>1, <2>2, <2>3
  <2> QED BY <1>2, <2>1, <2>2, <2>3, <2>4, <2>5 DEF p
<1> HIDE DEF names, S
<1>5. /\ full \in Seq(S) /\ Len(full) = 3 + Len(more) /\ Len(more) \in Nat
      /\ \A i \in 1 .. 3 + Len(more) : full[i] = IF i <= 3 THEN names[i] ELSE more[i - 3]
      /\ SubSeq(full, 1, 3) = names
  <2>0. names \in Seq(S) /\ more \in Seq(S) /\ Len(names) > 0
    BY <1>1, <1>4
  <2>1. /\ names \o more \in Seq(S)
        /\ Len(more) \in Nat
        /\ Len(names \o more) = Len(names) + Len(more)
        /\ \A i \in 1 .. Len(names) + Len(more) :
             (names \o more)[i] = IF i <= Len(names) THEN names[i] ELSE more[i - Len(names)]
        /\ SubSeq(names \o more, 1, Len(names)) = names
    BY <2>0, Joined
  <2> QED BY <1>4, <2>1
<1> HIDE DEF full
<1>7. \A i \in DOMAIN full : full[i] = "unique_candidates" => i = 3
  <2> SUFFICES ASSUME NEW i \in 1 .. 3 + Len(more), i # 3, full[i] = "unique_candidates"
               PROVE  FALSE
    BY <1>5, ListShape
  <2>1. CASE i < 3
    <3>1. i \in DOMAIN Coalesced(a) /\ full[i] = Coalesced(a)[i]
      BY <2>1, <1>1, <1>3, <1>4, <1>5, ListShape
    <3>2. Coalesced(a)[i] \in Quiet
      BY <3>1, <1>1, ListShape
    <3> QED BY <3>1, <3>2, <1>0
  <2>2. CASE i > 3
    <3>1. i - 3 \in DOMAIN more /\ full[i] = more[i - 3]
      BY <2>2, <1>5, ListShape
    <3>2. more[i - 3] \in Quiet
      BY <3>1, ListShape
    <3> QED BY <3>1, <3>2, <1>0
  <2> QED BY <2>1, <2>2, <1>5
<1>8. 3 \in DOMAIN full /\ full[3] = "unique_candidates"
  BY <1>4, <1>5, ListShape
<1>9. Countable(names) => Countable(Coalesced(a))
  <2>1. DOMAIN names = 1 .. 3 /\ DOMAIN Coalesced(a) = 1 .. 2
    BY <1>1, <1>3, <1>4, ListShape
  <2> QED BY <2>1, <1>4 DEF Countable
<1>10. Countable(full) => Countable(names)
  BY <1>5, <1>8, CountableBeginning
<1>11. /\ Countable(names) => Counted(full)["unique_candidates"]
                               = counters["unique_candidates"] + 1
       /\ ~Countable(names) => Counted(full)["unique_candidates"]
                                = counters["unique_candidates"]
  BY <1>0, <1>5, <1>7, <1>8 DEF Counted
<1>12. full \in Seq(CounterNames)
  BY <1>0, <1>5, SeqMonotonic
<1> QED BY <1>5, <1>9, <1>10, <1>11, <1>12 DEF S, names, full

LEMMA LimitNat ==
  ASSUME WorkTyped
  PROVE  Limit \in Nat
<1>1. budgets \in BudgetType
  BY WorklistAssumption DEF WorkTyped
<1> QED BY <1>1 DEF Limit, BudgetType, NoLimit

\* A first observation takes a record exactly when it counts a candidate, and
\* counts one only while the limit leaves one.
LEMMA FirstStep ==
  ASSUME WorkTyped, LedgersHold, ~Exhausted, NEW a \in Assessments, ObserveFirst(a), See(a),
         UNCHANGED <<budgets, ledger, generation>>
  PROVE  WorkTyped' /\ LedgersHold' /\ Kept
<1> DEFINE refused == Countable(Coalesced(a)) /\ counters["unique_candidates"] >= Limit
           names == Coalesced(a) \o <<"unique_candidates">>
           work == [pending |-> a.kind = "new", processed |-> a.kind # "new",
                    promoted |-> FALSE, at |-> generation, assessed |-> NoGeneration]
           more == OnlyIf(a.kind = "rejected", <<"rejected_candidates", "terminal_resolutions">>)
<1>0. seen' \subseteq Targets \X Sites /\ a.target \in Targets /\ a.target \notin DOMAIN items
  BY SeenTyped DEF Assessments, ObserveFirst
<1>1. CASE refused
  <2>1. /\ counters' = Counted(Coalesced(a))
        /\ exhaustion' \in {"UniqueCandidates", "StructuralCandidateUniverse"}
        /\ overflowing' = {a.target}
        /\ items' = items /\ round' = round
    BY <1>1 DEF ObserveFirst
  <2>2. CountersTyped' /\ \A c \in Ledgered : counters'[c] = counters[c]
    BY <2>1, CountQuiet, CoalescedQuiet DEF WorkTyped, CountersTyped
  <2>3. Neutral
    BY <1>0, <2>1, <2>2 DEF Neutral, WorkTyped, Exhausted, Dimensions
  <2> QED BY <2>3, NeutralKeeps
<1>2. CASE ~refused
  <2>0. more \in Seq(Quiet)
    BY Names, Lists, ShortLists
  <2> HIDE DEF more
  <2>1. /\ Count(names \o more)
        /\ items' = IF Countable(names)
                    THEN [t \in DOMAIN items \cup {a.target} |->
                            IF t = a.target THEN work ELSE items[t]]
                    ELSE items
        /\ round' \in {round, Productive}
        /\ overflowing' = overflowing
    BY <1>2 DEF ObserveFirst, more
  <2>2. /\ names \o more \in Seq(Quiet \cup {"unique_candidates"})
        /\ names \o more \in Seq(CounterNames)
        /\ Countable(names) => Countable(Coalesced(a))
        /\ Countable(names) => Counted(names \o more)["unique_candidates"]
                                 = counters["unique_candidates"] + 1
        /\ ~Countable(names) => Counted(names \o more)["unique_candidates"]
                                 = counters["unique_candidates"]
    BY <2>0, FirstLists DEF WorkTyped
  <2> HIDE DEF names
  <2>3. CountersTyped' /\ \A c \in Ledgered \ {"unique_candidates"} : counters'[c] = counters[c]
    <3>1. counters' = Counted(names \o more)
      BY <2>1 DEF Count
    <3>2. \A c \in Ledgered \ {"unique_candidates"} :
            c \in CounterNames /\ c \notin Quiet \cup {"unique_candidates"}
      BY Names
    <3> QED BY <3>1, <3>2, <2>2, CountedTyped, CountedElsewhere DEF WorkTyped, CountersTyped
  <2>4. /\ exhaustion' \in Dimensions
        /\ exhaustion' \in {exhaustion, "CounterOverflow"}
    BY <2>1, CountExhaustion
  <2>5. CASE ~Countable(names)
    <3>1. items' = items /\ counters'["unique_candidates"] = counters["unique_candidates"]
      BY <2>1, <2>2, <2>5 DEF Count
    <3>2. Neutral
      BY <1>0, <2>1, <2>3, <2>4, <3>1, ProductiveRound DEF Neutral, WorkTyped, Exhausted
    <3> QED BY <3>2, NeutralKeeps
  <2>6. CASE Countable(names)
    <3>1. counters'["unique_candidates"] = counters["unique_candidates"] + 1
      BY <2>1, <2>2, <2>6 DEF Count
    <3>2. DOMAIN items' = DOMAIN items \cup {a.target} /\ items' \in [DOMAIN items' -> WorkItem]
      <4>1. work \in WorkItem
        BY MaxPositive DEF WorkItem, WorkTyped
      <4>2. items' = [t \in DOMAIN items \cup {a.target} |->
                        IF t = a.target THEN work ELSE items[t]]
        BY <2>1, <2>6
      <4> HIDE DEF work
      <4> QED BY <4>1, <4>2 DEF WorkTyped
    <3>3. /\ IsFiniteSet(DOMAIN items')
          /\ Cardinality(DOMAIN items') = Cardinality(DOMAIN items) + 1
      BY <1>0, <3>2, FS_AddElement DEF WorkTyped
    <3>4. counters["unique_candidates"] < Limit
      <4>1. counters["unique_candidates"] \in Nat
        BY MaxPositive, Names DEF WorkTyped, CountersTyped, CounterNames
      <4> QED BY <4>1, <1>2, <2>2, <2>6, LimitNat
    <3>5. WorkTyped'
      BY <1>0, <2>1, <2>3, <2>4, <3>2, <3>3, ProductiveRound DEF WorkTyped
    <3>6. LedgersHold'
      <4>1. \A c \in {"candidate_assessments", "first_candidate_assessments",
                      "generation_reassessments", "successful_promotions", "map_rebuilds",
                      "rebuilds_avoided"} : counters'[c] = counters[c]
        BY <2>3 DEF Ledgered
      <4>2. Limit' = Limit
        BY DEF Limit
      <4>3. counters["unique_candidates"] + 1 <= Limit
        <5>1. counters["unique_candidates"] \in Nat
          BY MaxPositive DEF WorkTyped, CountersTyped, CounterNames
        <5> QED BY <5>1, <3>4, LimitNat
      <4> QED BY <2>4, <3>1, <3>3, <4>1, <4>2, <4>3 DEF LedgersHold, Exhausted
    <3>7. Kept
      BY <2>3 DEF Kept, Ledgered
    <3> QED BY <3>5, <3>6, <3>7
  <2> QED BY <2>5, <2>6
<1> QED BY <1>1, <1>2

\* observe
LEMMA ObserveStep ==
  ASSUME WorkTyped, LedgersHold, NEW a \in Assessments, Observe(a)
  PROVE  QuietWork
<1>1. CASE Exhausted
  <2>1. UNCHANGED worklist
    BY <1>1 DEF Observe
  <2> QED BY <2>1, NothingHappens
<1>2. CASE ~Exhausted
  <2>1. /\ \/ ObserveExisting(a)
           \/ ObserveIneligible(a)
           \/ ObserveFirst(a)
           \/ ObserveNewAgain(a)
           \/ ObserveRejectedAgain(a)
        /\ See(a)
        /\ UNCHANGED <<budgets, ledger, generation>>
    BY <1>2 DEF Observe
  <2>2. WorkTyped' /\ LedgersHold' /\ Kept
    BY <1>2, <2>1, ExistingStep, IneligibleStep, FirstStep, NewAgainStep, RejectedAgainStep
  <2> QED BY <1>2, <2>2 DEF QuietWork, WorkStep, Stands
<1> QED BY <1>1, <1>2

-----------------------------------------------------------------------------
(* The other operations. *)

\* A step that leaves the records alone and counts only quiet counters.
LEMMA NeutralStands ==
  ASSUME WorkTyped, LedgersHold, items' = items, generation' = generation,
         exhaustion' \in {exhaustion, "CounterOverflow"} \/ ~Exhausted,
         exhaustion = "CounterOverflow" => exhaustion' = "CounterOverflow",
         CountersTyped', \A c \in Ledgered : counters'[c] = counters[c],
         exhaustion' \in Dimensions, round' \in {"idle", "active", "productive"},
         UNCHANGED <<budgets, seen, ledger, overflowing>>
  PROVE  QuietWork
<1>1. Neutral
  BY DEF Neutral, WorkTyped
<1>2. Stands
  BY DEF Stands
<1> QED BY <1>1, <1>2, NeutralKeeps DEF QuietWork, WorkStep

LEMMA BeginRoundStep ==
  ASSUME WorkTyped, LedgersHold, BeginRound
  PROVE  QuietWork
<1> DEFINE names == <<"total_execution_attempts">>
<1>1. names \in Seq(Quiet)
  BY Names, ShortLists
<1> HIDE DEF names
<1>2. \/ UNCHANGED <<counters, exhaustion>>
      \/ Count(names)
  BY DEF BeginRound, names
<1>3. CountersTyped' /\ \A c \in Ledgered : counters'[c] = counters[c]
  BY <1>1, <1>2, CountQuiet DEF Count, WorkTyped, CountersTyped
<1>4. /\ exhaustion' \in {exhaustion, "CounterOverflow"}
      /\ exhaustion' \in Dimensions
      /\ exhaustion = "CounterOverflow" => exhaustion' = "CounterOverflow"
  BY <1>2, CountExhaustion DEF WorkTyped
<1>5. /\ UNCHANGED <<budgets, items, seen, ledger, overflowing, generation>>
      /\ round' \in {"idle", "active", "productive"}
  BY DEF BeginRound, WorkTyped
<1> QED BY <1>3, <1>4, <1>5, NeutralStands

LEMMA EndRoundStep ==
  ASSUME WorkTyped, LedgersHold, EndRound
  PROVE  QuietWork
<1>1. <<"productive_rounds">> \in Seq(Quiet) /\ <<"stagnant_rounds">> \in Seq(Quiet)
      /\ "stagnant_rounds" \notin Ledgered
  BY Names, ShortLists
<1>2. UNCHANGED <<budgets, items, seen, ledger, overflowing, generation>> /\ round' = "idle"
  BY DEF EndRound
<1>3. CASE EndProductiveRound
  <2>1. /\ \/ counters' = counters
           \/ counters' = [Counted(<<"productive_rounds">>) EXCEPT !["stagnant_rounds"] = 0]
        /\ exhaustion' \in {exhaustion, "CounterOverflow"}
        /\ exhaustion = "CounterOverflow" => exhaustion' = "CounterOverflow"
    BY <1>3 DEF EndProductiveRound
  <2>2. CountersTyped' /\ \A c \in Ledgered : counters'[c] = counters[c]
    <3> DEFINE new == Counted(<<"productive_rounds">>)
    <3>1. new \in [CounterNames -> 0..CounterMax] /\ \A c \in Ledgered : new[c] = counters[c]
      BY <1>1, CountQuiet DEF WorkTyped
    <3>2. counters' = counters \/ counters' = [new EXCEPT !["stagnant_rounds"] = 0]
      BY <2>1
    <3>3. 0 \in 0..CounterMax /\ Ledgered \subseteq CounterNames
      BY MaxPositive, Names
    <3> HIDE DEF new
    <3> QED BY <1>1, <3>1, <3>2, <3>3 DEF WorkTyped, CountersTyped
  <2>3. exhaustion' \in Dimensions
    BY <2>1 DEF WorkTyped, Dimensions
  <2> QED BY <1>2, <2>1, <2>2, <2>3, NeutralStands
<1>4. CASE EndStagnantRound
  <2>1. counters' = Counted(<<"stagnant_rounds">>)
    BY <1>4 DEF EndStagnantRound, Count
  <2>2. CountersTyped' /\ \A c \in Ledgered : counters'[c] = counters[c]
    BY <1>1, <2>1, CountQuiet DEF WorkTyped, CountersTyped
  <2>3. /\ exhaustion' \in {exhaustion, "CounterOverflow"} \/ ~Exhausted
        /\ exhaustion' \in Dimensions
        /\ exhaustion = "CounterOverflow" => exhaustion' = "CounterOverflow"
    BY <1>4, CountExhaustion DEF EndStagnantRound, Exhaust, Exhausted, WorkTyped, Dimensions
  <2> QED BY <1>2, <2>2, <2>3, NeutralStands
<1>5. CASE UNCHANGED <<counters, exhaustion>>
  <2>1. CountersTyped' /\ \A c \in Ledgered : counters'[c] = counters[c]
    BY <1>5 DEF WorkTyped, CountersTyped
  <2> QED BY <1>2, <1>5, <2>1, NeutralStands DEF WorkTyped
<1> QED BY <1>3, <1>4, <1>5 DEF EndRound

\* Reporting a limit changes nothing but the exhaustion.
LEMMA ReportStep ==
  ASSUME WorkTyped, LedgersHold,
         UNCHANGED <<budgets, items, seen, counters, ledger, overflowing, generation, round>>,
         exhaustion' = exhaustion \/ (~Exhausted /\ exhaustion' \in Dimensions)
  PROVE  QuietWork
<1>1. CountersTyped' /\ \A c \in Ledgered : counters'[c] = counters[c]
  BY DEF WorkTyped, CountersTyped
<1>2. exhaustion = "CounterOverflow" => exhaustion' = "CounterOverflow"
  BY DEF Exhausted
<1> QED BY <1>1, <1>2, NeutralStands DEF WorkTyped

LEMMA ObstacleTyped ==
  ASSUME NEW work
  PROVE  PromotionObstacle \in Dimensions /\ CommitObstacle(work) \in Dimensions
  BY DEF PromotionObstacle, CommitObstacle, Dimensions

LEMMA CanPromoteStep ==
  ASSUME WorkTyped, LedgersHold, CanPromote
  PROVE  QuietWork
  BY ReportStep, ObstacleTyped DEF CanPromote, Exhaust

LEMMA CanCommitBatchStep ==
  ASSUME WorkTyped, LedgersHold, NEW batch, NEW work, CanCommitBatch(batch, work)
  PROVE  QuietWork
  BY ReportStep, ObstacleTyped DEF CanCommitBatch, ReportObstacle

LEMMA RollbackStep ==
  ASSUME WorkTyped, LedgersHold,
         counters' = Counted(<<"rollback_assessments">>),
         exhaustion' = "CounterOverflow" \/ exhaustion' = exhaustion
           \/ (~Exhausted /\ exhaustion' \in Dimensions),
         UNCHANGED <<budgets, items, seen, ledger, overflowing, generation, round>>
  PROVE  QuietWork
<1>1. <<"rollback_assessments">> \in Seq(Quiet)
  BY Names, ShortLists
<1>2. CountersTyped' /\ \A c \in Ledgered : counters'[c] = counters[c]
  BY <1>1, CountQuiet DEF WorkTyped, CountersTyped
<1>3. /\ exhaustion' \in {exhaustion, "CounterOverflow"} \/ ~Exhausted
      /\ exhaustion' \in Dimensions
      /\ exhaustion = "CounterOverflow" => exhaustion' = "CounterOverflow"
  BY DEF WorkTyped, Dimensions, Exhausted
<1> QED BY <1>2, <1>3, NeutralStands DEF WorkTyped

\* Resolving a candidate or counting a failure of one.
LEMMA ResolveStep ==
  ASSUME WorkTyped, LedgersHold, NEW t, NEW names \in Seq(Quiet), Count(names),
         items' = items \/ (t \in DOMAIN items /\ items' = [items EXCEPT ![t] = Resolved(@)]),
         round' \in {round, Productive},
         UNCHANGED <<budgets, seen, ledger, overflowing, generation>>
  PROVE  QuietWork
<1>1. WorkTyped' /\ LedgersHold' /\ Kept
  BY QuietStep, ProductiveRound DEF WorkTyped
<1>2. Stands
  BY ResolvedRecord, CountExhaustion DEF Stands
<1> QED BY <1>1, <1>2 DEF QuietWork, WorkStep

LEMMA RecordTerminalStep ==
  ASSUME WorkTyped, LedgersHold, NEW t, RecordTerminalCandidate(t)
  PROVE  QuietWork
<1>1. CASE t \notin DOMAIN items
  <2>1. UNCHANGED worklist
    BY <1>1 DEF RecordTerminalCandidate, worklist
  <2> QED BY <2>1, NothingHappens
<1>2. CASE t \in DOMAIN items
  <2> DEFINE open == Unresolved(items[t])
             names == OnlyIf(open, <<"terminal_resolutions">>)
  <2>1. names \in Seq(Quiet)
    <3>1. <<"terminal_resolutions">> \in Seq(Quiet) /\ open \in BOOLEAN
      BY <1>2, Names, ShortLists DEF Unresolved, WorkTyped, WorkItem
    <3> QED BY <3>1, Lists
  <2> HIDE DEF names
  <2>2. /\ Count(names)
        /\ items' = items \/ items' = [items EXCEPT ![t] = Resolved(@)]
        /\ round' \in {round, Productive}
        /\ UNCHANGED <<budgets, seen, ledger, overflowing, generation>>
    BY <1>2 DEF RecordTerminalCandidate, names
  <2> QED BY <1>2, <2>1, <2>2, ResolveStep
<1> QED BY <1>1, <1>2

LEMMA RecordFailedStep ==
  ASSUME WorkTyped, LedgersHold, NEW t, RecordFailedRefinement(t)
  PROVE  QuietWork
<1>1. CASE t \notin DOMAIN items
  <2>1. UNCHANGED worklist
    BY <1>1 DEF RecordFailedRefinement, worklist
  <2> QED BY <2>1, NothingHappens
<1>2. CASE t \in DOMAIN items
  <2> DEFINE names == <<"failed_refinements">>
  <2>1. names \in Seq(Quiet)
    BY Names, ShortLists
  <2> HIDE DEF names
  <2>2. /\ Count(names)
        /\ items' = items \/ items' = [items EXCEPT ![t] = Resolved(@)]
        /\ round' \in {round, Productive}
        /\ UNCHANGED <<budgets, seen, ledger, overflowing, generation>>
    BY <1>2 DEF RecordFailedRefinement, names
  <2> QED BY <1>2, <2>1, <2>2, ResolveStep
<1> QED BY <1>1, <1>2

-----------------------------------------------------------------------------
(* Assessment and promotion. *)

\* An assessment is counted once, as a first one or as one of a new generation.
LEMMA AssessmentCounted ==
  ASSUME WorkTyped, NEW t \in DOMAIN items
  PROVE  LET names == AssessmentCounts(t)
             new == Counted(names)
         IN /\ new \in [CounterNames -> 0..CounterMax]
            /\ \A c \in {"unique_candidates", "successful_promotions", "map_rebuilds",
                         "rebuilds_avoided", "batch_candidates", "singleton_batches"} :
                 new[c] = counters[c]
            /\ Countable(names) =>
                 /\ new["candidate_assessments"] = counters["candidate_assessments"] + 1
                 /\ new["first_candidate_assessments"] + new["generation_reassessments"]
                      = counters["first_candidate_assessments"]
                          + counters["generation_reassessments"] + 1
            /\ new["candidate_assessments"]
                 \in {counters["candidate_assessments"], counters["candidate_assessments"] + 1}
<1> DEFINE T == {"candidate_assessments", "first_candidate_assessments",
                 "generation_reassessments"}
           names == AssessmentCounts(t)
           second == IF items[t].assessed = NoGeneration THEN "first_candidate_assessments"
                     ELSE "generation_reassessments"
           other == IF items[t].assessed = NoGeneration THEN "generation_reassessments"
                    ELSE "first_candidate_assessments"
<1>1. names = <<"candidate_assessments", second>>
  BY DEF AssessmentCounts
<1>2. T \subseteq CounterNames /\ second \in T
  BY DEF CounterNames
<1>3. names \in Seq(T) /\ names \in Seq(CounterNames) /\ names \in Seq(T \ {other})
  <2>1. "candidate_assessments" \in T \ {other} /\ second \in T \ {other}
    OBVIOUS
  <2> HIDE DEF second, other
  <2> QED BY <1>1, <1>2, <2>1, ShortLists
<1>4. DOMAIN names = 1 .. 2 /\ names[1] = "candidate_assessments" /\ names[2] = second
  BY <1>1
<1> HIDE DEF names
<1>5. Counted(names) \in [CounterNames -> 0..CounterMax]
  BY <1>3, CountedTyped DEF WorkTyped
<1>6. \A c \in {"unique_candidates", "successful_promotions", "map_rebuilds",
                "rebuilds_avoided", "batch_candidates", "singleton_batches"} :
        Counted(names)[c] = counters[c]
  <2>1. \A c \in {"unique_candidates", "successful_promotions", "map_rebuilds",
                  "rebuilds_avoided", "batch_candidates", "singleton_batches"} :
          c \in CounterNames /\ c \notin T
    BY DEF CounterNames
  <2> QED BY <1>3, <2>1, CountedElsewhere
<1>7. Counted(names)[other] = counters[other]
  <2>1. other \in CounterNames /\ other \notin T \ {other}
    BY DEF CounterNames
  <2> QED BY <1>3, <2>1, CountedElsewhere
<1>8. Countable(names) => /\ Counted(names)["candidate_assessments"]
                               = counters["candidate_assessments"] + 1
                          /\ Counted(names)[second] = counters[second] + 1
  BY <1>2, <1>3, <1>4, CountedHere
<1>9. Countable(names) => Counted(names)["first_candidate_assessments"]
                            + Counted(names)["generation_reassessments"]
                          = counters["first_candidate_assessments"]
                              + counters["generation_reassessments"] + 1
  <2>1. /\ counters["first_candidate_assessments"] \in Nat
        /\ counters["generation_reassessments"] \in Nat
    BY <1>2, MaxPositive DEF WorkTyped, CountersTyped
  <2> QED BY <1>7, <1>8, <2>1
<1>10. Counted(names)["candidate_assessments"]
         \in {counters["candidate_assessments"], counters["candidate_assessments"] + 1}
  BY <1>2 DEF Counted
<1> QED BY <1>5, <1>6, <1>8, <1>9, <1>10 DEF names

\* A granted assessment notes the generation in the record, and nothing else.
LEMMA AssessedRecord ==
  ASSUME WorkTyped, NEW t \in DOMAIN items
  PROVE  LET new == [items EXCEPT ![t].assessed = generation]
         IN /\ new \in [DOMAIN items -> WorkItem]
            /\ DOMAIN new = DOMAIN items
            /\ \A u \in DOMAIN items : u # t => new[u] = items[u]
            /\ new[t].assessed = generation
            /\ new[t].pending = items[t].pending
            /\ new[t].processed = items[t].processed
            /\ new[t].at = items[t].at
            /\ new[t].promoted = items[t].promoted
<1>1. items[t] \in WorkItem /\ generation \in Nat
  BY MaxPositive DEF WorkTyped
<1> DEFINE w == [items[t] EXCEPT !.assessed = generation]
<1>2. w \in WorkItem /\ w.assessed = generation /\ w.pending = items[t].pending
      /\ w.processed = items[t].processed /\ w.at = items[t].at
      /\ w.promoted = items[t].promoted
  BY <1>1 DEF WorkItem
<1>3. [items EXCEPT ![t].assessed = generation] = [items EXCEPT ![t] = w]
  BY DEF WorkTyped
<1> HIDE DEF w
<1> QED BY <1>2, <1>3 DEF WorkTyped

LEMMA BeginAssessmentStep ==
  ASSUME WorkTyped, LedgersHold, NEW t, BeginCandidateAssessment(t)
  PROVE  QuietWork
<1>0. UNCHANGED <<budgets, seen, ledger, overflowing, generation, round>>
  BY DEF BeginCandidateAssessment
<1>1. CASE Exhausted \/ t \notin DOMAIN items \/ ~items[t].pending
  <2>1. ~AssessmentGranted(t)
    BY <1>1 DEF AssessmentGranted, PendingCandidates
  <2>2. UNCHANGED worklist
    BY <1>0, <1>1, <2>1 DEF BeginCandidateAssessment, worklist
  <2> QED BY <2>2, NothingHappens
<1>2. CASE ~(Exhausted \/ t \notin DOMAIN items \/ ~items[t].pending)
  <2>1. CASE items[t].assessed = generation
    <3>1. Count(<<"same_generation_assessment_attempts">>) /\ items' = items
      BY <1>2, <2>1 DEF BeginCandidateAssessment, AssessmentGranted, PendingCandidates
    <3>2. <<"same_generation_assessment_attempts">> \in Seq(Quiet)
      BY Names, ShortLists
    <3> QED BY <1>0, <3>1, <3>2, ResolveStep
  <2>2. CASE items[t].assessed # generation /\ AssessmentLimited
    <3>1. Exhaust("CandidateAssessments") /\ UNCHANGED counters /\ items' = items
      BY <1>2, <2>2 DEF BeginCandidateAssessment, AssessmentGranted
    <3>2. exhaustion' = exhaustion \/ (~Exhausted /\ exhaustion' \in Dimensions)
      BY <3>1 DEF Exhaust, Dimensions
    <3> QED BY <1>0, <3>1, <3>2, ReportStep
  <2>3. CASE items[t].assessed # generation /\ ~AssessmentLimited
    <3> DEFINE names == AssessmentCounts(t)
    <3>1. /\ Count(names)
          /\ items' = IF Countable(names) THEN [items EXCEPT ![t].assessed = generation]
                      ELSE items
      BY <1>2, <2>3 DEF BeginCandidateAssessment, AssessmentGranted, PendingCandidates
    <3>2. /\ CountersTyped'
          /\ \A c \in {"unique_candidates", "successful_promotions", "map_rebuilds",
                       "rebuilds_avoided", "batch_candidates", "singleton_batches"} :
               counters'[c] = counters[c]
          /\ Countable(names) =>
               /\ counters'["candidate_assessments"] = counters["candidate_assessments"] + 1
               /\ counters'["first_candidate_assessments"]
                    + counters'["generation_reassessments"]
                    = counters["first_candidate_assessments"]
                        + counters["generation_reassessments"] + 1
          /\ counters'["candidate_assessments"]
               \in {counters["candidate_assessments"], counters["candidate_assessments"] + 1}
      BY <1>2, <3>1, AssessmentCounted DEF Count, CountersTyped
    <3>3. /\ exhaustion' = IF Countable(names) THEN exhaustion ELSE "CounterOverflow"
          /\ exhaustion' \in Dimensions
      BY <3>1, CountExhaustion DEF Count
    <3> HIDE DEF names
    <3>4. items' \in [DOMAIN items -> WorkItem] /\ DOMAIN items' = DOMAIN items
      BY <1>2, <3>1, AssessedRecord DEF WorkTyped
    <3>5. WorkTyped'
      BY <1>0, <3>2, <3>3, <3>4 DEF WorkTyped
    <3>6. LedgersHold'
      <4>1. Limit' = Limit
        BY <1>0 DEF Limit
      <4>2. budgets.assessments # NoLimit =>
              counters'["candidate_assessments"] <= budgets.assessments
        <5>1. /\ budgets.assessments \in Nat \cup {NoLimit}
              /\ counters["candidate_assessments"] \in Nat
          BY WorklistAssumption DEF WorkTyped, BudgetType, CountersTyped, CounterNames
        <5> QED BY <2>3, <3>2, <5>1 DEF AssessmentLimited
      <4>3. exhaustion' # "CounterOverflow" =>
              counters'["candidate_assessments"]
                = counters'["first_candidate_assessments"]
                    + counters'["generation_reassessments"]
        <5>1. SUFFICES ASSUME Countable(names) PROVE
              counters'["candidate_assessments"]
                = counters'["first_candidate_assessments"]
                    + counters'["generation_reassessments"]
          BY <3>3
        <5>2. exhaustion # "CounterOverflow"
          BY <1>2 DEF Exhausted
        <5> QED BY <3>2, <5>1, <5>2 DEF LedgersHold
      <4> QED BY <1>0, <3>2, <3>4, <4>1, <4>2, <4>3 DEF LedgersHold
    <3>7. Stands
      BY <1>2 DEF Stands
    <3>8. Kept
      BY <1>0, <3>2 DEF Kept
    <3> QED BY <3>5, <3>6, <3>7, <3>8 DEF QuietWork, WorkStep
  <2> QED BY <2>1, <2>2, <2>3
<1> QED BY <1>1, <1>2

\* What a recorded batch does to the records.
LEMMA PromotedRecords ==
  ASSUME WorkTyped, NEW batch
  PROVE  LET new == [t \in DOMAIN items |->
                       IF t \in batch
                       THEN [items[t] EXCEPT !.pending = FALSE, !.processed = TRUE,
                                             !.promoted = TRUE]
                       ELSE items[t]]
         IN /\ new \in [DOMAIN items -> WorkItem]
            /\ DOMAIN new = DOMAIN items
            /\ \A t \in DOMAIN items \ batch : new[t] = items[t]
            /\ \A t \in DOMAIN items \cap batch :
                 /\ ~new[t].pending
                 /\ new[t].processed
                 /\ new[t].promoted
                 /\ new[t].at = items[t].at
                 /\ new[t].assessed = items[t].assessed
<1>1. \A t \in DOMAIN items : items[t] \in WorkItem
  BY DEF WorkTyped
<1> QED BY <1>1 DEF WorkItem

\* A batch is recorded whole, within every ledger, or not at all.
LEMMA RecordBatchStep ==
  ASSUME WorkTyped, LedgersHold, NEW batch, NEW work \in [Ledgers -> Nat],
         RecordBatchPromotion(batch, work)
  PROVE  WorkStep
<1> DEFINE n == Cardinality(batch)
           recorded == CommitGranted(batch, work) /\ ~BatchOverflows(n, work)
<1>0. UNCHANGED <<budgets, seen, overflowing>>
  BY DEF RecordBatchPromotion
<1>1. CASE ~recorded
  <2>1. UNCHANGED <<counters, ledger, items, generation, round>>
    BY <1>1 DEF RecordBatchPromotion
  <2>2. exhaustion' = exhaustion \/ (~Exhausted /\ exhaustion' \in Dimensions)
    BY ObstacleTyped DEF RecordBatchPromotion, CommitGranted, ReportObstacle, Dimensions
  <2> QED BY <1>0, <2>1, <2>2, ReportStep DEF QuietWork
<1>2. CASE recorded
  <2>1. /\ exhaustion' = exhaustion
        /\ counters' = [c \in CounterNames |-> counters[c] + BatchIncrease(n)[c]]
        /\ ledger' = [l \in Ledgers |-> ledger[l] + work[l]]
        /\ items' = [t \in DOMAIN items |->
                       IF t \in batch
                       THEN [items[t] EXCEPT !.pending = FALSE, !.processed = TRUE,
                                             !.promoted = TRUE]
                       ELSE items[t]]
        /\ generation' = generation + 1
        /\ round' = Productive
    BY <1>2 DEF RecordBatchPromotion
  <2>2. /\ ~Exhausted /\ batch # {} /\ batch \subseteq DOMAIN items
        /\ CommitObstacle(work) = "None"
        /\ budgets.legacy => n <= budgets.promotions - counters["successful_promotions"]
        /\ budgets.legacy => counters["map_rebuilds"] < budgets.rebuilds
    BY <1>2 DEF CommitGranted, Assessed
  <2>3. n \in Nat /\ n > 0
    <3>1. IsFiniteSet(batch)
      BY <2>2, FS_Subset DEF WorkTyped
    <3> QED BY <2>2, <3>1, FS_CardinalityType, FS_EmptySet
  <2>4. Fits(work)
    BY <2>2 DEF CommitObstacle
  <2>5. /\ \A c \in CounterNames : counters[c] + BatchIncrease(n)[c] <= CounterMax
        /\ generation # CounterMax
    <3>1. \A c \in CounterNames : BatchIncrease(n)[c] \in Nat /\ counters[c] \in Nat
      BY <2>3, MaxPositive DEF BatchIncrease, WorkTyped, CountersTyped
    <3>2. ~BatchOverflows(n, work)
      BY <1>2
    <3> HIDE DEF n
    <3> QED BY <3>1, <3>2, MaxPositive DEF BatchOverflows
  <2> HIDE DEF n
  <2>6. \A c \in CounterNames : counters'[c] = counters[c] + BatchIncrease(n)[c]
    BY <2>1
  <2>7. CountersTyped'
    <3>1. \A c \in CounterNames : BatchIncrease(n)[c] \in Nat /\ counters[c] \in Nat
      BY <2>3, MaxPositive DEF BatchIncrease, WorkTyped, CountersTyped
    <3>2. \A c \in CounterNames : counters[c] + BatchIncrease(n)[c] \in 0..CounterMax
      BY <2>5, <3>1, MaxPositive
    <3> QED BY <2>1, <3>2 DEF CountersTyped
  <2>8. /\ counters'["unique_candidates"] = counters["unique_candidates"]
        /\ counters'["candidate_assessments"] = counters["candidate_assessments"]
        /\ counters'["first_candidate_assessments"] = counters["first_candidate_assessments"]
        /\ counters'["generation_reassessments"] = counters["generation_reassessments"]
        /\ counters'["successful_promotions"] = counters["successful_promotions"] + n
        /\ counters'["map_rebuilds"] = counters["map_rebuilds"] + 1
        /\ counters'["rebuilds_avoided"] = counters["rebuilds_avoided"] + (n - 1)
    <3>1. /\ {"unique_candidates", "candidate_assessments", "first_candidate_assessments",
              "generation_reassessments", "successful_promotions", "map_rebuilds",
              "rebuilds_avoided"} \subseteq CounterNames
          /\ \A c \in CounterNames : counters[c] \in Nat
      BY MaxPositive DEF CounterNames, WorkTyped, CountersTyped
    <3> QED BY <2>6, <3>1 DEF BatchIncrease
  <2>9. items' \in [DOMAIN items -> WorkItem] /\ DOMAIN items' = DOMAIN items
    BY <2>1, PromotedRecords
  <2>10. ledger' \in [Ledgers -> Nat] /\ \A l \in Ledgers : ledger'[l] <= budgets.analysis[l]
    <3>1. \A l \in Ledgers : ledger[l] + work[l] \in Nat
      BY DEF WorkTyped
    <3>2. \A l \in Ledgers : ledger[l] + work[l] <= budgets.analysis[l]
      BY <2>4 DEF Fits
    <3> QED BY <2>1, <3>1, <3>2
  <2>11. WorkTyped'
    <3>1. generation' \in 0..CounterMax
      <4>1. generation \in 0..CounterMax /\ generation # CounterMax
        BY <2>5 DEF WorkTyped
      <4>2. generation' = generation + 1
        BY <2>1
      <4> QED BY <4>1, <4>2, MaxPositive
    <3>2. round' \in {"idle", "active", "productive"}
      BY <2>1, ProductiveRound
    <3> QED BY <1>0, <2>1, <2>7, <2>9, <2>10, <3>1, <3>2 DEF WorkTyped
  <2>12. LedgersHold'
    <3>1. Limit' = Limit
      BY <1>0 DEF Limit
    <3>2. /\ counters["successful_promotions"] \in Nat
          /\ counters["map_rebuilds"] \in Nat
          /\ counters["rebuilds_avoided"] \in Nat
          /\ generation \in Nat
      BY MaxPositive DEF WorkTyped, CountersTyped, CounterNames
    <3>3. budgets.promotions \in Nat /\ budgets.rebuilds \in Nat
      BY WorklistAssumption DEF WorkTyped, BudgetType
    <3>4. budgets.legacy => /\ counters'["successful_promotions"] <= budgets.promotions
                            /\ counters'["map_rebuilds"] <= budgets.rebuilds
      BY <2>2, <2>3, <2>8, <3>2, <3>3
    <3>5. /\ counters'["map_rebuilds"] = generation'
          /\ counters'["rebuilds_avoided"]
               = counters'["successful_promotions"] - counters'["map_rebuilds"]
      <4>1. /\ counters["map_rebuilds"] = generation
            /\ counters["rebuilds_avoided"]
                 = counters["successful_promotions"] - counters["map_rebuilds"]
        BY DEF LedgersHold
      <4>2. generation' = generation + 1
        BY <2>1
      <4>3. /\ counters'["successful_promotions"] = counters["successful_promotions"] + n
            /\ counters'["map_rebuilds"] = counters["map_rebuilds"] + 1
            /\ counters'["rebuilds_avoided"] = counters["rebuilds_avoided"] + (n - 1)
        BY <2>8
      <4> QED BY <2>3, <3>2, <4>1, <4>2, <4>3
    <3>6. /\ Cardinality(DOMAIN items') = counters'["unique_candidates"]
          /\ counters'["unique_candidates"] <= Limit
          /\ budgets.assessments # NoLimit =>
               counters'["candidate_assessments"] <= budgets.assessments
          /\ exhaustion' # "CounterOverflow" =>
               counters'["candidate_assessments"]
                 = counters'["first_candidate_assessments"]
                     + counters'["generation_reassessments"]
      BY <2>1, <2>8, <2>9 DEF LedgersHold
    <3> QED BY <1>0, <2>10, <3>1, <3>4, <3>5, <3>6 DEF LedgersHold
  <2>13. Stands
    BY <2>2 DEF Stands
  <2> QED BY <2>11, <2>12, <2>13 DEF WorkStep
<1> QED BY <1>1, <1>2

-----------------------------------------------------------------------------
(* Both clients: types, ledgers and exhaustion. *)

LoopTyped ==
  /\ client \in Clients
  /\ calls \in 0..MaxCalls
  /\ phase \in Phases
  /\ processMap \subseteq Targets
  /\ reported \in Seq(Assessments)
  /\ candidate \subseteq Targets
  /\ \A work \in rebuilt : work \in [Ledgers -> Nat]
  /\ ended \in Endings

\* The inductive invariant of both clients.
WorkInv == WorkTyped /\ LoopTyped /\ LedgersHold

LEMMA WorksTyped == Works \subseteq [Ledgers -> Nat]
  BY WorklistAssumption DEF Works

LEMMA InitialWork ==
  ASSUME Init
  PROVE  WorkInv
<1>1. WorkTyped
  <2>1. items \in [DOMAIN items -> WorkItem] /\ DOMAIN items = {}
    BY DEF Init, WorklistInit
  <2>2. IsFiniteSet(DOMAIN items)
    BY <2>1, FS_EmptySet
  <2>3. CountersTyped
    BY MaxPositive DEF Init, WorklistInit, CountersTyped
  <2> QED BY <2>1, <2>2, <2>3, MaxPositive DEF Init, WorklistInit, WorkTyped, Dimensions
<1>2. LoopTyped
  <2>1. reported \in Seq(Assessments)
    BY EmptySeq DEF Init
  <2> QED BY <2>1, ClientAssumption DEF Init, LoopTyped, Phases, Endings
<1>3. LedgersHold
  <2>1. Cardinality(DOMAIN items) = 0
    BY FS_EmptySet DEF Init, WorklistInit
  <2>2. \A c \in {"unique_candidates", "candidate_assessments", "first_candidate_assessments",
                  "generation_reassessments", "successful_promotions", "map_rebuilds",
                  "rebuilds_avoided"} : counters[c] = 0
    BY DEF Init, WorklistInit, CounterNames
  <2>3. budgets \in BudgetType
    BY WorklistAssumption DEF Init, WorklistInit
  <2>4. Limit \in Nat
    BY <1>1, LimitNat
  <2>5. /\ budgets.assessments # NoLimit => 0 <= budgets.assessments
        /\ budgets.promotions \in Nat /\ budgets.rebuilds \in Nat
        /\ \A l \in Ledgers : 0 <= budgets.analysis[l]
    BY <2>3 DEF BudgetType
  <2> QED BY <2>1, <2>2, <2>4, <2>5 DEF Init, WorklistInit, LedgersHold
<1> QED BY <1>1, <1>2, <1>3 DEF WorkInv

LEMMA LibraryStep ==
  ASSUME WorkInv, Library
  PROVE  WorkStep /\ LoopTyped'
<1>1. WorkStep
  <2>1. CASE \E a \in Assessments : Observe(a)
    BY <2>1, ObserveStep DEF WorkInv, QuietWork
  <2>2. CASE BeginRound \/ EndRound \/ CanPromote
    BY <2>2, BeginRoundStep, EndRoundStep, CanPromoteStep DEF WorkInv, QuietWork
  <2>3. CASE RecordRollbackAssessment
    BY <2>3, RollbackStep, CountExhaustion
       DEF WorkInv, QuietWork, RecordRollbackAssessment, Count
  <2>4. CASE \E t \in Targets : \/ BeginCandidateAssessment(t)
                                \/ RecordTerminalCandidate(t)
                                \/ RecordFailedRefinement(t)
    BY <2>4, BeginAssessmentStep, RecordTerminalStep, RecordFailedStep DEF WorkInv, QuietWork
  <2>5. CASE \E batch \in SUBSET Targets, work \in Works :
               \/ CanCommitBatch(batch, work)
               \/ RecordBatchPromotion(batch, work)
    BY <2>5, WorksTyped, CanCommitBatchStep, RecordBatchStep DEF WorkInv, QuietWork
  <2> QED BY <2>1, <2>2, <2>3, <2>4, <2>5 DEF Library
<1>2. LoopTyped'
  BY ClientAssumption DEF Library, loop, LoopTyped, WorkInv
<1> QED BY <1>1, <1>2

\* A loop step that leaves the worklist alone.
LEMMA LoopOnlyStep ==
  ASSUME WorkInv, UNCHANGED worklist
  PROVE  WorkStep
  BY NothingHappens DEF WorkInv, QuietWork

LEMMA LoopWorkStep ==
  ASSUME WorkInv, Loop
  PROVE  WorkStep
<1> USE DEF WorkInv, QuietWork
<1>1. CASE StartRound
  BY <1>1, BeginRoundStep DEF StartRound
<1>2. CASE \/ RunStopsAtUnknown \/ RunStops \/ RunIsBlocked \/ Fail \/ AllObserved
           \/ Build \/ Built
  BY <1>2, LoopOnlyStep
     DEF RunStopsAtUnknown, RunStops, RunIsBlocked, Fail, AllObserved, Build, Built
<1>3. CASE ObserveReported
  <2>1. Head(reported) \in Assessments
    BY <1>3, HeadTailProperties DEF ObserveReported, LoopTyped
  <2> QED BY <1>3, <2>1, ObserveStep DEF ObserveReported
<1>4. CASE BeginAssessment
  BY <1>4, BeginAssessmentStep DEF BeginAssessment
<1>5. CASE MayPromote
  BY <1>5, CanPromoteStep DEF MayPromote
<1>6. CASE Refuse
  BY <1>6, RecordFailedStep, RecordTerminalStep DEF Refuse
<1>7. CASE Commit
  BY <1>7, RecordBatchStep DEF Commit, LoopTyped
<1>8. CASE RollBack
  <2>1. exhaustion' = "CounterOverflow" \/ exhaustion' = exhaustion
           \/ (~Exhausted /\ exhaustion' \in Dimensions)
    BY <1>8, ObstacleTyped DEF RollBack, ReportObstacle
  <2> QED BY <1>8, <2>1, RollbackStep DEF RollBack
<1>9. CASE FinishRound
  BY <1>9, EndRoundStep DEF FinishRound
<1> QED BY <1>1, <1>2, <1>3, <1>4, <1>5, <1>6, <1>7, <1>8, <1>9 DEF Loop

LEMMA LoopTypeStep ==
  ASSUME WorkInv, Loop
  PROVE  LoopTyped'
<1> USE DEF LoopTyped, WorkInv, Phases, Endings
<1>0. calls' = calls
  BY DEF Loop
<1>1. CASE StartRound \/ RunStops \/ RunIsBlocked \/ Fail \/ AllObserved \/ MayPromote
           \/ Refuse \/ Build \/ RollBack \/ FinishRound
  BY <1>0, <1>1
     DEF StartRound, RunStops, RunIsBlocked, Fail, AllObserved, MayPromote, Refuse, Build,
         RollBack, FinishRound
<1>2. CASE RunStopsAtUnknown
  <2>1. PICK hit \in {<<>>} \cup {<<a>> : a \in Assessments}, b \in Assessments :
          reported' = Append(hit, b)
    BY <1>2 DEF RunStopsAtUnknown
  <2>2. hit \in Seq(Assessments)
    BY ShortLists, EmptySeq
  <2>3. reported' \in Seq(Assessments)
    BY <2>1, <2>2, AppendProperties
  <2> QED BY <1>0, <1>2, <2>3 DEF RunStopsAtUnknown
<1>3. CASE ObserveReported
  <2>1. reported' \in Seq(Assessments)
    BY <1>3, HeadTailProperties DEF ObserveReported
  <2> QED BY <1>0, <1>3, <2>1 DEF ObserveReported
<1>4. CASE BeginAssessment
  <2>1. candidate' \subseteq Targets
    BY <1>4 DEF BeginAssessment, PendingCandidates, WorkTyped
  <2> QED BY <1>0, <1>4, <2>1 DEF BeginAssessment
<1>5. CASE Built
  BY <1>0, <1>5, WorksTyped DEF Built
<1>6. CASE Commit
  BY <1>0, <1>6 DEF Commit
<1> QED BY <1>1, <1>2, <1>3, <1>4, <1>5, <1>6 DEF Loop

\* Every step keeps the invariant, and lets an exhausted worklist stand.
LEMMA EveryStep ==
  ASSUME WorkInv, [Next]_vars
  PROVE  WorkInv' /\ Stands
<1>1. CASE Library
  BY <1>1, LibraryStep DEF WorkInv, WorkStep
<1>2. CASE Loop
  BY <1>2, LoopWorkStep, LoopTypeStep DEF WorkInv, WorkStep
<1>3. CASE UNCHANGED vars
  <2>1. UNCHANGED worklist /\ UNCHANGED loop /\ UNCHANGED calls
    BY <1>3 DEF vars
  <2>2. LoopTyped'
    BY <2>1 DEF LoopTyped, WorkInv, loop
  <2> QED BY <2>1, <2>2, LoopOnlyStep DEF WorkInv, WorkStep
<1> QED BY <1>1, <1>2, <1>3 DEF Next

LEMMA Inductive == Spec => []WorkInv
<1>1. Init => WorkInv
  BY InitialWork
<1>2. WorkInv /\ [Next]_vars => WorkInv'
  BY EveryStep
<1> QED BY <1>1, <1>2, PTL DEF Spec

\* The worklist and both of its clients keep values of their types
\* (indirect_target.hpp and the locals of run-entry's loop).
THEOREM TypeCorrect == Spec => []TypeOK
<1>1. WorkInv => TypeOK
  BY WorklistAssumption DEF WorkInv, WorkTyped, LoopTyped, TypeOK, CountersTyped
<1> QED BY <1>1, Inductive, PTL

\* No order of calls, with batches of any width, spends more than the budgets
\* allow, and every ledger agrees with the records it accounts for
\* (can_commit_batch_refinement, record_batch_promotion, observe).
THEOREM LedgersAlwaysHold == Spec => []LedgersHold
<1>1. WorkInv => LedgersHold
  BY DEF WorkInv
<1> QED BY <1>1, Inductive, PTL

\* An exhausted worklist takes no candidate, assesses none and promotes none,
\* and only a full counter replaces the limit it reports (exhaust).
THEOREM ExhaustionFinal == Spec => ExhaustionStands
<1>1. WorkInv /\ [Next]_vars => [Stands]_vars
  BY EveryStep
<1>2. ExhaustionStands <=> [][Stands]_vars
  BY PTL DEF ExhaustionStands, Stands
<1> QED BY <1>1, <1>2, Inductive, PTL DEF Spec

-----------------------------------------------------------------------------
(* The driver loop: what it takes up it settles. *)

Waiting == {t \in DOMAIN items : items[t].pending}

Promoted == {t \in DOMAIN items : items[t].promoted}

\* A record that is not pending was promoted or resolved since it was assessed.
RecordInOrder(w) ==
  /\ w.pending => ~w.promoted
  /\ w.assessed <= generation
  /\ ~w.pending /\ w.assessed = generation => w.processed /\ w.at = generation

\* Maps, generations, records and counters tell one story.
Books ==
  /\ processMap = Promoted
  /\ Cardinality(processMap) = generation
  /\ \A t \in DOMAIN items : RecordInOrder(items[t])
  /\ overflowing # {} => Exhausted
  /\ counters["successful_promotions"] = generation
  /\ counters["batch_candidates"] = generation
  /\ counters["singleton_batches"] = generation

\* What is still to be observed: hits, and at most one candidate, the last.
ReportInOrder ==
  /\ \A i \in DOMAIN reported :
       reported[i].kind # "existing" => i = Len(reported) /\ reported[i].target \notin processMap
  /\ phase # "observe" => reported = <<>>

\* The one candidate the loop has taken up.
Held ==
  \E t \in DOMAIN items : candidate = {t} /\ Waiting = {t} /\ items[t].assessed = generation

\* At most one candidate waits, and not for this generation's assessment.
OneUnassessed ==
  /\ \A t, u \in Waiting : t = u
  /\ \A t \in Waiting : items[t].assessed # generation

\* What is pending at each place of the loop, unless a limit was met.
Place ==
  /\ phase # "library"
  /\ phase \in {"begin", "run", "end"} /\ ~Exhausted => Waiting = {}
  /\ phase = "observe" /\ ~Exhausted => OneUnassessed /\ (reported # <<>> => Waiting = {})
  /\ phase = "assess" /\ candidate = {} /\ ~Exhausted => OneUnassessed
  /\ phase = "assess" /\ candidate # {} => ~Exhausted /\ Held
  /\ phase \in {"judge", "build", "commit"} => ~Exhausted /\ Held
  /\ phase \in {"begin", "run", "observe"} => candidate = {}
  /\ phase = "begin" => round = "idle"

Verdict ==
  /\ ended # "None" => phase = "done"
  /\ ended = "Session" => ~Exhausted /\ Waiting = {}
  /\ ended = "IndirectTargetRefinementBudgetExceeded" => Exhausted

LoopInv == client = "run-entry" => Books /\ ReportInOrder /\ Place /\ Verdict

\* Exhaustion is never taken back.
LEMMA ExhaustedStays ==
  ASSUME Stands, Exhausted
  PROVE  Exhausted'
  BY DEF Stands, Exhausted

LEMMA BooksKept ==
  ASSUME Books, Kept, Stands, UNCHANGED <<items, overflowing, processMap>>
  PROVE  Books'
<1>1. Exhausted => Exhausted'
  BY ExhaustedStays
<1>2. generation' = generation /\ Promoted' = Promoted
  BY DEF Kept, Promoted
<1>3. (\A t \in DOMAIN items : RecordInOrder(items[t]))'
  BY <1>2 DEF Books, RecordInOrder
<1> QED BY <1>1, <1>2, <1>3 DEF Books, Kept

\* One observation, by the record it moves.
LEMMA ObserveMoves ==
  ASSUME WorkTyped, NEW a \in Assessments, Observe(a), ~Exhausted
  PROVE  /\ DOMAIN items \subseteq DOMAIN items'
         /\ DOMAIN items' \subseteq DOMAIN items \cup {a.target}
         /\ \A u \in DOMAIN items : u # a.target => items'[u] = items[u]
         /\ a.target \in DOMAIN items =>
              \/ items'[a.target] = items[a.target]
              \/ items'[a.target] = Resolved(items[a.target])
              \/ /\ a.kind # "existing"
                 /\ ~items[a.target].pending
                 /\ ~items[a.target].processed \/ items[a.target].at < generation
                 /\ items'[a.target] = [items[a.target] EXCEPT !.pending = TRUE]
         /\ a.target \notin DOMAIN items /\ a.target \in DOMAIN items' =>
              /\ a.kind # "existing"
              /\ ~items'[a.target].promoted
              /\ items'[a.target].assessed = NoGeneration
         /\ overflowing' = overflowing \/ exhaustion' # "None"
         /\ generation' = generation
<1> DEFINE t == a.target
<1>0. items \in [DOMAIN items -> WorkItem] /\ generation' = generation
  BY DEF WorkTyped, Observe
<1>1. CASE ObserveExisting(a) \/ ObserveIneligible(a) \/ ObserveRejectedAgain(a)
  <2>1. /\ items' = items \/ (t \in DOMAIN items /\ items' = [items EXCEPT ![t] = Resolved(@)])
        /\ overflowing' = overflowing
    BY <1>1 DEF ObserveExisting, ObserveIneligible, ObserveRejectedAgain
  <2> QED BY <1>0, <2>1
<1>2. CASE ObserveNewAgain(a)
  <2>1. /\ \/ items' = items
           \/ /\ ~items[t].pending
              /\ ~items[t].processed \/ items[t].at < generation
              /\ items' = [items EXCEPT ![t].pending = TRUE]
        /\ a.kind = "new" /\ t \in DOMAIN items
        /\ overflowing' = overflowing
    BY <1>2 DEF ObserveNewAgain
  <2> QED BY <1>0, <2>1
<1>3. CASE ObserveFirst(a)
  <2> DEFINE work == [pending |-> a.kind = "new", processed |-> a.kind # "new",
                      promoted |-> FALSE, at |-> generation, assessed |-> NoGeneration]
  <2>1. t \notin DOMAIN items /\ a.kind # "existing"
    BY <1>3 DEF ObserveFirst
  <2>2. \/ /\ items' = items
           /\ overflowing' = overflowing \/ exhaustion' # "None"
        \/ /\ items' = [u \in DOMAIN items \cup {t} |-> IF u = t THEN work ELSE items[u]]
           /\ overflowing' = overflowing
    BY <1>3 DEF ObserveFirst
  <2>3. ~work.promoted /\ work.assessed = NoGeneration
    OBVIOUS
  <2> HIDE DEF work
  <2> QED BY <1>0, <2>1, <2>2, <2>3
<1> QED BY <1>1, <1>2, <1>3 DEF Observe

\* Observing a hit or an unknown target leaves the books in order, and lets at
\* most that target wait.
LEMMA ObserveInOrder ==
  ASSUME WorkInv, Books, NEW a \in Assessments, Observe(a), ~Exhausted, processMap' = processMap,
         a.kind # "existing" => a.target \notin processMap
  PROVE  /\ Books'
         /\ a.kind = "existing" => Waiting' \subseteq Waiting
         /\ Waiting' \subseteq Waiting \cup {a.target}
         /\ \A t \in Waiting' \ Waiting : items'[t].assessed # generation'
<1> DEFINE t == a.target
<1>0. WorkTyped /\ LedgersHold /\ \A u \in DOMAIN items : items[u] \in WorkItem
  BY DEF WorkInv, WorkTyped
<1>1. WorkStep /\ Kept
  BY <1>0, ObserveStep DEF QuietWork
<1>2. /\ DOMAIN items \subseteq DOMAIN items'
      /\ DOMAIN items' \subseteq DOMAIN items \cup {t}
      /\ \A u \in DOMAIN items : u # t => items'[u] = items[u]
      /\ overflowing' = overflowing \/ exhaustion' # "None"
      /\ generation' = generation
  BY <1>0, ObserveMoves
<1>3. generation \in Nat /\ NoGeneration < generation
  BY <1>0, MaxPositive DEF WorkTyped, NoGeneration
<1>4. CASE t \in DOMAIN items
  <2> DEFINE w == items[t]
             new == items'[t]
  <2>1. w \in WorkItem /\ RecordInOrder(w) /\ (w.promoted <=> t \in processMap)
    BY <1>0, <1>4 DEF Books, Promoted
  <2>2. \/ new = w
        \/ new = Resolved(w)
        \/ /\ a.kind # "existing"
           /\ ~w.pending
           /\ ~w.processed \/ w.at < generation
           /\ new = [w EXCEPT !.pending = TRUE]
    BY <1>0, <1>4, ObserveMoves
  <2>3. /\ new.promoted = w.promoted
        /\ new.assessed = w.assessed
        /\ RecordInOrder(new)
        /\ new.pending => w.pending \/ (a.kind # "existing" /\ w.assessed # generation)
    <3>1. CASE new = w
      BY <2>1, <3>1
    <3>2. CASE new = Resolved(w)
      BY <2>1, <3>2 DEF Resolved, RecordInOrder, WorkItem
    <3>3. CASE /\ a.kind # "existing"
               /\ ~w.pending
               /\ ~w.processed \/ w.at < generation
               /\ new = [w EXCEPT !.pending = TRUE]
      <4>1. ~w.promoted
        BY <2>1, <3>3
      <4>2. /\ new.pending /\ new.promoted = w.promoted /\ new.assessed = w.assessed
            /\ new.processed = w.processed
        BY <2>1, <3>3 DEF WorkItem
      <4>3. w.assessed # generation
        BY <1>3, <2>1, <3>3 DEF RecordInOrder, WorkItem
      <4> QED BY <2>1, <3>3, <4>1, <4>2, <4>3 DEF RecordInOrder
    <3> QED BY <2>2, <3>1, <3>2, <3>3
  <2>4. DOMAIN items' = DOMAIN items
    BY <1>2, <1>4
  <2> HIDE DEF w, new
  <2>5. Promoted' = Promoted
    BY <1>2, <2>3, <2>4 DEF Promoted, w, new
  <2>6. (\A u \in DOMAIN items : RecordInOrder(items[u]))'
    BY <1>2, <2>3, <2>4 DEF RecordInOrder, Books, new
  <2>7. /\ a.kind = "existing" => Waiting' \subseteq Waiting
        /\ Waiting' \subseteq Waiting \cup {t}
        /\ \A u \in Waiting' \ Waiting : items'[u].assessed # generation'
    BY <1>2, <2>3, <2>4 DEF Waiting, w, new
  <2> QED BY <1>1, <1>2, <2>5, <2>6, <2>7 DEF Books, Kept, Exhausted
<1>5. CASE t \notin DOMAIN items /\ t \in DOMAIN items'
  <2>1. /\ a.kind # "existing"
        /\ ~items'[t].promoted
        /\ items'[t].assessed = NoGeneration
    BY <1>0, <1>5, ObserveMoves
  <2>2. Promoted' = Promoted
    BY <1>2, <1>5, <2>1 DEF Promoted
  <2>3. (\A u \in DOMAIN items : RecordInOrder(items[u]))'
    <3>1. \A u \in DOMAIN items' \ {t} : u \in DOMAIN items /\ items'[u] = items[u]
      BY <1>2
    <3>2. RecordInOrder(items'[t])
      BY <1>3, <2>1 DEF RecordInOrder, NoGeneration
    <3> QED BY <1>2, <3>1, <3>2 DEF RecordInOrder, Books
  <2>4. /\ Waiting' \subseteq Waiting \cup {t}
        /\ \A u \in Waiting' \ Waiting : items'[u].assessed # generation'
    BY <1>2, <1>3, <1>5, <2>1 DEF Waiting
  <2> QED BY <1>1, <1>2, <2>1, <2>2, <2>3, <2>4 DEF Books, Kept, Exhausted
<1>6. CASE t \notin DOMAIN items'
  <2>1. DOMAIN items' = DOMAIN items /\ \A u \in DOMAIN items : items'[u] = items[u]
    BY <1>2, <1>6
  <2>2. Promoted' = Promoted /\ Waiting' = Waiting
    BY <2>1 DEF Promoted, Waiting
  <2>3. (\A u \in DOMAIN items : RecordInOrder(items[u]))'
    BY <1>2, <2>1 DEF RecordInOrder, Books
  <2> QED BY <1>1, <1>2, <2>2, <2>3 DEF Books, Kept, Exhausted
<1> QED BY <1>4, <1>5, <1>6

-----------------------------------------------------------------------------
(* Each action of the loop keeps it in order. *)

LoopAll == WorkInv /\ client = "run-entry" /\ Books /\ ReportInOrder /\ Place /\ Verdict

InOrder == Books /\ ReportInOrder /\ Place /\ Verdict

\* What a step that leaves the records alone leaves alone.
LEMMA SameRecords ==
  ASSUME items' = items, generation' = generation
  PROVE  /\ Waiting' = Waiting
         /\ OneUnassessed' = OneUnassessed
  BY DEF Waiting, OneUnassessed

LEMMA StartRoundOrder ==
  ASSUME LoopAll, StartRound
  PROVE  InOrder'
<1>1. WorkTyped /\ LedgersHold
  BY DEF LoopAll, WorkInv
<1>2. WorkStep /\ Kept /\ Stands
  BY <1>1, BeginRoundStep DEF StartRound, QuietWork, WorkStep
<1>3. /\ UNCHANGED <<items, overflowing, processMap, reported, candidate>>
      /\ generation' = generation /\ phase = "begin"
  BY DEF StartRound, BeginRound
<1>4. Books'
  BY <1>2, <1>3, BooksKept DEF LoopAll
<1>5. ReportInOrder'
  BY <1>3 DEF LoopAll, ReportInOrder
<1>6. CASE RoundMayBegin
  <2>1. phase' = "run" /\ ended' = ended
    BY <1>6 DEF StartRound
  <2>2. ~Exhausted' => ~Exhausted
    BY <1>2, ExhaustedStays
  <2>3. Place'
    BY <1>3, <2>1, <2>2, SameRecords DEF LoopAll, Place
  <2>4. Verdict'
    BY <1>3, <2>1 DEF LoopAll, Verdict
  <2> QED BY <1>4, <1>5, <2>3, <2>4 DEF InOrder
<1>7. CASE ~RoundMayBegin
  <2>1. phase' = "done" /\ ended' = "IndirectTargetRefinementBudgetExceeded"
    BY <1>7 DEF StartRound
  <2>2. Exhausted'
    <3>1. CASE Exhausted
      BY <1>2, <3>1, ExhaustedStays
    <3>2. CASE ~Exhausted
      <4>1. round = "idle"
        BY <1>3 DEF LoopAll, Place
      <4>2. ~Countable(<<"total_execution_attempts">>)
        BY <1>7, <3>2, <4>1 DEF RoundMayBegin
      <4>3. exhaustion' = "CounterOverflow"
        BY <3>2, <4>1, <4>2 DEF StartRound, BeginRound, Count
      <4> QED BY <4>3 DEF Exhausted
    <3> QED BY <3>1, <3>2
  <2>3. Place' /\ Verdict'
    BY <2>1, <2>2 DEF Place, Verdict
  <2> QED BY <1>4, <1>5, <2>3 DEF InOrder
<1> QED BY <1>6, <1>7

\* A loop step that leaves the worklist and the map alone keeps the books.
LEMMA BooksAside ==
  ASSUME LoopAll, UNCHANGED <<worklist, processMap>>
  PROVE  /\ Books'
         /\ Exhausted' = Exhausted
         /\ Waiting' = Waiting
         /\ OneUnassessed' = OneUnassessed
         /\ generation' = generation
         /\ items' = items
         /\ round' = round
<1>1. UNCHANGED worklist
  OBVIOUS
<1>2. Kept /\ Stands
  BY <1>1, LoopOnlyStep, NothingHappens DEF LoopAll, WorkInv, WorkStep, QuietWork
<1>3. UNCHANGED <<items, overflowing, generation, exhaustion, round>>
  BY <1>1 DEF worklist
<1>4. Books'
  BY <1>2, <1>3, BooksKept DEF LoopAll
<1> QED BY <1>3, <1>4, SameRecords DEF Exhausted

LEMMA RunOrder ==
  ASSUME LoopAll, RunStopsAtUnknown \/ RunStops \/ RunIsBlocked \/ Fail
  PROVE  InOrder'
<1>1. UNCHANGED <<worklist, processMap, candidate>>
  BY DEF RunStopsAtUnknown, RunStops, RunIsBlocked, Fail
<1>2. /\ Books' /\ Exhausted' = Exhausted /\ Waiting' = Waiting
      /\ OneUnassessed' = OneUnassessed /\ items' = items
  BY <1>1, BooksAside
<1>3. CASE RunIsBlocked \/ Fail
  <2>1. reported' = reported /\ processMap' = processMap /\ phase' = "done"
        /\ phase \in {"run", "judge", "build"}
        /\ ended' \in {"GuestMemoryResourceLimitExceeded", "InfrastructureFailure"}
    BY <1>3 DEF RunIsBlocked, Fail
  <2>2. ReportInOrder' /\ Place' /\ Verdict'
    BY <2>1 DEF LoopAll, ReportInOrder, Place, Verdict
  <2> QED BY <1>2, <2>2 DEF InOrder
<1>4. CASE RunStopsAtUnknown \/ RunStops
  <2>1. phase = "run" /\ phase' = "observe" /\ ended' = ended
    BY <1>4 DEF RunStopsAtUnknown, RunStops
  <2>2. ended = "None"
    BY <2>1 DEF LoopAll, Verdict
  <2>3. Verdict'
    BY <2>1, <2>2 DEF Verdict
  <2>4. Place'
    <3>1. ~Exhausted => Waiting = {}
      BY <2>1 DEF LoopAll, Place
    <3>2. ~Exhausted => OneUnassessed
      BY <3>1 DEF OneUnassessed
    <3>3. candidate = {}
      BY <2>1 DEF LoopAll, Place
    <3> QED BY <1>1, <1>2, <2>1, <3>1, <3>2, <3>3 DEF Place
  <2>5. ReportInOrder'
    <3>1. CASE RunStops
      BY <3>1 DEF RunStops, LoopAll, ReportInOrder
    <3>2. CASE RunStopsAtUnknown
      <4>1. PICK hit \in {<<>>} \cup {<<h>> : h \in Assessments}, b \in Assessments :
              Met(hit, b) /\ reported' = Append(hit, b)
        BY <3>2 DEF RunStopsAtUnknown
      <4>2. hit \in Seq(Assessments)
        BY ShortLists, EmptySeq
      <4>3. /\ Len(reported') = Len(hit) + 1
            /\ DOMAIN reported' = 1 .. Len(hit) + 1
            /\ \A i \in 1 .. Len(hit) : reported'[i] = hit[i]
            /\ reported'[Len(hit) + 1] = b
        BY <4>1, <4>2, AppendProperties, ListShape
      <4>4. \A i \in 1 .. Len(hit) : hit[i].kind = "existing"
        BY <4>1, <4>2, ListShape DEF Met
      <4>5. b.target \notin processMap'
        BY <1>1, <4>1 DEF Met
      <4>6. Len(hit) \in Nat
        BY <4>2, ListShape
      <4>7. \A i \in 1 .. Len(hit) + 1 : i = Len(hit) + 1 \/ i \in 1 .. Len(hit)
        BY <4>6
      <4> QED BY <2>1, <4>3, <4>4, <4>5, <4>7 DEF ReportInOrder
    <3> QED BY <2>1, <1>4, <3>1, <3>2
  <2> QED BY <1>2, <2>3, <2>4, <2>5 DEF InOrder
<1> QED BY <1>3, <1>4

LEMMA ObserveReportedOrder ==
  ASSUME LoopAll, ObserveReported
  PROVE  InOrder'
<1> DEFINE a == Head(reported)
<1>1. /\ phase = "observe" /\ reported # <<>> /\ Observe(a)
      /\ reported' = Tail(reported)
      /\ UNCHANGED <<phase, processMap, candidate, ended>>
  BY DEF ObserveReported
<1>2. reported \in Seq(Assessments)
  BY DEF LoopAll, WorkInv, LoopTyped
<1>3. /\ a \in Assessments /\ a = reported[1] /\ 1 \in DOMAIN reported
      /\ reported' \in Seq(Assessments)
      /\ Len(reported') = Len(reported) - 1
      /\ \A i \in 1 .. Len(reported') : reported'[i] = reported[i + 1]
  BY <1>1, <1>2, HeadTailProperties, EmptySeq, ListShape
<1>4. Len(reported) \in Nat /\ DOMAIN reported = 1 .. Len(reported)
      /\ DOMAIN reported' = 1 .. Len(reported')
  BY <1>2, <1>3, ListShape
<1>5. a.kind # "existing" => a.target \notin processMap /\ Len(reported) = 1
  BY <1>3, <1>4 DEF LoopAll, ReportInOrder
<1>6. ReportInOrder'
  <2>1. \A i \in 1 .. Len(reported') : i + 1 \in 1 .. Len(reported)
          /\ reported'[i] = reported[i + 1]
          /\ (i + 1 = Len(reported) => i = Len(reported'))
    BY <1>3, <1>4
  <2>2. \A i \in 1 .. Len(reported) : reported[i].kind # "existing" =>
          i = Len(reported) /\ reported[i].target \notin processMap
    BY <1>4 DEF LoopAll, ReportInOrder
  <2>3. \A i \in 1 .. Len(reported') : reported'[i].kind # "existing" =>
          i = Len(reported') /\ reported'[i].target \notin processMap
    BY <2>1, <2>2
  <2>4. DOMAIN reported' = 1 .. Len(reported') /\ processMap' = processMap
    BY <1>1, <1>4
  <2> QED BY <1>1, <2>3, <2>4 DEF ReportInOrder
<1> HIDE DEF a
<1>7. CASE Exhausted
  <2>1. UNCHANGED worklist
    BY <1>1, <1>7 DEF Observe
  <2>2. Books' /\ Exhausted' = Exhausted
    BY <1>1, <2>1, BooksAside
  <2>3. round' = round
    BY <2>1 DEF worklist
  <2>4. Place' /\ Verdict'
    BY <1>1, <1>7, <2>2, <2>3 DEF LoopAll, Place, Verdict
  <2> QED BY <1>6, <2>2, <2>4 DEF InOrder
<1>8. CASE ~Exhausted
  <2>1. /\ Books'
        /\ a.kind = "existing" => Waiting' \subseteq Waiting
        /\ Waiting' \subseteq Waiting \cup {a.target}
        /\ \A t \in Waiting' \ Waiting : items'[t].assessed # generation'
    BY <1>1, <1>3, <1>5, <1>8, ObserveInOrder DEF LoopAll
  <2>2. Waiting = {}
    BY <1>1, <1>8 DEF LoopAll, Place
  <2>3. OneUnassessed'
    BY <2>1, <2>2 DEF OneUnassessed
  <2>4. reported' # <<>> => Waiting' = {}
    <3>1. SUFFICES ASSUME a.kind # "existing" PROVE reported' = <<>>
      BY <2>1, <2>2
    <3>2. Len(reported') = 0
      BY <1>3, <1>5, <3>1
    <3> QED BY <1>3, <3>2, EmptySeq
  <2>5. candidate = {}
    BY <1>1 DEF LoopAll, Place
  <2>6. Place'
    BY <1>1, <2>3, <2>4, <2>5 DEF Place
  <2>7. Verdict'
    BY <1>1 DEF LoopAll, Verdict
  <2> QED BY <1>6, <2>1, <2>6, <2>7 DEF InOrder
<1> QED BY <1>7, <1>8

LEMMA AllObservedOrder ==
  ASSUME LoopAll, AllObserved
  PROVE  InOrder'
<1>1. /\ UNCHANGED <<worklist, processMap, candidate, reported, ended>>
      /\ phase = "observe" /\ reported = <<>>
      /\ phase' = IF PendingCandidates = {} THEN "end" ELSE "assess"
  BY DEF AllObserved
<1>2. /\ Books' /\ Exhausted' = Exhausted /\ Waiting' = Waiting
      /\ OneUnassessed' = OneUnassessed
  BY <1>1, BooksAside
<1>3. ReportInOrder'
  BY <1>1 DEF LoopAll, ReportInOrder
<1>4. ~Exhausted => OneUnassessed
  BY <1>1 DEF LoopAll, Place
<1>5. OneUnassessed /\ PendingCandidates = {} => Waiting = {}
  BY DEF OneUnassessed, PendingCandidates, Waiting
<1>6. candidate = {} /\ ended = "None"
  BY <1>1 DEF LoopAll, Place, Verdict
<1>7. Place'
  BY <1>1, <1>2, <1>4, <1>5, <1>6 DEF Place
<1>8. Verdict'
  BY <1>1, <1>6 DEF Verdict
<1> QED BY <1>2, <1>3, <1>7, <1>8 DEF InOrder

\* A granted assessment takes up the one candidate that waits; a refused one
\* has met a limit.
LEMMA BeginAssessmentOrder ==
  ASSUME LoopAll, BeginAssessment
  PROVE  InOrder'
<1>0. WorkTyped /\ LedgersHold
  BY DEF LoopAll, WorkInv
<1>1. PICK t \in PendingCandidates :
        /\ BeginCandidateAssessment(t)
        /\ candidate' = IF AssessmentGranted(t) THEN {t} ELSE {}
        /\ phase' = IF AssessmentGranted(t) THEN "assess" ELSE "end"
  BY DEF BeginAssessment
<1>2. /\ UNCHANGED <<processMap, reported, ended>>
      /\ phase = "assess" /\ candidate = {}
  BY DEF BeginAssessment
<1>3. WorkStep /\ Kept /\ Stands
  BY <1>0, <1>1, BeginAssessmentStep DEF QuietWork, WorkStep
<1>4. t \in DOMAIN items /\ items[t].pending /\ items[t].assessed # generation
  BY <1>1 DEF PendingCandidates
<1>5. ReportInOrder'
  BY <1>2 DEF LoopAll, ReportInOrder
<1>6. ended = "None"
  BY <1>2 DEF LoopAll, Verdict
<1>7. overflowing' = overflowing /\ generation' = generation
  BY <1>1 DEF BeginCandidateAssessment
<1>8. CASE AssessmentGranted(t)
  <2>1. ~Exhausted /\ Countable(AssessmentCounts(t)) /\ ~AssessmentLimited
    BY <1>8 DEF AssessmentGranted
  <2>2. items' = [items EXCEPT ![t].assessed = generation] /\ exhaustion' = exhaustion
    BY <1>1, <1>4, <1>8, <2>1 DEF BeginCandidateAssessment, Count
  <2>3. /\ items' \in [DOMAIN items -> WorkItem]
        /\ DOMAIN items' = DOMAIN items
        /\ \A u \in DOMAIN items : u # t => items'[u] = items[u]
        /\ items'[t].assessed = generation
        /\ items'[t].pending = items[t].pending
        /\ items'[t].promoted = items[t].promoted
    BY <1>0, <1>4, <2>2, AssessedRecord
  <2>4. Waiting' = Waiting /\ Promoted' = Promoted
    BY <1>4, <2>3 DEF Waiting, Promoted
  <2>5. Waiting = {t}
    <3>1. OneUnassessed
      BY <1>2, <2>1 DEF LoopAll, Place
    <3> QED BY <1>4, <3>1 DEF OneUnassessed, Waiting
  <2>6. RecordInOrder(items'[t])
    <3>1. RecordInOrder(items[t]) /\ generation \in Nat
      BY <1>0, <1>4, MaxPositive DEF LoopAll, Books, WorkTyped
    <3> QED BY <1>4, <2>3, <3>1 DEF RecordInOrder
  <2>7. (\A u \in DOMAIN items : RecordInOrder(items[u]))'
    BY <1>7, <2>3, <2>6 DEF LoopAll, Books, RecordInOrder
  <2>8. Books'
    BY <1>2, <1>3, <1>7, <2>1, <2>2, <2>4, <2>7 DEF LoopAll, Books, Kept, Exhausted
  <2>9. Held'
    BY <1>1, <1>4, <1>7, <1>8, <2>3, <2>4, <2>5 DEF Held
  <2>10. Place'
    <3>1. phase' = "assess" /\ candidate' = {t} /\ ~Exhausted'
      BY <1>1, <1>8, <2>1, <2>2 DEF Exhausted
    <3> QED BY <2>9, <3>1 DEF Place
  <2>11. Verdict'
    BY <1>2, <1>6 DEF Verdict
  <2> QED BY <1>5, <2>8, <2>10, <2>11 DEF InOrder
<1>9. CASE ~AssessmentGranted(t)
  <2>1. items' = items
    BY <1>1, <1>9 DEF BeginCandidateAssessment
  <2>2. Books'
    BY <1>2, <1>3, <1>7, <2>1, BooksKept DEF LoopAll
  <2>3. Exhausted'
    <3>1. CASE Exhausted
      BY <1>3, <3>1, ExhaustedStays
    <3>2. CASE ~Exhausted /\ AssessmentLimited
      <4>1. exhaustion' = "CandidateAssessments"
        BY <1>1, <1>4, <3>2 DEF BeginCandidateAssessment, Exhaust
      <4> QED BY <4>1 DEF Exhausted
    <3>3. CASE ~Exhausted /\ ~AssessmentLimited
      <4>1. ~Countable(AssessmentCounts(t))
        BY <1>1, <1>9, <3>3 DEF AssessmentGranted
      <4>2. exhaustion' = "CounterOverflow"
        BY <1>1, <1>4, <3>3, <4>1 DEF BeginCandidateAssessment, Count
      <4> QED BY <4>2 DEF Exhausted
    <3> QED BY <3>1, <3>2, <3>3
  <2>4. Place'
    BY <1>1, <1>9, <2>3 DEF Place
  <2>5. Verdict'
    BY <1>2, <1>6 DEF Verdict
  <2> QED BY <1>5, <2>2, <2>4, <2>5 DEF InOrder
<1> QED BY <1>8, <1>9

\* A limit on promotions ends the round; without one the candidate is judged.
LEMMA MayPromoteOrder ==
  ASSUME LoopAll, MayPromote
  PROVE  InOrder'
<1>0. WorkTyped /\ LedgersHold
  BY DEF LoopAll, WorkInv
<1>1. /\ phase = "assess" /\ candidate # {} /\ CanPromote
      /\ phase' = IF ~Exhausted /\ PromotionObstacle = "None" THEN "judge" ELSE "end"
      /\ UNCHANGED <<processMap, reported, candidate, ended>>
  BY DEF MayPromote
<1>2. WorkStep /\ Kept /\ Stands
  BY <1>0, <1>1, CanPromoteStep DEF QuietWork, WorkStep
<1>3. UNCHANGED <<items, overflowing, generation>> /\ Exhaust(PromotionObstacle)
  BY <1>1 DEF CanPromote
<1>4. Books' /\ ReportInOrder'
  BY <1>1, <1>2, <1>3, BooksKept DEF LoopAll, ReportInOrder
<1>5. ~Exhausted /\ Held /\ ended = "None"
  BY <1>1 DEF LoopAll, Place, Verdict
<1>6. Held'
  BY <1>1, <1>3, <1>5 DEF Held, Waiting
<1>7. exhaustion' = PromotionObstacle
  BY <1>3, <1>5 DEF Exhaust
<1>8. Place'
  BY <1>1, <1>5, <1>6, <1>7 DEF Place, Exhausted
<1>9. Verdict'
  BY <1>1, <1>5 DEF Verdict
<1> QED BY <1>4, <1>8, <1>9 DEF InOrder

\* A refused candidate is resolved, or the counter of its resolution is full.
LEMMA RefuseOrder ==
  ASSUME LoopAll, Refuse
  PROVE  InOrder'
<1>0. WorkTyped /\ LedgersHold
  BY DEF LoopAll, WorkInv
<1>1. /\ phase \in {"judge", "build"} /\ phase' = "end"
      /\ UNCHANGED <<processMap, reported, candidate, ended>>
  BY DEF Refuse
<1>2. ~Exhausted /\ Held /\ ended = "None"
  BY <1>1 DEF LoopAll, Place, Verdict
<1>3. PICK t \in DOMAIN items : candidate = {t} /\ Waiting = {t} /\ items[t].assessed = generation
  BY <1>2 DEF Held
<1>4. RecordFailedRefinement(t) \/ RecordTerminalCandidate(t)
  BY <1>3 DEF Refuse
<1>5. WorkStep /\ Kept /\ Stands
  BY <1>0, <1>4, RecordFailedStep, RecordTerminalStep DEF QuietWork, WorkStep
<1>6. /\ overflowing' = overflowing /\ generation' = generation
      /\ \/ items' = [items EXCEPT ![t] = Resolved(@)]
         \/ items' = items /\ exhaustion' = "CounterOverflow"
  BY <1>3, <1>4 DEF RecordFailedRefinement, RecordTerminalCandidate, Count
<1>7. Verdict' /\ ReportInOrder'
  BY <1>1, <1>2 DEF Verdict, LoopAll, ReportInOrder
<1>8. CASE items' = items /\ exhaustion' = "CounterOverflow"
  <2>1. Books'
    BY <1>1, <1>5, <1>6, <1>8, BooksKept DEF LoopAll
  <2>2. Place'
    BY <1>1, <1>8 DEF Place, Exhausted
  <2> QED BY <1>7, <2>1, <2>2 DEF InOrder
<1>9. CASE items' = [items EXCEPT ![t] = Resolved(@)]
  <2>1. /\ DOMAIN items' = DOMAIN items
        /\ \A u \in DOMAIN items : u # t => items'[u] = items[u]
        /\ ~items'[t].pending /\ items'[t].processed /\ items'[t].at = generation
        /\ items'[t].assessed = items[t].assessed
        /\ items'[t].promoted = items[t].promoted
    BY <1>0, <1>3, <1>9, ResolvedRecord
  <2>2. Waiting' = {} /\ Promoted' = Promoted
    BY <1>3, <2>1 DEF Waiting, Promoted
  <2>3. RecordInOrder(items[t]) /\ generation \in Nat
    BY <1>0, MaxPositive DEF LoopAll, Books, WorkTyped
  <2>4. (\A u \in DOMAIN items : RecordInOrder(items[u]))'
    BY <1>3, <1>6, <2>1, <2>3 DEF LoopAll, Books, RecordInOrder
  <2>5. Exhausted => Exhausted'
    BY <1>2
  <2>6. Books'
    BY <1>1, <1>2, <1>5, <1>6, <2>2, <2>4 DEF LoopAll, Books, Kept
  <2>7. Place'
    BY <1>1, <2>2 DEF Place
  <2> QED BY <1>7, <2>6, <2>7 DEF InOrder
<1> QED BY <1>6, <1>8, <1>9

LEMMA BuildOrder ==
  ASSUME LoopAll, Build \/ Built
  PROVE  InOrder'
<1>1. /\ UNCHANGED <<worklist, processMap, reported, candidate, ended>>
      /\ phase \in {"judge", "build"} /\ phase' \in {"build", "commit"}
  BY DEF Build, Built
<1>2. Books' /\ Exhausted' = Exhausted
  BY <1>1, BooksAside
<1>3. ~Exhausted /\ Held /\ ended = "None"
  BY <1>1 DEF LoopAll, Place, Verdict
<1>4. Held'
  BY <1>1, <1>3 DEF Held, Waiting, worklist
<1>5. Place' /\ Verdict' /\ ReportInOrder'
  BY <1>1, <1>2, <1>3, <1>4 DEF Place, Verdict, LoopAll, ReportInOrder
<1> QED BY <1>2, <1>5 DEF InOrder

\* The batch of one candidate that may be committed overflows no counter.
LEMMA NoOverflow ==
  ASSUME LoopAll, NEW t, NEW work \in [Ledgers -> Nat], CommitGranted({t}, work)
  PROVE  ~BatchOverflows(1, work)
<1>1. /\ counters \in [CounterNames -> 0..CounterMax]
      /\ ledger \in [Ledgers -> Nat] /\ budgets \in BudgetSets
  BY DEF LoopAll, WorkInv, WorkTyped, CountersTyped
<1>2. CommitObstacle(work) = "None"
  BY DEF CommitGranted
<1>3. /\ Countable(<<"successful_promotions", "map_rebuilds">>)
      /\ generation # CounterMax
      /\ Fits(work)
  BY <1>2 DEF CommitObstacle
<1>4. counters["successful_promotions"] < CounterMax /\ counters["map_rebuilds"] < CounterMax
  <2> DEFINE names == <<"successful_promotions", "map_rebuilds">>
  <2>1. 1 \in DOMAIN names /\ 2 \in DOMAIN names
        /\ names[1] = "successful_promotions" /\ names[2] = "map_rebuilds"
    OBVIOUS
  <2> QED BY <1>3, <2>1 DEF Countable
<1>5. /\ counters["batch_candidates"] = counters["successful_promotions"]
      /\ counters["singleton_batches"] = counters["map_rebuilds"]
  BY DEF LoopAll, Books, WorkInv, LedgersHold
<1>6. \A c \in CounterNames : counters[c] + BatchIncrease(1)[c] <= CounterMax
  <2> SUFFICES ASSUME NEW c \in CounterNames
               PROVE  counters[c] + BatchIncrease(1)[c] <= CounterMax
    OBVIOUS
  <2>1. BatchIncrease(1)[c]
          = IF c \in {"successful_promotions", "batch_candidates", "map_rebuilds",
                      "singleton_batches"} THEN 1 ELSE 0
    BY DEF BatchIncrease
  <2>2. counters[c] \in Nat /\ counters[c] <= CounterMax
    BY <1>1, MaxPositive
  <2>3. c \in {"successful_promotions", "batch_candidates", "map_rebuilds",
               "singleton_batches"} => counters[c] < CounterMax
    BY <1>4, <1>5
  <2> QED BY <2>1, <2>2, <2>3, MaxPositive
<1>7. \A l \in Ledgers : ledger[l] + work[l] <= CounterMax
  <2> SUFFICES ASSUME NEW l \in Ledgers PROVE ledger[l] + work[l] <= CounterMax
    OBVIOUS
  <2>1. ledger[l] \in Nat /\ work[l] \in Nat /\ ledger[l] + work[l] <= budgets.analysis[l]
    BY <1>1, <1>3 DEF Fits
  <2>2. budgets.analysis[l] <= CounterMax /\ budgets.analysis[l] \in Nat
    BY <1>1, WorklistAssumption DEF BudgetType
  <2> QED BY <2>1, <2>2, MaxPositive
<1>8. \A c \in CounterNames : counters[c] + BatchIncrease(1)[c] \in Nat
  BY <1>1, MaxPositive DEF BatchIncrease
<1>9. \A l \in Ledgers : ledger[l] + work[l] \in Nat
  BY <1>1
<1> QED BY <1>3, <1>6, <1>7, <1>8, <1>9, MaxPositive DEF BatchOverflows

\* The candidate is in the books as the next generation of the map.
LEMMA CommitOrder ==
  ASSUME LoopAll, Commit
  PROVE  InOrder'
<1>0. WorkTyped /\ LedgersHold /\ LoopTyped
  BY DEF LoopAll, WorkInv
<1>1. /\ phase = "commit" /\ phase' = "end"
      /\ processMap' = processMap \cup candidate
      /\ UNCHANGED <<reported, candidate, ended>>
  BY DEF Commit
<1>2. PICK work \in rebuilt : CommitGranted(candidate, work)
                              /\ RecordBatchPromotion(candidate, work)
  BY DEF Commit
<1>3. ~Exhausted /\ Held /\ ended = "None"
  BY <1>1 DEF LoopAll, Place, Verdict
<1>4. PICK t \in DOMAIN items : candidate = {t} /\ Waiting = {t} /\ items[t].assessed = generation
  BY <1>3 DEF Held
<1>5. work \in [Ledgers -> Nat] /\ Cardinality(candidate) = 1
  BY <1>0, <1>2, <1>4, FS_Singleton DEF LoopTyped
<1>6. ~BatchOverflows(1, work)
  BY <1>2, <1>4, <1>5, NoOverflow
<1>7. /\ counters' = [c \in CounterNames |-> counters[c] + BatchIncrease(1)[c]]
      /\ items' = [u \in DOMAIN items |->
                     IF u \in {t}
                     THEN [items[u] EXCEPT !.pending = FALSE, !.processed = TRUE,
                                           !.promoted = TRUE]
                     ELSE items[u]]
      /\ generation' = generation + 1
      /\ overflowing' = overflowing
      /\ exhaustion' = exhaustion
  BY <1>2, <1>4, <1>5, <1>6 DEF RecordBatchPromotion
<1>8. /\ DOMAIN items' = DOMAIN items
      /\ \A u \in DOMAIN items : u # t => items'[u] = items[u]
      /\ ~items'[t].pending /\ items'[t].processed /\ items'[t].promoted
      /\ items'[t].assessed = items[t].assessed
  BY <1>0, <1>4, <1>7, PromotedRecords
<1>9. items[t].pending /\ RecordInOrder(items[t]) /\ generation \in Nat
  BY <1>0, <1>4, MaxPositive DEF Waiting, LoopAll, Books, WorkTyped
<1>10. t \notin Promoted
  BY <1>9 DEF Promoted, RecordInOrder
<1>11. Promoted' = Promoted \cup {t} /\ Waiting' = {}
  BY <1>4, <1>8 DEF Promoted, Waiting
<1>12. (\A u \in DOMAIN items : RecordInOrder(items[u]))'
  <2> SUFFICES ASSUME NEW u \in DOMAIN items
               PROVE  /\ items'[u].pending => ~items'[u].promoted
                      /\ items'[u].assessed <= generation + 1
                      /\ items'[u].assessed # generation + 1
    BY <1>7, <1>8 DEF RecordInOrder
  <2>1. items[u].assessed \in Int /\ items[u].assessed <= generation
        /\ (items[u].pending => ~items[u].promoted)
    BY <1>0 DEF WorkTyped, WorkItem, NoGeneration, LoopAll, Books, RecordInOrder
  <2> QED BY <1>8, <1>9, <2>1
<1>13. Cardinality(processMap') = generation'
  <2>1. IsFiniteSet(processMap) /\ processMap = Promoted
    BY <1>0, FS_Subset DEF WorkTyped, LoopAll, Books, Promoted
  <2>2. processMap' = processMap \cup {t} /\ t \notin processMap
    BY <1>1, <1>4, <1>10, <2>1
  <2>3. Cardinality(processMap') = Cardinality(processMap) + 1
    BY <2>1, <2>2, FS_AddElement
  <2> QED BY <1>7, <2>3 DEF LoopAll, Books
<1>14. /\ counters'["successful_promotions"] = generation'
       /\ counters'["batch_candidates"] = generation'
       /\ counters'["singleton_batches"] = generation'
  <2>1. {"successful_promotions", "batch_candidates", "singleton_batches"} \subseteq CounterNames
    BY Names DEF Ledgered
  <2>2. \A c \in {"successful_promotions", "batch_candidates", "singleton_batches"} :
          counters'[c] = counters[c] + 1
    BY <1>7, <2>1 DEF BatchIncrease
  <2> QED BY <1>7, <2>2 DEF LoopAll, Books
<1>15. Books'
  BY <1>1, <1>4, <1>7, <1>11, <1>12, <1>13, <1>14 DEF LoopAll, Books, Exhausted
<1>16. Place' /\ Verdict' /\ ReportInOrder'
  <2>1. reported = <<>> /\ DOMAIN reported = {}
    BY <1>1 DEF LoopAll, ReportInOrder
  <2>2. ReportInOrder'
    BY <1>1, <2>1 DEF ReportInOrder
  <2> QED BY <1>1, <1>3, <1>11, <2>2 DEF Place, Verdict
<1> QED BY <1>15, <1>16 DEF InOrder

\* What is not committed has met a limit.
LEMMA RollBackOrder ==
  ASSUME LoopAll, RollBack
  PROVE  InOrder'
<1>0. WorkTyped /\ LedgersHold /\ LoopTyped
  BY DEF LoopAll, WorkInv
<1>1. /\ phase = "commit" /\ phase' = "end"
      /\ UNCHANGED <<processMap, reported, candidate, ended, items, overflowing, generation>>
      /\ UNCHANGED <<budgets, seen, ledger, round>>
      /\ counters' = Counted(<<"rollback_assessments">>)
  BY DEF RollBack
<1>2. PICK work \in rebuilt :
        /\ ~CommitGranted(candidate, work)
        /\ IF Countable(<<"rollback_assessments">>)
           THEN ReportObstacle(candidate, work)
           ELSE exhaustion' = "CounterOverflow"
  BY DEF RollBack
<1>3. ~Exhausted /\ Held /\ ended = "None"
  BY <1>1 DEF LoopAll, Place, Verdict
<1>4. PICK t \in DOMAIN items : candidate = {t} /\ Waiting = {t} /\ items[t].assessed = generation
  BY <1>3 DEF Held
<1>5. Assessed(candidate) /\ Cardinality(candidate) = 1
  BY <1>4, FS_Singleton DEF Assessed, Waiting
<1>6. CommitObstacle(work) # "None"
  <2> SUFFICES ASSUME CommitObstacle(work) = "None" PROVE FALSE
    OBVIOUS
  <2>1. PromotionObstacle = "None" /\ Countable(<<"successful_promotions", "map_rebuilds">>)
    BY DEF CommitObstacle
  <2>2. /\ counters["successful_promotions"] \in Nat /\ counters["map_rebuilds"] \in Nat
        /\ budgets.promotions \in Nat /\ budgets.rebuilds \in Nat
    BY <1>0, MaxPositive, WorklistAssumption
       DEF WorkTyped, CountersTyped, CounterNames, BudgetType
  <2>3. budgets.legacy => /\ counters["successful_promotions"] < budgets.promotions
                          /\ counters["map_rebuilds"] < budgets.rebuilds
    BY <2>1, <2>2 DEF PromotionObstacle
  <2>4. counters["successful_promotions"] < CounterMax
    <3> DEFINE names == <<"successful_promotions", "map_rebuilds">>
    <3>1. 1 \in DOMAIN names /\ names[1] = "successful_promotions"
      OBVIOUS
    <3> QED BY <2>1, <3>1 DEF Countable
  <2>5. CommitGranted(candidate, work)
    BY <1>3, <1>5, <2>2, <2>3, <2>4, MaxPositive DEF CommitGranted
  <2> QED BY <1>2, <2>5
<1>7. Exhausted'
  BY <1>2, <1>3, <1>5, <1>6 DEF ReportObstacle, Exhausted
<1>8. WorkStep /\ Kept /\ Stands
  <2>1. exhaustion' = "CounterOverflow" \/ (~Exhausted /\ exhaustion' \in Dimensions)
    BY <1>2, <1>3, <1>5, ObstacleTyped DEF ReportObstacle
  <2> QED BY <1>0, <1>1, <2>1, RollbackStep DEF QuietWork, WorkStep
<1>9. Books'
  BY <1>1, <1>8, BooksKept DEF LoopAll
<1>10. Place' /\ Verdict' /\ ReportInOrder'
  BY <1>1, <1>3, <1>7 DEF Place, Verdict, LoopAll, ReportInOrder
<1> QED BY <1>9, <1>10 DEF InOrder

LEMMA FinishRoundOrder ==
  ASSUME LoopAll, FinishRound
  PROVE  InOrder'
<1>0. WorkTyped /\ LedgersHold
  BY DEF LoopAll, WorkInv
<1>1. /\ phase = "end" /\ EndRound
      /\ phase' = IF refined THEN "begin" ELSE "done"
      /\ ended' = IF refined THEN ended
                  ELSE IF exhaustion' # "None" THEN "IndirectTargetRefinementBudgetExceeded"
                  ELSE "Session"
      /\ candidate' = {}
      /\ UNCHANGED <<processMap, reported>>
  BY DEF FinishRound
<1>2. WorkStep /\ Kept /\ Stands
  BY <1>0, <1>1, EndRoundStep DEF QuietWork, WorkStep
<1>3. UNCHANGED <<items, overflowing, generation>> /\ round' = "idle"
  BY <1>1 DEF EndRound
<1>4. Books' /\ ReportInOrder'
  BY <1>1, <1>2, <1>3, BooksKept DEF LoopAll, ReportInOrder
<1>5. ~Exhausted' => Waiting' = {}
  <2>1. ~Exhausted' => ~Exhausted
    BY <1>2, ExhaustedStays
  <2> QED BY <1>1, <1>3, <2>1 DEF LoopAll, Place, Waiting
<1>6. ended = "None"
  BY <1>1 DEF LoopAll, Verdict
<1>7. Place' /\ Verdict'
  BY <1>1, <1>3, <1>5, <1>6 DEF Place, Verdict, Exhausted
<1> QED BY <1>4, <1>7 DEF InOrder

LEMMA LoopOrder ==
  ASSUME WorkInv, LoopInv, [Next]_vars
  PROVE  LoopInv'
<1> SUFFICES ASSUME client' = "run-entry" PROVE InOrder'
  BY DEF LoopInv, InOrder
<1>1. CASE Library
  <2>1. client = "run-entry" /\ phase = "library"
    BY <1>1 DEF Library, loop
  <2> QED BY <2>1 DEF LoopInv, Place
<1>2. CASE Loop
  <2>1. LoopAll
    BY <1>2 DEF LoopAll, LoopInv, Loop, StartRound, RunStopsAtUnknown, RunStops, RunIsBlocked,
                Fail, ObserveReported, AllObserved, BeginAssessment, MayPromote, Refuse, Build,
                Built, Commit, RollBack, FinishRound
  <2> QED BY <1>2, <2>1, StartRoundOrder, RunOrder, ObserveReportedOrder, AllObservedOrder,
             BeginAssessmentOrder, MayPromoteOrder, RefuseOrder, BuildOrder, CommitOrder,
             RollBackOrder, FinishRoundOrder
          DEF Loop
<1>3. CASE UNCHANGED vars
  <2>1. UNCHANGED worklist /\ UNCHANGED <<processMap, client, phase, reported, candidate, ended>>
    BY <1>3 DEF vars, loop
  <2>2. LoopAll
    BY <2>1 DEF LoopAll, LoopInv
  <2>3. /\ Books' /\ Exhausted' = Exhausted /\ Waiting' = Waiting
        /\ OneUnassessed' = OneUnassessed /\ items' = items /\ round' = round
        /\ generation' = generation
    BY <2>1, <2>2, BooksAside
  <2>4. Held' = Held
    BY <2>1, <2>3 DEF Held
  <2>5. ReportInOrder' /\ Place' /\ Verdict'
    BY <2>1, <2>2, <2>3, <2>4 DEF LoopAll, ReportInOrder, Place, Verdict
  <2> QED BY <2>3, <2>5 DEF InOrder
<1> QED BY <1>1, <1>2, <1>3 DEF Next

LEMMA InitialLoop ==
  ASSUME Init
  PROVE  LoopInv
<1>1. Waiting = {} /\ Promoted = {} /\ DOMAIN items = {} /\ DOMAIN reported = {}
  BY DEF Init, WorklistInit, Waiting, Promoted
<1>2. Cardinality(processMap) = 0
  BY FS_EmptySet DEF Init
<1>3. Books
  BY <1>1, <1>2 DEF Init, WorklistInit, Books, CounterNames
<1>4. client = "run-entry" => ReportInOrder /\ Place /\ Verdict
  BY <1>1 DEF Init, WorklistInit, ReportInOrder, Place, Verdict
<1> QED BY <1>3, <1>4 DEF LoopInv

\* When run-entry's loop ends by itself, every candidate it took up is settled
\* or a limit is reported, and its map holds just the recorded promotions, one
\* generation for each (tools/run-entry/main.cpp).
THEOREM DriverAlwaysSettles == Spec => []DriverSettles
<1>1. Init => LoopInv
  BY InitialLoop
<1>2. WorkInv /\ LoopInv /\ [Next]_vars => LoopInv'
  BY LoopOrder
<1>3. LoopInv => DriverSettles
  <2>1. overflowing = {} /\ Waiting = {} => PendingCount = 0
    BY FS_EmptySet DEF PendingCount, Waiting
  <2> QED BY <2>1 DEF LoopInv, Books, Verdict, DriverSettles, Promoted
<1> QED BY <1>1, <1>2, <1>3, Inductive, PTL DEF Spec
-----------------------------------------------------------------------------
(* Why the loop of run-entry ends. *)

\* What LoopAdvances asks of a step.
Descends ==
  \/ Unpromoted' < Unpromoted
  \/ Unpromoted' = Unpromoted /\ CallsLeft' < CallsLeft

\* A round has at most two assessments to observe, and one that has taken up a
\* candidate has not promoted it yet.
Turn ==
  client = "run-entry" =>
    /\ Len(reported) \in 0 .. 2
    /\ phase \in {"assess", "judge", "build", "commit"} => ~refined

\* No operation of a worklist changes its budgets.
LEMMA BudgetsFixed ==
  ASSUME LoopTyped, Loop
  PROVE  budgets' = budgets
<1>1. CASE \/ RunStopsAtUnknown \/ RunStops \/ RunIsBlocked \/ Fail \/ AllObserved
           \/ Build \/ Built
  BY <1>1 DEF RunStopsAtUnknown, RunStops, RunIsBlocked, Fail, AllObserved, Build, Built,
              worklist
<1>2. CASE ObserveReported
  BY <1>2 DEF ObserveReported, Observe, worklist
<1>3. CASE StartRound \/ BeginAssessment \/ MayPromote \/ FinishRound
  BY <1>3 DEF StartRound, BeginRound, BeginAssessment, BeginCandidateAssessment, MayPromote,
              CanPromote, FinishRound, EndRound
<1>4. CASE Refuse
  <2>1. PICK t \in candidate : RecordFailedRefinement(t) \/ RecordTerminalCandidate(t)
    BY <1>4 DEF Refuse
  <2> QED BY <2>1 DEF RecordFailedRefinement, RecordTerminalCandidate
<1>5. CASE Commit
  <2>1. PICK work \in rebuilt : RecordBatchPromotion(candidate, work)
    BY <1>5 DEF Commit
  <2> QED BY Zenon, <2>1 DEF RecordBatchPromotion
<1>6. CASE RollBack
  BY <1>6 DEF RollBack
<1> QED BY <1>1, <1>2, <1>3, <1>4, <1>5, <1>6 DEF Loop

\* Only a commit changes the map, and it has its candidate to add to it.
LEMMA MapGrows ==
  ASSUME LoopAll, Loop
  PROVE  /\ ~Commit => processMap' = processMap
         /\ Commit => \E t \in DOMAIN items :
                        t \notin processMap /\ processMap' = processMap \cup {t}
<1>1. CASE Commit
  <2>1. Held /\ processMap' = processMap \cup candidate
    BY <1>1 DEF Commit, LoopAll, Place
  <2>2. PICK t \in DOMAIN items : candidate = {t} /\ Waiting = {t}
    BY <2>1 DEF Held
  <2>3. items[t].pending /\ RecordInOrder(items[t])
    BY <2>2 DEF Waiting, LoopAll, Books
  <2>4. t \notin processMap
    BY <2>3 DEF RecordInOrder, LoopAll, Books, Promoted
  <2> QED BY <1>1, <2>1, <2>2, <2>4
<1>2. CASE ~Commit
  BY <1>2 DEF Loop, StartRound, RunStopsAtUnknown, RunStops, RunIsBlocked, Fail,
              ObserveReported, AllObserved, BeginAssessment, MayPromote, Refuse, Build, Built,
              RollBack, FinishRound
<1> QED BY <1>1, <1>2

\* The map holds candidates, of which there are no more than the limit.
LEMMA MapWithinLimit ==
  ASSUME LoopAll
  PROVE  /\ IsFiniteSet(processMap) /\ Cardinality(processMap) \in Nat
         /\ Limit \in Nat
         /\ Unpromoted \in Nat
<1>1. processMap \subseteq DOMAIN items /\ IsFiniteSet(DOMAIN items) /\ WorkTyped
  BY DEF LoopAll, Books, Promoted, WorkInv, WorkTyped
<1>2. /\ IsFiniteSet(processMap)
      /\ Cardinality(processMap) \in Nat
      /\ Cardinality(DOMAIN items) \in Nat
      /\ Cardinality(processMap) <= Cardinality(DOMAIN items)
  BY <1>1, FS_Subset, FS_CardinalityType
<1>3. Limit \in Nat
  BY <1>1, LimitNat
<1>4. Cardinality(DOMAIN items) <= Limit
  BY DEF LoopAll, WorkInv, LedgersHold
<1> QED BY <1>2, <1>3, <1>4 DEF Unpromoted

\* The calls left in a round are a natural number of them.
LEMMA CallsLeftNat ==
  ASSUME LoopAll, Turn
  PROVE  CallsLeft \in Nat
<1>1. Len(reported) \in 0 .. 2
  BY DEF LoopAll, Turn
<1> QED BY <1>1 DEF CallsLeft

\* A round that observes and assesses stays in turn.
LEMMA TurnKept ==
  ASSUME LoopAll, Turn, Loop
  PROVE  Turn'
<1>1. Len(reported) \in 0 .. 2 /\ reported \in Seq(Assessments) /\ client = "run-entry"
  BY DEF LoopAll, Turn, WorkInv, LoopTyped
<1>2. CASE RunStopsAtUnknown
  <2>1. PICK hit \in {<<>>} \cup {<<h>> : h \in Assessments}, b \in Assessments :
          reported' = Append(hit, b)
    BY <1>2 DEF RunStopsAtUnknown
  <2>2. hit \in Seq(Assessments) /\ Len(hit) \in {0, 1}
    <3>1. CASE hit = <<>>
      BY <3>1
    <3>2. ASSUME NEW h \in Assessments, hit = <<h>> PROVE hit \in Seq(Assessments) /\ Len(hit) = 1
      BY <3>2
    <3> QED BY <3>1, <3>2
  <2>3. Len(reported') \in 0 .. 2
    BY <2>1, <2>2, AppendProperties
  <2> QED BY <1>2, <2>3 DEF RunStopsAtUnknown, Turn
<1>3. CASE ObserveReported
  <2>1. Len(reported') = Len(reported) - 1 /\ reported # <<>>
    BY <1>1, <1>3, HeadTailProperties DEF ObserveReported
  <2>2. Len(reported) # 0
    BY <1>1, <2>1, EmptySeq
  <2> QED BY <1>1, <1>3, <2>1, <2>2 DEF ObserveReported, Turn
<1>4. CASE StartRound \/ RunStops \/ RunIsBlocked \/ Fail
  BY <1>1, <1>4 DEF StartRound, RunStops, RunIsBlocked, Fail, Turn
<1>5. CASE AllObserved
  BY <1>1, <1>5 DEF AllObserved, Turn
<1>6. CASE BeginAssessment \/ MayPromote \/ Refuse \/ Build \/ Built
  BY <1>1, <1>6 DEF BeginAssessment, MayPromote, Refuse, Build, Built, Turn
<1>7. CASE Commit \/ RollBack \/ FinishRound
  BY <1>1, <1>7 DEF Commit, RollBack, FinishRound, Turn
<1> QED BY <1>2, <1>3, <1>4, <1>5, <1>6, <1>7 DEF Loop

\* A call that leaves the map alone brings the end of its round nearer.
LEMMA RoundShortens ==
  ASSUME LoopAll, Turn, Loop, ~Commit
  PROVE  CallsLeft' < CallsLeft
<1>1. Len(reported) \in 0 .. 2 /\ reported \in Seq(Assessments)
  BY DEF LoopAll, Turn, WorkInv, LoopTyped
<1>2. Len(reported') \in 0 .. 2
  BY TurnKept DEF Turn, LoopAll, Loop, StartRound, RunStopsAtUnknown, RunStops, RunIsBlocked,
                  Fail, ObserveReported, AllObserved, BeginAssessment, MayPromote, Refuse,
                  Build, Built, Commit, RollBack, FinishRound
<1>3. phase \in {"assess", "judge", "build", "commit"} => ~refined
  BY DEF LoopAll, Turn
<1>4. CASE StartRound
  <2>1. phase = "begin" /\ phase' \in {"run", "done"}
    BY <1>4 DEF StartRound
  <2> QED BY <2>1 DEF CallsLeft
<1>5. CASE RunStopsAtUnknown \/ RunStops
  <2>1. phase = "run" /\ phase' = "observe"
    BY <1>5 DEF RunStopsAtUnknown, RunStops
  <2> DEFINE n == Len(reported')
  <2>2. CallsLeft = 10 /\ CallsLeft' = 7 + n
    BY <2>1 DEF CallsLeft
  <2>3. n \in 0 .. 2
    BY <1>2
  <2> HIDE DEF n
  <2> QED BY <2>2, <2>3
<1>6. CASE RunIsBlocked \/ Fail
  <2>1. phase \in {"run", "judge", "build"} /\ phase' = "done"
    BY <1>6 DEF RunIsBlocked, Fail
  <2> QED BY <2>1 DEF CallsLeft
<1>7. CASE ObserveReported
  <2>1. /\ phase = "observe" /\ phase' = "observe"
        /\ Len(reported') = Len(reported) - 1
    BY <1>1, <1>7, HeadTailProperties DEF ObserveReported
  <2>2. CallsLeft = 7 + Len(reported) /\ CallsLeft' = 7 + Len(reported')
    BY <2>1 DEF CallsLeft
  <2> QED BY <1>1, <2>1, <2>2
<1>8. CASE AllObserved
  <2>1. phase = "observe" /\ phase' \in {"assess", "end"} /\ ~refined' /\ Len(reported) \in Nat
    BY <1>1, <1>8 DEF AllObserved
  <2>2. CallsLeft = 7 + Len(reported) /\ CallsLeft' \in {1, 5, 6}
    BY <2>1 DEF CallsLeft
  <2> QED BY <2>1, <2>2
<1>9. CASE BeginAssessment
  <2>1. /\ phase = "assess" /\ candidate = {} /\ ~refined'
        /\ \/ phase' = "assess" /\ candidate' # {}
           \/ phase' = "end"
    BY <1>3, <1>9 DEF BeginAssessment
  <2>2. CallsLeft = 6 /\ CallsLeft' \in {1, 5}
    BY <2>1 DEF CallsLeft
  <2> QED BY <2>2
<1>10. CASE MayPromote
  <2>1. phase = "assess" /\ candidate # {} /\ phase' \in {"judge", "end"} /\ ~refined'
    BY <1>3, <1>10 DEF MayPromote
  <2> QED BY <2>1 DEF CallsLeft
<1>11. CASE Refuse
  <2>1. phase \in {"judge", "build"} /\ phase' = "end" /\ ~refined'
    BY <1>3, <1>11 DEF Refuse
  <2> QED BY <2>1 DEF CallsLeft
<1>12. CASE Build
  BY <1>12 DEF Build, CallsLeft
<1>13. CASE Built
  BY <1>13 DEF Built, CallsLeft
<1>14. CASE RollBack
  <2>1. phase = "commit" /\ phase' = "end" /\ ~refined'
    BY <1>3, <1>14 DEF RollBack
  <2> QED BY <2>1 DEF CallsLeft
<1>15. CASE FinishRound
  <2>1. phase = "end" /\ refined' = refined /\ phase' = IF refined THEN "begin" ELSE "done"
    BY <1>15 DEF FinishRound
  <2>2. CASE refined
    BY <2>1, <2>2 DEF CallsLeft
  <2>3. CASE ~refined
    BY <2>1, <2>3 DEF CallsLeft
  <2> QED BY <2>2, <2>3
<1> QED BY <1>4, <1>5, <1>6, <1>7, <1>8, <1>9, <1>10, <1>11, <1>12, <1>13, <1>14, <1>15
        DEF Loop

\* Each call of the loop descends.
LEMMA LoopDescends ==
  ASSUME LoopAll, Turn, Loop
  PROVE  Unpromoted \in Nat /\ CallsLeft \in Nat /\ Descends
<1>1. IsFiniteSet(processMap) /\ Cardinality(processMap) \in Nat /\ Limit \in Nat
      /\ Unpromoted \in Nat /\ CallsLeft \in Nat
  BY MapWithinLimit, CallsLeftNat
<1>2. Limit' = Limit
  BY BudgetsFixed DEF LoopAll, WorkInv, Limit
<1>3. CASE Commit
  <2>1. PICK t \in DOMAIN items : t \notin processMap /\ processMap' = processMap \cup {t}
    BY <1>3, MapGrows
  <2>2. Cardinality(processMap') = Cardinality(processMap) + 1
    BY <1>1, <2>1, FS_AddElement
  <2> QED BY <1>1, <1>2, <2>2 DEF Unpromoted, Descends
<1>4. CASE ~Commit
  <2>1. processMap' = processMap /\ CallsLeft' < CallsLeft
    BY <1>4, MapGrows, RoundShortens
  <2> QED BY <1>1, <1>2, <2>1 DEF Unpromoted, Descends
<1> QED BY <1>1, <1>3, <1>4

\* Whatever the guest jumps to and however the assessments end, the loop of
\* run-entry comes nearer to its end with each call, because only a promotion
\* starts it over (tools/run-entry/main.cpp).
THEOREM LoopAlwaysAdvances == Spec => LoopAdvances
<1>1. Init => LoopInv /\ Turn
  <2> SUFFICES ASSUME Init PROVE Turn
    BY InitialLoop
  <2>1. Len(reported) = 0 /\ phase \in {"library", "begin"}
    BY DEF Init
  <2> QED BY <2>1 DEF Turn
<1>2. WorkInv /\ LoopInv /\ Turn /\ [Next]_vars => LoopInv' /\ Turn'
  <2> SUFFICES ASSUME WorkInv, LoopInv, Turn, [Next]_vars PROVE LoopInv' /\ Turn'
    OBVIOUS
  <2>1. LoopInv'
    BY LoopOrder
  <2>2. CASE Library
    BY <2>2 DEF Library, loop, LoopInv, Place, Turn
  <2>3. CASE Loop
    <3>1. client' = client
      BY <2>3 DEF Loop, StartRound, RunStopsAtUnknown, RunStops, RunIsBlocked, Fail,
                  ObserveReported, AllObserved, BeginAssessment, MayPromote, Refuse, Build,
                  Built, Commit, RollBack, FinishRound
    <3>2. CASE client = "run-entry"
      <4>1. LoopAll
        BY <3>2 DEF LoopAll, LoopInv
      <4> QED BY <2>1, <2>3, <4>1, TurnKept
    <3>3. CASE client # "run-entry"
      BY <2>1, <3>1, <3>3 DEF Turn
    <3> QED BY <3>2, <3>3
  <2>4. CASE UNCHANGED vars
    <3>1. UNCHANGED loop
      BY <2>4 DEF vars
    <3>2. client' = client /\ reported' = reported /\ phase' = phase /\ refined' = refined
      BY <3>1 DEF loop
    <3> QED BY <2>1, <3>2 DEF Turn
  <2> QED BY <2>1, <2>2, <2>3, <2>4 DEF Next
<1>3. WorkInv /\ LoopInv /\ Turn /\ [Next]_vars =>
        [client = "run-entry" => /\ Unpromoted \in Nat /\ CallsLeft \in Nat
                                 /\ \/ Unpromoted' < Unpromoted
                                    \/ Unpromoted' = Unpromoted /\ CallsLeft' < CallsLeft]_vars
  <2> SUFFICES ASSUME WorkInv, LoopInv, Turn, Next, client = "run-entry"
               PROVE  Unpromoted \in Nat /\ CallsLeft \in Nat /\ Descends
    BY DEF Descends
  <2>1. LoopAll
    BY DEF LoopAll, LoopInv
  <2>2. ~Library
    BY <2>1 DEF LoopAll, Place, Library
  <2> QED BY <2>1, <2>2, LoopDescends DEF Next
<1> QED BY <1>1, <1>2, <1>3, Inductive, PTL DEF Spec, LoopAdvances
=============================================================================
