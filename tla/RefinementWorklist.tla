------------------------- MODULE RefinementWorklist -------------------------
(***************************************************************************)
(* The persistent worklist of indirect-target refinement,                   *)
(* IndirectTargetRefinementWorklist of src/switchrecomp/analysis/           *)
(* indirect_target.cpp.  Executions report the targets of indirect          *)
(* transfers they met, each already assessed; the worklist coalesces them   *)
(* into one record per target, says which are to be assessed against the    *)
(* function map of this generation, and keeps the ledgers that bound how    *)
(* much may be promoted into it.                                            *)
(*                                                                         *)
(* A target stands for a module and an address in it, a site for everything *)
(* else that tells two observations apart.  Work is accounted in Ledgers,   *)
(* which stand for the functions, instructions, blocks, edges, bytes,       *)
(* passes, invalidated records and transactions of an analysis.  Counters   *)
(* are size_t: CounterMax is the largest value of one.                      *)
(***************************************************************************)
EXTENDS Integers, Sequences, FiniteSets

CONSTANTS
  Targets,     \* the targets guest code may jump to
  Sites,       \* where it may do so
  Ledgers,     \* the kinds of analysis work that are limited
  Costs,       \* the work of each kind that one rebuild may take
  BudgetSets,  \* the budgets a worklist may be given
  CounterMax   \* numeric_limits<size_t>::max()

NoLimit == -1      \* an optional limit that is absent
NoGeneration == -1 \* a record never assessed

BudgetType ==
  [universe : Nat, unique : Nat \cup {NoLimit}, assessments : Nat \cup {NoLimit},
   stagnant : Nat, legacy : BOOLEAN, promotions : Nat, rebuilds : Nat,
   analysis : [Ledgers -> Nat]]

ASSUME WorklistAssumption ==
  /\ CounterMax \in Nat \ {0}
  /\ Costs \subseteq Nat
  /\ BudgetSets \subseteq BudgetType
  /\ \A b \in BudgetSets, l \in Ledgers : b.analysis[l] <= CounterMax

\* What an assessment decided: the target is an entry already, it cannot be a
\* candidate at all, it is a candidate that is refused, or it may be promoted.
Kinds == {"existing", "ineligible", "rejected", "new"}

Assessments == [target : Targets, site : Sites, kind : Kinds]

CounterNames ==
  {"observations_received", "unique_observations", "duplicate_coalesced_observations", "existing_trusted_hits",
   "structurally_ineligible_candidates", "rejected_candidates", "terminal_resolutions",
   "unique_candidates", "candidates_reconsidered_after_map_change",
   "total_execution_attempts", "productive_rounds", "stagnant_rounds",
   "candidate_assessments", "first_candidate_assessments", "generation_reassessments",
   "same_generation_assessment_attempts", "successful_promotions", "map_rebuilds",
   "batch_candidates", "rebuilds_avoided", "singleton_batches", "failed_refinements",
   "rollback_assessments"}

Dimensions ==
  {"None", "UniqueCandidates", "StructuralCandidateUniverse", "CandidateAssessments",
   "StagnantRounds", "Promotions", "MapRebuilds", "RefinementAnalysis", "CounterOverflow"}

WorkItem == [pending : BOOLEAN, processed : BOOLEAN, promoted : BOOLEAN,
             at : Nat, assessed : Nat \cup {NoGeneration}]

VARIABLES
  budgets,     \* budgets_
  items,       \* work_items_
  seen,        \* the keys of unique_observations_
  counters,    \* counters_
  ledger,      \* counters_.analysis
  exhaustion,  \* the dimension of counters_.exhaustion
  overflowing, \* the target of overflow_pending_, or {}
  generation,  \* map_generation_
  round        \* round_active_ and round_productive_

worklist == <<budgets, items, seen, counters, ledger, exhaustion, overflowing, generation, round>>

WorklistInit ==
  /\ budgets \in BudgetSets
  /\ items = [t \in {} |-> {}]
  /\ seen = {}
  /\ counters = [c \in CounterNames |-> 0]
  /\ ledger = [l \in Ledgers |-> 0]
  /\ exhaustion = "None"
  /\ overflowing = {}
  /\ generation = 0
  /\ round = "idle"

-----------------------------------------------------------------------------
(* Counters.  A handler raises several in a fixed order and returns at the   *)
(* first that is full, which is then the exhaustion; those before it keep    *)
(* what they were given.                                                    *)

Exhausted == exhaustion # "None"

\* Mutant: a full counter is raised.
UncheckedCountable(names) == \A i \in DOMAIN names : counters[names[i]] <= CounterMax

Countable(names) == \A i \in DOMAIN names : counters[names[i]] < CounterMax

Counted(names) ==
  [c \in CounterNames |->
     IF \E i \in DOMAIN names : names[i] = c /\ Countable(SubSeq(names, 1, i))
     THEN counters[c] + 1
     ELSE counters[c]]

Count(names) ==
  /\ counters' = Counted(names)
  /\ exhaustion' = IF Countable(names) THEN exhaustion ELSE "CounterOverflow"

\* round_productive_ = round_active_ || round_productive_
Productive == IF round = "idle" THEN "idle" ELSE "productive"

\* Exhaustion by a limit, reported once.
Exhaust(dimension) ==
  exhaustion' = IF Exhausted THEN exhaustion ELSE dimension

-----------------------------------------------------------------------------
(* Observations. *)

Limit ==
  IF budgets.unique # NoLimit /\ budgets.unique < budgets.universe
  THEN budgets.unique
  ELSE budgets.universe

ObservedKey(a) == <<a.target, a.site>>

\* What every observation is counted as, whatever was decided of it.
Coalesced(a) ==
  << "observations_received",
     IF ObservedKey(a) \in seen THEN "duplicate_coalesced_observations"
     ELSE "unique_observations" >>

See(a) ==
  seen' = IF Countable(<<"observations_received">>) THEN seen \cup {ObservedKey(a)} ELSE seen

Unresolved(w) == w.pending \/ ~w.processed

Resolved(w) == [w EXCEPT !.pending = FALSE, !.processed = TRUE, !.at = generation]

OnlyIf(condition, names) == IF condition THEN names ELSE <<>>

\* An entry that has appeared in the map resolves the candidate it was.
ObserveExisting(a) ==
  /\ a.kind = "existing"
  /\ LET known == a.target \in DOMAIN items
         open == known /\ Unresolved(items[a.target])
         names == Coalesced(a) \o <<"existing_trusted_hits">>
                    \o OnlyIf(open, <<"terminal_resolutions">>)
     IN /\ Count(names)
        /\ items' = IF known /\ Countable(names)
                    THEN [items EXCEPT ![a.target] = Resolved(@)]
                    ELSE items
        /\ round' = IF open /\ Countable(names) THEN Productive ELSE round
  /\ UNCHANGED overflowing

\* A target that can be no candidate takes no record; it is counted when new.
ObserveIneligible(a) ==
  /\ a.kind = "ineligible"
  /\ LET new == ObservedKey(a) \notin seen
         names == Coalesced(a)
                    \o OnlyIf(new, <<"structurally_ineligible_candidates",
                                     "rejected_candidates", "terminal_resolutions">>)
     IN /\ Count(names)
        /\ round' = IF new /\ Countable(names) THEN Productive ELSE round
  /\ UNCHANGED <<items, overflowing>>

\* The first observation of a candidate takes a record, when one is left.
ObserveFirst(a) ==
  /\ a.kind \in {"rejected", "new"}
  /\ a.target \notin DOMAIN items
  /\ IF Countable(Coalesced(a)) /\ counters["unique_candidates"] >= Limit
     THEN /\ counters' = Counted(Coalesced(a))
          /\ exhaustion' = IF budgets.unique # NoLimit
                              /\ counters["unique_candidates"] >= budgets.unique
                           THEN "UniqueCandidates"
                           ELSE "StructuralCandidateUniverse"
          /\ overflowing' = {a.target}
          /\ UNCHANGED <<items, round>>
     ELSE LET names == Coalesced(a) \o <<"unique_candidates">>
              work == [pending |-> a.kind = "new", processed |-> a.kind # "new",
                       promoted |-> FALSE, at |-> generation, assessed |-> NoGeneration]
          IN /\ Count(names \o OnlyIf(a.kind = "rejected",
                                      <<"rejected_candidates", "terminal_resolutions">>))
             /\ items' = IF Countable(names)
                         THEN [t \in DOMAIN items \cup {a.target} |->
                                 IF t = a.target THEN work ELSE items[t]]
                         ELSE items
             /\ round' = IF Countable(names) THEN Productive ELSE round
             /\ UNCHANGED overflowing

\* A candidate resolved against an earlier generation is taken up again.
ObserveNewAgain(a) ==
  /\ a.kind = "new"
  /\ a.target \in DOMAIN items
  /\ LET w == items[a.target]
         reopen == ~w.pending /\ (~w.processed \/ w.at < generation)
         names == Coalesced(a)
                    \o OnlyIf(reopen /\ w.assessed # NoGeneration /\ w.assessed < generation,
                              <<"candidates_reconsidered_after_map_change">>)
     IN /\ Count(names)
        /\ items' = IF reopen /\ Countable(Coalesced(a))
                    THEN [items EXCEPT ![a.target].pending = TRUE]
                    ELSE items
        /\ round' = IF reopen /\ Countable(names) THEN Productive ELSE round
  /\ UNCHANGED overflowing

\* A candidate that is refused now is resolved, unless it was promoted.
ObserveRejectedAgain(a) ==
  /\ a.kind = "rejected"
  /\ a.target \in DOMAIN items
  /\ LET w == items[a.target]
         resolution == Coalesced(a) \o OnlyIf(Unresolved(w), <<"terminal_resolutions">>)
         names == resolution \o <<"rejected_candidates">>
     IN IF w.promoted
        THEN /\ Count(Coalesced(a))
             /\ UNCHANGED <<items, round>>
        ELSE /\ Count(names)
             /\ items' = IF Countable(names) THEN [items EXCEPT ![a.target] = Resolved(@)]
                         ELSE items
             /\ round' = IF Unresolved(w) /\ Countable(resolution) THEN Productive ELSE round
  /\ UNCHANGED overflowing

\* Mutant: an exhausted worklist still observes.
ObserveExhausted(a) ==
  /\ \/ ObserveExisting(a)
     \/ ObserveIneligible(a)
     \/ ObserveFirst(a)
     \/ ObserveNewAgain(a)
     \/ ObserveRejectedAgain(a)
  /\ See(a)
  /\ UNCHANGED <<budgets, ledger, generation>>

\* observe, which an exhausted worklist refuses.
Observe(a) ==
  IF Exhausted
  THEN UNCHANGED worklist
  ELSE /\ \/ ObserveExisting(a)
          \/ ObserveIneligible(a)
          \/ ObserveFirst(a)
          \/ ObserveNewAgain(a)
          \/ ObserveRejectedAgain(a)
       /\ See(a)
       /\ UNCHANGED <<budgets, ledger, generation>>

-----------------------------------------------------------------------------
(* Rounds. *)

RoundMayBegin == ~Exhausted /\ round = "idle" /\ Countable(<<"total_execution_attempts">>)

BeginRound ==
  /\ IF Exhausted \/ round # "idle"
     THEN UNCHANGED <<counters, exhaustion>>
     ELSE Count(<<"total_execution_attempts">>)
  /\ round' = IF RoundMayBegin THEN "active" ELSE round
  /\ UNCHANGED <<budgets, items, seen, ledger, overflowing, generation>>

EndProductiveRound ==
  /\ round = "productive"
  /\ LET names == <<"productive_rounds">>
     IN /\ counters' = IF Countable(names)
                       THEN [Counted(names) EXCEPT !["stagnant_rounds"] = 0]
                       ELSE counters
        /\ exhaustion' = IF Countable(names) THEN exhaustion ELSE "CounterOverflow"

EndStagnantRound ==
  /\ round = "active"
  /\ LET names == <<"stagnant_rounds">>
     IN IF Countable(names) /\ counters["stagnant_rounds"] + 1 >= budgets.stagnant
        THEN counters' = Counted(names) /\ Exhaust("StagnantRounds")
        ELSE Count(names)

EndRound ==
  /\ \/ EndProductiveRound
     \/ EndStagnantRound
     \/ round = "idle" /\ UNCHANGED <<counters, exhaustion>>
  /\ round' = "idle"
  /\ UNCHANGED <<budgets, items, seen, ledger, overflowing, generation>>

-----------------------------------------------------------------------------
(* Assessment of a pending candidate, once for each generation. *)

PendingCandidates ==
  {t \in DOMAIN items : items[t].pending /\ items[t].assessed # generation}

AssessmentCounts(t) ==
  << "candidate_assessments",
     IF items[t].assessed = NoGeneration THEN "first_candidate_assessments"
     ELSE "generation_reassessments" >>

AssessmentLimited ==
  budgets.assessments # NoLimit /\ counters["candidate_assessments"] >= budgets.assessments

\* What begin_candidate_assessment returns.
AssessmentGranted(t) ==
  /\ ~Exhausted
  /\ t \in PendingCandidates
  /\ ~AssessmentLimited
  /\ Countable(AssessmentCounts(t))

BeginCandidateAssessment(t) ==
  /\ IF Exhausted \/ t \notin DOMAIN items \/ ~items[t].pending
     THEN UNCHANGED <<counters, exhaustion>>
     ELSE \/ /\ items[t].assessed = generation
             /\ Count(<<"same_generation_assessment_attempts">>)
          \/ /\ items[t].assessed # generation
             /\ AssessmentLimited
             /\ Exhaust("CandidateAssessments")
             /\ UNCHANGED counters
          \/ /\ items[t].assessed # generation
             /\ ~AssessmentLimited
             /\ Count(AssessmentCounts(t))
  /\ items' = IF AssessmentGranted(t) THEN [items EXCEPT ![t].assessed = generation] ELSE items
  /\ UNCHANGED <<budgets, seen, ledger, overflowing, generation, round>>

-----------------------------------------------------------------------------
(* Promotion.  A rebuilt map is committed when its work fits what is left.   *)

\* The limit can_promote reports.
PromotionObstacle ==
  IF budgets.legacy /\ counters["successful_promotions"] >= budgets.promotions
  THEN "Promotions"
  ELSE IF budgets.legacy /\ counters["map_rebuilds"] >= budgets.rebuilds
  THEN "MapRebuilds"
  ELSE "None"

CanPromote ==
  /\ Exhaust(PromotionObstacle)
  /\ UNCHANGED <<budgets, items, seen, counters, ledger, overflowing, generation, round>>

Fits(work) == \A l \in Ledgers : ledger[l] + work[l] <= budgets.analysis[l]

\* The limit can_commit_refinement reports.
CommitObstacle(work) ==
  IF PromotionObstacle # "None" THEN PromotionObstacle
  ELSE IF ~Countable(<<"successful_promotions", "map_rebuilds">>) \/ generation = CounterMax
  THEN "CounterOverflow"
  ELSE IF ~Fits(work) THEN "RefinementAnalysis"
  ELSE "None"

Assessed(batch) ==
  /\ batch # {}
  /\ batch \subseteq DOMAIN items
  /\ \A t \in batch : items[t].pending /\ items[t].assessed = generation

\* Mutant: the width of the batch is not held against the promotions left.
WidthIgnored(batch, work) ==
  /\ ~Exhausted
  /\ Assessed(batch)
  /\ CommitObstacle(work) = "None"
  /\ Cardinality(batch) <= CounterMax - counters["successful_promotions"]

\* What can_commit_batch_refinement returns.  The width of a batch is held
\* against the promotions left after the obstacles, and reports none.
CommitGranted(batch, work) ==
  /\ ~Exhausted
  /\ Assessed(batch)
  /\ CommitObstacle(work) = "None"
  /\ budgets.legacy =>
       /\ Cardinality(batch) <= budgets.promotions - counters["successful_promotions"]
       /\ counters["map_rebuilds"] < budgets.rebuilds
  /\ Cardinality(batch) <= CounterMax - counters["successful_promotions"]

ReportObstacle(batch, work) ==
  exhaustion' = IF ~Exhausted /\ Assessed(batch) THEN CommitObstacle(work) ELSE exhaustion

CanCommitBatch(batch, work) ==
  /\ ReportObstacle(batch, work)
  /\ UNCHANGED <<budgets, items, seen, counters, ledger, overflowing, generation, round>>

BatchIncrease(n) ==
  [c \in CounterNames |->
     CASE c \in {"successful_promotions", "batch_candidates"} -> n
       [] c = "map_rebuilds" -> 1
       [] c = "rebuilds_avoided" -> n - 1
       [] c = "singleton_batches" -> IF n = 1 THEN 1 ELSE 0
       [] OTHER -> 0]

\* The work of a promotion is added to the ledgers, or nothing is.
BatchOverflows(n, work) ==
  \/ \E c \in CounterNames : counters[c] + BatchIncrease(n)[c] > CounterMax
  \/ \E l \in Ledgers : ledger[l] + work[l] > CounterMax
  \/ generation = CounterMax

\* record_batch_promotion asks can_commit_batch_refinement again.  The records
\* keep the generation they were assessed in, so a later one may reopen them.
RecordBatchPromotion(batch, work) ==
  LET n == Cardinality(batch)
      recorded == CommitGranted(batch, work) /\ ~BatchOverflows(n, work)
  IN /\ IF CommitGranted(batch, work)
        THEN exhaustion' = IF BatchOverflows(n, work) THEN "CounterOverflow" ELSE exhaustion
        ELSE ReportObstacle(batch, work)
     /\ IF recorded
        THEN /\ counters' = [c \in CounterNames |-> counters[c] + BatchIncrease(n)[c]]
             /\ ledger' = [l \in Ledgers |-> ledger[l] + work[l]]
             /\ items' = [t \in DOMAIN items |->
                            IF t \in batch
                            THEN [items[t] EXCEPT !.pending = FALSE, !.processed = TRUE,
                                                  !.promoted = TRUE]
                            ELSE items[t]]
             /\ generation' = generation + 1
             /\ round' = Productive
        ELSE UNCHANGED <<counters, ledger, items, generation, round>>
     /\ UNCHANGED <<budgets, seen, overflowing>>

\* An assessed candidate that is not promoted and not in error.
RecordTerminalCandidate(t) ==
  /\ IF t \in DOMAIN items
     THEN LET open == Unresolved(items[t])
              names == OnlyIf(open, <<"terminal_resolutions">>)
          IN /\ Count(names)
             /\ items' = IF Countable(names) THEN [items EXCEPT ![t] = Resolved(@)] ELSE items
             /\ round' = IF open /\ Countable(names) THEN Productive ELSE round
     ELSE UNCHANGED <<counters, exhaustion, items, round>>
  /\ UNCHANGED <<budgets, seen, ledger, overflowing, generation>>

\* One whose analysis failed.
RecordFailedRefinement(t) ==
  /\ IF t \in DOMAIN items
     THEN LET names == <<"failed_refinements">>
          IN /\ Count(names)
             /\ items' = IF Countable(names) THEN [items EXCEPT ![t] = Resolved(@)] ELSE items
             /\ round' = IF Countable(names) THEN Productive ELSE round
     ELSE UNCHANGED <<counters, exhaustion, items, round>>
  /\ UNCHANGED <<budgets, seen, ledger, overflowing, generation>>

\* A candidate whose rebuilt map was not committed stays pending.
RecordRollbackAssessment ==
  /\ Count(<<"rollback_assessments">>)
  /\ UNCHANGED <<budgets, items, seen, ledger, overflowing, generation, round>>

\* pending_candidate_count of summary.
PendingCount == Cardinality({t \in DOMAIN items : items[t].pending}) + Cardinality(overflowing)
=============================================================================
