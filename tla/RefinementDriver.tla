-------------------------- MODULE RefinementDriver --------------------------
(***************************************************************************)
(* The two clients of the refinement worklist.  The driver loop of           *)
(* tools/run-entry/main.cpp runs a session, lets the worklist observe the    *)
(* targets it met, assesses the pending one, rebuilds the function map with  *)
(* it and runs again; a library client calls any operation in any order,     *)
(* with batches of any width.                                               *)
(*                                                                         *)
(* A session stops at the first indirect target that is no function of its   *)
(* map, so it reports hits on known entries and at most one candidate.  What *)
(* the session, the assessment and the rebuild decide about a target depends *)
(* on the guest's code, which is any.  The loop is one thread: each action   *)
(* is one call of it.                                                       *)
(***************************************************************************)
EXTENDS RefinementWorklist

CONSTANTS
  Clients,  \* which of "run-entry" and "library" there are
  MaxCalls  \* how many operations the library client calls

ASSUME ClientAssumption == Clients \subseteq {"run-entry", "library"} /\ MaxCalls \in Nat

VARIABLES
  client,      \* who drives this worklist
  calls,       \* the calls the library client has made
  phase,       \* where the loop is
  processMap,  \* the targets process_map has an entry for
  reported,    \* what run_result still has to be observed
  candidate,   \* the assessed candidates, at most one
  rebuilt,     \* the work of the map that is rebuilt but not committed, or {}
  refined,     \* refined, and in the next round whether there is a last result
  ended        \* the stop reason of final_result

loop == <<client, phase, processMap, reported, candidate, rebuilt, refined, ended>>

vars == <<worklist, loop, calls>>

Phases == {"library", "begin", "run", "observe", "assess", "judge", "build", "commit", "end",
           "done"}

Endings == {"None", "Session", "GuestMemoryResourceLimitExceeded",
            "IndirectTargetRefinementBudgetExceeded", "InfrastructureFailure"}

Init ==
  /\ WorklistInit
  /\ client \in Clients
  /\ calls = 0
  /\ phase = IF client = "library" THEN "library" ELSE "begin"
  /\ processMap = {}
  /\ reported = <<>>
  /\ candidate = {}
  /\ rebuilt = {}
  /\ refined = FALSE
  /\ ended = "None"

-----------------------------------------------------------------------------
(* The library client. *)

Works == [Ledgers -> Costs]

Library ==
  /\ phase = "library"
  /\ calls < MaxCalls
  /\ calls' = calls + 1
  /\ \/ \E a \in Assessments : Observe(a)
     \/ BeginRound
     \/ EndRound
     \/ CanPromote
     \/ RecordRollbackAssessment
     \/ \E t \in Targets : \/ BeginCandidateAssessment(t)
                           \/ RecordTerminalCandidate(t)
                           \/ RecordFailedRefinement(t)
     \/ \E batch \in SUBSET Targets, work \in Works : \/ CanCommitBatch(batch, work)
                                                      \/ RecordBatchPromotion(batch, work)
  /\ UNCHANGED loop

-----------------------------------------------------------------------------
(* The driver loop. *)

\* begin_round, which an exhausted worklist refuses.
StartRound ==
  /\ phase = "begin"
  /\ BeginRound
  /\ phase' = IF RoundMayBegin THEN "run" ELSE "done"
  /\ ended' = IF RoundMayBegin THEN ended ELSE "IndirectTargetRefinementBudgetExceeded"
  /\ UNCHANGED <<client, processMap, reported, candidate, rebuilt, refined>>

\* The run stops at an unknown target, having passed through known ones.
Met(hits, a) ==
  /\ \A i \in DOMAIN hits : hits[i].target \in processMap /\ hits[i].kind = "existing"
  /\ a.target \notin processMap
  /\ a.kind # "existing"

RunStopsAtUnknown ==
  /\ phase = "run"
  /\ \E hit \in {<<>>} \cup {<<a>> : a \in Assessments}, a \in Assessments :
       Met(hit, a) /\ reported' = Append(hit, a)
  /\ phase' = "observe"
  /\ UNCHANGED <<worklist, client, processMap, candidate, rebuilt, refined, ended>>

\* It stops for another reason, and nothing is observed.
RunStops ==
  /\ phase = "run"
  /\ phase' = "observe"
  /\ UNCHANGED <<worklist, client, processMap, reported, candidate, rebuilt, refined, ended>>

\* A later generation that cannot start keeps the last complete result.
RunIsBlocked ==
  /\ phase = "run"
  /\ refined
  /\ phase' = "done"
  /\ ended' = "GuestMemoryResourceLimitExceeded"
  /\ UNCHANGED <<worklist, client, processMap, reported, candidate, rebuilt, refined>>

\* session.run, assess_indirect_targets and the rebuild may fail outright.
Fail ==
  /\ phase \in {"run", "judge", "build"}
  /\ phase' = "done"
  /\ ended' = "InfrastructureFailure"
  /\ UNCHANGED <<worklist, client, processMap, reported, candidate, rebuilt, refined>>

ObserveReported ==
  /\ phase = "observe"
  /\ reported # <<>>
  /\ Observe(Head(reported))
  /\ reported' = Tail(reported)
  /\ UNCHANGED <<client, phase, processMap, candidate, rebuilt, refined, ended>>

AllObserved ==
  /\ phase = "observe"
  /\ reported = <<>>
  /\ phase' = IF PendingCandidates = {} THEN "end" ELSE "assess"
  /\ refined' = FALSE
  /\ UNCHANGED <<worklist, client, processMap, reported, candidate, rebuilt, ended>>

\* Mutant: a refused assessment is tried again.
BeginAssessmentAgain ==
  /\ phase = "assess"
  /\ candidate = {}
  /\ \E t \in PendingCandidates :
       /\ BeginCandidateAssessment(t)
       /\ candidate' = IF AssessmentGranted(t) THEN {t} ELSE {}
  /\ UNCHANGED <<client, phase, processMap, reported, rebuilt, refined, ended>>

\* begin_candidate_assessment and can_promote on the pending candidate.
BeginAssessment ==
  /\ phase = "assess"
  /\ candidate = {}
  /\ \E t \in PendingCandidates :
       /\ BeginCandidateAssessment(t)
       /\ candidate' = IF AssessmentGranted(t) THEN {t} ELSE {}
       /\ phase' = IF AssessmentGranted(t) THEN "assess" ELSE "end"
  /\ UNCHANGED <<client, processMap, reported, rebuilt, refined, ended>>

MayPromote ==
  /\ phase = "assess"
  /\ candidate # {}
  /\ CanPromote
  /\ phase' = IF ~Exhausted /\ PromotionObstacle = "None" THEN "judge" ELSE "end"
  /\ UNCHANGED <<client, processMap, reported, candidate, rebuilt, refined, ended>>

\* The assessment of this generation refuses the candidate, in error or not.
Refuse ==
  /\ phase \in {"judge", "build"}
  /\ \E t \in candidate : RecordFailedRefinement(t) \/ RecordTerminalCandidate(t)
  /\ phase' = "end"
  /\ UNCHANGED <<client, processMap, reported, candidate, rebuilt, refined, ended>>

\* Or it may be promoted, and the maps of its module are rebuilt with it.
Build ==
  /\ phase = "judge"
  /\ phase' = "build"
  /\ UNCHANGED <<worklist, client, processMap, reported, candidate, rebuilt, refined, ended>>

\* all_promoted
Built ==
  /\ phase = "build"
  /\ \E work \in Works : rebuilt' = {work}
  /\ phase' = "commit"
  /\ UNCHANGED <<worklist, client, processMap, reported, candidate, refined, ended>>

\* Mutant: the map is replaced without asking.
CommitUnasked ==
  /\ phase = "commit"
  /\ \E work \in rebuilt : RecordBatchPromotion(candidate, work)
  /\ processMap' = processMap \cup candidate
  /\ refined' = TRUE
  /\ phase' = "end"
  /\ UNCHANGED <<client, reported, candidate, rebuilt, ended>>

\* The map is replaced, and then the promotion is recorded.
Commit ==
  /\ phase = "commit"
  /\ \E work \in rebuilt :
       /\ CommitGranted(candidate, work)
       /\ RecordBatchPromotion(candidate, work)
  /\ processMap' = processMap \cup candidate
  /\ refined' = TRUE
  /\ phase' = "end"
  /\ UNCHANGED <<client, reported, candidate, rebuilt, ended>>

\* What remains of the exhaustion can_commit_batch_refinement reports, and the
\* rollback that is recorded for each candidate.
RollBack ==
  /\ phase = "commit"
  /\ \E work \in rebuilt :
       /\ ~CommitGranted(candidate, work)
       /\ IF Countable(<<"rollback_assessments">>)
          THEN ReportObstacle(candidate, work)
          ELSE exhaustion' = "CounterOverflow"
  /\ counters' = Counted(<<"rollback_assessments">>)
  /\ phase' = "end"
  /\ UNCHANGED <<budgets, items, seen, ledger, overflowing, generation, round>>
  /\ UNCHANGED <<client, processMap, reported, candidate, rebuilt, refined, ended>>

\* A round that promoted something is followed by another.
FinishRound ==
  /\ phase = "end"
  /\ EndRound
  /\ phase' = IF refined THEN "begin" ELSE "done"
  /\ ended' = IF refined THEN ended
              ELSE IF exhaustion' # "None" THEN "IndirectTargetRefinementBudgetExceeded"
              ELSE "Session"
  /\ candidate' = {}
  /\ rebuilt' = {}
  /\ UNCHANGED <<client, processMap, reported, refined>>

Loop ==
  /\ \/ StartRound \/ RunStopsAtUnknown \/ RunStops \/ RunIsBlocked \/ Fail
     \/ ObserveReported \/ AllObserved \/ BeginAssessment \/ MayPromote \/ Refuse
     \/ Build \/ Built \/ Commit \/ RollBack \/ FinishRound
  /\ UNCHANGED calls

Next == Library \/ Loop

\* One thread runs the loop, and each call of it returns.
Spec == Init /\ [][Next]_vars /\ WF_vars(Loop)

-----------------------------------------------------------------------------
(* Properties. *)

\* The worklist and the driver keep values of their types (the types of
\* indirect_target.hpp and the locals of the loop).
TypeOK ==
  /\ budgets \in BudgetType
  /\ DOMAIN items \subseteq Targets
  /\ \A t \in DOMAIN items : items[t] \in WorkItem
  /\ seen \subseteq Targets \X Sites
  /\ counters \in [CounterNames -> 0..CounterMax]
  /\ ledger \in [Ledgers -> Nat]
  /\ exhaustion \in Dimensions
  /\ overflowing \subseteq Targets
  /\ generation \in 0..CounterMax
  /\ round \in {"idle", "active", "productive"}
  /\ calls \in 0..MaxCalls
  /\ phase \in Phases
  /\ processMap \subseteq Targets
  /\ candidate \subseteq Targets
  /\ ended \in Endings

\* No order of observations, rounds, assessments and batches spends more than
\* the budgets allow, and the ledgers agree with the records they account for.
LedgersHold ==
  /\ Cardinality(DOMAIN items) = counters["unique_candidates"]
  /\ counters["unique_candidates"] <= Limit
  /\ budgets.assessments # NoLimit => counters["candidate_assessments"] <= budgets.assessments
  /\ budgets.legacy => /\ counters["successful_promotions"] <= budgets.promotions
                       /\ counters["map_rebuilds"] <= budgets.rebuilds
  /\ \A l \in Ledgers : ledger[l] <= budgets.analysis[l]
  /\ counters["map_rebuilds"] = generation
  /\ counters["rebuilds_avoided"]
       = counters["successful_promotions"] - counters["map_rebuilds"]
  /\ exhaustion # "CounterOverflow" =>
       counters["candidate_assessments"]
         = counters["first_candidate_assessments"] + counters["generation_reassessments"]

\* Exhaustion is reported once, with the limit that was met first, and from
\* then on the worklist takes no candidate, assesses none and promotes none:
\* only a counter that is full may still replace the reason.
ExhaustionStands ==
  [][Exhausted =>
       /\ exhaustion' \in {exhaustion, "CounterOverflow"}
       /\ generation' = generation
       /\ DOMAIN items' = DOMAIN items
       /\ \A t \in DOMAIN items :
            /\ items'[t].pending => items[t].pending
            /\ items'[t].assessed = items[t].assessed
            /\ items'[t].promoted = items[t].promoted]_vars

\* When the loop ends by itself every candidate it took up is settled, or a
\* limit is reported that leaves it pending; and the map it ends with holds
\* just the promotions that were recorded, one generation for each.
DriverSettles ==
  client = "run-entry" =>
    /\ phase # "commit" => processMap = {t \in DOMAIN items : items[t].promoted}
    /\ ended = "Session" => ~Exhausted /\ PendingCount = 0
    /\ ended = "IndirectTargetRefinementBudgetExceeded" => Exhausted
    /\ Cardinality(processMap) = generation

\* The candidates that may still be promoted.
Unpromoted == Limit - Cardinality(processMap)

\* The calls left in this round, and the next one's start.
CallsLeft ==
  CASE phase = "begin" -> 11
    [] phase = "run" -> 10
    [] phase = "observe" -> 7 + Len(reported)
    [] phase = "assess" -> IF candidate = {} THEN 6 ELSE 5
    [] phase = "judge" -> 4
    [] phase = "build" -> 3
    [] phase = "commit" -> 2
    [] phase = "end" -> IF refined THEN 12 ELSE 1
    [] OTHER -> 0

\* Why the loop ends: each call brings the end of its round nearer, and only a
\* promotion is followed by another round, of which there are no more than
\* candidates.  A refused assessment, a rollback or an exhausted worklist never
\* starts a round over.
LoopAdvances ==
  [][client = "run-entry" =>
       /\ Unpromoted \in Nat /\ CallsLeft \in Nat
       /\ \/ Unpromoted' < Unpromoted
          \/ Unpromoted' = Unpromoted /\ CallsLeft' < CallsLeft]_vars

\* The loop ends, whatever the guest jumps to and with no limit configured.
DriverEnds == client = "run-entry" ~> phase = "done"
=============================================================================
