--------------------------- MODULE MapRefinement ---------------------------
(***************************************************************************)
(* Indirect targets met at run time become functions of the map:             *)
(* assess_indirect_target decides whether one may, and                       *)
(* refine_process_function_map_batch of                                      *)
(* src/switchrecomp/analysis/indirect_target.cpp rebuilds the map with those  *)
(* that may, reusing the published one, and accepts the result only when      *)
(* each has become a function of its own.                                    *)
(*                                                                         *)
(* The process is one module; provenance of the target and the evidence of    *)
(* the process image are the set of slots declared to be functions.          *)
(***************************************************************************)
EXTENDS FunctionMap

CONSTANTS
  Declared,           \* the slots with exact static evidence
  RequireEvidence,    \* options.require_independent_static_evidence
  MaxBatch,           \* the largest batch refined
  MaxRefinements      \* the refinements of a behaviour

ASSUME MapRefinementAssumption ==
  /\ Declared \subseteq Slots
  /\ RequireEvidence \in BOOLEAN
  /\ {MaxBatch, MaxRefinements} \subseteq Nat

VARIABLES
  batch,        \* the assessments being refined, by target
  refinements,  \* how many batches were tried
  outcome       \* "none", "promoted" or "refused", of the last one

mapVars == <<map, batch, refinements, outcome>>

MapInit ==
  /\ code \in Programs
  /\ job \in Jobs
  /\ phase = "start"
  /\ stop = FALSE
  /\ published = NoMap
  /\ records = [e \in {} |-> {}]
  /\ previous = {} /\ pending = {} /\ processed = {} /\ known = {} /\ reused = {}
  /\ boundaries = {}
  /\ discovered = {} /\ wave = {}
  /\ checkpoint = [e \in {} |-> {}]
  /\ cursor = -1 /\ passes = 0 /\ consumed = 0
  /\ changed = FALSE
  /\ batch = [t \in {} |-> {}]
  /\ refinements = 0
  /\ outcome = "none"

-----------------------------------------------------------------------------
(* Assessment. *)

Functions == published.functions

Owners(a) == {e \in DOMAIN Functions : Functions[e].cfg /\ a \in Functions[e].owned}

\* configure_cfg_options: every entry is a boundary, whatever its trust.
Bounded(entry, more) == Analysis(entry, DOMAIN Functions \cup more)

Undecoded(graph) == \E a \in graph.owned : code[a].kind = "unknown"

NoReconciliation == [with |-> {}, helper |-> {}]

\* reconcile_analyzer_overclaim: the function at e and the candidate overlap in
\* exactly one helper that both branch to and the candidate calls; with it as a
\* boundary the two are disjoint.
Separates(e, graph, h, old, new, shared) ==
  /\ Functions[e].trust # "Conflict" /\ Functions[e].status # "Conflict"
  /\ old.ok /\ new.ok
  /\ shared.ok /\ shared.unresolved = {}
  /\ shared.owned = graph.owned \cap Functions[e].owned
  /\ old.owned \cap new.owned = {}
  /\ h \notin old.owned \cup new.owned
  /\ old.owned \subseteq Functions[e].owned /\ new.owned \subseteq graph.owned

Reconciled(e, target, graph) ==
  LET helpers == graph.calls \cap graph.owned \cap graph.branches
                   \cap Functions[e].owned \cap Functions[e].branches
      apart(h) == Separates(e, graph, h, Bounded(e, {h}), Bounded(target, {h}), Bounded(h, {h}))
  IN IF Cardinality(helpers) = 1 /\ \A h \in helpers : apart(h)
     THEN [with |-> {e}, helper |-> helpers]
     ELSE NoReconciliation

Decision(kind, graph, reconciliation) ==
  [kind |-> kind, graph |-> graph, reconciliation |-> reconciliation]

Rejected(kind) == Decision(kind, [owned |-> {}, calls |-> {}], NoReconciliation)

\* An entry that the map has.
AssessEntry(record) ==
  IF record.trust = "Conflict" \/ record.status = "Conflict" THEN "FunctionBoundaryConflict"
  ELSE IF record.trust # "Trusted" \/ ~record.cfg THEN "InsufficientEvidence"
  ELSE "TrustedExistingEntry"

\* assess_indirect_target
AssessGraph(target, graph, met, reconciliation) ==
  IF Cardinality(graph.owned) > MaxInstructions THEN Rejected("BudgetExceeded")
  ELSE IF ~graph.ok \/ Undecoded(graph) THEN Rejected("AnalysisFailed")
  ELSE IF met # {} /\ reconciliation = NoReconciliation THEN Rejected("FunctionBoundaryConflict")
  ELSE IF RequireEvidence /\ target \notin Declared THEN Rejected("InsufficientEvidence")
  ELSE Decision("TrustedNewEntry", Bounded(target, reconciliation.helper), reconciliation)

Assess(target) ==
  LET met(graph) == {e \in DOMAIN Functions : Functions[e].owned \cap graph.owned # {}}
      reconciliation(graph) ==
        IF Cardinality(met(graph)) = 1 THEN Reconciled(Max(met(graph)), target, graph)
        ELSE NoReconciliation
      assess(graph) == AssessGraph(target, graph, met(graph), reconciliation(graph))
  IN IF target \notin Slots THEN Rejected("NonExecutable")
     ELSE IF target \in DOMAIN Functions THEN Rejected(AssessEntry(Functions[target]))
     ELSE IF Owners(target) # {} THEN Rejected("InsideExistingFunction")
     ELSE assess(Bounded(target, {}))

-----------------------------------------------------------------------------
(* Refinement. *)

Idle == phase \in {"published", "rejected"}

\* The batch, and the entries the build is to add to the map.
Introduce(targets, assessed) ==
  LET introduced == targets \cup UNION {assessed[t].graph.calls : t \in targets}
  IN /\ \A t \in targets : assessed[t].kind = "TrustedNewEntry"
     /\ \A s, t \in targets :
          s # t => assessed[s].graph.owned \cap assessed[t].graph.owned = {}
     /\ batch' = assessed
     /\ IF introduced \subseteq Slots THEN BeginReuse(introduced)
        ELSE phase' = "failed" /\ UNCHANGED <<previous, build>>

\* refine_process_function_map_batch, up to the build: only new entries whose
\* ownership is disjoint, each with the entries it calls.
Refine ==
  /\ Idle
  /\ published # NoMap
  /\ refinements < MaxRefinements
  /\ \E targets \in SUBSET (Slots \cup {Outside}) :
       /\ Cardinality(targets) \in 1 .. MaxBatch
       /\ Introduce(targets, [t \in targets |-> Assess(t)])
       /\ refinements' = refinements + 1
       /\ outcome' = "none"
       /\ stop' = TRUE
  /\ UNCHANGED <<code, job, published>>

\* boundary_refinement_matches
Matches(functions, target) ==
  \A e \in batch[target].reconciliation.with, h \in batch[target].reconciliation.helper :
    /\ functions[target].owned = batch[target].graph.owned
    /\ functions[e].owned = Bounded(e, {h}).owned
    /\ h \in DOMAIN functions /\ functions[h].owned = Bounded(h, {h}).owned
    /\ {f \in DOMAIN functions : functions[f].cfg /\ h \in functions[f].owned} = {h}
    /\ functions[e].owned \cap functions[target].owned = {}

\* Mutant: a target is promoted whatever conflicts it ended up in.
PromotesInConflict(functions) ==
  \A t \in DOMAIN batch : functions[t].cfg /\ Matches(functions, t)

\* What the result of a refinement must be to replace the map.
Promotes(functions) ==
  \A t \in DOMAIN batch :
    /\ functions[t].status # "Conflict"
    /\ functions[t].cfg
    /\ Matches(functions, t)

\* A build ends: its map is published, if it is consistent and, after a
\* refinement, if every target of the batch was promoted.
Publish ==
  /\ phase = "publish"
  /\ LET accepted == Consistent(Finished.functions) /\ Promotes(Finished.functions)
     IN /\ published' = IF accepted THEN Finished ELSE published
        /\ phase' = IF accepted THEN "published" ELSE "rejected"
        /\ outcome' = IF DOMAIN batch = {} THEN "none"
                      ELSE IF accepted THEN "promoted" ELSE "refused"
  /\ UNCHANGED <<code, job, stop, previous, build, batch, refinements>>

\* A build that failed leaves the map as it was.
Abandon ==
  /\ phase = "failed"
  /\ phase' = "rejected"
  /\ outcome' = IF DOMAIN batch = {} THEN "none" ELSE "refused"
  /\ UNCHANGED <<code, job, stop, published, previous, build, batch, refinements>>

Build ==
  /\ BeginBuild \/ TakeWave \/ MergeGraph \/ BeginPass \/ FinalizeRecord \/ EndPass
  /\ UNCHANGED <<batch, refinements, outcome>>

MapNext == Build \/ Refine \/ Publish \/ Abandon

MapSpec == MapInit /\ [][MapNext]_mapVars

-----------------------------------------------------------------------------
(* Properties. *)

\* What a first build publishes.
MapIsExact ==
  phase = "published" /\ refinements = 0 => ExactMap(published.functions) /\ passes = 1

\* What a promotion does to the map: the targets are trusted functions without a
\* conflict, none owns more than before, one owns less (or is left without an
\* analysis) only when an entry that is new lies in what it owned, and every new
\* conflict has a part in an entry that the promotion brought.
PromotionHolds ==
  [][outcome' = "promoted" /\ outcome = "none" =>
       LET old == published.functions
           new == published'.functions
           added == DOMAIN new \ DOMAIN old
       IN /\ \A t \in DOMAIN batch : new[t].cfg /\ new[t].trust = "Trusted"
          /\ \A e \in DOMAIN old :
               /\ new[e].owned \subseteq old[e].owned
               /\ new[e].owned # old[e].owned => old[e].owned \cap added # {}
          /\ \A pair \in published'.conflicts \ published.conflicts : pair \cap added # {}]_mapVars

\* The old map stays in force when an analysis that the refinement needs fails
\* (docs/ARCHITECTURE.md, milestone 27): what a promotion replaces it with has
\* an analysis of every function that had one.
FailureKeepsMap ==
  [][outcome' = "promoted" /\ outcome = "none" =>
       \A e \in DOMAIN published.functions :
         published.functions[e].cfg => published'.functions[e].cfg]_mapVars

\* The stages before a build or a refinement ends, and what is left of the waves
\* and of the finalization.
StagesLeft ==
  CASE phase = "start" -> 5
    [] phase = "waves" -> 4
    [] phase = "finalize" -> 3
    [] phase = "publish" -> 2
    [] phase = "failed" -> 1
    [] OTHER -> 0

WavesLeft ==
  <<Cardinality(reused), CodeSize - Cardinality(processed), Cardinality(wave),
    Cardinality(pending)>>

PassesLeft == <<MaxPasses + 1 - passes, CodeSize - cursor>>

\* The lexicographic order of tuples of one length.
Below(low, high) ==
  \E i \in DOMAIN high : low[i] < high[i] /\ \A j \in 1 .. i - 1 : low[j] = high[j]

\* Why a build ends: no stage of it is gone back to.  In the waves a record that is
\* processed already returns to the worklist only when it was reused until then,
\* which it is not again; otherwise a wave takes entries that were in none, merges
\* one, or drops what was processed.  And the finalization goes up the records, in
\* no more passes than the budget has.
BuildsAdvance ==
  [][\/ Idle /\ refinements' = refinements + 1
     \/ /\ refinements' = refinements
        /\ \/ StagesLeft' < StagesLeft
           \/ /\ phase = "waves" /\ phase' = "waves"
              /\ WavesLeft \in Nat \X Nat \X Nat \X Nat
              /\ Below(WavesLeft', WavesLeft)
           \/ /\ phase = "finalize" /\ phase' = "finalize"
              /\ PassesLeft \in Nat \X Nat
              /\ Below(PassesLeft', PassesLeft)]_mapVars
=============================================================================
