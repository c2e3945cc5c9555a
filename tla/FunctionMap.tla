---------------------------- MODULE FunctionMap ----------------------------
(***************************************************************************)
(* The function map of one module, FunctionMapBuilder::build of              *)
(* src/switchrecomp/analysis/function_map.cpp: entries are seeded, analysed   *)
(* in waves of as many as there are workers, extended by the direct calls     *)
(* they make, analysed once more against every entry found, and published     *)
(* with the pairs of functions that own the same instruction.  A build may    *)
(* reuse the records of a published map.                                      *)
(*                                                                         *)
(* An entry has no aliases; one budget of instructions and one of functions   *)
(* stand for all of AnalysisBudgets.                                         *)
(***************************************************************************)
EXTENDS GuestCode

CONSTANTS
  Jobs,             \* the seeds and workers of a first build
  MaxFunctions,     \* budgets.max_functions
  MaxInstructions,  \* budgets.max_instructions
  MaxPasses         \* budgets.max_boundary_finalization_passes

JobType == [candidates : SUBSET Slots, trusted : SUBSET Slots, workers : Nat \ {0}]

ASSUME FunctionMapAssumption ==
  /\ Jobs \subseteq JobType
  /\ {MaxFunctions, MaxInstructions, MaxPasses} \subseteq Nat

VARIABLES
  job,         \* the input and the options
  phase,       \* where the build is
  stop,        \* ~options.continue_after_function_failure
  published,   \* the map that the last build returned
  records,     \* records
  pending,     \* pending
  processed,   \* processed
  known,       \* known_function_entries
  reused,      \* reused_originals
  previous,    \* previous_boundary_entries
  discovered,  \* discovered_boundary_entries
  wave,        \* the entries of the wave not merged yet; they are merged in order
  boundaries,  \* cfg_options.known_function_entries
  checkpoint,  \* boundary_checkpoints: what had been discovered when a record was analysed
  cursor,      \* the record last visited by the finalization pass
  changed,     \* boundary_set_changed
  passes,      \* accounting.boundary_finalization_passes
  consumed     \* analyzed_instructions

build == <<records, pending, processed, known, reused, discovered, wave, boundaries,
           checkpoint, cursor, changed, passes, consumed>>
map == <<code, job, phase, stop, published, previous, build>>

NoMap == [functions |-> [e \in {} |-> {}], conflicts |-> {}]

NewRecord(strong) ==
  [strong |-> strong, trust |-> IF strong THEN "Trusted" ELSE "Candidate",
   status |-> "Discovered", cfg |-> FALSE, owned |-> {}, calls |-> {}, branches |-> {},
   deps |-> {}]

\* A record whose analysis is dropped keeps its evidence and trust.
Dropped(r, status) ==
  [r EXCEPT !.status = status, !.cfg = FALSE, !.owned = {}, !.calls = {}, !.branches = {}]

\* What populate_ownership and populate_boundary_dependencies write.
Analyzed(r, graph) ==
  [r EXCEPT !.status = "Analyzed", !.cfg = TRUE, !.owned = graph.owned,
            !.calls = graph.calls, !.branches = graph.branches,
            !.deps = known \cap graph.owned]

\* add_evidence with a seed that is worthy of a boundary.
Evident(r) == [r EXCEPT !.strong = TRUE, !.trust = "Trusted"]

Callable(graph) == graph.calls \cap Slots

-----------------------------------------------------------------------------
(* Seeding. *)

Start(fresh, kept) ==
  /\ discovered' = {}
  /\ wave' = {}
  /\ boundaries' = {}
  /\ checkpoint' = [e \in {} |-> {}]
  /\ cursor' = -1
  /\ changed' = FALSE
  /\ passes' = 0
  /\ consumed' = 0
  /\ pending' = fresh
  /\ processed' = kept
  /\ reused' = kept
  /\ phase' = IF Cardinality(DOMAIN records') > MaxFunctions THEN "failed" ELSE "waves"

\* A first build: only entries worthy of a boundary are known as one.
BeginBuild ==
  /\ phase = "start"
  /\ LET entries == job.candidates \cup job.trusted
     IN /\ records' = [e \in entries |-> NewRecord(e \in job.trusted)]
        /\ known' = job.trusted
        /\ previous' = {}
        /\ Start(entries, {})
  /\ UNCHANGED <<code, job, stop, published>>

\* function_owns_address or a recorded dependency, for one of some boundaries.
TouchedBy(r, bounds) == (r.owned \cup r.deps) \cap bounds # {}

\* A build that reuses the published records: every entry and call target of
\* theirs is a boundary, whatever its trust, and a record that a boundary new
\* to them touches is dropped.  The seeds repeat the evidence of each record.
BeginReuse(introduced) ==
  LET old == published.functions
      bounds == DOMAIN old \cup UNION {old[e].calls \cap Slots : e \in DOMAIN old}
      touched == {e \in DOMAIN old : TouchedBy(old[e], introduced \ bounds)}
      copy(e) == IF e \in touched THEN [Dropped(old[e], "Discovered") EXCEPT !.deps = {}]
                 ELSE old[e]
      seeded(e) == IF e \notin DOMAIN old THEN NewRecord(TRUE)
                   ELSE IF old[e].strong \/ e \in introduced THEN Evident(copy(e)) ELSE copy(e)
  IN /\ known' = bounds \cup introduced
     /\ previous' = bounds
     /\ records' = [e \in DOMAIN old \cup introduced |-> seeded(e)]
     /\ Start(touched \cup (introduced \ DOMAIN old), DOMAIN old \ touched)

-----------------------------------------------------------------------------
(* Waves. *)

\* Mutant: an entry is analysed again each time it is a call target.
UnprocessedAny == pending

Unprocessed == pending \ processed

FirstOf(set, n) == {e \in set : Cardinality({f \in set : f <= e}) <= n}

\* The graphs of a wave are computed in parallel, each from the boundaries that
\* were known when it began, and merged in the order of their entries.
TakeWave ==
  /\ phase = "waves" /\ wave = {} /\ pending # {}
  /\ LET entries == FirstOf(Unprocessed, job.workers)
     IN /\ wave' = entries
        /\ pending' = IF entries = Unprocessed THEN {}
                      ELSE {e \in pending : e > Max(entries)}
        /\ processed' = processed \cup entries
        /\ boundaries' = known
  /\ UNCHANGED <<code, job, phase, stop, published, records, known, reused, previous,
                 discovered, checkpoint, cursor, changed, passes, consumed>>

\* add_seed for the direct-call targets of the record of entry, and
\* invalidate_reused for those that are new boundaries.
Expand(entry, record, graph) ==
  LET targets == Callable(graph)
      new == targets \ known
      merged == [records EXCEPT ![entry] = record]
      touched == {e \in reused : TouchedBy(records[e], new \ previous)}
      seeded(e) == IF e \in targets
                   THEN IF e \in DOMAIN records THEN Evident(merged[e]) ELSE NewRecord(TRUE)
                   ELSE merged[e]
  IN /\ records' = [e \in DOMAIN records \cup targets |->
                      IF e \in touched THEN [Dropped(seeded(e), "Discovered") EXCEPT !.deps = {}]
                      ELSE seeded(e)]
     /\ known' = known \cup targets
     /\ pending' = pending \cup targets \cup touched
     /\ processed' = processed \ touched
     /\ reused' = reused \ touched
     /\ discovered' = discovered \cup new
     /\ consumed' = consumed + Cardinality(graph.owned)
     /\ phase' = IF consumed' > MaxInstructions \/ Cardinality(DOMAIN records') > MaxFunctions
                 THEN "failed" ELSE phase

FailEntry(entry) ==
  /\ records' = [records EXCEPT ![entry] = Dropped(@, "Failed")]
  /\ UNCHANGED <<known, pending, processed, reused, discovered, consumed>>

\* process_graph
MergeGraph ==
  /\ phase = "waves" /\ wave # {}
  /\ LET entry == Min(wave)
         graph == Analysis(entry, boundaries)
     IN IF graph.ok THEN Expand(entry, Analyzed(records[entry], graph), graph)
        ELSE FailEntry(entry) /\ phase' = IF stop THEN "failed" ELSE phase
  /\ wave' = wave \ {Min(wave)}
  /\ UNCHANGED <<code, job, stop, published, previous, boundaries, checkpoint, cursor, changed,
                 passes>>

-----------------------------------------------------------------------------
(* Finalization. *)

BeginPass ==
  /\ phase = "waves" /\ wave = {} /\ pending = {}
  /\ phase' = "finalize"
  /\ boundaries' = known
  /\ cursor' = -1
  /\ changed' = FALSE
  /\ passes' = passes + 1
  /\ UNCHANGED <<code, job, stop, published, previous, records, pending, processed, known,
                 reused, discovered, wave, checkpoint, consumed>>

\* Mutant: a record that the waves analysed is taken as final.
DueUnanalyzed(e) == e > cursor /\ e \notin reused /\ records[e].status = "Discovered"

\* A record to analyse again: not one that is reused or failed, nor one that a
\* pass analysed already and no boundary found since touches.
Due(e) ==
  /\ e > cursor
  /\ e \notin reused
  /\ records[e].cfg \/ records[e].status = "Discovered"
  /\ e \in DOMAIN checkpoint /\ records[e].status = "Analyzed" =>
       (discovered \ checkpoint[e]) \cap records[e].owned # {}

FinalizeRecord ==
  /\ phase = "finalize"
  /\ \E e \in DOMAIN records :
       /\ Due(e) /\ \A f \in DOMAIN records : f < e => ~Due(f)
       /\ cursor' = e
       /\ LET graph == Analysis(e, boundaries)
          IN IF graph.ok
             THEN /\ Expand(e, Analyzed(records[e], graph), graph)
                  /\ checkpoint' = [f \in DOMAIN checkpoint \cup {e} |->
                                    IF f = e THEN discovered ELSE checkpoint[f]]
                  /\ changed' = (changed \/ ~(Callable(graph) \subseteq known))
             ELSE FailEntry(e) /\ UNCHANGED <<phase, checkpoint, changed>>
  /\ UNCHANGED <<code, job, stop, published, previous, wave, boundaries, passes>>

\* Another pass only if this one found a boundary.
EndPass ==
  /\ phase = "finalize"
  /\ \A e \in DOMAIN records : ~Due(e)
  /\ pending' = {}
  /\ IF ~changed THEN phase' = "publish" /\ UNCHANGED <<boundaries, cursor, changed, passes>>
     ELSE IF passes >= MaxPasses
     THEN phase' = "failed" /\ UNCHANGED <<boundaries, cursor, changed, passes>>
     ELSE /\ boundaries' = known
          /\ cursor' = -1
          /\ changed' = FALSE
          /\ passes' = passes + 1
          /\ UNCHANGED phase
  /\ UNCHANGED <<code, job, stop, published, previous, records, processed, known, reused,
                 discovered, wave, checkpoint, consumed>>

-----------------------------------------------------------------------------
(* Publication. *)

\* The pairs of functions that own an instruction in common.
Overlaps(functions) ==
  {pair \in SUBSET DOMAIN functions :
     \E e, f \in pair : e < f /\ pair = {e, f} /\ functions[e].cfg /\ functions[f].cfg
                          /\ functions[e].owned \cap functions[f].owned # {}}

Marked(functions, conflicts) ==
  [e \in DOMAIN functions |->
     IF e \in UNION conflicts THEN [functions[e] EXCEPT !.trust = "Conflict", !.status = "Conflict"]
     ELSE functions[e]]

\* What validate_finalized_function_map asks of the records that the build does
\* not ensure by itself.
Consistent(functions) ==
  \A e \in DOMAIN functions :
    (functions[e].status = "Conflict") <=> (functions[e].trust = "Conflict")

Finished ==
  LET conflicts == Overlaps(records)
  IN [functions |-> Marked(records, conflicts), conflicts |-> conflicts]

-----------------------------------------------------------------------------
(* What a map is. *)

\* The entries that are boundaries by their evidence.
Strong(functions) == {e \in DOMAIN functions : functions[e].strong}

\* The map that a first build publishes depends on nothing but the code and the
\* entries found: every function owns what is reachable when all boundaries are
\* known, however late they were, every direct call leads to a record, and the
\* conflicts are the overlapping pairs.  One finalization pass is enough.
ExactMap(functions) ==
  \A e \in DOMAIN functions :
    functions[e].cfg =>
      /\ Analysis(e, Strong(functions)).ok
      /\ functions[e].owned = Analysis(e, Strong(functions)).owned
      /\ functions[e].calls \cap Slots \subseteq Strong(functions)
=============================================================================
