------------------------ MODULE MapRefinement_proofs ------------------------
(***************************************************************************)
(* Proofs about FunctionMap and the MapRefinement that rebuilds it: the map  *)
(* of a first build is exact, and a refinement that is promoted takes no     *)
(* more from the functions of the old map than the new entries account for.  *)
(***************************************************************************)
EXTENDS CfgAnalyzer_proofs, MapRefinement

-----------------------------------------------------------------------------
(* The function map: what analyses give, and what becomes of a record. *)

Targets == Slots \cup {Outside}

\* The analysis of an entry for every set of boundaries.
Verdicts == [e \in Slots |-> [K \in SUBSET Slots |-> Analysis(e, K)]]

\* An analysis with more boundaries finds less.
Shrinking(v) ==
  \A e \in Slots : \A K \in SUBSET Slots :
    /\ v[e][K].owned \in SUBSET Slots
    /\ v[e][K].calls \in SUBSET Targets /\ v[e][K].branches \in SUBSET Targets
    /\ \A L \in SUBSET K : v[e][K].owned \subseteq v[e][L].owned /\ v[e][K].calls \subseteq v[e][L].calls

\* A boundary takes edges away.
LEMMA FlowShrinks ==
  ASSUME NEW entry, NEW K, NEW L \in SUBSET K, NEW a
  PROVE  Inner(Flow(entry, K, Slots, a)) \subseteq Inner(Flow(entry, L, Slots, a))
<1>1. CASE Transfer(entry, K, a)
  <2>1. \A e \in Flow(entry, K, Slots, a) : ~e.internal
    <3> DEFINE left == [target |-> code[a].target, kind |-> "FunctionTransfer",
                        internal |-> FALSE /\ code[a].target \in Slots]
    <3>1. Flow(entry, K, Slots, a) = {left}
      BY <1>1 DEF Flow, Transfer
    <3>2. ~left.internal
      BY Zenon
    <3> QED BY <3>1, <3>2, Zenon
  <2> QED BY <2>1 DEF Inner
<1>2. CASE ~Transfer(entry, K, a)
  <2>1. ~Transfer(entry, L, a)
    BY <1>2 DEF Transfer
  <2>2. Flow(entry, K, Slots, a) = Flow(entry, L, Slots, a)
    BY <1>2, <2>1 DEF Flow
  <2> QED BY <2>2
<1> QED BY <1>1, <1>2

LEMMA ReachShrinks ==
  ASSUME NEW entry \in Slots, NEW K \in SUBSET Slots, NEW L \in SUBSET K
  PROVE  Reach(entry, K, Slots) \subseteq Reach(entry, L, Slots)
<1>1. /\ entry \in Reach(entry, L, Slots)
      /\ \A a \in Reach(entry, L, Slots) : Inner(Flow(entry, L, Slots, a)) \subseteq Reach(entry, L, Slots)
  BY ReachLeast
<1>2. \A a \in Reach(entry, L, Slots) : Inner(Flow(entry, K, Slots, a)) \subseteq Reach(entry, L, Slots)
  BY <1>1, FlowShrinks
<1> QED BY <1>1, <1>2, ReachLeast

\* What analyze_control_flow returns, field by field.
LEMMA AnalysisIs ==
  ASSUME NEW e, NEW K
  PROVE  /\ Analysis(e, K).owned = Reach(e, K, Slots)
         /\ Analysis(e, K).calls = {code[a].target : a \in {x \in Reach(e, K, Slots) : code[x].kind = "call"}}
         /\ Analysis(e, K).branches = {code[a].target : a \in {x \in Reach(e, K, Slots) :
                                          code[x].kind = "jump" /\ ~Transfer(e, K, x)}}
BY DEF Analysis

LEMMA VerdictsShrink == code \in Programs => Shrinking(Verdicts)
<1> SUFFICES ASSUME code \in Programs, NEW e \in Slots, NEW K \in SUBSET Slots
             PROVE  /\ Analysis(e, K).owned \in SUBSET Slots
                    /\ Analysis(e, K).calls \in SUBSET Targets /\ Analysis(e, K).branches \in SUBSET Targets
                    /\ \A L \in SUBSET K : Analysis(e, K).owned \subseteq Analysis(e, L).owned
                                           /\ Analysis(e, K).calls \subseteq Analysis(e, L).calls
  BY DEF Verdicts, Shrinking
<1>1. Reach(e, K, Slots) \in SUBSET Slots
  BY ReachLeast
<1>2. \A a \in Slots : code[a].target \in Targets
  BY GuestCodeAssumption DEF Instruction, Targets
<1>3. \A L \in SUBSET K : Reach(e, K, Slots) \subseteq Reach(e, L, Slots)
  BY ReachShrinks
<1> QED BY <1>1, <1>2, <1>3, AnalysisIs

LEMMA SameAnalysis == code' = code => \A e, K : Analysis(e, K)' = Analysis(e, K)
<1> SUFFICES ASSUME code' = code PROVE \A e, K : Analysis(e, K)' = Analysis(e, K)
  OBVIOUS
<1>1. \A e, K : Reach(e, K, Slots)' = Reach(e, K, Slots)
  BY SMTT(30) DEF Reach, Flow, Transfer
<1>2. \A e, K : (Contradicted(e, K, Slots))' <=> Contradicted(e, K, Slots)
  <2> SUFFICES ASSUME NEW e, NEW K
               PROVE  (Contradicted(e, K, Slots))' <=> Contradicted(e, K, Slots)
    OBVIOUS
  <2>2. Reach(e, K, Slots)' = Reach(e, K, Slots)
    BY <1>1
  <2>3. \A a : Inner(Flow(e, K, Slots, a))' = Inner(Flow(e, K, Slots, a))
    BY DEF Flow, Transfer
  <2>1. Starts(e, K, Slots)' = Starts(e, K, Slots)
    BY <2>2, <2>3 DEF Starts
  <2> QED BY <2>1, <2>2 DEF Contradicted, Transfer
<1>3. \A a : Sound(a)' <=> Sound(a)
  BY DEF Sound
<1> QED BY <1>1, <1>2, <1>3 DEF Analysis, Transfer

LEMMA SameVerdicts == code' = code => Verdicts' = Verdicts
BY SameAnalysis DEF Verdicts

\* Trust, statuses and records.
Trusts == {"Trusted", "Candidate", "Conflict"}
Statuses == {"Discovered", "Analyzed", "Failed", "Conflict"}

RecordType ==
  [strong : BOOLEAN, trust : Trusts, status : Statuses, cfg : BOOLEAN, owned : SUBSET Slots,
   calls : SUBSET Targets, branches : SUBSET Targets, deps : SUBSET Slots]

\* An analysed record owns what is reachable when some of the boundaries are
\* known, and what it calls and depends on is among them.
Fits(v, e, r, bounds) ==
  /\ r \in RecordType
  /\ r.strong => r.trust # "Candidate"
  /\ r.calls \cap Slots \subseteq bounds
  /\ r.deps \subseteq bounds
  /\ r.cfg => \E K \in SUBSET bounds : r.owned = v[e][K].owned /\ r.calls = v[e][K].calls
  /\ ~r.cfg => r.owned = {}

\* The same analysis, whatever the evidence.
Alike(q, r) ==
  (q.cfg <=> r.cfg) /\ q.owned = r.owned /\ q.calls = r.calls /\ q.deps = r.deps

\* A record without an analysis.
Bare(r) == ~r.cfg /\ r.owned = {} /\ r.calls = {}

LEMMA FitsMore ==
  ASSUME NEW v, NEW e, NEW r, NEW b, NEW c, b \subseteq c, Fits(v, e, r, b)
  PROVE  Fits(v, e, r, c)
BY DEF Fits

LEMMA BareFits ==
  ASSUME NEW v, NEW e, NEW b, NEW r \in RecordType, Bare(r), r.deps \subseteq b,
         r.strong => r.trust # "Candidate"
  PROVE  Fits(v, e, r, b)
BY DEF Fits, Bare

\* The fields of the records that the builder makes.
LEMMA NewIs ==
  ASSUME NEW s \in BOOLEAN
  PROVE  LET r == NewRecord(s)
         IN /\ r \in RecordType /\ Bare(r) /\ r.deps = {} /\ r.status = "Discovered"
            /\ (r.strong <=> s) /\ (s => r.trust = "Trusted")
<1> DEFINE r == NewRecord(s)
<1>1. (r.strong <=> s) /\ ~r.cfg
  BY Zenon DEF NewRecord
<1>2. r.trust = (IF s THEN "Trusted" ELSE "Candidate") /\ r.status = "Discovered"
      /\ r.owned = {} /\ r.calls = {} /\ r.deps = {}
  BY DEF NewRecord
<1>3. r \in RecordType
  BY DEF NewRecord, RecordType, Trusts, Statuses
<1> HIDE DEF r
<1> QED BY <1>1, <1>2, <1>3 DEF Bare, r

LEMMA EvidentIs ==
  ASSUME NEW r \in RecordType
  PROVE  LET q == Evident(r)
         IN /\ q \in RecordType /\ Alike(q, r) /\ q.status = r.status
            /\ q.strong /\ q.trust = "Trusted"
<1> DEFINE q == Evident(r)
<1>1. q \in RecordType
  BY DEF Evident, RecordType, Trusts
<1>2. q.status = r.status /\ q.trust = "Trusted" /\ q.owned = r.owned /\ q.calls = r.calls
      /\ q.deps = r.deps
  BY DEF Evident, RecordType
<1>3. q.strong /\ (q.cfg <=> r.cfg)
  BY DEF Evident, RecordType
<1> HIDE DEF q
<1> QED BY <1>1, <1>2, <1>3 DEF Alike, q

LEMMA DroppedIs ==
  ASSUME NEW r \in RecordType, NEW s \in Statuses
  PROVE  LET q == Dropped(r, s)
         IN /\ q \in RecordType /\ Bare(q) /\ q.status = s /\ q.deps = r.deps
            /\ (q.strong <=> r.strong) /\ q.trust = r.trust
<1> DEFINE q == Dropped(r, s)
<1>1. q \in RecordType
  BY DEF Dropped, RecordType
<1>2. q.status = s /\ q.trust = r.trust /\ q.owned = {} /\ q.calls = {} /\ q.deps = r.deps
  BY DEF Dropped, RecordType
<1>3. ~q.cfg /\ (q.strong <=> r.strong)
  BY DEF Dropped, RecordType
<1> HIDE DEF q
<1> QED BY <1>1, <1>2, <1>3 DEF Bare, q

\* A record that a boundary touches forgets its dependencies as well.
LEMMA ForgottenIs ==
  ASSUME NEW r \in RecordType, Bare(r)
  PROVE  LET q == [r EXCEPT !.deps = {}]
         IN /\ q \in RecordType /\ Bare(q) /\ q.status = r.status /\ q.deps = {}
            /\ (q.strong <=> r.strong) /\ q.trust = r.trust
<1> DEFINE q == [r EXCEPT !.deps = {}]
<1>1. q \in RecordType
  BY DEF RecordType
<1>2. q.status = r.status /\ q.trust = r.trust /\ q.owned = r.owned /\ q.calls = r.calls
      /\ q.deps = {}
  BY DEF RecordType
<1>3. (q.cfg <=> r.cfg) /\ (q.strong <=> r.strong)
  BY DEF RecordType
<1> HIDE DEF q
<1> QED BY <1>1, <1>2, <1>3 DEF Bare, q

LEMMA AnalyzedIs ==
  ASSUME NEW r \in RecordType, NEW g, g.owned \in SUBSET Slots, g.calls \in SUBSET Targets,
         g.branches \in SUBSET Targets
  PROVE  LET q == Analyzed(r, g)
         IN /\ q \in RecordType /\ q.cfg /\ q.owned = g.owned /\ q.calls = g.calls
            /\ q.status = "Analyzed" /\ q.deps = known \cap g.owned
            /\ (q.strong <=> r.strong) /\ q.trust = r.trust
<1> DEFINE q == Analyzed(r, g)
<1>1. q \in RecordType
  BY DEF Analyzed, RecordType, Statuses
<1>2. q.status = "Analyzed" /\ q.trust = r.trust /\ q.owned = g.owned /\ q.calls = g.calls
      /\ q.deps = known \cap g.owned
  BY DEF Analyzed, RecordType
<1>3. q.cfg /\ (q.strong <=> r.strong)
  BY DEF Analyzed, RecordType
<1> HIDE DEF q
<1> QED BY <1>1, <1>2, <1>3 DEF q

-----------------------------------------------------------------------------
(* Maps of records, and what a graph adds to one. *)

Whole(v, funcs, bounds) ==
  /\ DOMAIN funcs \in SUBSET Slots
  /\ funcs = [e \in DOMAIN funcs |-> funcs[e]]
  /\ \A e \in DOMAIN funcs : Fits(v, e, funcs[e], bounds)

\* The records that the boundaries among targets make the build analyse again.
Touched(targets) == {e \in reused : TouchedBy(records[e], (targets \ known) \ previous)}

\* What Expand makes of the record at e.
Grown(e, entry, graph, targets) ==
  /\ records'[e].strong <=> e \in targets \/ (e \in DOMAIN records /\ records[e].strong)
  /\ e \in Touched(targets) \/ e \notin DOMAIN records =>
       Bare(records'[e]) /\ records'[e].status = "Discovered"
  /\ e = entry => /\ records'[e].cfg /\ records'[e].status = "Analyzed"
                  /\ records'[e].owned = graph.owned /\ records'[e].calls = graph.calls
  /\ e \in DOMAIN records \ (Touched(targets) \cup {entry}) =>
       Alike(records'[e], records[e]) /\ records'[e].status = records[e].status

\* process_graph and the finalization pass keep a map of records one.
LEMMA Expanded ==
  ASSUME NEW entry \in DOMAIN records \ reused, NEW B \in SUBSET known, NEW graph,
         graph = Verdicts[entry][B],
         Shrinking(Verdicts), Whole(Verdicts, records, known), known \in SUBSET Slots,
         reused \in SUBSET DOMAIN records,
         Expand(entry, Analyzed(records[entry], graph), graph)
  PROVE  LET targets == Callable(graph)
         IN /\ targets \in SUBSET Slots
            /\ DOMAIN records' = DOMAIN records \cup targets
            /\ Whole(Verdicts, records', known')
            /\ \A e \in DOMAIN records' : Grown(e, entry, graph, targets)
<1> DEFINE targets == Callable(graph)
           touched == Touched(targets)
           A == Analyzed(records[entry], graph)
           merged == [records EXCEPT ![entry] = A]
           seeded(e) == IF e \in targets
                        THEN IF e \in DOMAIN records THEN Evident(merged[e]) ELSE NewRecord(TRUE)
                        ELSE merged[e]
           forgotten(e) == [Dropped(seeded(e), "Discovered") EXCEPT !.deps = {}]
<1>1. targets \in SUBSET Slots
  BY DEF Callable
<1>2. /\ records' = [e \in DOMAIN records \cup targets |->
                       IF e \in touched THEN forgotten(e) ELSE seeded(e)]
      /\ known' = known \cup targets
  BY DEF Expand, Touched
<1>3. entry \in Slots /\ B \in SUBSET Slots
  BY DEF Whole
<1>4. graph.owned \in SUBSET Slots /\ graph.calls \in SUBSET Targets /\ graph.branches \in SUBSET Targets
  BY <1>3 DEF Shrinking
<1>5. \A e \in DOMAIN records : Fits(Verdicts, e, records[e], known) /\ records[e] \in RecordType
  BY DEF Whole, Fits
<1>6. /\ A \in RecordType /\ A.cfg /\ A.owned = graph.owned /\ A.calls = graph.calls
      /\ A.status = "Analyzed" /\ A.deps = known \cap graph.owned
      /\ (A.strong <=> records[entry].strong) /\ A.trust = records[entry].trust
  BY <1>4, <1>5, AnalyzedIs
<1>7. Fits(Verdicts, entry, A, known')
  <2>1. A.calls \cap Slots \subseteq known' /\ A.deps \subseteq known' /\ B \in SUBSET known'
    BY <1>2, <1>6 DEF Callable
  <2>2. A.strong => A.trust # "Candidate"
    BY <1>5, <1>6 DEF Fits
  <2> HIDE DEF A
  <2> QED BY <1>6, <2>1, <2>2 DEF Fits
<1>8. touched \in SUBSET (DOMAIN records \ {entry})
  BY DEF Touched
<1>9. merged[entry] = A /\ \A e \in DOMAIN records \ {entry} : merged[e] = records[e]
  <2> HIDE DEF A
  <2> QED OBVIOUS
<1>10. \A e \in DOMAIN records : Fits(Verdicts, e, merged[e], known') /\ merged[e] \in RecordType
  <2> HIDE DEF merged, A
  <2> QED BY <1>2, <1>5, <1>6, <1>7, <1>9, FitsMore
<1> HIDE DEF merged, A, targets, touched
<1>11. ASSUME NEW e \in DOMAIN records \cup targets
       PROVE  Fits(Verdicts, e, records'[e], known') /\ Grown(e, entry, graph, targets)
  <2>1. records'[e] = IF e \in touched THEN forgotten(e) ELSE seeded(e)
    BY <1>2
  <2>5. forgotten(e) = [Dropped(seeded(e), "Discovered") EXCEPT !.deps = {}]
    OBVIOUS
  <2>6. seeded(e) = IF e \in targets
                    THEN IF e \in DOMAIN records THEN Evident(merged[e]) ELSE NewRecord(TRUE)
                    ELSE merged[e]
    OBVIOUS
  <2> HIDE DEF seeded, forgotten
  <2>2. CASE e \in DOMAIN records /\ e \in targets
    <3> DEFINE s == Evident(merged[e])
    <3>1. /\ s \in RecordType /\ Alike(s, merged[e]) /\ s.status = merged[e].status
          /\ s.strong /\ s.trust = "Trusted" /\ seeded(e) = s
      BY <1>10, <2>2, <2>6, EvidentIs
    <3> HIDE DEF s
    <3>2. CASE e \in touched
      <4>1. Dropped(s, "Discovered") \in RecordType /\ Bare(Dropped(s, "Discovered"))
            /\ Dropped(s, "Discovered").status = "Discovered" /\ Dropped(s, "Discovered").strong
            /\ Dropped(s, "Discovered").trust = "Trusted"
        BY <3>1, DroppedIs DEF Statuses
      <4>2. /\ records'[e] \in RecordType /\ Bare(records'[e]) /\ records'[e].status = "Discovered"
            /\ records'[e].deps = {} /\ records'[e].strong /\ records'[e].trust = "Trusted"
        BY <2>1, <2>5, <3>1, <3>2, <4>1, ForgottenIs
      <4>3. Fits(Verdicts, e, records'[e], known')
        BY <4>2, BareFits
      <4> QED BY <1>8, <2>2, <3>2, <4>2, <4>3 DEF Grown, touched
    <3>3. CASE e \notin touched
      <4>1. records'[e] = s
        BY <2>1, <3>1, <3>3
      <4>2. Fits(Verdicts, e, s, known')
        BY <1>10, <2>2, <3>1 DEF Fits, Alike
      <4>3. (Alike(s, records[e]) /\ s.status = records[e].status) \/ e = entry
        BY <1>9, <2>2, <3>1 DEF Alike
      <4>4. e = entry => s.cfg /\ s.status = "Analyzed" /\ s.owned = graph.owned /\ s.calls = graph.calls
        BY <1>6, <1>9, <3>1 DEF Alike
      <4> QED BY <2>2, <3>1, <3>3, <4>1, <4>2, <4>3, <4>4 DEF Grown, touched
    <3> QED BY <3>2, <3>3
  <2>3. CASE e \in DOMAIN records /\ e \notin targets
    <3>1. seeded(e) = merged[e] /\ merged[e] \in RecordType /\ Fits(Verdicts, e, merged[e], known')
      BY <1>10, <2>3, <2>6
    <3>2. CASE e \in touched
      <4>1. merged[e] = records[e] /\ records[e] \in RecordType
        BY <1>8, <1>9, <3>1, <3>2
      <4> DEFINE d == Dropped(records[e], "Discovered")
      <4>2. d \in RecordType /\ Bare(d) /\ d.status = "Discovered"
            /\ (d.strong <=> records[e].strong) /\ d.trust = records[e].trust
        BY <4>1, DroppedIs DEF Statuses
      <4>3. records'[e] = [d EXCEPT !.deps = {}]
        BY <2>1, <2>5, <3>1, <3>2, <4>1
      <4> HIDE DEF d
      <4>4. /\ records'[e] \in RecordType /\ Bare(records'[e]) /\ records'[e].status = "Discovered"
            /\ records'[e].deps = {} /\ (records'[e].strong <=> records[e].strong)
            /\ records'[e].trust = records[e].trust
        BY <4>2, <4>3, ForgottenIs
      <4>5. Fits(Verdicts, e, records'[e], known')
        <5>1. records[e].strong => records[e].trust # "Candidate"
          BY <1>5, <2>3 DEF Fits
        <5>2. records'[e].deps \subseteq known'
          BY <4>4
        <5> QED BY <4>4, <5>1, <5>2, BareFits
      <4> QED BY <1>8, <2>3, <3>2, <4>4, <4>5 DEF Grown, touched
    <3>3. CASE e \notin touched
      <4>1. records'[e] = merged[e]
        BY <2>1, <3>1, <3>3
      <4>2. e # entry => merged[e] = records[e]
        BY <1>9, <2>3
      <4>3. e = entry => merged[e] = A
        BY <1>9
      <4> QED BY <1>6, <2>3, <3>1, <3>3, <4>1, <4>2, <4>3 DEF Grown, touched, Alike
    <3> QED BY <3>2, <3>3
  <2>4. CASE e \notin DOMAIN records
    <3>1. e \in targets /\ e \notin touched
      BY <1>8, <2>4
    <3>2. records'[e] = NewRecord(TRUE)
      BY <2>1, <2>4, <2>6, <3>1
    <3> DEFINE n == NewRecord(TRUE)
    <3>3. n \in RecordType /\ Bare(n) /\ n.deps = {} /\ n.status = "Discovered"
          /\ n.strong /\ n.trust = "Trusted"
      BY NewIs
    <3> HIDE DEF n
    <3>4. Fits(Verdicts, e, n, known')
      BY <3>3, BareFits
    <3> QED BY <2>4, <3>1, <3>2, <3>3, <3>4 DEF Grown, n
  <2> QED BY <2>2, <2>3, <2>4
<1>12. DOMAIN records' = DOMAIN records \cup targets
       /\ records' = [e \in DOMAIN records' |-> records'[e]]
  BY <1>2
<1>13. DOMAIN records' \in SUBSET Slots
  BY <1>1, <1>12 DEF Whole
<1> QED BY <1>1, <1>11, <1>12, <1>13 DEF Whole, targets

\* A graph that failed drops the analysis of its record, and nothing else.
LEMMA FailedIs ==
  ASSUME NEW entry \in DOMAIN records, Whole(Verdicts, records, known), FailEntry(entry)
  PROVE  /\ DOMAIN records' = DOMAIN records
         /\ Whole(Verdicts, records', known')
         /\ Bare(records'[entry]) /\ records'[entry].status = "Failed"
         /\ records'[entry].strong <=> records[entry].strong
         /\ \A e \in DOMAIN records \ {entry} : records'[e] = records[e]
<1> DEFINE d == Dropped(records[entry], "Failed")
<1>1. records' = [records EXCEPT ![entry] = d] /\ known' = known
  BY DEF FailEntry
<1>2. records[entry] \in RecordType /\ Fits(Verdicts, entry, records[entry], known)
  BY DEF Whole, Fits
<1>3. d \in RecordType /\ Bare(d) /\ d.status = "Failed" /\ d.deps = records[entry].deps
      /\ (d.strong <=> records[entry].strong) /\ d.trust = records[entry].trust
  BY <1>2, DroppedIs DEF Statuses
<1> HIDE DEF d
<1>4. Fits(Verdicts, entry, d, known)
  <2>1. d.deps \subseteq known /\ (d.strong => d.trust # "Candidate")
    BY <1>2, <1>3 DEF Fits
  <2> QED BY <1>3, <2>1, BareFits
<1>5. DOMAIN records' = DOMAIN records /\ records'[entry] = d
      /\ \A e \in DOMAIN records \ {entry} : records'[e] = records[e]
  BY <1>1
<1>6. records' = [e \in DOMAIN records' |-> records'[e]]
  BY <1>1
<1>7. Whole(Verdicts, records', known')
  BY <1>1, <1>4, <1>5, <1>6 DEF Whole
<1> QED BY <1>3, <1>5, <1>7

-----------------------------------------------------------------------------
(* The inductive invariant of the builds. *)

\* The published map stands on its own entries.
PublishedHolds ==
  /\ Whole(Verdicts, Functions, DOMAIN Functions)
  /\ published.conflicts = Overlaps(Functions)

Building == phase \in {"waves", "finalize", "publish"}

Added == DOMAIN records \ DOMAIN Functions

\* What a build that does not keep the record old has made of it.
Reduced(r, old, added) == r.owned \subseteq old.owned /\ old.owned \cap added # {}

\* The sets that a build keeps, and what became of the records it reuses.
Stock ==
  /\ Whole(Verdicts, records, known)
  /\ previous = DOMAIN Functions
  /\ previous \subseteq known /\ known \subseteq DOMAIN records
  /\ pending \subseteq DOMAIN records /\ processed \subseteq DOMAIN records
  /\ reused \subseteq processed \cap previous
  /\ DOMAIN batch \subseteq Strong(records)
  /\ \A e \in previous : IF e \in reused THEN Alike(records[e], Functions[e])
                         ELSE Reduced(records[e], Functions[e], Added)

BuildHolds ==
  Building =>
    /\ Stock
    /\ wave \subseteq processed \ reused
    /\ wave # {} \/ phase = "finalize" => previous \subseteq boundaries /\ boundaries \subseteq known

\* The record is what the analysis with all boundaries known gives.
Final(v, e, r, bounds) == v[e][bounds].ok /\ r.owned = v[e][bounds].owned

\* A first build takes the strong entries as boundaries.
Fresh ==
  /\ DOMAIN Functions = {}
  /\ known = Strong(records)
  /\ \A e \in DOMAIN records : records[e].cfg <=> records[e].status = "Analyzed"

\* Its waves leave no record without a verdict.
FreshWaves ==
  /\ Fresh
  /\ passes = 0 /\ DOMAIN checkpoint = {}
  /\ \A e \in DOMAIN records :
       records[e].status = "Discovered" => e \in (pending \ processed) \cup wave

\* Its first pass finds no boundary, and makes the records up to n final.
FreshUpTo(n) ==
  /\ Fresh
  /\ passes = 1 /\ boundaries = known
  /\ \A e \in DOMAIN records :
       /\ records[e].status # "Discovered"
       /\ records[e].cfg /\ e <= n => Final(Verdicts, e, records[e], known)

FirstBuild ==
  refinements = 0 =>
    /\ phase = "waves" => FreshWaves
    /\ phase = "finalize" => FreshUpTo(cursor) /\ ~changed /\ \A e \in DOMAIN checkpoint : e \in Slots /\ e <= cursor
    /\ phase = "publish" => FreshUpTo(CodeSize)
    /\ MapIsExact

MapTyped ==
  /\ code \in Programs /\ job \in Jobs
  /\ refinements \in Nat /\ cursor \in Int
  /\ wave \in SUBSET Slots
  /\ phase = "start" => DOMAIN Functions = {} /\ DOMAIN batch = {} /\ refinements = 0

MapInv == MapTyped /\ PublishedHolds /\ BuildHolds /\ FirstBuild

\* A graph that was merged leaves a build in order.
LEMMA StockGrows ==
  ASSUME Stock, PublishedHolds, Shrinking(Verdicts), Verdicts' = Verdicts,
         NEW entry \in DOMAIN records \ reused, NEW graph, graph = Verdicts[entry][boundaries],
         previous \subseteq boundaries, boundaries \subseteq known,
         Expand(entry, Analyzed(records[entry], graph), graph),
         UNCHANGED <<published, previous, batch>>
  PROVE  /\ Stock'
         /\ reused' \subseteq reused /\ processed \ reused \subseteq processed' \ reused'
         /\ known \subseteq known'
         /\ \A e \in DOMAIN records' : Grown(e, entry, graph, Callable(graph))
         /\ DOMAIN records' = DOMAIN records \cup Callable(graph)
<1> DEFINE targets == Callable(graph)
           touched == Touched(targets)
<1>1. known \in SUBSET Slots /\ DOMAIN records \in SUBSET Slots
  BY DEF Stock, Whole
<1>2. /\ targets \in SUBSET Slots
      /\ DOMAIN records' = DOMAIN records \cup targets
      /\ Whole(Verdicts, records', known')
      /\ \A e \in DOMAIN records' : Grown(e, entry, graph, targets)
  <2>1. Whole(Verdicts, records, known) /\ reused \in SUBSET DOMAIN records
    BY DEF Stock
  <2>2. boundaries \in SUBSET known
    OBVIOUS
  <2> QED BY <1>1, <2>1, <2>2, Expanded
<1>3. /\ known' = known \cup targets
      /\ pending' = pending \cup targets \cup touched
      /\ processed' = processed \ touched
      /\ reused' = reused \ touched
  BY DEF Expand, Touched
<1>4. touched \subseteq reused /\ entry \notin touched
  BY DEF Touched
<1>5. Functions' = Functions /\ DOMAIN Functions' = DOMAIN Functions
  BY DEF Functions
<1>6. Added \subseteq Added'
  BY <1>2, <1>5 DEF Added
<1>7. DOMAIN batch' \subseteq Strong(records')
  <2>1. \A e \in Strong(records) : e \in Strong(records')
    BY <1>2 DEF Strong, Grown
  <2> QED BY <2>1 DEF Stock
<1>8. ASSUME NEW e \in previous
      PROVE  IF e \in reused' THEN Alike(records'[e], Functions[e])
             ELSE Reduced(records'[e], Functions[e], Added')
  <2>1. /\ e \in DOMAIN Functions /\ e \in DOMAIN records /\ e \in DOMAIN records'
        /\ Grown(e, entry, graph, targets)
    BY <1>2 DEF Stock
  <2>2. Fits(Verdicts, e, Functions[e], DOMAIN Functions)
    BY <2>1 DEF PublishedHolds, Whole
  <2>3. IF e \in reused THEN Alike(records[e], Functions[e]) ELSE Reduced(records[e], Functions[e], Added)
    BY DEF Stock
  <2> HIDE DEF targets
  <2>4. CASE e \in touched
    <3>1. e \in reused /\ TouchedBy(records[e], (targets \ known) \ previous)
      BY <2>4 DEF Touched
    <3>2. PICK x \in (targets \ known) \ previous : x \in records[e].owned \cup records[e].deps
      BY <3>1 DEF TouchedBy
    <3>3. records[e].owned = Functions[e].owned /\ records[e].deps = Functions[e].deps
      BY <2>3, <3>1 DEF Alike
    <3>4. Functions[e].deps \subseteq previous
      BY <2>2 DEF Fits, Stock
    <3>5. x \in Functions[e].owned
      BY <3>2, <3>3, <3>4
    <3>6. x \in Added'
      BY <1>2, <1>5, <3>2 DEF Added, Stock
    <3>7. records'[e].owned = {}
      BY <2>1, <2>4 DEF Grown, Bare
    <3> QED BY <1>3, <2>4, <3>5, <3>6, <3>7 DEF Reduced
  <2>5. CASE e = entry
    <3>1. e \notin reused /\ Reduced(records[e], Functions[e], Added)
      BY <2>3, <2>5
    <3>2. Functions[e].cfg
      BY <2>2, <3>1 DEF Fits, Reduced
    <3>3. PICK K \in SUBSET DOMAIN Functions : Functions[e].owned = Verdicts[e][K].owned
      BY <2>2, <3>2 DEF Fits
    <3>4. K \in SUBSET boundaries /\ boundaries \in SUBSET Slots /\ e \in Slots
      BY <1>1, <2>1, <3>3 DEF Stock
    <3>5. graph.owned \subseteq Functions[e].owned
      BY <2>5, <3>3, <3>4 DEF Shrinking
    <3>6. records'[e].owned = graph.owned
      BY <2>1, <2>5 DEF Grown
    <3>7. Functions[e].owned \cap Added' # {}
      BY <1>6, <3>1 DEF Reduced
    <3> QED BY <1>3, <3>1, <3>5, <3>6, <3>7 DEF Reduced
  <2>6. CASE e \notin touched /\ e # entry
    <3>1. Alike(records'[e], records[e])
      BY <2>1, <2>6 DEF Grown
    <3>2. CASE e \in reused
      BY <1>3, <2>3, <2>6, <3>1, <3>2 DEF Alike
    <3>3. CASE e \notin reused
      <4>1. records'[e].owned = records[e].owned
        BY <3>1 DEF Alike
      <4> QED BY <1>3, <1>6, <2>3, <3>3, <4>1 DEF Reduced
    <3> QED BY <3>2, <3>3
  <2> QED BY <2>4, <2>5, <2>6
<1>9. Stock'
  <2>1. Whole(Verdicts', records', known')
    BY <1>2
  <2>2. previous' = DOMAIN Functions' /\ previous' \subseteq known' /\ known' \subseteq DOMAIN records'
    BY <1>2, <1>3, <1>5 DEF Stock
  <2>3. pending' \subseteq DOMAIN records' /\ processed' \subseteq DOMAIN records'
        /\ reused' \subseteq processed' \cap previous'
    BY <1>2, <1>3, <1>4 DEF Stock
  <2>4. \A e \in previous' : IF e \in reused' THEN Alike(records'[e], Functions'[e])
                             ELSE Reduced(records'[e], Functions'[e], Added')
    <3> HIDE DEF targets, touched
    <3> QED BY <1>5, <1>8
  <2> HIDE DEF targets, touched
  <2> QED BY <1>7, <2>1, <2>2, <2>3, <2>4 DEF Stock
<1> QED BY <1>2, <1>3, <1>4, <1>9

\* A graph that failed leaves a build in order, too.
LEMMA StockDrops ==
  ASSUME Stock, Verdicts' = Verdicts, NEW entry \in DOMAIN records \ reused, FailEntry(entry),
         UNCHANGED <<published, previous, batch>>
  PROVE  /\ Stock' /\ known' = known /\ reused' = reused /\ processed' = processed /\ pending' = pending
         /\ DOMAIN records' = DOMAIN records
         /\ Bare(records'[entry]) /\ records'[entry].status = "Failed"
         /\ records'[entry].strong <=> records[entry].strong
         /\ \A e \in DOMAIN records \ {entry} : records'[e] = records[e]
<1>1. Whole(Verdicts, records, known)
  BY DEF Stock
<1>2. /\ DOMAIN records' = DOMAIN records
      /\ Whole(Verdicts, records', known')
      /\ Bare(records'[entry]) /\ records'[entry].status = "Failed"
      /\ records'[entry].strong <=> records[entry].strong
      /\ \A e \in DOMAIN records \ {entry} : records'[e] = records[e]
  BY <1>1, FailedIs
<1>3. known' = known /\ reused' = reused /\ processed' = processed /\ pending' = pending
  BY DEF FailEntry
<1>4. Functions' = Functions /\ Added' = Added
  BY <1>2 DEF Functions, Added
<1>5. Strong(records') = Strong(records)
  BY <1>2 DEF Strong
<1>6. ASSUME NEW e \in previous
      PROVE  IF e \in reused' THEN Alike(records'[e], Functions[e])
             ELSE Reduced(records'[e], Functions[e], Added)
  <2>1. IF e \in reused THEN Alike(records[e], Functions[e]) ELSE Reduced(records[e], Functions[e], Added)
    BY DEF Stock
  <2>2. e \in DOMAIN records
    BY DEF Stock
  <2>3. CASE e = entry
    <3>1. records'[e].owned = {}
      BY <1>2, <2>3 DEF Bare
    <3> QED BY <1>3, <2>1, <2>3, <3>1 DEF Reduced
  <2>4. CASE e # entry
    BY <1>2, <1>3, <2>1, <2>2, <2>4
  <2> QED BY <2>3, <2>4
<1>7. Stock'
  <2>1. Whole(Verdicts', records', known')
    BY <1>2
  <2>2. /\ previous' = DOMAIN Functions' /\ previous' \subseteq known' /\ known' \subseteq DOMAIN records'
        /\ pending' \subseteq DOMAIN records' /\ processed' \subseteq DOMAIN records'
        /\ reused' \subseteq processed' \cap previous' /\ DOMAIN batch' \subseteq Strong(records')
    BY <1>2, <1>3, <1>4, <1>5 DEF Stock
  <2>3. \A e \in previous' : IF e \in reused' THEN Alike(records'[e], Functions'[e])
                             ELSE Reduced(records'[e], Functions'[e], Added')
    BY <1>4, <1>6
  <2> QED BY <2>1, <2>2, <2>3 DEF Stock
<1> QED BY <1>2, <1>3, <1>7

\* A first build stays one: every target that it adds is a boundary.
LEMMA FreshGrows ==
  ASSUME Fresh, UNCHANGED published, NEW entry \in DOMAIN records, NEW graph, NEW targets,
         known' = known \cup targets, DOMAIN records' = DOMAIN records \cup targets,
         known \subseteq DOMAIN records,
         \A e \in DOMAIN records' : Grown(e, entry, graph, targets)
  PROVE  Fresh'
<1>1. DOMAIN Functions' = {}
  BY DEF Fresh, Functions
<1>2. known' = Strong(records')
  BY DEF Fresh, Strong, Grown
<1>3. ASSUME NEW e \in DOMAIN records' PROVE records'[e].cfg <=> records'[e].status = "Analyzed"
  <2>1. CASE e \in Touched(targets) \/ e \notin DOMAIN records
    BY <2>1 DEF Grown, Bare
  <2>2. CASE e = entry
    BY <2>2 DEF Grown
  <2>3. CASE e \in DOMAIN records \ (Touched(targets) \cup {entry})
    BY <2>3 DEF Grown, Alike, Fresh
  <2> QED BY <2>1, <2>2, <2>3
<1> QED BY <1>1, <1>2, <1>3 DEF Fresh

LEMMA FreshDrops ==
  ASSUME Fresh, UNCHANGED <<published, known>>, NEW entry \in DOMAIN records,
         DOMAIN records' = DOMAIN records,
         Bare(records'[entry]), records'[entry].status = "Failed",
         records'[entry].strong <=> records[entry].strong,
         \A e \in DOMAIN records \ {entry} : records'[e] = records[e]
  PROVE  Fresh'
<1>1. DOMAIN Functions' = {}
  BY DEF Fresh, Functions
<1>2. Strong(records') = Strong(records)
  BY DEF Strong
<1>3. ASSUME NEW e \in DOMAIN records' PROVE records'[e].cfg <=> records'[e].status = "Analyzed"
  BY DEF Bare, Fresh
<1> QED BY <1>1, <1>2, <1>3 DEF Fresh

-----------------------------------------------------------------------------
(* The steps of a build keep the invariant. *)

LEMMA BeginBuildInv ==
  ASSUME MapInv, BeginBuild, UNCHANGED <<batch, refinements, outcome>>
  PROVE  MapInv'
<1> DEFINE entries == job.candidates \cup job.trusted
<1>1. /\ phase = "start" /\ phase' \in {"failed", "waves"}
      /\ records' = [e \in entries |-> NewRecord(e \in job.trusted)]
      /\ known' = job.trusted /\ previous' = {} /\ discovered' = {} /\ wave' = {} /\ cursor' = -1
      /\ checkpoint' = [e \in {} |-> {}] /\ passes' = 0
      /\ pending' = entries /\ processed' = {} /\ reused' = {}
      /\ code' = code /\ job' = job /\ published' = published
  BY DEF BeginBuild, Start
<1>2. /\ code \in Programs /\ job \in Jobs /\ refinements = 0
      /\ DOMAIN Functions = {} /\ DOMAIN batch = {}
  BY <1>1 DEF MapInv, MapTyped
<1>3. entries \in SUBSET Slots /\ job.trusted \in SUBSET entries
  BY <1>2, FunctionMapAssumption DEF JobType
<1>4. Verdicts' = Verdicts /\ Functions' = Functions
  BY <1>1, SameVerdicts DEF Functions
<1> HIDE DEF entries
<1>5. \A e \in entries : /\ records'[e] \in RecordType /\ Bare(records'[e]) /\ records'[e].deps = {}
                         /\ records'[e].status = "Discovered"
                         /\ (records'[e].strong <=> e \in job.trusted)
                         /\ (records'[e].strong => records'[e].trust = "Trusted")
  <2> SUFFICES ASSUME NEW e \in entries
               PROVE  /\ records'[e] \in RecordType /\ Bare(records'[e]) /\ records'[e].deps = {}
                      /\ records'[e].status = "Discovered"
                      /\ (records'[e].strong <=> e \in job.trusted)
                      /\ (records'[e].strong => records'[e].trust = "Trusted")
    OBVIOUS
  <2> DEFINE s == e \in job.trusted
  <2>1. records'[e] = NewRecord(s) /\ s \in BOOLEAN
    BY <1>1
  <2>2. LET r == NewRecord(s)
        IN /\ r \in RecordType /\ Bare(r) /\ r.deps = {} /\ r.status = "Discovered"
           /\ (r.strong <=> s) /\ (s => r.trust = "Trusted")
    <3> HIDE DEF s
    <3> QED BY <2>1, NewIs
  <2> QED BY <2>1, <2>2
<1>6. DOMAIN records' = entries /\ records' = [e \in DOMAIN records' |-> records'[e]]
  BY <1>1
<1>7. Whole(Verdicts', records', known')
  <2>1. \A e \in entries : Fits(Verdicts, e, records'[e], known')
    BY <1>5, BareFits
  <2> QED BY <1>3, <1>4, <1>6, <2>1 DEF Whole
<1>8. Stock'
  <2>1. DOMAIN batch' = {} /\ DOMAIN Functions' = {}
    BY <1>2, <1>4
  <2> QED BY <1>1, <1>3, <1>6, <1>7, <2>1 DEF Stock
<1>9. FreshWaves'
  <2>1. known' = Strong(records')
    BY <1>1, <1>3, <1>5, <1>6 DEF Strong
  <2>2. Fresh'
    BY <1>2, <1>4, <1>5, <1>6, <2>1 DEF Fresh, Bare
  <2> QED BY <1>1, <1>6, <2>2 DEF FreshWaves
<1>10. MapTyped'
  BY <1>1, <1>2 DEF MapTyped
<1>11. PublishedHolds'
  BY <1>1, <1>4 DEF MapInv, PublishedHolds
<1>12. BuildHolds'
  BY <1>1, <1>8 DEF BuildHolds
<1>13. FirstBuild'
  BY <1>1, <1>9 DEF FirstBuild, MapIsExact
<1> QED BY <1>10, <1>11, <1>12, <1>13 DEF MapInv

\* The first of some slots are those below the ones left out.
LEMMA FirstOfIs ==
  ASSUME NEW U \in SUBSET Slots, NEW n \in Nat \ {0}, U # {}
  PROVE  LET first == FirstOf(U, n)
         IN /\ first \in SUBSET U /\ first # {} /\ Max(first) \in first
            /\ \A e \in U \ first : e > Max(first)
<1> DEFINE first == FirstOf(U, n)
           upto(e) == {f \in U : f <= e}
<1>1. CodeSize \in Nat \ {0}
  BY GuestCodeAssumption
<1>2. U \in SUBSET Nat /\ IsFiniteSet(U)
  <2>1. IsFiniteSet(0 .. (CodeSize - 1))
    BY <1>1, FS_Interval
  <2>2. Slots = 0 .. (CodeSize - 1) /\ Slots \in SUBSET Nat
    BY <1>1 DEF Slots
  <2>3. U \in SUBSET Slots /\ IsFiniteSet(Slots)
    BY <2>1, <2>2
  <2> QED BY <2>2, <2>3, FS_Subset
<1>3. \A e \in U : IsFiniteSet(upto(e)) /\ Cardinality(upto(e)) \in Nat
  <2>1. \A e \in U : upto(e) \in SUBSET U
    OBVIOUS
  <2> HIDE DEF upto
  <2> QED BY <1>2, <2>1, FS_Subset, FS_CardinalityType
<1>4. first = {e \in U : Cardinality(upto(e)) <= n}
  BY DEF FirstOf
<1>5. PICK m \in U : \A y \in U : m <= y
  BY <1>2, LeastOf
<1>6. m \in first
  <2>1. upto(m) = {m}
    <3>1. \A f \in U : f \in Nat
      BY <1>2
    <3>2. m \in U /\ m \in Nat /\ \A f \in U : f <= m => f = m
      BY <1>5, <3>1
    <3>3. m <= m
      BY <3>2
    <3>4. \A f : f \in upto(m) <=> f = m
      BY <3>2, <3>3
    <3> HIDE DEF upto
    <3> QED BY <3>4
  <2>2. Cardinality(upto(m)) = 1
    BY <2>1, FS_Singleton
  <2> QED BY <1>4, <2>2
<1>7. Max(first) \in first
  <2>1. first \in SUBSET (0 .. (CodeSize - 1))
    BY <1>4 DEF Slots
  <2>2. CodeSize - 1 \in Nat
    BY <1>1
  <2> HIDE DEF first
  <2> QED BY <1>6, <2>1, <2>2, GreatestOf
<1>8. ASSUME NEW e \in U \ first PROVE e > Max(first)
  <2> DEFINE top == Max(first)
  <2> SUFFICES ASSUME ~(e > top) PROVE FALSE
    OBVIOUS
  <2>1. top \in U /\ top \in Nat /\ e \in Nat /\ Cardinality(upto(top)) <= n /\ ~(Cardinality(upto(e)) <= n)
    BY <1>2, <1>4, <1>7
  <2> HIDE DEF top
  <2>2. upto(e) \in SUBSET upto(top)
    <3>1. \A f \in U : f \in Nat
      BY <1>2
    <3>2. e <= top
      BY <2>1
    <3>3. \A f \in U : f <= e => f <= top
      BY <2>1, <3>1, <3>2
    <3> QED BY <3>3
  <2> HIDE DEF upto
  <2>3. Cardinality(upto(e)) <= Cardinality(upto(top))
    BY <1>3, <2>1, <2>2, FS_Subset
  <2> QED BY <1>3, <2>1, <2>3
<1> HIDE DEF upto
<1> QED BY <1>4, <1>6, <1>7, <1>8

LEMMA TakeWaveInv ==
  ASSUME MapInv, TakeWave, UNCHANGED <<batch, refinements, outcome>>
  PROVE  MapInv'
<1> DEFINE entries == FirstOf(Unprocessed, job.workers)
<1>1. /\ phase = "waves" /\ wave = {} /\ wave' = entries
      /\ pending' = IF entries = Unprocessed THEN {} ELSE {e \in pending : e > Max(entries)}
      /\ processed' = processed \cup entries /\ boundaries' = known
  BY DEF TakeWave
<1>2. UNCHANGED <<code, job, phase, published, records, known, reused, previous, discovered,
                  checkpoint, cursor, changed, passes, batch, refinements>>
  BY DEF TakeWave
<1>3. Stock
  BY <1>1 DEF MapInv, BuildHolds, Building
<1>4. Unprocessed \in SUBSET Slots
  BY <1>3 DEF Unprocessed, Stock, Whole
<1>5. job.workers \in Nat \ {0}
  BY FunctionMapAssumption DEF MapInv, MapTyped, JobType
<1>6. entries \in SUBSET Unprocessed
  BY DEF FirstOf
<1>7. \A e \in Unprocessed : e \in entries \/ e \in pending' \ processed'
  <2>1. CASE entries = Unprocessed
    BY <2>1
  <2>2. CASE entries # Unprocessed
    <3>1. Unprocessed # {}
      BY <1>6, <2>2
    <3>2. \A e \in Unprocessed \ entries : e > Max(entries)
      BY <1>4, <1>5, <3>1, FirstOfIs
    <3> HIDE DEF entries
    <3> QED BY <1>1, <2>2, <3>2 DEF Unprocessed
  <2> QED BY <2>1, <2>2
<1> HIDE DEF entries
<1>8. Verdicts' = Verdicts /\ Functions' = Functions /\ Added' = Added
  BY <1>2, SameVerdicts DEF Functions, Added
<1>9. Stock'
  <2>1. /\ pending' \subseteq pending /\ processed' \subseteq DOMAIN records /\ processed \subseteq processed'
    BY <1>1, <1>3, <1>6 DEF Stock, Unprocessed
  <2>2. Whole(Verdicts', records', known') /\ Strong(records') = Strong(records)
    BY <1>2, <1>3, <1>8 DEF Stock
  <2> QED BY <1>2, <1>3, <1>8, <2>1, <2>2 DEF Stock
<1>10. wave' \subseteq processed' \ reused' /\ wave' \in SUBSET Slots
  BY <1>1, <1>2, <1>3, <1>4, <1>6 DEF Stock, Unprocessed
<1>11. MapTyped'
  BY <1>1, <1>2, <1>10 DEF MapInv, MapTyped
<1>12. PublishedHolds'
  BY <1>2, <1>8 DEF MapInv, PublishedHolds
<1>13. BuildHolds'
  BY <1>1, <1>2, <1>3, <1>9, <1>10 DEF BuildHolds, Stock
<1>14. FirstBuild'
  <2> SUFFICES ASSUME refinements = 0 PROVE FreshWaves'
    BY <1>1, <1>2 DEF FirstBuild, MapIsExact
  <2>1. FreshWaves
    BY <1>1 DEF MapInv, FirstBuild
  <2>2. Fresh'
    BY <1>2, <1>8, <2>1 DEF FreshWaves, Fresh, Strong
  <2> QED BY <1>1, <1>2, <1>7, <2>1, <2>2 DEF FreshWaves, Unprocessed
<1> QED BY <1>11, <1>12, <1>13, <1>14 DEF MapInv

\* A graph computed from the boundaries of a wave or a pass is a verdict.
LEMMA VerdictIs ==
  ASSUME MapInv, Building, wave # {} \/ phase = "finalize", NEW e \in DOMAIN records
  PROVE  /\ Analysis(e, boundaries) = Verdicts[e][boundaries]
         /\ e \in Slots /\ boundaries \in SUBSET Slots
         /\ boundaries \in SUBSET known /\ previous \subseteq boundaries
<1>1. /\ Whole(Verdicts, records, known) /\ known \subseteq DOMAIN records
      /\ previous \subseteq boundaries /\ boundaries \subseteq known
  BY DEF MapInv, BuildHolds, Stock
<1>2. e \in Slots /\ boundaries \in SUBSET Slots
  BY <1>1 DEF Whole
<1> QED BY <1>1, <1>2 DEF Verdicts

LEMMA MergeInv ==
  ASSUME MapInv, MergeGraph, UNCHANGED <<batch, refinements, outcome>>
  PROVE  MapInv'
<1> DEFINE entry == Min(wave)
           graph == Analysis(entry, boundaries)
<1>1. /\ phase = "waves" /\ wave # {} /\ wave' = wave \ {entry}
      /\ IF graph.ok THEN Expand(entry, Analyzed(records[entry], graph), graph)
         ELSE FailEntry(entry) /\ phase' = IF stop THEN "failed" ELSE phase
  BY DEF MergeGraph
<1>2. UNCHANGED <<code, job, published, previous, boundaries, checkpoint, cursor, changed, passes,
                  batch, refinements>>
  BY DEF MergeGraph
<1>3. Stock /\ wave \subseteq processed \ reused /\ wave \in SUBSET Slots /\ PublishedHolds
      /\ code \in Programs
  BY <1>1 DEF MapInv, BuildHolds, Building, MapTyped
<1>4. entry \in wave
  <2>1. Slots \in SUBSET Nat
    BY GuestCodeAssumption DEF Slots
  <2>2. wave \in SUBSET Nat
    BY <1>3, <2>1
  <2> QED BY <1>1, <2>2, MinOf
<1>5. entry \in DOMAIN records \ reused
  BY <1>3, <1>4 DEF Stock
<1>6. /\ graph = Verdicts[entry][boundaries] /\ previous \subseteq boundaries
      /\ boundaries \subseteq known
  BY <1>1, <1>5, VerdictIs DEF Building
<1>7. Shrinking(Verdicts) /\ Verdicts' = Verdicts /\ Functions' = Functions
  BY <1>2, <1>3, VerdictsShrink, SameVerdicts DEF Functions
<1>8. phase' \in {"waves", "failed"}
  BY <1>1 DEF Expand
<1>9. MapTyped'
  BY <1>2, <1>3, <1>8, <1>1 DEF MapInv, MapTyped
<1>10. PublishedHolds'
  BY <1>2, <1>3, <1>7 DEF PublishedHolds
<1>11. refinements = 0 => FreshWaves
  BY <1>1 DEF MapInv, FirstBuild
<1> HIDE DEF entry
<1>12. CASE graph.ok
  <2> DEFINE targets == Callable(graph)
  <2>1. Expand(entry, Analyzed(records[entry], graph), graph)
    BY <1>1, <1>12
  <2> HIDE DEF graph
  <2>2. /\ Stock'
        /\ reused' \subseteq reused /\ processed \ reused \subseteq processed' \ reused'
        /\ known \subseteq known'
        /\ \A e \in DOMAIN records' : Grown(e, entry, graph, targets)
        /\ DOMAIN records' = DOMAIN records \cup targets
    BY <1>2, <1>3, <1>5, <1>6, <1>7, <2>1, StockGrows
  <2>3. BuildHolds'
    BY <1>1, <1>2, <1>3, <1>6, <1>8, <2>2 DEF BuildHolds
  <2>4. ASSUME refinements = 0, phase' = "waves" PROVE FreshWaves'
    <3>1. FreshWaves /\ Fresh
      BY <1>11, <2>4 DEF FreshWaves
    <3>2. /\ known' = known \cup targets
          /\ pending' = pending \cup targets \cup Touched(targets)
          /\ processed' = processed \ Touched(targets)
      BY <2>1 DEF Expand, Touched
    <3>3. Touched(targets) = {}
      BY <1>3, <3>1 DEF Touched, Stock, Fresh
    <3>4. Fresh'
      BY <1>2, <1>3, <1>5, <2>2, <3>1, <3>2, FreshGrows DEF Stock
    <3>5. ASSUME NEW e \in DOMAIN records', records'[e].status = "Discovered"
          PROVE  e \in (pending' \ processed') \cup wave'
      <4>1. Grown(e, entry, graph, targets)
        BY <2>2
      <4>2. CASE e \notin DOMAIN records
        BY <1>3, <2>2, <3>2, <4>2 DEF Stock
      <4>3. CASE e \in DOMAIN records
        <5>1. e # entry
          BY <3>5, <4>1 DEF Grown
        <5>2. records[e].status = "Discovered"
          BY <3>3, <3>5, <4>1, <4>3, <5>1 DEF Grown
        <5>3. e \in (pending \ processed) \cup wave
          BY <3>1, <4>3, <5>2 DEF FreshWaves
        <5> QED BY <1>1, <3>2, <3>3, <5>1, <5>3
      <4> QED BY <4>2, <4>3
    <3> QED BY <1>2, <3>1, <3>4, <3>5 DEF FreshWaves
  <2>5. FirstBuild'
    BY <1>2, <1>8, <2>4 DEF FirstBuild, MapIsExact
  <2> QED BY <1>9, <1>10, <2>3, <2>5 DEF MapInv
<1>13. CASE ~graph.ok
  <2>1. FailEntry(entry)
    BY <1>1, <1>13
  <2> HIDE DEF graph
  <2>2. /\ Stock' /\ known' = known /\ reused' = reused /\ processed' = processed /\ pending' = pending
        /\ DOMAIN records' = DOMAIN records
        /\ Bare(records'[entry]) /\ records'[entry].status = "Failed"
        /\ records'[entry].strong <=> records[entry].strong
        /\ \A e \in DOMAIN records \ {entry} : records'[e] = records[e]
    BY <1>2, <1>3, <1>5, <1>7, <2>1, StockDrops
  <2>3. BuildHolds'
    BY <1>1, <1>2, <1>3, <1>6, <1>8, <2>2 DEF BuildHolds
  <2>4. ASSUME refinements = 0, phase' = "waves" PROVE FreshWaves'
    <3>1. FreshWaves /\ Fresh
      BY <1>11, <2>4 DEF FreshWaves
    <3>2. Fresh'
      BY <1>2, <1>5, <2>2, <3>1, FreshDrops
    <3>3. ASSUME NEW e \in DOMAIN records', records'[e].status = "Discovered"
          PROVE  e \in (pending' \ processed') \cup wave'
      BY <1>1, <2>2, <3>1, <3>3 DEF FreshWaves
    <3> QED BY <1>2, <3>1, <3>2, <3>3 DEF FreshWaves
  <2>5. FirstBuild'
    BY <1>2, <1>8, <2>4 DEF FirstBuild, MapIsExact
  <2> QED BY <1>9, <1>10, <2>3, <2>5 DEF MapInv
<1> QED BY <1>12, <1>13

LEMMA BeginPassInv ==
  ASSUME MapInv, BeginPass, UNCHANGED <<batch, refinements, outcome>>
  PROVE  MapInv'
<1>1. /\ phase = "waves" /\ wave = {} /\ pending = {} /\ phase' = "finalize"
      /\ boundaries' = known /\ cursor' = -1 /\ changed' = FALSE /\ passes' = passes + 1
  BY DEF BeginPass
<1>2. UNCHANGED <<code, job, published, previous, records, pending, processed, known, reused,
                  wave, checkpoint, batch, refinements>>
  BY DEF BeginPass
<1>3. Stock
  BY <1>1 DEF MapInv, BuildHolds, Building
<1>4. Verdicts' = Verdicts /\ Functions' = Functions /\ Added' = Added
      /\ Strong(records') = Strong(records)
  BY <1>2, SameVerdicts DEF Functions, Added
<1>5. Stock'
  <2>1. Whole(Verdicts', records', known')
    BY <1>2, <1>3, <1>4 DEF Stock
  <2> QED BY <1>2, <1>3, <1>4, <2>1 DEF Stock
<1>6. BuildHolds'
  BY <1>1, <1>2, <1>3, <1>5 DEF BuildHolds, Stock
<1>7. MapTyped' /\ PublishedHolds'
  BY <1>1, <1>2, <1>4 DEF MapInv, MapTyped, PublishedHolds
<1>8. FirstBuild'
  <2> SUFFICES ASSUME refinements = 0
               PROVE  FreshUpTo(cursor)' /\ ~changed' /\ \A e \in DOMAIN checkpoint' : e \in Slots /\ e <= cursor'
    BY <1>1, <1>2 DEF FirstBuild, MapIsExact
  <2>1. FreshWaves /\ Fresh
    BY <1>1 DEF MapInv, FirstBuild, FreshWaves
  <2>2. Fresh'
    BY <1>2, <1>4, <2>1 DEF Fresh
  <2>3. \A e \in DOMAIN records' : records'[e].status # "Discovered" /\ ~(e <= cursor')
    <3>1. DOMAIN records \in SUBSET Nat
      <4>1. Slots \in SUBSET Nat
        BY GuestCodeAssumption DEF Slots
      <4> QED BY <1>3, <4>1 DEF Stock, Whole
    <3>2. \A e \in DOMAIN records : records[e].status # "Discovered"
      BY <1>1, <2>1 DEF FreshWaves
    <3> QED BY <1>1, <1>2, <3>1, <3>2
  <2>4. passes' = 1 /\ DOMAIN checkpoint' = {}
    BY <1>1, <1>2, <2>1 DEF FreshWaves
  <2> QED BY <1>1, <1>2, <2>2, <2>3, <2>4 DEF FreshUpTo
<1> QED BY <1>6, <1>7, <1>8 DEF MapInv

\* In a first build a pass finds no boundary, and makes one more record final.
LEMMA FreshPass ==
  ASSUME MapInv, refinements = 0, phase = "finalize", NEW e \in DOMAIN records, Due(e),
         \A f \in DOMAIN records : f < e => ~Due(f)
  PROVE  /\ FreshUpTo(cursor) /\ Fresh /\ reused = {} /\ records[e].cfg
         /\ Callable(Analysis(e, boundaries)) \subseteq known
         /\ e \in Int /\ cursor \in Int /\ e > cursor /\ \A f \in DOMAIN records : f \in Int
         /\ \A f \in DOMAIN records : f < e /\ records[f].cfg => f <= cursor
<1>1. Stock /\ FreshUpTo(cursor) /\ Fresh /\ \A f \in DOMAIN checkpoint : f \in Slots /\ f <= cursor
  BY DEF MapInv, BuildHolds, Building, FirstBuild, FreshUpTo
<1>2. reused = {}
  BY <1>1 DEF Stock, Fresh
<1>3. /\ cursor \in Int /\ \A f \in DOMAIN records : f \in Int
  <2>1. Slots \in SUBSET Int
    BY GuestCodeAssumption DEF Slots
  <2> QED BY <1>1, <2>1 DEF MapInv, MapTyped, Stock, Whole
<1>4. records[e].cfg /\ e > cursor
  BY <1>1 DEF Due, FreshUpTo
<1>5. Callable(Analysis(e, boundaries)) \subseteq known
  <2>1. /\ Analysis(e, boundaries) = Verdicts[e][boundaries]
        /\ e \in Slots /\ boundaries \in SUBSET Slots
    BY VerdictIs DEF Building
  <2>2. boundaries = known
    BY <1>1 DEF FreshUpTo
  <2>3. Fits(Verdicts, e, records[e], known)
    BY <1>1 DEF Stock, Whole
  <2>4. PICK K \in SUBSET known : records[e].calls = Verdicts[e][K].calls
    BY <1>4, <2>3 DEF Fits
  <2>5. Verdicts[e][boundaries].calls \subseteq Verdicts[e][K].calls
    BY <2>1, <2>2, <2>4, VerdictsShrink DEF Shrinking, MapInv, MapTyped
  <2>6. records[e].calls \cap Slots \subseteq known
    BY <2>3 DEF Fits
  <2> QED BY <2>1, <2>4, <2>5, <2>6 DEF Callable
<1>6. ASSUME NEW f \in DOMAIN records, f < e, records[f].cfg, ~(f <= cursor) PROVE FALSE
  <2>1. f > cursor /\ f \notin DOMAIN checkpoint
    BY <1>1, <1>3, <1>6
  <2>2. Due(f)
    BY <1>2, <1>6, <2>1 DEF Due
  <2> QED BY <1>6, <2>2
<1> QED BY <1>1, <1>2, <1>3, <1>4, <1>5, <1>6

LEMMA FinalizeInv ==
  ASSUME MapInv, FinalizeRecord, UNCHANGED <<batch, refinements, outcome>>
  PROVE  MapInv'
<1>1. PICK e \in DOMAIN records :
        /\ phase = "finalize" /\ Due(e) /\ \A f \in DOMAIN records : f < e => ~Due(f)
        /\ cursor' = e
        /\ IF Analysis(e, boundaries).ok
           THEN /\ Expand(e, Analyzed(records[e], Analysis(e, boundaries)), Analysis(e, boundaries))
                /\ checkpoint' = [f \in DOMAIN checkpoint \cup {e} |->
                                IF f = e THEN discovered ELSE checkpoint[f]]
                /\ changed' = (changed \/ ~(Callable(Analysis(e, boundaries)) \subseteq known))
           ELSE FailEntry(e) /\ UNCHANGED <<phase, checkpoint, changed>>
  BY DEF FinalizeRecord
<1> DEFINE graph == Analysis(e, boundaries)
<1>2. UNCHANGED <<code, job, published, previous, wave, boundaries, passes, batch, refinements>>
  BY DEF FinalizeRecord
<1>3. Stock /\ wave \subseteq processed \ reused /\ PublishedHolds /\ code \in Programs
  BY <1>1 DEF MapInv, BuildHolds, Building, MapTyped
<1>4. e \in DOMAIN records \ reused
  BY <1>1 DEF Due
<1>5. /\ graph = Verdicts[e][boundaries] /\ previous \subseteq boundaries /\ boundaries \subseteq known
      /\ e \in Slots
  BY <1>1, VerdictIs DEF Building
<1>6. Shrinking(Verdicts) /\ Verdicts' = Verdicts /\ Functions' = Functions
  BY <1>2, <1>3, VerdictsShrink, SameVerdicts DEF Functions
<1>7. phase' \in {"finalize", "failed"}
  BY <1>1 DEF Expand
<1>8. MapTyped'
  <2>1. e \in Int
    BY <1>5, GuestCodeAssumption DEF Slots
  <2> QED BY <1>1, <1>2, <1>7, <2>1 DEF MapInv, MapTyped
<1>9. PublishedHolds'
  BY <1>2, <1>3, <1>6 DEF PublishedHolds
<1>10. refinements = 0 =>
         /\ FreshUpTo(cursor) /\ Fresh /\ reused = {} /\ records[e].cfg
         /\ Callable(graph) \subseteq known
         /\ e \in Int /\ cursor \in Int /\ e > cursor /\ \A f \in DOMAIN records : f \in Int
         /\ \A f \in DOMAIN records : f < e /\ records[f].cfg => f <= cursor
         /\ ~changed /\ \A f \in DOMAIN checkpoint : f \in Slots /\ f <= cursor
  BY <1>1, FreshPass DEF MapInv, FirstBuild
<1>11. CASE graph.ok
  <2> DEFINE targets == Callable(graph)
  <2>1. /\ Expand(e, Analyzed(records[e], graph), graph)
        /\ checkpoint' = [f \in DOMAIN checkpoint \cup {e} |->
                                IF f = e THEN discovered ELSE checkpoint[f]]
        /\ changed' = (changed \/ ~(targets \subseteq known))
    BY <1>1, <1>11
  <2> HIDE DEF graph
  <2>2. /\ Stock'
        /\ reused' \subseteq reused /\ processed \ reused \subseteq processed' \ reused'
        /\ known \subseteq known'
        /\ \A f \in DOMAIN records' : Grown(f, e, graph, targets)
        /\ DOMAIN records' = DOMAIN records \cup targets
    BY <1>2, <1>3, <1>4, <1>5, <1>6, <2>1, StockGrows
  <2>3. BuildHolds'
    BY <1>2, <1>3, <1>5, <1>7, <2>2 DEF BuildHolds
  <2>4. ASSUME refinements = 0
        PROVE  FreshUpTo(cursor)' /\ ~changed' /\ \A f \in DOMAIN checkpoint' : f \in Slots /\ f <= cursor'
    <3>1. /\ known' = known \cup targets /\ targets \subseteq known /\ Touched(targets) = {}
          /\ Fresh /\ FreshUpTo(cursor)
      BY <1>10, <2>1, <2>4 DEF Expand, Touched
    <3>2. known' = known /\ DOMAIN records' = DOMAIN records
      BY <1>3, <2>2, <3>1 DEF Stock
    <3>3. Fresh'
      BY <1>2, <1>3, <1>4, <2>2, <3>1, FreshGrows DEF Stock
    <3>4. passes' = 1 /\ boundaries' = known'
      BY <1>2, <3>1, <3>2 DEF FreshUpTo
    <3>5. ASSUME NEW f \in DOMAIN records'
          PROVE  /\ records'[f].status # "Discovered"
                 /\ records'[f].cfg /\ f <= cursor' => Final(Verdicts', f, records'[f], known')
      <4>1. Grown(f, e, graph, targets) /\ f \in DOMAIN records
        BY <2>2, <3>2
      <4>2. CASE f = e
        <5>1. records'[f].status = "Analyzed" /\ records'[f].owned = graph.owned
          BY <4>1, <4>2 DEF Grown
        <5>2. graph = Verdicts'[f][known'] /\ graph.ok
          BY <1>2, <1>5, <1>6, <1>11, <3>4, <4>2
        <5> QED BY <5>1, <5>2 DEF Final
      <4>3. CASE f # e
        <5>1. Alike(records'[f], records[f]) /\ records'[f].status = records[f].status
          BY <3>1, <4>1, <4>3 DEF Grown
        <5>2. records[f].status # "Discovered"
              /\ (records[f].cfg /\ f <= cursor => Final(Verdicts, f, records[f], known))
          BY <3>1, <4>1 DEF FreshUpTo
        <5>3. records[f].cfg /\ f <= cursor' => f <= cursor
          BY <1>1, <1>10, <2>4, <4>1, <4>3
        <5>4. records'[f].cfg /\ f <= cursor' => Final(Verdicts, f, records[f], known)
          BY <5>1, <5>2, <5>3 DEF Alike
        <5>5. Final(Verdicts, f, records[f], known) => Final(Verdicts', f, records'[f], known')
          BY <1>6, <3>2, <5>1 DEF Final, Alike
        <5> QED BY <5>1, <5>2, <5>4, <5>5
      <4> QED BY <4>2, <4>3
    <3>6. FreshUpTo(cursor)'
      BY <3>3, <3>4, <3>5 DEF FreshUpTo
    <3>7. ~changed'
      BY <1>10, <2>1, <2>4
    <3>8. \A f \in DOMAIN checkpoint' : f \in Slots /\ f <= cursor'
      <4>1. \A f \in DOMAIN checkpoint' : f = e \/ f \in DOMAIN checkpoint
        BY <2>1
      <4>2. /\ e \in Int /\ cursor \in Int /\ e > cursor
            /\ \A f \in DOMAIN checkpoint : f \in Slots /\ f \in Int /\ f <= cursor
        BY <1>10, <2>4, GuestCodeAssumption DEF Slots
      <4> QED BY <1>1, <1>5, <4>1, <4>2
    <3> QED BY <3>6, <3>7, <3>8
  <2>5. FirstBuild'
    BY <1>2, <1>7, <2>4 DEF FirstBuild, MapIsExact
  <2> QED BY <1>8, <1>9, <2>3, <2>5 DEF MapInv
<1>12. CASE ~graph.ok
  <2>1. FailEntry(e) /\ UNCHANGED <<phase, checkpoint, changed>>
    BY <1>1, <1>12
  <2> HIDE DEF graph
  <2>2. /\ Stock' /\ known' = known /\ reused' = reused /\ processed' = processed /\ pending' = pending
        /\ DOMAIN records' = DOMAIN records
        /\ Bare(records'[e]) /\ records'[e].status = "Failed"
        /\ records'[e].strong <=> records[e].strong
        /\ \A f \in DOMAIN records \ {e} : records'[f] = records[f]
    BY <1>2, <1>3, <1>4, <1>6, <2>1, StockDrops
  <2>3. BuildHolds'
    BY <1>2, <1>3, <1>5, <1>7, <2>2 DEF BuildHolds
  <2>4. ASSUME refinements = 0
        PROVE  FreshUpTo(cursor)' /\ ~changed' /\ \A f \in DOMAIN checkpoint' : f \in Slots /\ f <= cursor'
    <3>1. Fresh /\ FreshUpTo(cursor)
      BY <1>10, <2>4
    <3>2. Fresh'
      BY <1>2, <1>4, <2>2, <3>1, FreshDrops
    <3>3. passes' = 1 /\ boundaries' = known'
      BY <1>2, <2>2, <3>1 DEF FreshUpTo
    <3>4. ASSUME NEW f \in DOMAIN records'
          PROVE  /\ records'[f].status # "Discovered"
                 /\ records'[f].cfg /\ f <= cursor' => Final(Verdicts', f, records'[f], known')
      <4>1. CASE f = e
        BY <2>2, <4>1 DEF Bare
      <4>2. CASE f # e
        <5>1. f \in DOMAIN records /\ records'[f] = records[f]
          BY <2>2, <4>2
        <5>2. records[f].status # "Discovered"
              /\ (records[f].cfg /\ f <= cursor => Final(Verdicts, f, records[f], known))
          BY <3>1, <5>1 DEF FreshUpTo
        <5>3. records[f].cfg /\ f <= cursor' => f <= cursor
          BY <1>1, <1>10, <2>4, <4>2, <5>1
        <5> QED BY <1>6, <2>2, <5>1, <5>2, <5>3
      <4> QED BY <4>1, <4>2
    <3>5. FreshUpTo(cursor)'
      BY <3>2, <3>3, <3>4 DEF FreshUpTo
    <3>6. ~changed' /\ \A f \in DOMAIN checkpoint' : f \in Slots /\ f <= cursor'
      <4>1. /\ e \in Int /\ cursor \in Int /\ e > cursor
            /\ \A f \in DOMAIN checkpoint : f \in Slots /\ f \in Int /\ f <= cursor
        BY <1>10, <2>4, GuestCodeAssumption DEF Slots
      <4>2. ~changed' /\ checkpoint' = checkpoint
        BY <1>10, <2>1, <2>4
      <4> QED BY <1>1, <4>1, <4>2
    <3> QED BY <3>5, <3>6
  <2>5. FirstBuild'
    BY <1>2, <1>7, <2>4 DEF FirstBuild, MapIsExact
  <2> QED BY <1>8, <1>9, <2>3, <2>5 DEF MapInv
<1> QED BY <1>11, <1>12

LEMMA EndPassInv ==
  ASSUME MapInv, EndPass, UNCHANGED <<batch, refinements, outcome>>
  PROVE  MapInv'
<1>1. /\ phase = "finalize" /\ pending' = {} /\ \A e \in DOMAIN records : ~Due(e)
      /\ UNCHANGED <<code, job, published, previous, records, processed, known, reused, wave,
                     checkpoint, batch, refinements>>
  BY DEF EndPass
<1>2. \/ phase' = "publish" /\ ~changed /\ UNCHANGED <<boundaries, cursor, changed, passes>>
      \/ phase' = "failed" /\ changed /\ UNCHANGED <<boundaries, cursor, changed, passes>>
      \/ phase' = "finalize" /\ changed /\ boundaries' = known /\ cursor' = -1
  BY <1>1 DEF EndPass
<1>3. /\ Stock /\ wave \subseteq processed \ reused
      /\ previous \subseteq boundaries /\ boundaries \subseteq known
  BY <1>1 DEF MapInv, BuildHolds, Building
<1>4. Verdicts' = Verdicts /\ Functions' = Functions /\ Added' = Added
      /\ Strong(records') = Strong(records)
  BY <1>1, SameVerdicts DEF Functions, Added
<1>5. Stock'
  <2>1. Whole(Verdicts', records', known')
    BY <1>1, <1>3, <1>4 DEF Stock
  <2> QED BY <1>1, <1>3, <1>4, <2>1 DEF Stock
<1>6. BuildHolds'
  BY <1>1, <1>2, <1>3, <1>5 DEF BuildHolds, Stock
<1>7. PublishedHolds'
  BY <1>1, <1>4 DEF MapInv, PublishedHolds
<1>8. MapTyped'
  BY <1>1, <1>2 DEF MapInv, MapTyped
<1>9. FirstBuild'
  <2>1. ASSUME refinements = 0 PROVE ~changed
    BY <1>1, <2>1 DEF MapInv, FirstBuild
  <2>2. ASSUME refinements = 0, phase' = "publish" PROVE FreshUpTo(CodeSize)'
    <3>1. FreshUpTo(cursor) /\ Fresh /\ \A e \in DOMAIN checkpoint : e \in Slots /\ e <= cursor
      BY <1>1, <2>2 DEF MapInv, FirstBuild, FreshUpTo
    <3>2. Fresh'
      BY <1>1, <1>4, <3>1 DEF Fresh
    <3>3. passes' = 1 /\ boundaries' = known'
      BY <1>1, <1>2, <2>2, <3>1 DEF FreshUpTo
    <3>4. reused = {}
      BY <1>3, <3>1 DEF Stock, Fresh
    <3>5. ASSUME NEW e \in DOMAIN records, records[e].cfg PROVE Final(Verdicts, e, records[e], known)
      <4>1. cursor \in Int /\ e \in Int
        <5>1. Slots \in SUBSET Int
          BY GuestCodeAssumption DEF Slots
        <5> QED BY <1>3, <5>1 DEF MapInv, MapTyped, Stock, Whole
      <4>2. e <= cursor
        <5> SUFFICES ASSUME e > cursor PROVE FALSE
          BY <4>1
        <5>1. e \notin DOMAIN checkpoint
          BY <3>1, <4>1
        <5>2. Due(e)
          BY <3>4, <3>5, <5>1 DEF Due
        <5> QED BY <1>1, <5>2
      <4> QED BY <3>1, <3>5, <4>2 DEF FreshUpTo
    <3>6. \A e \in DOMAIN records : records[e].status # "Discovered"
      BY <3>1 DEF FreshUpTo
    <3> QED BY <1>1, <1>4, <3>2, <3>3, <3>5, <3>6 DEF FreshUpTo
  <2> QED BY <1>1, <1>2, <2>1, <2>2 DEF FirstBuild, MapIsExact
<1> QED BY <1>6, <1>7, <1>8, <1>9 DEF MapInv

-----------------------------------------------------------------------------
(* A refinement begins with the published map and the entries introduced. *)

LEMMA ReuseStocks ==
  ASSUME PublishedHolds, Verdicts' = Verdicts, NEW introduced \in SUBSET Slots,
         BeginReuse(introduced), published' = published, DOMAIN batch' \subseteq introduced
  PROVE  Stock' /\ wave' = {} /\ cursor' = -1 /\ phase' \in {"waves", "failed"}
<1> DEFINE old == published.functions
           bounds == DOMAIN old \cup UNION {old[e].calls \cap Slots : e \in DOMAIN old}
           touched == {e \in DOMAIN old : TouchedBy(old[e], introduced \ bounds)}
           copy(e) == IF e \in touched THEN [Dropped(old[e], "Discovered") EXCEPT !.deps = {}]
                      ELSE old[e]
           seeded(e) == IF e \notin DOMAIN old THEN NewRecord(TRUE)
                        ELSE IF old[e].strong \/ e \in introduced THEN Evident(copy(e)) ELSE copy(e)
<1>1. /\ known' = bounds \cup introduced /\ previous' = bounds
      /\ records' = [e \in DOMAIN old \cup introduced |-> seeded(e)]
      /\ pending' = touched \cup (introduced \ DOMAIN old)
      /\ processed' = DOMAIN old \ touched /\ reused' = DOMAIN old \ touched
      /\ wave' = {} /\ cursor' = -1 /\ phase' \in {"waves", "failed"}
  <2> HIDE DEF seeded, touched, bounds, old
  <2> QED BY DEF BeginReuse, Start, seeded, copy, touched, bounds, old
<1>2. /\ Functions = old /\ Functions' = old
  BY DEF Functions
<1>3. DOMAIN old \in SUBSET Slots /\ \A e \in DOMAIN old : Fits(Verdicts, e, old[e], DOMAIN old)
                                                  /\ old[e] \in RecordType
  BY <1>2 DEF PublishedHolds, Whole, Fits
<1>4. bounds = DOMAIN old
  BY <1>3 DEF Fits
<1>5. \A e : seeded(e) = IF e \notin DOMAIN old THEN NewRecord(TRUE)
                         ELSE IF old[e].strong \/ e \in introduced THEN Evident(copy(e)) ELSE copy(e)
  OBVIOUS
<1>6. ASSUME NEW e \in DOMAIN old
      PROVE  /\ Fits(Verdicts, e, copy(e), DOMAIN old) /\ copy(e) \in RecordType
             /\ copy(e).strong <=> old[e].strong
             /\ e \in touched => Bare(copy(e))
             /\ e \notin touched => Alike(copy(e), old[e])
  <2>1. CASE e \in touched
    <3> DEFINE d == Dropped(old[e], "Discovered")
    <3>1. d \in RecordType /\ Bare(d) /\ (d.strong <=> old[e].strong) /\ d.trust = old[e].trust
      BY <1>3, DroppedIs DEF Statuses
    <3>2. copy(e) = [d EXCEPT !.deps = {}]
      BY <2>1
    <3> HIDE DEF d, copy, touched, old
    <3>3. /\ copy(e) \in RecordType /\ Bare(copy(e)) /\ copy(e).deps = {}
          /\ (copy(e).strong <=> d.strong) /\ copy(e).trust = d.trust
      BY <3>1, <3>2, ForgottenIs
    <3>4. copy(e).strong => copy(e).trust # "Candidate"
      BY <1>3, <3>1, <3>3 DEF Fits
    <3>5. Fits(Verdicts, e, copy(e), DOMAIN old)
      BY <3>3, <3>4, BareFits
    <3> QED BY <2>1, <3>1, <3>3, <3>5
  <2>2. CASE e \notin touched
    <3>1. copy(e) = old[e]
      BY <2>2
    <3> HIDE DEF copy, touched, old
    <3> QED BY <1>3, <2>2, <3>1 DEF Alike
  <2> QED BY <2>1, <2>2
<1> HIDE DEF copy
<1>7. ASSUME NEW e \in DOMAIN old \cup introduced
      PROVE  /\ Fits(Verdicts, e, records'[e], known')
             /\ e \in introduced => records'[e].strong
             /\ e \in touched => Bare(records'[e])
             /\ e \in DOMAIN old \ touched => Alike(records'[e], old[e])
  <2>1. records'[e] = seeded(e)
    <3> HIDE DEF seeded, old
    <3> QED BY <1>1
  <2>2. CASE e \notin DOMAIN old
    <3> DEFINE n == NewRecord(TRUE)
    <3>1. n \in RecordType /\ Bare(n) /\ n.deps = {} /\ n.strong /\ n.trust = "Trusted"
      BY NewIs
    <3>2. records'[e] = n
      BY <1>5, <2>1, <2>2
    <3>3. e \notin touched
      BY <2>2
    <3> HIDE DEF n, seeded, touched, old
    <3>4. Fits(Verdicts, e, n, known')
      BY <3>1, BareFits
    <3> QED BY <2>2, <3>1, <3>2, <3>3, <3>4
  <2>3. CASE e \in DOMAIN old /\ (old[e].strong \/ e \in introduced)
    <3> DEFINE q == Evident(copy(e))
    <3>1. /\ Fits(Verdicts, e, copy(e), DOMAIN old) /\ copy(e) \in RecordType
          /\ e \in touched => Bare(copy(e))
          /\ e \notin touched => Alike(copy(e), old[e])
      BY <1>6, <2>3
    <3>2. /\ q \in RecordType /\ Alike(q, copy(e)) /\ q.strong /\ q.trust = "Trusted"
      BY <3>1, EvidentIs
    <3>3. records'[e] = q
      BY <1>5, <2>1, <2>3
    <3> HIDE DEF q, seeded, touched
    <3>4. Fits(Verdicts, e, q, known')
      BY <1>1, <1>4, <3>1, <3>2 DEF Fits, Alike
    <3> QED BY <3>1, <3>2, <3>3, <3>4 DEF Bare, Alike
  <2>4. CASE e \in DOMAIN old /\ ~(old[e].strong \/ e \in introduced)
    <3>1. /\ Fits(Verdicts, e, copy(e), DOMAIN old)
          /\ e \in touched => Bare(copy(e))
          /\ e \notin touched => Alike(copy(e), old[e])
      BY <1>6, <2>4
    <3>2. records'[e] = copy(e)
      BY <1>5, <2>1, <2>4
    <3> HIDE DEF seeded, touched
    <3>3. Fits(Verdicts, e, copy(e), known')
      BY <1>1, <1>4, <3>1, FitsMore
    <3> QED BY <2>4, <3>1, <3>2, <3>3
  <2> QED BY <2>2, <2>3, <2>4
<1>8. DOMAIN records' = DOMAIN old \cup introduced /\ records' = [e \in DOMAIN records' |-> records'[e]]
  <2> HIDE DEF seeded, old
  <2> QED BY <1>1
<1>9. Added' = introduced \ DOMAIN old
  BY <1>2, <1>8 DEF Added
<1>10. ASSUME NEW e \in DOMAIN old
       PROVE  IF e \in reused' THEN Alike(records'[e], old[e]) ELSE Reduced(records'[e], old[e], Added')
  <2>1. CASE e \in touched
    <3>1. (old[e].owned \cup old[e].deps) \cap (introduced \ DOMAIN old) # {}
      BY <1>4, <2>1 DEF TouchedBy
    <3>2. old[e].deps \subseteq DOMAIN old
      BY <1>3 DEF Fits
    <3>3. records'[e].owned = {}
      BY <1>7, <2>1 DEF Bare
    <3>4. e \notin reused'
      BY <1>1, <2>1
    <3> QED BY <1>9, <3>1, <3>2, <3>3, <3>4 DEF Reduced
  <2>2. CASE e \notin touched
    BY <1>1, <1>7, <2>2
  <2> QED BY <2>1, <2>2
<1> HIDE DEF seeded, touched, bounds, old
<1>11. Whole(Verdicts', records', known')
  BY <1>3, <1>7, <1>8 DEF Whole
<1>12. DOMAIN batch' \subseteq Strong(records')
  BY <1>7, <1>8 DEF Strong
<1>13. /\ previous' = DOMAIN Functions' /\ previous' \subseteq known' /\ known' \subseteq DOMAIN records'
       /\ pending' \subseteq DOMAIN records' /\ processed' \subseteq DOMAIN records'
       /\ reused' \subseteq processed' \cap previous'
  BY <1>1, <1>2, <1>4, <1>8 DEF touched
<1>14. Stock'
  BY <1>2, <1>4, <1>1, <1>10, <1>11, <1>12, <1>13 DEF Stock
<1> QED BY <1>1, <1>14

LEMMA RefineInv ==
  ASSUME MapInv, Refine
  PROVE  MapInv'
<1>1. PICK targets \in SUBSET (Slots \cup {Outside}) :
        /\ Introduce(targets, [t \in targets |-> Assess(t)])
        /\ refinements' = refinements + 1
  BY DEF Refine
<1>2. UNCHANGED <<code, job, published>>
  BY DEF Refine
<1> DEFINE assessed == [t \in targets |-> Assess(t)]
           introduced == targets \cup UNION {assessed[t].graph.calls : t \in targets}
<1>3. /\ batch' = assessed
      /\ IF introduced \subseteq Slots THEN BeginReuse(introduced)
         ELSE phase' = "failed" /\ UNCHANGED <<previous, build>>
  <2> HIDE DEF assessed
  <2> QED BY <1>1 DEF Introduce, assessed
<1>4. DOMAIN batch' \subseteq introduced
  BY <1>3
<1> HIDE DEF introduced, assessed
<1>5. PublishedHolds /\ MapTyped
  BY DEF MapInv
<1>6. Verdicts' = Verdicts /\ Functions' = Functions
  BY <1>2, SameVerdicts DEF Functions
<1>7. PublishedHolds'
  BY <1>2, <1>5, <1>6 DEF PublishedHolds
<1>8. refinements' \in Nat /\ refinements' # 0
  BY <1>1, <1>5 DEF MapTyped
<1>9. FirstBuild'
  BY <1>8 DEF FirstBuild
<1>10. MapTyped' /\ BuildHolds'
  <2>1. CASE introduced \subseteq Slots
    <3>1. Stock' /\ wave' = {} /\ cursor' = -1 /\ phase' \in {"waves", "failed"}
      BY <1>2, <1>3, <1>4, <1>5, <1>6, <2>1, ReuseStocks
    <3> QED BY <1>2, <1>5, <1>8, <3>1 DEF MapTyped, BuildHolds
  <2>2. CASE ~(introduced \subseteq Slots)
    BY <1>2, <1>3, <1>5, <1>8, <2>2 DEF MapTyped, BuildHolds, Building, build
  <2> QED BY <2>1, <2>2
<1> QED BY <1>7, <1>9, <1>10 DEF MapInv

-----------------------------------------------------------------------------
(* Publication. *)

\* A record that is marked keeps all but its trust and its status.
LEMMA MarkedIs ==
  ASSUME NEW funcs, NEW C, \A e \in DOMAIN funcs : funcs[e] \in RecordType,
         NEW e \in DOMAIN funcs
  PROVE  LET r == funcs[e]
             q == Marked(funcs, C)[e]
         IN /\ q \in RecordType /\ Alike(q, r) /\ (q.strong <=> r.strong)
            /\ q.trust \in {r.trust, "Conflict"} /\ q.branches = r.branches
<1> DEFINE r == funcs[e]
           q == Marked(funcs, C)[e]
<1>1. r \in RecordType
  OBVIOUS
<1>2. q = IF e \in UNION C THEN [r EXCEPT !.trust = "Conflict", !.status = "Conflict"] ELSE r
  BY DEF Marked
<1> HIDE DEF r, q
<1>3. CASE e \in UNION C
  <2>0. q = [r EXCEPT !.trust = "Conflict", !.status = "Conflict"]
    BY <1>2, <1>3
  <2>1. q \in RecordType
    BY <1>1, <2>0 DEF RecordType, Trusts, Statuses
  <2>2. q.trust = "Conflict" /\ q.owned = r.owned /\ q.calls = r.calls /\ q.deps = r.deps
        /\ q.branches = r.branches
    BY <1>1, <2>0 DEF RecordType
  <2>3. (q.cfg <=> r.cfg) /\ (q.strong <=> r.strong)
    BY <1>1, <2>0 DEF RecordType
  <2> QED BY <2>1, <2>2, <2>3 DEF Alike, q, r
<1>4. CASE e \notin UNION C
  BY <1>1, <1>2, <1>4 DEF Alike, q, r
<1> QED BY <1>3, <1>4

\* The map that a build publishes.
LEMMA FinishedIs ==
  ASSUME Stock
  PROVE  LET new == Finished.functions
         IN /\ DOMAIN new = DOMAIN records
            /\ Whole(Verdicts, new, DOMAIN new)
            /\ Finished.conflicts = Overlaps(new) /\ Overlaps(new) = Overlaps(records)
            /\ Strong(new) = Strong(records)
            /\ \A e \in DOMAIN new : Alike(new[e], records[e]) /\ (new[e].strong <=> records[e].strong)
<1> DEFINE new == Finished.functions
           C == Overlaps(records)
<1>1. new = Marked(records, C) /\ Finished.conflicts = C
  BY DEF Finished
<1> HIDE DEF new, C
<1>2. DOMAIN new = DOMAIN records /\ new = [e \in DOMAIN new |-> new[e]]
  BY <1>1 DEF Marked
<1>3. Whole(Verdicts, records, known) /\ known \subseteq DOMAIN records
  BY DEF Stock
<1>4. \A e \in DOMAIN records : records[e] \in RecordType /\ Fits(Verdicts, e, records[e], known)
  BY <1>3 DEF Whole, Fits
<1>5. \A e \in DOMAIN records :
        /\ new[e] \in RecordType /\ Alike(new[e], records[e]) /\ (new[e].strong <=> records[e].strong)
        /\ new[e].trust \in {records[e].trust, "Conflict"}
  BY <1>1, <1>4, MarkedIs
<1>6. \A e \in DOMAIN new : Fits(Verdicts, e, new[e], DOMAIN new)
  BY <1>2, <1>3, <1>4, <1>5 DEF Fits, Alike
<1>7. Whole(Verdicts, new, DOMAIN new)
  BY <1>2, <1>3, <1>6 DEF Whole
<1>8. Overlaps(new) = Overlaps(records)
  <2>1. \A e \in DOMAIN records : (new[e].cfg <=> records[e].cfg) /\ new[e].owned = records[e].owned
    BY <1>5 DEF Alike
  <2>2. \A pair \in SUBSET DOMAIN records :
          (\E e, f \in pair : e < f /\ pair = {e, f} /\ new[e].cfg /\ new[f].cfg
                              /\ new[e].owned \cap new[f].owned # {})
          <=> (\E e, f \in pair : e < f /\ pair = {e, f} /\ records[e].cfg /\ records[f].cfg
                                  /\ records[e].owned \cap records[f].owned # {})
    BY <2>1
  <2> QED BY <1>2, <2>2 DEF Overlaps
<1>9. Strong(new) = Strong(records)
  BY <1>2, <1>5 DEF Strong
<1> QED BY <1>1, <1>2, <1>5, <1>7, <1>8, <1>9 DEF new, C

LEMMA PublishInv ==
  ASSUME MapInv, Publish
  PROVE  MapInv'
<1> DEFINE new == Finished.functions
           accepted == Consistent(Finished.functions) /\ Promotes(Finished.functions)
<1>1. /\ phase = "publish"
      /\ published' = IF accepted THEN Finished ELSE published
      /\ phase' = IF accepted THEN "published" ELSE "rejected"
      /\ UNCHANGED <<code, job, stop, previous, build, batch, refinements>>
  BY DEF Publish
<1> HIDE DEF accepted
<1>2. UNCHANGED <<code, job, cursor, wave, passes, batch, refinements>>
  BY <1>1 DEF build
<1>3. Stock /\ MapTyped /\ PublishedHolds
  BY <1>1 DEF MapInv, BuildHolds, Building
<1>4. /\ DOMAIN new = DOMAIN records
      /\ Whole(Verdicts, new, DOMAIN new)
      /\ Finished.conflicts = Overlaps(new)
      /\ Strong(new) = Strong(records)
      /\ \A e \in DOMAIN new : Alike(new[e], records[e])
  BY <1>3, FinishedIs
<1> HIDE DEF new
<1>5. Verdicts' = Verdicts
  BY <1>2, SameVerdicts
<1>6. phase' \in {"published", "rejected"}
  BY <1>1
<1>7. MapTyped' /\ BuildHolds'
  BY <1>2, <1>3, <1>6 DEF MapTyped, BuildHolds, Building
<1>8. PublishedHolds'
  <2>1. CASE accepted
    <3>1. Functions' = new /\ published'.conflicts = Finished.conflicts
      BY <1>1, <2>1 DEF Functions, new
    <3> QED BY <1>4, <1>5, <3>1 DEF PublishedHolds
  <2>2. CASE ~accepted
    <3>1. published' = published
      BY <1>1, <2>2
    <3>2. Functions' = Functions
      BY <3>1 DEF Functions
    <3> QED BY <1>3, <1>5, <3>1, <3>2 DEF PublishedHolds
  <2> QED BY <2>1, <2>2
<1>9. ASSUME refinements = 0, accepted PROVE ExactMap(new) /\ passes = 1
  <2>1. FreshUpTo(CodeSize) /\ Fresh
    BY <1>1, <1>9 DEF MapInv, FirstBuild, FreshUpTo
  <2>2. known = Strong(new) /\ passes = 1 /\ known \in SUBSET Slots
    BY <1>3, <1>4, <2>1 DEF FreshUpTo, Fresh, Stock, Whole
  <2>3. ASSUME NEW e \in DOMAIN new, new[e].cfg
        PROVE  /\ Analysis(e, Strong(new)).ok
               /\ new[e].owned = Analysis(e, Strong(new)).owned
               /\ new[e].calls \cap Slots \subseteq Strong(new)
    <3>1. e \in Slots /\ Fits(Verdicts, e, records[e], known)
      BY <1>3, <1>4 DEF Stock, Whole
    <3>2. /\ records[e].cfg /\ records[e].owned = new[e].owned /\ records[e].calls = new[e].calls
      BY <1>4, <2>3 DEF Alike
    <3>3. e <= CodeSize
      BY <3>1, GuestCodeAssumption DEF Slots
    <3>4. Final(Verdicts, e, records[e], known)
      BY <1>4, <2>1, <3>2, <3>3 DEF FreshUpTo
    <3>5. Verdicts[e][known] = Analysis(e, known)
      BY <2>2, <3>1 DEF Verdicts
    <3> QED BY <2>2, <3>1, <3>2, <3>4, <3>5 DEF Final, Fits
  <2> QED BY <2>2, <2>3 DEF ExactMap
<1>10. FirstBuild'
  <2> SUFFICES ASSUME refinements = 0, accepted PROVE ExactMap(published.functions)' /\ passes' = 1
    BY <1>1, <1>2 DEF FirstBuild, MapIsExact
  <2>1. published'.functions = new
    BY <1>1 DEF new
  <2>2. \A e, K : Analysis(e, K)' = Analysis(e, K)
    BY <1>2, SameAnalysis
  <2> QED BY <1>2, <1>9, <2>1, <2>2 DEF ExactMap, Strong
<1> QED BY <1>7, <1>8, <1>10 DEF MapInv

\* A build that fails, and a step that changes nothing, leave the map as it was.
LEMMA AbandonInv ==
  ASSUME MapInv, Abandon \/ UNCHANGED mapVars
  PROVE  MapInv'
<1>1. CASE Abandon
  <2>1. /\ phase' = "rejected" /\ UNCHANGED <<code, job, published, cursor, wave, batch, refinements>>
    BY <1>1 DEF Abandon, build
  <2>2. Verdicts' = Verdicts /\ Functions' = Functions
    BY <2>1, SameVerdicts DEF Functions
  <2> QED BY <2>1, <2>2
        DEF MapInv, MapTyped, PublishedHolds, BuildHolds, Building, FirstBuild, MapIsExact
<1>2. CASE UNCHANGED mapVars
  <2>1. UNCHANGED <<code, job, phase, published, records, pending, processed, known, reused, previous,
                    wave, boundaries, checkpoint, cursor, changed, passes, batch, refinements>>
    BY <1>2 DEF mapVars, map, build
  <2>2. Verdicts' = Verdicts /\ Functions' = Functions /\ \A e, K : Analysis(e, K)' = Analysis(e, K)
    BY <2>1, SameVerdicts, SameAnalysis DEF Functions
  <2>3. MapTyped' /\ PublishedHolds'
    BY <2>1, <2>2 DEF MapInv, MapTyped, PublishedHolds
  <2>4. Stock => Stock'
    <3>1. Added' = Added /\ Strong(records') = Strong(records)
      BY <2>1, <2>2 DEF Added
    <3>2. Whole(Verdicts, records, known) => Whole(Verdicts', records', known')
      BY <2>1, <2>2
    <3> QED BY <2>1, <2>2, <3>1, <3>2 DEF Stock
  <2>5. BuildHolds'
    BY <2>1, <2>4 DEF MapInv, BuildHolds, Building
  <2>6. Fresh => Fresh'
    BY <2>1, <2>2 DEF Fresh, Strong
  <2>7. (FreshWaves => FreshWaves') /\ (FreshUpTo(cursor) => FreshUpTo(cursor)')
        /\ (FreshUpTo(CodeSize) => FreshUpTo(CodeSize)')
    BY <2>1, <2>2, <2>6 DEF FreshWaves, FreshUpTo, Final
  <2>8. MapIsExact => MapIsExact'
    BY <2>1, <2>2 DEF MapIsExact, ExactMap, Strong
  <2> QED BY <2>1, <2>3, <2>5, <2>7, <2>8 DEF MapInv, FirstBuild
<1> QED BY <1>1, <1>2

LEMMA MapInitInv == MapInit => MapInv
<1> SUFFICES ASSUME MapInit PROVE MapInv
  OBVIOUS
<1>1. /\ code \in Programs /\ job \in Jobs /\ phase = "start" /\ published = NoMap
      /\ wave = {} /\ cursor = -1 /\ DOMAIN batch = {} /\ refinements = 0
  BY DEF MapInit
<1>2. Functions = [e \in {} |-> {}] /\ DOMAIN Functions = {} /\ published.conflicts = {}
  BY <1>1 DEF Functions, NoMap
<1>3. Whole(Verdicts, Functions, DOMAIN Functions)
  BY <1>2 DEF Whole
<1>4. Overlaps(Functions) = {}
  BY <1>2 DEF Overlaps
<1> QED BY <1>1, <1>2, <1>3, <1>4
      DEF MapInv, MapTyped, PublishedHolds, BuildHolds, Building, FirstBuild, MapIsExact

LEMMA MapStep == MapInv /\ [MapNext]_mapVars => MapInv'
<1> SUFFICES ASSUME MapInv, [MapNext]_mapVars PROVE MapInv'
  OBVIOUS
<1>1. CASE Build
  <2>1. BeginBuild \/ TakeWave \/ MergeGraph \/ BeginPass \/ FinalizeRecord \/ EndPass
    BY <1>1 DEF Build
  <2>2. UNCHANGED <<batch, refinements, outcome>>
    BY <1>1 DEF Build
  <2> QED BY <2>1, <2>2, BeginBuildInv, TakeWaveInv, MergeInv, BeginPassInv, FinalizeInv, EndPassInv
<1>2. CASE Refine
  BY <1>2, RefineInv
<1>3. CASE Publish
  BY <1>3, PublishInv
<1>4. CASE Abandon \/ UNCHANGED mapVars
  BY <1>4, AbandonInv
<1> QED BY <1>1, <1>2, <1>3, <1>4 DEF MapNext

\* The invariant of the builds of FunctionMapBuilder::build, first and
\* reusing: a record owns what one of the sets of known boundaries makes
\* reachable and calls only known ones, a record that a refinement reuses is
\* the published one, every other has lost no more than the entries introduced
\* account for, and the published map carries exactly its overlaps.
THEOREM MapInvariant == MapSpec => []MapInv
BY MapInitInv, MapStep, PTL DEF MapSpec

\* A first build is exact: for every program, seeds, number of workers and
\* budgets, each function of the map it publishes owns what is reachable with
\* all the entries found as boundaries, in whatever waves process_graph merged
\* them, its calls lead to entries, and one finalization pass was enough.
THEOREM FirstMapIsExact == MapSpec => []MapIsExact
<1>1. MapInv => MapIsExact
  <2> SUFFICES ASSUME MapInv, phase = "published", refinements = 0 PROVE MapIsExact
    BY DEF MapIsExact
  <2> QED BY DEF MapInv, FirstBuild
<1> QED BY <1>1, MapInvariant, PTL

\* A step that promotes a batch publishes the map of a build in order.
LEMMA PromotedIs ==
  ASSUME MapInv, [MapNext]_mapVars, outcome' = "promoted", outcome = "none"
  PROVE  /\ Stock /\ PublishedHolds /\ published' = Finished /\ batch' = batch
         /\ Consistent(Finished.functions) /\ Promotes(Finished.functions)
<1>1. Publish
  <2>1. outcome' # outcome
    OBVIOUS
  <2>2. ~Build /\ ~UNCHANGED mapVars
    BY <2>1 DEF Build, mapVars
  <2>3. ~Refine /\ ~Abandon
    BY DEF Refine, Abandon
  <2> QED BY <2>2, <2>3 DEF MapNext
<1>2. /\ phase = "publish" /\ batch' = batch /\ published' = Finished
      /\ Consistent(Finished.functions) /\ Promotes(Finished.functions)
  BY <1>1 DEF Publish
<1> QED BY <1>2 DEF MapInv, BuildHolds, Building

\* refine_process_function_map_batch promotes a batch only into a map that has
\* each target as a trusted function, gives no function more than it had, takes
\* from one only where a new entry lies in it, and conflicts anew only at new
\* entries: whatever the code, the evidence and the refinements before.
THEOREM PromotionIsSafe == MapSpec => PromotionHolds
<1> DEFINE old == published.functions
           new == published'.functions
           added == DOMAIN new \ DOMAIN old
           Safe == outcome' = "promoted" /\ outcome = "none" =>
                     /\ \A t \in DOMAIN batch : new[t].cfg /\ new[t].trust = "Trusted"
                     /\ \A e \in DOMAIN old :
                          /\ new[e].owned \subseteq old[e].owned
                          /\ new[e].owned # old[e].owned => old[e].owned \cap added # {}
                     /\ \A pair \in published'.conflicts \ published.conflicts : pair \cap added # {}
<1>1. MapInv /\ [MapNext]_mapVars => Safe
  <2> SUFFICES ASSUME MapInv, [MapNext]_mapVars, outcome' = "promoted", outcome = "none"
               PROVE  /\ \A t \in DOMAIN batch : new[t].cfg /\ new[t].trust = "Trusted"
                      /\ \A e \in DOMAIN old :
                           /\ new[e].owned \subseteq old[e].owned
                           /\ new[e].owned # old[e].owned => old[e].owned \cap added # {}
                      /\ \A pair \in published'.conflicts \ published.conflicts : pair \cap added # {}
    BY Zenon
  <2>1. /\ Stock /\ PublishedHolds /\ published' = Finished
        /\ Consistent(new) /\ Promotes(new)
    <3>1. /\ Stock /\ PublishedHolds /\ published' = Finished
          /\ Consistent(Finished.functions) /\ Promotes(Finished.functions)
      BY PromotedIs
    <3> QED BY <3>1
  <2>2. /\ DOMAIN new = DOMAIN records
        /\ Whole(Verdicts, new, DOMAIN new)
        /\ published'.conflicts = Overlaps(records)
        /\ Strong(new) = Strong(records)
        /\ \A e \in DOMAIN new : Alike(new[e], records[e])
    BY <2>1, FinishedIs
  <2>3. /\ old = Functions /\ DOMAIN old \subseteq DOMAIN records /\ added = Added
        /\ published.conflicts = Overlaps(old) /\ Whole(Verdicts, old, DOMAIN old)
        /\ \A e \in DOMAIN old : Alike(records[e], old[e]) \/ Reduced(records[e], old[e], added)
    <3>1. old = Functions /\ added = Added
      BY <2>2 DEF Functions, Added
    <3> QED BY <2>1, <3>1 DEF Stock, PublishedHolds
  <2> HIDE DEF old, new, added
  <2>4. ASSUME NEW t \in DOMAIN batch PROVE new[t].cfg /\ new[t].trust = "Trusted"
    <3>1. t \in DOMAIN new /\ new[t].strong
      BY <2>1, <2>2 DEF Stock, Strong
    <3>2. new[t].cfg /\ new[t].status # "Conflict"
      BY <2>1 DEF Promotes
    <3>3. new[t].trust # "Conflict"
      BY <2>1, <3>1, <3>2 DEF Consistent
    <3>4. new[t].trust \in Trusts /\ new[t].trust # "Candidate"
      BY <2>2, <3>1 DEF Whole, Fits, RecordType
    <3> QED BY <3>2, <3>3, <3>4 DEF Trusts
  <2>5. ASSUME NEW e \in DOMAIN old
        PROVE  /\ new[e].owned \subseteq old[e].owned
               /\ new[e].owned # old[e].owned => old[e].owned \cap added # {}
               /\ new[e].owned = records[e].owned
               /\ (records[e].cfg /\ records[e].owned # {} => old[e].cfg)
    <3>1. new[e].owned = records[e].owned
      BY <2>2, <2>3 DEF Alike
    <3>2. Alike(records[e], old[e]) \/ Reduced(records[e], old[e], added)
      BY <2>3
    <3>3. Fits(Verdicts, e, old[e], DOMAIN old)
      BY <2>3 DEF Whole
    <3> QED BY <3>1, <3>2, <3>3 DEF Alike, Reduced, Fits
  <2>6. ASSUME NEW pair \in published'.conflicts \ published.conflicts, pair \cap added = {}
        PROVE  FALSE
    <3>1. PICK e \in pair, f \in pair : /\ e < f /\ pair = {e, f} /\ records[e].cfg /\ records[f].cfg
                              /\ records[e].owned \cap records[f].owned # {}
      BY <2>2, <2>6 DEF Overlaps
    <3>2. pair \in SUBSET DOMAIN new
      BY <2>2, <2>6 DEF Overlaps
    <3>3. pair \in SUBSET DOMAIN old
      BY <2>6, <3>2 DEF added
    <3>4. /\ old[e].cfg /\ old[f].cfg
          /\ records[e].owned \subseteq old[e].owned /\ records[f].owned \subseteq old[f].owned
      BY <2>5, <3>1, <3>3
    <3>5. pair \in Overlaps(old)
      BY <3>1, <3>3, <3>4 DEF Overlaps
    <3> QED BY <2>3, <2>6, <3>5
  <2> QED BY <2>4, <2>5, <2>6
<1> QED BY <1>1, MapInvariant, PTL DEF MapSpec, PromotionHolds

-----------------------------------------------------------------------------
(* Why a build ends. *)

\* What BuildsAdvance asks of a step.
Moves ==
  \/ Idle /\ refinements' = refinements + 1
  \/ /\ refinements' = refinements
     /\ \/ StagesLeft' < StagesLeft
        \/ /\ phase = "waves" /\ phase' = "waves"
           /\ WavesLeft \in Nat \X Nat \X Nat \X Nat
           /\ Below(WavesLeft', WavesLeft)
        \/ /\ phase = "finalize" /\ phase' = "finalize"
           /\ PassesLeft \in Nat \X Nat
           /\ Below(PassesLeft', PassesLeft)

\* The passes made and the record last visited are within their bounds.
PassTyped ==
  /\ phase = "waves" => passes = 0
  /\ phase = "finalize" => passes \in 1 .. MaxPasses + 1 /\ cursor \in -1 .. CodeSize - 1

\* The tuples of the measures, by the place where they fall.
LEMMA BelowPair ==
  ASSUME NEW a, NEW b, NEW c, NEW d, a < c \/ (a = c /\ b < d)
  PROVE  Below(<<a, b>>, <<c, d>>)
<1> DEFINE low == <<a, b>>
           high == <<c, d>>
<1>1. DOMAIN high = 1 .. 2 /\ low[1] = a /\ low[2] = b /\ high[1] = c /\ high[2] = d
  OBVIOUS
<1> HIDE DEF low, high
<1>2. CASE a < c
  <2>1. 1 \in DOMAIN high /\ low[1] < high[1] /\ \A j \in 1 .. 1 - 1 : low[j] = high[j]
    BY <1>1, <1>2
  <2> QED BY <2>1 DEF Below, low, high
<1>3. CASE a = c /\ b < d
  <2>1. 2 \in DOMAIN high /\ low[2] < high[2] /\ \A j \in 1 .. 2 - 1 : low[j] = high[j]
    BY <1>1, <1>3
  <2> QED BY <2>1 DEF Below, low, high
<1> QED BY <1>2, <1>3

LEMMA BelowFour ==
  ASSUME NEW a, NEW b, NEW c, NEW d, NEW e, NEW f, NEW g, NEW h,
         \/ a < e
         \/ a = e /\ b < f
         \/ a = e /\ b = f /\ c < g
         \/ a = e /\ b = f /\ c = g /\ d < h
  PROVE  Below(<<a, b, c, d>>, <<e, f, g, h>>)
<1> DEFINE low == <<a, b, c, d>>
           high == <<e, f, g, h>>
<1>1. /\ DOMAIN high = 1 .. 4
      /\ low[1] = a /\ low[2] = b /\ low[3] = c /\ low[4] = d
      /\ high[1] = e /\ high[2] = f /\ high[3] = g /\ high[4] = h
  OBVIOUS
<1> HIDE DEF low, high
<1>2. ASSUME NEW i \in 1 .. 4, low[i] < high[i], \A j \in 1 .. i - 1 : low[j] = high[j]
      PROVE  Below(low, high)
  BY <1>1, <1>2 DEF Below
<1>3. CASE a < e
  <2>1. \A j \in 1 .. 1 - 1 : low[j] = high[j]
    OBVIOUS
  <2> QED BY <1>1, <1>2, <1>3, <2>1 DEF low, high
<1>4. CASE a = e /\ b < f
  <2>1. \A j \in 1 .. 2 - 1 : low[j] = high[j]
    BY <1>1, <1>4
  <2> QED BY <1>1, <1>2, <1>4, <2>1 DEF low, high
<1>5. CASE a = e /\ b = f /\ c < g
  <2>1. \A j \in 1 .. 3 - 1 : j = 1 \/ j = 2
    OBVIOUS
  <2>2. \A j \in 1 .. 3 - 1 : low[j] = high[j]
    BY <1>1, <1>5, <2>1
  <2> QED BY <1>1, <1>2, <1>5, <2>2 DEF low, high
<1>6. CASE a = e /\ b = f /\ c = g /\ d < h
  <2>1. \A j \in 1 .. 4 - 1 : j = 1 \/ j = 2 \/ j = 3
    OBVIOUS
  <2>2. \A j \in 1 .. 4 - 1 : low[j] = high[j]
    BY <1>1, <1>6, <2>1
  <2> QED BY <1>1, <1>2, <1>6, <2>2 DEF low, high
<1> QED BY <1>3, <1>4, <1>5, <1>6

\* A set of slots has no more of them than the code.
LEMMA SlotCount ==
  ASSUME NEW S \in SUBSET Slots
  PROVE  /\ IsFiniteSet(S) /\ Cardinality(S) \in Nat
         /\ CodeSize - Cardinality(S) \in Nat /\ CodeSize \in Nat
         /\ \A T \in SUBSET S : /\ Cardinality(T) \in Nat /\ Cardinality(T) <= Cardinality(S)
                                /\ T # S => Cardinality(T) < Cardinality(S)
<1>1. CodeSize \in Nat /\ Slots = 0 .. CodeSize - 1
  BY GuestCodeAssumption DEF Slots
<1>2. IsFiniteSet(Slots) /\ Cardinality(Slots) = CodeSize
  <2>1. IsFiniteSet(0 .. CodeSize - 1) /\ Cardinality(0 .. CodeSize - 1) = CodeSize
    BY <1>1, FS_Interval
  <2> QED BY <1>1, <2>1
<1>3. IsFiniteSet(S) /\ Cardinality(S) \in Nat /\ Cardinality(S) <= CodeSize
  BY <1>2, FS_Subset, FS_CardinalityType
<1>4. ASSUME NEW T \in SUBSET S
      PROVE  /\ Cardinality(T) \in Nat /\ Cardinality(T) <= Cardinality(S)
             /\ T # S => Cardinality(T) < Cardinality(S)
  <2>1. Cardinality(T) \in Nat /\ Cardinality(T) <= Cardinality(S)
    BY <1>3, FS_Subset, FS_CardinalityType
  <2>2. T # S => Cardinality(T) # Cardinality(S)
    BY <1>3, FS_Subset
  <2> QED BY <1>3, <2>1, <2>2
<1> QED BY <1>1, <1>3, <1>4

\* What a build in its waves keeps are sets of slots.
LEMMA WaveSets ==
  ASSUME MapInv, phase = "waves"
  PROVE  /\ wave \in SUBSET Slots /\ pending \in SUBSET Slots
         /\ processed \in SUBSET Slots /\ reused \in SUBSET Slots
         /\ WavesLeft \in Nat \X Nat \X Nat \X Nat
<1>1. Stock /\ wave \in SUBSET Slots
  BY DEF MapInv, BuildHolds, Building, MapTyped
<1>2. /\ pending \in SUBSET Slots /\ processed \in SUBSET Slots /\ reused \in SUBSET Slots
  BY <1>1 DEF Stock, Whole
<1>3. /\ Cardinality(reused) \in Nat /\ CodeSize - Cardinality(processed) \in Nat
      /\ Cardinality(wave) \in Nat /\ Cardinality(pending) \in Nat
  BY <1>1, <1>2, SlotCount
<1> QED BY <1>1, <1>2, <1>3 DEF WavesLeft

\* Taking a wave puts entries in it that were in none, or drops what was processed.
LEMMA TakeWaveMoves ==
  ASSUME MapInv, TakeWave, refinements' = refinements
  PROVE  Moves
<1> DEFINE entries == FirstOf(Unprocessed, job.workers)
<1>1. /\ phase = "waves" /\ phase' = "waves" /\ wave = {} /\ pending # {} /\ wave' = entries
      /\ pending' = IF entries = Unprocessed THEN {} ELSE {e \in pending : e > Max(entries)}
      /\ processed' = processed \cup entries /\ reused' = reused
  BY DEF TakeWave
<1>2. /\ wave \in SUBSET Slots /\ pending \in SUBSET Slots
      /\ processed \in SUBSET Slots /\ reused \in SUBSET Slots
      /\ WavesLeft \in Nat \X Nat \X Nat \X Nat
  BY <1>1, WaveSets
<1>3. entries \in SUBSET Unprocessed /\ Unprocessed \in SUBSET Slots
      /\ entries \cap processed = {}
  BY <1>2 DEF FirstOf, Unprocessed
<1>4. Below(WavesLeft', WavesLeft)
  <2>1. CASE Unprocessed = {}
    <3>1. entries = {} /\ pending' = {} /\ processed' = processed /\ wave' = wave
      BY <1>1, <1>3, <2>1
    <3>2. Cardinality(pending') < Cardinality(pending)
      BY <1>1, <1>2, <3>1, SlotCount
    <3> QED BY <1>1, <3>1, <3>2, BelowFour DEF WavesLeft
  <2>2. CASE Unprocessed # {}
    <3>1. job.workers \in Nat \ {0}
      BY FunctionMapAssumption DEF MapInv, MapTyped, JobType
    <3>2. entries # {}
      BY <1>3, <2>2, <3>1, FirstOfIs
    <3> HIDE DEF entries
    <3>3. processed' \in SUBSET Slots /\ processed \in SUBSET processed' /\ processed # processed'
      BY <1>1, <1>2, <1>3, <3>2
    <3>4. /\ Cardinality(processed) < Cardinality(processed')
          /\ Cardinality(processed) \in Nat /\ Cardinality(processed') \in Nat /\ CodeSize \in Nat
      BY <1>2, <3>3, SlotCount
    <3>5. CodeSize - Cardinality(processed') < CodeSize - Cardinality(processed)
      BY <3>4
    <3> QED BY <1>1, <3>5, BelowFour DEF WavesLeft
  <2> QED BY <2>1, <2>2
<1> QED BY <1>1, <1>2, <1>4 DEF Moves

\* Merging takes an entry out of the wave; records return to the worklist only
\* when they stop being reused.
LEMMA MergeMoves ==
  ASSUME MapInv, MergeGraph, refinements' = refinements
  PROVE  Moves
<1> DEFINE entry == Min(wave)
           graph == Analysis(entry, boundaries)
<1>1. /\ phase = "waves" /\ wave # {} /\ wave' = wave \ {entry}
      /\ IF graph.ok THEN Expand(entry, Analyzed(records[entry], graph), graph)
         ELSE FailEntry(entry) /\ phase' = IF stop THEN "failed" ELSE phase
  BY DEF MergeGraph
<1>2. /\ wave \in SUBSET Slots /\ processed \in SUBSET Slots /\ reused \in SUBSET Slots
      /\ WavesLeft \in Nat \X Nat \X Nat \X Nat
  BY <1>1, WaveSets
<1>3. entry \in wave
  <2>1. Slots \in SUBSET Nat
    BY GuestCodeAssumption DEF Slots
  <2>2. wave \in SUBSET Nat
    BY <1>2, <2>1
  <2> QED BY <1>1, <2>2, MinOf
<1> HIDE DEF entry
<1>4. Cardinality(wave') < Cardinality(wave)
  <2>1. wave' \in SUBSET wave /\ wave' # wave
    BY <1>1, <1>3
  <2> QED BY <1>2, <2>1, SlotCount
<1>5. phase' \in {"waves", "failed"}
  BY <1>1 DEF Expand
<1>6. CASE phase' = "failed"
  BY <1>1, <1>6 DEF Moves, StagesLeft
<1>7. CASE phase' = "waves"
  <2>1. reused' \in SUBSET reused /\ (reused' = reused => processed' = processed)
    <3>1. CASE graph.ok
      <4>1. Expand(entry, Analyzed(records[entry], graph), graph)
        BY <1>1, <3>1
      <4> HIDE DEF graph
      <4> DEFINE touched == Touched(Callable(graph))
      <4>2. reused' = reused \ touched /\ processed' = processed \ touched /\ touched \subseteq reused
        BY <4>1 DEF Expand, Touched
      <4> QED BY <4>2
    <3>2. CASE ~graph.ok
      BY <1>1, <3>2 DEF FailEntry
    <3> QED BY <3>1, <3>2
  <2>2. CASE reused' = reused
    BY <1>4, <2>1, <2>2, BelowFour, <1>1, <1>2, <1>7 DEF Moves, WavesLeft
  <2>3. CASE reused' # reused
    <3>1. Cardinality(reused') < Cardinality(reused)
      BY <1>2, <2>1, <2>3, SlotCount
    <3>2. Below(WavesLeft', WavesLeft)
      BY <3>1, BelowFour DEF WavesLeft
    <3> QED BY <1>1, <1>2, <1>7, <3>2 DEF Moves
  <2> QED BY <2>2, <2>3
<1> QED BY <1>5, <1>6, <1>7

\* A pass of the finalization goes up the records.
LEMMA FinalizeMoves ==
  ASSUME MapInv, PassTyped, FinalizeRecord \/ EndPass, refinements' = refinements
  PROVE  Moves
<1>1. phase = "finalize" /\ passes \in 1 .. MaxPasses + 1 /\ cursor \in -1 .. CodeSize - 1
      /\ MaxPasses \in Nat /\ CodeSize \in Nat
  BY FunctionMapAssumption, GuestCodeAssumption DEF PassTyped, FinalizeRecord, EndPass
<1>2. PassesLeft \in Nat \X Nat
  BY <1>1 DEF PassesLeft
<1>3. CASE FinalizeRecord
  <2>1. PICK e \in DOMAIN records : Due(e) /\ cursor' = e
    BY <1>3 DEF FinalizeRecord
  <2>2. passes' = passes /\ phase' \in {"finalize", "failed"}
    BY <1>1, <1>3 DEF FinalizeRecord, Expand
  <2>3. e \in Slots /\ e > cursor
    <3>1. Stock
      BY <1>1 DEF MapInv, BuildHolds, Building
    <3> QED BY <2>1, <3>1 DEF Stock, Whole, Due
  <2>4. CodeSize - cursor' < CodeSize - cursor
    BY <1>1, <2>1, <2>3 DEF Slots
  <2>5. Below(PassesLeft', PassesLeft)
    BY <2>2, <2>4, BelowPair DEF PassesLeft
  <2>6. CASE phase' = "failed"
    BY <1>1, <2>6 DEF Moves, StagesLeft
  <2> QED BY <1>1, <1>2, <2>2, <2>5, <2>6 DEF Moves
<1>4. CASE EndPass
  <2>1. \/ phase' \in {"publish", "failed"}
        \/ phase' = phase /\ passes' = passes + 1
    BY <1>4 DEF EndPass
  <2>2. CASE phase' \in {"publish", "failed"}
    BY <1>1, <2>2 DEF Moves, StagesLeft
  <2>3. CASE phase' = phase /\ passes' = passes + 1
    <3>1. MaxPasses + 1 - passes' < MaxPasses + 1 - passes
      BY <1>1, <2>3
    <3>2. ASSUME NEW a, NEW b, NEW c, NEW d, a < c PROVE Below(<<a, b>>, <<c, d>>)
      <4>1. a < c \/ (a = c /\ b < d)
        BY <3>2, Zenon
      <4> QED BY <4>1, BelowPair, Zenon
    <3>3. Below(PassesLeft', PassesLeft)
      BY <3>1, <3>2, Zenon DEF PassesLeft
    <3> QED BY <1>1, <1>2, <2>3, <3>3 DEF Moves
  <2> QED BY <2>1, <2>2, <2>3
<1> QED BY <1>3, <1>4

\* Every step of a build, and the ones that begin and end it.
LEMMA StepMoves ==
  ASSUME MapInv, PassTyped, MapNext
  PROVE  Moves
<1>1. CASE Build
  <2>0. refinements' = refinements
    BY <1>1 DEF Build
  <2>1. CASE BeginBuild
    <3>1. phase = "start" /\ phase' \in {"waves", "failed"}
      BY <2>1 DEF BeginBuild, Start
    <3> QED BY <2>0, <3>1 DEF Moves, StagesLeft
  <2>2. CASE BeginPass
    <3>1. phase = "waves" /\ phase' = "finalize"
      BY <2>2 DEF BeginPass
    <3> QED BY <2>0, <3>1 DEF Moves, StagesLeft
  <2> QED BY <1>1, <2>0, <2>1, <2>2, TakeWaveMoves, MergeMoves, FinalizeMoves DEF Build
<1>2. CASE Refine
  BY <1>2 DEF Refine, Moves
<1>3. CASE Publish
  <2>1. phase = "publish" /\ phase' \in {"published", "rejected"} /\ refinements' = refinements
    BY <1>3 DEF Publish
  <2> QED BY <2>1 DEF Moves, StagesLeft
<1>4. CASE Abandon
  <2>1. phase = "failed" /\ phase' = "rejected" /\ refinements' = refinements
    BY <1>4 DEF Abandon
  <2> QED BY <2>1 DEF Moves, StagesLeft
<1> QED BY <1>1, <1>2, <1>3, <1>4 DEF MapNext

\* The bounds of the finalization are kept.
LEMMA PassTypedKept ==
  ASSUME MapInv, PassTyped, [MapNext]_mapVars
  PROVE  PassTyped'
<1>1. MaxPasses \in Nat /\ CodeSize \in Nat
  BY FunctionMapAssumption, GuestCodeAssumption
<1>2. CASE BeginBuild
  <2>1. phase' \in {"waves", "failed"} /\ passes' = 0
    BY <1>2 DEF BeginBuild, Start
  <2> QED BY <2>1 DEF PassTyped
<1>3. CASE TakeWave \/ MergeGraph
  <2>1. phase = "waves" /\ phase' \in {"waves", "failed"} /\ passes' = passes
    BY <1>3 DEF TakeWave, MergeGraph, Expand
  <2> QED BY <2>1 DEF PassTyped
<1>4. CASE BeginPass
  <2>1. phase = "waves" /\ phase' = "finalize" /\ passes' = passes + 1 /\ cursor' = -1
    BY <1>4 DEF BeginPass
  <2> QED BY <1>1, <2>1 DEF PassTyped
<1>5. CASE FinalizeRecord
  <2>1. PICK e \in DOMAIN records : cursor' = e
    BY <1>5 DEF FinalizeRecord
  <2>2. phase = "finalize" /\ passes' = passes /\ phase' \in {"finalize", "failed"}
    BY <1>5 DEF FinalizeRecord, Expand
  <2>3. e \in 0 .. CodeSize - 1
    BY <2>2 DEF MapInv, BuildHolds, Building, Stock, Whole, Slots
  <2> QED BY <1>1, <2>1, <2>2, <2>3 DEF PassTyped
<1>6. CASE EndPass
  <2>1. /\ phase = "finalize"
        /\ \/ phase' \in {"publish", "failed"}
           \/ phase' = phase /\ passes' = passes + 1 /\ cursor' = -1 /\ ~(passes >= MaxPasses)
    BY <1>6 DEF EndPass
  <2> QED BY <1>1, <2>1 DEF PassTyped
<1>7. CASE Refine
  <2>1. phase' = "failed" \/ (phase' \in {"waves", "failed"} /\ passes' = 0)
    <3>1. PICK targets \in SUBSET (Slots \cup {Outside}) :
            Introduce(targets, [t \in targets |-> Assess(t)])
      BY <1>7 DEF Refine
    <3> DEFINE assessed == [t \in targets |-> Assess(t)]
               introduced == targets \cup UNION {assessed[t].graph.calls : t \in targets}
    <3> HIDE DEF assessed
    <3>2. /\ introduced \subseteq Slots => BeginReuse(introduced)
          /\ ~(introduced \subseteq Slots) => phase' = "failed"
      BY <3>1 DEF Introduce, assessed
    <3> HIDE DEF introduced
    <3>3. ASSUME BeginReuse(introduced) PROVE phase' \in {"waves", "failed"} /\ passes' = 0
      BY <3>3 DEF BeginReuse, Start
    <3> DEFINE within == introduced \subseteq Slots
    <3>4. (within => BeginReuse(introduced)) /\ (~within => phase' = "failed")
      BY <3>2
    <3> HIDE DEF within
    <3> QED BY <3>3, <3>4, Zenon
  <2> QED BY <2>1 DEF PassTyped
<1>8. CASE Publish \/ Abandon
  BY <1>8 DEF Publish, Abandon, PassTyped
<1>9. CASE UNCHANGED mapVars
  BY <1>9 DEF mapVars, map, build, PassTyped
<1> QED BY <1>2, <1>3, <1>4, <1>5, <1>6, <1>7, <1>8, <1>9 DEF MapNext, Build

\* Every build and every refinement ends: whatever the code, the seeds, the
\* workers and the entries introduced, invalidate_reused cannot keep the waves of
\* FunctionMapBuilder::build going, nor the boundaries it finds its passes.
THEOREM BuildsAlwaysAdvance == MapSpec => BuildsAdvance
<1>1. MapInit => PassTyped
  BY DEF MapInit, PassTyped
<1>2. MapInv /\ PassTyped /\ [MapNext]_mapVars => PassTyped'
  BY PassTypedKept
<1>3. MapInv /\ PassTyped /\ [MapNext]_mapVars =>
        [\/ Idle /\ refinements' = refinements + 1
         \/ /\ refinements' = refinements
            /\ \/ StagesLeft' < StagesLeft
               \/ /\ phase = "waves" /\ phase' = "waves"
                  /\ WavesLeft \in Nat \X Nat \X Nat \X Nat
                  /\ Below(WavesLeft', WavesLeft)
               \/ /\ phase = "finalize" /\ phase' = "finalize"
                  /\ PassesLeft \in Nat \X Nat
                  /\ Below(PassesLeft', PassesLeft)]_mapVars
  BY StepMoves DEF Moves
<1> QED BY <1>1, <1>2, <1>3, MapInvariant, PTL DEF MapSpec, BuildsAdvance
=============================================================================
