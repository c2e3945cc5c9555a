---------------------------- MODULE CfgAnalyzer ----------------------------
(***************************************************************************)
(* The control-flow graph of one function, GraphBuilder of                   *)
(* src/switchrecomp/analysis/cfg_analyzer.cpp: a worklist of block starts,    *)
(* each decoded up to the next leader or control-flow instruction.  A target *)
(* in the middle of a block that is published already splits it; one in the  *)
(* block being decoded splits it when it is published.                       *)
(*                                                                         *)
(* A block is its last slot and the edges of it; its first slot is the key.  *)
(***************************************************************************)
EXTENDS GuestCode, Sequences, SequencesExt

CONSTANTS
  Limits,   \* the limits an analysis may be given
  Ranges    \* the ranges it may be allowed to

LimitType == [instructions : Nat \ {0}, blocks : Nat \ {0}, pending : Nat \ {0}]

ASSUME CfgAssumption ==
  /\ Limits \subseteq LimitType
  /\ Ranges \subseteq SUBSET Slots

VARIABLES
  options,    \* the entry and options_
  blocks,     \* graph_.blocks
  unresolved, \* graph_.unresolved
  calls,      \* the slots of graph_.calls
  count,      \* graph_.instruction_count
  leaders,    \* leaders_
  worklist,   \* worklist_, whose elements are pending_
  result      \* "running", "ok" or the error

cfg == <<code, options, blocks, unresolved, calls, count, leaders, worklist, result>>

CfgInit ==
  /\ code \in Programs
  /\ options \in [entry : Slots, known : SUBSET Slots, allowed : Ranges, limits : Limits]
  /\ options.entry \in options.allowed
  /\ blocks = [b \in {} |-> {}]
  /\ unresolved = {}
  /\ calls = {}
  /\ count = 0
  /\ leaders = {options.entry}
  /\ worklist = <<options.entry>>
  /\ result = "running"

Edges(a) == Flow(options.entry, options.known, options.allowed, a)

-----------------------------------------------------------------------------
(* Decoding and splitting. *)

\* decode_block stops after a slot that transfers control or that the next
\* leader or the end of the range follows.
Stops(a) ==
  \/ code[a].kind # "plain"
  \/ a + 1 \in leaders
  \/ a + 1 \notin options.allowed

LastFrom(start) ==
  CHOOSE a \in start .. CodeSize - 1 : Stops(a) /\ \A b \in start .. a - 1 : ~Stops(b)

\* Mutant: a leader at the last slot of a block does not split it.
SplitInside(published, a) ==
  LET before == {s \in DOMAIN published : s <= a}
      s == Max(before)
  IN IF before # {} /\ s < a /\ a < published[s].last
     THEN [b \in DOMAIN published \cup {a} |->
             CASE b = s -> [last |-> a - 1,
                            edges |-> {[target |-> a, kind |-> "Fallthrough", internal |-> TRUE]}]
               [] b = a -> published[s]
               [] OTHER -> published[b]]
     ELSE published

\* split_existing_block: the block published before a keeps what precedes it.
Split(published, a) ==
  LET before == {s \in DOMAIN published : s <= a}
      s == Max(before)
  IN IF before # {} /\ s < a /\ a <= published[s].last
     THEN [b \in DOMAIN published \cup {a} |->
             CASE b = s -> [last |-> a - 1,
                            edges |-> {[target |-> a, kind |-> "Fallthrough", internal |-> TRUE]}]
               [] b = a -> published[s]
               [] OTHER -> published[b]]
     ELSE published

\* publish_block: the decoded slots, cut at the leaders among them.
Published(split, start, last, known) ==
  LET starts == {start} \cup {a \in start + 1 .. last : a \in known}
      lastOf(s) == Min({a \in s .. last : a + 1 \in starts \/ a = last})
  IN [b \in DOMAIN split \cup starts |->
        IF b \in starts
        THEN [last |-> lastOf(b),
              edges |-> IF lastOf(b) = last THEN Edges(last)
                        ELSE {[target |-> lastOf(b) + 1, kind |-> "Fallthrough",
                               internal |-> TRUE]}]
        ELSE split[b]]

\* The successors of the slot a inside the range, in the order they are marked:
\* the direct branch before the fallthrough.
InOrder(a) ==
  LET inner == Inner(Edges(a))
      direct == IF code[a].kind \in {"jump", "cond"} /\ code[a].target \in inner
                THEN <<code[a].target>> ELSE <<>>
      next == IF code[a].kind # "jump" /\ a + 1 \in inner THEN <<a + 1>> ELSE <<>>
  IN direct \o next

\* mark_leader, for the one or two successors of a slot.
SplitAll(published, targets) ==
  LET first == IF targets = <<>> THEN published ELSE Split(published, Head(targets))
  IN IF Len(targets) = 2 THEN Split(first, targets[2]) ELSE first

\* enqueue, where the pending set is the worklist.
Enqueue(queue, published, a) ==
  IF a \in Range(queue) \cup published THEN queue ELSE Append(queue, a)

EnqueueAll(queue, published, targets) ==
  LET first == IF targets = <<>> THEN queue ELSE Enqueue(queue, published, Head(targets))
  IN IF Len(targets) = 2 THEN Enqueue(first, published, targets[2]) ELSE first

\* publish_block enqueues the starts of the parts it cuts a block into, in order.
EnqueueCuts(queue, published, cuts) ==
  LET new == cuts \ (Range(queue) \cup published)
  IN IF new = {} THEN queue ELSE queue \o SetToSortSeq(new, <)

-----------------------------------------------------------------------------
(* One turn of the loop of run. *)

Fail(error) ==
  /\ result' = error
  /\ UNCHANGED <<code, options, blocks, unresolved, calls, count, leaders, worklist>>

\* A start enqueued while its block was decoded is in the graph already.
SkipBlock ==
  /\ Head(worklist) \in DOMAIN blocks
  /\ worklist' = Tail(worklist)
  /\ UNCHANGED <<code, options, blocks, unresolved, calls, count, leaders, result>>

DecodeBlock ==
  LET start == Head(worklist)
      last == LastFrom(start)
      known == leaders \cup Range(InOrder(last))
      split == SplitAll(blocks, InOrder(last))
      marked == EnqueueAll(Tail(worklist), DOMAIN split, InOrder(last))
      queue == EnqueueCuts(marked, DOMAIN split, known \cap (start + 1 .. last))
  IN /\ start \notin DOMAIN blocks
     /\ IF Cardinality(DOMAIN blocks) >= options.limits.blocks THEN Fail("BlockLimit")
        ELSE IF count + last - start >= options.limits.instructions THEN Fail("InstructionLimit")
        ELSE IF ~Sound(last) THEN Fail("InvalidCode")
        ELSE IF Len(queue) > options.limits.pending THEN Fail("WorklistLimit")
        ELSE /\ blocks' = Published(split, start, last, known)
             /\ leaders' = known
             /\ worklist' = queue
             /\ count' = count + last - start + 1
             /\ calls' = calls \cup {a \in {last} : code[a].kind \in {"call", "icall"}}
             /\ unresolved' = unresolved
                  \cup {a \in {last} : code[a].kind \in {"icall", "ijump", "unknown"}}
             /\ UNCHANGED <<code, options, result>>

SlotsOf(s) == s .. blocks[s].last

\* validate_control_flow_graph
GraphValid ==
  /\ \A s, t \in DOMAIN blocks : s # t => SlotsOf(s) \cap SlotsOf(t) = {}
  /\ \A s \in DOMAIN blocks : \A e \in blocks[s].edges :
       /\ e.internal => e.target \in DOMAIN blocks
       /\ e.kind = "FunctionTransfer" =>
            ~e.internal /\ e.target \notin DOMAIN blocks /\ code[blocks[s].last].kind = "jump"
       /\ code[blocks[s].last].kind = "jump" => e.kind # "Fallthrough"

\* The graph is checked before it is returned.
Finish ==
  /\ result' = IF GraphValid THEN "ok" ELSE "InvalidFormat"
  /\ UNCHANGED <<code, options, blocks, unresolved, calls, count, leaders, worklist>>

CfgNext ==
  /\ result = "running"
  /\ \/ worklist # <<>> /\ (SkipBlock \/ DecodeBlock)
     \/ worklist = <<>> /\ Finish

CfgSpec == CfgInit /\ [][CfgNext]_cfg

-----------------------------------------------------------------------------
(* Properties. *)

Owned == UNION {SlotsOf(s) : s \in DOMAIN blocks}

\* The worklist computes what reachability defines, whatever the order in which
\* leaders are found: each reachable slot is decoded once and lies in one
\* block, blocks start at the leaders, and their edges are those of the code.
\* And it fails only for a reason that the code has: an instruction that does
\* not decode or leaves the code, a limit that the graph does exceed, or a
\* branch out of the function to a known entry that is a block of it as well,
\* the one way to a graph that validate_control_flow_graph refuses.
CfgExact ==
  LET reach == Reach(options.entry, options.known, options.allowed)
      starts == Starts(options.entry, options.known, options.allowed)
      contradicted == Contradicted(options.entry, options.known, options.allowed)
  IN /\ result = "ok" =>
          /\ Owned = reach
          /\ count = Cardinality(Owned)
          /\ DOMAIN blocks = leaders
          /\ \A s \in DOMAIN blocks : blocks[s].edges = Edges(blocks[s].last)
          /\ \A s \in DOMAIN blocks : \A a \in SlotsOf(s) \ {blocks[s].last} :
               code[a].kind = "plain"
          /\ unresolved = {a \in Owned : code[a].kind \in {"icall", "ijump", "unknown"}}
          /\ calls = {a \in Owned : code[a].kind \in {"call", "icall"}}
          /\ ~contradicted /\ \A a \in reach : Sound(a)
     /\ result = "InvalidFormat" => contradicted
     /\ result = "InvalidCode" => \E a \in reach : ~Sound(a)
     /\ result = "InstructionLimit" => Cardinality(reach) > options.limits.instructions
     /\ result = "BlockLimit" => Cardinality(starts) > options.limits.blocks

\* The slots that no block owns yet.
Unowned == CodeSize - count

\* Why the loop of run ends: a turn that does not end it gives a block slots that
\* had none, of which there are as many as the code has, or takes a start off the
\* worklist.  No split and no start met again puts the loop back.
AnalysisAdvances ==
  [][/\ Unowned \in Nat
     /\ result' = "running" =>
          \/ Unowned' < Unowned
          \/ Unowned' = Unowned /\ Len(worklist') < Len(worklist)]_cfg
=============================================================================
