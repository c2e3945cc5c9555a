-------------------------- MODULE ExecutionSession --------------------------
(***************************************************************************)
(* A controlled execution session, src/switchrecomp/execution/session.cpp,  *)
(* over the resumable interpreter, src/switchrecomp/interpreter.  The       *)
(* session owns the guest's call frames, its stack mapping, the events and  *)
(* the budgets; the interpreter runs the current frame until a slice is     *)
(* full or a block ends in a boundary, which the session dispatches.  A     *)
(* session may be run again, which replaces everything but the budgets.     *)
(*                                                                         *)
(* The guest is any program: a block has up to BlockOps operations and may  *)
(* end in any terminator with any target.  Blocks are named by their guest  *)
(* address, operations of a block all have that address, and the targets    *)
(* the session refuses to enter are one per reason.                         *)
(***************************************************************************)
EXTENDS EventLog

CONSTANTS
  Functions,   \* the trusted function entries, which are blocks
  Labels,      \* the other blocks
  Sentinel,    \* the return address of the entry function, past the stack
  Elsewhere,   \* stands for every other address
  BlockOps,    \* the most operations in a block
  Budgets,     \* the budgets a session may have
  MaxRuns      \* how often it is run

Blocks == Functions \cup Labels

Addresses == Blocks \cup {Sentinel, Elsewhere}

\* run refuses a zero; of the two optional limits 0 stands for the absent one.
BudgetType == [ops : Nat, events : Nat, slice : Nat \ {0}, transfers : Nat \ {0},
               depth : Nat \ {0}, history : Nat \ {0}, blocks : Nat \ {0}]

ASSUME SessionAssumption ==
  /\ Sentinel \notin Blocks
  /\ Elsewhere \notin Blocks \cup {Sentinel}
  /\ BlockOps \in Nat
  /\ Budgets \subseteq BudgetType
  /\ MaxRuns \in Nat

VARIABLES
  budget,     \* options_.budgets, fixed at construction
  running,    \* running_
  runs,       \* the runs begun
  current,    \* current_
  suspended,  \* suspended_frames_, the callers of current
  pc,         \* cpu_.pc
  slice,      \* what execute_until_boundary has counted since it was called
  used,       \* the result's counters
  log,        \* the result's events
  outcome,    \* the result's stop_reason
  stack,      \* whether stack_mapping_ holds a token
  owned       \* the stack mappings of this session alive in the guest memory

vars == <<budget, running, runs, current, suspended, pc, slice, used, log, outcome, stack, owned>>

-----------------------------------------------------------------------------
(* Frames and the interpreter's cursor. *)

\* A frame at the start of a block, the block not yet counted.
Frame(block, expected, depth) ==
  [block |-> block, idx |-> 0, counted |-> FALSE, expected |-> expected, depth |-> depth]

NoFrame == Frame(Elsewhere, Elsewhere, 0)

\* Mutants: the cursor kept; the block taken for one already counted.
ResumeAtCursor(frame, block) == [frame EXCEPT !.block = block, !.counted = FALSE]

ResumeAtCounted(frame, block) == [frame EXCEPT !.block = block, !.idx = 0]

ResumeAt(frame, block) == [frame EXCEPT !.block = block, !.idx = 0, !.counted = FALSE]

\* What execute_until_boundary starts with.
Fresh == [ops |-> 0, blocks |-> 0]

\* A block is counted when its first operation, or its terminator, is reached.
Entered(s) == [s EXCEPT !.blocks = IF current.counted THEN @ ELSE @ + 1]

\* After one more operation.
Stepped(s) == [Entered(s) EXCEPT !.ops = @ + 1]

\* Mutant: every slice may have the whole limit.
OpAllowedPerSlice == budget.ops = 0 \/ slice.ops < budget.ops

\* The hard limit is what earlier slices left of it.
OpAllowed == budget.ops = 0 \/ slice.ops < budget.ops - used.ops

-----------------------------------------------------------------------------
(* Events, counters and stops. *)

NoUse == [ops |-> 0, blocks |-> 0, entries |-> 0, charged |-> 0, cut |-> FALSE]

Folded(s) == [used EXCEPT !.ops = @ + s.ops, !.blocks = @ + s.blocks]

\* The counters at a boundary, where the block ends without another operation.
Spent == Folded(Entered(slice))

\* append_transition: one more function entry, in a history with room for one
\* more than the guest blocks a session may execute.
WithEntry(u, charge) ==
  [u EXCEPT !.entries = @ + 1,
            !.charged = @ + charge,
            !.cut = @ \/ u.entries >= budget.blocks + 1]

Event(l, kind) == Record(l, kind, budget.history, budget.events)

\* stop records the boundary and the end of the session.
Ending(l) == Event(Event(l, "Boundary"), "SessionStop")

\* Why a run stops, by where it does.
SetupReasons == {"MemoryFault", "GuestMemoryResourceLimitExceeded", "UnsupportedSemantic"}

EntryReasons == {"UnknownGuestFunction", "FunctionOwnershipConflict",
                 "UnsupportedInstruction", "UnsupportedSemantic"}

FaultReasons == {"MemoryFault", "UnsupportedInstruction"}

TrapReasons == {"GuestTrap", "UnsupportedInstruction"}

TargetReasons ==
  {"InvalidIndirectTarget", "InvalidCrossModuleTarget", "UnresolvedImport"} \cup EntryReasons

ImportReasons == {"RuntimeImportUnimplemented", "RuntimeImportAbiViolation",
                  "RuntimeImportMemoryFault", "RuntimeImportInvariantViolation"}

StopReasons ==
  {"EntryReturned", "ReturnTargetMismatch", "CallDepthExceeded", "FunctionTransitionLimitExceeded",
   "IrOperationLimitExceeded", "GuestBlockLimitExceeded"}
    \cup SetupReasons \cup EntryReasons \cup FaultReasons \cup TrapReasons
    \cup TargetReasons \cup ImportReasons

\* Mutant: the reason to stop survives the refusal of its event.
ReasonKept(l, reason) == reason

\* An event the limit refuses ends the session with a reason of its own.
Reason(l, reason) == IF Open(l) THEN reason ELSE "EventLimitExceeded"

Logged(l) ==
  /\ log' = l
  /\ running' = Open(l)
  /\ outcome' = Reason(l, None)

Stop(l, reason) ==
  /\ log' = Ending(l)
  /\ running' = FALSE
  /\ outcome' = Reason(Ending(l), reason)

Frozen == UNCHANGED <<budget, runs, stack, owned>>

-----------------------------------------------------------------------------
(* run, up to its loop. *)

Starting == Event(Event(EmptyLog, "SessionStart"), "EntrySelected")

\* Mutants: released without looking; only its token forgotten.
ReleaseAlways == owned - 1

ReleaseToken == owned

\* The stack of an earlier run is released first.
ReleaseStack == IF stack THEN owned - 1 ELSE owned

Reset ==
  /\ ~ running
  /\ runs < MaxRuns
  /\ runs' = runs + 1
  /\ suspended' = <<>>
  /\ slice' = Fresh
  /\ UNCHANGED budget

\* The first two events are one too many.
RunUnlogged ==
  /\ Reset
  /\ ~ Open(Starting)
  /\ current' = NoFrame
  /\ used' = NoUse
  /\ stack' = FALSE
  /\ owned' = ReleaseStack
  /\ Logged(Starting)
  /\ UNCHANGED pc

\* No stack can be mapped.
RunUnmapped(reason) ==
  /\ Reset
  /\ Open(Starting)
  /\ current' = NoFrame
  /\ used' = NoUse
  /\ stack' = FALSE
  /\ owned' = ReleaseStack
  /\ Stop(Starting, reason)
  /\ UNCHANGED pc

\* The stack is mapped and the entry function entered, if it can be lifted.
RunEnters(entry, liftable, reason) ==
  LET mapped == Event(Starting, "StackMapped") IN
  /\ Reset
  /\ Open(Starting)
  /\ stack' = TRUE
  /\ owned' = ReleaseStack + 1
  /\ \/ /\ ~ Open(mapped)
        /\ current' = NoFrame
        /\ used' = NoUse
        /\ Logged(mapped)
        /\ UNCHANGED pc
     \/ /\ Open(mapped)
        /\ current' = Frame(entry, Sentinel, 0)
        /\ pc' = entry
        /\ IF liftable
           THEN used' = WithEntry(NoUse, 0) /\ Logged(Event(mapped, "FunctionEnter"))
           ELSE used' = NoUse /\ Stop(mapped, reason)

Run ==
  \/ RunUnlogged
  \/ \E reason \in SetupReasons : RunUnmapped(reason)
  \/ \E entry \in Functions : RunEnters(entry, TRUE, None)
  \/ \E reason \in EntryReasons : RunEnters(Elsewhere, FALSE, reason)


-----------------------------------------------------------------------------
(* execute_until_boundary, one operation or terminator at a time.            *)

\* The slice goes on as s.
SliceGoesOn(s) ==
  /\ slice' = s
  /\ UNCHANGED <<used, running, log, outcome>>

\* The slice ends as s without a boundary: it yielded, or reached the limit
\* on operations; but the guest blocks are checked first.
SliceEnds(s, reason) ==
  /\ slice' = Fresh
  /\ used' = Folded(s)
  /\ \/ /\ used'.blocks > budget.blocks
        /\ Stop(log, "GuestBlockLimitExceeded")
     \/ /\ used'.blocks <= budget.blocks
        /\ IF reason = None THEN UNCHANGED <<running, log, outcome>> ELSE Stop(log, reason)

\* One operation; the slice yields after the last one it may have.
Op ==
  /\ current.idx < BlockOps
  /\ OpAllowed
  /\ current' = [current EXCEPT !.idx = @ + 1, !.counted = TRUE]
  /\ pc' = current.block
  /\ IF Stepped(slice).ops < budget.slice THEN SliceGoesOn(Stepped(slice))
     ELSE SliceEnds(Stepped(slice), None)
  /\ UNCHANGED suspended

\* There is one more operation than the hard limit allows.
LimitHit ==
  /\ current.idx < BlockOps
  /\ ~ OpAllowed
  /\ current' = [current EXCEPT !.counted = TRUE]
  /\ SliceEnds(Entered(slice), "IrOperationLimitExceeded")
  /\ UNCHANGED <<suspended, pc>>

\* Mutant: an empty block is not charged.
BranchUncharged(block) ==
  /\ current' = ResumeAt(current, block)
  /\ IF current.idx > 0 THEN SliceGoesOn(Entered(slice)) ELSE SliceEnds(slice, None)
  /\ UNCHANGED <<suspended, pc>>

\* A branch within the function; one that ends an empty block yields.
Branch(block) ==
  /\ current' = ResumeAt(current, block)
  /\ IF current.idx > 0 THEN SliceGoesOn(Entered(slice)) ELSE SliceEnds(Entered(slice), None)
  /\ UNCHANGED <<suspended, pc>>

\* An operation fails; nothing of its slice is counted.
Fault(reason) ==
  /\ current.idx < BlockOps
  /\ OpAllowed
  /\ current' = [current EXCEPT !.counted = TRUE]
  /\ slice' = Fresh
  /\ Stop(log, reason)
  /\ pc' = current.block
  /\ UNCHANGED <<suspended, used>>

-----------------------------------------------------------------------------
(* The boundaries, each of which ends a slice. *)

\* The run ends at the boundary, after the events of l; target is what the
\* terminator has left in the program counter.
EndsAt(l, target, reason) ==
  /\ Stop(l, reason)
  /\ used' = Spent
  /\ pc' = target
  /\ UNCHANGED <<current, suspended>>

\* The guest blocks are checked before the boundary is looked at.
BlockLimitHit(target) ==
  /\ Spent.blocks > budget.blocks
  /\ EndsAt(log, target, "GuestBlockLimitExceeded")

\* The frame below is the current one again.
Pop ==
  /\ current' = suspended[Len(suspended)]
  /\ suspended' = SubSeq(suspended, 1, Len(suspended) - 1)

\* The guest returns to target; the program counter is then the one the
\* resumed frame itself has to return to.
Return(target) ==
  LET returned == Event(log, "Return") IN
  \/ /\ ~ Open(returned) \/ suspended = <<>>
     /\ EndsAt(returned, target, "EntryReturned")
  \/ /\ Open(returned)
     /\ suspended # <<>>
     /\ target # current.expected
     /\ EndsAt(returned, target, "ReturnTargetMismatch")
  \/ /\ Open(returned)
     /\ suspended # <<>>
     /\ target = current.expected
     /\ Pop
     /\ pc' = current'.expected
     /\ used' = Spent
     /\ Logged(Event(returned, "FunctionResume"))

\* dispatch_call: the caller will resume at its continuation block.
Call(function, continuation) ==
  LET called == Event(log, "Call") IN
  \/ /\ Len(suspended) + 1 > budget.depth
     /\ EndsAt(log, function, "CallDepthExceeded")
  \/ /\ Len(suspended) + 1 <= budget.depth
     /\ ~ Open(called)
     /\ EndsAt(called, function, None)
  \/ /\ Len(suspended) + 1 <= budget.depth
     /\ Open(called)
     /\ suspended' = Append(suspended, ResumeAt(current, continuation))
     /\ current' = Frame(function, continuation, Len(suspended'))
     /\ pc' = function
     /\ used' = WithEntry(Spent, 0)
     /\ Logged(Event(called, "FunctionEnter"))

\* dispatch_transfer: a tail call inherits the return contract of its frame.
Transfer(function) ==
  LET moved == Event(log, "FunctionTransfer") IN
  \/ /\ ~ Open(moved) \/ Spent.charged >= budget.transfers
     /\ EndsAt(moved, function, "FunctionTransitionLimitExceeded")
  \/ /\ Open(moved)
     /\ Spent.charged < budget.transfers
     /\ current' = Frame(function, current.expected, current.depth)
     /\ pc' = function
     /\ used' = WithEntry(Spent, 1)
     /\ Logged(Event(moved, "FunctionEnter"))
     /\ UNCHANGED suspended

\* classify_target refuses the target of a call or transfer, or
\* dispatch_runtime_import the import that it is.
Refused(reason) == EndsAt(log, Elsewhere, reason)

\* The block ends in a trap, or where its lifting stopped.
Trap(reason) == EndsAt(log, pc, reason)

\* dispatch_runtime_import up to the handler, which is the host's.
Asked == Event(Event(Event(log, "ImportResolved"), "ImportEnter"), "ImportArguments")

Handled == Event(Asked, "ImportReturn")

ImportUnhandled(reason) == EndsAt(Asked, Elsewhere, reason)

\* A handled import returns to the frame that called it,
ImportCall(continuation) ==
  \/ /\ ~ Open(Handled)
     /\ EndsAt(Handled, Elsewhere, None)
  \/ /\ Open(Handled)
     /\ current' = ResumeAt(current, continuation)
     /\ pc' = continuation
     /\ used' = Spent
     /\ Logged(Handled)
     /\ UNCHANGED suspended

\* or, reached by a transfer, in place of the frame that jumped to it.
ImportTail ==
  \/ /\ ~ Open(Handled) \/ suspended = <<>>
     /\ EndsAt(Handled, Elsewhere, "EntryReturned")
  \/ /\ Open(Handled)
     /\ suspended # <<>>
     /\ Pop
     /\ pc' = current.expected
     /\ used' = Spent
     /\ Logged(Event(Handled, "FunctionResume"))

Dispatch ==
  \/ \E target \in Addresses : Return(target)
  \/ \E function \in Functions, continuation \in Labels : Call(function, continuation)
  \/ \E function \in Functions : Transfer(function)
  \/ \E reason \in TargetReasons : Refused(reason)
  \/ \E reason \in TrapReasons : Trap(reason)
  \/ \E reason \in ImportReasons : ImportUnhandled(reason)
  \/ \E continuation \in Labels : ImportCall(continuation)
  \/ ImportTail

Boundary ==
  /\ slice' = Fresh
  /\ \/ \E target \in Addresses : BlockLimitHit(target)
     \/ /\ Spent.blocks <= budget.blocks
        /\ Dispatch

-----------------------------------------------------------------------------

\* One step of the loop of run.
Step ==
  /\ running
  /\ \/ Op
     \/ LimitHit
     \/ \E block \in Blocks : Branch(block)
     \/ \E reason \in FaultReasons : Fault(reason)
     \/ Boundary
  /\ Frozen

\* The session is destroyed: its stack goes with it, and no run follows.
Destroy ==
  /\ ~ running
  /\ owned' = ReleaseStack
  /\ stack' = FALSE
  /\ runs' = MaxRuns
  /\ UNCHANGED <<budget, running, current, suspended, pc, slice, used, log, outcome>>

Init ==
  /\ budget \in Budgets
  /\ running = FALSE
  /\ runs = 0
  /\ current = NoFrame
  /\ suspended = <<>>
  /\ pc = Elsewhere
  /\ slice = Fresh
  /\ used = NoUse
  /\ log = EmptyLog
  /\ outcome = None
  /\ stack = FALSE
  /\ owned = 0

Next == Run \/ Step \/ Destroy

Spec == Init /\ [][Next]_vars

\* run loops until a step stops it.
FairSpec == Spec /\ WF_vars(Step)

-----------------------------------------------------------------------------
(* Properties. *)

Frames ==
  [block : Addresses, idx : 0 .. BlockOps, counted : BOOLEAN,
   expected : Addresses, depth : Nat]

TypeOK ==
  /\ budget \in Budgets
  /\ running \in BOOLEAN
  /\ runs \in 0 .. MaxRuns
  /\ current \in Frames
  /\ suspended \in Seq(Frames)
  /\ pc \in Addresses
  /\ slice \in [ops : Nat, blocks : Nat]
  /\ used \in [ops : Nat, blocks : Nat, entries : Nat, charged : Nat, cut : BOOLEAN]
  /\ log \in Logs
  /\ outcome \in StopReasons \cup {None, "EventLimitExceeded"}
  /\ stack \in BOOLEAN
  /\ owned \in Nat

\* The frame above suspended[i].
Above(i) == IF i = Len(suspended) THEN current ELSE suspended[i + 1]

\* The explicit call stack is one the guest could have built: depths are
\* positions, every suspended frame waits at the start of a block not yet
\* counted, that block is the one the frame above it must return to, whatever
\* tail calls and imports it made, and the entry function returns to the
\* sentinel, which no guest code answers.
FramesAgree ==
  running \/ current # NoFrame =>
    /\ current.depth = Len(suspended)
    /\ Len(suspended) <= budget.depth
    /\ \A i \in 1 .. Len(suspended) :
         /\ suspended[i].depth = i - 1
         /\ suspended[i].idx = 0
         /\ ~ suspended[i].counted
         /\ Above(i).expected = suspended[i].block
    /\ (IF suspended = <<>> THEN current ELSE suspended[1]).expected = Sentinel

\* However long the run, the report's events are its first and its latest ones,
\* within the history limit and without a gap in either part.
HistoryShape == Shaped(log, budget.history)

\* The termination proof of the design notes charges every event to a guest
\* block: at most five per executed block and six for setup and stop.  So an
\* unlimited log is bounded by the budget of guest blocks, and the history of
\* transitions, sized after that budget, never overflows.
BlocksPayForEverything ==
  /\ log.total <= 6 + 5 * used.blocks
  /\ ~ used.cut

\* No slicing lets a run exceed its budgets: not by one operation, one charged
\* transfer or one event, and guest blocks by what fits in a slice, after which
\* nothing more is dispatched.
BudgetsHold ==
  /\ budget.ops # 0 => used.ops + slice.ops <= budget.ops
  /\ budget.events # 0 => log.total <= budget.events
  /\ used.charged <= budget.transfers
  /\ used.blocks <= budget.blocks + budget.slice
  /\ used.blocks > budget.blocks => outcome \in {"GuestBlockLimitExceeded", "EventLimitExceeded"}

\* A run that has ended says why: its last event is the stop, or the limit on
\* events was reached and the refused event is named; one that goes on has
\* refused nothing.
EndIsExplained ==
  /\ running => outcome = None /\ Open(log) /\ log.last # "SessionStop"
  /\ log # EmptyLog /\ ~ running =>
       IF Open(log) THEN log.last = "SessionStop" /\ outcome \notin {None, "EventLimitExceeded"}
       ELSE log.total = budget.events /\ outcome = "EventLimitExceeded"

\* The session owns the stack it holds a token of and no other, through refused
\* events, failed entries and second runs; with the session goes its stack.
NoStackLeak == owned = IF stack THEN 1 ELSE 0

\* With no limit on operations or events configured every run still ends, as
\* the blocks it may enter are finite.
RunEnds == running ~> ~ running

\* The guest blocks a run can enter before the check of their budget stops it.
Unentered == budget.blocks + budget.slice - (used.blocks + slice.blocks)

\* What is left of the block it has entered: its operations and its terminator.
Unfinished == IF current.counted THEN 1 + BlockOps - current.idx ELSE 0

\* Why: whatever the guest does, an iteration that does not stop the run uses up
\* one of the blocks it may enter, or goes on in the one it has entered.  No
\* dispatch, no yield and no empty block is for free.
RunAdvances ==
  [][running /\ running' =>
       /\ Unentered \in Nat /\ Unfinished \in Nat
       /\ \/ Unentered' < Unentered
          \/ Unentered' = Unentered /\ Unfinished' < Unfinished]_vars

\* What the design notes say of a guest return: the suspended frame is restored,
\* and its expected continuation PC: the address the callee had to return to.
ResumesAtContinuation ==
  [][running /\ Len(suspended') < Len(suspended) => pc' = current.expected]_vars

=============================================================================
