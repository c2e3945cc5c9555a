------------------------- MODULE MCExecutionSession -------------------------
(* One function and two more blocks, up to two operations long, under each   *)
(* limit that a run of a few blocks can reach.                               *)
EXTENDS ExecutionSession

Budget(ops, events, slice_, transfers, depth, history, blocks) ==
  [ops |-> ops, events |-> events, slice |-> slice_, transfers |-> transfers,
   depth |-> depth, history |-> history, blocks |-> blocks]

MCBudgets ==
  {Budget(0, 0, 2, 1, 2, 4, 3),    \* no optional limit
   Budget(0, 0, 1, 1, 1, 1, 3),    \* a slice per operation, a history of one event
   Budget(3, 0, 2, 1, 1, 5, 3),    \* a limit on operations
   Budget(0, 1, 2, 1, 1, 4, 2),    \* limits on events, reached in setup
   Budget(0, 2, 2, 1, 1, 4, 2),
   Budget(0, 8, 2, 2, 2, 4, 3)}    \* and at a boundary

=============================================================================
