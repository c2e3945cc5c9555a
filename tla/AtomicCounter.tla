--------------------------- MODULE AtomicCounter ---------------------------
(***************************************************************************)
(* What a load-exclusive / store-exclusive increment loop promises: a       *)
(* counter that several threads increment, each increment in one step.      *)
(***************************************************************************)
EXTENDS Integers

CONSTANTS
  Workers,  \* the threads that increment
  Rounds,   \* how many increments each of them makes
  Value,    \* the values of the counter
  Succ      \* the value after each, as a function: the counter wraps

VARIABLES
  count,  \* the counter
  left    \* the increments each worker still owes

Init == count \in Value /\ left = [t \in Workers |-> Rounds]

Increment(t) ==
  /\ left[t] > 0
  /\ left' = [left EXCEPT ![t] = @ - 1]
  /\ count' = Succ[count]

Next == \E t \in Workers : Increment(t)

Spec == Init /\ [][Next]_<<count, left>>

FairSpec == Spec /\ \A t \in Workers : WF_<<count, left>>(Increment(t))

=============================================================================
