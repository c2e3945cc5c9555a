------------------------- MODULE MCAtomicIncrement -------------------------
(* Two workers and one thread writing beside the cell.  The cell is two bytes *)
(* of two values each, so that a torn or doubled carry shows; its granule   *)
(* holds two more bytes.  MaxGeneration is above every write the run makes.   *)
EXTENDS AtomicIncrement

MCRegions == {[lo |-> 0, hi |-> 4, r |-> TRUE, w |-> TRUE]}

\* The counter starts just below a carry, and just below its wrap.
MCInitialBytes == {[a \in Addr |-> IF a = 0 THEN 1 ELSE 0],
                   [a \in Addr |-> IF a < 2 THEN 1 ELSE 0]}

\* The little-endian number the bytes v of the cell make up.
RECURSIVE ValueOf(_, _)
ValueOf(v, s) == IF s = 0 THEN 0
                 ELSE ValueOf(v, s - 1) + v[s - 1] * Cardinality(Byte) ^ (s - 1)

\* Succ is the wrapping addition of one to that number.
ASSUME SuccAddsOne ==
  \A v \in Bytes(CellWidth) :
    ValueOf(Succ[v], CellWidth) = (ValueOf(v, CellWidth) + 1) % (Cardinality(Byte) ^ CellWidth)

=============================================================================
