-------------------------- MODULE AtomicIncrement --------------------------
(***************************************************************************)
(* The shape every guest lock and counter takes on top of AtomicMemory: a   *)
(* load-exclusive, an addition and a store-exclusive, retried until the     *)
(* store succeeds (the contention test of                                   *)
(* tests/milestone9_threads_atomics_tests.cpp).  Beside the threads that    *)
(* increment one cell, others keep writing the rest of its granule, which   *)
(* costs the incrementing threads their reservations.                       *)
(***************************************************************************)
EXTENDS AtomicMemory

CONSTANTS
  Workers,     \* the threads that increment the cell
  Cell,        \* the cell's address
  CellWidth,   \* its width in bytes
  Rounds,      \* the increments each worker makes
  Noise        \* how many writes the other threads make

\* The cell is an aligned mapped scalar that no host code writes, whose bytes are
\* the digits of a counter.
ASSUME IncrementAssumption ==
  /\ Workers \subseteq Threads
  /\ Cell \in Addr
  /\ LoadAllowed(Cell, CellWidth, "Relaxed")
  /\ StoreAllowed(Cell, CellWidth, "Relaxed")
  /\ \A i \in 0 .. CellWidth - 1 : Cell + i \notin HostBytes
  /\ "Relaxed" \in Orders
  /\ Rounds \in Nat
  /\ Noise \in Nat
  /\ IsFiniteSet(Byte)
  /\ Byte = 0 .. Cardinality(Byte) - 1

VARIABLES
  old,    \* what each worker's last load-exclusive returned, <<>> outside the pair
  left,   \* the increments each worker still owes
  noise   \* the writes the other threads may still make

ivars == <<vars, old, left, noise>>

-----------------------------------------------------------------------------

Top == Cardinality(Byte) - 1

\* Adding one to a little-endian scalar: a byte moves when all below it carry.
Succ == [v \in Bytes(CellWidth) |->
           [i \in 0 .. CellWidth - 1 |->
              IF \A j \in 0 .. i - 1 : v[j] = Top
              THEN IF v[i] = Top THEN 0 ELSE v[i] + 1
              ELSE v[i]]]

Load(t) ==
  /\ left[t] > 0
  /\ old[t] = <<>>
  /\ ExclusiveLoad(t, Cell, CellWidth, "Relaxed")
  /\ old' = [old EXCEPT ![t] = ReadAt(Cell, CellWidth)]
  /\ UNCHANGED <<left, noise>>

\* A status of 0 ends the round; of 1, the loop starts again.
Store(t) ==
  /\ old[t] # <<>>
  /\ ExclusiveStore(t, Cell, CellWidth, Succ[old[t]], "Relaxed")
  /\ old' = [old EXCEPT ![t] = <<>>]
  /\ left' = IF status'[t] = "stored" THEN [left EXCEPT ![t] = @ - 1] ELSE left
  /\ UNCHANGED noise

\* Writes of the other threads, anywhere but over the cell.
WriteBeside(t) ==
  /\ noise > 0
  /\ \E a \in Addr, s \in Widths : \E v \in Bytes(s) :
       /\ a + s <= Cell \/ Cell + CellWidth <= a
       /\ StoreAllowed(a, s, "Relaxed")
       /\ GuestStore(t, a, s, v)
  /\ noise' = noise - 1
  /\ UNCHANGED <<old, left>>

Done == (\A t \in Workers : left[t] = 0) /\ UNCHANGED ivars

IInit ==
  /\ Init
  /\ old = [t \in Workers |-> <<>>]
  /\ left = [t \in Workers |-> Rounds]
  /\ noise = Noise

INext ==
  \/ \E t \in Workers : Load(t) \/ Store(t)
  \/ \E t \in Threads \ Workers : WriteBeside(t)
  \/ Done

ISpec == IInit /\ [][INext]_ivars

\* Native threads are scheduled: a worker in its loop goes on.
IFairSpec == ISpec /\ \A t \in Workers : WF_ivars(Load(t)) /\ WF_ivars(Store(t))

-----------------------------------------------------------------------------
(* Properties. *)

Counter == INSTANCE AtomicCounter
             WITH count <- ReadAt(Cell, CellWidth), Value <- Bytes(CellWidth)

\* The loop is an atomic increment: each store-exclusive that succeeds adds one
\* to the cell, no increment is lost or made twice, and nothing else moves it.
ImplementsCounter == Counter!Spec

\* Every increment lands, since each lost reservation is due to a write that did.
EveryIncrementLands == <>[](\A t \in Workers : left[t] = 0)

\* Losing a reservation is always somebody else's progress: a store-exclusive
\* that reports failure saw a write of the granule since its load-exclusive.
LossMeansProgress ==
  [][\A t \in Workers : status[t] # "lost" /\ status'[t] = "lost" =>
        Granule(Cell) \in seen[t].written]_ivars

=============================================================================
