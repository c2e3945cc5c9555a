--------------------------- MODULE MCAtomicMemory ---------------------------
(* A small instance of AtomicMemory: two granules of two bytes, of which the *)
(* last byte is read-only, plus one address past every mapping.              *)
EXTENDS AtomicMemory, TLC

MCRegions == {[lo |-> 0, hi |-> 3, r |-> TRUE, w |-> TRUE],
              [lo |-> 3, hi |-> 4, r |-> TRUE, w |-> FALSE]}

\* Fresh mappings are filled with zeroes.
MCInitialBytes == {[a \in Addr |-> 0]}

Symmetry == Permutations(Threads)

=============================================================================
