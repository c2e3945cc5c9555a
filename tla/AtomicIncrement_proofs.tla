----------------------- MODULE AtomicIncrement_proofs -----------------------
(***************************************************************************)
(* Proofs about AtomicMemory, for any threads, memory, granule size and     *)
(* widths that divide it, and about the increment loop that uses it: the    *)
(* loop implements the atomic counter, for any number of workers, rounds,   *)
(* bytes and writers beside the cell.  The inductive invariant of the       *)
(* coordinator is TypeOK, ReservationSound and, of the bytes that only it   *)
(* writes, ReservedBytesUnchanged; the action properties follow from it,    *)
(* one step at a time.                                                      *)
(***************************************************************************)
EXTENDS AtomicIncrement, FiniteSetTheorems, TLAPS

-----------------------------------------------------------------------------
(* The coordinator. *)

(* Arithmetic of granules. *)

\* Addresses and widths are integers.
LEMMA Numbers ==
  /\ \A a \in Addr : a \in Int
  /\ \A s \in Widths : s \in Int
BY MemoryAssumption, GranuleAssumption DEF Addr

\* A granule is the multiple of the granule size at or below its addresses.
LEMMA GranuleIsMultiple ==
  ASSUME NEW a \in Nat
  PROVE  /\ Granule(a) \in Nat
         /\ Granule(a) <= a
         /\ a < Granule(a) + GranuleSize
         /\ \E q \in Nat : Granule(a) = GranuleSize * q
BY GranuleAssumption DEF Granule

\* Distinct multiples of g are g apart.
LEMMA MultipleStep ==
  ASSUME NEW g \in Nat \ {0}, NEW p \in Nat, NEW q \in Nat, g * p < g * q
  PROVE  g * p + g <= g * q
<1>1. p < q
  OBVIOUS
<1>2. g * (p + 1) <= g * q
  BY <1>1
<1> QED BY <1>2

\* The remainder of a multiple of g plus r.
LEMMA RemainderOf ==
  ASSUME NEW g \in Nat \ {0}, NEW q \in Nat, NEW r \in Nat, r < g
  PROVE  (g * q + r) % g = r
OBVIOUS

\* A number without remainder is a multiple.
LEMMA Divides ==
  ASSUME NEW g \in Nat \ {0}, NEW a \in Nat, a % g = 0
  PROVE  \E q \in Nat : a = g * q
<1> WITNESS a \div g \in Nat
<1> QED OBVIOUS

\* An address lies in one granule only.
LEMMA GranuleUnique ==
  ASSUME NEW a \in Nat, NEW q \in Nat,
         GranuleSize * q <= a, a < GranuleSize * q + GranuleSize
  PROVE  Granule(a) = GranuleSize * q
<1> DEFINE r == a - GranuleSize * q
<1>1. r \in Nat /\ r < GranuleSize /\ a = GranuleSize * q + r
  BY GranuleAssumption
<1>2. (GranuleSize * q + r) % GranuleSize = r
  BY <1>1, RemainderOf, GranuleAssumption
<1> QED BY <1>1, <1>2, GranuleAssumption DEF Granule

\* Higher addresses are in the same granule or a higher one.
LEMMA GranuleMonotone ==
  ASSUME NEW a \in Nat, NEW b \in Nat, a <= b
  PROVE  Granule(a) <= Granule(b)
<1>1. PICK p \in Nat : Granule(a) = GranuleSize * p
  BY GranuleIsMultiple
<1>2. PICK q \in Nat : Granule(b) = GranuleSize * q
  BY GranuleIsMultiple
<1>3. SUFFICES ASSUME Granule(b) < Granule(a) PROVE FALSE
  BY GranuleIsMultiple
<1>4. Granule(b) + GranuleSize <= Granule(a)
  BY <1>1, <1>2, <1>3, MultipleStep, GranuleAssumption
<1> QED BY <1>4, GranuleIsMultiple, GranuleAssumption

\* A naturally aligned scalar lies in one granule, since its width divides the
\* granule size: a reservation on one granule covers it (validate_common).
LEMMA AlignedWithinGranule ==
  ASSUME NEW a \in Nat, NEW s \in Widths, a % s = 0, NEW i \in 0 .. s - 1
  PROVE  Granule(a + i) = Granule(a)
<1>1. s \in Nat \ {0} /\ GranuleSize \in Nat \ {0} /\ GranuleSize % s = 0
  BY GranuleAssumption
<1>2. PICK q \in Nat : a = s * q
  BY <1>1, Divides
<1>3. PICK k \in Nat : GranuleSize = s * k
  BY <1>1, Divides
<1>4. PICK m \in Nat : Granule(a) = GranuleSize * m
  BY GranuleIsMultiple
<1>5. GranuleSize * m <= a /\ a < GranuleSize * m + GranuleSize
  BY <1>4, GranuleIsMultiple
<1>6. GranuleSize * m + GranuleSize = s * (k * (m + 1))
  BY <1>1, <1>3
<1>7. k * (m + 1) \in Nat
  OBVIOUS
<1>8. s * q + s <= s * (k * (m + 1))
  BY <1>1, <1>2, <1>5, <1>6, <1>7, MultipleStep
<1>9. GranuleSize * m <= a + i /\ a + i < GranuleSize * m + GranuleSize
  BY <1>1, <1>2, <1>5, <1>6, <1>8
<1> QED BY <1>4, <1>9, GranuleUnique

-----------------------------------------------------------------------------
(* Every step of Next is one of six kinds. *)

\* A load, a barrier, a refused call or clear_error: at most failed changes.
Quiet == failed' \in [Threads -> BOOLEAN] /\ UNCHANGED <<mem, gen, resv, status, seen>>

\* A reservation is given up and nothing is written.
Drop(t) ==
  /\ ClearReservation(t)
  /\ failed' \in [Threads -> BOOLEAN]
  /\ \E st \in {"none", "lost", status[t]} : status' = [status EXCEPT ![t] = st]
  /\ UNCHANGED <<mem, gen>>

\* A load-exclusive that succeeds.
Take(t, a, s) ==
  /\ LoadAllowed(a, s, "Relaxed")
  /\ resv' = [resv EXCEPT ![t] = [valid |-> TRUE, address |-> a, granule |-> Granule(a),
                                  generation |-> gen[Granule(a)], size |-> s]]
  /\ seen' = [seen EXCEPT ![t] = [bytes |-> ReadAt(a, s), written |-> {}]]
  /\ status' = [status EXCEPT ![t] = "none"]
  /\ UNCHANGED <<mem, gen, failed>>

\* A plain, atomic or vector store that succeeds.
PlainWrite(a, s, v) ==
  /\ Writable(a, s)
  /\ CoordinatedWrite(a, s, v)
  /\ seen' = NoteWritten(seen, a, s)
  /\ UNCHANGED <<resv, failed, status>>

\* A store-exclusive that succeeds.
PairedWrite(t, a, s, v) ==
  /\ StoreAllowed(a, s, "Relaxed")
  /\ Matches(t, a, s)
  /\ CoordinatedWrite(a, s, v)
  /\ resv' = [resv EXCEPT ![t] = NoReservation]
  /\ seen' = [NoteWritten(seen, a, s) EXCEPT ![t] = NoHistory]
  /\ status' = [status EXCEPT ![t] = "stored"]
  /\ UNCHANGED failed

\* The disjuncts of Next by what they change.
LEMMA StepKinds ==
  ASSUME TypeOK, [Next]_vars
  PROVE  \/ Quiet
         \/ \E t \in Threads : Drop(t)
         \/ \E t \in Threads, a \in Addr, s \in Widths : Take(t, a, s)
         \/ \E a \in Addr, s \in Nat \ {0} : \E v \in Bytes(s) : PlainWrite(a, s, v)
         \/ \E t \in Threads, a \in Addr, s \in Widths : \E v \in Bytes(s) :
               PairedWrite(t, a, s, v)
         \/ \E a \in Addr, s \in Widths : \E v \in Bytes(s) : HostWrite(a, s, v)
<1> USE DEF TypeOK
<1>1. CASE UNCHANGED vars
  BY <1>1 DEF vars, Quiet
<1>2. ASSUME NEW t \in Threads, Fail(t) PROVE Quiet
  BY <1>2 DEF Fail, SetError, Quiet
<1>3. ASSUME NEW t \in Threads, NEW a, NEW s, NEW o, SynchronizedLoad(t, a, s, o) PROVE Quiet
  BY <1>1, <1>2, <1>3 DEF SynchronizedLoad, vars, Quiet
<1>4. ASSUME NEW t \in Threads, NEW a \in Addr, NEW s \in Widths, NEW v \in Bytes(s), NEW o,
             SynchronizedStore(t, a, s, v, o)
      PROVE  Quiet \/ PlainWrite(a, s, v)
  BY <1>2, <1>4 DEF SynchronizedStore, StoreAllowed, PlainWrite
<1>5. ASSUME NEW t \in Threads, NEW a \in Addr, NEW s \in Widths, NEW o, ExclusiveLoad(t, a, s, o)
      PROVE  Quiet \/ Drop(t) \/ Take(t, a, s)
  <2>1. CASE Fail(t)
    BY <1>2, <2>1
  <2>2. CASE SetError(t) /\ ClearReservation(t) /\ status' = [status EXCEPT ![t] = "none"]
             /\ UNCHANGED <<mem, gen>>
    BY <2>2 DEF Drop, SetError
  <2> QED BY <1>5, <2>1, <2>2 DEF ExclusiveLoad, LoadAllowed, LoadOrders, Take, Taken
<1>6. ASSUME NEW t \in Threads, NEW a \in Addr, NEW s \in Widths, NEW v \in Bytes(s), NEW o,
             ExclusiveStore(t, a, s, v, o)
      PROVE  Quiet \/ Drop(t) \/ PairedWrite(t, a, s, v)
  <2>1. CASE Fail(t)
    BY <1>2, <2>1
  <2>2. CASE SetError(t) /\ ClearReservation(t) /\ UNCHANGED <<mem, gen, status>>
    BY <2>2 DEF Drop, SetError
  <2>3. CASE ClearReservation(t) /\ status' = [status EXCEPT ![t] = "lost"]
             /\ UNCHANGED <<mem, gen, failed>>
    BY <2>3 DEF Drop
  <2> QED BY <1>6, <2>1, <2>2, <2>3 DEF ExclusiveStore, StoreAllowed, StoreOrders, PairedWrite
<1>7. ASSUME NEW t \in Threads, NEW a \in Addr, NEW v \in Bytes(VectorWidth),
             GuestStoreVector(t, a, v)
      PROVE  Quiet \/ PlainWrite(a, VectorWidth, v)
  BY <1>2, <1>7 DEF GuestStoreVector, PlainWrite
<1>8. ASSUME NEW t \in Threads, ClearExclusive(t) PROVE Drop(t)
  BY <1>8 DEF ClearExclusive, Drop
<1>9. ASSUME NEW t \in Threads, ClearError(t) PROVE Quiet
  BY <1>9 DEF ClearError, Quiet
<1>10. ASSUME NEW t \in Threads, Access(t)
       PROVE  \/ Quiet
              \/ Drop(t)
              \/ \E a \in Addr, s \in Widths : Take(t, a, s)
              \/ \E a \in Addr, s \in Nat \ {0} : \E v \in Bytes(s) : PlainWrite(a, s, v)
              \/ \E a \in Addr, s \in Widths : \E v \in Bytes(s) : PairedWrite(t, a, s, v)
  <2>1. CASE \E a \in Addr, s \in Widths : GuestLoad(t, a, s) \/ \E o \in Orders : AtomicLoad(t, a, s, o)
    BY <2>1, <1>3 DEF GuestLoad, AtomicLoad
  <2>2. CASE \E a \in Addr, s \in Widths, o \in Orders : ExclusiveLoad(t, a, s, o)
    BY <2>2, <1>5
  <2>3. CASE \E a \in Addr, s \in Widths : \E v \in Bytes(s) :
               GuestStore(t, a, s, v) \/ \E o \in Orders : AtomicStore(t, a, s, v, o)
    <3>1. PICK a \in Addr, s \in Widths : \E v \in Bytes(s) :
               GuestStore(t, a, s, v) \/ \E o \in Orders : AtomicStore(t, a, s, v, o)
      BY <2>3
    <3>2. PICK v \in Bytes(s) :
               GuestStore(t, a, s, v) \/ \E o \in Orders : AtomicStore(t, a, s, v, o)
      BY <3>1
    <3>3. PICK o : SynchronizedStore(t, a, s, v, o)
      BY <3>2 DEF GuestStore, AtomicStore
    <3>4. Quiet \/ PlainWrite(a, s, v)
      BY <3>3, <1>4
    <3> QED BY <3>4, GranuleAssumption
  <2>4. CASE \E a \in Addr, s \in Widths : \E v \in Bytes(s), o \in Orders :
               ExclusiveStore(t, a, s, v, o)
    <3>1. PICK a \in Addr, s \in Widths : \E v \in Bytes(s), o \in Orders :
               ExclusiveStore(t, a, s, v, o)
      BY <2>4
    <3>2. PICK v \in Bytes(s), o \in Orders : ExclusiveStore(t, a, s, v, o)
      BY <3>1
    <3>3. Quiet \/ Drop(t) \/ PairedWrite(t, a, s, v)
      BY <3>2, <1>6
    <3> QED BY <3>3
  <2>5. CASE \E a \in Addr : GuestLoadVector(t, a)
    BY <2>5, <1>2 DEF GuestLoadVector, vars, Quiet
  <2>6. CASE \E a \in Addr : \E v \in Bytes(VectorWidth) : GuestStoreVector(t, a, v)
    BY <2>6, <1>7, MemoryAssumption
  <2>7. CASE \E valid \in BOOLEAN : MemoryBarrier(t, valid)
    BY <2>7, <1>2 DEF MemoryBarrier, vars, Quiet
  <2> QED BY <1>8, <1>10, <2>1, <2>2, <2>3, <2>4, <2>5, <2>6, <2>7 DEF Access
<1> QED BY <1>1, <1>9, <1>10 DEF Next

-----------------------------------------------------------------------------
(* What a write does to the bytes and the generations. *)

\* A write walks over the granule of each byte it may change.
LEMMA WriteCovers ==
  ASSUME NEW a \in Addr, NEW s \in Nat \ {0}, NEW x \in Addr, a <= x, x < a + s
  PROVE  Granule(x) \in GranulesOf(a, s)
<1>1. a \in Nat /\ x \in Nat /\ a + s - 1 \in Nat /\ x <= a + s - 1
  BY MemoryAssumption DEF Addr
<1>2. Granule(a) <= Granule(x) /\ Granule(x) <= Granule(a + s - 1)
  BY <1>1, GranuleMonotone
<1>3. Granule(x) \in Granules
  BY DEF Granules
<1> QED BY <1>2, <1>3 DEF GranulesOf

\* Granules are addresses, and 0 is one.
LEMMA GranulesAreAddresses == Granules \subseteq Addr /\ 0 \in Granules
<1>1. \A a \in Addr : Granule(a) \in Addr
  BY GranuleIsMultiple, MemoryAssumption DEF Addr
<1>2. 0 \in Addr /\ Granule(0) = 0
  BY GranuleIsMultiple, MemoryAssumption DEF Addr
<1> QED BY <1>1, <1>2 DEF Granules

\* A coordinated write keeps the types, gives the granules it walks over a new
\* generation and leaves the generation and the bytes of the others alone.
LEMMA WriteEffect ==
  ASSUME TypeOK, NEW a \in Addr, NEW s \in Nat \ {0}, NEW v \in Bytes(s),
         CoordinatedWrite(a, s, v)
  PROVE  /\ mem' \in [Addr -> Byte]
         /\ gen' \in [Granules -> Nat]
         /\ \A g \in Granules : gen[g] <= gen'[g]
         /\ \A g \in Granules : g \in GranulesOf(a, s) => gen[g] < gen'[g]
         /\ \A g \in Granules : g \notin GranulesOf(a, s) => gen'[g] = gen[g]
         /\ \A x \in Addr : Granule(x) \notin GranulesOf(a, s) => mem'[x] = mem[x]
<1>1. mem' \in [Addr -> Byte]
  <2> SUFFICES ASSUME NEW x \in Addr
               PROVE  (IF a <= x /\ x < a + s THEN v[x - a] ELSE mem[x]) \in Byte
    BY DEF CoordinatedWrite, Overwrite
  <2>1. a <= x /\ x < a + s => x - a \in 0 .. s - 1
    BY MemoryAssumption DEF Addr
  <2> QED BY <2>1 DEF TypeOK, Bytes
<1>2. \A x \in Addr : Granule(x) \notin GranulesOf(a, s) => mem'[x] = mem[x]
  BY WriteCovers DEF CoordinatedWrite, Overwrite
<1>3. \A g \in Granules : gen[g] \in Nat
  BY DEF TypeOK
<1> QED BY <1>1, <1>2, <1>3 DEF CoordinatedWrite, InvalidateWrittenRange

\* Noting a write adds its granules to what each reservation has seen.
LEMMA NoteWrittenType ==
  ASSUME TypeOK, NEW a, NEW s
  PROVE  /\ NoteWritten(seen, a, s) \in [Threads -> [bytes : Contents, written : SUBSET Granules]]
         /\ \A t \in Threads :
              /\ NoteWritten(seen, a, s)[t].bytes = seen[t].bytes
              /\ resv[t].valid =>
                   NoteWritten(seen, a, s)[t].written = seen[t].written \cup GranulesOf(a, s)
BY DEF TypeOK, NoteWritten, GranulesOf

\* The empty history is a history.
LEMMA NoHistoryType == NoHistory \in [bytes : Contents, written : SUBSET Granules]
BY DEF NoHistory, Contents

\* The empty reservation is a reservation.
LEMMA NoReservationType == NoReservation \in Reservation
BY MemoryAssumption DEF NoReservation, Reservation, Addr

\* An aligned access reads as many bytes as it is wide.
LEMMA ReadAtType ==
  ASSUME TypeOK, NEW a \in Addr, NEW s \in Widths, ValidCommon(a, s)
  PROVE  ReadAt(a, s) \in Bytes(s)
<1>1. s \in Nat \ {0}
  BY GranuleAssumption
<1>2. \A i \in 0 .. s - 1 : a + i \in Addr
  BY <1>1, MemoryAssumption DEF Addr, ValidCommon
<1> QED BY <1>2 DEF ReadAt, Bytes, TypeOK

-----------------------------------------------------------------------------
(* Type correctness. *)

\* The initial states are well typed.
LEMMA TypeInit == Init => TypeOK
BY NoHistoryType, NoReservationType, MemoryAssumption
   DEF Init, TypeOK

\* Every step keeps the types.
LEMMA TypeStep == TypeOK /\ [Next]_vars => TypeOK'
<1> SUFFICES ASSUME TypeOK, [Next]_vars PROVE TypeOK'
  OBVIOUS
<1>1. CASE Quiet
  BY <1>1 DEF Quiet, TypeOK
<1>2. ASSUME NEW t \in Threads, Drop(t) PROVE TypeOK'
  BY <1>2, NoHistoryType, NoReservationType DEF Drop, ClearReservation, TypeOK
<1>3. ASSUME NEW t \in Threads, NEW a \in Addr, NEW s \in Widths, Take(t, a, s) PROVE TypeOK'
  <2>1. [bytes |-> ReadAt(a, s), written |-> {}] \in [bytes : Contents, written : SUBSET Granules]
    BY <1>3, ReadAtType DEF Take, LoadAllowed, Contents
  <2>2. Granule(a) \in Granules /\ gen[Granule(a)] \in Nat
    BY DEF Granules, TypeOK
  <2>3. [valid |-> TRUE, address |-> a, granule |-> Granule(a),
         generation |-> gen[Granule(a)], size |-> s] \in Reservation
    BY <2>2 DEF Reservation
  <2> QED BY <1>3, <2>1, <2>3 DEF Take, TypeOK
<1>4. ASSUME NEW a \in Addr, NEW s \in Nat \ {0}, NEW v \in Bytes(s), PlainWrite(a, s, v)
      PROVE  TypeOK'
  BY <1>4, WriteEffect, NoteWrittenType DEF PlainWrite, TypeOK
<1>5. ASSUME NEW t \in Threads, NEW a \in Addr, NEW s \in Widths, NEW v \in Bytes(s),
             PairedWrite(t, a, s, v)
      PROVE  TypeOK'
  <2>1. mem' \in [Addr -> Byte] /\ gen' \in [Granules -> Nat]
    BY <1>5, WriteEffect, GranuleAssumption DEF PairedWrite
  <2> QED BY <1>5, <2>1, NoteWrittenType, NoHistoryType, NoReservationType DEF PairedWrite, TypeOK
<1>6. ASSUME NEW a \in Addr, NEW s \in Widths, NEW v \in Bytes(s), HostWrite(a, s, v)
      PROVE  TypeOK'
  <2>1. \A x \in Addr : a <= x /\ x < a + s => x - a \in 0 .. s - 1
    BY MemoryAssumption, GranuleAssumption DEF Addr
  <2>2. mem' \in [Addr -> Byte]
    BY <1>6, <2>1 DEF HostWrite, Overwrite, TypeOK, Bytes
  <2> QED BY <1>6, <2>2 DEF HostWrite, TypeOK
<1> QED BY StepKinds, <1>1, <1>2, <1>3, <1>4, <1>5, <1>6

\* Every helper leaves memory, generations and reservations well typed.
THEOREM TypeCorrect == Spec => []TypeOK
BY TypeInit, TypeStep, PTL DEF Spec

-----------------------------------------------------------------------------
(* Reservations. *)

\* Every step keeps the reservations sound.
LEMMA SoundStep == TypeOK /\ ReservationSound /\ [Next]_vars => ReservationSound'
<1> SUFFICES ASSUME TypeOK, ReservationSound, [Next]_vars PROVE ReservationSound'
  OBVIOUS
<1> USE DEF ReservationSound
<1>0. \A u \in Threads : resv[u].granule \in Granules /\ resv[u].generation \in Nat
  BY GranulesAreAddresses DEF TypeOK, Reservation
<1>1. CASE Quiet
  BY <1>1 DEF Quiet
<1>2. ASSUME NEW t \in Threads, Drop(t) PROVE ReservationSound'
  BY <1>2 DEF Drop, ClearReservation, NoReservation, TypeOK
<1>3. ASSUME NEW t \in Threads, NEW a \in Addr, NEW s \in Widths, Take(t, a, s)
      PROVE  ReservationSound'
  <2>1. ValidCommon(a, s) /\ gen[Granule(a)] \in Nat
    BY <1>3 DEF Take, LoadAllowed, TypeOK, Granules
  <2> QED BY <1>3, <2>1 DEF Take, TypeOK
<1>4. ASSUME NEW a \in Addr, NEW s \in Nat \ {0}, NEW v \in Bytes(s), PlainWrite(a, s, v)
      PROVE  ReservationSound'
  <2> SUFFICES ASSUME NEW u \in Threads, resv[u].valid
               PROVE  /\ resv[u].generation <= gen'[resv[u].granule]
                      /\ resv[u].granule \in seen'[u].written
                           <=> resv[u].generation < gen'[resv[u].granule]
    BY <1>4 DEF PlainWrite
  <2>1. seen'[u].written = seen[u].written \cup GranulesOf(a, s)
    BY <1>4, NoteWrittenType DEF PlainWrite
  <2>2. gen'[resv[u].granule] \in Nat /\ gen[resv[u].granule] \in Nat
    BY <1>0, <1>4, WriteEffect DEF PlainWrite, TypeOK
  <2> QED BY <1>0, <1>4, <2>1, <2>2, WriteEffect DEF PlainWrite
<1>5. ASSUME NEW t \in Threads, NEW a \in Addr, NEW s \in Widths, NEW v \in Bytes(s),
             PairedWrite(t, a, s, v)
      PROVE  ReservationSound'
  <2>1. s \in Nat \ {0}
    BY GranuleAssumption
  <2> SUFFICES ASSUME NEW u \in Threads, u # t, resv[u].valid
               PROVE  /\ resv[u].generation <= gen'[resv[u].granule]
                      /\ resv[u].granule \in seen'[u].written
                           <=> resv[u].generation < gen'[resv[u].granule]
    BY <1>5 DEF PairedWrite, NoReservation, TypeOK
  <2>2. seen'[u].written = seen[u].written \cup GranulesOf(a, s)
    BY <1>5, NoteWrittenType DEF PairedWrite
  <2>3. gen'[resv[u].granule] \in Nat /\ gen[resv[u].granule] \in Nat
    BY <1>0, <1>5, <2>1, WriteEffect DEF PairedWrite, TypeOK
  <2> QED BY <1>0, <1>5, <2>1, <2>2, <2>3, WriteEffect DEF PairedWrite
<1>6. ASSUME NEW a \in Addr, NEW s \in Widths, NEW v \in Bytes(s), HostWrite(a, s, v)
      PROVE  ReservationSound'
  BY <1>6 DEF HostWrite
<1> QED BY StepKinds, <1>1, <1>2, <1>3, <1>4, <1>5, <1>6

\* A reservation knows its granule, and its generation falls behind exactly when
\* the granule has been written through the coordinator (bump_generation).
THEOREM ReservationsSound == Spec => []ReservationSound
<1>1. Init => ReservationSound
  BY DEF Init, ReservationSound, NoReservation
<1> QED BY <1>1, TypeCorrect, SoundStep, PTL DEF Spec

-----------------------------------------------------------------------------
(* The bytes under a reservation. *)

\* A step that leaves a granule's bytes alone leaves an aligned access in it alone.
LEMMA ReadUnchanged ==
  ASSUME NEW a \in Addr, NEW s \in Widths, ValidCommon(a, s),
         \A x \in Addr : Granule(x) = Granule(a) => mem'[x] = mem[x]
  PROVE  \A i \in 0 .. s - 1 : mem'[a + i] = mem[a + i]
<1> SUFFICES ASSUME NEW i \in 0 .. s - 1 PROVE mem'[a + i] = mem[a + i]
  OBVIOUS
<1>1. a + i \in Addr
  BY GranuleAssumption, MemoryAssumption DEF Addr, ValidCommon
<1>2. Granule(a + i) = Granule(a)
  BY AlignedWithinGranule, MemoryAssumption DEF Addr, ValidCommon
<1> QED BY <1>1, <1>2

\* Every step keeps the bytes under current reservations that host code spares.
LEMMA BytesStep ==
  TypeOK /\ ReservationSound /\ ReservedBytesUnchanged /\ [Next]_vars
    => ReservedBytesUnchanged'
<1> SUFFICES ASSUME TypeOK, ReservationSound, ReservedBytesUnchanged, [Next]_vars
             PROVE  ReservedBytesUnchanged'
  OBVIOUS
<1> USE DEF ReservedBytesUnchanged, Kept
<1>0. \A u \in Threads : resv[u].valid =>
        /\ resv[u].address \in Addr
        /\ resv[u].size \in Widths
        /\ ValidCommon(resv[u].address, resv[u].size)
        /\ resv[u].granule = Granule(resv[u].address)
  BY DEF ReservationSound, ValidCommon, TypeOK, Reservation
<1>1. CASE Quiet
  BY <1>1 DEF Quiet
<1>2. ASSUME NEW t \in Threads, Drop(t) PROVE ReservedBytesUnchanged'
  BY <1>2 DEF Drop, ClearReservation, NoReservation, TypeOK
<1>3. ASSUME NEW t \in Threads, NEW a \in Addr, NEW s \in Widths, Take(t, a, s)
      PROVE  ReservedBytesUnchanged'
  <2> SUFFICES ASSUME NEW u \in Threads, resv'[u].valid, resv'[u].granule \notin seen'[u].written
               PROVE  Kept(u)'
    OBVIOUS
  <2>0. mem' = mem
    BY <1>3 DEF Take
  <2>1. CASE u = t
    <3>1. resv'[t].address = a /\ resv'[t].size = s /\ seen'[t].bytes = ReadAt(a, s)
      BY <1>3 DEF Take, TypeOK
    <3> QED BY <2>0, <2>1, <3>1 DEF ReadAt
  <2>2. CASE u # t
    BY <1>3, <2>0, <2>2 DEF Take, TypeOK
  <2> QED BY <2>1, <2>2
\* A write that spares a reservation's granule spares its bytes.
<1>4. ASSUME NEW a \in Addr, NEW s \in Nat \ {0}, NEW v \in Bytes(s), CoordinatedWrite(a, s, v),
             NEW u \in Threads, resv[u].valid, resv[u].granule \notin GranulesOf(a, s)
      PROVE  \A i \in 0 .. resv[u].size - 1 : mem'[resv[u].address + i] = mem[resv[u].address + i]
  <2>1. \A x \in Addr : Granule(x) = Granule(resv[u].address) => mem'[x] = mem[x]
    BY <1>0, <1>4, WriteEffect
  <2> QED BY <1>0, <1>4, <2>1, ReadUnchanged
<1>5. ASSUME NEW a \in Addr, NEW s \in Nat \ {0}, NEW v \in Bytes(s), PlainWrite(a, s, v)
      PROVE  ReservedBytesUnchanged'
  <2> SUFFICES ASSUME NEW u \in Threads, resv[u].valid, resv[u].granule \notin seen'[u].written
               PROVE  \A i \in 0 .. resv[u].size - 1 : resv[u].address + i \notin HostBytes =>
                        seen'[u].bytes[i] = mem'[resv[u].address + i]
    BY <1>5 DEF PlainWrite
  <2>1. seen'[u].written = seen[u].written \cup GranulesOf(a, s) /\ seen'[u].bytes = seen[u].bytes
    BY <1>5, NoteWrittenType DEF PlainWrite
  <2> QED BY <1>4, <1>5, <2>1 DEF PlainWrite
<1>6. ASSUME NEW t \in Threads, NEW a \in Addr, NEW s \in Widths, NEW v \in Bytes(s),
             PairedWrite(t, a, s, v)
      PROVE  ReservedBytesUnchanged'
  <2>1. s \in Nat \ {0}
    BY GranuleAssumption
  <2> SUFFICES ASSUME NEW u \in Threads, u # t, resv[u].valid,
                      resv[u].granule \notin seen'[u].written
               PROVE  \A i \in 0 .. resv[u].size - 1 : resv[u].address + i \notin HostBytes =>
                        seen'[u].bytes[i] = mem'[resv[u].address + i]
    BY <1>6 DEF PairedWrite, NoReservation, TypeOK
  <2>2. seen'[u].written = seen[u].written \cup GranulesOf(a, s) /\ seen'[u].bytes = seen[u].bytes
    BY <1>6, NoteWrittenType DEF PairedWrite
  <2>3. CoordinatedWrite(a, s, v) /\ resv[u].granule \notin GranulesOf(a, s)
    BY <1>6, <2>2 DEF PairedWrite
  <2>4. resv[u].granule \notin seen[u].written
    BY <2>2
  <2> QED BY <1>4, <2>1, <2>2, <2>3, <2>4
\* A host write stays among its own bytes.
<1>7. ASSUME NEW a \in Addr, NEW s \in Widths, NEW v \in Bytes(s), HostWrite(a, s, v)
      PROVE  ReservedBytesUnchanged'
  <2>1. ASSUME NEW x \in Addr, x \notin HostBytes PROVE mem'[x] = mem[x]
    <3>1. ~ (a <= x /\ x < a + s)
      <4>1. a \in Int /\ s \in Int /\ x \in Int
        BY Numbers
      <4> QED BY <1>7, <2>1, <4>1 DEF HostWrite
    <3>2. mem' = [y \in Addr |-> IF a <= y /\ y < a + s THEN v[y - a] ELSE mem[y]]
      BY <1>7 DEF HostWrite, Overwrite
    <3> QED BY <2>1, <3>1, <3>2
  <2>2. ASSUME NEW u \in Threads, resv[u].valid, NEW i \in 0 .. resv[u].size - 1
        PROVE  resv[u].address + i \in Addr
    <3>1. ASSUME NEW c \in Addr, NEW z \in Widths, ValidCommon(c, z), NEW k \in 0 .. z - 1
          PROVE  c + k \in Addr
      BY <3>1, GranuleAssumption, MemoryAssumption DEF Addr, ValidCommon
    <3> QED BY <1>0, <2>2, <3>1
  <2>3. seen' = seen /\ resv' = resv
    BY <1>7 DEF HostWrite
  <2>4. ASSUME NEW u \in Threads, resv[u].valid, Kept(u) PROVE Kept(u)'
    BY <2>1, <2>2, <2>3, <2>4
  <2> QED BY <2>3, <2>4
<1> QED BY StepKinds, <1>1, <1>2, <1>3, <1>5, <1>6, <1>7

\* A granule nobody wrote through the coordinator still holds what was loaded, but
\* for the bytes that host code writes.
THEOREM BytesUnchanged == Spec => []ReservedBytesUnchanged
<1>1. Init => ReservedBytesUnchanged
  BY DEF Init, ReservedBytesUnchanged, NoReservation
<1>2. TypeOK /\ ReservationSound /\ ReservedBytesUnchanged /\ [Next]_vars => ReservedBytesUnchanged'
  BY BytesStep
<1> QED BY <1>1, <1>2, TypeCorrect, ReservationsSound, PTL DEF Spec

-----------------------------------------------------------------------------
(* What a step may not do. *)

\* Only a store-exclusive that succeeds reports "stored".
LEMMA StoresIsPairedWrite ==
  ASSUME TypeOK, [Next]_vars, NEW t \in Threads, Stores(t)
  PROVE  \E a \in Addr, s \in Widths : \E v \in Bytes(s) : PairedWrite(t, a, s, v)
<1>1. ~ Quiet
  BY DEF Quiet, Stores
<1>2. ASSUME NEW u \in Threads, Drop(u) PROVE FALSE
  BY <1>2 DEF Drop, Stores, TypeOK
<1>3. ASSUME NEW u \in Threads, NEW a \in Addr, NEW s \in Widths, Take(u, a, s) PROVE FALSE
  BY <1>3 DEF Take, Stores, TypeOK
<1>4. ASSUME NEW a \in Addr, NEW s \in Nat \ {0}, NEW v \in Bytes(s), PlainWrite(a, s, v)
      PROVE  FALSE
  BY <1>4 DEF PlainWrite, Stores
<1>5. ASSUME NEW u \in Threads, NEW a \in Addr, NEW s \in Widths, NEW v \in Bytes(s),
             PairedWrite(u, a, s, v)
      PROVE  u = t
  BY <1>5 DEF PairedWrite, Stores, TypeOK
<1>6. ASSUME NEW a \in Addr, NEW s \in Widths, NEW v \in Bytes(s), HostWrite(a, s, v)
      PROVE  FALSE
  BY <1>6 DEF HostWrite, Stores
<1> QED BY StepKinds, <1>1, <1>2, <1>3, <1>4, <1>5, <1>6

\* A store-exclusive that succeeds found its granule unwritten.
LEMMA UninterruptedStep ==
  ASSUME TypeOK, ReservationSound, [Next]_vars, NEW t \in Threads, Stores(t)
  PROVE  resv[t].valid /\ resv[t].granule \notin seen[t].written
<1>1. PICK a \in Addr, s \in Widths : Matches(t, a, s)
  BY StoresIsPairedWrite DEF PairedWrite
<1>2. resv[t].granule \in Granules /\ gen[resv[t].granule] \in Nat
  BY GranulesAreAddresses DEF TypeOK, Reservation
<1> QED BY <1>1, <1>2 DEF Matches, ReservationSound

\* Between a load-exclusive and the store-exclusive that succeeds on it no call
\* of any thread wrote the granule (exclusive_store, invalidate_written_range).
THEOREM StoreUninterrupted == Spec => ExclusiveStoreUninterrupted
<1>1. TypeOK /\ ReservationSound /\ [Next]_vars =>
        [\A t \in Threads : Stores(t) =>
            resv[t].valid /\ resv[t].granule \notin seen[t].written]_vars
  BY UninterruptedStep
<1> QED BY <1>1, TypeCorrect, ReservationsSound, PTL DEF Spec, ExclusiveStoreUninterrupted

\* On bytes that host code does not write the pair is one atomic read-modify-write: it
\* replaces the bytes its load returned (exclusive_load, exclusive_store).
THEOREM PairAtomic == Spec => ExclusivePairAtomic
<1>1. TypeOK /\ ReservationSound /\ ReservedBytesUnchanged /\ [Next]_vars =>
        [\A t \in Threads : Stores(t) => Kept(t)]_vars
  BY UninterruptedStep DEF ReservedBytesUnchanged
<1> QED BY <1>1, TypeCorrect, ReservationsSound, BytesUnchanged, PTL DEF Spec, ExclusivePairAtomic

\* A reservation whose granule has been written since cannot be revived by any
\* number of further writes: generations only grow (bump_generation).
THEOREM StaleForGood == Spec => StaleStaysStale
<1>1. ASSUME TypeOK, ReservationSound, [Next]_vars, NEW t \in Threads,
             resv[t].valid, ~ Current(t), resv'[t] = resv[t]
      PROVE  ~ Current(t)'
  <2>0. resv[t].granule \in Granules /\ resv[t].generation \in Nat /\ gen[resv[t].granule] \in Nat
    BY <1>1, GranulesAreAddresses DEF TypeOK, Reservation
  <2>1. resv[t].generation < gen[resv[t].granule]
    BY <1>1, <2>0 DEF ReservationSound, Current
  <2>2. SUFFICES gen'[resv[t].granule] \in Nat /\ gen[resv[t].granule] <= gen'[resv[t].granule]
    BY <1>1, <2>0, <2>1 DEF Current
  <2>3. CASE UNCHANGED gen
    BY <2>0, <2>3
  <2>4. ASSUME NEW a \in Addr, NEW s \in Nat \ {0}, NEW v \in Bytes(s), CoordinatedWrite(a, s, v)
        PROVE  gen'[resv[t].granule] \in Nat /\ gen[resv[t].granule] <= gen'[resv[t].granule]
    BY <1>1, <2>0, <2>4, WriteEffect
  <2>5. \A s \in Widths : s \in Nat \ {0}
    BY GranuleAssumption
  <2> QED BY <1>1, <2>3, <2>4, <2>5, StepKinds DEF Quiet, Drop, Take, PlainWrite, PairedWrite, HostWrite
<1>2. TypeOK /\ ReservationSound /\ [Next]_vars =>
        [\A t \in Threads :
            resv[t].valid /\ ~ Current(t) /\ resv'[t] = resv[t] => ~ Current(t)']_vars
  BY <1>1
<1> QED BY <1>2, TypeCorrect, ReservationsSound, PTL DEF Spec, StaleStaysStale

\* No byte that host code spares changes but under a new generation of its
\* granule (invalidate_written_range, both granules of a straddling vector).
THEOREM WritesInvalidate == Spec => WriteInvalidatesEveryGranule
<1>1. ASSUME TypeOK, [Next]_vars, NEW x \in Addr \ HostBytes, mem'[x] # mem[x]
      PROVE  gen'[Granule(x)] > gen[Granule(x)]
  <2>1. Granule(x) \in Granules
    BY DEF Granules
  <2>2. ASSUME NEW a \in Addr, NEW s \in Nat \ {0}, NEW v \in Bytes(s), CoordinatedWrite(a, s, v)
        PROVE  gen'[Granule(x)] > gen[Granule(x)]
    <3>1. Granule(x) \in GranulesOf(a, s)
      BY <1>1, <2>2, WriteEffect
    <3>2. gen[Granule(x)] < gen'[Granule(x)] /\ gen[Granule(x)] \in Nat /\ gen'[Granule(x)] \in Nat
      BY <1>1, <2>1, <2>2, <3>1, WriteEffect DEF TypeOK
    <3> QED BY <3>2
  <2>3. \A s \in Widths : s \in Nat \ {0}
    BY GranuleAssumption
  <2>4. ASSUME NEW a \in Addr, NEW s \in Widths, NEW v \in Bytes(s), HostWrite(a, s, v) PROVE FALSE
    <3>1. a \in Int /\ s \in Int /\ x \in Int
      BY Numbers
    <3>2. a <= x /\ x < a + s
      BY <1>1, <2>4 DEF HostWrite, Overwrite
    <3> QED BY <1>1, <2>4, <3>1, <3>2 DEF HostWrite
  <2> QED BY <1>1, <2>2, <2>3, <2>4, StepKinds DEF Quiet, Drop, Take, PlainWrite, PairedWrite
<1>2. TypeOK /\ [Next]_vars =>
        [\A x \in Addr \ HostBytes : mem'[x] # mem[x] => gen'[Granule(x)] > gen[Granule(x)]]_vars
  BY <1>1
<1> QED BY <1>2, TypeCorrect, PTL DEF Spec, WriteInvalidatesEveryGranule

\* A call that fails and a store-exclusive that loses leave the memory and every
\* reservation of the others as they were: no helper writes before its checks.
THEOREM FailuresAreLocal == Spec => FailureTouchesNothingShared
<1>1. ASSUME TypeOK, [Next]_vars, NEW t \in Threads,
             \/ ~ failed[t] /\ failed'[t]
             \/ status[t] # "lost" /\ status'[t] = "lost"
      PROVE  UNCHANGED <<mem, gen>>
  <2>1. ASSUME NEW a \in Addr, NEW s \in Nat \ {0}, NEW v \in Bytes(s), PlainWrite(a, s, v)
        PROVE  FALSE
    BY <1>1, <2>1 DEF PlainWrite
  <2>2. ASSUME NEW u \in Threads, NEW a \in Addr, NEW s \in Widths, NEW v \in Bytes(s),
               PairedWrite(u, a, s, v)
        PROVE  FALSE
    BY <1>1, <2>2 DEF PairedWrite, TypeOK
  <2>3. ASSUME NEW a \in Addr, NEW s \in Widths, NEW v \in Bytes(s), HostWrite(a, s, v)
        PROVE  FALSE
    BY <1>1, <2>3 DEF HostWrite
  <2> QED BY <1>1, <2>1, <2>2, <2>3, StepKinds DEF Quiet, Drop, Take
<1>2. TypeOK /\ [Next]_vars =>
        [(\/ \E t \in Threads : ~ failed[t] /\ failed'[t]
          \/ \E t \in Threads : status[t] # "lost" /\ status'[t] = "lost")
         => UNCHANGED <<mem, gen>>]_vars
  BY <1>1
<1> QED BY <1>2, TypeCorrect, PTL DEF Spec, FailureTouchesNothingShared

-----------------------------------------------------------------------------
(* The increment loop. *)


\* A worker between its load and its store holds a reservation on the cell,
\* taken on the value it remembers.
Holding(t) ==
  /\ resv[t].valid
  /\ resv[t].address = Cell
  /\ resv[t].size = CellWidth
  /\ seen[t].bytes = old[t]
  /\ left[t] > 0

IncrementInv ==
  /\ TypeOK
  /\ ReservationSound
  /\ ReservedBytesUnchanged
  /\ old \in [Workers -> {<<>>} \cup Bytes(CellWidth)]
  /\ left \in [Workers -> Nat]
  /\ \A t \in Workers : old[t] # <<>> => Holding(t)

\* The cell is one aligned scalar of the address space.
LEMMA CellFacts ==
  /\ Cell \in Addr
  /\ CellWidth \in Widths
  /\ CellWidth \in Nat \ {0}
  /\ ValidCommon(Cell, CellWidth)
BY IncrementAssumption, GranuleAssumption DEF LoadAllowed, ValidCommon

\* Adding one gives a scalar of the same width.
LEMMA SuccType == Succ \in [Bytes(CellWidth) -> Bytes(CellWidth)]
<1> SUFFICES ASSUME NEW v \in Bytes(CellWidth), NEW i \in 0 .. CellWidth - 1
             PROVE  (IF \A j \in 0 .. i - 1 : v[j] = Top
                     THEN IF v[i] = Top THEN 0 ELSE v[i] + 1
                     ELSE v[i]) \in Byte
  BY DEF Succ, Bytes
<1>1. Cardinality(Byte) \in Nat
  BY IncrementAssumption, FS_CardinalityType
<1>2. v[i] \in 0 .. Cardinality(Byte) - 1
  BY IncrementAssumption DEF Bytes
<1>3. CASE v[i] = Top
  BY <1>1, <1>2, <1>3, IncrementAssumption DEF Top, Bytes
<1>4. CASE v[i] # Top
  BY <1>1, <1>2, <1>4, IncrementAssumption DEF Top, Bytes
<1> QED BY <1>3, <1>4

\* Every step of the loop is a step of the memory it runs on.
LEMMA LoopIsMemoryStep ==
  ASSUME IncrementInv, [INext]_ivars
  PROVE  [Next]_vars
<1> USE CellFacts, IncrementAssumption
<1>1. ASSUME NEW t \in Workers, Load(t) PROVE Next
  BY <1>1 DEF Load, Next, Access
<1>2. ASSUME NEW t \in Workers, Store(t) PROVE Next
  <2>1. Succ[old[t]] \in Bytes(CellWidth)
    BY <1>2, SuccType DEF Store, IncrementInv
  <2> QED BY <1>2, <2>1 DEF Store, Next, Access
<1>3. ASSUME NEW t \in Threads, WriteBeside(t) PROVE Next
  BY <1>3 DEF WriteBeside, Next, Access
<1> QED BY <1>1, <1>2, <1>3 DEF INext, Done, ivars, vars

\* What the steps of the loop do, given the invariant.
LEMMA LoadTakes ==
  ASSUME IncrementInv, NEW t \in Workers, Load(t)
  PROVE  Take(t, Cell, CellWidth)
BY CellFacts, IncrementAssumption DEF Load, ExclusiveLoad, Take, Taken

\* A store of the loop either succeeds or writes nothing.
LEMMA StoreOutcomes ==
  ASSUME IncrementInv, NEW t \in Workers, Store(t)
  PROVE  \/ /\ PairedWrite(t, Cell, CellWidth, Succ[old[t]])
            /\ left' = [left EXCEPT ![t] = @ - 1]
         \/ /\ ClearReservation(t)
            /\ UNCHANGED <<mem, gen, left>>
BY CellFacts, IncrementAssumption DEF Store, ExclusiveStore, PairedWrite, IncrementInv, TypeOK

\* A write beside the cell is a plain store that misses it.
LEMMA WriteBesideWrites ==
  ASSUME NEW t \in Threads, WriteBeside(t)
  PROVE  \E a \in Addr, s \in Widths : \E v \in Bytes(s) :
           /\ a + s <= Cell \/ Cell + CellWidth <= a
           /\ PlainWrite(a, s, v)
<1>1. PICK a \in Addr, s \in Widths : \E v \in Bytes(s) :
        /\ a + s <= Cell \/ Cell + CellWidth <= a
        /\ StoreAllowed(a, s, "Relaxed")
        /\ GuestStore(t, a, s, v)
  BY DEF WriteBeside
<1> QED BY <1>1 DEF GuestStore, SynchronizedStore, StoreAllowed, PlainWrite

-----------------------------------------------------------------------------
(* The invariant. *)

\* The invariant holds initially.
LEMMA IncrementInit == IInit => IncrementInv
<1>1. Init => TypeOK /\ ReservationSound /\ ReservedBytesUnchanged
  BY TypeInit DEF Init, ReservationSound, ReservedBytesUnchanged, NoReservation
<1> QED BY <1>1, IncrementAssumption DEF IInit, IncrementInv

\* A reservation taken outside a step survives it with what it was taken on.
LEMMA OthersHold ==
  ASSUME IncrementInv, NEW u \in Workers, Holding(u),
         resv'[u] = resv[u], seen'[u].bytes = seen[u].bytes, old'[u] = old[u], left'[u] = left[u]
  PROVE  Holding(u)'
BY DEF Holding

\* The invariant holds after every step.
LEMMA IncrementStep ==
  ASSUME IncrementInv, [INext]_ivars
  PROVE  IncrementInv'
<1>0. TypeOK' /\ ReservationSound' /\ ReservedBytesUnchanged'
  BY LoopIsMemoryStep, TypeStep, SoundStep, BytesStep DEF IncrementInv
<1>1. ASSUME NEW t \in Workers, Load(t) PROVE IncrementInv'
  <2>1. Take(t, Cell, CellWidth)
    BY <1>1, LoadTakes
  <2>2. ReadAt(Cell, CellWidth) \in Bytes(CellWidth)
    BY CellFacts, ReadAtType DEF IncrementInv
  <2>3. Holding(t)'
    BY <1>1, <2>1, IncrementAssumption DEF Load, Take, Holding, IncrementInv, TypeOK
  <2>4. ASSUME NEW u \in Workers, u # t, old'[u] # <<>> PROVE Holding(u)'
    BY <1>1, <2>1, <2>4, IncrementAssumption DEF Load, Take, Holding, IncrementInv, TypeOK
  <2> QED BY <1>0, <1>1, <2>2, <2>3, <2>4 DEF Load, IncrementInv
<1>2. ASSUME NEW t \in Workers, Store(t) PROVE IncrementInv'
  <2>1. /\ old' = [old EXCEPT ![t] = <<>>]
        /\ left[t] > 0
    BY <1>2 DEF Store, IncrementInv, Holding
  <2>2. left' \in [Workers -> Nat] /\ \A u \in Workers : u # t => left'[u] = left[u]
    BY <1>2, <2>1, StoreOutcomes DEF IncrementInv
  <2>3. ASSUME NEW u \in Workers, u # t
        PROVE  resv'[u] = resv[u] /\ (resv[u].valid => seen'[u].bytes = seen[u].bytes)
    <3>1. u \in Threads /\ t \in Threads
      BY IncrementAssumption
    <3>2. CASE PairedWrite(t, Cell, CellWidth, Succ[old[t]])
      BY <2>3, <3>1, <3>2, NoteWrittenType DEF PairedWrite, IncrementInv, TypeOK
    <3>3. CASE ClearReservation(t)
      BY <2>3, <3>1, <3>3 DEF ClearReservation, IncrementInv, TypeOK
    <3> QED BY <1>2, <3>2, <3>3, StoreOutcomes
  <2>4. ASSUME NEW u \in Workers, old'[u] # <<>> PROVE Holding(u)'
    <3>1. u # t /\ old'[u] = old[u]
      BY <2>1, <2>4 DEF IncrementInv
    <3>2. Holding(u)
      BY <2>4, <3>1 DEF IncrementInv
    <3> QED BY <2>2, <2>3, <3>1, <3>2, OthersHold DEF Holding
  <2> QED BY <1>0, <2>1, <2>2, <2>4 DEF IncrementInv
<1>3. ASSUME NEW t \in Threads, WriteBeside(t) PROVE IncrementInv'
  <2>1. PICK a, s, v : PlainWrite(a, s, v)
    BY <1>3, WriteBesideWrites
  <2>2. \A u \in Workers : seen'[u].bytes = seen[u].bytes
    BY <2>1, NoteWrittenType, IncrementAssumption DEF PlainWrite, IncrementInv
  <2> QED BY <1>0, <1>3, <2>1, <2>2 DEF WriteBeside, PlainWrite, IncrementInv, Holding
<1>4. CASE UNCHANGED ivars
  BY <1>0, <1>4 DEF ivars, vars, IncrementInv, Holding
<1> QED BY <1>1, <1>2, <1>3, <1>4 DEF INext, Done

-----------------------------------------------------------------------------
(* The refinement. *)

\* The counter after a step.
LEMMA CountsBytes == ReadAt(Cell, CellWidth)' = [i \in 0 .. CellWidth - 1 |-> mem'[Cell + i]]
BY DEF ReadAt

\* Every step of the loop is an atomic increment of the counter or none.
LEMMA IncrementRefines ==
  ASSUME IncrementInv, [INext]_ivars
  PROVE  [Counter!Next]_<<ReadAt(Cell, CellWidth), left>>
<1>1. ASSUME NEW t \in Workers, Load(t) PROVE UNCHANGED <<ReadAt(Cell, CellWidth), left>>
  BY <1>1, LoadTakes, CountsBytes DEF Load, Take, ReadAt
<1>2. ASSUME NEW t \in Workers, Store(t)
      PROVE  Counter!Increment(t) \/ UNCHANGED <<ReadAt(Cell, CellWidth), left>>
  <2>1. CASE UNCHANGED <<mem, gen, left>>
    BY <2>1 DEF ReadAt
  <2>2. CASE /\ PairedWrite(t, Cell, CellWidth, Succ[old[t]])
             /\ left' = [left EXCEPT ![t] = @ - 1]
    <3>1. Holding(t) /\ old[t] \in Bytes(CellWidth)
      BY <1>2 DEF Store, IncrementInv
    <3>2. resv[t].granule = Granule(Cell) /\ resv[t].granule \notin seen[t].written
      <4>1. t \in Threads /\ resv[t].granule \in Granules /\ gen[resv[t].granule] \in Nat
        BY IncrementAssumption, GranulesAreAddresses DEF IncrementInv, TypeOK, Reservation
      <4> QED BY <2>2, <3>1, <4>1 DEF PairedWrite, Matches, IncrementInv, ReservationSound
    <3>3. old[t] = ReadAt(Cell, CellWidth)
      <4>1. Kept(t)
        BY <3>1, <3>2, IncrementAssumption DEF Holding, IncrementInv, ReservedBytesUnchanged
      <4>2. \A i \in 0 .. CellWidth - 1 : old[t][i] = mem[Cell + i]
        BY <3>1, <4>1, IncrementAssumption DEF Holding, Kept
      <4> QED BY <3>1, <4>2 DEF Bytes, ReadAt
    <3>4. ReadAt(Cell, CellWidth)' = Succ[old[t]]
      <4>1. Succ[old[t]] \in Bytes(CellWidth)
        BY <3>1, SuccType
      <4>2. ASSUME NEW i \in 0 .. CellWidth - 1 PROVE mem'[Cell + i] = Succ[old[t]][i]
        <5>1. Cell + i \in Addr /\ Cell <= Cell + i /\ Cell + i < Cell + CellWidth
              /\ (Cell + i) - Cell = i
          BY CellFacts, MemoryAssumption DEF Addr, ValidCommon
        <5> QED BY <2>2, <5>1 DEF PairedWrite, CoordinatedWrite, Overwrite
      <4> QED BY <4>1, <4>2, CountsBytes DEF Bytes
    <3> QED BY <2>2, <3>1, <3>3, <3>4 DEF Counter!Increment, Holding
  <2> QED BY <1>2, <2>1, <2>2, StoreOutcomes
<1>3. ASSUME NEW t \in Threads, WriteBeside(t) PROVE UNCHANGED <<ReadAt(Cell, CellWidth), left>>
  <2>1. PICK a \in Addr, s \in Widths : \E v \in Bytes(s) :
           /\ a + s <= Cell \/ Cell + CellWidth <= a
           /\ PlainWrite(a, s, v)
    BY <1>3, WriteBesideWrites
  <2>2. PICK v \in Bytes(s) :
           /\ a + s <= Cell \/ Cell + CellWidth <= a
           /\ PlainWrite(a, s, v)
    BY <2>1
  <2>3. ASSUME NEW i \in 0 .. CellWidth - 1 PROVE mem'[Cell + i] = mem[Cell + i]
    <3>1. Cell + i \in Addr /\ ~ (a <= Cell + i /\ Cell + i < a + s)
      BY <2>2, CellFacts, MemoryAssumption, GranuleAssumption DEF Addr, ValidCommon
    <3> QED BY <2>2, <3>1 DEF PlainWrite, CoordinatedWrite, Overwrite
  <2> QED BY <1>3, <2>3, CountsBytes DEF WriteBeside, ReadAt
<1>4. CASE UNCHANGED ivars
  BY <1>4, CountsBytes DEF ivars, vars, ReadAt
<1> QED BY <1>1, <1>2, <1>3, <1>4 DEF INext, Done, Counter!Next

\* Each store-exclusive that succeeds is one atomic increment of the cell; no
\* increment is lost or doubled, whoever writes the rest of the granule.
THEOREM LoopImplementsCounter == ISpec => ImplementsCounter
<1>1. IInit => Counter!Init
  <2>1. Init => ReadAt(Cell, CellWidth) \in Bytes(CellWidth)
    BY TypeInit, ReadAtType, CellFacts
  <2> QED BY <2>1 DEF IInit, Counter!Init
<1>2. IncrementInv /\ [INext]_ivars => IncrementInv'
  BY IncrementStep
<1>3. IncrementInv /\ [INext]_ivars => [Counter!Next]_<<ReadAt(Cell, CellWidth), left>>
  BY IncrementRefines
<1> QED BY <1>1, <1>2, <1>3, IncrementInit, PTL DEF ISpec, ImplementsCounter, Counter!Spec

\* A store-exclusive of the loop that fails saw a write of the granule, so some
\* other thread has made progress (exclusive_store).
THEOREM LossIsProgress == ISpec => LossMeansProgress
<1>1. ASSUME IncrementInv, [INext]_ivars, NEW t \in Workers,
             status[t] # "lost", status'[t] = "lost"
      PROVE  Granule(Cell) \in seen[t].written
  <2>0. \A u \in Workers : u \in Threads
    BY IncrementAssumption
  <2>1. ASSUME NEW u \in Workers, Load(u) PROVE FALSE
    BY <1>1, <2>0, <2>1, LoadTakes DEF Take, IncrementInv, TypeOK
  <2>2. ASSUME NEW u \in Threads, WriteBeside(u) PROVE FALSE
    BY <1>1, <2>2, WriteBesideWrites DEF PlainWrite
  <2>3. ~ UNCHANGED ivars
    BY <1>1 DEF ivars, vars
  <2>4. PICK u \in Workers : Store(u)
    BY <1>1, <2>1, <2>2, <2>3 DEF INext, Done
  <2>5. u = t /\ ~ Matches(t, Cell, CellWidth)
    BY <1>1, <2>0, <2>4, IncrementAssumption DEF Store, ExclusiveStore, IncrementInv, TypeOK
  <2>6. Holding(t)
    BY <1>1, <2>4, <2>5 DEF Store, IncrementInv
  <2>7. /\ resv[t].granule = Granule(Cell)
        /\ resv[t].generation <= gen[Granule(Cell)]
        /\ resv[t].generation < gen[Granule(Cell)] => Granule(Cell) \in seen[t].written
    BY <1>1, <2>0, <2>6 DEF Holding, IncrementInv, ReservationSound
  <2>8. resv[t].generation # gen[Granule(Cell)]
    BY <2>5, <2>6, <2>7 DEF Matches, Holding
  <2>9. resv[t].generation \in Nat /\ gen[Granule(Cell)] \in Nat
    BY <1>1, <2>0, CellFacts, GranulesAreAddresses DEF IncrementInv, TypeOK, Reservation, Granules
  <2> QED BY <2>7, <2>8, <2>9
<1>2. IncrementInv /\ [INext]_ivars =>
        [\A t \in Workers : status[t] # "lost" /\ status'[t] = "lost" =>
            Granule(Cell) \in seen[t].written]_ivars
  BY <1>1
<1>3. IncrementInv /\ [INext]_ivars => IncrementInv'
  BY IncrementStep
<1> QED BY <1>2, <1>3, IncrementInit, PTL DEF ISpec, LossMeansProgress
=============================================================================
