---------------------------- MODULE AtomicMemory ----------------------------
(***************************************************************************)
(* The shared-memory coordinator of the guest runtime                      *)
(* (runtime/atomic_memory.cpp) together with the C ABI helpers that        *)
(* generated code and the interpreter call (runtime/context.cpp).          *)
(*                                                                         *)
(* Every helper takes SharedRuntimeState::memory_mutex for the whole of    *)
(* its effect.  What it does before locking reads its arguments and writes *)
(* only the calling thread's ExclusiveReservation, so one helper call is   *)
(* one action.  A helper that fails stores the error in the thread's       *)
(* RuntimeContext and returns non-zero; the interpreter and generated code *)
(* leave the function there, so a thread with an error makes no further    *)
(* guest access until its host calls clear_error.                          *)
(***************************************************************************)
EXTENDS Integers, FiniteSets

CONSTANTS
  Threads,       \* guest threads, each with its own RuntimeContext
  MaxAddr,       \* the largest guest address (2^64 - 1 in the code)
  GranuleSize,   \* exclusive_reservation_granule_size (64 in the code)
  Widths,        \* the scalar widths accepted (1, 2, 4 and 8 in the code)
  VectorWidth,   \* bytes of a vector access (16 in the code)
  Byte,          \* the byte values told apart
  Regions,       \* the guest mappings: records [lo, hi, r, w], hi exclusive
  InitialBytes,  \* the contents the mappings may start with
  Orders,        \* the memory orders callers pass, a subset of AllOrders
  HostBytes,     \* the addresses host code writes without the coordinator
  MaxGeneration  \* bound of the model on a granule's write count

AllOrders == {"Relaxed", "Acquire", "Release", "AcquireRelease",
              "SequentiallyConsistent", "Undecodable"}

Addr == 0 .. MaxAddr

ASSUME GranuleAssumption ==
  /\ GranuleSize \in Nat \ {0}
  /\ Widths \subseteq Nat \ {0}
  /\ \A s \in Widths : GranuleSize % s = 0

ASSUME MemoryAssumption ==
  /\ MaxAddr \in Nat
  /\ VectorWidth \in Nat \ {0}
  /\ InitialBytes \subseteq [Addr -> Byte]
  /\ Regions \subseteq [lo : Addr, hi : Addr, r : BOOLEAN, w : BOOLEAN]
  /\ \A p, q \in Regions : p # q => p.hi <= q.lo \/ q.hi <= p.lo

ASSUME InputAssumption ==
  /\ Orders \subseteq AllOrders
  /\ HostBytes \subseteq Addr
  /\ MaxGeneration \in Nat

VARIABLES
  mem,     \* the bytes of GuestMemory
  gen,     \* reservation_generations, 0 where the map has no entry
  resv,    \* each thread's ExclusiveReservation
  failed,  \* each thread's RuntimeContext::has_error
  status,  \* what the last exclusive store since the last exclusive load returned
  seen     \* history: what the reservation was taken on, and what was written since

vars == <<mem, gen, resv, failed, status, seen>>

-----------------------------------------------------------------------------
(* Granules and ranges. *)

\* address & ~(granule - 1)
Granule(a) == a - (a % GranuleSize)

Granules == {Granule(a) : a \in Addr}

\* The granules a write of s bytes at a walks over, first to last.
GranulesOf(a, s) == {g \in Granules : Granule(a) <= g /\ g <= Granule(a + s - 1)}

Bytes(s) == [0 .. s - 1 -> Byte]

\* The bytes an access of s bytes at a reads.
ReadAt(a, s) == [i \in 0 .. s - 1 |-> mem[a + i]]

\* GuestMemory::read and write: one mapping must contain the whole range, whose
\* end must be representable, and must grant the permission.
Readable(a, s) == a + s <= MaxAddr /\ \E p \in Regions : p.lo <= a /\ a + s <= p.hi /\ p.r
Writable(a, s) == a + s <= MaxAddr /\ \E p \in Regions : p.lo <= a /\ a + s <= p.hi /\ p.w

\* validate_common: width, natural alignment, overflow.  A width the code refuses
\* fails as a misaligned access does, so callers here pass only Widths.
ValidCommon(a, s) == s \in Widths /\ a % s = 0 /\ a <= MaxAddr - (s - 1)

LoadOrders  == {"Relaxed", "Acquire", "SequentiallyConsistent"}
StoreOrders == {"Relaxed", "Release", "SequentiallyConsistent"}

\* The checks a scalar load or store makes; the first that fails names the error.
LoadAllowed(a, s, o)  == ValidCommon(a, s) /\ o \in LoadOrders /\ Readable(a, s)
StoreAllowed(a, s, o) == ValidCommon(a, s) /\ o \in StoreOrders /\ Writable(a, s)

-----------------------------------------------------------------------------
(* Reservations. *)

NoReservation == [valid |-> FALSE, address |-> 0, granule |-> 0, generation |-> 0, size |-> 0]

NoHistory == [bytes |-> <<>>, written |-> {}]

ClearReservation(t) ==
  /\ resv' = [resv EXCEPT ![t] = NoReservation]
  /\ seen' = [seen EXCEPT ![t] = NoHistory]

\* Mutants: the size recorded in bits; the generation left at its initial value.
TakenInBits(a, s) ==
  [valid |-> TRUE, address |-> a, granule |-> Granule(a), generation |-> gen[Granule(a)], size |-> 8 * s]

TakenUncaptured(a, s) ==
  [valid |-> TRUE, address |-> a, granule |-> Granule(a), generation |-> 0, size |-> s]

\* What a load-exclusive of s bytes at a records.
Taken(a, s) ==
  [valid |-> TRUE, address |-> a, granule |-> Granule(a), generation |-> gen[Granule(a)], size |-> s]

\* Mutant: the generation is not compared.
MatchesAnyGeneration(t, a, s) ==
  /\ resv[t].valid
  /\ resv[t].address = a
  /\ resv[t].size = s
  /\ resv[t].granule = Granule(a)

\* An exclusive store of s bytes at a by t would succeed.
Matches(t, a, s) ==
  /\ resv[t].valid
  /\ resv[t].address = a
  /\ resv[t].size = s
  /\ resv[t].granule = Granule(a)
  /\ resv[t].generation = gen[Granule(a)]

Ready(t) == ~ failed[t]

SetError(t) == failed' = [failed EXCEPT ![t] = TRUE]

\* shared.memory->write and invalidate_written_range, for the bytes v.
Overwrite(a, s, v) ==
  mem' = [x \in Addr |-> IF a <= x /\ x < a + s THEN v[x - a] ELSE mem[x]]

\* Mutants: only the granule the range starts in; a dirty bit for a generation.
InvalidateFirstGranule(a, s) == gen' = [gen EXCEPT ![Granule(a)] = @ + 1]

InvalidateByBit(a, s) ==
  gen' = [g \in Granules |-> IF g \in GranulesOf(a, s) THEN 1 - gen[g] ELSE gen[g]]

InvalidateWrittenRange(a, s) ==
  gen' = [g \in Granules |-> IF g \in GranulesOf(a, s) THEN gen[g] + 1 ELSE gen[g]]

\* history: every reservation held while the range is written has seen the write.
NoteWritten(h, a, s) ==
  [t \in Threads |->
     IF resv[t].valid THEN [h[t] EXCEPT !.written = @ \cup GranulesOf(a, s)] ELSE h[t]]

WithinBound(a, s) == \A g \in GranulesOf(a, s) : gen[g] < MaxGeneration

-----------------------------------------------------------------------------
(* The helpers. *)

\* The effect of a coordinated write on everything but the writer's reservation.
CoordinatedWrite(a, s, v) ==
  /\ WithinBound(a, s)
  /\ Overwrite(a, s, v)
  /\ InvalidateWrittenRange(a, s)

Fail(t) == SetError(t) /\ UNCHANGED <<mem, gen, resv, status, seen>>

\* A load writes only the caller's registers.
SynchronizedLoad(t, a, s, o) ==
  IF LoadAllowed(a, s, o) THEN UNCHANGED vars ELSE Fail(t)

SynchronizedStore(t, a, s, v, o) ==
  \/ /\ ~ StoreAllowed(a, s, o)
     /\ Fail(t)
  \/ /\ StoreAllowed(a, s, o)
     /\ CoordinatedWrite(a, s, v)
     /\ seen' = NoteWritten(seen, a, s)
     /\ UNCHANGED <<resv, failed, status>>

\* Plain guest accesses are relaxed ones: with a coordinator they too must be
\* naturally aligned.
GuestLoad(t, a, s) == Ready(t) /\ SynchronizedLoad(t, a, s, "Relaxed")

GuestStore(t, a, s, v) == Ready(t) /\ SynchronizedStore(t, a, s, v, "Relaxed")

\* Vector accesses have a fixed width and no alignment check, so they may
\* straddle two granules.
GuestLoadVector(t, a) ==
  /\ Ready(t)
  /\ IF Readable(a, VectorWidth) THEN UNCHANGED vars ELSE Fail(t)

GuestStoreVector(t, a, v) ==
  /\ Ready(t)
  /\ \/ /\ ~ Writable(a, VectorWidth)
        /\ Fail(t)
     \/ /\ Writable(a, VectorWidth)
        /\ CoordinatedWrite(a, VectorWidth, v)
        /\ seen' = NoteWritten(seen, a, VectorWidth)
        /\ UNCHANGED <<resv, failed, status>>

\* An order the ABI cannot decode is in neither LoadOrders nor StoreOrders.
AtomicLoad(t, a, s, o) == Ready(t) /\ SynchronizedLoad(t, a, s, o)

AtomicStore(t, a, s, v, o) == Ready(t) /\ SynchronizedStore(t, a, s, v, o)

\* The reservation is dropped first, and taken again only if the load succeeds.
\* An order the ABI cannot decode is refused before that.
ExclusiveLoad(t, a, s, o) ==
  /\ Ready(t)
  /\ \/ /\ o = "Undecodable"
        /\ Fail(t)
     \/ /\ o # "Undecodable"
        /\ ~ LoadAllowed(a, s, o)
        /\ SetError(t)
        /\ ClearReservation(t)
        /\ status' = [status EXCEPT ![t] = "none"]
        /\ UNCHANGED <<mem, gen>>
     \/ /\ LoadAllowed(a, s, o)
        /\ resv' = [resv EXCEPT ![t] = Taken(a, s)]
        /\ seen' = [seen EXCEPT ![t] = [bytes |-> ReadAt(a, s), written |-> {}]]
        /\ status' = [status EXCEPT ![t] = "none"]
        /\ UNCHANGED <<mem, gen, failed>>

\* Whatever its outcome the store consumes the reservation, unless its order
\* does not decode.
ExclusiveStore(t, a, s, v, o) ==
  /\ Ready(t)
  /\ \/ /\ o = "Undecodable"
        /\ Fail(t)
     \/ /\ o # "Undecodable"
        /\ ~ StoreAllowed(a, s, o)
        /\ SetError(t)
        /\ ClearReservation(t)
        /\ UNCHANGED <<mem, gen, status>>
     \/ /\ StoreAllowed(a, s, o)
        /\ ~ Matches(t, a, s)
        /\ ClearReservation(t)
        /\ status' = [status EXCEPT ![t] = "lost"]
        /\ UNCHANGED <<mem, gen, failed>>
     \/ /\ StoreAllowed(a, s, o)
        /\ Matches(t, a, s)
        /\ CoordinatedWrite(a, s, v)
        /\ resv' = [resv EXCEPT ![t] = NoReservation]
        /\ seen' = [NoteWritten(seen, a, s) EXCEPT ![t] = NoHistory]
        /\ status' = [status EXCEPT ![t] = "stored"]
        /\ UNCHANGED failed

ClearExclusive(t) ==
  /\ Ready(t)
  /\ ClearReservation(t)
  /\ UNCHANGED <<mem, gen, failed, status>>

\* DMB, DSB and ISB order host accesses, which the mutex already orders; only
\* an invalid kind or option is visible.
MemoryBarrier(t, valid) ==
  /\ Ready(t)
  /\ IF valid THEN UNCHANGED vars ELSE Fail(t)

\* RuntimeContext::clear_error leaves the reservation alone.
ClearError(t) ==
  /\ failed[t]
  /\ failed' = [failed EXCEPT ![t] = FALSE]
  /\ UNCHANGED <<mem, gen, resv, status, seen>>

\* Host code holding the GuestMemory (a runtime-import handler, the loader)
\* writes it directly: no lock, no new generation.
HostWrite(a, s, v) ==
  /\ a .. a + s - 1 \subseteq HostBytes
  /\ Writable(a, s)
  /\ Overwrite(a, s, v)
  /\ UNCHANGED <<gen, resv, failed, status, seen>>

-----------------------------------------------------------------------------

Init ==
  /\ mem \in InitialBytes
  /\ gen = [g \in Granules |-> 0]
  /\ resv = [t \in Threads |-> NoReservation]
  /\ failed = [t \in Threads |-> FALSE]
  /\ status = [t \in Threads |-> "none"]
  /\ seen = [t \in Threads |-> NoHistory]

Access(t) ==
  \/ \E a \in Addr, s \in Widths :
        \/ GuestLoad(t, a, s)
        \/ \E o \in Orders : AtomicLoad(t, a, s, o) \/ ExclusiveLoad(t, a, s, o)
        \/ \E v \in Bytes(s) :
              \/ GuestStore(t, a, s, v)
              \/ \E o \in Orders : AtomicStore(t, a, s, v, o) \/ ExclusiveStore(t, a, s, v, o)
  \/ \E a \in Addr :
        \/ GuestLoadVector(t, a)
        \/ \E v \in Bytes(VectorWidth) : GuestStoreVector(t, a, v)
  \/ ClearExclusive(t)
  \/ \E valid \in BOOLEAN : MemoryBarrier(t, valid)

Next ==
  \/ \E t \in Threads : Access(t) \/ ClearError(t)
  \/ \E a \in Addr, s \in Widths : \E v \in Bytes(s) : HostWrite(a, s, v)

Spec == Init /\ [][Next]_vars

-----------------------------------------------------------------------------
(* Properties. *)

Reservation ==
  [valid : BOOLEAN, address : Addr, granule : Granules \cup {0},
   generation : Nat, size : Widths \cup {0}]

\* What a load-exclusive may have read.
Contents == {<<>>} \cup UNION {Bytes(s) : s \in Widths}

TypeOK ==
  /\ mem \in [Addr -> Byte]
  /\ gen \in [Granules -> Nat]
  /\ resv \in [Threads -> Reservation]
  /\ failed \in [Threads -> BOOLEAN]
  /\ status \in [Threads -> {"none", "stored", "lost"}]
  /\ seen \in [Threads -> [bytes : Contents, written : SUBSET Granules]]

\* What a live reservation records: it names an aligned readable access and its
\* granule, its generation is one the granule has had, and the granule has moved
\* on exactly when a coordinated write touched it: no write goes unnoticed and
\* no reservation is lost for nothing.
ReservationSound ==
  \A t \in Threads : LET r == resv[t] IN
    r.valid =>
      /\ r.granule = Granule(r.address)
      /\ ValidCommon(r.address, r.size)
      /\ r.generation <= gen[r.granule]
      /\ r.granule \in seen[t].written <=> r.generation < gen[r.granule]

\* The reserved bytes that host code leaves alone are those the reservation was
\* taken on.
Kept(t) ==
  \A i \in 0 .. resv[t].size - 1 :
    resv[t].address + i \notin HostBytes => seen[t].bytes[i] = mem[resv[t].address + i]

\* As long as nobody wrote the granule through the coordinator.
ReservedBytesUnchanged ==
  \A t \in Threads : resv[t].valid /\ resv[t].granule \notin seen[t].written => Kept(t)

Stores(t) == status[t] # "stored" /\ status'[t] = "stored"

\* A store-exclusive that reports success was preceded by a load-exclusive of
\* the same thread with no coordinated write to the granule in between, by any
\* thread, to any address in it.
ExclusiveStoreUninterrupted ==
  [][\A t \in Threads : Stores(t) =>
        resv[t].valid /\ resv[t].granule \notin seen[t].written]_vars

\* A store-exclusive that succeeds replaces exactly the bytes its load-exclusive
\* returned, whatever host code writes beside them in the granule: on bytes that
\* only the coordinator writes the pair is one atomic read-modify-write, with no ABA.
ExclusivePairAtomic ==
  [][\A t \in Threads : Stores(t) => Kept(t)]_vars

\* A write through the coordinator gives a new generation to the granule of
\* every byte it changes, including the second granule a vector store straddles.
WriteInvalidatesEveryGranule ==
  [][\A x \in Addr \ HostBytes : mem'[x] # mem[x] => gen'[Granule(x)] > gen[Granule(x)]]_vars

\* A call that fails, or an exclusive store that loses, writes no byte and
\* invalidates nobody's reservation.
FailureTouchesNothingShared ==
  [][((\E t \in Threads : ~ failed[t] /\ failed'[t]) \/ \E t \in Threads : status[t] # "lost" /\ status'[t] = "lost")
       => UNCHANGED <<mem, gen>>]_vars

Current(t) == resv[t].valid /\ resv[t].generation = gen[resv[t].granule]

\* A reservation that went stale never becomes current again: only a new
\* load-exclusive gives the thread another chance.
StaleStaysStale ==
  [][\A t \in Threads :
        resv[t].valid /\ ~ Current(t) /\ resv'[t] = resv[t] => ~ Current(t)']_vars

=============================================================================
