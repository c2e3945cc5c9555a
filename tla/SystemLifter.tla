---------------------------- MODULE SystemLifter ----------------------------
(***************************************************************************)
(* The synchronization and system instructions, lifted and executed: the     *)
(* exclusive, acquire and release accesses, barriers, and the thread         *)
(* registers.  The lifter first lifts the function with each of them a NOP,  *)
(* then puts their operations where the NOPs are; both backends call the     *)
(* same runtime helpers for these operations.                                *)
(***************************************************************************)
EXTENDS MemoryLifter

ExclusiveLoads == {"Ldxr", "Ldxrb", "Ldxrh", "Ldaxr", "Ldaxrb", "Ldaxrh"}
ExclusiveStores == {"Stxr", "Stxrb", "Stxrh", "Stlxr", "Stlxrb", "Stlxrh"}
AcquireLoads == {"Ldar", "Ldarb", "Ldarh"}
ReleaseStores == {"Stlr", "Stlrb", "Stlrh"}
Barriers == {"Dmb", "Dsb", "Isb"}
SystemMoves == {"Mrs", "Msr"}

\* is_m9_supported.
IsSystem(i) == i.id \in ExclusiveLoads \cup ExclusiveStores \cup AcquireLoads \cup ReleaseStores
                        \cup Barriers \cup SystemMoves \cup {"Clrex"}

\* What the decoder says of an access: its width, the suffix's or the data
\* register's, and its order.
Data(i) == i.ops[IF i.id \in ExclusiveStores THEN 2 ELSE 1].reg
AccessBits(i) ==
  CASE i.id \in {"Ldxrb", "Ldaxrb", "Ldarb", "Stxrb", "Stlxrb", "Stlrb"} -> Byte
    [] i.id \in {"Ldxrh", "Ldaxrh", "Ldarh", "Stxrh", "Stlxrh", "Stlrh"} -> Half
    [] OTHER -> Data(i).width
Order(i) ==
  CASE i.id \in {"Ldaxr", "Ldaxrb", "Ldaxrh"} \cup AcquireLoads -> "Acquire"
    [] i.id \in {"Stlxr", "Stlxrb", "Stlxrh"} \cup ReleaseStores -> "Release"
    [] OTHER -> "Relaxed"

\* The barrier's four option bits; of ISB's sixteen values all mean SY.
BarrierOption(i) ==
  CASE i.option \in {0, 4, 8, 12} -> IF i.id = "Isb" THEN "Sy" ELSE "Invalid"
    [] OTHER -> "Valid"

------------------------------------------------------------------------------
\* The runtime helpers.  An access needs shared memory, a valid order and its
\* alignment; an exclusive one first drops the reservation the thread had.
NoReservation == [address |-> Undefined, size |-> 0, generation |-> 0]
Unreserved(s) == IF s.status = "ok" THEN [s EXCEPT !.reservation = NoReservation] ELSE s
Dropped(s) == IF s.shared THEN Unreserved(s) ELSE s
Result(bits, s) == [bits |-> bits, state |-> s]

CanLoad(order, s) == s.shared /\ order \in {"Relaxed", "Acquire"}
CanStore(order, s) == s.shared /\ order \in {"Relaxed", "Release"}

AtomicLoad(a, n, order, s) == Result(IF CanLoad(order, s) THEN LoadBytes(a, n, s) ELSE Undefined, s)
AtomicStore(a, n, v, order, s) == IF CanStore(order, s) THEN StoreBytes(a, n, v, s) ELSE Fault(s)

ExclusiveLoad(a, n, order, s) ==
  LET bits == AtomicLoad(a, n, order, s).bits
  IN IF bits = Undefined THEN Result(bits, Dropped(s))
     ELSE Result(bits, [s EXCEPT !.reservation =
                         [address |-> a, size |-> n, generation |-> s.generation[Granule(a)]]])

\* The target is validated before the reservation is looked at.
ExclusiveStore(a, n, v, order, s) ==
  LET reaches == CanStore(order, s) /\ Placed(a, n, s) /\ Cells(a, n) \subseteq Storable
      holds == s.reservation = [address |-> a, size |-> n, generation |-> s.generation[Granule(a)]]
  IN CASE ~reaches -> Result(Undefined, Dropped(s))
       [] reaches /\ ~holds -> Result(1, Unreserved(s))
       [] OTHER -> Result(0, StoreBytes(a, n, v, Unreserved(s)))

ReadSystemRegister(r, s) == IF r = "TpidrEl0" THEN s.tpidr ELSE s.tpidrro
WriteSystemRegister(r, v, s) ==
  CASE s.status # "ok" -> s
    [] s.status = "ok" /\ r = "TpidrEl0" -> [s EXCEPT !.tpidr = v]
    [] OTHER -> Fault(s)

\* execute_m9_instruction: an operation gives bits, or none and a new state.
Execute(op, a, n, order, r, s) ==
  CASE op = "AtomicLoad" -> AtomicLoad(a[1], n, order, s)
    [] op = "ExclusiveLoad" -> ExclusiveLoad(a[1], n, order, s)
    [] op = "AtomicStore" -> Result(Undefined, AtomicStore(a[1], n, a[2], order, s))
    [] op = "ExclusiveStore" -> ExclusiveStore(a[1], n, a[2], order, s)
    [] op = "ClearExclusive" -> Result(Undefined, Unreserved(s))
    [] op = "MemoryBarrier" -> Result(Undefined, s)
    [] op = "ReadSystemRegister" -> Result(ReadSystemRegister(r, s), s)
    [] op = "WriteSystemRegister" -> Result(Undefined, WriteSystemRegister(r, a[1], s))

------------------------------------------------------------------------------
\* The injector.  An address is a base register and nothing else.
PlainBase(i) ==
  LET o == i.ops[Len(i.ops)]
  IN /\ o.kind = "memory" /\ o.reg.width = Doubleword
     /\ o.index = NoIndex /\ o.displacement = 0 /\ o.mode = "Base"
BaseAddress(i, s) == Read(i.ops[Len(i.ops)].reg, s).bits

\* A form the injector refuses fails the function it is in.
Injects(i) ==
  CASE i.id \in ExclusiveLoads \cup AcquireLoads \cup ReleaseStores -> IsScalar(i.ops[1]) /\ PlainBase(i)
    [] i.id \in ExclusiveStores -> /\ i.ops[1].reg.width = Word /\ IsScalar(i.ops[2])
                                   /\ PlainBase(i)
    [] i.id \in Barriers -> BarrierOption(i) # "Invalid"
    [] i.id = "Mrs" -> i.ops[1].reg.width = Doubleword /\ i.system # "None"
    [] i.id = "Msr" -> i.ops[1].reg.width = Doubleword /\ i.system = "TpidrEl0"
    [] OTHER -> TRUE

\* A load, widened into its register.
InjectLoad(i, op, s) ==
  LET loaded == Execute(op, <<BaseAddress(i, s)>>, AccessBits(i) \div Byte, Order(i), "None", s)
      raw == [bits |-> loaded.bits, type |-> AccessBits(i)]
      wide == IF raw.type = Data(i).width THEN raw ELSE Emit("ZeroExtend", Data(i).width, <<raw>>)
  IN IF Failed(raw) THEN Fault(loaded.state) ELSE Put(Data(i), wide, loaded.state)

\* A store of the low bits of a register; an exclusive one gives its status.
Narrowed(i, s) ==
  LET value == Read(Data(i), s)
  IN IF AccessBits(i) = value.type THEN value ELSE Emit("Truncate", AccessBits(i), <<value>>)
Stored(i, op, s) ==
  Execute(op, <<BaseAddress(i, s), Narrowed(i, s).bits>>, AccessBits(i) \div Byte, Order(i), "None", s)

InjectExclusiveStore(i, s) ==
  LET stored == Stored(i, "ExclusiveStore", s)
      status == [bits |-> stored.bits, type |-> Word]
  IN IF Failed(status) THEN Fault(stored.state) ELSE Put(i.ops[1].reg, status, stored.state)

InjectReadSystem(i, s) ==
  Put(i.ops[1].reg, [bits |-> Execute("ReadSystemRegister", <<>>, 0, "Relaxed", i.system, s).bits,
                     type |-> Doubleword], s)
InjectWriteSystem(i, s) ==
  Execute("WriteSystemRegister", <<Read(i.ops[1].reg, s).bits>>, 0, "Relaxed", "TpidrEl0", s).state

\* Injector::inject, in the place of the NOP.
Inject(i, s) ==
  CASE s.status # "ok" -> s
    [] s.status = "ok" /\ i.id \in ExclusiveLoads -> InjectLoad(i, "ExclusiveLoad", s)
    [] s.status = "ok" /\ i.id \in ExclusiveStores -> InjectExclusiveStore(i, s)
    [] s.status = "ok" /\ i.id \in AcquireLoads -> InjectLoad(i, "AtomicLoad", s)
    [] s.status = "ok" /\ i.id \in ReleaseStores -> Stored(i, "AtomicStore", s).state
    [] s.status = "ok" /\ i.id = "Clrex" -> Execute("ClearExclusive", <<>>, 0, "Relaxed", "None", s).state
    [] s.status = "ok" /\ i.id \in Barriers -> Execute("MemoryBarrier", <<>>, 0, "Relaxed", "None", s).state
    [] s.status = "ok" /\ i.id = "Mrs" -> InjectReadSystem(i, s)
    [] s.status = "ok" /\ i.id = "Msr" -> InjectWriteSystem(i, s)

\* is_instruction_liftable, of these.
LiftableSystem(i) ==
  CASE i.id \in SystemMoves -> i.system = "TpidrEl0" \/ (i.id = "Mrs" /\ i.system = "TpidrroEl0")
    [] i.id \in Barriers -> BarrierOption(i) # "Invalid"
    [] OTHER -> TRUE
=============================================================================
