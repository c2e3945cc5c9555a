---------------------------- MODULE AddressSpace ----------------------------
(***************************************************************************)
(* What the memories of a process promise those who map into them, whatever  *)
(* their limits and counters: an address has one user at a time, and keeps   *)
(* it until that user lets go.                                               *)
(***************************************************************************)
EXTENDS Integers, Sequences

CONSTANTS
  Memories,  \* the memories
  MaxAddr,   \* the largest address
  Images     \* what can be installed: sequences of segments

VARIABLES
  users,   \* who uses each address of each memory, a set of one at most
  leased,  \* the leases in force
  given    \* how many leases were ever given

Addresses == 0 .. MaxAddr

\* A user without a name, the holder of a lease, an image.
Static == <<0, 0>>
Holder(id) == <<id, 0>>
Image(i) == <<0, i>>

Extent(b, s) == b .. b + s - 1

SegmentExtent(i, k) == Extent(Images[i][k].base, Images[i][k].size)

Init ==
  /\ users = [o \in Memories |-> [a \in Addresses |-> {}]]
  /\ leased = {}
  /\ given = 0

-----------------------------------------------------------------------------

Changed(o) ==
  LET before == users[o]
      after == users'[o]
  IN {a \in Addresses : after[a] # before[a]}

\* Nothing but addresses of o changes hands.
Only(o) ==
  /\ Changed(o) # {}
  /\ \A p \in Memories \ {o} : users'[p] = users[p]

\* Addresses that nobody uses are taken, all at once.
Take(o, who) ==
  /\ Only(o)
  /\ \A a \in Changed(o) : users[o][a] = {} /\ users'[o][a] = {who}

OneExtent(set) == \E b, s \in Addresses : set = Extent(b, s)

Reserve(o) ==
  /\ Take(o, Static)
  /\ OneExtent(Changed(o))
  /\ UNCHANGED <<leased, given>>

\* A lease is never given twice.
Lease(o) ==
  /\ Take(o, Holder(given + 1))
  /\ OneExtent(Changed(o))
  /\ leased' = leased \cup {given + 1}
  /\ given' = given + 1

\* A lease in force is given back, with everything it was given for.
Return(o) ==
  \E id \in leased :
    /\ Only(o)
    /\ Changed(o) = {a \in Addresses : Holder(id) \in users[o][a]}
    /\ \A a \in Changed(o) : users'[o][a] = {}
    /\ leased' = leased \ {id}
    /\ UNCHANGED given

\* An image is installed whole; its segments share no address.
Install(o) ==
  \E i \in 1 .. Len(Images) :
    /\ Take(o, Image(i))
    /\ Changed(o) = UNION {SegmentExtent(i, k) : k \in 1 .. Len(Images[i])}
    /\ \A j, k \in 1 .. Len(Images[i]) :
         j < k => SegmentExtent(i, j) \cap SegmentExtent(i, k) = {}
    /\ UNCHANGED <<leased, given>>

\* Every step changes who uses what.
Next ==
  /\ users' # users
  /\ \E o \in Memories : Reserve(o) \/ Lease(o) \/ Return(o) \/ Install(o)

Spec == Init /\ [][Next]_<<users, leased, given>>

=============================================================================
