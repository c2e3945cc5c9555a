------------------------- MODULE MCThreadLifecycle -------------------------
(* Small instances of ThreadLifecycle.  The number of guest threads is MaxId, *)
(* small enough for the id counter to wrap.                                   *)
EXTENDS ThreadLifecycle

\* Only the host joins: the discipline of every caller in the repository.
HostJoins == {Host}

\* Entry callbacks join as well, each other and themselves included.
AnyoneJoins == {Host} \cup Ids

=============================================================================
