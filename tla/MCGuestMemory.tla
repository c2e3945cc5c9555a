--------------------------- MODULE MCGuestMemory ---------------------------
(* A small instance of GuestMemory: five addresses and two images that      *)
(* collide in their last segment.                                             *)
EXTENDS GuestMemory

MCSegment(b, s) == [base |-> b, size |-> s]

\* Text, rodata, data and bss, which follows data.
MCImages == << <<MCSegment(0, 1), MCSegment(1, 0), MCSegment(2, 1), MCSegment(3, 0)>>,
               <<MCSegment(1, 1), MCSegment(0, 0), MCSegment(2, 1), MCSegment(3, 0)>> >>

=============================================================================
