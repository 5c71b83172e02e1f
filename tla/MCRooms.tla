-------------------------------- MODULE MCRooms --------------------------------
(***************************************************************************)
(* Small instances of Rooms; rooms, users, codes, columns and requests are *)
(* interchangeable, and no liveness is checked.  Which values a room is    *)
(* created with makes no difference, since only their equality counts.     *)
(***************************************************************************)
EXTENDS Rooms, TLC

SameCreated == {[f \in Columns |-> n] : n \in {CHOOSE n \in Names : TRUE}}

Symmetry ==
  Permutations(Rooms) \cup Permutations(Users) \cup Permutations(Codes)
    \cup Permutations(Columns) \cup Permutations(Requests)
=============================================================================
