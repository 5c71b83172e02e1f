------------------------------- MODULE RoomRoles -------------------------------
(***************************************************************************)
(* The roles of the members of a study room and what src/rooms/service.py  *)
(* asks of them.                                                           *)
(***************************************************************************)
EXTENDS Naturals, FiniteSets

CONSTANTS
  Rooms,      \* room ids: uuid4, never used twice
  Users,      \* people with a users row (verify_supabase_jwt sees to that)
  Codes,      \* invite codes
  Columns,    \* the columns of a room that a PATCH may set (RoomUpdate)
  Names,      \* their values
  Created,    \* what a room is created with: Profile below, or a part of it
  NoCode,     \* join_code of a room for which none was generated
  NoName      \* a column that a PATCH does not set, or where there is no row

ASSUME RoomsAssumption == NoCode \notin Codes /\ NoName \notin Names

Roles == {"VIEWER", "MEMBER", "ADMIN", "OWNER"}
Rank  == [VIEWER |-> 0, MEMBER |-> 1, ADMIN |-> 2, OWNER |-> 3]

\* The role of somebody who has no room_members row.
NoRole == "NONE"
Nobody == [u \in Users |-> NoRole]

\* The editable columns of a room, and what a PATCH sets of them.
Profile   == [Columns -> Names]
Patch     == [Columns -> Names \cup {NoName}]
NoProfile == [f \in Columns |-> NoName]

ASSUME CreatedAssumption == Created \subseteq Profile

AtLeast(role, minimum) == role \in Roles /\ Rank[role] >= Rank[minimum]
=============================================================================
