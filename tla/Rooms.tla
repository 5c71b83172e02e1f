--------------------------------- MODULE Rooms ---------------------------------
(***************************************************************************)
(* Study rooms: their members and roles, their invite codes and their      *)
(* group chat, worked on by overlapping API requests.                      *)
(*                                                                         *)
(* A request is one transaction at READ COMMITTED.  It reads the caller's  *)
(* role (Begin), then the rows it is going to change (Load), then flushes  *)
(* and commits (an action of each operation).  Any other request may       *)
(* commit between these steps and nothing is locked; flush and commit are  *)
(* one step because a transaction flushes once, right before its commit,   *)
(* and whoever waits for its row locks finds what it committed.            *)
(*                                                                         *)
(* An operator introduced by "Slip:" is no part of the specification but a *)
(* mistaken form of the definition after it.                               *)
(***************************************************************************)
EXTENDS RoomRoles

CONSTANTS
  Requests,     \* API requests; their number bounds what the clients ask for
  NoRoom, NoUser,
  MaxAttempts   \* _INVITE_CODE_MAX_ATTEMPTS

ASSUME RequestsAssumption ==
  NoRoom \notin Rooms /\ NoUser \notin Users /\ MaxAttempts \in Nat \ {0}

VARIABLES
  life,       \* is the room's id still "new", its row "live", or "gone"?
  profile,    \* the columns a PATCH of the room may set
  code,       \* study_rooms.join_code
  role,       \* room_members: the role of each user in each room
  posts,      \* group_messages of each room, each named by its request
  heard,      \* what has been broadcast on each room's channel
  req,        \* what each request is doing
  given,      \* history: the last new code an OWNER of the room was told
  abdicated,  \* history: rooms in which an OWNER has demoted itself
  overtaken,  \* history: rooms changed by a caller no longer entitled to it
  mixed       \* history: rooms of which a PATCH has stored a part only

tables == <<life, profile, code, role, posts>>
past   == <<given, abdicated, overtaken, mixed>>
vars   == <<life, profile, code, role, posts, heard, req, given, abdicated, overtaken, mixed>>

Ops == {"none", "update", "delete", "invite", "change", "code", "join", "post"}

Req == [op : Ops, at : {"new", "checked", "loaded", "posted", "ended"},
        room : Rooms \cup {NoRoom}, user : Users \cup {NoUser},
        target : Users \cup {NoUser}, role : Roles \cup {NoRole},
        patch : Patch, code : Codes \cup {NoCode},
        seenRole : Roles \cup {NoRole}, seenProfile : Patch,
        seenCode : Codes \cup {NoCode}, tries : 0 .. MaxAttempts]

Blank == [op |-> "none", at |-> "new", room |-> NoRoom, user |-> NoUser,
          target |-> NoUser, role |-> NoRole, patch |-> NoProfile, code |-> NoCode,
          seenRole |-> NoRole, seenProfile |-> NoProfile, seenCode |-> NoCode, tries |-> 0]

Init ==
  /\ life  = [r \in Rooms |-> "new"]
  /\ profile = [r \in Rooms |-> NoProfile]
  /\ code  = [r \in Rooms |-> NoCode]
  /\ role  = [r \in Rooms |-> Nobody]
  /\ posts = [r \in Rooms |-> {}]
  /\ heard = [r \in Rooms |-> {}]
  /\ req   = [q \in Requests |-> Blank]
  /\ given = [r \in Rooms |-> NoCode]
  /\ abdicated = {}
  /\ overtaken = {}
  /\ mixed     = {}

-----------------------------------------------------------------------------
(***************************************************************************)
(* What every request does.                                                *)
(***************************************************************************)

\* The role that require_role asks of the caller of each operation.
Minimum == [update |-> "ADMIN", delete |-> "OWNER", invite |-> "ADMIN",
            change |-> "OWNER", code |-> "OWNER", post |-> "MEMBER"]

\* Is the caller entitled, going by what is committed now?
Entitled(q) ==
  IF req[q].op = "join" THEN code[req[q].room] = req[q].code
  ELSE AtLeast(role[req[q].room][req[q].user], Minimum[req[q].op])

End(q) == req' = [req EXCEPT ![q] = [Blank EXCEPT !.at = "ended"]]

\* A commit that finds its caller no longer entitled.
Witness(q) ==
  overtaken' = IF Entitled(q) THEN overtaken ELSE overtaken \cup {req[q].room}

\* require_role passes.  A caller who is refused changes nothing.
Begin(q, new) ==
  /\ req[q].at = "new"
  /\ life[new.room] = "live"
  /\ AtLeast(role[new.room][new.user], Minimum[new.op])
  /\ req' = [req EXCEPT ![q] = [new EXCEPT !.at = "checked"]]
  /\ UNCHANGED <<tables, heard, past>>

\* join_by_code has no role to ask for: the room is found by its code.
BeginJoin(q, r, u, c) ==
  /\ req[q].at = "new"
  /\ life[r] = "live" /\ code[r] = c
  /\ req' = [req EXCEPT ![q] =
               [Blank EXCEPT !.op = "join", !.at = "checked", !.room = r, !.user = u, !.code = c]]
  /\ UNCHANGED <<tables, heard, past>>

\* The request ends with an error, for whatever reason, and is rolled back: a
\* row that is missing, or there already, a constraint, an UPDATE of a row that
\* is gone, too many collisions, the database.
Refuse(q) ==
  /\ req[q].at \in {"checked", "loaded"}
  /\ End(q)
  /\ UNCHANGED <<tables, heard, past>>

-----------------------------------------------------------------------------
(***************************************************************************)
(* The rooms themselves.                                                   *)
(***************************************************************************)

\* Slip: the OWNER's membership is left to a transaction of its own.
CreateEmpty(r, u, p) ==
  /\ life[r] = "new"
  /\ life' = [life EXCEPT ![r] = "live"]
  /\ profile' = [profile EXCEPT ![r] = p]
  /\ UNCHANGED <<code, role, posts, heard, req, past>>

\* Nobody else knows the room until its one transaction has committed it with
\* its first OWNER.
Create(r, u, p) ==
  /\ life[r] = "new"
  /\ life' = [life EXCEPT ![r] = "live"]
  /\ profile' = [profile EXCEPT ![r] = p]
  /\ role' = [role EXCEPT ![r][u] = "OWNER"]
  /\ UNCHANGED <<code, posts, heard, req, past>>

\* db.get of the room.  Only a PATCH needs its columns, and only an operation that
\* may write the row needs its code.
LoadRoom(q) ==
  LET r == req[q].room
      o == req[q].op IN
  /\ o \in {"update", "delete", "code"} /\ req[q].at = "checked"
  /\ life[r] = "live"
  /\ req' = [req EXCEPT ![q].at = "loaded",
       ![q].seenProfile = IF o = "update" THEN profile[r] ELSE NoProfile,
       ![q].seenCode    = IF o = "delete" THEN NoCode ELSE code[r]]
  /\ UNCHANGED <<tables, heard, past>>

\* Slip: the whole row is written back, what the PATCH does not set as it was read.
UpdateAll(q) ==
  LET r == req[q].room IN
  /\ req[q].op = "update" /\ req[q].at = "loaded"
  /\ life[r] = "live"
  /\ profile' = [profile EXCEPT ![r] = [f \in Columns |->
       IF req[q].patch[f] = NoName THEN req[q].seenProfile[f] ELSE req[q].patch[f]]]
  /\ code' = [code EXCEPT ![r] = req[q].seenCode]
  /\ Witness(q)
  /\ End(q)
  /\ UNCHANGED <<life, role, posts, heard, given, abdicated, mixed>>

\* Only what the PATCH sets is assigned, and only what differs from what was read
\* is sent.
Sent(q) == {f \in Columns : req[q].patch[f] \notin {NoName, req[q].seenProfile[f]}}

Stored(q) == [f \in Columns |-> IF f \in Sent(q) THEN req[q].patch[f]
                                ELSE profile[req[q].room][f]]

\* Slip: nobody looks whether the row is still there.
UpdateGone(q) ==
  LET r == req[q].room IN
  /\ req[q].op = "update" /\ req[q].at = "loaded"
  /\ profile' = [profile EXCEPT ![r] = Stored(q)]
  /\ End(q)
  /\ UNCHANGED <<life, code, role, posts, heard, past>>

\* A column that the PATCH sets is not sent, and another PATCH has changed it
\* since: the room gets a part of each.
Mixes(q) ==
  \E f \in Columns \ Sent(q) : req[q].patch[f] \notin {NoName, profile[req[q].room][f]}

\* The refresh that follows raises if the room is gone.
Update(q) ==
  LET r == req[q].room IN
  /\ req[q].op = "update" /\ req[q].at = "loaded"
  /\ life[r] = "live"
  /\ IF Sent(q) # {}
     THEN /\ profile' = [profile EXCEPT ![r] = Stored(q)]
          /\ mixed' = IF Mixes(q) THEN mixed \cup {r} ELSE mixed
          /\ Witness(q)
     ELSE UNCHANGED <<profile, overtaken, mixed>>
  /\ End(q)
  /\ UNCHANGED <<life, code, role, posts, heard, given, abdicated>>

\* The ORM deletes the members and messages it has read, the foreign keys the
\* ones that came later.  Deleting what is gone already only warns.
Delete(q) ==
  LET r == req[q].room IN
  /\ req[q].op = "delete" /\ req[q].at = "loaded"
  /\ life'  = [life EXCEPT ![r] = "gone"]
  /\ profile' = [profile EXCEPT ![r] = NoProfile]
  /\ code'  = [code EXCEPT ![r] = NoCode]
  /\ role'  = [role EXCEPT ![r] = Nobody]
  /\ posts' = [posts EXCEPT ![r] = {}]
  /\ given' = [given EXCEPT ![r] = NoCode]
  /\ Witness(q)
  /\ End(q)
  /\ UNCHANGED <<heard, abdicated, mixed>>

-----------------------------------------------------------------------------
(***************************************************************************)
(* Membership.  The database takes a new row only while its room exists    *)
(* and the user has no row there: the loser of a race gets an error.       *)
(***************************************************************************)

LoadNoMember(q) ==
  /\ req[q].op \in {"invite", "join"} /\ req[q].at = "checked"
  /\ role[req[q].room][IF req[q].op = "join" THEN req[q].user ELSE req[q].target] = NoRole
  /\ req' = [req EXCEPT ![q].at = "loaded"]
  /\ UNCHANGED <<tables, heard, past>>

\* Slip: an upsert, to spare the loser the error.
Upsert(q, u, new) ==
  LET r == req[q].room IN
  /\ req[q].at = "loaded"
  /\ life[r] = "live"
  /\ role' = [role EXCEPT ![r][u] = new]
  /\ Witness(q)
  /\ End(q)
  /\ UNCHANGED <<life, profile, code, posts, heard, given, abdicated, mixed>>

\* Slip: no foreign key to the room.
InsertUnkeyed(q, u, new) ==
  LET r == req[q].room IN
  /\ req[q].at = "loaded"
  /\ role[r][u] = NoRole
  /\ role' = [role EXCEPT ![r][u] = new]
  /\ Witness(q)
  /\ End(q)
  /\ UNCHANGED <<life, profile, code, posts, heard, given, abdicated, mixed>>

Insert(q, u, new) ==
  LET r == req[q].room IN
  /\ req[q].at = "loaded"
  /\ life[r] = "live"
  /\ role[r][u] = NoRole
  /\ role' = [role EXCEPT ![r][u] = new]
  /\ Witness(q)
  /\ End(q)
  /\ UNCHANGED <<life, profile, code, posts, heard, given, abdicated, mixed>>

Invite(q) == req[q].op = "invite" /\ Insert(q, req[q].target, req[q].role)

Join(q) == req[q].op = "join" /\ Insert(q, req[q].user, "MEMBER")

\* require_role keeps no reference to the caller's row, and the session holds rows
\* weakly: a caller that changes its own role has it read again.
LoadMember(q) ==
  LET r == req[q].room IN
  /\ req[q].op = "change" /\ req[q].at = "checked"
  /\ role[r][req[q].target] # NoRole
  /\ req' = [req EXCEPT ![q].at = "loaded", ![q].seenRole = role[r][req[q].target]]
  /\ UNCHANGED <<tables, heard, past>>

\* Of an OWNER that demotes itself the database has nothing against.
Abdicates(q) == req[q].user = req[q].target /\ req[q].role # "OWNER"

\* The role is sent when it differs from the one read; a member that is gone
\* raises, at the UPDATE or at the refresh.
ChangeRole(q) ==
  LET r == req[q].room
      u == req[q].target IN
  /\ req[q].op = "change" /\ req[q].at = "loaded"
  /\ role[r][u] # NoRole
  /\ IF req[q].role # req[q].seenRole
     THEN /\ role' = [role EXCEPT ![r][u] = req[q].role]
          /\ abdicated' = IF Abdicates(q) THEN abdicated \cup {r} ELSE abdicated
          /\ Witness(q)
     ELSE UNCHANGED <<role, abdicated, overtaken>>
  /\ End(q)
  /\ UNCHANGED <<life, profile, code, posts, heard, given, mixed>>

-----------------------------------------------------------------------------
(***************************************************************************)
(* Invite codes.                                                           *)
(***************************************************************************)

Taken(r, c) == \E s \in Rooms \ {r} : code[s] = c

\* A rollback expires the room, and an assignment to an expired column is
\* always sent, even if the value is the old one.
IsSent(q, c) == c # req[q].seenCode \/ req[q].tries > 0

\* The code drawn is free and becomes the room's, or it is the one the room had
\* when it was read and nothing is sent.
SetCode(q, c) ==
  LET r == req[q].room IN
  /\ req[q].op = "code" /\ req[q].at = "loaded"
  /\ req[q].tries < MaxAttempts
  /\ IF IsSent(q, c)
     THEN /\ life[r] = "live" /\ ~Taken(r, c)
          /\ code'  = [code EXCEPT ![r] = c]
          /\ given' = [given EXCEPT ![r] = c]
          /\ Witness(q)
     ELSE UNCHANGED <<code, given, overtaken>>
  /\ End(q)
  /\ UNCHANGED <<life, profile, role, posts, heard, abdicated, mixed>>

\* Slip: one attempt too many.
CollideOften(q, c) ==
  LET r == req[q].room IN
  /\ req[q].op = "code" /\ req[q].at = "loaded"
  /\ req[q].tries <= MaxAttempts
  /\ life[r] = "live" /\ IsSent(q, c) /\ Taken(r, c)
  /\ req' = [req EXCEPT ![q].tries = @ + 1]
  /\ UNCHANGED <<tables, heard, past>>

\* Another room has the code: the unique index refuses it, the transaction is
\* rolled back and another code is tried.
Collide(q, c) ==
  LET r == req[q].room IN
  /\ req[q].op = "code" /\ req[q].at = "loaded"
  /\ req[q].tries < MaxAttempts
  /\ life[r] = "live" /\ IsSent(q, c) /\ Taken(r, c)
  /\ req' = [req EXCEPT ![q].tries = @ + 1]
  /\ UNCHANGED <<tables, heard, past>>

-----------------------------------------------------------------------------
(***************************************************************************)
(* The group chat.                                                         *)
(***************************************************************************)

\* Slip: the broadcast leaves before the commit.
PostHeard(q) ==
  LET r == req[q].room IN
  /\ req[q].op = "post" /\ req[q].at = "checked"
  /\ heard' = [heard EXCEPT ![r] = @ \cup {q}]
  /\ \/ life[r] = "live" /\ posts' = [posts EXCEPT ![r] = @ \cup {q}]
     \/ UNCHANGED posts
  /\ Witness(q)
  /\ req' = [req EXCEPT ![q].at = "posted"]
  /\ UNCHANGED <<life, profile, code, role, given, abdicated, mixed>>

\* The message is committed by the router before anybody is told.
Post(q) ==
  LET r == req[q].room IN
  /\ req[q].op = "post" /\ req[q].at = "checked"
  /\ life[r] = "live"
  /\ posts' = [posts EXCEPT ![r] = @ \cup {q}]
  /\ Witness(q)
  /\ req' = [req EXCEPT ![q].at = "posted"]
  /\ UNCHANGED <<life, profile, code, role, heard, given, abdicated, mixed>>

\* The push is made or not: it never fails the request, and the room may have
\* been deleted meanwhile.
Broadcast(q) ==
  LET r == req[q].room IN
  /\ req[q].at = "posted"
  /\ heard' \in {heard, [heard EXCEPT ![r] = @ \cup {q}]}
  /\ End(q)
  /\ UNCHANGED <<tables, past>>

-----------------------------------------------------------------------------
\* What clients may ask for once they are signed in.
Ask(q) ==
  \E r \in Rooms, u \in Users :
    LET by(op) == [Blank EXCEPT !.op = op, !.room = r, !.user = u] IN
    \/ \E op \in {"delete", "code", "post"} : Begin(q, by(op))
    \/ \E p \in Patch : Begin(q, [by("update") EXCEPT !.patch = p])
    \/ \E op \in {"invite", "change"}, t \in Users, new \in Roles :
          Begin(q, [by(op) EXCEPT !.target = t, !.role = new])
    \/ \E c \in Codes : BeginJoin(q, r, u, c)

Advance(q) ==
  \/ LoadRoom(q) \/ LoadMember(q) \/ LoadNoMember(q)
  \/ Update(q) \/ Delete(q)
  \/ Invite(q) \/ Join(q) \/ ChangeRole(q)
  \/ \E c \in Codes : SetCode(q, c) \/ Collide(q, c)
  \/ Post(q) \/ Broadcast(q)
  \/ Refuse(q)

Next ==
  \/ \E r \in Rooms, u \in Users, p \in Created : Create(r, u, p)
  \/ \E q \in Requests : Ask(q) \/ Advance(q)

Spec == Init /\ [][Next]_vars

-----------------------------------------------------------------------------
TypeOK ==
  /\ life  \in [Rooms -> {"new", "live", "gone"}]
  /\ profile \in [Rooms -> Patch]
  /\ code  \in [Rooms -> Codes \cup {NoCode}]
  /\ role  \in [Rooms -> [Users -> Roles \cup {NoRole}]]
  /\ posts \in [Rooms -> SUBSET Requests]
  /\ heard \in [Rooms -> SUBSET Requests]
  /\ req   \in [Requests -> Req]
  /\ given \in [Rooms -> Codes \cup {NoCode}]
  /\ abdicated \subseteq Rooms
  /\ overtaken \subseteq Rooms
  /\ mixed     \subseteq Rooms

\* The last new code an OWNER was told is the one that opens the room, whatever
\* collided, was edited or was regenerated in between (generate_invite_code).
GivenCodeWorks == \A r \in Rooms : given[r] = code[r]

\* A room that is deleted takes its members and messages with it, also those
\* whose requests were under way (the foreign keys of rooms/models.py).
NothingOutlivesRoom ==
  \A r \in Rooms : life[r] # "live" => role[r] = Nobody /\ posts[r] = {} /\ code[r] = NoCode

\* "The message must be durably committed before anything outside this
\* transaction is told it exists" (broadcast_group_message).
BroadcastIsStored ==
  \A r \in Rooms : \A q \in heard[r] : q \in posts[r] \/ life[r] = "gone"

Owners(r) == {u \in Users : role[r][u] = "OWNER"}

\* A room is left without an OWNER only by an OWNER that demoted itself, or by
\* one that was demoted while its own change was under way (change_member_role).
OwnerlessIsExplained ==
  \A r \in Rooms : life[r] = "live" /\ Owners(r) = {} => r \in abdicated \cup overtaken

ChangesTo(q, r, u) ==
  /\ req[q].op = "change" /\ req[q].at = "loaded" /\ req'[q].at = "ended"
  /\ req[q].room = r /\ req[q].target = u /\ req[q].role = role'[r][u]

RoleIsKept(r, u) ==
  role[r][u] \notin {NoRole, role'[r][u]} =>
    life'[r] = "gone" \/ \E q \in Requests : ChangesTo(q, r, u)

\* A member's role changes only by a change_member_role of that role, or by the
\* end of the room: no invitation or join undoes it, however they overlap.
RolesAreKept == [][\A r \in Rooms, u \in Users : RoleIsKept(r, u)]_vars

Edits(q, r, f) ==
  /\ req[q].op = "update" /\ req[q].at = "loaded" /\ req'[q].at = "ended"
  /\ req[q].room = r
  /\ req[q].patch[f] = profile'[r][f] /\ req[q].seenProfile[f] # profile'[r][f]

EditIsKept(r, f) ==
  life[r] = "live" /\ life'[r] = "live" /\ profile'[r][f] # profile[r][f] =>
    \E q \in Requests : Edits(q, r, f)

\* A column of a room changes only by a PATCH that sets it, and no PATCH puts back
\* what it has read over what another has stored since (RoomService.update).
EditsAreKept == [][\A r \in Rooms, f \in Columns : EditIsKept(r, f)]_vars

-----------------------------------------------------------------------------
\* Rooms that somebody has changed without being entitled to any more, or of which
\* overlapping PATCHes have stored a part each.
Unpromised == overtaken \cup mixed

\* The mapping to operations of one step: a room as the database shows it, as long
\* as it is promised anything.
Shown == [r \in Rooms |->
  IF r \in Unpromised
  THEN [life |-> "void", profile |-> NoProfile, code |-> NoCode, role |-> Nobody, posts |-> {}]
  ELSE [life |-> life[r], profile |-> profile[r], code |-> code[r], role |-> role[r],
        posts |-> posts[r]]]

\* What a request wants, until its commit or its refusal.
Wish(x) == [op |-> x.op, room |-> x.room, user |-> x.user, target |-> x.target,
            role |-> x.role, patch |-> x.patch, code |-> x.code]

Wanted == [q \in Requests |->
  IF req[q].at \in {"checked", "loaded"} THEN Wish(req[q]) ELSE Wish(Blank)]

Atomic == INSTANCE RoomAccess WITH room <- Shown, want <- Wanted, Idle <- Wish(Blank)

\* Every request is as good as one step that is checked and does at once what it
\* was asked, or does nothing, until a caller loses its role, or a code its room,
\* while its request is under way, or a PATCH overwrites one column of an
\* overlapping PATCH and leaves out another.
OperationsAreAtomic == Atomic!Spec
=============================================================================
