------------------------------ MODULE RoomAccess -------------------------------
(***************************************************************************)
(* What src/rooms promises of study rooms: every request is one step that  *)
(* does what was asked, taken while its caller is entitled to it.  The     *)
(* room of a request whose caller was entitled when it was checked but not *)
(* any more when it was committed, or of a PATCH that is stored in part,   *)
(* is Overtaken, and nothing more is promised of it.                       *)
(***************************************************************************)
EXTENDS RoomRoles

CONSTANTS
  Requests,
  Idle      \* what a request wants before it is begun and when it is over

VARIABLES
  room,     \* every room with its columns, code, members and messages
  want      \* what each request has been asked to do and has not done yet

State(life, profile, code, role, posts) ==
  [life |-> life, profile |-> profile, code |-> code, role |-> role, posts |-> posts]

Absent(life) == State(life, NoProfile, NoCode, Nobody, {})
Void == Absent("void")

Its(q) == room[want[q].room]

May(q, minimum) == Its(q).life = "live" /\ AtLeast(Its(q).role[want[q].user], minimum)

Do(q, state) ==
  /\ room' = [room EXCEPT ![want[q].room] = state]
  /\ want' = [want EXCEPT ![q] = Idle]

-----------------------------------------------------------------------------
Create(r, u, p) ==
  /\ room[r].life = "new"
  /\ room' = [room EXCEPT ![r] = State("live", p, NoCode, [Nobody EXCEPT ![u] = "OWNER"], {})]
  /\ UNCHANGED want

\* A client may ask for anything.
Ask(q) ==
  /\ want[q] = Idle
  /\ \A p \in Requests \ {q} : want'[p] = want[p]
  /\ UNCHANGED room

\* The request is refused, or finds nothing to do.
Drop(q) == want' = [want EXCEPT ![q] = Idle] /\ UNCHANGED room

Patched(old, patch) == [f \in Columns |-> IF patch[f] = NoName THEN old[f] ELSE patch[f]]

Update(q) ==
  /\ want[q].op = "update" /\ May(q, "ADMIN")
  /\ Do(q, [Its(q) EXCEPT !.profile = Patched(@, want[q].patch)])

Delete(q) ==
  /\ want[q].op = "delete" /\ May(q, "OWNER")
  /\ Do(q, Absent("gone"))

Invite(q) ==
  /\ want[q].op = "invite" /\ May(q, "ADMIN")
  /\ Its(q).role[want[q].target] = NoRole
  /\ Do(q, [Its(q) EXCEPT !.role[want[q].target] = want[q].role])

ChangeRole(q) ==
  /\ want[q].op = "change" /\ May(q, "OWNER")
  /\ Its(q).role[want[q].target] # NoRole
  /\ Do(q, [Its(q) EXCEPT !.role[want[q].target] = want[q].role])

\* A new code is a code that no other room has.
Regenerate(q, c) ==
  /\ want[q].op = "code" /\ May(q, "OWNER")
  /\ \A s \in Rooms \ {want[q].room} : room[s].life = "live" => room[s].code # c
  /\ Do(q, [Its(q) EXCEPT !.code = c])

Join(q) ==
  /\ want[q].op = "join"
  /\ Its(q).life = "live" /\ Its(q).code = want[q].code
  /\ Its(q).role[want[q].user] = NoRole
  /\ Do(q, [Its(q) EXCEPT !.role[want[q].user] = "MEMBER"])

Post(q) ==
  /\ want[q].op = "post" /\ May(q, "MEMBER")
  /\ Do(q, [Its(q) EXCEPT !.posts = @ \cup {q}])

Overtaken(q) == Do(q, Void)

-----------------------------------------------------------------------------
Init ==
  /\ room = [r \in Rooms |-> Absent("new")]
  /\ want = [q \in Requests |-> Idle]

Next ==
  \/ \E r \in Rooms, u \in Users, p \in Created : Create(r, u, p)
  \/ \E q \in Requests :
       \/ Ask(q) \/ Drop(q) \/ Overtaken(q)
       \/ Update(q) \/ Delete(q) \/ Post(q)
       \/ Invite(q) \/ Join(q) \/ ChangeRole(q)
       \/ \E c \in Codes : Regenerate(q, c)

Spec == Init /\ [][Next]_<<room, want>>
=============================================================================
