------------------------------ MODULE RoomsProofs ------------------------------
(***************************************************************************)
(* Theorems about Rooms, for any number of rooms, users, codes, columns,   *)
(* requests and attempts at a code.                                        *)
(***************************************************************************)
EXTENDS Rooms, TLAPS

-----------------------------------------------------------------------------
(***************************************************************************)
(* Requests.  A request that is under way knows what it is about.          *)
(***************************************************************************)

Sound(x) ==
  /\ x \in Req
  /\ x.at \in {"checked", "loaded", "posted"} => x.room \in Rooms /\ x.user \in Users
  /\ x.at \in {"checked", "loaded"} =>
       /\ x.op \in {"invite", "change"} => x.target \in Users /\ x.role \in Roles
       /\ x.op = "update" => x.patch \in Patch
       /\ x.op = "join" => x.code \in Codes

ReqOK == req \in [Requests -> Req] /\ \A q \in Requests : Sound(req[q])

LEMMA ReqStep ==
  ASSUME ReqOK, NEW q \in Requests, NEW x, Sound(x), req' = [req EXCEPT ![q] = x]
  PROVE  ReqOK' /\ req'[q] = x /\ \A p \in Requests \ {q} : req'[p] = req[p]
<1>1. x \in Req
  BY DEF Sound
<1>2. req' \in [Requests -> Req] /\ req'[q] = x /\ \A p \in Requests \ {q} : req'[p] = req[p]
  BY <1>1 DEF ReqOK
<1> QED  BY <1>2 DEF ReqOK, Sound

LEMMA NoProfileIsPatch == NoProfile \in Patch
BY DEF NoProfile, Patch

LEMMA BlankSound == Blank \in Req /\ Sound(Blank) /\ Sound([Blank EXCEPT !.at = "ended"])
BY RequestsAssumption, NoProfileIsPatch DEF Blank, Req, Ops, Sound

LEMMA EndStep ==
  ASSUME ReqOK, NEW q \in Requests, End(q)
  PROVE  ReqOK' /\ req'[q].at = "ended" /\ \A p \in Requests \ {q} : req'[p] = req[p]
<1> DEFINE x == [Blank EXCEPT !.at = "ended"]
<1>1. Sound(x) /\ x.at = "ended" /\ req' = [req EXCEPT ![q] = x]
  BY BlankSound DEF End, Blank
<1> HIDE DEF x
<1> QED  BY <1>1, ReqStep

\* What clients may ask for.
Asked(x) ==
  /\ x \in Req /\ x.op # "join"
  /\ x.room \in Rooms /\ x.user \in Users
  /\ x.op \in {"invite", "change"} => x.target \in Users /\ x.role \in Roles
  /\ x.op = "update" => x.patch \in Patch

LEMMA AskCases ==
  ASSUME NEW q \in Requests, Ask(q)
  PROVE  \/ \E x : Asked(x) /\ Begin(q, x)
         \/ \E r \in Rooms, u \in Users, c \in Codes : BeginJoin(q, r, u, c)
<1> SUFFICES ASSUME NEW r \in Rooms, NEW u \in Users
             PROVE  /\ \A op \in {"delete", "code", "post"} :
                         Asked([Blank EXCEPT !.op = op, !.room = r, !.user = u])
                    /\ \A p \in Patch :
                         Asked([[Blank EXCEPT !.op = "update", !.room = r, !.user = u]
                                  EXCEPT !.patch = p])
                    /\ \A op \in {"invite", "change"}, t \in Users, new \in Roles :
                         Asked([[Blank EXCEPT !.op = op, !.room = r, !.user = u]
                                  EXCEPT !.target = t, !.role = new])
  BY DEF Ask
<1>1. Blank \in Req
  BY BlankSound
<1>2. ASSUME NEW op \in {"delete", "code", "post"}
      PROVE  Asked([Blank EXCEPT !.op = op, !.room = r, !.user = u])
  BY <1>1 DEF Asked, Blank, Req, Ops
<1>3. ASSUME NEW p \in Patch
      PROVE  Asked([[Blank EXCEPT !.op = "update", !.room = r, !.user = u] EXCEPT !.patch = p])
  BY <1>1 DEF Asked, Blank, Req, Ops
<1>4. ASSUME NEW op \in {"invite", "change"}, NEW t \in Users, NEW new \in Roles
      PROVE  Asked([[Blank EXCEPT !.op = op, !.room = r, !.user = u]
                      EXCEPT !.target = t, !.role = new])
  BY <1>1 DEF Asked, Blank, Req, Ops
<1> QED  BY <1>2, <1>3, <1>4

LEMMA AskStep ==
  ASSUME ReqOK, NEW q \in Requests, Ask(q)
  PROVE  /\ ReqOK' /\ req'[q].at = "checked" /\ \A p \in Requests \ {q} : req'[p] = req[p]
         /\ UNCHANGED <<tables, heard, past>>
<1>1. ASSUME NEW x, Asked(x), Begin(q, x)
      PROVE  /\ ReqOK' /\ req'[q].at = "checked" /\ \A p \in Requests \ {q} : req'[p] = req[p]
             /\ UNCHANGED <<tables, heard, past>>
  <2> DEFINE y == [x EXCEPT !.at = "checked"]
  <2>1. Sound(y) /\ y.at = "checked"
    BY <1>1 DEF Asked, Sound, Req
  <2>2. req' = [req EXCEPT ![q] = y]
    BY <1>1 DEF Begin
  <2> HIDE DEF y
  <2> QED  BY <1>1, <2>1, <2>2, ReqStep DEF Begin
<1>2. ASSUME NEW r \in Rooms, NEW u \in Users, NEW c \in Codes, BeginJoin(q, r, u, c)
      PROVE  /\ ReqOK' /\ req'[q].at = "checked" /\ \A p \in Requests \ {q} : req'[p] = req[p]
             /\ UNCHANGED <<tables, heard, past>>
  <2> DEFINE y == [Blank EXCEPT !.op = "join", !.at = "checked", !.room = r, !.user = u, !.code = c]
  <2>1. y \in Req
    BY BlankSound DEF Req, Ops
  <2>2. y.op = "join" /\ y.at = "checked" /\ y.room = r /\ y.user = u /\ y.code = c
    BY DEF Blank
  <2>3. Sound(y)
    <3> HIDE DEF y
    <3> QED  BY <2>1, <2>2 DEF Sound
  <2>4. req' = [req EXCEPT ![q] = y]
    BY <1>2 DEF BeginJoin
  <2> HIDE DEF y
  <2> QED  BY <1>2, <2>2, <2>3, <2>4, ReqStep DEF BeginJoin
<1> QED  BY <1>1, <1>2, AskCases

\* A request that goes on with its operation.
LEMMA LoadStep ==
  ASSUME ReqOK, NEW q \in Requests, NEW x \in Req,
         x.room = req[q].room, x.user = req[q].user, x.target = req[q].target,
         x.role = req[q].role, x.patch = req[q].patch, x.code = req[q].code,
         x.op = req[q].op, x.at \in {"loaded", "posted"}, req[q].at \in {"checked", "loaded"},
         req' = [req EXCEPT ![q] = x]
  PROVE  ReqOK' /\ req'[q] = x /\ \A p \in Requests \ {q} : req'[p] = req[p]
<1>1. Sound(req[q])
  BY DEF ReqOK
<1>2. Sound(x)
  BY <1>1 DEF Sound
<1> QED  BY <1>2, ReqStep

-----------------------------------------------------------------------------
(***************************************************************************)
(* The inductive invariant.                                                *)
(***************************************************************************)

Typed ==
  /\ life  \in [Rooms -> {"new", "live", "gone"}]
  /\ profile \in [Rooms -> Patch]
  /\ code  \in [Rooms -> Codes \cup {NoCode}]
  /\ role  \in [Rooms -> [Users -> Roles \cup {NoRole}]]
  /\ posts \in [Rooms -> SUBSET Requests]
  /\ heard \in [Rooms -> SUBSET Requests]
  /\ given \in [Rooms -> Codes \cup {NoCode}]
  /\ abdicated \subseteq Rooms /\ overtaken \subseteq Rooms /\ mixed \subseteq Rooms

\* What is true of every room.
RoomOK(r) ==
  /\ given[r] = code[r]
  /\ life[r] # "live" =>
       role[r] = Nobody /\ posts[r] = {} /\ code[r] = NoCode /\ profile[r] = NoProfile
  /\ life[r] # "gone" => heard[r] \subseteq posts[r]
  /\ life[r] = "live" /\ Owners(r) = {} => r \in abdicated \cup overtaken

\* A request that has stored its message is free to be broadcast.
PostedOK ==
  \A q \in Requests :
    req[q].at = "posted" => q \in posts[req[q].room] \/ life[req[q].room] = "gone"

IInv == Typed /\ ReqOK /\ PostedOK /\ \A r \in Rooms : RoomOK(r)

\* Room r is as it was.
Same(r) ==
  /\ life'[r] = life[r] /\ profile'[r] = profile[r] /\ code'[r] = code[r]
  /\ role'[r] = role[r] /\ posts'[r] = posts[r]
  /\ r \in overtaken' <=> r \in overtaken
  /\ r \in mixed' <=> r \in mixed

LEMMA Elsewhere ==
  ASSUME NEW r \in Rooms, RoomOK(r), Same(r), heard'[r] = heard[r], given'[r] = given[r],
         abdicated \subseteq abdicated'
  PROVE  RoomOK(r)'
BY DEF RoomOK, Same, Owners

\* A request that is not about to broadcast leaves PostedOK to the others.
LEMMA PostedStep ==
  ASSUME IInv, NEW q \in Requests, req'[q].at # "posted",
         \A p \in Requests \ {q} : req'[p] = req[p],
         \A r \in Rooms : posts[r] \subseteq posts'[r] \/ life'[r] = "gone",
         \A r \in Rooms : life[r] = "gone" => life'[r] = "gone"
  PROVE  PostedOK'
<1> SUFFICES ASSUME NEW p \in Requests, req'[p].at = "posted"
             PROVE  p \in posts'[req'[p].room] \/ life'[req'[p].room] = "gone"
  BY DEF PostedOK
<1>1. req'[p] = req[p] /\ req[p].at = "posted" /\ req[p].room \in Rooms
  BY DEF IInv, ReqOK, Sound
<1>2. p \in posts[req[p].room] \/ life[req[p].room] = "gone"
  BY <1>1 DEF IInv, PostedOK
<1> QED  BY <1>1, <1>2

\* Steps that change nothing but a request.
LEMMA QuietStep ==
  ASSUME IInv, NEW q \in Requests, ReqOK', req'[q].at # "posted",
         \A p \in Requests \ {q} : req'[p] = req[p], UNCHANGED <<tables, heard, past>>
  PROVE  IInv'
<1>1. Typed' /\ \A r \in Rooms : RoomOK(r)'
  BY DEF IInv, Typed, RoomOK, Owners, tables, past
<1>2. PostedOK'
  BY PostedStep DEF tables
<1> QED  BY <1>1, <1>2 DEF IInv

\* Steps that change one room.
LEMMA RoomStep ==
  ASSUME IInv, NEW r \in Rooms, Typed', ReqOK', PostedOK', RoomOK(r)',
         abdicated \subseteq abdicated',
         \A s \in Rooms \ {r} : Same(s) /\ heard'[s] = heard[s] /\ given'[s] = given[s]
  PROVE  IInv'
<1>1. ASSUME NEW s \in Rooms \ {r}
      PROVE  RoomOK(s)'
  BY Elsewhere DEF IInv
<1> QED  BY <1>1 DEF IInv

LEMMA WitnessStep ==
  ASSUME IInv, NEW q \in Requests, req[q].room \in Rooms, Witness(q)
  PROVE  /\ overtaken \subseteq overtaken' /\ overtaken' \subseteq Rooms
         /\ \A s \in Rooms \ {req[q].room} : s \in overtaken' <=> s \in overtaken
         /\ req[q].room \notin overtaken' => Entitled(q) /\ req[q].room \notin overtaken
BY DEF IInv, Typed, Witness

-----------------------------------------------------------------------------
(***************************************************************************)
(* One lemma for each operation that changes a room.  Each also says what  *)
(* it leaves alone, for the refinement.                                    *)
(***************************************************************************)

LEMMA CreateKeeps ==
  ASSUME IInv, NEW r \in Rooms, NEW u \in Users, NEW n \in Created, Create(r, u, n)
  PROVE  IInv' /\ \A s \in Rooms \ {r} : Same(s)
<1>1. /\ life'[r] = "live" /\ profile'[r] = n /\ role'[r] = [role[r] EXCEPT ![u] = "OWNER"]
      /\ \A s \in Rooms \ {r} : life'[s] = life[s] /\ profile'[s] = profile[s] /\ role'[s] = role[s]
      /\ life[r] = "new"
      /\ UNCHANGED <<code, posts, heard, req, given, abdicated, overtaken, mixed>>
  BY DEF IInv, Typed, Create, past
<1>2. role[r] = Nobody /\ heard[r] \subseteq posts[r] /\ given[r] = code[r]
  BY <1>1 DEF IInv, RoomOK
<1>3. Typed'
  <2>1. n \in Patch
    BY CreatedAssumption DEF Profile, Patch
  <2> QED  BY <1>1, <2>1 DEF IInv, Typed, Create, Roles
<1>4. role'[r][u] = "OWNER"
  BY <1>1 DEF IInv, Typed
<1>5. RoomOK(r)'
  <2>1. Owners(r)' # {}
    BY <1>4 DEF Owners
  <2> QED  BY <1>1, <1>2, <2>1 DEF RoomOK
<1>6. ReqOK'
  BY <1>1 DEF IInv, ReqOK
<1>7. PostedOK'
  <2> SUFFICES ASSUME NEW p \in Requests, req[p].at = "posted"
               PROVE  p \in posts[req[p].room] \/ life'[req[p].room] = "gone"
    BY <1>1 DEF PostedOK
  <2>1. req[p].room \in Rooms /\ (p \in posts[req[p].room] \/ life[req[p].room] = "gone")
    BY DEF IInv, PostedOK, ReqOK, Sound
  <2> QED  BY <1>1, <2>1
<1> QED  BY <1>1, <1>3, <1>5, <1>6, <1>7, RoomStep DEF Same

\* What an update leaves in the row.
LEMMA StoredIs ==
  ASSUME IInv, NEW q \in Requests, req[q].room \in Rooms, req[q].patch \in Patch
  PROVE  Stored(q) \in Patch
BY DEF IInv, Typed, Patch, Stored, Sent

LEMMA UpdateKeeps ==
  ASSUME IInv, NEW q \in Requests, Update(q)
  PROVE  IInv' /\ req[q].room \in Rooms /\ \A s \in Rooms \ {req[q].room} : Same(s)
<1>1. PICK r \in Rooms : r = req[q].room /\ req[q].patch \in Patch
  BY DEF IInv, ReqOK, Sound, Update
<1>2. /\ ReqOK' /\ req'[q].at # "posted" /\ \A p \in Requests \ {q} : req'[p] = req[p]
      /\ life[r] = "live" /\ UNCHANGED <<life, code, role, posts, heard, given, abdicated>>
  BY <1>1, EndStep DEF IInv, Update
<1>3. /\ overtaken \subseteq overtaken' /\ overtaken' \subseteq Rooms
      /\ mixed' \subseteq Rooms
      /\ \A s \in Rooms \ {r} : s \in overtaken' <=> s \in overtaken
      /\ \A s \in Rooms \ {r} : s \in mixed' <=> s \in mixed
  <2>1. CASE UNCHANGED <<overtaken, mixed>>
    BY <2>1 DEF IInv, Typed
  <2>2. CASE Witness(q) /\ mixed' = IF Mixes(q) THEN mixed \cup {r} ELSE mixed
    BY <1>1, <2>2, WitnessStep DEF IInv, Typed
  <2> QED  BY <1>1, <2>1, <2>2 DEF Update
<1>4. profile' \in [Rooms -> Patch] /\ \A s \in Rooms \ {r} : profile'[s] = profile[s]
  <2>1. UNCHANGED profile \/ profile' = [profile EXCEPT ![r] = Stored(q)]
    BY <1>1 DEF Update
  <2> QED  BY <1>1, <2>1, StoredIs DEF IInv, Typed
<1>5. Typed'
  BY <1>2, <1>3, <1>4 DEF IInv, Typed
<1>6. PostedOK'
  BY <1>2, PostedStep
<1>7. RoomOK(r)'
  BY <1>1, <1>2, <1>3 DEF IInv, RoomOK, Owners
<1>8. \A s \in Rooms \ {r} : Same(s)
  BY <1>2, <1>3, <1>4 DEF Same
<1>9. IInv'
  BY <1>1, <1>2, <1>5, <1>6, <1>7, <1>8, RoomStep
<1> QED  BY <1>1, <1>8, <1>9

LEMMA DeleteKeeps ==
  ASSUME IInv, NEW q \in Requests, Delete(q)
  PROVE  IInv' /\ req[q].room \in Rooms /\ \A s \in Rooms \ {req[q].room} : Same(s)
<1>1. PICK r \in Rooms : r = req[q].room
  BY DEF IInv, ReqOK, Sound, Delete
<1>2. /\ ReqOK' /\ req'[q].at # "posted" /\ \A p \in Requests \ {q} : req'[p] = req[p]
      /\ UNCHANGED <<heard, abdicated, mixed>>
  BY <1>1, EndStep DEF IInv, Delete
<1>3. /\ overtaken \subseteq overtaken' /\ overtaken' \subseteq Rooms
      /\ \A s \in Rooms \ {r} : s \in overtaken' <=> s \in overtaken
  BY <1>1, WitnessStep DEF Delete
<1>4. /\ life'[r] = "gone" /\ profile'[r] = NoProfile /\ code'[r] = NoCode /\ role'[r] = Nobody
      /\ posts'[r] = {} /\ given'[r] = NoCode
      /\ \A s \in Rooms \ {r} :
           /\ life'[s] = life[s] /\ profile'[s] = profile[s] /\ code'[s] = code[s]
           /\ role'[s] = role[s] /\ posts'[s] = posts[s] /\ given'[s] = given[s]
  BY <1>1 DEF IInv, Typed, Delete
<1>5. Typed'
  <2>1. Nobody \in [Users -> Roles \cup {NoRole}]
    BY DEF Nobody
  <2> QED  BY <1>2, <1>3, <2>1, NoProfileIsPatch DEF IInv, Typed, Delete
<1>6. PostedOK'
  <2>1. \A s \in Rooms : posts[s] \subseteq posts'[s] \/ life'[s] = "gone"
    BY <1>4
  <2>2. \A s \in Rooms : life[s] = "gone" => life'[s] = "gone"
    BY <1>4
  <2> QED  BY <1>2, <2>1, <2>2, PostedStep
<1>7. RoomOK(r)'
  BY <1>4 DEF RoomOK
<1>8. \A s \in Rooms \ {r} : Same(s)
  BY <1>2, <1>3, <1>4 DEF Same
<1>9. IInv'
  BY <1>2, <1>4, <1>5, <1>6, <1>7, <1>8, RoomStep
<1> QED  BY <1>1, <1>8, <1>9

LEMMA InsertKeeps ==
  ASSUME IInv, NEW q \in Requests, NEW u \in Users, NEW new \in Roles, Insert(q, u, new)
  PROVE  IInv' /\ req[q].room \in Rooms /\ \A s \in Rooms \ {req[q].room} : Same(s)
<1>1. PICK r \in Rooms : r = req[q].room
  BY DEF IInv, ReqOK, Sound, Insert
<1>2. /\ ReqOK' /\ req'[q].at # "posted" /\ \A p \in Requests \ {q} : req'[p] = req[p]
      /\ life[r] = "live" /\ UNCHANGED <<life, profile, code, posts, heard, given, abdicated, mixed>>
  BY <1>1, EndStep DEF IInv, Insert
<1>3. /\ overtaken \subseteq overtaken' /\ overtaken' \subseteq Rooms
      /\ \A s \in Rooms \ {r} : s \in overtaken' <=> s \in overtaken
  BY <1>1, WitnessStep DEF Insert
<1>4. /\ role' \in [Rooms -> [Users -> Roles \cup {NoRole}]]
      /\ \A s \in Rooms \ {r} : role'[s] = role[s]
      /\ role'[r] = [role[r] EXCEPT ![u] = new] /\ role[r][u] = NoRole
  BY <1>1 DEF IInv, Typed, Insert
<1>5. Owners(r) \subseteq Owners(r)'
  BY <1>4 DEF Owners, NoRole, IInv, Typed
<1>6. Typed'
  BY <1>2, <1>3, <1>4 DEF IInv, Typed
<1>7. PostedOK'
  BY <1>2, PostedStep
<1>8. RoomOK(r)'
  BY <1>2, <1>3, <1>5 DEF IInv, RoomOK
<1>9. \A s \in Rooms \ {r} : Same(s)
  BY <1>2, <1>3, <1>4 DEF Same
<1>10. IInv'
  BY <1>2, <1>6, <1>7, <1>8, <1>9, RoomStep
<1> QED  BY <1>1, <1>9, <1>10

LEMMA ChangeRoleKeeps ==
  ASSUME IInv, NEW q \in Requests, ChangeRole(q)
  PROVE  IInv' /\ req[q].room \in Rooms /\ \A s \in Rooms \ {req[q].room} : Same(s)
<1>1. PICK r \in Rooms, u \in Users :
        r = req[q].room /\ u = req[q].target /\ req[q].role \in Roles /\ req[q].user \in Users
  BY DEF IInv, ReqOK, Sound, ChangeRole
<1>2. /\ ReqOK' /\ req'[q].at # "posted" /\ \A p \in Requests \ {q} : req'[p] = req[p]
      /\ role[r][u] # NoRole /\ UNCHANGED <<life, profile, code, posts, heard, given, mixed>>
  BY <1>1, EndStep DEF IInv, ChangeRole
<1>3. life[r] = "live"
  BY <1>2 DEF IInv, RoomOK, Typed, Nobody
<1>4. CASE UNCHANGED <<role, abdicated, overtaken>>
  <2>1. Typed'
    BY <1>2, <1>4 DEF IInv, Typed
  <2>2. PostedOK'
    BY <1>2, PostedStep
  <2>3. RoomOK(r)' /\ \A s \in Rooms \ {r} : Same(s)
    BY <1>2, <1>4 DEF IInv, RoomOK, Owners, Same
  <2>4. IInv'
    BY <1>2, <1>4, <2>1, <2>2, <2>3, RoomStep
  <2> QED  BY <1>1, <2>3, <2>4
<1>5. CASE /\ role' = [role EXCEPT ![r][u] = req[q].role] /\ Witness(q)
           /\ abdicated' = IF Abdicates(q) THEN abdicated \cup {r} ELSE abdicated
  <2>1. /\ overtaken \subseteq overtaken' /\ overtaken' \subseteq Rooms
        /\ \A s \in Rooms \ {r} : s \in overtaken' <=> s \in overtaken
        /\ r \notin overtaken' => Entitled(q)
    BY <1>1, <1>5, WitnessStep
  <2>2. /\ role' \in [Rooms -> [Users -> Roles \cup {NoRole}]]
        /\ \A s \in Rooms \ {r} : role'[s] = role[s]
        /\ role'[r] = [role[r] EXCEPT ![u] = req[q].role]
    BY <1>1, <1>5 DEF IInv, Typed
  <2>3. abdicated \subseteq abdicated' /\ abdicated' \subseteq Rooms
    BY <1>5 DEF IInv, Typed
  <2>4. Typed'
    BY <1>2, <2>1, <2>2, <2>3 DEF IInv, Typed
  <2>5. PostedOK'
    BY <1>2, PostedStep
  <2>6. ASSUME Owners(r)' = {}, r \notin overtaken'
        PROVE  r \in abdicated'
    <3>1. role[r][req[q].user] = "OWNER"
      BY <1>1, <2>1, <2>6 DEF Entitled, ChangeRole, Minimum, AtLeast, Rank, Roles
    <3>2. role[r] \in [Users -> Roles \cup {NoRole}]
      BY DEF IInv, Typed
    <3>3. role'[r][req[q].user] # "OWNER"
      BY <1>1, <2>6 DEF Owners
    <3>4. req[q].user = u /\ req[q].role # "OWNER"
      BY <1>1, <2>2, <3>1, <3>2, <3>3
    <3> QED  BY <1>1, <1>5, <3>4 DEF Abdicates
  <2>7. RoomOK(r)'
    BY <1>2, <1>3, <2>6 DEF IInv, RoomOK
  <2>8. \A s \in Rooms \ {r} : Same(s)
    BY <1>2, <2>1, <2>2 DEF Same
  <2>9. IInv'
    BY <1>2, <2>3, <2>4, <2>5, <2>7, <2>8, RoomStep
  <2> QED  BY <1>1, <2>8, <2>9
<1> QED  BY <1>1, <1>4, <1>5 DEF ChangeRole

LEMMA SetCodeKeeps ==
  ASSUME IInv, NEW q \in Requests, NEW c \in Codes, SetCode(q, c)
  PROVE  IInv' /\ req[q].room \in Rooms /\ \A s \in Rooms \ {req[q].room} : Same(s)
<1>1. PICK r \in Rooms : r = req[q].room
  BY DEF IInv, ReqOK, Sound, SetCode
<1>2. /\ ReqOK' /\ req'[q].at # "posted" /\ \A p \in Requests \ {q} : req'[p] = req[p]
      /\ UNCHANGED <<life, profile, role, posts, heard, abdicated, mixed>>
  BY <1>1, EndStep DEF IInv, SetCode
<1>3. PostedOK'
  BY <1>2, PostedStep
<1>4. CASE UNCHANGED <<code, given, overtaken>>
  <2>1. Typed'
    BY <1>2, <1>4 DEF IInv, Typed
  <2>2. RoomOK(r)' /\ \A s \in Rooms \ {r} : Same(s)
    BY <1>2, <1>4 DEF IInv, RoomOK, Owners, Same
  <2>3. IInv'
    BY <1>2, <1>3, <1>4, <2>1, <2>2, RoomStep
  <2> QED  BY <1>1, <2>2, <2>3
<1>5. CASE /\ life[r] = "live" /\ ~Taken(r, c) /\ Witness(q)
           /\ code' = [code EXCEPT ![r] = c] /\ given' = [given EXCEPT ![r] = c]
  <2>1. /\ overtaken \subseteq overtaken' /\ overtaken' \subseteq Rooms
        /\ \A s \in Rooms \ {r} : s \in overtaken' <=> s \in overtaken
    BY <1>1, <1>5, WitnessStep
  <2>2. /\ code'[r] = c /\ given'[r] = c
        /\ \A s \in Rooms \ {r} : code'[s] = code[s] /\ given'[s] = given[s] /\ code[s] # c
    BY <1>5 DEF IInv, Typed, Taken
  <2>3. Typed'
    BY <1>2, <1>5, <2>1 DEF IInv, Typed
  <2>4. RoomOK(r)'
    BY <1>2, <1>5, <2>1, <2>2 DEF IInv, RoomOK, Owners
  <2>5. \A s \in Rooms \ {r} : Same(s)
    BY <1>2, <2>1, <2>2 DEF Same
  <2>6. IInv'
    BY <1>2, <1>3, <2>2, <2>3, <2>4, <2>5, RoomStep
  <2> QED  BY <1>1, <2>5, <2>6
<1> QED  BY <1>1, <1>4, <1>5 DEF SetCode

LEMMA PostKeeps ==
  ASSUME IInv, NEW q \in Requests, Post(q)
  PROVE  IInv' /\ req[q].room \in Rooms /\ \A s \in Rooms \ {req[q].room} : Same(s)
<1>1. PICK r \in Rooms : r = req[q].room
  BY DEF IInv, ReqOK, Sound, Post
<1>2. /\ life[r] = "live" /\ UNCHANGED <<life, profile, code, role, heard, given, abdicated, mixed>>
  BY <1>1 DEF Post
<1>3. ReqOK' /\ req'[q].room = r /\ \A p \in Requests \ {q} : req'[p] = req[p]
  <2> DEFINE x == [req[q] EXCEPT !.at = "posted"]
  <2>1. req[q] \in Req
    BY DEF IInv, ReqOK
  <2>2. /\ x \in Req /\ x.at = "posted" /\ x.room = req[q].room /\ x.user = req[q].user
        /\ x.target = req[q].target /\ x.role = req[q].role /\ x.patch = req[q].patch
        /\ x.code = req[q].code /\ x.op = req[q].op
    BY <2>1 DEF Req
  <2>3. req' = [req EXCEPT ![q] = x] /\ req[q].at = "checked"
    BY DEF Post
  <2> HIDE DEF x
  <2> QED  BY <1>1, <2>2, <2>3, LoadStep DEF IInv
<1>4. /\ overtaken \subseteq overtaken' /\ overtaken' \subseteq Rooms
      /\ \A s \in Rooms \ {r} : s \in overtaken' <=> s \in overtaken
  BY <1>1, WitnessStep DEF Post
<1>5. /\ posts' \in [Rooms -> SUBSET Requests] /\ posts'[r] = posts[r] \cup {q}
      /\ \A s \in Rooms \ {r} : posts'[s] = posts[s]
  BY <1>1 DEF IInv, Typed, Post
<1>6. Typed'
  BY <1>2, <1>4, <1>5 DEF IInv, Typed
<1>7. PostedOK'
  <2> SUFFICES ASSUME NEW p \in Requests \ {q}, req[p].at = "posted"
               PROVE  p \in posts'[req[p].room] \/ life[req[p].room] = "gone"
    BY <1>2, <1>3, <1>5 DEF PostedOK
  <2>1. req[p].room \in Rooms /\ (p \in posts[req[p].room] \/ life[req[p].room] = "gone")
    BY DEF IInv, PostedOK, ReqOK, Sound
  <2> QED  BY <1>5, <2>1
<1>8. RoomOK(r)'
  BY <1>2, <1>4, <1>5 DEF IInv, RoomOK, Owners
<1>9. \A s \in Rooms \ {r} : Same(s)
  BY <1>2, <1>4, <1>5 DEF Same
<1>10. IInv'
  BY <1>2, <1>3, <1>6, <1>7, <1>8, <1>9, RoomStep
<1> QED  BY <1>1, <1>9, <1>10

LEMMA BroadcastKeeps ==
  ASSUME IInv, NEW q \in Requests, Broadcast(q)
  PROVE  IInv' /\ req'[q].at = "ended" /\ UNCHANGED <<tables, past>>
<1>1. PICK r \in Rooms : r = req[q].room /\ (q \in posts[r] \/ life[r] = "gone")
  BY DEF IInv, ReqOK, Sound, Broadcast, PostedOK
<1>2. /\ ReqOK' /\ req'[q].at = "ended" /\ \A p \in Requests \ {q} : req'[p] = req[p]
      /\ UNCHANGED <<life, profile, code, role, posts, given, abdicated, overtaken, mixed>>
  BY EndStep DEF IInv, Broadcast, tables, past
<1>3. /\ heard' \in [Rooms -> SUBSET Requests] /\ heard'[r] \subseteq heard[r] \cup {q}
      /\ \A s \in Rooms \ {r} : heard'[s] = heard[s]
  BY <1>1 DEF IInv, Typed, Broadcast
<1>4. Typed'
  BY <1>2, <1>3 DEF IInv, Typed
<1>5. PostedOK'
  BY <1>2, PostedStep
<1>6. RoomOK(r)'
  BY <1>1, <1>2, <1>3 DEF IInv, RoomOK, Owners
<1>7. \A s \in Rooms \ {r} : Same(s)
  BY <1>2 DEF Same
<1>8. IInv'
  BY <1>2, <1>3, <1>4, <1>5, <1>6, <1>7, RoomStep
<1> QED  BY <1>2, <1>8 DEF tables, past

\* The steps that read, collide or are refused.
Reads(q) ==
  \/ Ask(q) \/ LoadRoom(q) \/ LoadMember(q) \/ LoadNoMember(q)
  \/ (\E c \in Codes : Collide(q, c))
  \/ Refuse(q)

LEMMA ReadsKeep ==
  ASSUME IInv, NEW q \in Requests, Reads(q)
  PROVE  IInv' /\ UNCHANGED <<tables, heard, past>>
<1>1. req[q] \in Req /\ Sound(req[q]) /\ ReqOK
  BY DEF IInv, ReqOK
<1>2. ASSUME NEW x \in Req, req' = [req EXCEPT ![q] = x], UNCHANGED <<tables, heard, past>>,
             x.room = req[q].room, x.user = req[q].user, x.target = req[q].target,
             x.role = req[q].role, x.patch = req[q].patch, x.code = req[q].code,
             x.op = req[q].op, x.at = "loaded", req[q].at \in {"checked", "loaded"}
      PROVE  IInv' /\ UNCHANGED <<tables, heard, past>> /\ req'[q].at = "loaded"
  <2>1. ReqOK' /\ req'[q] = x /\ \A p \in Requests \ {q} : req'[p] = req[p]
    BY <1>1, <1>2, LoadStep
  <2> QED  BY <1>2, <2>1, QuietStep
<1>3. CASE Ask(q)
  <2>1. /\ ReqOK' /\ req'[q].at = "checked" /\ \A p \in Requests \ {q} : req'[p] = req[p]
        /\ UNCHANGED <<tables, heard, past>>
    BY <1>1, <1>3, AskStep
  <2> QED  BY <2>1, QuietStep
<1>4. CASE LoadRoom(q)
  <2>1. req[q].room \in Rooms
    BY <1>1, <1>4 DEF Sound, LoadRoom
  <2>2. PICK f \in Patch, c \in Codes \cup {NoCode} :
          /\ f = IF req[q].op = "update" THEN profile[req[q].room] ELSE NoProfile
          /\ c = IF req[q].op = "delete" THEN NoCode ELSE code[req[q].room]
    BY <2>1, NoProfileIsPatch DEF IInv, Typed
  <2> DEFINE x == [req[q] EXCEPT !.at = "loaded", !.seenProfile = f, !.seenCode = c]
  <2>3. /\ x \in Req /\ x.at = "loaded" /\ x.room = req[q].room /\ x.user = req[q].user
        /\ x.target = req[q].target /\ x.role = req[q].role /\ x.patch = req[q].patch
        /\ x.code = req[q].code /\ x.op = req[q].op
    <3>1. ASSUME NEW a \in Req
          PROVE  /\ [a EXCEPT !.at = "loaded"] \in Req
                 /\ [a EXCEPT !.seenProfile = f] \in Req /\ [a EXCEPT !.seenCode = c] \in Req
      BY DEF Req
    <3>2. x = [[[req[q] EXCEPT !.at = "loaded"] EXCEPT !.seenProfile = f] EXCEPT !.seenCode = c]
      OBVIOUS
    <3>3. x \in Req
      BY <1>1, <3>1, <3>2
    <3> QED  BY <1>1, <3>3 DEF Req
  <2>4. /\ req' = [req EXCEPT ![q] = x] /\ req[q].at = "checked"
        /\ UNCHANGED <<tables, heard, past>>
    BY <1>1, <1>4, <2>2 DEF LoadRoom, Req, ReqOK
  <2> HIDE DEF x
  <2> QED  BY <1>2, <2>3, <2>4
<1>5. CASE LoadMember(q)
  <2> DEFINE x == [req[q] EXCEPT !.at = "loaded", !.seenRole = role[req[q].room][req[q].target]]
  <2>1. req[q].room \in Rooms /\ req[q].target \in Users
    BY <1>1, <1>5 DEF Sound, LoadMember
  <2>2. role[req[q].room][req[q].target] \in Roles \cup {NoRole}
    BY <2>1 DEF IInv, Typed
  <2>3. /\ x \in Req /\ x.at = "loaded" /\ x.room = req[q].room /\ x.user = req[q].user
        /\ x.target = req[q].target /\ x.role = req[q].role /\ x.patch = req[q].patch
        /\ x.code = req[q].code /\ x.op = req[q].op
    BY <1>1, <2>2 DEF Req
  <2>4. /\ req' = [req EXCEPT ![q] = x] /\ req[q].at = "checked"
        /\ UNCHANGED <<tables, heard, past>>
    BY <1>1, <1>5 DEF LoadMember, Req, ReqOK
  <2> HIDE DEF x
  <2> QED  BY <1>2, <2>3, <2>4
<1>6. CASE LoadNoMember(q)
  <2> DEFINE x == [req[q] EXCEPT !.at = "loaded"]
  <2>1. /\ x \in Req /\ x.at = "loaded" /\ x.room = req[q].room /\ x.user = req[q].user
        /\ x.target = req[q].target /\ x.role = req[q].role /\ x.patch = req[q].patch
        /\ x.code = req[q].code /\ x.op = req[q].op
    BY <1>1 DEF Req
  <2>2. /\ req' = [req EXCEPT ![q] = x] /\ req[q].at = "checked"
        /\ UNCHANGED <<tables, heard, past>>
    BY <1>1, <1>6 DEF LoadNoMember, Req, ReqOK
  <2> HIDE DEF x
  <2> QED  BY <1>2, <2>1, <2>2
<1>7. CASE \E c \in Codes : Collide(q, c)
  <2> DEFINE x == [req[q] EXCEPT !.tries = @ + 1]
  <2>1. /\ req' = [req EXCEPT ![q] = x] /\ req[q].at = "loaded" /\ req[q].tries < MaxAttempts
        /\ UNCHANGED <<tables, heard, past>>
    BY <1>1, <1>7 DEF Collide, Req, ReqOK
  <2>2. req[q].tries \in 0 .. MaxAttempts
    BY <1>1 DEF Req
  <2>3. req[q].tries + 1 \in 0 .. MaxAttempts
    BY <2>1, <2>2, RequestsAssumption
  <2>4. /\ x \in Req /\ x.at = "loaded" /\ x.room = req[q].room /\ x.user = req[q].user
        /\ x.target = req[q].target /\ x.role = req[q].role /\ x.patch = req[q].patch
        /\ x.code = req[q].code /\ x.op = req[q].op
    BY <1>1, <2>1, <2>3 DEF Req
  <2> HIDE DEF x
  <2> QED  BY <1>2, <2>1, <2>4
<1>8. CASE Refuse(q)
  <2>1. ReqOK' /\ req'[q].at = "ended" /\ \A p \in Requests \ {q} : req'[p] = req[p]
    BY <1>1, <1>8, EndStep DEF Refuse
  <2> QED  BY <1>8, <2>1, QuietStep DEF Refuse
<1> QED  BY <1>3, <1>4, <1>5, <1>6, <1>7, <1>8 DEF Reads

\* Every operation, with the room that it changes.
LEMMA InviteIs ==
  ASSUME IInv, NEW q \in Requests, Invite(q)
  PROVE  /\ req[q].op = "invite" /\ req[q].target \in Users /\ req[q].role \in Roles
         /\ Insert(q, req[q].target, req[q].role)
BY DEF IInv, ReqOK, Sound, Invite, Insert

LEMMA JoinIs ==
  ASSUME IInv, NEW q \in Requests, Join(q)
  PROVE  /\ req[q].op = "join" /\ req[q].user \in Users /\ req[q].code \in Codes
         /\ Insert(q, req[q].user, "MEMBER")
BY DEF IInv, ReqOK, Sound, Join, Insert

LEMMA AdvanceCases ==
  ASSUME NEW q \in Requests, Ask(q) \/ Advance(q)
  PROVE  \/ Reads(q) \/ Update(q) \/ Delete(q) \/ Invite(q) \/ Join(q) \/ ChangeRole(q)
         \/ (\E c \in Codes : SetCode(q, c)) \/ Post(q) \/ Broadcast(q)
BY DEF Advance, Reads

LEMMA Invariance == IInv /\ [Next]_vars => IInv'
<1> SUFFICES ASSUME IInv, [Next]_vars PROVE IInv'
  OBVIOUS
<1>1. ASSUME NEW r \in Rooms, NEW u \in Users, NEW n \in Created, Create(r, u, n)
      PROVE  IInv'
  BY <1>1, CreateKeeps
<1>2. ASSUME NEW q \in Requests, Ask(q) \/ Advance(q)
      PROVE  IInv'
  <2>1. CASE Reads(q)
    BY <2>1, ReadsKeep
  <2>2. CASE Update(q)
    BY <2>2, UpdateKeeps
  <2>3. CASE Delete(q)
    BY <2>3, DeleteKeeps
  <2>4. CASE Invite(q)
    BY <2>4, InviteIs, InsertKeeps
  <2>5. CASE Join(q)
    <3>1. "MEMBER" \in Roles
      BY DEF Roles
    <3> QED  BY <2>5, <3>1, JoinIs, InsertKeeps
  <2>6. CASE ChangeRole(q)
    BY <2>6, ChangeRoleKeeps
  <2>7. CASE \E c \in Codes : SetCode(q, c)
    BY <2>7, SetCodeKeeps
  <2>8. CASE Post(q)
    BY <2>8, PostKeeps
  <2>9. CASE Broadcast(q)
    BY <2>9, BroadcastKeeps
  <2> QED  BY <1>2, <2>1, <2>2, <2>3, <2>4, <2>5, <2>6, <2>7, <2>8, <2>9, AdvanceCases
<1>3. CASE UNCHANGED vars
  BY <1>3 DEF vars, IInv, Typed, ReqOK, PostedOK, RoomOK, Owners, Sound
<1> QED  BY <1>1, <1>2, <1>3 DEF Next

LEMMA Initially == Init => IInv
<1> SUFFICES ASSUME Init PROVE IInv
  OBVIOUS
<1>1. Typed
  BY NoProfileIsPatch DEF Init, Typed, Nobody
<1>2. ReqOK /\ PostedOK
  BY BlankSound DEF Init, ReqOK, PostedOK, Blank
<1>3. \A r \in Rooms : RoomOK(r)
  BY DEF Init, RoomOK, Nobody
<1> QED  BY <1>1, <1>2, <1>3 DEF IInv

LEMMA Always == Spec => []IInv
BY Initially, Invariance, PTL DEF Spec

-----------------------------------------------------------------------------
(***************************************************************************)
(* The invariants.                                                         *)
(***************************************************************************)

\* What the tables and the requests of rooms/ may hold.
THEOREM TypeCorrect == Spec => []TypeOK
<1>1. IInv => TypeOK
  BY DEF IInv, Typed, ReqOK, TypeOK
<1> QED  BY <1>1, Always, PTL

\* The code that generate_invite_code last told an OWNER is the room's.
THEOREM ToldCodeWorks == Spec => []GivenCodeWorks
<1>1. IInv => GivenCodeWorks
  BY DEF IInv, RoomOK, GivenCodeWorks
<1> QED  BY <1>1, Always, PTL

\* A deleted room leaves no members, messages or code behind (delete).
THEOREM NothingIsLeft == Spec => []NothingOutlivesRoom
<1>1. IInv => NothingOutlivesRoom
  BY DEF IInv, RoomOK, NothingOutlivesRoom
<1> QED  BY <1>1, Always, PTL

\* Nobody hears of a message that is not stored (broadcast_group_message).
THEOREM StoredFirst == Spec => []BroadcastIsStored
<1>1. IInv => BroadcastIsStored
  BY DEF IInv, RoomOK, BroadcastIsStored
<1> QED  BY <1>1, Always, PTL

\* A room without an OWNER lost it by its own doing or by one demoted meanwhile
\* (change_member_role).
THEOREM LastOwner == Spec => []OwnerlessIsExplained
<1>1. IInv => OwnerlessIsExplained
  BY DEF IInv, RoomOK, OwnerlessIsExplained
<1> QED  BY <1>1, Always, PTL

-----------------------------------------------------------------------------
(***************************************************************************)
(* Roles are kept.                                                         *)
(***************************************************************************)

LEMMA StepKeepsRoles ==
  ASSUME IInv, [Next]_vars, NEW r \in Rooms, NEW u \in Users
  PROVE  RoleIsKept(r, u)
<1>1. ASSUME role'[r][u] = role[r][u] \/ role[r][u] = NoRole \/ life'[r] = "gone"
      PROVE  RoleIsKept(r, u)
  BY <1>1 DEF RoleIsKept
<1>2. ASSUME NEW s \in Rooms, NEW v \in Users, NEW n \in Created, Create(s, v, n)
      PROVE  RoleIsKept(r, u)
  <2>1. role[s] = Nobody
    BY <1>2 DEF IInv, RoomOK, Create
  <2>2. role'[r] = role[r] \/ role[r] = Nobody
    BY <1>2, <2>1 DEF IInv, Typed, Create
  <2> QED  BY <1>1, <2>2 DEF Nobody
<1>3. ASSUME NEW q \in Requests, Ask(q) \/ Advance(q)
      PROVE  RoleIsKept(r, u)
  <2>1. CASE Reads(q)
    BY <1>1, <2>1, ReadsKeep DEF tables
  <2>2. CASE Update(q) \/ (\E c \in Codes : SetCode(q, c)) \/ Post(q)
    BY <1>1, <2>2 DEF Update, SetCode, Post
  <2>3. CASE Broadcast(q)
    BY <1>1, <2>3 DEF Broadcast, tables
  <2>4. CASE Delete(q)
    <3>1. req[q].room \in Rooms
      BY <2>4, DeleteKeeps
    <3>2. life'[r] = "gone" \/ role'[r] = role[r]
      BY <2>4, <3>1 DEF IInv, Typed, Delete
    <3> QED  BY <1>1, <3>2
  <2>5. ASSUME NEW v \in Users, NEW new \in Roles, Insert(q, v, new)
        PROVE  RoleIsKept(r, u)
    <3>1. req[q].room \in Rooms
      BY <2>5, InsertKeeps
    <3>2. role'[r][u] = role[r][u] \/ role[r][u] = NoRole
      BY <2>5, <3>1 DEF IInv, Typed, Insert
    <3> QED  BY <1>1, <3>2
  <2>6. CASE Invite(q)
    BY <2>5, <2>6, InviteIs
  <2>7. CASE Join(q)
    BY <2>5, <2>7, JoinIs DEF Roles
  <2>8. CASE ChangeRole(q)
    <3>1. req[q].room \in Rooms /\ req[q].target \in Users /\ req[q].op = "change"
      BY <2>8 DEF ChangeRole, IInv, ReqOK, Sound
    <3>2. req[q].at = "loaded" /\ req'[q].at = "ended"
      BY <2>8, EndStep DEF ChangeRole, IInv
    <3>3. CASE req[q].room = r /\ req[q].target = u
      <4>1. role'[r][u] = role[r][u] \/ role'[r][u] = req[q].role
        BY <2>8, <3>1, <3>3 DEF ChangeRole, IInv, Typed
      <4>2. CASE role'[r][u] = req[q].role
        BY <3>1, <3>2, <3>3, <4>2 DEF RoleIsKept, ChangesTo
      <4> QED  BY <1>1, <4>1, <4>2
    <3>4. CASE ~(req[q].room = r /\ req[q].target = u)
      <4>1. role'[r][u] = role[r][u]
        BY <2>8, <3>1, <3>4 DEF ChangeRole, IInv, Typed
      <4> QED  BY <1>1, <4>1
    <3> QED  BY <3>3, <3>4
  <2> QED  BY <1>3, <2>1, <2>2, <2>3, <2>4, <2>6, <2>7, <2>8, AdvanceCases
<1>4. CASE UNCHANGED vars
  BY <1>1, <1>4 DEF vars
<1> QED  BY <1>2, <1>3, <1>4 DEF Next

\* Invitations and joins never change the role that somebody has: only
\* change_member_role does, to the role it was asked for.
THEOREM RolesStay == Spec => RolesAreKept
<1>1. IInv /\ [Next]_vars => [\A r \in Rooms, u \in Users : RoleIsKept(r, u)]_vars
  BY StepKeepsRoles
<1> QED  BY <1>1, Always, PTL DEF Spec, RolesAreKept

-----------------------------------------------------------------------------
(***************************************************************************)
(* Edits are kept.                                                         *)
(***************************************************************************)

LEMMA UpdateEdits ==
  ASSUME IInv, NEW q \in Requests, Update(q), NEW r \in Rooms, NEW f \in Columns,
         profile'[r][f] # profile[r][f]
  PROVE  Edits(q, r, f)
<1>1. req[q].op = "update" /\ req[q].at = "loaded" /\ req[q].room \in Rooms
  BY DEF IInv, ReqOK, Sound, Update
<1>2. req'[q].at = "ended"
  BY EndStep DEF Update, IInv
<1>3. profile' = [profile EXCEPT ![req[q].room] = Stored(q)]
  BY DEF Update
<1>4. req[q].room = r /\ profile'[r] = Stored(q)
  BY <1>1, <1>3 DEF IInv, Typed
<1>5. f \in Sent(q) /\ profile'[r][f] = req[q].patch[f]
  BY <1>4 DEF Stored
<1> QED  BY <1>1, <1>2, <1>4, <1>5 DEF Edits, Sent

LEMMA StepKeepsEdits ==
  ASSUME IInv, [Next]_vars, NEW r \in Rooms, NEW f \in Columns
  PROVE  EditIsKept(r, f)
<1>1. ASSUME profile'[r] = profile[r] \/ life[r] # "live" \/ life'[r] # "live"
      PROVE  EditIsKept(r, f)
  BY <1>1 DEF EditIsKept
<1>2. ASSUME NEW s \in Rooms, NEW v \in Users, NEW n \in Created, Create(s, v, n)
      PROVE  EditIsKept(r, f)
  <2>1. profile'[r] = profile[r] \/ life[r] # "live"
    BY <1>2 DEF IInv, Typed, Create
  <2> QED  BY <1>1, <2>1
<1>3. ASSUME NEW q \in Requests, Ask(q) \/ Advance(q)
      PROVE  EditIsKept(r, f)
  <2>1. CASE Reads(q)
    BY <1>1, <2>1, ReadsKeep DEF tables
  <2>2. CASE Invite(q) \/ Join(q) \/ ChangeRole(q) \/ Post(q)
    BY <1>1, <2>2 DEF Invite, Join, Insert, ChangeRole, Post
  <2>3. CASE (\E c \in Codes : SetCode(q, c)) \/ Broadcast(q)
    BY <1>1, <2>3 DEF SetCode, Broadcast, tables
  <2>4. CASE Delete(q)
    <3>1. req[q].room \in Rooms
      BY <2>4, DeleteKeeps
    <3>2. life'[r] = "gone" \/ profile'[r] = profile[r]
      BY <2>4, <3>1 DEF IInv, Typed, Delete
    <3> QED  BY <1>1, <3>2
  <2>5. CASE Update(q)
    BY <2>5, UpdateEdits DEF EditIsKept
  <2> QED  BY <1>3, <2>1, <2>2, <2>3, <2>4, <2>5, AdvanceCases
<1>4. CASE UNCHANGED vars
  BY <1>1, <1>4 DEF vars
<1> QED  BY <1>2, <1>3, <1>4 DEF Next

\* A PATCH changes what it sets and nothing else: what another PATCH has stored
\* since it read the row stays (RoomService.update).
THEOREM EditsStay == Spec => EditsAreKept
<1>1. IInv /\ [Next]_vars => [\A r \in Rooms, f \in Columns : EditIsKept(r, f)]_vars
  BY StepKeepsEdits
<1> QED  BY <1>1, Always, PTL DEF Spec, EditsAreKept

-----------------------------------------------------------------------------
(***************************************************************************)
(* Overlapping requests implement operations of one step.                  *)
(***************************************************************************)

\* The roles and columns of RoomAccess are those of Rooms.
LEMMA SameRoles ==
  /\ Atomic!Nobody = Nobody /\ Atomic!NoRole = NoRole /\ Atomic!NoProfile = NoProfile
  /\ \A x, y : Atomic!AtLeast(x, y) <=> AtLeast(x, y)
BY DEF Atomic!Nobody, Nobody, Atomic!NoRole, NoRole, Atomic!NoProfile, NoProfile,
       Atomic!AtLeast, AtLeast, Atomic!Roles, Roles, Atomic!Rank, Rank

UnderWay(q) == req[q].at \in {"checked", "loaded"}

\* Request q is over, or has only its broadcast left.
Finished(q) ==
  /\ req'[q].at \in {"ended", "posted"}
  /\ \A p \in Requests \ {q} : req'[p] = req[p]

\* Request q has worked on room r and on no other.
Finishes(q, r) ==
  /\ r \in Rooms /\ r = req[q].room /\ req[q].user \in Users
  /\ UnderWay(q) /\ Finished(q)
  /\ \A s \in Rooms \ {r} : Same(s)

LEMMA OperationFinishes ==
  ASSUME IInv, NEW q \in Requests,
         \/ Update(q) \/ Delete(q) \/ Invite(q) \/ Join(q) \/ ChangeRole(q) \/ Post(q)
         \/ \E c \in Codes : SetCode(q, c)
  PROVE  Finishes(q, req[q].room)
<1>1. UnderWay(q)
  BY DEF UnderWay, Update, Delete, Invite, Join, Insert, ChangeRole, Post, SetCode
<1>2. req[q].room \in Rooms /\ req[q].user \in Users
  BY <1>1 DEF IInv, ReqOK, Sound, UnderWay
<1>3. Finished(q)
  <2>1. CASE Post(q)
    BY <2>1 DEF Post, IInv, ReqOK, Req, Finished
  <2>2. CASE ~Post(q)
    <3>1. End(q)
      BY <2>2 DEF Update, Delete, Invite, Join, Insert, ChangeRole, SetCode
    <3> QED  BY <3>1, EndStep DEF IInv, Finished
  <2> QED  BY <2>1, <2>2
<1>4. \A s \in Rooms \ {req[q].room} : Same(s)
  <2>1. "MEMBER" \in Roles
    BY DEF Roles
  <2> QED  BY <2>1, UpdateKeeps, DeleteKeeps, InviteIs, JoinIs, InsertKeeps, ChangeRoleKeeps,
              SetCodeKeeps, PostKeeps
<1> QED  BY <1>1, <1>2, <1>3, <1>4 DEF Finishes

LEMMA WantsNothing ==
  ASSUME NEW q \in Requests, Finished(q)
  PROVE  Wanted' = [Wanted EXCEPT ![q] = Wish(Blank)]
<1>1. Wanted'[q] = Wish(Blank) /\ \A p \in Requests \ {q} : Wanted'[p] = Wanted[p]
  BY DEF Finished, Wanted, Wish, Blank
<1>2. Wanted' = [p \in Requests |-> Wanted'[p]] /\ Wanted = [p \in Requests |-> Wanted[p]]
  BY DEF Wanted
<1> QED  BY <1>1, <1>2

\* A request that is refused or finds nothing to do.
LEMMA DropStep ==
  ASSUME NEW q \in Requests, Finished(q), UNCHANGED Shown
  PROVE  Atomic!Next
<1>1. Atomic!Drop(q)
  BY WantsNothing DEF Atomic!Drop
<1> QED  BY <1>1 DEF Atomic!Next

\* A request that has changed its room.
LEMMA DoStep ==
  ASSUME NEW q \in Requests, NEW r, Finishes(q, r), NEW x, Shown'[r] = x
  PROVE  /\ Atomic!Do(q, x)
         /\ Atomic!Its(q) = Shown[r]
         /\ Wanted[q].room = r
         /\ Wanted[q].op = req[q].op /\ Wanted[q].user = req[q].user
         /\ Wanted[q].target = req[q].target /\ Wanted[q].role = req[q].role
         /\ Wanted[q].patch = req[q].patch /\ Wanted[q].code = req[q].code
<1>1. /\ Wanted[q].room = r
      /\ Wanted[q].op = req[q].op /\ Wanted[q].user = req[q].user
      /\ Wanted[q].target = req[q].target /\ Wanted[q].role = req[q].role
      /\ Wanted[q].patch = req[q].patch /\ Wanted[q].code = req[q].code
  BY DEF Wanted, Wish, Finishes, UnderWay
<1>2. \A s \in Rooms \ {r} : Shown'[s] = Shown[s]
  BY DEF Finishes, Same, Shown, Unpromised
<1>3. Shown' = [s \in Rooms |-> Shown'[s]] /\ Shown = [s \in Rooms |-> Shown[s]]
  BY DEF Shown
<1>4. Shown' = [Shown EXCEPT ![r] = x]
  BY <1>2, <1>3 DEF Finishes
<1>5. Wanted' = [Wanted EXCEPT ![q] = Wish(Blank)]
  BY WantsNothing DEF Finishes
<1> QED  BY <1>1, <1>4, <1>5 DEF Atomic!Do, Atomic!Its

\* A room that is overtaken is promised nothing.
LEMMA OvertakenStep ==
  ASSUME NEW q \in Requests, NEW r, Finishes(q, r), r \in Unpromised'
  PROVE  Atomic!Next
<1>1. Shown'[r] = Atomic!Void
  BY SameRoles DEF Finishes, Shown, Atomic!Void, Atomic!Absent, Atomic!State
<1>2. Atomic!Overtaken(q)
  BY <1>1, DoStep DEF Atomic!Overtaken
<1> QED  BY <1>2 DEF Atomic!Next

\* Whoever is entitled to an operation of a room may do it there and then.
LEMMA EntitledMay ==
  ASSUME IInv, NEW q \in Requests, NEW r, Finishes(q, r), req[q].op # "join", Entitled(q),
         r \notin Unpromised
  PROVE  Atomic!May(q, Minimum[req[q].op]) /\ life[r] = "live"
<1>1. AtLeast(role[r][req[q].user], Minimum[req[q].op]) /\ r \in Rooms
  BY DEF Entitled, Finishes
<1>2. life[r] = "live"
  <2>1. role[r][req[q].user] \in Roles /\ req[q].user \in Users
    BY <1>1 DEF AtLeast, Finishes
  <2>2. role[r] # Nobody
    BY <2>1 DEF Nobody, Roles, NoRole
  <2> QED  BY <1>1, <2>2 DEF IInv, RoomOK
<1>3. Shown[r].life = life[r] /\ Shown[r].role = role[r]
  BY <1>1 DEF Shown
<1>4. Atomic!Its(q) = Shown[r] /\ Wanted[q].user = req[q].user
  BY DoStep
<1> QED  BY <1>1, <1>2, <1>3, <1>4, SameRoles DEF Atomic!May

LEMMA CreateImplements ==
  ASSUME IInv, NEW r \in Rooms, NEW u \in Users, NEW n \in Created, Create(r, u, n)
  PROVE  [Atomic!Next]_<<Shown, Wanted>>
<1>1. /\ \A s \in Rooms \ {r} : Shown'[s] = Shown[s]
      /\ Shown' = [s \in Rooms |-> Shown'[s]] /\ Shown = [s \in Rooms |-> Shown[s]]
  BY CreateKeeps DEF Same, Shown, Unpromised
<1>2. UNCHANGED <<Wanted, Unpromised>>
  BY DEF Create, past, Wanted, Unpromised
<1>3. CASE r \in Unpromised
  <2>1. Shown'[r] = Shown[r]
    BY <1>2, <1>3 DEF Shown
  <2> QED  BY <1>1, <1>2, <2>1
<1>4. CASE r \notin Unpromised
  <2>1. life[r] = "new" /\ code[r] = NoCode /\ posts[r] = {} /\ role[r] = Nobody
    BY DEF IInv, RoomOK, Create
  <2>2. /\ life'[r] = "live" /\ profile'[r] = n /\ code'[r] = NoCode /\ posts'[r] = {}
        /\ role'[r] = [Nobody EXCEPT ![u] = "OWNER"]
    BY <2>1 DEF IInv, Typed, Create
  <2>3. Shown'[r] = Atomic!State("live", n, NoCode, [Nobody EXCEPT ![u] = "OWNER"], {})
    BY <1>2, <1>4, <2>2 DEF Shown, Atomic!State
  <2>4. Shown[r].life = "new"
    BY <1>4, <2>1 DEF Shown
  <2>5. Atomic!Create(r, u, n)
    BY <1>1, <1>2, <2>3, <2>4, SameRoles DEF Atomic!Create
  <2> QED  BY <2>5 DEF Atomic!Next
<1> QED  BY <1>3, <1>4

\* An update that sends all that it sets and that still differs stores its patch.
LEMMA StoresPatch ==
  ASSUME NEW q \in Requests, ~Mixes(q)
  PROVE  Stored(q) = Atomic!Patched(profile[req[q].room], req[q].patch)
<1> SUFFICES ASSUME NEW f \in Columns
             PROVE  Stored(q)[f] = Atomic!Patched(profile[req[q].room], req[q].patch)[f]
  BY DEF Stored, Atomic!Patched
<1>1. CASE f \in Sent(q)
  BY <1>1 DEF Stored, Sent, Atomic!Patched
<1>2. CASE f \notin Sent(q)
  BY <1>2 DEF Stored, Mixes, Atomic!Patched
<1> QED  BY <1>1, <1>2

LEMMA UpdateImplements ==
  ASSUME IInv, NEW q \in Requests, Update(q)
  PROVE  Atomic!Next
<1>1. PICK r \in Rooms : r = req[q].room /\ Finishes(q, r)
  BY OperationFinishes DEF Finishes
<1>2. req[q].op = "update" /\ UNCHANGED <<life, code, role, posts>>
  BY DEF Update
<1>3. CASE UNCHANGED <<profile, overtaken, mixed>>
  <2>1. UNCHANGED Shown
    BY <1>2, <1>3 DEF Shown, Unpromised
  <2> QED  BY <1>1, <2>1, DropStep DEF Finishes
<1>4. CASE r \in Unpromised'
  BY <1>1, <1>4, OvertakenStep
<1>5. CASE /\ profile' = [profile EXCEPT ![r] = Stored(q)] /\ Witness(q)
           /\ mixed' = IF Mixes(q) THEN mixed \cup {r} ELSE mixed
           /\ r \notin Unpromised'
  <2>1. Entitled(q) /\ r \notin overtaken
    BY <1>1, <1>5, WitnessStep DEF Unpromised
  <2>2. ~Mixes(q) /\ r \notin mixed
    BY <1>5 DEF Unpromised
  <2>3. r \notin Unpromised
    BY <2>1, <2>2 DEF Unpromised
  <2>4. Atomic!May(q, "ADMIN")
    BY <1>1, <1>2, <2>1, <2>3, EntitledMay DEF Minimum
  <2>5. profile'[r] = Atomic!Patched(profile[r], req[q].patch)
    BY <1>1, <1>5, <2>2, StoresPatch DEF IInv, Typed
  <2>6. /\ Shown[r].profile = profile[r]
        /\ Shown'[r] = [Shown[r] EXCEPT !.profile = Atomic!Patched(profile[r], req[q].patch)]
    BY <1>2, <1>5, <2>3, <2>5 DEF Shown
  <2>7. /\ Atomic!Do(q, Shown'[r]) /\ Atomic!Its(q) = Shown[r]
        /\ Wanted[q].op = "update" /\ Wanted[q].patch = req[q].patch
    BY <1>1, <1>2, DoStep
  <2>8. Atomic!Update(q)
    BY <2>4, <2>6, <2>7 DEF Atomic!Update
  <2> QED  BY <2>8 DEF Atomic!Next
<1> QED  BY <1>1, <1>3, <1>4, <1>5 DEF Update

LEMMA DeleteImplements ==
  ASSUME IInv, NEW q \in Requests, Delete(q)
  PROVE  Atomic!Next
<1>1. PICK r \in Rooms : r = req[q].room /\ Finishes(q, r)
  BY OperationFinishes DEF Finishes
<1>2. CASE r \in Unpromised'
  BY <1>1, <1>2, OvertakenStep
<1>3. CASE r \notin Unpromised'
  <2>1. req[q].op = "delete" /\ Witness(q) /\ UNCHANGED mixed
    BY DEF Delete
  <2>2. Entitled(q) /\ r \notin Unpromised
    BY <1>1, <1>3, <2>1, WitnessStep DEF Unpromised
  <2>3. Atomic!May(q, "OWNER")
    BY <1>1, <2>1, <2>2, EntitledMay DEF Minimum
  <2>4. /\ life'[r] = "gone" /\ profile'[r] = NoProfile /\ code'[r] = NoCode
        /\ role'[r] = Nobody /\ posts'[r] = {}
    BY <1>1 DEF IInv, Typed, Delete
  <2>5. Shown'[r] = Atomic!Absent("gone")
    BY <1>3, <2>4, SameRoles DEF Shown, Atomic!Absent, Atomic!State
  <2>6. Atomic!Do(q, Atomic!Absent("gone")) /\ Wanted[q].op = "delete"
    BY <1>1, <2>1, <2>5, DoStep
  <2>7. Atomic!Delete(q)
    BY <2>3, <2>6 DEF Atomic!Delete
  <2> QED  BY <2>7 DEF Atomic!Next
<1> QED  BY <1>2, <1>3

\* What an insertion shows.
LEMMA InsertShows ==
  ASSUME IInv, NEW q \in Requests, NEW u \in Users, NEW new \in Roles, Insert(q, u, new),
         NEW r \in Rooms, r = req[q].room, r \notin Unpromised'
  PROVE  /\ Entitled(q) /\ r \notin Unpromised /\ life[r] = "live"
         /\ Shown[r].role[u] = NoRole /\ Shown'[r] = [Shown[r] EXCEPT !.role[u] = new]
<1>1. Entitled(q) /\ r \notin Unpromised
  BY WitnessStep DEF Insert, Unpromised
<1>2. /\ life[r] = "live" /\ role[r][u] = NoRole /\ UNCHANGED <<life, profile, code, posts>>
      /\ role'[r] = [role[r] EXCEPT ![u] = new]
  BY DEF Insert, IInv, Typed
<1>3. Shown[r].role[u] = NoRole
  BY <1>1, <1>2 DEF Shown
<1>4. Shown'[r] = [Shown[r] EXCEPT !.role[u] = new]
  BY <1>1, <1>2 DEF Shown
<1> QED  BY <1>1, <1>2, <1>3, <1>4

LEMMA InviteImplements ==
  ASSUME IInv, NEW q \in Requests, Invite(q)
  PROVE  Atomic!Next
<1>1. PICK t \in Users, new \in Roles :
        t = req[q].target /\ new = req[q].role /\ Insert(q, t, new)
  BY InviteIs
<1>2. PICK r \in Rooms : r = req[q].room /\ Finishes(q, r)
  BY OperationFinishes DEF Finishes
<1>3. CASE r \in Unpromised'
  BY <1>2, <1>3, OvertakenStep
<1>4. CASE r \notin Unpromised'
  <2>1. req[q].op = "invite"
    BY DEF Invite
  <2>2. /\ Entitled(q) /\ r \notin Unpromised
        /\ Shown[r].role[t] = NoRole /\ Shown'[r] = [Shown[r] EXCEPT !.role[t] = new]
    BY <1>1, <1>2, <1>4, InsertShows
  <2>3. Atomic!May(q, "ADMIN")
    BY <1>2, <2>1, <2>2, EntitledMay DEF Minimum
  <2>4. /\ Atomic!Do(q, Shown'[r]) /\ Atomic!Its(q) = Shown[r] /\ Wanted[q].op = "invite"
        /\ Wanted[q].target = t /\ Wanted[q].role = new
    BY <1>1, <1>2, <2>1, DoStep
  <2>5. Atomic!Invite(q)
    BY <2>2, <2>3, <2>4, SameRoles DEF Atomic!Invite
  <2> QED  BY <2>5 DEF Atomic!Next
<1> QED  BY <1>3, <1>4

LEMMA JoinImplements ==
  ASSUME IInv, NEW q \in Requests, Join(q)
  PROVE  Atomic!Next
<1>1. PICK u \in Users, c \in Codes :
        u = req[q].user /\ c = req[q].code /\ req[q].op = "join" /\ Insert(q, u, "MEMBER")
  BY JoinIs
<1>2. PICK new \in Roles : new = "MEMBER"
  BY DEF Roles
<1>3. PICK r \in Rooms : r = req[q].room /\ Finishes(q, r)
  BY OperationFinishes DEF Finishes
<1>4. CASE r \in Unpromised'
  BY <1>3, <1>4, OvertakenStep
<1>5. CASE r \notin Unpromised'
  <2>1. /\ Entitled(q) /\ r \notin Unpromised /\ life[r] = "live"
        /\ Shown[r].role[u] = NoRole /\ Shown'[r] = [Shown[r] EXCEPT !.role[u] = new]
    <3>1. Insert(q, u, new) /\ r \in Rooms
      BY <1>1, <1>2, <1>3 DEF Finishes
    <3> QED  BY <1>3, <1>5, <3>1, InsertShows
  <2>2. code[r] = c
    BY <1>1, <1>3, <2>1 DEF Entitled
  <2>3. Shown[r].life = "live" /\ Shown[r].code = c
    BY <2>1, <2>2 DEF Shown
  <2>4. /\ Atomic!Do(q, Shown'[r]) /\ Atomic!Its(q) = Shown[r] /\ Wanted[q].op = "join"
        /\ Wanted[q].user = u /\ Wanted[q].code = c
    BY <1>1, <1>3, DoStep
  <2>5. Atomic!Join(q)
    BY <1>2, <2>1, <2>3, <2>4, SameRoles DEF Atomic!Join
  <2> QED  BY <2>5 DEF Atomic!Next
<1> QED  BY <1>4, <1>5

LEMMA ChangeRoleImplements ==
  ASSUME IInv, NEW q \in Requests, ChangeRole(q)
  PROVE  Atomic!Next
<1>1. PICK r \in Rooms, t \in Users, new \in Roles :
        r = req[q].room /\ t = req[q].target /\ new = req[q].role /\ Finishes(q, r)
  BY OperationFinishes DEF Finishes, IInv, ReqOK, Sound, ChangeRole
<1>2. req[q].op = "change" /\ role[r][t] # NoRole /\ UNCHANGED <<life, profile, code, posts, mixed>>
  BY <1>1 DEF ChangeRole
<1>3. CASE UNCHANGED <<role, overtaken>>
  <2>1. UNCHANGED Shown
    BY <1>2, <1>3 DEF Shown, Unpromised
  <2> QED  BY <1>1, <2>1, DropStep DEF Finishes
<1>4. CASE r \in Unpromised'
  BY <1>1, <1>4, OvertakenStep
<1>5. CASE role' = [role EXCEPT ![r][t] = new] /\ Witness(q) /\ r \notin Unpromised'
  <2>1. Entitled(q) /\ r \notin Unpromised
    BY <1>1, <1>2, <1>5, WitnessStep DEF Unpromised
  <2>2. Atomic!May(q, "OWNER")
    BY <1>1, <1>2, <2>1, EntitledMay DEF Minimum
  <2>3. role'[r] = [role[r] EXCEPT ![t] = new]
    BY <1>5 DEF IInv, Typed
  <2>4. Shown[r].role[t] # NoRole
    BY <1>2, <2>1 DEF Shown
  <2>5. Shown'[r] = [Shown[r] EXCEPT !.role[t] = new]
    BY <1>2, <1>5, <2>1, <2>3 DEF Shown
  <2>6. /\ Atomic!Do(q, Shown'[r]) /\ Atomic!Its(q) = Shown[r] /\ Wanted[q].op = "change"
        /\ Wanted[q].target = t /\ Wanted[q].role = new
    BY <1>1, <1>2, DoStep
  <2>7. Atomic!ChangeRole(q)
    BY <2>2, <2>4, <2>5, <2>6, SameRoles DEF Atomic!ChangeRole
  <2> QED  BY <2>7 DEF Atomic!Next
<1> QED  BY <1>1, <1>3, <1>4, <1>5 DEF ChangeRole

LEMMA SetCodeImplements ==
  ASSUME IInv, NEW q \in Requests, NEW c \in Codes, SetCode(q, c)
  PROVE  Atomic!Next
<1>1. PICK r \in Rooms : r = req[q].room /\ Finishes(q, r)
  BY OperationFinishes DEF Finishes
<1>2. req[q].op = "code" /\ UNCHANGED <<life, profile, role, posts, mixed>>
  BY DEF SetCode
<1>3. CASE UNCHANGED <<code, overtaken>>
  <2>1. UNCHANGED Shown
    BY <1>2, <1>3 DEF Shown, Unpromised
  <2> QED  BY <1>1, <2>1, DropStep DEF Finishes
<1>4. CASE r \in Unpromised'
  BY <1>1, <1>4, OvertakenStep
<1>5. CASE code' = [code EXCEPT ![r] = c] /\ ~Taken(r, c) /\ Witness(q) /\ r \notin Unpromised'
  <2>1. Entitled(q) /\ r \notin Unpromised
    BY <1>1, <1>2, <1>5, WitnessStep DEF Unpromised
  <2>2. Atomic!May(q, "OWNER")
    BY <1>1, <1>2, <2>1, EntitledMay DEF Minimum
  <2>3. ASSUME NEW s \in Rooms \ {r}, Shown[s].life = "live"
        PROVE  Shown[s].code # c
    <3>1. s \notin Unpromised
      BY <2>3 DEF Shown
    <3>2. Shown[s].code = code[s]
      BY <3>1 DEF Shown
    <3> QED  BY <1>5, <3>2 DEF Taken
  <2>4. code'[r] = c
    BY <1>5 DEF IInv, Typed
  <2>5. Shown'[r] = [Shown[r] EXCEPT !.code = c]
    BY <1>2, <1>5, <2>1, <2>4 DEF Shown
  <2>6. /\ Atomic!Do(q, Shown'[r]) /\ Atomic!Its(q) = Shown[r] /\ Wanted[q].op = "code"
        /\ Wanted[q].room = r
    BY <1>1, <1>2, DoStep
  <2>7. Atomic!Regenerate(q, c)
    BY <2>2, <2>3, <2>5, <2>6 DEF Atomic!Regenerate
  <2> QED  BY <2>7 DEF Atomic!Next
<1> QED  BY <1>1, <1>3, <1>4, <1>5 DEF SetCode

LEMMA PostImplements ==
  ASSUME IInv, NEW q \in Requests, Post(q)
  PROVE  Atomic!Next
<1>1. PICK r \in Rooms : r = req[q].room /\ Finishes(q, r)
  BY OperationFinishes DEF Finishes
<1>2. CASE r \in Unpromised'
  BY <1>1, <1>2, OvertakenStep
<1>3. CASE r \notin Unpromised'
  <2>1. req[q].op = "post" /\ Witness(q) /\ UNCHANGED <<life, profile, code, role, mixed>>
    BY DEF Post
  <2>2. Entitled(q) /\ r \notin Unpromised
    BY <1>1, <1>3, <2>1, WitnessStep DEF Unpromised
  <2>3. Atomic!May(q, "MEMBER")
    BY <1>1, <2>1, <2>2, EntitledMay DEF Minimum
  <2>4. posts'[r] = posts[r] \cup {q}
    BY <1>1 DEF Post, IInv, Typed
  <2>5. Shown[r].posts = posts[r] /\ Shown'[r] = [Shown[r] EXCEPT !.posts = posts[r] \cup {q}]
    BY <1>3, <2>1, <2>2, <2>4 DEF Shown
  <2>6. Atomic!Do(q, Shown'[r]) /\ Atomic!Its(q) = Shown[r] /\ Wanted[q].op = "post"
    BY <1>1, <2>1, DoStep
  <2>7. Atomic!Post(q)
    BY <2>3, <2>5, <2>6 DEF Atomic!Post
  <2> QED  BY <2>7 DEF Atomic!Next
<1> QED  BY <1>2, <1>3

LEMMA ReadsImplement ==
  ASSUME IInv, NEW q \in Requests, Reads(q)
  PROVE  [Atomic!Next]_<<Shown, Wanted>>
<1>1. UNCHANGED Shown
  BY ReadsKeep DEF tables, past, Shown, Unpromised
<1>2. CASE Ask(q)
  <2>1. req[q].at = "new"
    BY <1>2, AskCases DEF Begin, BeginJoin
  <2>2. \A p \in Requests \ {q} : req'[p] = req[p]
    BY <1>2, AskStep DEF IInv
  <2>3. Wanted[q] = Wish(Blank) /\ \A p \in Requests \ {q} : Wanted'[p] = Wanted[p]
    BY <2>1, <2>2 DEF Wanted, Wish
  <2>4. Atomic!Ask(q)
    BY <1>1, <2>3 DEF Atomic!Ask
  <2> QED  BY <2>4 DEF Atomic!Next
<1>3. CASE Refuse(q)
  <2>1. Finished(q)
    BY <1>3, EndStep DEF IInv, Refuse, Finished
  <2> QED  BY <1>1, <2>1, DropStep
<1>4. CASE LoadRoom(q) \/ LoadMember(q) \/ LoadNoMember(q) \/ (\E c \in Codes : Collide(q, c))
  <2>1. req[q] \in Req /\ req \in [Requests -> Req]
    BY DEF IInv, ReqOK
  <2>2. UnderWay(q) /\ UnderWay(q)' /\ Wish(req'[q]) = Wish(req[q])
    <3>1. CASE LoadRoom(q)
      BY <2>1, <3>1 DEF LoadRoom, UnderWay, Wish, Req
    <3>2. CASE LoadMember(q)
      BY <2>1, <3>2 DEF LoadMember, UnderWay, Wish, Req
    <3>3. CASE LoadNoMember(q)
      BY <2>1, <3>3 DEF LoadNoMember, UnderWay, Wish, Req
    <3>4. CASE \E c \in Codes : Collide(q, c)
      BY <2>1, <3>4 DEF Collide, UnderWay, Wish, Req
    <3> QED  BY <1>4, <3>1, <3>2, <3>3, <3>4
  <2>3. \A p \in Requests \ {q} : req'[p] = req[p]
    BY <1>4, <2>1 DEF LoadRoom, LoadMember, LoadNoMember, Collide
  <2>4. \A p \in Requests : Wanted'[p] = Wanted[p]
    BY <2>2, <2>3 DEF Wanted, UnderWay, Wish
  <2>5. Wanted' = [p \in Requests |-> Wanted'[p]] /\ Wanted = [p \in Requests |-> Wanted[p]]
    BY DEF Wanted
  <2> QED  BY <1>1, <2>4, <2>5
<1> QED  BY <1>2, <1>3, <1>4 DEF Reads

LEMMA BroadcastImplements ==
  ASSUME IInv, NEW q \in Requests, Broadcast(q)
  PROVE  UNCHANGED <<Shown, Wanted>>
<1>1. UNCHANGED Shown
  BY BroadcastKeeps DEF tables, past, Shown, Unpromised
<1>2. /\ req[q].at = "posted" /\ req'[q].at = "ended"
      /\ \A p \in Requests \ {q} : req'[p] = req[p]
  BY EndStep DEF IInv, Broadcast
<1>3. UNCHANGED Wanted
  BY <1>2 DEF Wanted, Wish, Blank
<1> QED  BY <1>1, <1>3

LEMMA StepImplements ==
  ASSUME IInv, [Next]_vars
  PROVE  [Atomic!Next]_<<Shown, Wanted>>
<1>1. ASSUME NEW r \in Rooms, NEW u \in Users, NEW n \in Created, Create(r, u, n)
      PROVE  [Atomic!Next]_<<Shown, Wanted>>
  BY <1>1, CreateImplements
<1>2. ASSUME NEW q \in Requests, Ask(q) \/ Advance(q)
      PROVE  [Atomic!Next]_<<Shown, Wanted>>
  BY <1>2, AdvanceCases, ReadsImplement, BroadcastImplements, UpdateImplements,
     DeleteImplements, InviteImplements, JoinImplements, ChangeRoleImplements,
     SetCodeImplements, PostImplements
<1>3. CASE UNCHANGED vars
  BY <1>3 DEF vars, Shown, Unpromised, Wanted, Wish, Blank
<1> QED  BY <1>1, <1>2, <1>3 DEF Next

\* The requests of RoomService implement operations that are checked and done at
\* once, each as it was asked, except on a room that somebody changed who was not
\* entitled any more, or that a PATCH changed in part.
THEOREM ImplementsAtomicOperations == Spec => OperationsAreAtomic
<1>1. Init => Atomic!Init
  BY SameRoles DEF Init, Shown, Unpromised, Wanted, Blank, Atomic!Init, Atomic!Absent, Atomic!State
<1>2. IInv /\ [Next]_vars => [Atomic!Next]_<<Shown, Wanted>>
  BY StepImplements
<1> QED  BY <1>1, <1>2, Always, PTL DEF Spec, OperationsAreAtomic, Atomic!Spec
=============================================================================
