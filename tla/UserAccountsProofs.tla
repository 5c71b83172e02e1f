-------------------------- MODULE UserAccountsProofs --------------------------
(***************************************************************************)
(* Theorems about UserAccounts, for any number of people, requests,        *)
(* webhooks and errors.                                                    *)
(***************************************************************************)
EXTENDS UserAccounts, TLAPS

-----------------------------------------------------------------------------
(***************************************************************************)
(* The one shape of every write to users: one row, made or kept whole.     *)
(***************************************************************************)

Writes(u) ==
  /\ row' = [row EXCEPT ![u] = row'[u]]
  /\ row'[u] \in Row

RowStep == UNCHANGED row \/ \E u \in People : Writes(u)

\* What each session holds belongs to a person, and to one with a row once it
\* has seen the row.
CallsOK ==
  \A c \in Callers :
     /\ call[c].at # "idle" => call[c].user \in People
     /\ call[c].at = "missing" => call[c].email \in Address
     /\ call[c].at \in {"ready", "loaded"} => Exists(call[c].user)

HooksOK ==
  \A w \in Webhooks :
     /\ hook[w].at \in {"waiting", "absent", "found"} =>
           hook[w].user \in People /\ hook[w].email \in Emails
     /\ hook[w].at = "found" => Exists(hook[w].user)

KeysOK == \A k \in Keys : key[k] # NoPerson => Exists(key[k])

RowOK  == row \in [People -> Row \cup {NoRow}]
RestOK ==
  /\ key    \in [Keys -> People \cup {NoPerson}]
  /\ call   \in [Callers -> Call]
  /\ hook   \in [Webhooks -> Hook]
  /\ faults \in 0 .. MaxFaults

IInv == RowOK /\ RestOK /\ CallsOK /\ HooksOK /\ KeysOK

LEMMA NoRowIsNoRow == NoRow \notin Row
BY AddressAssumption DEF NoRow, Row, Address

LEMMA PlaceholderIsAddress == \A u \in People : Placeholder[u] \in Address
BY DEF Address, Placeholders

\* Such a write keeps the type and every row that is there.
LEMMA RowStepKeeps ==
  ASSUME RowOK, RowStep
  PROVE  /\ RowOK'
         /\ \A u \in People : Exists(u) => Exists(u)'
<1>1. CASE UNCHANGED row
  BY <1>1 DEF RowOK, Exists
<1>2. ASSUME NEW u \in People, Writes(u)
      PROVE  /\ RowOK'
             /\ \A v \in People : Exists(v) => Exists(v)'
  <2>1. /\ row'[u] \in Row /\ row'[u] # NoRow
        /\ \A v \in People \ {u} : row'[v] = row[v]
    BY <1>2, NoRowIsNoRow DEF Writes, RowOK
  <2>2. RowOK'
    BY <1>2, <2>1 DEF Writes, RowOK
  <2>3. \A v \in People : Exists(v) => Exists(v)'
    BY <2>1 DEF Exists
  <2> QED  BY <2>2, <2>3
<1> QED  BY <1>1, <1>2 DEF RowStep

-----------------------------------------------------------------------------
(***************************************************************************)
(* The steps of one request.                                               *)
(***************************************************************************)

CallStep(c) ==
  \/ \E u \in People, email \in Address : SignIn(c, u, email)
  \/ LazyInsert(c) \/ LoadProfile(c) \/ EndCall(c)
  \/ \E name \in Names \cup {NoName} : UpdateProfile(c, name)
  \/ \E k \in Keys : CreateKey(c, k)

LEMMA IdleType == Idle \in Call /\ Idle.at = "idle"
BY DEF Idle, Call

LEMMA LazyInsertWrites ==
  ASSUME IInv, NEW c \in Callers, LazyInsert(c)
  PROVE  /\ RowStep
         /\ row'[call[c].user] # NoRow
         /\ \A u \in People : Exists(u) => row'[u] = row[u]
<1> DEFINE u == call[c].user
           r == [email |-> call[c].email, name |-> NoName]
<1>1. u \in People /\ call[c].email \in Address /\ row \in [People -> Row \cup {NoRow}]
  BY DEF IInv, CallsOK, LazyInsert, RowOK
<1>2. r \in Row
  BY <1>1 DEF Row
<1>3. CASE Exists(u) /\ UNCHANGED row
  BY <1>3 DEF RowStep, Exists
<1>4. CASE ~Exists(u) /\ Free(u, call[c].email) /\ row' = [row EXCEPT ![u] = r]
  <2>1. row'[u] = r /\ \A v \in People \ {u} : row'[v] = row[v]
    BY <1>1, <1>4
  <2>2. row'[u] # NoRow
    BY <1>2, <2>1, NoRowIsNoRow
  <2>3. row'[u].email = call[c].email /\ row' = [row EXCEPT ![u] = row'[u]]
    BY <1>1, <1>4, <2>1
  <2>4. Writes(u)
    BY <1>2, <1>4, <2>1, <2>3 DEF Writes
  <2> HIDE DEF r
  <2> QED  BY <1>1, <1>4, <2>1, <2>2, <2>4 DEF RowStep, Exists
<1> QED  BY <1>3, <1>4 DEF LazyInsert

LEMMA UpdateWrites ==
  ASSUME IInv, NEW c \in Callers, NEW name \in Names \cup {NoName}, UpdateProfile(c, name)
  PROVE  /\ RowStep
         /\ \A u \in People \ {call[c].user} : row'[u] = row[u]
         /\ row'[call[c].user].email = row[call[c].user].email
<1> DEFINE u == call[c].user
<1>1. u \in People /\ row[u] \in Row /\ Exists(u) /\ call[c].seen \in Row \cup {NoRow}
  BY DEF IInv, CallsOK, UpdateProfile, RowOK, RestOK, Call, Exists
<1>2. Sent(row[u].name, call[c].seen.name, name) \in Names \cup {NoName}
  BY <1>1 DEF Sent, Row
<1> DEFINE n == Sent(row[u].name, call[c].seen.name, name)
<1>3. row' = [row EXCEPT ![u].name = n] /\ n \in Names \cup {NoName}
  BY <1>2 DEF UpdateProfile
<1> HIDE DEF n
<1>4. /\ row'[u] = [row[u] EXCEPT !.name = n] /\ row' = [row EXCEPT ![u] = row'[u]]
      /\ \A v \in People \ {u} : row'[v] = row[v]
  BY <1>1, <1>3 DEF IInv, RowOK
<1>5. row'[u] \in Row /\ row'[u].email = row[u].email
  BY <1>1, <1>3, <1>4 DEF Row
<1>6. Writes(u)
  BY <1>1, <1>4, <1>5 DEF Writes
<1> QED  BY <1>1, <1>4, <1>5, <1>6 DEF RowStep

LEMMA CallWrites ==
  ASSUME IInv, NEW c \in Callers, CallStep(c)
  PROVE  RowStep
BY LazyInsertWrites, UpdateWrites
   DEF CallStep, SignIn, LoadProfile, EndCall, CreateKey, RowStep

LEMMA CallKeeps ==
  ASSUME IInv, NEW c \in Callers, CallStep(c)
  PROVE  IInv'
<1>a. /\ RowOK' /\ \A u \in People : Exists(u) => Exists(u)'
  BY CallWrites, RowStepKeeps DEF IInv
<1>b. /\ call \in [Callers -> Call] /\ CallsOK /\ RestOK /\ KeysOK /\ HooksOK /\ RowOK
  BY DEF IInv, RestOK
<1>c. UNCHANGED <<hook, faults>>
  BY DEF CallStep, SignIn, LazyInsert, LoadProfile, EndCall, UpdateProfile, CreateKey
<1>d. HooksOK'
  BY <1>a, <1>b, <1>c DEF HooksOK
<1>1. ASSUME NEW u \in People, NEW email \in Address, SignIn(c, u, email)
      PROVE  IInv'
  <2>1. call'[c] \in Call /\ call' = [call EXCEPT ![c] = call'[c]]
    BY <1>1, <1>b DEF SignIn, Idle, Call
  <2>2. /\ call'[c].user = u
        /\ \/ call'[c].at = "ready" /\ Exists(u)
           \/ call'[c].at = "missing" /\ call'[c].email = email
    BY <1>1, <1>b DEF SignIn, Idle
  <2>3. CallsOK'
    BY <1>1, <1>a, <1>b, <2>1, <2>2 DEF CallsOK
  <2>4. RestOK' /\ KeysOK'
    BY <1>1, <1>a, <1>b, <2>1 DEF SignIn, RestOK, KeysOK, Exists
  <2> QED  BY <1>a, <1>d, <2>3, <2>4 DEF IInv
<1>2. CASE LazyInsert(c)
  <2>1. /\ call'[c] = [call[c] EXCEPT !.at = "ready", !.email = NoPerson]
        /\ \A v \in Callers \ {c} : call'[v] = call[v]
        /\ call' = [call EXCEPT ![c] = call'[c]]
    BY <1>2, <1>b DEF LazyInsert
  <2>2. /\ call'[c] \in Call /\ call'[c].at = "ready" /\ call'[c].user = call[c].user
        /\ call[c].user \in People
    BY <1>2, <1>b, <2>1 DEF Call, CallsOK, LazyInsert
  <2>3. row'[call[c].user] # NoRow /\ UNCHANGED key
    BY <1>2, LazyInsertWrites DEF LazyInsert
  <2>4. CallsOK'
    BY <1>a, <1>b, <2>1, <2>2, <2>3 DEF CallsOK, Exists
  <2>5. RestOK' /\ KeysOK'
    BY <1>a, <1>b, <1>c, <2>1, <2>2, <2>3 DEF RestOK, KeysOK, Exists
  <2> QED  BY <1>a, <1>d, <2>4, <2>5 DEF IInv
<1>3. CASE LoadProfile(c)
  <2>1. /\ call'[c].at = "loaded" /\ call'[c].user = call[c].user
        /\ call'[c] \in Call /\ UNCHANGED <<row, key>>
        /\ call' = [call EXCEPT ![c] = call'[c]]
        /\ call[c].user \in People
    BY <1>3, <1>b DEF LoadProfile, Call, CallsOK, RowOK
  <2>2. \A v \in Callers \ {c} : call'[v] = call[v]
    BY <1>b, <2>1
  <2>3. CallsOK'
    BY <1>3, <1>a, <1>b, <2>1, <2>2 DEF CallsOK, LoadProfile
  <2>4. RestOK' /\ KeysOK'
    BY <1>b, <1>c, <2>1 DEF RestOK, KeysOK, Exists
  <2> QED  BY <1>a, <1>d, <2>3, <2>4 DEF IInv
<1>4. CASE EndCall(c) \/ \E name \in Names \cup {NoName} : UpdateProfile(c, name)
  <2>1. call' = [call EXCEPT ![c] = Idle] /\ UNCHANGED key
    BY <1>4 DEF EndCall, UpdateProfile
  <2>2. /\ call'[c].at = "idle" /\ call' \in [Callers -> Call]
        /\ \A v \in Callers \ {c} : call'[v] = call[v]
    BY <1>b, <2>1, IdleType
  <2>3. CallsOK'
    BY <1>a, <1>b, <2>2 DEF CallsOK
  <2>4. RestOK' /\ KeysOK'
    BY <1>a, <1>b, <1>c, <2>1, <2>2 DEF RestOK, KeysOK
  <2> QED  BY <1>a, <1>d, <2>3, <2>4 DEF IInv
<1>5. ASSUME NEW k \in Keys, CreateKey(c, k)
      PROVE  IInv'
  <2>1. call' = [call EXCEPT ![c] = Idle] /\ key' = [key EXCEPT ![k] = call[c].user]
    BY <1>5 DEF CreateKey
  <2>2. /\ call'[c].at = "idle" /\ call' \in [Callers -> Call]
        /\ \A v \in Callers \ {c} : call'[v] = call[v]
    BY <1>b, <2>1, IdleType
  <2>3. CallsOK'
    BY <1>a, <1>b, <2>2 DEF CallsOK
  <2>4. call[c].user \in People /\ Exists(call[c].user)
    BY <1>5, <1>b DEF CreateKey, CallsOK
  <2>5. RestOK' /\ KeysOK'
    BY <1>a, <1>b, <1>c, <2>1, <2>2, <2>4 DEF RestOK, KeysOK
  <2> QED  BY <1>a, <1>d, <2>3, <2>5 DEF IInv
<1> QED  BY <1>1, <1>2, <1>3, <1>4, <1>5 DEF CallStep

-----------------------------------------------------------------------------
(***************************************************************************)
(* The steps of one webhook.                                               *)
(***************************************************************************)

HookStep(w) ==
  \/ \E u \in People, email \in Emails, name \in Names \cup LongNames \cup {NoName} :
       Send(w, u, email, name)
  \/ Sync(w)
  \/ SyncFault(w)

LEMMA HookTypes ==
  ASSUME IInv, NEW w \in Webhooks, hook[w].at \in {"waiting", "absent", "found"}
  PROVE  /\ hook[w].user \in People /\ hook[w].email \in Emails /\ hook[w].email \in Address
         /\ hook[w].name \in Names \cup LongNames \cup {NoName} /\ hook[w].seen \in Row \cup {NoRow}
         /\ row[hook[w].user] \in Row \cup {NoRow}
BY DEF IInv, HooksOK, RestOK, RowOK, Hook, Address

LEMMA InsertWrites ==
  ASSUME IInv, NEW w \in Webhooks, SyncInsert(w)
  PROVE  RowStep /\ \A u \in People : Exists(u) => row'[u] = row[u]
<1> DEFINE u == hook[w].user
           r == [email |-> hook[w].email, name |-> hook[w].name]
<1>1. /\ u \in People /\ hook[w].email \in Address /\ hook[w].name \in Names \cup {NoName}
      /\ row \in [People -> Row \cup {NoRow}]
  BY HookTypes DEF SyncInsert, CanInsert, IInv, RowOK
<1>2. r \in Row /\ r.email = hook[w].email
  BY <1>1 DEF Row
<1>3. row' = [row EXCEPT ![u] = r] /\ ~Exists(u) /\ Free(u, hook[w].email)
  BY DEF SyncInsert, CanInsert
<1> HIDE DEF r
<1>4. row'[u] = r /\ row' = [row EXCEPT ![u] = row'[u]] /\ \A v \in People \ {u} : row'[v] = row[v]
  BY <1>1, <1>3
<1>5. Writes(u)
  BY <1>2, <1>3, <1>4 DEF Writes
<1> QED  BY <1>1, <1>3, <1>4, <1>5 DEF RowStep

LEMMA SyncUpdateWrites ==
  ASSUME IInv, NEW w \in Webhooks, SyncUpdate(w)
  PROVE  /\ RowStep
         /\ \A u \in People \ {hook[w].user} : row'[u] = row[u]
         /\ row'[hook[w].user].email \in {row[hook[w].user].email, hook[w].email}
         /\ \/ row'[hook[w].user].name = row[hook[w].user].name
            \/ row'[hook[w].user].name = hook[w].name /\ hook[w].name # NoName
<1> DEFINE u == hook[w].user
           r == [email |-> NewEmail(w), name |-> NewName(w)]
<1>1. /\ u \in People /\ hook[w].email \in Address
      /\ hook[w].name \in Names \cup LongNames \cup {NoName}
      /\ row \in [People -> Row \cup {NoRow}] /\ row[u] \in Row
  BY HookTypes DEF SyncUpdate, IInv, RowOK, HooksOK, Exists
<1>2. /\ NewEmail(w) \in {row[u].email, hook[w].email}
      /\ NewName(w) = row[u].name \/ (NewName(w) = hook[w].name /\ hook[w].name # NoName)
  BY DEF NewEmail, NewName, Sent
<1>3. NewEmail(w) \in Address /\ NewName(w) \in Names \cup {NoName}
  BY <1>1, <1>2 DEF Row, SyncUpdate, CanUpdate
<1>4. r \in Row /\ r.email = NewEmail(w) /\ r.name = NewName(w)
  BY <1>3 DEF Row
<1>5. row' = [row EXCEPT ![u] = r] /\ Free(u, NewEmail(w))
  BY DEF SyncUpdate, CanUpdate
<1> HIDE DEF r
<1>6. row'[u] = r /\ row' = [row EXCEPT ![u] = row'[u]] /\ \A v \in People \ {u} : row'[v] = row[v]
  BY <1>1, <1>5
<1>7. Writes(u)
  BY <1>4, <1>5, <1>6 DEF Writes
<1> QED  BY <1>1, <1>2, <1>4, <1>6, <1>7 DEF RowStep

\* The delivery w goes on to a sound state; the others stay where they are.
HooksOn(w) ==
  /\ hook'[w] \in Hook /\ hook' = [hook EXCEPT ![w] = hook'[w]]
  /\ hook'[w].at \in {"waiting", "absent", "found"} =>
        hook'[w].user \in People /\ hook'[w].email \in Emails
  /\ hook'[w].at = "found" => Exists(hook'[w].user)

LEMMA HookKeeps ==
  ASSUME IInv, NEW w \in Webhooks, HookStep(w)
  PROVE  IInv'
<1>1. RowStep
  BY InsertWrites, SyncUpdateWrites
     DEF HookStep, Send, Sync, SyncGet, SyncRefused, SyncFault, RowStep
<1>a. /\ RowOK' /\ \A u \in People : Exists(u) => Exists(u)'
  BY <1>1, RowStepKeeps DEF IInv
<1>b. /\ hook \in [Webhooks -> Hook] /\ CallsOK /\ RestOK /\ KeysOK /\ HooksOK
      /\ key \in [Keys -> People \cup {NoPerson}]
  BY DEF IInv, RestOK
<1>c. UNCHANGED <<key, call>> /\ faults' \in 0 .. MaxFaults
  BY <1>b, FaultAssumption
     DEF HookStep, Send, Sync, SyncGet, SyncInsert, SyncUpdate, SyncRefused, SyncFault, RestOK
<1>2. HooksOn(w)
  <2> USE DEF HooksOn
  <2>1. ASSUME NEW u \in People, NEW email \in Emails,
               NEW name \in Names \cup LongNames \cup {NoName},
               Send(w, u, email, name)
        PROVE  HooksOn(w)
    <3> DEFINE h == [at |-> "waiting", user |-> u, email |-> email, name |-> name, seen |-> NoRow]
    <3>1. h \in Hook /\ h.at = "waiting" /\ h.user = u /\ h.email = email
      BY DEF Hook
    <3>2. hook' = [hook EXCEPT ![w] = h]
      BY <2>1 DEF Send
    <3> HIDE DEF h
    <3> QED  BY <1>b, <3>1, <3>2
  <2>2. CASE SyncGet(w)
    <3>1. /\ hook[w].user \in People /\ hook[w].email \in Emails
          /\ row[hook[w].user] \in Row \cup {NoRow} /\ hook[w] \in Hook
      BY <1>b, <2>2, HookTypes DEF SyncGet
    <3> DEFINE a == IF Exists(hook[w].user) THEN "found" ELSE "absent"
    <3>2. a \in {"found", "absent"} /\ (a = "found" => Exists(hook[w].user))
      OBVIOUS
    <3>3. hook' = [hook EXCEPT ![w].at = a, ![w].seen = row[hook[w].user]]
      BY <2>2 DEF SyncGet
    <3> HIDE DEF a
    <3>4. hook'[w] = [hook[w] EXCEPT !.at = a, !.seen = row[hook[w].user]]
      BY <1>b, <3>3
    <3>5. hook'[w] \in Hook /\ hook'[w].at = a /\ hook'[w].user = hook[w].user
          /\ hook'[w].email = hook[w].email
      BY <3>1, <3>2, <3>4 DEF Hook
    <3>6. hook' = [hook EXCEPT ![w] = hook'[w]]
      BY <1>b, <3>3
    <3> QED  BY <3>1, <3>2, <3>5, <3>6
  <2>3. CASE Done(w)
    <3> DEFINE h == [Unsent EXCEPT !.at = "done"]
    <3>1. h \in Hook /\ h.at = "done"
      BY DEF Unsent, Hook
    <3>2. hook' = [hook EXCEPT ![w] = h]
      BY <2>3 DEF Done
    <3> HIDE DEF h
    <3> QED  BY <1>b, <3>1, <3>2
  <2>4. CASE hook[w].at \in {"absent", "found"} /\ Redelivered(w)
    <3>1. hook[w].user \in People /\ hook[w].email \in Emails /\ hook[w] \in Hook
      BY <1>b, <2>4, HookTypes
    <3>2. hook'[w] = [hook[w] EXCEPT !.at = "waiting", !.seen = NoRow]
          /\ hook' = [hook EXCEPT ![w] = hook'[w]]
      BY <1>b, <2>4 DEF Redelivered
    <3>3. hook'[w] \in Hook /\ hook'[w].at = "waiting" /\ hook'[w].user = hook[w].user
          /\ hook'[w].email = hook[w].email
      BY <3>1, <3>2 DEF Hook
    <3> QED  BY <3>1, <3>2, <3>3
  <2> QED  BY <2>1, <2>2, <2>3, <2>4
              DEF HookStep, Sync, SyncInsert, SyncUpdate, SyncRefused, SyncFault
<1>3. \A v \in Webhooks \ {w} : hook'[v] = hook[v]
  BY <1>b, <1>2 DEF HooksOn
<1>4. CASE UNCHANGED row
  <2>1. HooksOK'
    BY <1>b, <1>2, <1>3, <1>4 DEF HooksOn, HooksOK, Exists
  <2> QED  BY <1>a, <1>b, <1>c, <1>2, <1>4, <2>1 DEF HooksOn, IInv, RestOK, CallsOK, KeysOK, Exists
<1>5. CASE SyncInsert(w) \/ SyncUpdate(w)
  <2>1. hook'[w].at = "done"
    BY <1>b, <1>5 DEF SyncInsert, SyncUpdate, Done, Unsent
  <2>2. HooksOK'
    BY <1>a, <1>b, <1>2, <1>3, <2>1 DEF HooksOn, HooksOK
  <2>3. CallsOK'
    BY <1>a, <1>b, <1>c DEF CallsOK
  <2>4. RestOK' /\ KeysOK'
    BY <1>a, <1>b, <1>c, <1>2 DEF HooksOn, RestOK, KeysOK
  <2> QED  BY <1>a, <2>2, <2>3, <2>4 DEF IInv
<1> QED  BY <1>4, <1>5 DEF HookStep, Send, Sync, SyncGet, SyncRefused, SyncFault

-----------------------------------------------------------------------------
LEMMA InitInv == Init => IInv
<1> SUFFICES ASSUME Init PROVE IInv
  OBVIOUS
<1>1. RowOK
  BY DEF Init, RowOK
<1>2. RestOK
  BY FaultAssumption DEF Init, RestOK, Idle, Call, Unsent, Hook
<1>3. CallsOK /\ HooksOK /\ KeysOK
  BY DEF Init, CallsOK, HooksOK, KeysOK, Idle, Unsent
<1> QED  BY <1>1, <1>2, <1>3 DEF IInv

LEMMA NextInv == IInv /\ [Next]_vars => IInv'
<1> SUFFICES ASSUME IInv, [Next]_vars PROVE IInv'
  OBVIOUS
<1>1. ASSUME NEW c \in Callers, CallStep(c) PROVE IInv'
  BY <1>1, CallKeeps
<1>2. ASSUME NEW w \in Webhooks, HookStep(w) PROVE IInv'
  BY <1>2, HookKeeps
<1>3. CASE UNCHANGED vars
  BY <1>3 DEF vars, IInv, RowOK, RestOK, CallsOK, HooksOK, KeysOK, Exists
<1> QED  BY <1>1, <1>2, <1>3 DEF Next, CallStep, HookStep

\* Every reachable state is well typed (models.User, sync_from_supabase).
THEOREM TypeCorrect == Spec => []TypeOK
<1>1. IInv => TypeOK
  BY DEF IInv, TypeOK, RowOK, RestOK
<1> QED  BY <1>1, InitInv, NextInv, PTL DEF Spec

\* Whoever got past the verification, or holds a key, has a row for the foreign
\* keys to point at (_ensure_user_row, create_api_key).
THEOREM CallersHaveRows == Spec => []CallerHasRow
<1>1. IInv => CallerHasRow
  BY DEF IInv, CallerHasRow, CallsOK, KeysOK
<1> QED  BY <1>1, InitInv, NextInv, PTL DEF Spec

-----------------------------------------------------------------------------
(***************************************************************************)
(* What a step may do to a row that is there already.                      *)
(***************************************************************************)

LEMMA OnlyMeant ==
  ASSUME IInv, [Next]_vars, NEW u \in People, Exists(u)
  PROVE  EmailMeant(u) /\ NameMeant(u)
<1>0. row'[u] = row[u] => EmailMeant(u) /\ NameMeant(u)
  BY DEF EmailMeant, NameMeant
<1>1. ASSUME NEW c \in Callers, NEW name \in Names \cup {NoName}, UpdateProfile(c, name)
      PROVE  EmailMeant(u) /\ NameMeant(u)
  <2>1. call[c].at = "loaded" /\ call'[c] = Idle
    BY <1>1 DEF UpdateProfile, IInv, RestOK
  <2>2. CASE call[c].user = u
    BY <1>1, <2>1, <2>2, UpdateWrites DEF EmailMeant, NameMeant
  <2>3. CASE call[c].user # u
    BY <1>0, <1>1, <2>3, UpdateWrites
  <2> QED  BY <2>2, <2>3
<1>2. ASSUME NEW c \in Callers, LazyInsert(c)
      PROVE  EmailMeant(u) /\ NameMeant(u)
  BY <1>0, <1>2, LazyInsertWrites
<1>3. ASSUME NEW w \in Webhooks, SyncInsert(w)
      PROVE  EmailMeant(u) /\ NameMeant(u)
  BY <1>0, <1>3, InsertWrites
<1>4. ASSUME NEW w \in Webhooks, SyncUpdate(w)
      PROVE  EmailMeant(u) /\ NameMeant(u)
  <2>1. hook[w].at = "found" /\ hook'[w].at = "done"
    BY <1>4 DEF SyncUpdate, Done, Unsent, IInv, RestOK
  <2>2. CASE hook[w].user = u
    <3>1. row'[u].email \in {row[u].email, hook[w].email}
      BY <1>4, <2>2, SyncUpdateWrites
    <3>2. \/ row'[u].name = row[u].name
          \/ row'[u].name = hook[w].name /\ hook[w].name # NoName
      BY <1>4, <2>2, SyncUpdateWrites
    <3> QED  BY <2>1, <2>2, <3>1, <3>2 DEF EmailMeant, NameMeant
  <2>3. CASE hook[w].user # u
    BY <1>0, <1>4, <2>3, SyncUpdateWrites
  <2> QED  BY <2>2, <2>3
<1>5. CASE UNCHANGED row
  BY <1>0, <1>5
<1> QED  BY <1>1, <1>2, <1>3, <1>4, <1>5
         DEF Next, Sync, SignIn, LoadProfile, EndCall, CreateKey, Send, SyncGet, SyncRefused,
             SyncFault, vars

\* The lazy insert, a PATCH and a late webhook undo nothing they do not mean to
\* (update_profile, sync_from_supabase).
THEOREM NothingUndone == Spec => NothingIsUndone
<1>1. IInv /\ [Next]_vars =>
        [\A u \in People : Exists(u) => EmailMeant(u) /\ NameMeant(u)]_vars
  BY OnlyMeant
<1> QED  BY <1>1, InitInv, NextInv, PTL DEF Spec, NothingIsUndone
=============================================================================
