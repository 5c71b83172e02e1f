----------------------------- MODULE UserAccounts ------------------------------
(***************************************************************************)
(* How a person gets and keeps a users row: the sign-up webhook            *)
(* (sync_from_supabase), the lazy insert of the first authenticated        *)
(* request (_ensure_user_row), and what requests then do with the row.     *)
(*                                                                         *)
(* A step is a SELECT or a flush with its commit; between two steps of one *)
(* session any other may commit.  The ORM sends an UPDATE only for columns *)
(* whose value differs from the one read.  Rows are never deleted.         *)
(*                                                                         *)
(* An operator introduced by "Slip:" is no part of the specification but a *)
(* mistaken form of the definition after it.                               *)
(***************************************************************************)
EXTENDS Naturals

CONSTANTS
  People,       \* ids of Supabase's auth.users
  Emails,       \* addresses Supabase sends, in a payload or a token
  Placeholder,  \* the synthetic address of each person, for tokens without one
  Names,        \* names a person may give
  LongNames,    \* names that users.name has no room for, which a webhook may bring
  NoName,       \* name of a row or a payload without one
  Keys,         \* API keys that can be drawn
  Callers,      \* authenticated requests under way at once
  Webhooks,     \* sign-up webhooks, each delivered until it succeeds
  NoPerson,
  MaxFaults     \* bound on errors without a cause in the model

Placeholders == {Placeholder[u] : u \in People}

ASSUME PeopleAssumption == NoPerson \notin People
ASSUME AddressAssumption ==
  /\ Placeholder \in [People -> Placeholders]
  /\ \A u, v \in People : Placeholder[u] = Placeholder[v] => u = v
  /\ Placeholders \cap Emails = {} /\ NoPerson \notin Emails \cup Placeholders
ASSUME NameAssumption  == NoName \notin Names \cup LongNames /\ Names \cap LongNames = {}
ASSUME FaultAssumption == MaxFaults \in Nat

VARIABLES
  row,      \* the committed users row of each person, or NoRow
  key,      \* whose each API key is
  call,     \* what each authenticated request is doing
  hook,     \* what each webhook delivery is doing
  faults    \* such errors so far

vars == <<row, key, call, hook, faults>>

Address == Emails \cup Placeholders
Row     == [email : Address, name : Names \cup {NoName}]
NoRow   == [email |-> NoPerson, name |-> NoName]

Call == [at : {"idle", "missing", "ready", "loaded"}, user : People \cup {NoPerson},
         email : Address \cup {NoPerson}, seen : Row \cup {NoRow}]
Idle == [at |-> "idle", user |-> NoPerson, email |-> NoPerson, seen |-> NoRow]

Hook == [at : {"unsent", "waiting", "absent", "found", "done"},
         user : People \cup {NoPerson}, email : Emails \cup {NoPerson},
         name : Names \cup LongNames \cup {NoName}, seen : Row \cup {NoRow}]
Unsent == [at |-> "unsent", user |-> NoPerson, email |-> NoPerson,
           name |-> NoName, seen |-> NoRow]

Exists(u) == row[u] # NoRow

Init ==
  /\ row    = [u \in People |-> NoRow]
  /\ key    = [k \in Keys |-> NoPerson]
  /\ call   = [c \in Callers |-> Idle]
  /\ hook   = [w \in Webhooks |-> Unsent]
  /\ faults = 0

\* The unique index on users.email.
Free(u, email) == \A v \in People \ {u} : row[v].email # email

-----------------------------------------------------------------------------
(***************************************************************************)
(* Authenticated requests.                                                 *)
(***************************************************************************)

\* The token is verified; the row is looked for.  A token may carry no address.
SignIn(c, u, email) ==
  /\ call[c] = Idle
  /\ email \in Emails \cup {Placeholder[u]}
  /\ call' = [call EXCEPT ![c] =
                IF Exists(u) THEN [Idle EXCEPT !.at = "ready", !.user = u]
                ELSE [Idle EXCEPT !.at = "missing", !.user = u, !.email = email]]
  /\ UNCHANGED <<row, key, hook, faults>>

\* Slip: ON CONFLICT DO NOTHING, whatever the conflict.
LazyInsertAnyConflict(c) ==
  LET u == call[c].user IN
  /\ call[c].at = "missing"
  /\ IF ~Exists(u) /\ Free(u, call[c].email)
     THEN row' = [row EXCEPT ![u] = [email |-> call[c].email, name |-> NoName]]
     ELSE UNCHANGED row
  /\ call' = [call EXCEPT ![c].at = "ready", ![c].email = NoPerson]
  /\ UNCHANGED <<key, hook, faults>>

\* Slip: the name defaults to the address.
LazyInsertNamed(c) ==
  LET u == call[c].user IN
  /\ call[c].at = "missing"
  /\ ~Exists(u) /\ Free(u, call[c].email)
  /\ row' = [row EXCEPT ![u] = [email |-> call[c].email, name |-> call[c].email]]
  /\ call' = [call EXCEPT ![c].at = "ready", ![c].email = NoPerson]
  /\ UNCHANGED <<key, hook, faults>>

\* Slip: ON CONFLICT (id) DO UPDATE SET email.
LazyUpsert(c) ==
  LET u == call[c].user IN
  /\ call[c].at = "missing"
  /\ Free(u, call[c].email)
  /\ row' = [row EXCEPT ![u] = [email |-> call[c].email, name |-> row[u].name]]
  /\ call' = [call EXCEPT ![c].at = "ready", ![c].email = NoPerson]
  /\ UNCHANGED <<key, hook, faults>>

\* ON CONFLICT (id) DO NOTHING: whoever came first is left alone, while an
\* address that somebody else has raises.
LazyInsert(c) ==
  LET u == call[c].user IN
  /\ call[c].at = "missing"
  /\ IF Exists(u)
     THEN UNCHANGED row
     ELSE /\ Free(u, call[c].email)
          /\ row' = [row EXCEPT ![u] = [email |-> call[c].email, name |-> NoName]]
  /\ call' = [call EXCEPT ![c].at = "ready", ![c].email = NoPerson]
  /\ UNCHANGED <<key, hook, faults>>

LoadProfile(c) ==
  /\ call[c].at = "ready"
  /\ Exists(call[c].user)
  /\ call' = [call EXCEPT ![c].at = "loaded", ![c].seen = row[call[c].user]]
  /\ UNCHANGED <<row, key, hook, faults>>

\* A column is sent only when its value differs from the one read.
Sent(stored, read, assigned) == IF assigned = read THEN stored ELSE assigned

\* update_profile.  The response is built before the commit, and a placeholder is
\* no valid EmailStr: it raises, and the update is rolled back.
UpdateProfile(c, name) ==
  LET u == call[c].user IN
  /\ call[c].at = "loaded"
  /\ row[u].email \notin Placeholders
  /\ row' = [row EXCEPT ![u].name = Sent(row[u].name, call[c].seen.name, name)]
  /\ call' = [call EXCEPT ![c] = Idle]
  /\ UNCHANGED <<key, hook, faults>>

\* create_api_key: the foreign key wants the row, the unique index a new hash.
CreateKey(c, k) ==
  /\ call[c].at = "ready"
  /\ Exists(call[c].user) /\ key[k] = NoPerson
  /\ key' = [key EXCEPT ![k] = call[c].user]
  /\ call' = [call EXCEPT ![c] = Idle]
  /\ UNCHANGED <<row, hook, faults>>

\* Any other ending: a read, another module's operation, or an error and a
\* rollback.
EndCall(c) ==
  /\ call[c].at # "idle"
  /\ call' = [call EXCEPT ![c] = Idle]
  /\ UNCHANGED <<row, key, hook, faults>>

-----------------------------------------------------------------------------
(***************************************************************************)
(* The webhook.                                                            *)
(***************************************************************************)

\* Somebody has signed up.  A delivery whose answer is lost is repeated: it is then
\* two webhooks with one payload.
Send(w, u, email, name) ==
  /\ hook[w].at = "unsent"
  /\ hook' = [hook EXCEPT ![w] = [at |-> "waiting", user |-> u, email |-> email,
                                  name |-> name, seen |-> NoRow]]
  /\ UNCHANGED <<row, key, call, faults>>

\* Slip: a plain INSERT, as if a webhook came but once.
SyncGetNothing(w) ==
  /\ hook[w].at = "waiting"
  /\ hook' = [hook EXCEPT ![w].at = "absent"]
  /\ UNCHANGED <<row, key, call, faults>>

SyncGet(w) ==
  LET u == hook[w].user IN
  /\ hook[w].at = "waiting"
  /\ hook' = [hook EXCEPT ![w].at = IF Exists(u) THEN "found" ELSE "absent",
                          ![w].seen = row[u]]
  /\ UNCHANGED <<row, key, call, faults>>

Done(w) == hook' = [hook EXCEPT ![w] = [Unsent EXCEPT !.at = "done"]]

CanInsert(w) ==
  /\ ~Exists(hook[w].user) /\ Free(hook[w].user, hook[w].email)
  /\ hook[w].name \notin LongNames

SyncInsert(w) ==
  /\ hook[w].at = "absent" /\ CanInsert(w)
  /\ row' = [row EXCEPT ![hook[w].user] = [email |-> hook[w].email, name |-> hook[w].name]]
  /\ Done(w)
  /\ UNCHANGED <<key, call, faults>>

NewEmail(w) == Sent(row[hook[w].user].email, hook[w].seen.email, hook[w].email)
NewName(w)  == IF hook[w].name = NoName THEN row[hook[w].user].name
               ELSE Sent(row[hook[w].user].name, hook[w].seen.name, hook[w].name)

CanUpdate(w) == Free(hook[w].user, NewEmail(w)) /\ NewName(w) \notin LongNames

SyncUpdate(w) ==
  /\ hook[w].at = "found" /\ CanUpdate(w)
  /\ row' = [row EXCEPT ![hook[w].user] = [email |-> NewEmail(w), name |-> NewName(w)]]
  /\ Done(w)
  /\ UNCHANGED <<key, call, faults>>

\* The response is an internal error, and the webhook is delivered again.
Redelivered(w) == hook' = [hook EXCEPT ![w].at = "waiting", ![w].seen = NoRow]

\* The database refuses the row: somebody was faster, or has the address, or the
\* name is too long.
SyncRefused(w) ==
  /\ \/ hook[w].at = "absent" /\ ~CanInsert(w)
     \/ hook[w].at = "found" /\ ~CanUpdate(w)
  /\ Redelivered(w)
  /\ UNCHANGED <<row, key, call, faults>>

\* The database fails.
SyncFault(w) ==
  /\ hook[w].at \in {"absent", "found"}
  /\ faults < MaxFaults
  /\ faults' = faults + 1
  /\ Redelivered(w)
  /\ UNCHANGED <<row, key, call>>

-----------------------------------------------------------------------------
Sync(w) == SyncGet(w) \/ SyncInsert(w) \/ SyncUpdate(w) \/ SyncRefused(w)

Next ==
  \/ \E c \in Callers :
       \/ \E u \in People, email \in Address : SignIn(c, u, email)
       \/ LazyInsert(c) \/ LoadProfile(c) \/ EndCall(c)
       \/ \E name \in Names \cup {NoName} : UpdateProfile(c, name)
       \/ \E k \in Keys : CreateKey(c, k)
  \/ \E w \in Webhooks :
       \/ \E u \in People, email \in Emails, name \in Names \cup LongNames \cup {NoName} :
            Send(w, u, email, name)
       \/ Sync(w)
       \/ SyncFault(w)

Spec == Init /\ [][Next]_vars

\* Supabase delivers a webhook until it succeeds, and a request is worked on.
FairSpec == Spec /\ \A w \in Webhooks : WF_vars(Sync(w))

-----------------------------------------------------------------------------
TypeOK ==
  /\ row    \in [People -> Row \cup {NoRow}]
  /\ key    \in [Keys -> People \cup {NoPerson}]
  /\ call   \in [Callers -> Call]
  /\ hook   \in [Webhooks -> Hook]
  /\ faults \in 0 .. MaxFaults

\* _ensure_user_row: "guarantee users.id = user.id exists".  A request that got
\* past the verification has a row for its foreign keys, whoever inserted it,
\* and so has the holder of a key.
CallerHasRow ==
  /\ \A c \in Callers : call[c].at \in {"ready", "loaded"} => Exists(call[c].user)
  /\ \A k \in Keys : key[k] # NoPerson => Exists(key[k])

EmailMeant(u) ==
  row'[u].email # row[u].email =>
    \E w \in Webhooks : /\ hook[w].at = "found" /\ hook'[w].at = "done"
                        /\ hook[w].user = u /\ hook[w].email = row'[u].email

NameMeant(u) ==
  row'[u].name # row[u].name =>
    \/ \E w \in Webhooks : /\ hook[w].at = "found" /\ hook'[w].at = "done"
                           /\ hook[w].user = u /\ hook[w].name = row'[u].name
                           /\ hook[w].name # NoName
    \/ \E c \in Callers : call[c].at = "loaded" /\ call[c].user = u /\ call'[c] = Idle

\* An address changes only to that of a webhook being applied, and a name only to
\* that of a webhook or to one the person has just given: the lazy insert, a
\* PATCH and a late webhook undo nothing they do not mean to.
NothingIsUndone ==
  [][\A u \in People : Exists(u) => EmailMeant(u) /\ NameMeant(u)]_vars

\* "Safe to call more than once (e.g. webhook retries)" (sync_from_supabase): a
\* webhook whose INSERT lost to a first request, or that failed otherwise,
\* succeeds when it comes again, unless its address is somebody else's or its name
\* is too long for the column, which the payload's schema does not check.
SyncSucceeds ==
  \A w \in Webhooks :
    hook[w].at = "waiting" ~> \/ hook[w].at = "done"
                              \/ ~Free(hook[w].user, hook[w].email)
                              \/ hook[w].name \in LongNames
=============================================================================
