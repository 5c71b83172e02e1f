-------------------------- MODULE ConversationsProofs --------------------------
(***************************************************************************)
(* Theorems about Conversations, for any set of turns.                     *)
(*                                                                         *)
(* Three facts carry them all.  A turn that has inserted its question      *)
(* keeps its conversation from being deleted; what a turn stores is a      *)
(* Pair, stamped with a time that is fixed once the turn has begun; and a  *)
(* turn stores nothing before its COMMIT.  That the turns implement        *)
(* ConversationLog follows from them.                                      *)
(***************************************************************************)
EXTENDS Conversations, TLAPS

Roles == {"user", "assistant"}

Stored(t) == Pair(t) \subseteq messages

\* A turn in flight holds its conversation.
HeldExists == \A t \in Turns : Holds(t) => conversation

\* What a client was told, and what a turn that has saved may tell.
SavedIsStored ==
  \A t \in Turns :
     turn[t].at = "saved" \/ client[t] = "done" => ~conversation \/ Stored(t)

\* The places of a turn whose COMMIT is still to come.
Unsaved == {"new", "loaded", "asked", "streaming", "answered"}

\* Messages come in pairs, and only of turns whose COMMIT may have happened.
InPairs ==
  /\ \A m \in messages : \E t \in Turns : m \in Pair(t) /\ Stored(t)
  /\ \A t \in Turns : turn[t].at \in Unsaved => \A m \in messages : m.turn # t

\* "done" is the last thing a client hears.
DoneIsLast == \A t \in Turns : client[t] = "done" => turn[t].at = "ended"

IInv == TypeOK /\ HeldExists /\ NoOrphanMessages /\ SavedIsStored /\ InPairs /\ DoneIsLast

Types ==
  /\ conversation \in BOOLEAN
  /\ turn   \in [Turns -> [at : At, began : Nat]]
  /\ client \in [Turns -> Heard]
  /\ clock  \in Nat

LEMMA TypeParts ==
  TypeOK <=> Types /\ messages \subseteq {Message(t, role, turn[t].began) : t \in Turns, role \in Roles}
BY DEF TypeOK, Types, Roles

\* A step that leaves the turns' stamps alone leaves their pairs alone.
LEMMA SamePair ==
  ASSUME NEW t \in Turns, turn'[t].began = turn[t].began
  PROVE  Pair(t)' = Pair(t)
BY DEF Pair, Message

LEMMA GotoEffect ==
  ASSUME Types, NEW t \in Turns, NEW at \in At, Goto(t, at)
  PROVE  /\ turn' \in [Turns -> [at : At, began : Nat]]
         /\ turn'[t].at = at
         /\ \A u \in Turns : turn'[u].began = turn[u].began
         /\ \A u \in Turns \ {t} : turn'[u] = turn[u]
BY DEF Goto, Types

-----------------------------------------------------------------------------
LEMMA InitInv == Init => IInv
BY DEF Init, IInv, TypeOK, HeldExists, NoOrphanMessages, SavedIsStored, InPairs,
       DoneIsLast, Holds, At, Heard

\* A turn that moves on, with what it stores and what its client hears: the
\* shape of every action but Begin and Delete.
MovesOn(t, at) ==
  /\ turn[t].at \notin {"new", "ended"} /\ at \in At \ {"new"}
  /\ Goto(t, at)
  /\ at \in {"asked", "streaming", "answered"} => conversation
  /\ \/ UNCHANGED messages
     \/ turn[t].at = "answered" /\ conversation /\ messages' = messages \cup Pair(t)
  /\ at \in Unsaved => turn[t].at \in Unsaved /\ UNCHANGED messages
  /\ at = "saved" => Pair(t) \subseteq messages'
  /\ client' \in [Turns -> Heard]
  /\ \A u \in Turns \ {t} : client'[u] = client[u]
  /\ client'[t] = "done" => client[t] = "done" \/ (turn[t].at = "saved" /\ at = "ended")
  /\ UNCHANGED conversation
  /\ clock' \in Nat

LEMMA MovesOnPreserves ==
  ASSUME IInv, NEW t \in Turns, NEW at \in At, MovesOn(t, at)
  PROVE  IInv'
<1>1. Types
  BY TypeParts DEF IInv
<1>2. /\ turn' \in [Turns -> [at : At, began : Nat]]
      /\ turn'[t].at = at
      /\ \A u \in Turns : turn'[u].began = turn[u].began
      /\ \A u \in Turns \ {t} : turn'[u] = turn[u]
  BY <1>1, GotoEffect DEF MovesOn
<1>3. \A u \in Turns : Pair(u)' = Pair(u)
  BY <1>2, SamePair
<1>4. messages \subseteq messages' /\ messages' \subseteq messages \cup Pair(t)
  BY DEF MovesOn
<1>5. \A u \in Turns : Stored(u) => Stored(u)'
  BY <1>3, <1>4 DEF Stored
<1>6. InPairs'
  <2>1. \A m \in messages' : \E u \in Turns : m \in Pair(u)' /\ Stored(u)'
    <3>1. SUFFICES ASSUME NEW m \in messages'
                   PROVE  \E u \in Turns : m \in Pair(u)' /\ Stored(u)'
      OBVIOUS
    <3>2. CASE m \in messages
      BY <1>3, <1>5, <3>2 DEF IInv, InPairs
    <3>3. CASE m \notin messages
      <4>1. m \in Pair(t) /\ Pair(t) \subseteq messages'
        BY <3>3 DEF MovesOn
      <4> QED  BY <1>3, <4>1 DEF Stored
    <3> QED  BY <3>2, <3>3
  <2>2. ASSUME NEW u \in Turns, turn'[u].at \in Unsaved, NEW m \in messages'
        PROVE  m.turn # u
    <3>1. turn[u].at \in Unsaved
      BY <1>2, <2>2 DEF MovesOn
    <3>2. CASE m \in messages
      BY <3>1, <3>2 DEF IInv, InPairs
    <3>3. CASE m \notin messages
      <4>1. u # t
        BY <1>2, <2>2, <3>3 DEF MovesOn
      <4>2. m \in Pair(t)
        BY <1>4, <3>3
      <4> QED  BY <4>1, <4>2 DEF Pair, Message
    <3> QED  BY <3>2, <3>3
  <2> QED  BY <2>1, <2>2 DEF InPairs
<1>7. TypeOK'
  <2>1. Types'
    BY <1>1, <1>2 DEF Types, MovesOn
  <2>2. messages' \subseteq {Message(u, role, turn'[u].began) : u \in Turns, role \in Roles}
    BY <1>6 DEF InPairs, Pair, Roles, Message
  <2> QED  BY <2>1, <2>2 DEF TypeOK, Types, Roles, Message
<1>8. HeldExists'
  <2>1. ASSUME NEW u \in Turns, Holds(u)'  PROVE conversation
    <3>1. CASE u = t
      BY <1>2, <2>1, <3>1 DEF Holds, MovesOn
    <3>2. CASE u # t
      BY <1>2, <2>1, <3>2 DEF Holds, IInv, HeldExists
    <3> QED  BY <3>1, <3>2
  <2> QED  BY <2>1 DEF HeldExists, MovesOn
<1>9. NoOrphanMessages'
  BY DEF IInv, NoOrphanMessages, MovesOn
<1>10. SavedIsStored'
  <2>1. SUFFICES ASSUME NEW u \in Turns,
                        turn'[u].at = "saved" \/ client'[u] = "done",
                        conversation
                 PROVE  Stored(u)'
    BY DEF SavedIsStored, MovesOn
  <2>2. CASE u # t
    BY <1>2, <1>5, <2>1, <2>2 DEF IInv, SavedIsStored, MovesOn
  <2>3. CASE u = t /\ turn'[t].at = "saved"
    BY <1>2, <1>3, <2>3 DEF MovesOn, Stored
  <2>4. CASE u = t /\ client'[t] = "done"
    BY <1>5, <2>1, <2>4 DEF IInv, SavedIsStored, MovesOn
  <2> QED  BY <2>1, <2>2, <2>3, <2>4
<1>11. DoneIsLast'
  BY <1>2 DEF IInv, DoneIsLast, MovesOn
<1> QED  BY <1>6, <1>7, <1>8, <1>9, <1>10, <1>11 DEF IInv

LEMMA BeginPreserves ==
  ASSUME IInv, NEW t \in Turns, Begin(t)
  PROVE  IInv'
<1>1. Types /\ turn[t].at = "new"
  BY TypeParts DEF IInv, Begin
<1>2. turn'[t].at \in {"loaded", "failed"} /\ \A u \in Turns \ {t} : turn'[u] = turn[u]
  BY <1>1 DEF Types, Begin
<1>3. Types'
  BY <1>1 DEF Types, Begin, At
<1>4. \A u \in Turns \ {t} : Pair(u)' = Pair(u)
  BY <1>2, SamePair
<1>5. InPairs'
  <2>1. ASSUME NEW m \in messages'
        PROVE  \E u \in Turns : m \in Pair(u)' /\ Stored(u)'
    <3>1. m \in messages /\ m.turn # t
      BY <1>1, <2>1 DEF IInv, InPairs, Unsaved, Begin
    <3>2. PICK u \in Turns : m \in Pair(u) /\ Stored(u)
      BY <3>1 DEF IInv, InPairs
    <3>3. u # t
      BY <3>1, <3>2 DEF Pair, Message
    <3> QED  BY <1>4, <3>2, <3>3 DEF Stored, Begin
  <2>2. \A u \in Turns : turn'[u].at \in Unsaved => \A m \in messages' : m.turn # u
    BY <1>1, <1>2 DEF IInv, InPairs, Unsaved, Begin
  <2> QED  BY <2>1, <2>2 DEF InPairs
<1>6. TypeOK'
  <2>1. messages' \subseteq {Message(u, role, turn'[u].began) : u \in Turns, role \in Roles}
    BY <1>5 DEF InPairs, Pair, Roles, Message
  <2> QED  BY <1>3, <2>1 DEF TypeOK, Types, Roles, Message
<1>7. HeldExists' /\ NoOrphanMessages'
  BY <1>2 DEF IInv, HeldExists, NoOrphanMessages, Holds, Begin
<1>8. SavedIsStored'
  <2>1. \A u \in Turns : Stored(u) => Stored(u)'
    <3>1. ~Stored(t)
      <4>1. Message(t, "user", turn[t].began) \notin messages
        BY <1>1 DEF IInv, InPairs, Unsaved, Message
      <4> QED  BY <4>1 DEF Stored, Pair
    <3> QED  BY <1>4, <3>1 DEF Stored, Begin
  <2>2. \A u \in Turns : turn'[u].at = "saved" => turn[u].at = "saved"
    BY <1>2
  <2> QED  BY <2>1, <2>2 DEF IInv, SavedIsStored, Begin
<1>9. DoneIsLast'
  BY <1>1, <1>2 DEF IInv, DoneIsLast, Begin
<1> QED  BY <1>5, <1>6, <1>7, <1>8, <1>9 DEF IInv

LEMMA DeletePreserves ==
  ASSUME IInv, Delete
  PROVE  IInv'
<1>1. TypeOK'
  <2>1. conversation' \in BOOLEAN /\ messages' = {}
    BY DEF Delete
  <2>2. /\ turn'   \in [Turns -> [at : At, began : Nat]]
        /\ client' \in [Turns -> Heard]
        /\ clock'  \in Nat
    BY DEF IInv, TypeOK, Delete
  <2> QED  BY <2>1, <2>2 DEF TypeOK
<1>2. HeldExists'
  BY DEF HeldExists, Holds, Delete
<1> QED  BY <1>1, <1>2 DEF IInv, NoOrphanMessages, SavedIsStored, InPairs, DoneIsLast, Delete

LEMMA TurnMovesOn ==
  ASSUME IInv, NEW t \in Turns,
         \/ Ask(t) \/ Retrieve(t) \/ Token(t) \/ EndStream(t) \/ Commit(t)
         \/ Fails(t) \/ SendDone(t) \/ SendError(t) \/ Disconnect(t)
  PROVE  \E at \in At : MovesOn(t, at)
<1>1. Types
  BY TypeParts DEF IInv
<1>2. Holds(t) => conversation
  BY DEF IInv, HeldExists
<1>3. CASE Ask(t)
  <2>1. MovesOn(t, "asked")
    BY <1>1, <1>3 DEF Ask, MovesOn, Types, At, Unsaved
  <2> QED  BY <2>1 DEF At
<1>4. CASE Retrieve(t)
  <2>1. MovesOn(t, "streaming")
    BY <1>1, <1>2, <1>4 DEF Retrieve, MovesOn, Types, At, Holds, Unsaved
  <2> QED  BY <2>1 DEF At
<1>5. CASE Token(t)
  <2>1. Goto(t, "streaming")
    BY <1>1, <1>5 DEF Token, Goto, Types
  <2>2. MovesOn(t, "streaming")
    BY <1>1, <1>2, <1>5, <2>1 DEF Token, MovesOn, Types, At, Holds, Heard, Unsaved
  <2> QED  BY <2>2 DEF At
<1>6. CASE EndStream(t)
  <2>1. MovesOn(t, "answered")
    BY <1>1, <1>2, <1>6 DEF EndStream, MovesOn, Types, At, Holds, Unsaved
  <2> QED  BY <2>1 DEF At
<1>7. CASE Commit(t)
  <2>1. MovesOn(t, "saved")
    BY <1>1, <1>2, <1>7 DEF Commit, MovesOn, Types, At, Holds, Unsaved
  <2> QED  BY <2>1 DEF At
<1>8. CASE Fails(t)
  <2>1. MovesOn(t, "failed")
    BY <1>1, <1>2, <1>8 DEF Fails, MovesOn, Types, At, Holds, Unsaved
  <2> QED  BY <2>1 DEF At
<1>9. CASE SendDone(t)
  <2>1. MovesOn(t, "ended")
    BY <1>1, <1>9 DEF SendDone, MovesOn, Types, At, Heard, Unsaved
  <2> QED  BY <2>1 DEF At
<1>10. CASE SendError(t)
  <2>1. MovesOn(t, "ended")
    BY <1>1, <1>10 DEF SendError, MovesOn, Types, At, Heard, Unsaved
  <2> QED  BY <2>1 DEF At
<1>11. CASE Disconnect(t)
  <2>1. MovesOn(t, "ended")
    BY <1>1, <1>2, <1>11 DEF Disconnect, MovesOn, Types, At, Heard, Holds, Unsaved
  <2> QED  BY <2>1 DEF At
<1> QED  BY <1>3, <1>4, <1>5, <1>6, <1>7, <1>8, <1>9, <1>10, <1>11

LEMMA StutterPreserves ==
  ASSUME IInv, UNCHANGED vars
  PROVE  IInv'
BY DEF IInv, TypeOK, HeldExists, NoOrphanMessages, SavedIsStored, InPairs, DoneIsLast,
       Stored, Pair, Message, Holds, vars

LEMMA NextPreserves ==
  ASSUME IInv, [Next]_vars
  PROVE  IInv'
BY DeletePreserves, BeginPreserves, TurnMovesOn, MovesOnPreserves, StutterPreserves DEF Next

LEMMA Invariance == Spec => []IInv
BY InitInv, NextPreserves, PTL DEF Spec

-----------------------------------------------------------------------------
\* Every reachable state is well typed, and every message of a turn carries
\* the start of its transaction (CreatedAtMixin).
THEOREM TypeCorrect == Spec => []TypeOK
<1>1. IInv => TypeOK
  BY DEF IInv
<1> QED  BY <1>1, Invariance, PTL

\* No history ever shows half a turn, however the turns end (stream_answer).
THEOREM TurnsAreWhole == Spec => []TurnIsWhole
<1>1. ASSUME IInv, NEW t \in Turns, NEW m \in messages, m.turn = t
      PROVE  \E n \in messages : n.turn = t /\ n.role # m.role
  <2>1. m \in Pair(t) /\ Stored(t)
    BY <1>1 DEF IInv, InPairs, Pair, Message
  <2>2. \A role \in Roles : Message(t, role, turn[t].began) \in messages
    BY <2>1 DEF Stored, Pair, Roles
  <2>3. m.role \in Roles
    BY <2>1 DEF Pair, Message, Roles
  <2>4. PICK role \in Roles : role # m.role
    BY <2>3 DEF Roles
  <2> QED  BY <2>2, <2>4 DEF Message
<1>2. IInv => TurnIsWhole
  BY <1>1 DEF TurnIsWhole
<1> QED  BY <1>2, Invariance, PTL

\* A client told "done" finds its turn stored, unless the conversation is gone
\* (event_generator).
THEOREM DoneMeansSaved == Spec => []DoneIsSaved
<1>1. ASSUME IInv, NEW t \in Turns, client[t] = "done", conversation, NEW role \in Roles
      PROVE  \E m \in messages : m.turn = t /\ m.role = role
  <2>1. Message(t, role, turn[t].began) \in messages
    BY <1>1 DEF IInv, SavedIsStored, Stored, Pair, Roles
  <2> QED  BY <2>1 DEF Message
<1>2. IInv => DoneIsSaved
  BY <1>1 DEF DoneIsSaved, Roles
<1> QED  BY <1>2, Invariance, PTL

\* A deleted conversation leaves no message behind, whatever was streaming
\* (the foreign key of messages, delete_conversation).
THEOREM DeletedMeansEmpty == Spec => []NoOrphanMessages
<1>1. IInv => NoOrphanMessages
  BY DEF IInv
<1> QED  BY <1>1, Invariance, PTL

-----------------------------------------------------------------------------
\* The history, the clients that heard "done" and the conversation.
told == {t \in Turns : client[t] = "done"}
readable == <<conversation, messages, told>>

LEMMA InitImplements == Init => Atomic!Init
BY DEF Init, Atomic!Init

\* A stored turn is recorded, an unsaved one is not.
LEMMA StoredRecorded ==
  ASSUME NEW t \in Turns
  PROVE  Stored(t) => Atomic!Recorded(t)
<1>1. Message(t, "user", turn[t].began) \in Pair(t)
  BY DEF Pair
<1>2. Message(t, "user", turn[t].began).turn = t
  BY DEF Message
<1> QED  BY <1>1, <1>2 DEF Stored, Atomic!Recorded

LEMMA MovesOnImplements ==
  ASSUME IInv, NEW t \in Turns, NEW at \in At, MovesOn(t, at)
  PROVE  [Atomic!Next]_readable
<1>1. /\ client[t] # "done"
      /\ \A u \in Turns \ {t} : client'[u] = client[u]
  BY DEF IInv, DoneIsLast, MovesOn
<1>2. CASE client'[t] = "done"
  <2>1. turn[t].at = "saved" /\ UNCHANGED <<conversation, messages>>
    BY <1>1, <1>2 DEF MovesOn
  <2>2. conversation => Atomic!Recorded(t)
    BY <2>1, StoredRecorded DEF IInv, SavedIsStored
  <2>3. told' = told \cup {t}
    BY <1>1, <1>2 DEF told
  <2> QED  BY <2>1, <2>2, <2>3 DEF Atomic!Next, Atomic!Tell, told
<1>3. CASE client'[t] # "done"
  <2>1. UNCHANGED <<conversation, told>>
    BY <1>1, <1>3 DEF MovesOn, told
  <2>2. CASE UNCHANGED messages
    BY <2>1, <2>2 DEF readable
  <2>3. CASE ~UNCHANGED messages
    <3>1. turn[t].at = "answered" /\ conversation /\ messages' = messages \cup Pair(t)
      BY <2>3 DEF MovesOn
    <3>2. ~Atomic!Recorded(t)
      BY <3>1 DEF IInv, InPairs, Unsaved, Atomic!Recorded
    <3>3. Pair(t) = Atomic!Exchange(t, turn[t].began)
      BY DEF Pair, Message, Atomic!Exchange
    <3>4. turn[t].began \in {m.created : m \in messages'}
      <4>1. Message(t, "user", turn[t].began) \in messages'
        BY <3>1 DEF Pair
      <4> QED  BY <4>1 DEF Message
    <3> QED  BY <2>1, <3>1, <3>2, <3>3, <3>4 DEF Atomic!Next, Atomic!Record, told
  <2> QED  BY <2>2, <2>3
<1> QED  BY <1>2, <1>3

LEMMA StepImplements ==
  ASSUME IInv, [Next]_vars
  PROVE  [Atomic!Next]_readable
<1>1. CASE Delete
  <2>1. UNCHANGED told
    BY <1>1 DEF Delete, told
  <2> QED  BY <1>1, <2>1 DEF Delete, Atomic!Next, Atomic!Close, told
<1>2. ASSUME NEW t \in Turns, Begin(t)  PROVE UNCHANGED readable
  BY <1>2 DEF Begin, readable, told
<1>3. CASE UNCHANGED vars
  BY <1>3 DEF vars, readable, told
<1> QED  BY <1>1, <1>2, <1>3, TurnMovesOn, MovesOnImplements DEF Next

\* The turns, with their open transactions, locks, errors and disconnects,
\* implement a log to which each turn is added in one step (stream_answer,
\* event_generator, delete_conversation).
THEOREM ImplementsConversationLog == Spec => TurnsAreAtomic
BY InitImplements, StepImplements, Invariance, PTL
   DEF Spec, TurnsAreAtomic, Atomic!Spec, readable, told
=============================================================================
