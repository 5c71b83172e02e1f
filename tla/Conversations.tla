----------------------------- MODULE Conversations -----------------------------
(***************************************************************************)
(* The streamed turns of one conversation (stream_message, stream_answer)  *)
(* against its deletion, or its room's.                                    *)
(*                                                                         *)
(* A turn owns a session from its first SELECT to its last event: it       *)
(* inserts the question, streams the model's answer while the transaction  *)
(* stays open, inserts the answer and commits.  The INSERT of the question *)
(* takes a KEY SHARE lock on the conversation (its foreign key), so a      *)
(* deletion waits for the turn to end.  created_at is now(), which in      *)
(* Postgres is the time at which the transaction began.                    *)
(*                                                                         *)
(* An operator introduced by "Slip:" is no part of the specification but a *)
(* mistaken form of the definition after it.                               *)
(***************************************************************************)
EXTENDS Naturals

CONSTANT Turns    \* POST /conversations/{id}/messages requests

VARIABLES
  conversation,  \* is there a committed row?
  messages,      \* the committed messages
  turn,          \* where each request is, and when its transaction began
  client,        \* the last thing each client has heard
  clock          \* time, as far as created_at can tell

vars == <<conversation, messages, turn, client, clock>>

At == {"new",
       "loaded",      \* get_conversation has found it
       "asked",       \* the question is flushed
       "streaming",   \* chunks retrieved; tokens go out
       "answered",    \* the answer is added, the commit under way
       "saved", "failed", "ended"}

Heard == {"nothing", "token", "done", "error", "gone"}    \* gone: disconnected

Message(t, role, created) == [turn |-> t, role |-> role, created |-> created]

Init ==
  /\ conversation = TRUE
  /\ messages = {}
  /\ turn   = [t \in Turns |-> [at |-> "new", began |-> 0]]
  /\ client = [t \in Turns |-> "nothing"]
  /\ clock  = 0

Goto(t, at) == turn' = [turn EXCEPT ![t].at = at]

-----------------------------------------------------------------------------
\* get_conversation, whose first statement begins the transaction.
Begin(t) ==
  /\ turn[t].at = "new"
  /\ clock' = clock + 1
  /\ turn' = [turn EXCEPT ![t] =
       [at |-> IF conversation THEN "loaded" ELSE "failed", began |-> clock']]
  /\ UNCHANGED <<conversation, messages, client>>

\* Slip: the question is committed with the request, before the stream.
AskAndCommit(t) ==
  /\ turn[t].at = "loaded"
  /\ conversation
  /\ messages' = messages \cup {Message(t, "user", turn[t].began)}
  /\ Goto(t, "asked")
  /\ UNCHANGED <<conversation, client, clock>>

\* The flush of the question; without its conversation the foreign key fails.
Ask(t) ==
  /\ turn[t].at = "loaded"
  /\ conversation
  /\ Goto(t, "asked")
  /\ UNCHANGED <<conversation, messages, client, clock>>

\* embed and retrieve; the stream opens.
Retrieve(t) ==
  /\ turn[t].at = "asked"
  /\ Goto(t, "streaming")
  /\ UNCHANGED <<conversation, messages, client, clock>>

Token(t) ==
  /\ turn[t].at = "streaming"
  /\ client' = [client EXCEPT ![t] = "token"]
  /\ UNCHANGED <<conversation, messages, turn, clock>>

\* The stream ends, with or without text; time has passed.
EndStream(t) ==
  /\ turn[t].at = "streaming"
  /\ clock' = clock + 1
  /\ Goto(t, "answered")
  /\ UNCHANGED <<conversation, messages, client>>

\* Slip: the answer is stamped when it is written.
PairStampedApart(t) ==
  {Message(t, "user", turn[t].began), Message(t, "assistant", clock)}

\* What the transaction of t makes visible.
Pair(t) == {Message(t, role, turn[t].began) : role \in {"user", "assistant"}}

Commit(t) ==
  /\ turn[t].at = "answered"
  /\ messages' = messages \cup Pair(t)
  /\ Goto(t, "saved")
  /\ UNCHANGED <<conversation, client, clock>>

\* Any Exception: an error of the model, the foreign key, the database.  The
\* session rolls back, unless it was the COMMIT whose outcome got lost.
Fails(t) ==
  /\ turn[t].at \in {"loaded", "asked", "streaming", "answered"}
  /\ \/ UNCHANGED messages
     \/ turn[t].at = "answered" /\ messages' = messages \cup Pair(t)
  /\ Goto(t, "failed")
  /\ UNCHANGED <<conversation, client, clock>>

SendDone(t) ==
  /\ turn[t].at = "saved"
  /\ client' = [client EXCEPT ![t] = "done"]
  /\ Goto(t, "ended")
  /\ UNCHANGED <<conversation, messages, clock>>

SendError(t) ==
  /\ turn[t].at = "failed"
  /\ client' = [client EXCEPT ![t] = "error"]
  /\ Goto(t, "ended")
  /\ UNCHANGED <<conversation, messages, clock>>

\* The client goes away and the generator is closed: no except clause runs,
\* the session closes without a commit, or with one already on its way.
Disconnect(t) ==
  /\ turn[t].at \notin {"new", "ended"}
  /\ \/ UNCHANGED messages
     \/ turn[t].at = "answered" /\ messages' = messages \cup Pair(t)
  /\ client' = [client EXCEPT ![t] = "gone"]
  /\ Goto(t, "ended")
  /\ UNCHANGED <<conversation, clock>>

\* An open transaction that has inserted a message.
Holds(t) == turn[t].at \in {"asked", "streaming", "answered"}

\* delete_conversation, or the deletion of its room or owner, with all of its
\* messages (ORM cascade, ON DELETE CASCADE).
Delete ==
  /\ conversation
  /\ \A t \in Turns : ~Holds(t)
  /\ conversation' = FALSE
  /\ messages' = {}
  /\ UNCHANGED <<turn, client, clock>>

-----------------------------------------------------------------------------
Next ==
  \/ Delete
  \/ \E t \in Turns :
        \/ Begin(t) \/ Ask(t) \/ Retrieve(t) \/ Token(t) \/ EndStream(t) \/ Commit(t)
        \/ Fails(t) \/ SendDone(t) \/ SendError(t) \/ Disconnect(t)

Spec == Init /\ [][Next]_vars

-----------------------------------------------------------------------------
\* The types, and that a message of t is stamped with the start of t's
\* transaction (CreatedAtMixin's server default).
TypeOK ==
  /\ conversation \in BOOLEAN
  /\ messages \subseteq
       {Message(t, role, turn[t].began) : t \in Turns, role \in {"user", "assistant"}}
  /\ turn   \in [Turns -> [at : At, began : Nat]]
  /\ client \in [Turns -> Heard]
  /\ clock  \in Nat

\* Nothing of a turn is stored, or both its messages: a history never shows a
\* question that nobody will answer, nor an answer to nothing, however the turn
\* ends (stream_answer "manages its own commit at the end").
TurnIsWhole ==
  \A t \in Turns, m \in messages :
     m.turn = t => \E n \in messages : n.turn = t /\ n.role # m.role

\* A client that was told "done" finds its turn in the history, unless the
\* conversation was deleted since (event_generator).
DoneIsSaved ==
  \A t \in Turns : client[t] = "done" =>
     \/ ~conversation
     \/ \A role \in {"user", "assistant"} :
           \E m \in messages : m.turn = t /\ m.role = role

\* A turn that was streaming when its conversation was deleted stores nothing.
NoOrphanMessages == ~conversation => messages = {}

\* To its readers a turn is one step, and so is "done".
Atomic == INSTANCE ConversationLog
            WITH open    <- conversation,
                 history <- messages,
                 told    <- {t \in Turns : client[t] = "done"}

\* However turns overlap, break off or lose the answer to their COMMIT, and
\* whenever the deletion comes: each turn is recorded whole, once and while the
\* conversation exists, or never; and "done" is only said of a recorded turn.
TurnsAreAtomic == Atomic!Spec
=============================================================================
