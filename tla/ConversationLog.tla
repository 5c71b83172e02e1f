---------------------------- MODULE ConversationLog ----------------------------
(***************************************************************************)
(* What a conversation promises to the clients that read and write it: a   *)
(* turn enters the history in one step, question and answer together, and  *)
(* at most once; a client is told "done" only of a turn that is there; and *)
(* once the conversation is closed nothing is in it, and nothing gets in.  *)
(* Conversations, with its open transactions, locks, errors and            *)
(* disconnects, is shown to implement this.                                *)
(***************************************************************************)
CONSTANT Turns

VARIABLES
  open,       \* does the conversation exist?
  history,    \* the messages that list_messages would show
  told        \* the turns whose client has heard "done"

Exchange(t, time) ==
  {[turn |-> t, role |-> role, created |-> time] : role \in {"user", "assistant"}}

Recorded(t) == \E m \in history : m.turn = t

Init ==
  /\ open = TRUE
  /\ history = {}
  /\ told = {}

\* The turn as a whole, under one time stamp.
Record(t) ==
  /\ open
  /\ ~Recorded(t)
  /\ \E time \in {m.created : m \in history'} : history' = history \cup Exchange(t, time)
  /\ UNCHANGED <<open, told>>

\* A turn that ends as its client goes away is recorded unheard.
Tell(t) ==
  /\ open => Recorded(t)
  /\ told' = told \cup {t}
  /\ UNCHANGED <<open, history>>

Close ==
  /\ open
  /\ open' = FALSE
  /\ history' = {}
  /\ UNCHANGED told

Next == Close \/ \E t \in Turns : Record(t) \/ Tell(t)

Spec == Init /\ [][Next]_<<open, history, told>>
=============================================================================
