--------------------------- MODULE SpacedRepetition ----------------------------
(***************************************************************************)
(* What the review of flashcards promises one user about one card: a       *)
(* review is one step of SM-2 from the schedule the card has.  Once two    *)
(* reviews have overlapped nothing is promised any more.                   *)
(***************************************************************************)
EXTENDS SM2

VARIABLE schedule

Deleted    == Mark(-2)
Overlapped == Mark(-3)

Init == schedule = NoReview

Review(grade) ==
  /\ schedule \notin {Deleted, Overlapped}
  /\ \E outcome \in Outcomes(StateOf(schedule), grade) : schedule' = RowOf(outcome)

Delete == schedule # Overlapped /\ schedule' = Deleted

Overlap == schedule' = Overlapped

Next ==
  \/ \E grade \in Grade : Review(grade)
  \/ Delete
  \/ Overlap

Spec == Init /\ [][Next]_schedule
=============================================================================
