------------------------------ MODULE Flashcards -------------------------------
(***************************************************************************)
(* The reviews of one flashcard by one user (review_flashcard), as         *)
(* requests that may overlap: each reads the row of the card's schedule,   *)
(* computes, and flushes.  An UPDATE holds only the columns whose value    *)
(* differs from the one that was read; the two timestamps always do.       *)
(*                                                                         *)
(* An operator introduced by "Slip:" is no part of the specification but a *)
(* mistaken form of the definition after it.                               *)
(***************************************************************************)
EXTENDS SM2

CONSTANTS
  Reviewers,     \* requests that can be under way at once
  MaxReviews     \* bound: reviews begun

ASSUME MaxReviewsAssumption == MaxReviews \in Nat

VARIABLES
  card,      \* has the flashcard not been deleted?
  row,       \* the committed flashcard_reviews row
  req,       \* the reviews under way
  begun,     \* how many reviews have begun
  mixed      \* history: has a review written over a row it had not read?

vars == <<card, row, req, begun, mixed>>

Idle == [at |-> "idle", grade |-> 0, loaded |-> NoReview]

Init ==
  /\ card  = TRUE
  /\ row   = NoReview
  /\ req   = [r \in Reviewers |-> Idle]
  /\ begun = 0
  /\ mixed = FALSE

End(r) == req' = [req EXCEPT ![r] = Idle]

-----------------------------------------------------------------------------
\* The card is there and its row, if any, is read.
Load(r, grade) ==
  /\ req[r] = Idle
  /\ begun < MaxReviews
  /\ card
  /\ begun' = begun + 1
  /\ req' = [req EXCEPT ![r] = [at |-> "loaded", grade |-> grade, loaded |-> row]]
  /\ UNCHANGED <<card, row, mixed>>

\* A column is sent only when it changes.
Sent(stored, read, computed) == IF computed = read THEN stored ELSE computed

\* Slip: the interval is not among the columns assigned.
UpdatedNoInterval(r, outcome) ==
  {[RowOf(outcome) EXCEPT !.interval = row.interval]}

\* The row after the UPDATE.  An ease that is nudged back to where it was may
\* differ in its last digit, and is then sent.
Updated(r, outcome) ==
  {[ease        |-> ease,
    interval    |-> Sent(row.interval, req[r].loaded.interval, outcome.interval),
    repetitions |-> Sent(row.repetitions, req[r].loaded.repetitions, outcome.repetitions),
    delay       |-> outcome.interval] :
     ease \in {outcome.ease, Sent(row.ease, req[r].loaded.ease, outcome.ease)}}

\* The first review inserts the row: the unique constraint and the foreign key
\* want neither a row nor a deleted card.
Insert(r, outcome) ==
  /\ card /\ row = NoReview /\ req[r].loaded = NoReview
  /\ row' = RowOf(outcome)

\* A later one updates it, unless it is gone.
Update(r, outcome) ==
  /\ row # NoReview /\ req[r].loaded # NoReview
  /\ row' \in Updated(r, outcome)

Review(r) ==
  /\ req[r].at = "loaded"
  /\ \E outcome \in Outcomes(StateOf(req[r].loaded), req[r].grade) :
        Insert(r, outcome) \/ Update(r, outcome)
  /\ End(r)
  /\ mixed' = (mixed \/ row # req[r].loaded)
  /\ UNCHANGED <<card, begun>>

\* The request ends with an error, for whatever reason, and is rolled back:
\* no date for the next review, a constraint, a row that is gone, the database.
Fails(r) ==
  /\ req[r].at = "loaded"
  /\ End(r)
  /\ UNCHANGED <<card, row, begun, mixed>>

\* The card goes with its document or room, and its reviews with the card.
Delete ==
  /\ card
  /\ card' = FALSE
  /\ row'  = NoReview
  /\ UNCHANGED <<req, begun, mixed>>

-----------------------------------------------------------------------------
Next ==
  \/ Delete
  \/ \E r \in Reviewers :
        \/ \E grade \in Grade : Load(r, grade)
        \/ Review(r)
        \/ Fails(r)

Spec == Init /\ [][Next]_vars

-----------------------------------------------------------------------------
\* The types: no negative ease, interval or count is ever stored or read.
TypeOK ==
  /\ card  \in BOOLEAN
  /\ row   \in Row \cup {NoReview}
  /\ req   \in [Reviewers -> [at : {"idle", "loaded"}, grade : Grade,
                               loaded : Row \cup {NoReview}]]
  /\ begun \in 0 .. MaxReviews
  /\ mixed \in BOOLEAN

\* "A chronically-hard card can't collapse to a zero interval" (sm2.py), not
\* even when reviews overlap and their columns mix.
NeverZero == row # NoReview => row.ease >= MinEase /\ row.interval >= 1 /\ row.delay >= 1

\* The next review is a date, and the interval fits its column, however many
\* perfect reviews follow one another.
NextReviewIsADate == row # NoReview => row.delay <= Horizon /\ row.interval <= Horizon

\* Reviews that do not overlap follow the scheme of the module's docstring: one
\* day until the first success, then six, then more; and the next review is
\* the interval away.
OnScheme ==
  ~mixed /\ row # NoReview =>
    /\ row.repetitions <= 1 => row.interval = 1
    /\ row.repetitions = 2  => row.interval = 6
    /\ row.repetitions > 2  => row.interval > 6
    /\ row.delay = row.interval

\* "success: repetitions increment and the interval grows (1 day, 6 days, ...)":
\* after the first success no later one leaves the interval as it was, even at
\* the lowest ease.
SuccessGrows ==
  [][~mixed' /\ row.repetitions >= 1 /\ row'.repetitions > row.repetitions
       => row'.interval > row.interval]_vars

\* The mapping to atomic reviews.
Atomic == INSTANCE SpacedRepetition WITH
  schedule <- IF mixed THEN Mark(-3) ELSE IF card THEN row ELSE Mark(-2)

\* Unless reviews overlap each is one step of SM-2 on the schedule of the card,
\* whatever fails between (review_flashcard).
ReviewsAreAtomic == Atomic!Spec

\* The docstring of sm2.py: a lapse resets "repetitions [...] to 0, interval to
\* 1 day".
LapseRestartsInterval == row # NoReview /\ row.repetitions = 0 => row.interval = 1
=============================================================================
