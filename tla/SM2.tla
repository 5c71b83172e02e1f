---------------------------------- MODULE SM2 ----------------------------------
(***************************************************************************)
(* The arithmetic of one review of a flashcard (compute_sm2).              *)
(*                                                                         *)
(* Ease factors are in hundredths, in which every nudge is whole.  The     *)
(* code's floats drift from that by far less than half a day: a product is *)
(* rounded to a nearest integer, and at a tie to either.                   *)
(***************************************************************************)
EXTENDS Integers

CONSTANT Horizon    \* days from now to the last date that datetime can hold

ASSUME HorizonAssumption == Horizon \in Nat

Grade == 0 .. 5
Lapse == 0 .. 2

MinEase        == 130
FirstInterval  == 1
SecondInterval == 6

\* What a card that was never reviewed is taken to be.
FreshState == [ease |-> 250, interval |-> 0, repetitions |-> 0]

Nudged(ease, grade) == ease + 10 - (5 - grade) * (8 + 2 * (5 - grade))

\* Slip: the floor is 1, at which an interval no longer grows.
EaseFlooredAtOne(ease, grade) ==
  IF Nudged(ease, grade) < 100 THEN 100 ELSE Nudged(ease, grade)

\* Slip: no floor.
EaseUnfloored(ease, grade) == Nudged(ease, grade)

Ease(ease, grade) ==
  IF Nudged(ease, grade) < MinEase THEN MinEase ELSE Nudged(ease, grade)

Repetitions(repetitions, grade) == IF grade \in Lapse THEN 0 ELSE repetitions + 1

\* n hundredths, rounded.
Nearest(n) ==
  {m \in {n \div 100, n \div 100 + 1} : n - 50 <= 100 * m /\ 100 * m <= n + 50}

\* Slip: a first success is not told apart from the third.
IntervalsNoFirst(ease, interval, repetitions) ==
  IF repetitions = 0      THEN {FirstInterval}
  ELSE IF repetitions = 2 THEN {SecondInterval}
  ELSE Nearest(interval * ease)

\* Slip: the repetitions are compared before they are counted.
IntervalsLate(ease, interval, repetitions) ==
  IF repetitions <= 2      THEN {FirstInterval}
  ELSE IF repetitions = 3  THEN {SecondInterval}
  ELSE Nearest(interval * ease)

\* The next interval, of a card with its new ease and repetitions.
Intervals(ease, interval, repetitions) ==
  IF repetitions <= 1      THEN {FirstInterval}
  ELSE IF repetitions = 2  THEN {SecondInterval}
  ELSE Nearest(interval * ease)

\* now + timedelta(days) is a date.
IsADate(days) == days <= Horizon

\* The outcomes of reviewing a card in this state.  There is none when the next
\* review would be beyond the last date: compute_sm2 raises.
Outcomes(state, grade) ==
  LET ease        == Ease(state.ease, grade)
      repetitions == Repetitions(state.repetitions, grade)
  IN {[ease |-> ease, interval |-> i, repetitions |-> repetitions] :
        i \in {j \in Intervals(ease, state.interval, repetitions) : IsADate(j)}}

-----------------------------------------------------------------------------
(***************************************************************************)
(* The row that keeps the schedule of a card for one user; delay stands    *)
(* for its two timestamps: the days from the last review to the next.      *)
(***************************************************************************)
Row == [ease : Nat, interval : Nat, repetitions : Nat, delay : Nat]

Mark(n)  == [ease |-> 0, interval |-> 0, repetitions |-> n, delay |-> 0]
NoReview == Mark(-1)

StateOf(row) ==
  IF row = NoReview THEN FreshState
  ELSE [ease |-> row.ease, interval |-> row.interval, repetitions |-> row.repetitions]

RowOf(outcome) ==
  [ease |-> outcome.ease, interval |-> outcome.interval,
   repetitions |-> outcome.repetitions, delay |-> outcome.interval]
=============================================================================
