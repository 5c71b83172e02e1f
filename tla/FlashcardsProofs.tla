--------------------------- MODULE FlashcardsProofs ----------------------------
(***************************************************************************)
(* Theorems about Flashcards, for any number of requests and any last      *)
(* date.  First what one review computes, then what rows the requests make *)
(* of that, and at last that they are atomic while none overlap.           *)
(***************************************************************************)
EXTENDS Flashcards, TLAPS

-----------------------------------------------------------------------------
(***************************************************************************)
(* The arithmetic of SM-2.                                                 *)
(***************************************************************************)

\* The ease stays an integer and keeps its floor.
LEMMA EaseHasFloor ==
  ASSUME NEW ease \in Int, NEW grade \in Grade
  PROVE  Ease(ease, grade) \in Nat /\ Ease(ease, grade) >= MinEase
<1>1. Nudged(ease, grade) \in Int
  BY DEF Nudged, Grade
<1> QED  BY <1>1 DEF Ease, MinEase

LEMMA NearestIsNear ==
  ASSUME NEW n \in Int, NEW m \in Nearest(n)
  PROVE  m \in Int /\ 100 * m >= n - 50
<1>1. n \div 100 \in Int
  OBVIOUS
<1> QED  BY <1>1 DEF Nearest

\* At the floor of the ease, or above it, an interval does not collapse, and
\* from six days on it grows.
LEMMA ProductGrows ==
  ASSUME NEW interval \in Nat, NEW ease \in Nat, ease >= MinEase, interval >= 1,
         NEW m \in Nearest(interval * ease)
  PROVE  /\ m \in Nat /\ m >= 1
         /\ interval >= 6 => m > interval
<1>1. interval * ease \in Int /\ interval * ease >= 130 * interval
  BY DEF MinEase
<1>2. m \in Int /\ 100 * m >= interval * ease - 50
  BY <1>1, NearestIsNear
<1>3. 100 * m >= 130 * interval - 50
  <2> DEFINE product == interval * ease
  <2>1. product \in Int /\ product >= 130 * interval /\ 100 * m >= product - 50
    BY <1>1, <1>2
  <2> HIDE DEF product
  <2> QED  BY <2>1, <1>2
<1> QED  BY <1>2, <1>3

\* A row that a review may have stored.
Sound(x) ==
  /\ x \in Row
  /\ x.ease >= MinEase
  /\ x.interval \in 1 .. Horizon
  /\ x.delay \in 1 .. Horizon

SoundOrNone(x) == x = NoReview \/ Sound(x)

LEMMA NoReviewIsNoRow == NoReview \notin Row
BY DEF NoReview, Mark, Row

\* What a review computes is sound, and how it follows from what was read.
LEMMA OutcomeOK ==
  ASSUME NEW x, SoundOrNone(x), NEW grade \in Grade,
         NEW outcome \in Outcomes(StateOf(x), grade)
  PROVE  /\ Sound(RowOf(outcome))
         /\ outcome.repetitions <= 1 => outcome.interval = 1
         /\ outcome.repetitions = 2  => outcome.interval = 6
         /\ outcome.repetitions > 2 /\ x.interval >= 6 => outcome.interval > x.interval
         /\ outcome.repetitions \in {0, StateOf(x).repetitions + 1}
<1> DEFINE s    == StateOf(x)
           ease == Ease(s.ease, grade)
           reps == Repetitions(s.repetitions, grade)
<1>1. /\ s.ease \in Nat /\ s.interval \in Nat /\ s.repetitions \in Nat
      /\ s.repetitions >= 1 => s.interval >= 1 /\ s.interval = x.interval
  BY DEF SoundOrNone, Sound, StateOf, FreshState, Row
<1>2. ease \in Nat /\ ease >= MinEase
  BY <1>1, EaseHasFloor
<1>3. reps \in Nat /\ reps \in {0, s.repetitions + 1}
  BY <1>1 DEF Repetitions
<1>4. PICK i \in Intervals(ease, s.interval, reps) :
         IsADate(i) /\ outcome = [ease |-> ease, interval |-> i, repetitions |-> reps]
  BY DEF Outcomes
<1>5. /\ i \in Nat /\ i >= 1
      /\ reps <= 1 => i = 1
      /\ reps = 2  => i = 6
      /\ reps > 2 /\ x.interval >= 6 => i > x.interval
  <2>1. CASE reps <= 2
    BY <1>3, <1>4, <2>1 DEF Intervals, FirstInterval, SecondInterval
  <2>2. CASE reps > 2
    <3>1. s.interval >= 1 /\ s.interval = x.interval
      BY <1>1, <1>3, <2>2
    <3>2. i \in Nearest(s.interval * ease)
      BY <1>3, <1>4, <2>2 DEF Intervals
    <3>3. i \in Nat /\ i >= 1 /\ (s.interval >= 6 => i > s.interval)
      BY <1>1, <1>2, <3>1, <3>2, ProductGrows
    <3> QED  BY <1>3, <2>2, <3>1, <3>3
  <2> QED  BY <1>3, <2>1, <2>2
<1>6. outcome.ease = ease /\ outcome.interval = i /\ outcome.repetitions = reps
  BY <1>4
<1>7. Sound(RowOf(outcome))
  <2>1. i \in 1 .. Horizon
    BY <1>4, <1>5, HorizonAssumption DEF IsADate
  <2> HIDE DEF ease, reps, s
  <2> QED  BY <1>2, <1>3, <1>5, <1>6, <2>1 DEF Sound, RowOf, Row
<1> HIDE DEF ease, reps
<1> QED  BY <1>3, <1>5, <1>6, <1>7

-----------------------------------------------------------------------------
(***************************************************************************)
(* The rows that overlapping requests store are sound, for each of their   *)
(* columns comes from a sound row; and on the scheme while none overlap.   *)
(***************************************************************************)

OnSchemeRow(x) ==
  /\ x.repetitions <= 1 => x.interval = 1
  /\ x.repetitions = 2  => x.interval = 6
  /\ x.repetitions > 2  => x.interval > 6
  /\ x.delay = x.interval

Requests ==
  /\ req \in [Reviewers -> [at : {"idle", "loaded"}, grade : Grade, loaded : Row \cup {NoReview}]]
  /\ \A r \in Reviewers : SoundOrNone(req[r].loaded)

IInv ==
  /\ card \in BOOLEAN /\ begun \in 0 .. MaxReviews /\ mixed \in BOOLEAN
  /\ SoundOrNone(row)
  /\ Requests
  /\ ~card => row = NoReview
  /\ OnScheme

LEMMA InitInv == Init => IInv
<1>1. Idle \in [at : {"idle", "loaded"}, grade : Grade, loaded : Row \cup {NoReview}]
  BY DEF Idle, Grade
<1>2. Idle.loaded = NoReview
  BY DEF Idle
<1>3. Init => Requests
  BY <1>1, <1>2 DEF Init, Requests, SoundOrNone
<1>4. Init => begun \in 0 .. MaxReviews
  BY MaxReviewsAssumption DEF Init
<1>5. Init => card \in BOOLEAN /\ mixed \in BOOLEAN /\ (~card => row = NoReview)
  BY DEF Init
<1>6. Init => SoundOrNone(row) /\ OnScheme
  BY DEF Init, SoundOrNone, OnScheme
<1> QED  BY <1>3, <1>4, <1>5, <1>6 DEF IInv

LEMMA EndKeepsRequests ==
  ASSUME Requests, NEW r \in Reviewers, End(r)
  PROVE  Requests'
<1>1. Idle \in [at : {"idle", "loaded"}, grade : Grade, loaded : Row \cup {NoReview}]
  BY DEF Idle, Grade
<1>2. Idle.loaded = NoReview
  BY DEF Idle
<1> QED  BY <1>1, <1>2 DEF Requests, End, SoundOrNone

\* What a review stores: always sound, and the row of its outcome when the row
\* was still the one it had read.
LEMMA ReviewStores ==
  ASSUME IInv, NEW r \in Reviewers, Review(r)
  PROVE  /\ card /\ Sound(row')
         /\ row = req[r].loaded =>
              \E outcome \in Outcomes(StateOf(row), req[r].grade) : row' = RowOf(outcome)
<1> DEFINE read == req[r].loaded
<1>1. SoundOrNone(row) /\ SoundOrNone(read) /\ req[r].grade \in Grade
  BY DEF IInv, Requests
<1>2. PICK outcome \in Outcomes(StateOf(read), req[r].grade) :
         Insert(r, outcome) \/ Update(r, outcome)
  BY DEF Review
<1>3. Sound(RowOf(outcome))
  BY <1>1, <1>2, OutcomeOK
<1>4. CASE Insert(r, outcome)
  BY <1>2, <1>3, <1>4 DEF Insert
<1>5. CASE Update(r, outcome)
  <2>1. card /\ Sound(row) /\ Sound(read)
    BY <1>1, <1>5 DEF Update, IInv, SoundOrNone
  <2>2. PICK ease \in {outcome.ease, Sent(row.ease, read.ease, outcome.ease)} :
           row' = [ease        |-> ease,
                   interval    |-> Sent(row.interval, read.interval, outcome.interval),
                   repetitions |-> Sent(row.repetitions, read.repetitions, outcome.repetitions),
                   delay       |-> outcome.interval]
    BY <1>5 DEF Update, Updated
  <2>3. /\ outcome.ease \in Nat /\ outcome.ease >= MinEase
        /\ outcome.repetitions \in Nat
        /\ outcome.interval \in 1 .. Horizon
    BY <1>3 DEF Sound, RowOf, Row
  <2>4. Sound(row')
    BY <2>1, <2>2, <2>3, HorizonAssumption DEF Sound, Row, Sent
  <2>5. row = read => row' = RowOf(outcome)
    BY <2>2 DEF Sent, RowOf
  <2> QED  BY <1>2, <2>1, <2>4, <2>5
<1> QED  BY <1>2, <1>4, <1>5

\* A review of the row that it had read keeps to the scheme.
LEMMA CleanReview ==
  ASSUME IInv, NEW r \in Reviewers, Review(r), ~mixed'
  PROVE  /\ ~mixed
         /\ \E outcome \in Outcomes(StateOf(row), req[r].grade) : row' = RowOf(outcome)
         /\ OnSchemeRow(row')
         /\ row.repetitions >= 1 /\ row'.repetitions > row.repetitions
              => row'.interval > row.interval
<1>1. ~mixed /\ row = req[r].loaded
  BY DEF Review, IInv
<1>2. PICK outcome \in Outcomes(StateOf(row), req[r].grade) : row' = RowOf(outcome)
  BY <1>1, ReviewStores
<1>3. SoundOrNone(row) /\ req[r].grade \in Grade
  BY DEF IInv, Requests
<1>4. /\ Sound(RowOf(outcome))
      /\ outcome.repetitions <= 1 => outcome.interval = 1
      /\ outcome.repetitions = 2  => outcome.interval = 6
      /\ outcome.repetitions > 2 /\ row.interval >= 6 => outcome.interval > row.interval
      /\ outcome.repetitions \in {0, StateOf(row).repetitions + 1}
  BY <1>2, <1>3, OutcomeOK
<1>5. outcome.interval \in Int /\ outcome.repetitions \in Nat
  BY <1>4 DEF Sound, RowOf, Row
<1>6. /\ row'.interval = outcome.interval
      /\ row'.repetitions = outcome.repetitions
      /\ row'.delay = outcome.interval
  BY <1>2 DEF RowOf
<1>7. ASSUME row # NoReview
      PROVE  /\ row.repetitions \in Nat /\ row.interval \in Nat
             /\ row.repetitions = 1 => row.interval = 1
             /\ row.repetitions >= 2 => row.interval >= 6
             /\ StateOf(row).repetitions = row.repetitions
  <2>1. row.repetitions \in Nat /\ row.interval \in Nat
    BY <1>3, <1>7 DEF SoundOrNone, Sound, Row
  <2>2. StateOf(row).repetitions = row.repetitions
    BY <1>7 DEF StateOf
  <2> QED  BY <1>1, <1>7, <2>1, <2>2 DEF IInv, OnScheme
<1>8. row = NoReview => outcome.repetitions <= 1 /\ row.repetitions = -1
  BY <1>4 DEF StateOf, FreshState, NoReview, Mark
<1>9. OnSchemeRow(row')
  <2>1. ASSUME outcome.repetitions > 2  PROVE outcome.interval > 6
    <3>1. row # NoReview
      BY <1>5, <1>8, <2>1
    <3>2. row.interval >= 6 /\ row.interval \in Nat
      BY <1>4, <1>5, <1>7, <2>1, <3>1
    <3> QED  BY <1>4, <1>5, <2>1, <3>2
  <2> QED  BY <1>4, <1>6, <2>1 DEF OnSchemeRow
<1>10. ASSUME row.repetitions >= 1, row'.repetitions > row.repetitions
       PROVE  row'.interval > row.interval
  <2>1. row # NoReview
    BY <1>8, <1>10
  <2>2. outcome.repetitions = row.repetitions + 1
    BY <1>4, <1>5, <1>6, <1>7, <1>10, <2>1
  <2>3. CASE row.repetitions = 1
    BY <1>4, <1>6, <1>7, <2>1, <2>2, <2>3
  <2>4. CASE row.repetitions >= 2
    BY <1>4, <1>6, <1>7, <2>1, <2>2, <2>4
  <2> QED  BY <1>7, <1>10, <2>1, <2>3, <2>4
<1> QED  BY <1>1, <1>2, <1>9, <1>10

LEMMA ReviewPreserves ==
  ASSUME IInv, NEW r \in Reviewers, Review(r)
  PROVE  IInv'
<1>1. card /\ Sound(row') /\ UNCHANGED <<card, begun>> /\ mixed' \in BOOLEAN /\ Requests'
  BY ReviewStores, EndKeepsRequests DEF Review, IInv
<1>2. OnScheme'
  BY CleanReview DEF OnScheme, OnSchemeRow
<1> QED  BY <1>1, <1>2 DEF IInv, SoundOrNone

LEMMA NextPreserves ==
  ASSUME IInv, [Next]_vars
  PROVE  IInv'
<1>1. CASE Delete
  BY <1>1 DEF Delete, IInv, SoundOrNone, Requests, OnScheme
<1>2. ASSUME NEW r \in Reviewers, NEW grade \in Grade, Load(r, grade)
      PROVE  IInv'
  <2>1. Requests'
    <3>1. row \in Row \cup {NoReview}
      BY DEF IInv, SoundOrNone, Sound
    <3> QED  BY <1>2, <3>1 DEF Load, Requests, IInv
  <2>2. begun' \in 0 .. MaxReviews
    BY <1>2, MaxReviewsAssumption DEF Load, IInv
  <2> QED  BY <1>2, <2>1, <2>2 DEF Load, IInv, OnScheme
<1>3. ASSUME NEW r \in Reviewers, Fails(r)
      PROVE  IInv'
  BY <1>3, EndKeepsRequests DEF Fails, IInv, OnScheme
<1>4. CASE UNCHANGED vars
  BY <1>4 DEF vars, IInv, SoundOrNone, Requests, OnScheme
<1> QED  BY <1>1, <1>2, <1>3, <1>4, ReviewPreserves DEF Next

LEMMA Invariance == Spec => []IInv
BY InitInv, NextPreserves, PTL DEF Spec

\* No negative ease, interval or count is ever stored or read.
THEOREM TypeCorrect == Spec => []TypeOK
<1>1. IInv => TypeOK
  BY DEF IInv, TypeOK, SoundOrNone, Sound, Requests
<1> QED  BY <1>1, Invariance, PTL

\* No interval collapses, whatever overlaps (compute_sm2's MIN_EASE).
THEOREM IntervalsStayPositive == Spec => []NeverZero
<1>1. IInv => NeverZero
  BY HorizonAssumption DEF IInv, SoundOrNone, Sound, NeverZero
<1> QED  BY <1>1, Invariance, PTL

\* No interval passes the last date, whatever overlaps.
THEOREM IntervalsHaveADate == Spec => []NextReviewIsADate
<1>1. IInv => NextReviewIsADate
  BY HorizonAssumption DEF IInv, SoundOrNone, Sound, NextReviewIsADate
<1> QED  BY <1>1, Invariance, PTL

\* While no reviews overlap the row is on the documented scheme.
THEOREM SchemeHolds == Spec => []OnScheme
<1>1. IInv => OnScheme
  BY DEF IInv
<1> QED  BY <1>1, Invariance, PTL

\* While no reviews overlap, no success after the first leaves the interval as
\* it was (compute_sm2).
THEOREM SuccessesGrow == Spec => SuccessGrows
<1> DEFINE Grows == ~mixed' /\ row.repetitions >= 1 /\ row'.repetitions > row.repetitions
                      => row'.interval > row.interval
<1>1. ASSUME IInv, [Next]_vars  PROVE [Grows]_vars
  <2>1. ASSUME Delete
        PROVE  Grows
    <3>1. row'.repetitions = -1
      BY <2>1 DEF Delete, NoReview, Mark
    <3>2. row.repetitions \in Int
      BY <1>1 DEF IInv, SoundOrNone, Sound, Row, NoReview, Mark
    <3> QED  BY <3>1, <3>2
  <2>2. ASSUME NEW r \in Reviewers, Review(r)
        PROVE  Grows
    BY <1>1, <2>2, CleanReview
  <2>3. ASSUME NEW r \in Reviewers, Fails(r) \/ \E grade \in Grade : Load(r, grade)
        PROVE  Grows
    <3>1. row' = row /\ SoundOrNone(row)
      BY <1>1, <2>3 DEF Fails, Load, IInv
    <3>2. row.repetitions \in Int
      BY <3>1 DEF SoundOrNone, Sound, Row, NoReview, Mark
    <3> QED  BY <3>1, <3>2
  <2> QED  BY <1>1, <2>1, <2>2, <2>3 DEF Next
<1> QED  BY <1>1, Invariance, PTL DEF Spec, SuccessGrows

-----------------------------------------------------------------------------
(***************************************************************************)
(* Reviews implement atomic ones.  A review that finds the row it had read *)
(* is a Review of SpacedRepetition; the first that does not is its         *)
(* Overlap, and a deletion its Delete.                                     *)
(***************************************************************************)

schedule == IF mixed THEN Mark(-3) ELSE IF card THEN row ELSE Mark(-2)

\* The abstract operators are the same.
LEMMA SameOutcomes ==
  ASSUME NEW x, NEW grade
  PROVE  Atomic!Outcomes(Atomic!StateOf(x), grade) = Outcomes(StateOf(x), grade)
BY DEF Atomic!Outcomes, Atomic!StateOf, Atomic!Ease, Atomic!Nudged, Atomic!MinEase,
       Atomic!Repetitions, Atomic!Lapse, Atomic!Intervals, Atomic!Nearest, Atomic!IsADate,
       Atomic!FirstInterval, Atomic!SecondInterval, Atomic!FreshState, Atomic!NoReview, Atomic!Mark,
       Outcomes, StateOf, Ease, Nudged, MinEase, Repetitions, Lapse, Intervals, Nearest, IsADate,
       FirstInterval, SecondInterval, FreshState, NoReview, Mark

LEMMA SameMarks ==
  /\ Atomic!NoReview = NoReview
  /\ Atomic!Deleted = Mark(-2)
  /\ Atomic!Overlapped = Mark(-3)
BY DEF Atomic!NoReview, Atomic!Deleted, Atomic!Overlapped, Atomic!Mark, NoReview, Mark

LEMMA RowIsNoMark ==
  ASSUME SoundOrNone(row)
  PROVE  row # Mark(-2) /\ row # Mark(-3)
BY DEF SoundOrNone, Sound, Row, NoReview, Mark

LEMMA StepImplements ==
  ASSUME IInv, [Next]_vars
  PROVE  [Atomic!Next]_schedule
<1>1. CASE Delete
  <2>1. CASE mixed
    BY <1>1, <2>1 DEF Delete, schedule
  <2>2. CASE ~mixed
    <3>1. schedule = row /\ schedule' = Mark(-2)
      BY <1>1, <2>2 DEF Delete, schedule
    <3>2. Atomic!Delete
      BY <3>1, SameMarks, RowIsNoMark DEF Atomic!Delete, IInv, schedule
    <3> QED  BY <3>2 DEF Atomic!Next
  <2> QED  BY <2>1, <2>2 DEF IInv
<1>2. ASSUME NEW r \in Reviewers, Review(r)
      PROVE  [Atomic!Next]_schedule
  <2>1. CASE mixed'
    <3>1. Atomic!Overlap
      BY <2>1, SameMarks DEF Atomic!Overlap, schedule
    <3> QED  BY <3>1 DEF Atomic!Next
  <2>2. CASE ~mixed'
    <3>1. card /\ ~mixed /\ card' = card
      BY <1>2, <2>2, CleanReview, ReviewStores DEF Review
    <3>2. schedule = row /\ schedule' = row'
      BY <2>2, <3>1 DEF schedule
    <3>3. PICK outcome \in Outcomes(StateOf(row), req[r].grade) : row' = RowOf(outcome)
      BY <1>2, <2>2, CleanReview
    <3>4. outcome \in Atomic!Outcomes(Atomic!StateOf(row), req[r].grade)
      BY <3>3, SameOutcomes
    <3>5. RowOf(outcome) = Atomic!RowOf(outcome)
      BY DEF RowOf, Atomic!RowOf
    <3>6. req[r].grade \in Atomic!Grade
      BY DEF IInv, Requests, Grade, Atomic!Grade
    <3>7. Atomic!Review(req[r].grade)
      BY <3>2, <3>3, <3>4, <3>5, SameMarks, RowIsNoMark DEF Atomic!Review, IInv, schedule
    <3> QED  BY <3>6, <3>7 DEF Atomic!Next
  <2> QED  BY <1>2, <2>1, <2>2
<1>3. ASSUME NEW r \in Reviewers, Fails(r) \/ \E grade \in Grade : Load(r, grade)
      PROVE  UNCHANGED schedule
  BY <1>3 DEF Fails, Load, schedule
<1>4. CASE UNCHANGED vars
  BY <1>4 DEF vars, schedule
<1> QED  BY <1>1, <1>2, <1>3, <1>4 DEF Next

\* The service implements atomic reviews, until two of them overlap.
THEOREM ImplementsAtomicReviews == Spec => ReviewsAreAtomic
<1>1. Init => Atomic!Init
  BY SameMarks DEF Init, Atomic!Init
<1> QED  BY <1>1, StepImplements, Invariance, PTL DEF Spec, ReviewsAreAtomic, Atomic!Spec, schedule
=============================================================================
