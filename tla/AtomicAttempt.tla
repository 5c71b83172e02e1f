----------------------------- MODULE AtomicAttempt -----------------------------
(***************************************************************************)
(* What an attempt at an exam promises to its owner: the last choice for   *)
(* each question counts, the submit grades in one step all that is stored  *)
(* and scores it over the whole exam, and nothing changes afterwards, not  *)
(* even by a second submit (but for submitted_at, which is left out).  It  *)
(* promises nothing any more once a request has been overtaken (Overtake). *)
(* Attempts is shown to implement this.                                    *)
(***************************************************************************)
EXTENDS Integers, FiniteSets

CONSTANTS Questions, Options, Key

VARIABLES
  asked,      \* the questions of the exam
  attempt     \* the attempt, its answers and its score; or Overtaken

NoRow   == [selected |-> -1, correct |-> "NULL"]
NoScore == [correct |-> 0, total |-> 0]

Sheet(status, answers, score) == [status |-> status, answers |-> answers, score |-> score]

Blank     == Sheet("IN_PROGRESS", [q \in Questions |-> NoRow], NoScore)
Overtaken == Sheet("OVERTAKEN", [q \in Questions |-> NoRow], NoScore)

Init ==
  /\ asked = {}
  /\ attempt = Blank

QuestionsArrive(Q) ==
  /\ Q \cap asked = {}
  /\ asked' = asked \cup Q
  /\ UNCHANGED attempt

Answer(q, o) ==
  /\ attempt.status = "IN_PROGRESS"
  /\ q \in asked
  /\ attempt' = [attempt EXCEPT !.answers[q] = [selected |-> o, correct |-> "NULL"]]
  /\ UNCHANGED asked

IsRight(q) == attempt.answers[q].selected = Key[q]

Mark(q) ==
  IF attempt.answers[q] = NoRow
  THEN NoRow
  ELSE [attempt.answers[q] EXCEPT !.correct = IF IsRight(q) THEN "YES" ELSE "NO"]

Submit ==
  /\ attempt.status = "IN_PROGRESS"
  /\ asked # {}
  /\ attempt' = Sheet("SUBMITTED",
                      [q \in Questions |-> Mark(q)],
                      [correct |-> Cardinality({q \in asked : IsRight(q)}),
                       total   |-> Cardinality(asked)])
  /\ UNCHANGED asked

Overtake ==
  /\ attempt' = Overtaken
  /\ UNCHANGED asked

Next ==
  \/ \E Q \in SUBSET Questions \ {{}} : QuestionsArrive(Q)
  \/ \E q \in Questions, o \in Options : Answer(q, o)
  \/ Submit
  \/ Overtake

Spec == Init /\ [][Next]_<<asked, attempt>>
=============================================================================
