------------------------------- MODULE Attempts -------------------------------
(***************************************************************************)
(* One attempt at an exam: the requests of its owner that answer questions *)
(* and submit the attempt, in any number at once.                          *)
(*                                                                         *)
(* Every request is a session of its own at READ COMMITTED.  It loads rows *)
(* statement by statement, decides, and its flush sends only the columns   *)
(* that differ from what it loaded, all made visible by one commit.  No    *)
(* row is locked between the load and the flush.  Attempts share nothing   *)
(* but the questions of their exam, so one of them is the whole story; the *)
(* questions come from the task of module ExamGeneration.                  *)
(*                                                                         *)
(* An operator introduced by "Slip:" is no part of the specification but a *)
(* mistaken form of the definition after it.                               *)
(***************************************************************************)
EXTENDS Integers, FiniteSets

CONSTANTS
  Questions,  \* the questions the exam may get
  Options,    \* indices into a question's options
  Choices,    \* values a client may send as selected_index
  Key,        \* correct_index of each question
  Answerers,  \* requests of POST /attempts/{id}/answers
  Submitters  \* requests of POST /attempts/{id}/submit

ASSUME KeyAssumption == Key \in [Questions -> Options]
ASSUME QuestionsAssumption == IsFiniteSet(Questions) /\ "none" \notin Questions
ASSUME OptionsAssumption == Options \subseteq Nat /\ Choices \subseteq Int
ASSUME RequestsAssumption == Answerers \cap Submitters = {}

VARIABLES
  asked,     \* the exam's committed questions
  status,    \* exam_attempts.status
  score,     \* exam_attempts.score, as correct answers out of total
  answers,   \* attempt_answers of each question: the row, or NoRow
  req,       \* what each request has loaded and where it is
  graded,    \* history: the questions that the last submit has graded
  overtaken  \* history: an answer was stored although the attempt is not as it
             \* was when checked, or a submit has graded something out of date

vars == <<asked, status, score, answers, req, graded, overtaken>>

NoRow == [selected |-> -1, correct |-> "NULL"]
Row   == [selected : Options, correct : {"NULL", "YES", "NO"}]

NoScore == [correct |-> 0, total |-> 0]    \* NULL
Score   == [correct : 0 .. Cardinality(Questions), total : 0 .. Cardinality(Questions)]

Requests == Answerers \cup Submitters

Status == {"IN_PROGRESS", "SUBMITTED"}

\* What a request holds: the status that an answer has read, the question and
\* option it is about, the questions a submit will grade and the answer rows
\* that either has loaded.
Fresh == [at |-> "new", seen |-> "IN_PROGRESS", question |-> "none", option |-> -1,
          grading |-> {}, loaded |-> [q \in Questions |-> NoRow]]

Req == [at : {"new", "checked", "listed", "loaded", "done", "graded"}, seen : Status,
        question : Questions \cup {"none"}, option : Options \cup {-1},
        grading : SUBSET Questions, loaded : [Questions -> Row \cup {NoRow}]]

Init ==
  /\ asked   = {}
  /\ status  = "IN_PROGRESS"    \* start_attempt has committed
  /\ score   = NoScore
  /\ answers = [q \in Questions |-> NoRow]
  /\ req     = [r \in Requests |-> Fresh]
  /\ graded  = {}
  /\ overtaken = FALSE

-----------------------------------------------------------------------------
\* The request ends: "graded" is a submit that has committed, "done" an answer
\* that has, and whatever was refused (404, 409, 422) or rolled back.
End(r, at) == req' = [req EXCEPT ![r] = [Fresh EXCEPT !.at = at]]

Refuse(r) ==
  /\ req[r].at \notin {"done", "graded"}
  /\ End(r, "done")
  /\ UNCHANGED <<asked, status, score, answers, graded, overtaken>>

\* The generation task commits a set of questions.  start_attempt does not look
\* at the exam's status, so an attempt may be waiting for the first one; and the
\* task may commit further sets at any time (see FilledOnce of ExamGeneration).
QuestionsArrive(Q) ==
  /\ Q \cap asked = {}
  /\ asked' = asked \cup Q
  /\ UNCHANGED <<status, score, answers, req, graded, overtaken>>

-----------------------------------------------------------------------------
\* submit_answer

\* Slip: no range check on selected_index.
AnswerAny(r, q, o) ==
  /\ req[r].at = "new"
  /\ status # "SUBMITTED"
  /\ q \in asked
  /\ req' = [req EXCEPT ![r] =
       [Fresh EXCEPT !.at = "checked", !.seen = status, !.question = q, !.option = o]]
  /\ UNCHANGED <<asked, status, score, answers, graded, overtaken>>

\* Slip: the status of the attempt is not looked at.
AnswerAnytime(r, q, o) ==
  /\ req[r].at = "new"
  /\ q \in asked
  /\ o \in Options
  /\ req' = [req EXCEPT ![r] =
       [Fresh EXCEPT !.at = "checked", !.seen = status, !.question = q, !.option = o]]
  /\ UNCHANGED <<asked, status, score, answers, graded, overtaken>>

\* The attempt is open, the question is of its exam, the option in range.
AnswerCheck(r, q, o) ==
  /\ req[r].at = "new"
  /\ status # "SUBMITTED"
  /\ q \in asked
  /\ o \in Options
  /\ req' = [req EXCEPT ![r] =
       [Fresh EXCEPT !.at = "checked", !.seen = status, !.question = q, !.option = o]]
  /\ UNCHANGED <<asked, status, score, answers, graded, overtaken>>

AnswerLoad(r) ==
  /\ r \in Answerers /\ req[r].at = "checked"
  /\ req' = [req EXCEPT ![r].at = "loaded",
                        ![r].loaded[req[r].question] = answers[req[r].question]]
  /\ UNCHANGED <<asked, status, score, answers, graded, overtaken>>

\* INSERT, unless a row has come in between (uq_attempt_answers_attempt_question
\* raises, and the request is rolled back), or UPDATE of selected_index, unless
\* it is what was loaded.
AnswerCommit(r) ==
  LET q == req[r].question
      o == req[r].option
      old == req[r].loaded[q]
  IN
  /\ r \in Answerers /\ req[r].at = "loaded"
  /\ \/ old = NoRow /\ answers[q] = NoRow
        /\ answers' = [answers EXCEPT ![q] = [selected |-> o, correct |-> "NULL"]]
     \/ old # NoRow /\ old.selected # o
        /\ answers' = [answers EXCEPT ![q].selected = o]
     \/ old # NoRow /\ old.selected = o
        /\ UNCHANGED answers
  /\ overtaken' = (overtaken \/ (status # req[r].seen /\ answers' # answers))
  /\ End(r, "done")
  /\ UNCHANGED <<asked, status, score, graded>>

-----------------------------------------------------------------------------
\* submit_attempt

SubmitCheck(r) ==
  /\ r \in Submitters /\ req[r].at = "new"
  /\ status # "SUBMITTED"
  /\ req' = [req EXCEPT ![r].at = "checked"]
  /\ UNCHANGED <<asked, status, score, answers, graded, overtaken>>

SubmitList(r) ==
  /\ r \in Submitters /\ req[r].at = "checked"
  /\ asked # {}
  /\ req' = [req EXCEPT ![r].at = "listed", ![r].grading = asked]
  /\ UNCHANGED <<asked, status, score, answers, graded, overtaken>>

SubmitLoad(r) ==
  /\ r \in Submitters /\ req[r].at = "listed"
  /\ req' = [req EXCEPT ![r].at = "loaded", ![r].loaded = answers]
  /\ UNCHANGED <<asked, status, score, answers, graded, overtaken>>

Right(r, q) == req[r].loaded[q].selected = Key[q]
Grade(r, q) == IF Right(r, q) THEN "YES" ELSE "NO"

\* Slip: the score counts what is stored at the commit, not what was graded.
ScoreNow(r) ==
  [correct |-> Cardinality({q \in req[r].grading : answers[q].selected = Key[q]}),
   total   |-> Cardinality(req[r].grading)]

ScoreOf(r) ==
  [correct |-> Cardinality({q \in req[r].grading : Right(r, q)}),
   total   |-> Cardinality(req[r].grading)]

\* Only is_correct is sent, and only where it differs from the loaded value.
\* Status and score were loaded as IN_PROGRESS and NULL, so both are sent.
Graded(r, q) ==
  IF /\ q \in req[r].grading
     /\ req[r].loaded[q] # NoRow
     /\ req[r].loaded[q].correct # Grade(r, q)
  THEN [answers[q] EXCEPT !.correct = Grade(r, q)]
  ELSE answers[q]

\* A submit grades choices that are not the stored ones any more, or questions that
\* are not the exam's any more or, if another submit came first, not those it graded.
Stale(r) ==
  \/ req[r].grading # IF status = "SUBMITTED" THEN graded ELSE asked
  \/ \E q \in req[r].grading : req[r].loaded[q].selected # answers[q].selected

SubmitCommit(r) ==
  /\ r \in Submitters /\ req[r].at = "loaded"
  /\ answers' = [q \in Questions |-> Graded(r, q)]
  /\ status'  = "SUBMITTED"
  /\ score'   = ScoreOf(r)
  /\ graded'  = req[r].grading
  /\ overtaken' = (overtaken \/ Stale(r))
  /\ End(r, "graded")
  /\ UNCHANGED asked

-----------------------------------------------------------------------------
Next ==
  \/ \E Q \in SUBSET Questions \ {{}} : QuestionsArrive(Q)
  \/ \E r \in Answerers, q \in Questions, o \in Choices : AnswerCheck(r, q, o)
  \/ \E r \in Answerers  : AnswerLoad(r) \/ AnswerCommit(r)
  \/ \E r \in Submitters : SubmitCheck(r) \/ SubmitList(r) \/ SubmitLoad(r) \/ SubmitCommit(r)
  \/ \E r \in Requests   : Refuse(r)

Spec == Init /\ [][Next]_vars

-----------------------------------------------------------------------------
TypeOK ==
  /\ asked   \subseteq Questions
  /\ status  \in Status
  /\ score   \in Score
  /\ answers \in [Questions -> Row \cup {NoRow}]
  /\ req     \in [Requests -> Req]
  /\ graded  \subseteq Questions
  /\ overtaken \in BOOLEAN
  /\ \A r \in Answerers : req[r].at \in {"checked", "loaded"} =>
        req[r].question \in Questions /\ req[r].option \in Options

\* An attempt leaves nothing to tell an answer's grade by before it is
\* submitted, whatever requests are under way (AttemptAnswer.is_correct: "NULL
\* while the attempt is in progress").
UngradedInProgress ==
  status = "IN_PROGRESS" => \A q \in Questions : answers[q].correct = "NULL"

RightAnswers == {q \in Questions : answers[q].correct = "YES"}

GradedByOne ==
  \A r, s \in Submitters : req[r].at = "graded" /\ req[s].at = "graded" => r = s

\* Unless two submits went through (see SubmittedIsFinal), the stored grades add up
\* to the stored score, even if answers slip in while the attempt is graded.
ScoreMatchesGrades == GradedByOne => score.correct = Cardinality(RightAnswers)

\* "Este intento ya fue enviado; no admite más respuestas": once an attempt is
\* submitted, none of its answers changes and it is not scored again
\* (submit_answer, submit_attempt).
SubmittedIsFinal ==
  [][status = "SUBMITTED" =>
       /\ score' = score
       /\ \A q \in Questions : answers'[q].selected = answers[q].selected]_vars

\* The attempt as its owner may count on it.
Sheet == [status  |-> IF overtaken THEN "OVERTAKEN" ELSE status,
          answers |-> IF overtaken THEN [q \in Questions |-> NoRow] ELSE answers,
          score   |-> IF overtaken THEN NoScore ELSE score]

Atomic == INSTANCE AtomicAttempt WITH attempt <- Sheet

\* Overlapping answers and submits are answers and submits done one after the
\* other, until one of them is overtaken: an answer that passed the check and is
\* stored after the submit, or a submit that graded other choices than are stored
\* or other questions than the exam has.  In particular a submit that is sent twice
\* does no harm by itself, and the score is over the whole exam.
GradingIsAtomic == Atomic!Spec
=============================================================================
