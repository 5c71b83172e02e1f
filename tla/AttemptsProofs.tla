---------------------------- MODULE AttemptsProofs ----------------------------
(***************************************************************************)
(* Theorems about Attempts, for any finite set of questions and any        *)
(* requests.                                                               *)
(***************************************************************************)
EXTENDS Attempts, FiniteSetTheorems, TLAPS

USE DEF Status

-----------------------------------------------------------------------------
(***************************************************************************)
(* Type correctness.  A grade is written to a row that was loaded, so the  *)
(* type of answers rests on rows never going away.                         *)
(***************************************************************************)

RowsStay ==
  \A r \in Requests, q \in Questions : req[r].loaded[q] # NoRow => answers[q] # NoRow

TypeInv == TypeOK /\ RowsStay

\* A submit never holds an answer's question, an answer never a submit's list.
ReqOK ==
  /\ req \in [Requests -> Req]
  /\ \A r \in Answerers : req[r].at \in {"checked", "loaded"} =>
        req[r].question \in Questions /\ req[r].option \in Options

StoreOK ==
  /\ asked   \subseteq Questions
  /\ status  \in Status
  /\ score   \in Score
  /\ answers \in [Questions -> Row \cup {NoRow}]
  /\ graded  \subseteq Questions
  /\ overtaken \in BOOLEAN

LEMMA TypeParts == TypeOK <=> StoreOK /\ ReqOK
BY DEF TypeOK, StoreOK, ReqOK

\* The number of elements a subset of the questions may have.
LEMMA SubsetCount ==
  ASSUME NEW S \in SUBSET Questions
  PROVE  IsFiniteSet(S) /\ Cardinality(S) \in 0 .. Cardinality(Questions)
<1>1. IsFiniteSet(S) /\ Cardinality(S) <= Cardinality(Questions)
  BY QuestionsAssumption, FS_Subset
<1> QED  BY <1>1, QuestionsAssumption, FS_CardinalityType

\* A request that ends holds nothing any more.
LEMMA EndType ==
  ASSUME ReqOK, NEW r \in Requests, NEW at \in {"done", "graded"}, End(r, at)
  PROVE  ReqOK' /\ \A q \in Questions : req'[r].loaded[q] = NoRow
<1>1. [Fresh EXCEPT !.at = at] \in Req
  BY DEF Fresh, Req
<1>2. \A q \in Questions : [Fresh EXCEPT !.at = at].loaded[q] = NoRow
  BY DEF Fresh
<1>3. [Fresh EXCEPT !.at = at].at = at
  BY DEF Fresh
<1> QED  BY <1>1, <1>2, <1>3 DEF End, ReqOK, Requests

LEMMA EndRows ==
  ASSUME ReqOK, RowsStay, NEW r \in Requests, NEW at \in {"done", "graded"}, End(r, at),
         \A q \in Questions : answers[q] # NoRow => answers'[q] # NoRow
  PROVE  RowsStay'
<1>1. \A s \in Requests \ {r} : req'[s] = req[s]
  BY DEF End, ReqOK
<1> QED  BY <1>1, EndType DEF RowsStay

\* What AnswerCommit and SubmitCommit write.
LEMMA AnswerWrites ==
  ASSUME TypeOK, NEW r \in Answerers, AnswerCommit(r)
  PROVE  /\ answers' \in [Questions -> Row \cup {NoRow}]
         /\ \A q \in Questions : answers[q] # NoRow => answers'[q] # NoRow
         /\ \A q \in Questions : answers'[q].correct = answers[q].correct
<1>1. req[r].question \in Questions /\ req[r].option \in Options /\ req[r].option # -1
  BY OptionsAssumption DEF TypeOK, AnswerCommit
<1> DEFINE i == req[r].question
           o == req[r].option
<1>2. CASE answers[i] = NoRow /\ answers' = [answers EXCEPT ![i] = [selected |-> o, correct |-> "NULL"]]
  BY <1>1, <1>2 DEF TypeOK, Row, NoRow
<1>3. CASE answers' = [answers EXCEPT ![i].selected = o]
  BY <1>1, <1>3 DEF TypeOK, Row, NoRow
<1>4. CASE answers' = answers
  BY <1>4 DEF TypeOK
<1> QED  BY <1>2, <1>3, <1>4 DEF AnswerCommit

LEMMA GradeWrites ==
  ASSUME TypeInv, NEW r \in Submitters, NEW q \in Questions
  PROVE  /\ Graded(r, q) \in Row \cup {NoRow}
         /\ answers[q] # NoRow => Graded(r, q) # NoRow
<1>1. CASE answers[q] = NoRow
  BY <1>1 DEF TypeInv, RowsStay, Graded, Requests
<1>2. CASE answers[q] # NoRow
  <2>1. answers[q] \in Row
    BY <1>2 DEF TypeInv, TypeOK
  <2>2. [answers[q] EXCEPT !.correct = Grade(r, q)] \in Row
    BY <2>1 DEF Row, Grade
  <2>3. NoRow \notin Row
    BY OptionsAssumption DEF Row, NoRow
  <2> QED  BY <2>1, <2>2, <2>3 DEF Graded
<1> QED  BY <1>1, <1>2

LEMMA InitType == Init => TypeInv
<1> SUFFICES ASSUME Init PROVE TypeInv
  OBVIOUS
<1> USE DEF Init
<1>1. 0 \in 0 .. Cardinality(Questions)
  BY QuestionsAssumption, FS_CardinalityType
<1>2. NoScore \in Score
  BY <1>1 DEF NoScore, Score
<1>3. Fresh \in Req /\ Fresh.at = "new" /\ \A q \in Questions : Fresh.loaded[q] = NoRow
  BY DEF Fresh, Req
<1>4. ReqOK
  BY <1>3 DEF ReqOK, Requests
<1>5. StoreOK
  BY <1>2 DEF StoreOK
<1>6. RowsStay
  BY <1>3 DEF RowsStay
<1> QED  BY <1>4, <1>5, <1>6, TypeParts DEF TypeInv

LEMMA NextType == TypeInv /\ [Next]_vars => TypeInv'
<1> SUFFICES ASSUME TypeOK, StoreOK, ReqOK, RowsStay, [Next]_vars
             PROVE  StoreOK' /\ ReqOK' /\ RowsStay'
  BY TypeParts, PTL DEF TypeInv
<1>1. ASSUME NEW Q \in SUBSET Questions, QuestionsArrive(Q)
      PROVE  StoreOK' /\ ReqOK' /\ RowsStay'
  BY <1>1 DEF QuestionsArrive, StoreOK, ReqOK, RowsStay
<1>2. ASSUME NEW r \in Answerers, NEW q \in Questions, NEW o \in Choices,
             AnswerCheck(r, q, o)
      PROVE  StoreOK' /\ ReqOK' /\ RowsStay'
  <2> DEFINE x == [Fresh EXCEPT !.at = "checked", !.seen = status, !.question = q, !.option = o]
  <2>1. /\ x \in Req /\ x.question = q /\ x.option = o /\ o \in Options
        /\ \A p \in Questions : x.loaded[p] = NoRow
    BY <1>2 DEF Fresh, Req, AnswerCheck, StoreOK
  <2>2. req' = [req EXCEPT ![r] = x] /\ r \in Requests
    BY <1>2 DEF AnswerCheck, Requests
  <2> HIDE DEF x
  <2>3. ReqOK'
    BY <2>1, <2>2 DEF ReqOK, Requests
  <2>4. RowsStay'
    BY <1>2, <2>1, <2>2 DEF RowsStay, ReqOK, AnswerCheck
  <2> QED  BY <1>2, <2>3, <2>4 DEF AnswerCheck, StoreOK
<1>3. ASSUME NEW r \in Answerers, AnswerLoad(r)
      PROVE  StoreOK' /\ ReqOK' /\ RowsStay'
  <2> DEFINE i == req[r].question
             l == [req[r].loaded EXCEPT ![i] = answers[i]]
             x == [req[r] EXCEPT !.at = "loaded", !.loaded = l]
  <2>1. req[r] \in Req /\ i \in Questions /\ r \in Requests
    BY <1>3 DEF ReqOK, Requests, AnswerLoad
  <2>2. req' = [req EXCEPT ![r] = x]
    BY <1>3, <2>1 DEF AnswerLoad, ReqOK
  <2>3. l \in [Questions -> Row \cup {NoRow}]
    BY <2>1 DEF StoreOK, Req
  <2>4. x \in Req /\ x.loaded = l /\ x.question = i /\ x.option = req[r].option
    BY <2>1, <2>3 DEF Req
  <2>5. \A q \in Questions : l[q] # NoRow => answers[q] # NoRow
    BY <2>1 DEF Req, RowsStay
  <2> HIDE DEF x, l
  <2>6. ReqOK'
    BY <1>3, <2>1, <2>2, <2>4 DEF ReqOK, Requests, AnswerLoad
  <2>7. RowsStay'
    BY <1>3, <2>1, <2>2, <2>4, <2>5 DEF RowsStay, ReqOK, AnswerLoad
  <2> QED  BY <1>3, <2>6, <2>7 DEF AnswerLoad, StoreOK
<1>4. ASSUME NEW r \in Answerers, AnswerCommit(r)
      PROVE  StoreOK' /\ ReqOK' /\ RowsStay'
  <2>1. r \in Requests /\ End(r, "done")
    BY <1>4 DEF AnswerCommit, Requests
  <2> QED  BY <1>4, <2>1, EndType, EndRows, AnswerWrites DEF AnswerCommit, StoreOK
<1>5. ASSUME NEW r \in Submitters,
             SubmitCheck(r) \/ SubmitList(r) \/ SubmitLoad(r)
      PROVE  StoreOK' /\ ReqOK' /\ RowsStay'
  <2>1. req[r] \in Req /\ r \in Requests /\ r \notin Answerers
    BY RequestsAssumption DEF ReqOK, Requests
  <2>2. CASE SubmitCheck(r)
    BY <2>1, <2>2 DEF SubmitCheck, StoreOK, ReqOK, RowsStay, Req, Requests
  <2>3. CASE SubmitList(r)
    BY <2>1, <2>3 DEF SubmitList, StoreOK, ReqOK, RowsStay, Req, Requests
  <2>4. CASE SubmitLoad(r)
    BY <2>1, <2>4 DEF SubmitLoad, StoreOK, ReqOK, RowsStay, Req, Requests
  <2> QED  BY <1>5, <2>2, <2>3, <2>4
<1>6. ASSUME NEW r \in Submitters, SubmitCommit(r)
      PROVE  StoreOK' /\ ReqOK' /\ RowsStay'
  <2>1. r \in Requests /\ End(r, "graded") /\ req[r].grading \in SUBSET Questions
    BY <1>6 DEF SubmitCommit, Requests, ReqOK, Req
  <2>2. score' \in Score
    BY <1>6, <2>1, SubsetCount DEF SubmitCommit, ScoreOf, Score
  <2>3. /\ answers' \in [Questions -> Row \cup {NoRow}]
        /\ \A q \in Questions : answers[q] # NoRow => answers'[q] # NoRow
    BY <1>6, GradeWrites DEF SubmitCommit, TypeInv
  <2>4. StoreOK'
    BY <1>6, <2>1, <2>2, <2>3 DEF SubmitCommit, StoreOK
  <2> QED  BY <2>1, <2>3, <2>4, EndType, EndRows
<1>7. ASSUME NEW r \in Requests, Refuse(r)
      PROVE  StoreOK' /\ ReqOK' /\ RowsStay'
  BY <1>7, EndType, EndRows DEF Refuse, StoreOK
<1>8. CASE UNCHANGED vars
  BY <1>8 DEF vars, StoreOK, ReqOK, RowsStay
<1> QED  BY <1>1, <1>2, <1>3, <1>4, <1>5, <1>6, <1>7, <1>8 DEF Next

\* Every reachable state is well typed (submit_answer, submit_attempt).
THEOREM TypeCorrect == Spec => []TypeOK
<1>1. TypeInv => TypeOK
  BY DEF TypeInv
<1> QED  BY <1>1, InitType, NextType, PTL DEF Spec

-----------------------------------------------------------------------------
(***************************************************************************)
(* What a submit relies on: the questions it lists are some of the exam's, *)
(* and no answer is graded as long as nobody has submitted.                *)
(***************************************************************************)

Listed ==
  \A r \in Submitters : req[r].at \in {"listed", "loaded"} =>
     req[r].grading # {} /\ req[r].grading \subseteq asked

Inv == TypeInv /\ UngradedInProgress /\ Listed

LEMMA InitInv == Init => Inv
<1> SUFFICES ASSUME Init PROVE UngradedInProgress /\ Listed
  BY InitType DEF Inv
<1> QED  BY DEF Init, UngradedInProgress, Listed, NoRow, Fresh, Requests

\* The end of a request leaves the lists of the others alone.
LEMMA EndLists ==
  ASSUME ReqOK, Listed, NEW r \in Requests, NEW at \in {"done", "graded"}, End(r, at),
         UNCHANGED asked
  PROVE  Listed'
<1>1. \A s \in Requests \ {r} : req'[s] = req[s]
  BY DEF End, ReqOK
<1>2. req'[r].at = at
  BY DEF End, ReqOK, Fresh
<1> QED  BY <1>1, <1>2 DEF Listed, Requests

LEMMA NextInv == Inv /\ [Next]_vars => Inv'
<1> SUFFICES ASSUME Inv, [Next]_vars
             PROVE  UngradedInProgress' /\ Listed'
  BY NextType DEF Inv
<1>a. TypeOK /\ TypeInv /\ StoreOK /\ ReqOK
  BY TypeParts DEF Inv, TypeInv
<1>b. UngradedInProgress /\ Listed
  BY DEF Inv
<1>1. ASSUME NEW Q \in SUBSET Questions \ {{}}, QuestionsArrive(Q)
      PROVE  UngradedInProgress' /\ Listed'
  BY <1>b, <1>1 DEF QuestionsArrive, UngradedInProgress, Listed
<1>2. ASSUME NEW r \in Answerers,
             AnswerLoad(r) \/ \E q \in Questions, o \in Choices : AnswerCheck(r, q, o)
      PROVE  UngradedInProgress' /\ Listed'
  <2>1. /\ UNCHANGED <<asked, status, score, answers>>
        /\ \A s \in Submitters : req'[s] = req[s]
    BY <1>a, <1>2, RequestsAssumption DEF AnswerLoad, AnswerCheck, ReqOK, Requests
  <2> QED  BY <1>b, <2>1 DEF UngradedInProgress, Listed
<1>3. ASSUME NEW r \in Answerers, AnswerCommit(r)
      PROVE  UngradedInProgress' /\ Listed'
  <2>1. UngradedInProgress'
    BY <1>a, <1>b, <1>3, AnswerWrites DEF AnswerCommit, UngradedInProgress
  <2> QED  BY <1>a, <1>b, <1>3, <2>1, EndLists DEF AnswerCommit, Requests
<1>4. ASSUME NEW r \in Submitters,
             SubmitCheck(r) \/ SubmitList(r) \/ SubmitLoad(r)
      PROVE  UngradedInProgress' /\ Listed'
  <2>1. req[r] \in Req /\ r \in Requests
    BY <1>a DEF ReqOK, Requests
  <2>2. Listed'
    BY <1>a, <1>b, <1>4, <2>1 DEF SubmitCheck, SubmitList, SubmitLoad, Listed, ReqOK, Req, Requests
  <2> QED  BY <1>b, <1>4, <2>2
           DEF SubmitCheck, SubmitList, SubmitLoad, UngradedInProgress
<1>5. ASSUME NEW r \in Submitters, SubmitCommit(r)
      PROVE  UngradedInProgress' /\ Listed'
  <2>1. Listed'
    BY <1>a, <1>b, <1>5, EndLists DEF SubmitCommit, Requests
  <2> QED  BY <1>5, <2>1 DEF SubmitCommit, UngradedInProgress
<1>6. ASSUME NEW r \in Requests, Refuse(r)
      PROVE  UngradedInProgress' /\ Listed'
  BY <1>a, <1>b, <1>6, EndLists DEF Refuse, UngradedInProgress
<1>7. CASE UNCHANGED vars
  BY <1>b, <1>7 DEF vars, UngradedInProgress, Listed
<1> QED  BY <1>1, <1>2, <1>3, <1>4, <1>5, <1>6, <1>7 DEF Next

\* Whatever requests are under way, an attempt that is not submitted has no
\* grades (AttemptAnswer.is_correct).
THEOREM NothingGradedEarly == Spec => []UngradedInProgress
<1>1. Inv => UngradedInProgress
  BY DEF Inv
<1> QED  BY <1>1, InitInv, NextInv, PTL DEF Spec

-----------------------------------------------------------------------------
(***************************************************************************)
(* The grades add up.  Until a submit goes through no row is graded, so it *)
(* grades every row it has loaded; rows that change or come in meanwhile   *)
(* keep the grade they have.  After it, a second one ends GradedByOne.     *)
(***************************************************************************)

GradedOnce ==
  /\ status = "IN_PROGRESS" =>
        /\ score.correct = 0
        /\ \A r \in Submitters : req[r].at = "loaded" =>
              \A q \in Questions : req[r].loaded[q].correct = "NULL"
  /\ status = "SUBMITTED" => \E r \in Submitters : req[r].at = "graded"

GradeInv == Inv /\ GradedOnce /\ ScoreMatchesGrades

LEMMA InitGrades == Init => GradeInv
<1> SUFFICES ASSUME Init PROVE GradedOnce /\ ScoreMatchesGrades
  BY InitInv DEF GradeInv
<1>1. RightAnswers = {}
  BY DEF Init, RightAnswers, NoRow
<1> QED  BY <1>1, FS_EmptySet
         DEF Init, GradedOnce, ScoreMatchesGrades, NoScore, Fresh, Requests

\* Steps that touch neither the grades nor a submit that has committed.
LEMMA GradesKept ==
  ASSUME GradedOnce, ScoreMatchesGrades, UNCHANGED <<status, score>>,
         \A q \in Questions : answers'[q].correct = answers[q].correct,
         \A r \in Submitters : req'[r] = req[r] \/ (req'[r].at = "done" /\ req[r].at # "graded")
  PROVE  GradedOnce' /\ ScoreMatchesGrades'
<1>1. RightAnswers' = RightAnswers
  BY DEF RightAnswers
<1>2. \A r \in Submitters : req'[r].at = "graded" <=> req[r].at = "graded"
  OBVIOUS
<1>3. ScoreMatchesGrades'
  BY <1>1, <1>2 DEF ScoreMatchesGrades, GradedByOne
<1>4. GradedOnce'
  BY <1>2 DEF GradedOnce
<1> QED  BY <1>3, <1>4

LEMMA EndOthers ==
  ASSUME ReqOK, NEW r \in Requests, NEW at \in {"done", "graded"}, End(r, at)
  PROVE  req'[r].at = at /\ \A s \in Requests \ {r} : req'[s] = req[s]
BY DEF End, ReqOK, Fresh

\* A row that the first submit has loaded is graded right by its commit, any
\* other row keeps the absence of a grade.
LEMMA CommitGrades ==
  ASSUME GradeInv, NEW r \in Submitters, SubmitCommit(r), status = "IN_PROGRESS"
  PROVE  RightAnswers' = {q \in req[r].grading : Right(r, q)}
<1>a. /\ TypeInv /\ TypeOK /\ UngradedInProgress /\ Listed /\ GradedOnce
      /\ r \in Requests /\ req[r] \in Req
  BY DEF GradeInv, Inv, TypeInv, TypeOK, Requests
<1>b. req[r].at = "loaded"
  BY DEF SubmitCommit
<1>1. \A q \in Questions : answers'[q] = Graded(r, q) /\ answers[q].correct = "NULL"
  BY <1>a DEF SubmitCommit, UngradedInProgress
<1> SUFFICES ASSUME NEW q \in Questions
             PROVE  answers'[q].correct = "YES" <=> q \in req[r].grading /\ Right(r, q)
  BY <1>a DEF RightAnswers, Req
<1>2. req[r].loaded[q].correct = "NULL" /\ Key[q] \in Options
  BY <1>a, <1>b, KeyAssumption DEF GradedOnce
<1>3. CASE q \in req[r].grading /\ req[r].loaded[q] # NoRow
  <2>1. answers[q] \in Row
    BY <1>a, <1>3 DEF TypeOK, TypeInv, RowsStay
  <2>2. Graded(r, q) = [answers[q] EXCEPT !.correct = Grade(r, q)]
    BY <1>2, <1>3 DEF Graded, Grade
  <2> QED  BY <1>1, <1>3, <2>1, <2>2 DEF Grade, Row
<1>4. CASE req[r].loaded[q] = NoRow
  <2>1. ~Right(r, q)
    BY <1>2, <1>4, OptionsAssumption DEF Right, NoRow
  <2> QED  BY <1>1, <1>4, <2>1 DEF Graded
<1>5. CASE q \notin req[r].grading
  BY <1>1, <1>5 DEF Graded
<1> QED  BY <1>3, <1>4, <1>5

LEMMA NextGrades == GradeInv /\ [Next]_vars => GradeInv'
<1> SUFFICES ASSUME GradeInv, [Next]_vars
             PROVE  GradedOnce' /\ ScoreMatchesGrades'
  BY NextInv DEF GradeInv
<1>a. Inv /\ TypeOK /\ StoreOK /\ ReqOK /\ GradedOnce /\ ScoreMatchesGrades
  BY TypeParts DEF GradeInv, Inv, TypeInv
<1>1. ASSUME NEW Q \in SUBSET Questions, QuestionsArrive(Q)
      PROVE  GradedOnce' /\ ScoreMatchesGrades'
  BY <1>a, <1>1, GradesKept DEF QuestionsArrive
<1>2. ASSUME NEW r \in Answerers,
             AnswerLoad(r) \/ \E q \in Questions, o \in Choices : AnswerCheck(r, q, o)
      PROVE  GradedOnce' /\ ScoreMatchesGrades'
  <2>1. \A s \in Submitters : req'[s] = req[s]
    BY <1>a, <1>2, RequestsAssumption DEF AnswerLoad, AnswerCheck, ReqOK, Requests
  <2> QED  BY <1>a, <1>2, <2>1, GradesKept DEF AnswerLoad, AnswerCheck
<1>3. ASSUME NEW r \in Answerers, AnswerCommit(r)
      PROVE  GradedOnce' /\ ScoreMatchesGrades'
  <2>1. \A s \in Submitters : req'[s] = req[s]
    BY <1>a, <1>3, EndOthers, RequestsAssumption DEF AnswerCommit, Requests
  <2>2. \A q \in Questions : answers'[q].correct = answers[q].correct
    BY <1>a, <1>3, AnswerWrites
  <2>3. UNCHANGED <<status, score>>
    BY <1>3 DEF AnswerCommit
  <2> QED  BY <1>a, <2>1, <2>2, <2>3, GradesKept
<1>4. ASSUME NEW r \in Submitters, SubmitCheck(r) \/ SubmitList(r) \/ SubmitLoad(r)
      PROVE  GradedOnce' /\ ScoreMatchesGrades'
  <2>1. UNCHANGED <<status, score, answers>>
    BY <1>4 DEF SubmitCheck, SubmitList, SubmitLoad
  <2>2. /\ \A s \in Submitters \ {r} : req'[s] = req[s]
        /\ req[r].at # "graded" /\ req'[r].at # "graded"
        /\ req'[r].at = "loaded" => \A q \in Questions : req'[r].loaded[q] = answers[q]
    BY <1>a, <1>4 DEF SubmitCheck, SubmitList, SubmitLoad, ReqOK, Requests, Req
  <2>3. \A s \in Submitters : req'[s].at = "graded" <=> req[s].at = "graded"
    BY <2>2
  <2>4. GradedOnce'
    BY <1>a, <2>1, <2>2, <2>3 DEF GradedOnce, Inv, UngradedInProgress
  <2>5. ScoreMatchesGrades'
    BY <1>a, <2>1, <2>3 DEF ScoreMatchesGrades, GradedByOne, RightAnswers
  <2> QED  BY <2>4, <2>5
<1>5. ASSUME NEW r \in Submitters, SubmitCommit(r)
      PROVE  GradedOnce' /\ ScoreMatchesGrades'
  <2>1. /\ req[r].at = "loaded" /\ req'[r].at = "graded" /\ status' = "SUBMITTED"
        /\ \A s \in Submitters \ {r} : req'[s] = req[s]
    BY <1>a, <1>5, EndOthers DEF SubmitCommit, Requests
  <2>2. GradedOnce'
    BY <2>1 DEF GradedOnce
  <2>3. CASE status = "IN_PROGRESS"
    <3>1. RightAnswers' = {q \in req[r].grading : Right(r, q)}
      BY <1>5, <2>3, CommitGrades
    <3> QED  BY <1>5, <2>2, <3>1 DEF SubmitCommit, ScoreOf, ScoreMatchesGrades
  <2>4. CASE status = "SUBMITTED"
    <3>1. PICK s \in Submitters : req[s].at = "graded"
      BY <1>a, <2>4 DEF GradedOnce
    <3>2. s # r /\ req'[s].at = "graded"
      BY <2>1, <3>1
    <3>3. ~GradedByOne'
      BY <2>1, <3>2 DEF GradedByOne
    <3> QED  BY <2>2, <3>3 DEF ScoreMatchesGrades
  <2> QED  BY <1>a, <2>3, <2>4 DEF TypeOK
<1>6. ASSUME NEW r \in Requests, Refuse(r)
      PROVE  GradedOnce' /\ ScoreMatchesGrades'
  <2>1. \A s \in Submitters : req'[s] = req[s] \/ (req'[s].at = "done" /\ req[s].at # "graded")
    BY <1>a, <1>6, EndOthers DEF Refuse, Requests
  <2>2. UNCHANGED <<status, score, answers>>
    BY <1>6 DEF Refuse
  <2> QED  BY <1>a, <2>1, <2>2, GradesKept
<1>7. CASE UNCHANGED vars
  BY <1>a, <1>7, GradesKept DEF vars
<1> QED  BY <1>1, <1>2, <1>3, <1>4, <1>5, <1>6, <1>7 DEF Next

\* If only one submit goes through, the stored grades add up to the stored score,
\* however many answers and refused submits race with it (submit_attempt).
THEOREM GradesAddUp == Spec => []ScoreMatchesGrades
<1>1. GradeInv => ScoreMatchesGrades
  BY DEF GradeInv
<1> QED  BY <1>1, InitGrades, NextGrades, PTL DEF Spec

-----------------------------------------------------------------------------
(***************************************************************************)
(* The attempt is graded in one step, until a request is overtaken.  A     *)
(* submit that finds the choices it has loaded still stored marks exactly  *)
(* what is stored; if it is not the first, what it writes is there already.*)
(***************************************************************************)

\* Only questions of the exam are answered, or about to be by a request that
\* has found the attempt in progress.
AskedOnly ==
  /\ \A r \in Answerers : req[r].at \in {"checked", "loaded"} =>
        req[r].question \in asked /\ req[r].seen = "IN_PROGRESS"
  /\ \A q \in Questions : answers[q] # NoRow => q \in asked

IsRight(q) == answers[q].selected = Key[q]

Marked(q) ==
  IF answers[q] = NoRow
  THEN NoRow
  ELSE [answers[q] EXCEPT !.correct = IF IsRight(q) THEN "YES" ELSE "NO"]

Result(S) == [correct |-> Cardinality({q \in S : IsRight(q)}), total |-> Cardinality(S)]

\* A submitted attempt is marked as it stands, and nothing else is answered.
Settled ==
  status = "SUBMITTED" /\ ~overtaken =>
     /\ score = Result(graded)
     /\ \A q \in Questions : answers[q] = Marked(q)
     /\ \A q \in Questions : answers[q] # NoRow => q \in graded

SheetInv == GradeInv /\ AskedOnly /\ Settled

LEMMA SheetFacts ==
  ASSUME SheetInv
  PROVE  /\ TypeOK /\ TypeInv /\ StoreOK /\ ReqOK /\ RowsStay
         /\ UngradedInProgress /\ Listed /\ GradedOnce /\ AskedOnly /\ Settled
BY TypeParts DEF SheetInv, GradeInv, Inv, TypeInv

LEMMA InitSheet == Init => SheetInv
<1> SUFFICES ASSUME Init PROVE AskedOnly /\ Settled
  BY InitGrades DEF SheetInv
<1> QED  BY DEF Init, AskedOnly, Settled, Fresh, Requests

\* What a submit that is not stale writes.
LEMMA CommitMarks ==
  ASSUME SheetInv, NEW r \in Submitters, SubmitCommit(r), ~Stale(r), ~overtaken
  PROVE  /\ answers' = [q \in Questions |-> Marked(q)]
         /\ score' = Result(graded')
         /\ \A q \in Questions : answers[q] # NoRow => q \in graded'
<1>a. TypeOK /\ RowsStay /\ Listed /\ GradedOnce /\ AskedOnly /\ Settled /\ r \in Requests
  BY SheetFacts DEF Requests
<1> DEFINE G == req[r].grading
<1>b. req[r].at = "loaded" /\ graded' = G /\ G \subseteq Questions
  BY <1>a DEF SubmitCommit, Listed, TypeOK
<1>c. \A q \in Questions : answers[q] # NoRow => q \in G
  BY <1>a DEF Stale, AskedOnly, Settled, TypeOK
<1>1. \A q \in G : req[r].loaded[q].selected = answers[q].selected
  BY DEF Stale
<1>2. {q \in G : Right(r, q)} = {q \in G : IsRight(q)}
  BY <1>1 DEF Right, IsRight
<1>3. ASSUME NEW q \in Questions
      PROVE  Graded(r, q) = Marked(q)
  <2>1. CASE answers[q] = NoRow
    BY <1>a, <2>1 DEF RowsStay, Graded, Marked
  <2>2. CASE answers[q] # NoRow
    <3>1. q \in G /\ answers[q] \in Row
      BY <1>a, <1>c, <2>2 DEF TypeOK
    <3>2. req[r].loaded[q] # NoRow
      BY <1>1, <3>1, OptionsAssumption DEF Row, NoRow
    <3>3. Grade(r, q) = IF IsRight(q) THEN "YES" ELSE "NO"
      BY <1>1, <3>1 DEF Grade, Right, IsRight
    <3>4. CASE req[r].loaded[q].correct # Grade(r, q)
      BY <1>b, <2>2, <3>1, <3>2, <3>3, <3>4 DEF Graded, Marked
    <3>5. CASE req[r].loaded[q].correct = Grade(r, q)
      <4>1. status = "SUBMITTED"
        BY <1>a, <1>b, <3>5 DEF GradedOnce, Grade, TypeOK
      <4>2. answers[q] = Marked(q)
        BY <1>a, <4>1 DEF Settled
      <4> QED  BY <3>5, <4>2 DEF Graded
    <3> QED  BY <3>4, <3>5
  <2> QED  BY <2>1, <2>2
<1>4. score' = Result(G)
  BY <1>2 DEF SubmitCommit, ScoreOf, Result
<1> QED  BY <1>b, <1>c, <1>3, <1>4 DEF SubmitCommit

\* To mark twice is to mark once.
LEMMA MarkedStays ==
  ASSUME TypeOK, answers' = [q \in Questions |-> Marked(q)]
  PROVE  \A q \in Questions : /\ IsRight(q)' = IsRight(q)
                              /\ answers'[q] = Marked(q)'
                              /\ answers'[q] # NoRow => answers[q] # NoRow
<1> SUFFICES ASSUME NEW q \in Questions
             PROVE  /\ IsRight(q)' = IsRight(q)
                    /\ answers'[q] = Marked(q)'
                    /\ answers'[q] # NoRow => answers[q] # NoRow
  OBVIOUS
<1>1. CASE answers[q] = NoRow
  BY <1>1 DEF Marked, IsRight
<1>2. CASE answers[q] # NoRow
  <2>1. answers[q] \in Row
    BY <1>2 DEF TypeOK
  <2>2. answers'[q] = [selected |-> answers[q].selected,
                       correct  |-> IF IsRight(q) THEN "YES" ELSE "NO"]
    BY <1>2, <2>1 DEF Marked, Row
  <2>3. answers'[q] # NoRow /\ IsRight(q)' = IsRight(q)
    BY <2>2 DEF NoRow, IsRight
  <2> QED  BY <1>2, <2>2, <2>3 DEF Marked
<1> QED  BY <1>1, <1>2

\* What an answer writes while the attempt is open, and after.
LEMMA AnswerStores ==
  ASSUME SheetInv, NEW r \in Answerers, AnswerCommit(r)
  PROVE  /\ req[r].question \in asked /\ req[r].option \in Options
         /\ \/ UNCHANGED answers
            \/ /\ status = "IN_PROGRESS" \/ overtaken'
               /\ status = "IN_PROGRESS" =>
                    answers' = [answers EXCEPT ![req[r].question] =
                                  [selected |-> req[r].option, correct |-> "NULL"]]
<1> DEFINE i == req[r].question
           o == req[r].option
<1>a. TypeOK /\ RowsStay /\ UngradedInProgress /\ AskedOnly /\ r \in Requests
  BY SheetFacts DEF Requests
<1>1. /\ i \in asked /\ i \in Questions /\ o \in Options
      /\ req[r].seen = "IN_PROGRESS"
  BY <1>a DEF AnswerCommit, AskedOnly, TypeOK
<1>2. CASE answers' = [answers EXCEPT ![i] = [selected |-> o, correct |-> "NULL"]]
  BY <1>a, <1>1, <1>2 DEF AnswerCommit, TypeOK
<1>3. CASE req[r].loaded[i] # NoRow /\ answers' = [answers EXCEPT ![i].selected = o]
  <2>1. answers[i] \in Row
    BY <1>a, <1>1, <1>3 DEF RowsStay, TypeOK
  <2>2. ASSUME status = "IN_PROGRESS"
        PROVE  [answers[i] EXCEPT !.selected = o] = [selected |-> o, correct |-> "NULL"]
    BY <1>a, <1>1, <2>1, <2>2 DEF UngradedInProgress, Row
  <2> QED  BY <1>a, <1>1, <1>3, <2>2 DEF AnswerCommit, TypeOK
<1>4. CASE UNCHANGED answers
  BY <1>1, <1>4
<1> QED  BY <1>2, <1>3, <1>4 DEF AnswerCommit

LEMMA NextSheet == SheetInv /\ [Next]_vars => SheetInv'
<1> SUFFICES ASSUME SheetInv, [Next]_vars
             PROVE  AskedOnly' /\ Settled'
  BY NextGrades DEF SheetInv
<1>a. TypeOK /\ TypeInv /\ ReqOK /\ RowsStay /\ Listed /\ AskedOnly /\ Settled
  BY SheetFacts
<1>1. ASSUME NEW Q \in SUBSET Questions \ {{}}, QuestionsArrive(Q)
      PROVE  AskedOnly' /\ Settled'
  BY <1>a, <1>1 DEF QuestionsArrive, AskedOnly, Settled, Result, Marked, IsRight
<1>2. ASSUME UNCHANGED <<status, score, answers, graded, overtaken>>
      PROVE  Settled'
  BY <1>a, <1>2 DEF Settled, Result, Marked, IsRight
<1>3. ASSUME NEW r \in Answerers,
             AnswerLoad(r) \/ \E q \in Questions, o \in Choices : AnswerCheck(r, q, o)
      PROVE  AskedOnly' /\ Settled'
  <2>1. UNCHANGED <<asked, status, score, answers, graded, overtaken>>
    BY <1>3 DEF AnswerLoad, AnswerCheck
  <2>2. /\ \A s \in Answerers \ {r} : req'[s] = req[s]
        /\ req'[r].question \in asked /\ req'[r].seen = "IN_PROGRESS"
    <3>1. r \in Requests /\ req[r] \in Req
      BY <1>a DEF ReqOK, Requests
    <3>2. CASE AnswerLoad(r)
      BY <1>a, <3>1, <3>2 DEF AnswerLoad, AskedOnly, ReqOK, Requests, Req
    <3>3. ASSUME NEW q \in Questions, NEW o \in Choices, AnswerCheck(r, q, o)
          PROVE  /\ \A s \in Answerers \ {r} : req'[s] = req[s]
                 /\ req'[r].question \in asked /\ req'[r].seen = "IN_PROGRESS"
      BY <1>a, <3>1, <3>3 DEF AnswerCheck, ReqOK, Requests, Fresh, TypeOK
    <3> QED  BY <1>3, <3>2, <3>3
  <2> QED  BY <1>2, <1>a, <2>1, <2>2 DEF AskedOnly
<1>4. ASSUME NEW r \in Answerers, AnswerCommit(r)
      PROVE  AskedOnly' /\ Settled'
  <2>1. \A s \in Answerers : req'[s] = req[s] \/ req'[s].at = "done"
    BY <1>a, <1>4, EndOthers DEF AnswerCommit, Requests
  <2>2. \A q \in Questions : answers'[q] # NoRow => q \in asked
    <3>1. \A q \in Questions \ {req[r].question} : answers'[q] = answers[q]
      BY <1>a, <1>4 DEF AnswerCommit, TypeOK
    <3> QED  BY <1>a, <1>4, <3>1, AnswerStores DEF AskedOnly
  <2>3. AskedOnly'
    BY <1>a, <1>4, <2>1, <2>2 DEF AskedOnly, AnswerCommit
  <2>4. CASE UNCHANGED answers
    BY <1>2, <1>a, <1>4, <2>3, <2>4 DEF AnswerCommit, Settled, Result, Marked, IsRight
  <2>5. CASE status = "IN_PROGRESS" \/ overtaken'
    BY <1>4, <2>3, <2>5 DEF AnswerCommit, Settled
  <2> QED  BY <1>4, <2>4, <2>5, AnswerStores
<1>5. ASSUME NEW r \in Submitters,
             SubmitCheck(r) \/ SubmitList(r) \/ SubmitLoad(r)
      PROVE  AskedOnly' /\ Settled'
  <2>1. /\ UNCHANGED <<asked, status, score, answers, graded, overtaken>>
        /\ \A s \in Answerers : req'[s] = req[s]
    BY <1>a, <1>5, RequestsAssumption DEF SubmitCheck, SubmitList, SubmitLoad, ReqOK, Requests
  <2> QED  BY <1>2, <1>a, <2>1 DEF AskedOnly
<1>6. ASSUME NEW r \in Submitters, SubmitCommit(r)
      PROVE  AskedOnly' /\ Settled'
  <2>1. \A s \in Answerers : req'[s] = req[s]
    BY <1>a, <1>6, EndOthers, RequestsAssumption DEF SubmitCommit, Requests
  <2>2. \A q \in Questions : answers'[q] # NoRow => answers[q] # NoRow
    BY <1>a, <1>6 DEF SubmitCommit, Graded, RowsStay, Requests
  <2>3. AskedOnly'
    BY <1>a, <1>6, <2>1, <2>2 DEF AskedOnly, SubmitCommit
  <2>4. ASSUME ~overtaken'
        PROVE  /\ score' = Result(graded)'
               /\ \A q \in Questions : answers'[q] = Marked(q)'
               /\ \A q \in Questions : answers'[q] # NoRow => q \in graded'
    <3>1. /\ answers' = [q \in Questions |-> Marked(q)]
          /\ score' = Result(graded')
          /\ \A q \in Questions : answers[q] # NoRow => q \in graded'
      BY <1>6, <2>4, CommitMarks DEF SubmitCommit
    <3>2. /\ \A q \in Questions : IsRight(q)' = IsRight(q) /\ answers'[q] = Marked(q)'
          /\ \A q \in Questions : answers'[q] # NoRow => q \in graded'
      <4>1. \A q \in Questions : /\ IsRight(q)' = IsRight(q)
                                 /\ answers'[q] = Marked(q)'
                                 /\ answers'[q] # NoRow => answers[q] # NoRow
        BY <1>a, <3>1, MarkedStays
      <4>2. \A q \in Questions : answers'[q] # NoRow => q \in graded'
        BY <3>1, <4>1
      <4>3. \A q \in Questions : IsRight(q)' = IsRight(q) /\ answers'[q] = Marked(q)'
        BY <4>1
      <4> QED  BY <4>2, <4>3
    <3>3. {q \in graded : IsRight(q)}' = {q \in graded' : IsRight(q)}
      <4>1. graded' \subseteq Questions
        BY <1>a, <1>6 DEF SubmitCommit, ReqOK, Req, Requests
      <4> QED  BY <3>2, <4>1
    <3> QED  BY <3>1, <3>2, <3>3 DEF Result
  <2> QED  BY <2>3, <2>4 DEF Settled
<1>7. ASSUME NEW r \in Requests, Refuse(r)
      PROVE  AskedOnly' /\ Settled'
  <2>1. \A s \in Answerers : req'[s] = req[s] \/ req'[s].at = "done"
    BY <1>a, <1>7, EndOthers DEF Refuse, Requests
  <2> QED  BY <1>2, <1>a, <1>7, <2>1 DEF Refuse, AskedOnly
<1>8. CASE UNCHANGED vars
  BY <1>2, <1>a, <1>8 DEF vars, AskedOnly
<1> QED  BY <1>1, <1>3, <1>4, <1>5, <1>6, <1>7, <1>8 DEF Next

LEMMA InitImplements == Init => Atomic!Init
BY DEF Init, Sheet, Atomic!Init, Atomic!Blank, Atomic!Sheet, Atomic!NoRow, Atomic!NoScore,
       NoRow, NoScore

LEMMA AnswerImplements ==
  ASSUME SheetInv, NEW r \in Answerers, AnswerCommit(r), ~overtaken'
  PROVE  (\E q \in Questions, o \in Options : Atomic!Answer(q, o)) \/ UNCHANGED <<asked, Sheet>>
<1> DEFINE q == req[r].question
           o == req[r].option
<1>1. ~overtaken /\ UNCHANGED <<asked, status, score>>
  BY DEF AnswerCommit
<1>2. CASE UNCHANGED answers
  BY <1>1, <1>2 DEF AnswerCommit, Sheet
<1>3. CASE /\ status = "IN_PROGRESS"
           /\ answers' = [answers EXCEPT ![q] = [selected |-> o, correct |-> "NULL"]]
  <2>1. Sheet.status = "IN_PROGRESS"
    BY <1>1, <1>3 DEF Sheet
  <2>2. Sheet' = [Sheet EXCEPT !.answers[q] = [selected |-> o, correct |-> "NULL"]]
    BY <1>1, <1>3 DEF Sheet
  <2>3. q \in Questions /\ q \in asked /\ o \in Options
    BY AnswerStores, SheetFacts DEF TypeOK
  <2> QED  BY <1>1, <2>1, <2>2, <2>3 DEF Atomic!Answer
<1> QED  BY <1>2, <1>3, AnswerStores

LEMMA SameCount ==
  ASSUME NEW S
  PROVE  Atomic!Cardinality(S) = Cardinality(S)
BY DEF Atomic!Cardinality, Cardinality

LEMMA SubmitImplements ==
  ASSUME SheetInv, NEW r \in Submitters, SubmitCommit(r), ~overtaken'
  PROVE  Atomic!Submit \/ UNCHANGED <<asked, Sheet>>
<1>a. TypeOK /\ Listed /\ Settled /\ ~Stale(r)
  BY SheetFacts DEF SubmitCommit
<1>1. /\ answers' = [q \in Questions |-> Marked(q)]
      /\ score' = Result(graded') /\ graded' = req[r].grading
      /\ ~overtaken /\ status' = "SUBMITTED" /\ UNCHANGED asked
  BY CommitMarks DEF SubmitCommit
<1>2. CASE status = "SUBMITTED"
  <2>1. score' = score /\ answers' = answers
    BY <1>a, <1>1, <1>2 DEF Settled, Stale, TypeOK
  <2> QED  BY <1>1, <1>2, <2>1 DEF Sheet, SubmitCommit
<1>3. CASE status = "IN_PROGRESS"
  <2>0. graded' = asked
    BY <1>a, <1>1, <1>3 DEF Stale
  <2>1. Sheet.status = "IN_PROGRESS" /\ Sheet.answers = answers
    BY <1>1, <1>3 DEF Sheet
  <2>2. \A q \in Questions : Atomic!Mark(q) = Marked(q) /\ (Atomic!IsRight(q) <=> IsRight(q))
    BY <2>1 DEF Atomic!Mark, Atomic!IsRight, Atomic!NoRow, Marked, IsRight, NoRow
  <2>3. {q \in asked : Atomic!IsRight(q)} = {q \in asked : IsRight(q)}
    BY <1>a, <2>2 DEF TypeOK
  <2>4. Sheet' = Atomic!Sheet("SUBMITTED", [q \in Questions |-> Atomic!Mark(q)],
                              [correct |-> Atomic!Cardinality({q \in asked : Atomic!IsRight(q)}),
                               total   |-> Atomic!Cardinality(asked)])
    BY <1>1, <2>0, <2>2, <2>3, SameCount DEF Sheet, Atomic!Sheet, Result, SubmitCommit
  <2>5. asked # {}
    BY <1>a, <1>1, <2>0 DEF SubmitCommit, Listed
  <2> QED  BY <1>1, <2>1, <2>4, <2>5 DEF Atomic!Submit
<1> QED  BY <1>a, <1>2, <1>3 DEF TypeOK

LEMMA StepImplements ==
  ASSUME SheetInv, [Next]_vars
  PROVE  [Atomic!Next]_<<asked, Sheet>>
<1>1. ASSUME NEW Q \in SUBSET Questions \ {{}}, QuestionsArrive(Q)
      PROVE  Atomic!Next
  BY <1>1 DEF QuestionsArrive, Sheet, Atomic!Next, Atomic!QuestionsArrive
<1>2. ASSUME UNCHANGED <<asked, status, score, answers, graded, overtaken>>
      PROVE  UNCHANGED <<asked, Sheet>>
  BY <1>2 DEF Sheet
<1>3. ASSUME overtaken', UNCHANGED asked
      PROVE  Atomic!Next
  BY <1>3 DEF Sheet, Atomic!Next, Atomic!Overtake, Atomic!Overtaken, Atomic!Sheet,
              Atomic!NoRow, Atomic!NoScore, NoRow, NoScore
<1>4. ASSUME NEW r \in Answerers, AnswerCommit(r)
      PROVE  [Atomic!Next]_<<asked, Sheet>>
  BY <1>3, <1>4, AnswerImplements DEF AnswerCommit, Atomic!Next
<1>5. ASSUME NEW r \in Submitters, SubmitCommit(r)
      PROVE  [Atomic!Next]_<<asked, Sheet>>
  BY <1>3, <1>5, SubmitImplements DEF SubmitCommit, Atomic!Next
<1> QED
  BY <1>1, <1>2, <1>4, <1>5
  DEF Next, vars, AnswerCheck, AnswerLoad, SubmitCheck, SubmitList, SubmitLoad, Refuse

\* The overlapping requests of an attempt implement one that is answered and
\* graded in single steps, until a request is overtaken (submit_answer,
\* submit_attempt).
THEOREM ImplementsAtomicAttempt == Spec => GradingIsAtomic
BY InitImplements, StepImplements, InitSheet, NextSheet, PTL
   DEF Spec, GradingIsAtomic, Atomic!Spec
=============================================================================
