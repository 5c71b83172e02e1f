------------------------- MODULE ExamGenerationProofs -------------------------
(***************************************************************************)
(* Theorems about ExamGeneration, for any number of exams, processes,      *)
(* retries and deaths.                                                     *)
(***************************************************************************)
EXTENDS ExamGeneration, FiniteSetTheorems, TLAPS

-----------------------------------------------------------------------------
(***************************************************************************)
(* Type correctness.                                                       *)
(***************************************************************************)

JobOK ==
  /\ job \in [Workers -> Job]
  /\ \A w \in Workers : job[w].pc # "idle" => job[w].exam \in Exams

StoreOK ==
  /\ exam   \in [Exams -> Status \cup {"NONE"}]
  /\ filled \in [Exams -> Nat]

RestOK ==
  /\ create \in [Exams -> {"new", "committed", "done"}]
  /\ ready  \in [Messages -> Nat]
  /\ faults \in 0 .. MaxFaults
  /\ lost   \subseteq Exams

LEMMA TypeParts == TypeOK <=> JobOK /\ StoreOK /\ RestOK
BY DEF TypeOK, JobOK, StoreOK, RestOK

\* A step inside a delivery, and what it does to the other processes.
LEMMA GotoType ==
  ASSUME JobOK, NEW w \in Workers, job[w].pc # "idle", NEW pc \in JobPC
  PROVE  /\ Goto(w, pc) => JobOK'
         /\ \A s \in Status :
               job' = [job EXCEPT ![w].pc = pc, ![w].seen = s] => JobOK'
BY DEF JobOK, Goto, Job

LEMMA GotoEffect ==
  ASSUME JobOK, NEW w \in Workers, NEW pc \in JobPC, Goto(w, pc)
  PROVE  /\ job'[w].pc = pc /\ job'[w].exam = job[w].exam /\ job'[w].seen = job[w].seen
         /\ \A v \in Workers \ {w} : job'[v] = job[v]
BY DEF JobOK, Goto, Job

LEMMA SeenEffect ==
  ASSUME JobOK, NEW w \in Workers, NEW pc \in JobPC, NEW s \in Status,
         job' = [job EXCEPT ![w].pc = pc, ![w].seen = s]
  PROVE  /\ job'[w].pc = pc /\ job'[w].exam = job[w].exam /\ job'[w].seen = s
         /\ \A v \in Workers \ {w} : job'[v] = job[v]
BY DEF JobOK, Job

LEMMA IdleType ==
  ASSUME JobOK, NEW w \in Workers, job' = [job EXCEPT ![w] = Idle]
  PROVE  JobOK' /\ job'[w].pc = "idle" /\ \A v \in Workers \ {w} : job'[v] = job[v]
BY BoundsAssumption DEF JobOK, Job, Idle, JobPC, Status

LEMMA PublishType ==
  ASSUME ready \in [Messages -> Nat], NEW e \in Exams, NEW n \in 0 .. MaxRetries,
         Publish(e, n)
  PROVE  /\ ready' \in [Messages -> Nat]
         /\ \E m \in Messages : m[1] = e /\ ready'[m] > 0
         /\ \A m \in Messages : ready'[m] = ready[m] \/ (m[1] = e /\ ready'[m] > 0)
<1> DEFINE k == <<e, n>>
<1>1. k \in Messages /\ k[1] = e /\ ready' = [ready EXCEPT ![k] = @ + 1]
  BY DEF Publish, Messages
<1> HIDE DEF k
<1>2. ready'[k] = ready[k] + 1 /\ ready[k] \in Nat
  BY <1>1
<1> QED  BY <1>1, <1>2

LEMMA DeliverType ==
  ASSUME JobOK, RestOK, NEW w \in Workers, NEW m \in Messages, Deliver(w, m)
  PROVE  /\ JobOK' /\ RestOK'
         /\ job'[w].exam = m[1] /\ job'[w].pc = "load"
         /\ \A v \in Workers \ {w} : job'[v] = job[v]
         /\ \A k \in Messages : k # m => ready'[k] = ready[k]
<1>1. m[1] \in Exams /\ m[2] \in 0 .. MaxRetries
  BY DEF Messages
<1> QED  BY <1>1 DEF Deliver, JobOK, RestOK, Job, JobPC, Status

\* The effects of a commit, in time or cut off.
LEMMA EffectTypes ==
  ASSUME StoreOK, JobOK, NEW w \in Workers, job[w].pc # "idle"
  PROVE  /\ Fill(w) => StoreOK'
         /\ Flip(w) => exam' \in [Exams -> Status \cup {"NONE"}]
         /\ CutShort(w) => StoreOK'
<1>1. job[w].exam \in Exams
  BY DEF JobOK
<1>2. Fill(w) => StoreOK'
  BY <1>1 DEF Fill, StoreOK, Status
<1>3. Flip(w) => exam' \in [Exams -> Status \cup {"NONE"}]
  BY <1>1 DEF Flip, StoreOK, Status
<1> QED  BY <1>2, <1>3 DEF CutShort, StoreOK

LEMMA InitType == Init => TypeOK
BY BoundsAssumption DEF Init, TypeOK, Idle, Job, JobPC, Status

LEMMA NextType == TypeOK /\ [Next]_vars => TypeOK'
<1> SUFFICES ASSUME JobOK, StoreOK, RestOK, [Next]_vars
             PROVE  JobOK' /\ StoreOK' /\ RestOK'
  BY TypeParts, PTL
<1>1. ASSUME NEW e \in Exams, CreateStep(e) \/ GenerateExam(e) \/ ParentDeleted(e)
      PROVE  JobOK' /\ StoreOK' /\ RestOK'
  <2>1. CASE CreatePlaceholder(e)
    BY <2>1 DEF CreatePlaceholder, JobOK, StoreOK, RestOK, Status
  <2>2. CASE Dispatch(e)
    <3>1. 0 \in 0 .. MaxRetries /\ ready \in [Messages -> Nat]
      BY BoundsAssumption DEF RestOK
    <3>2. ready' \in [Messages -> Nat]
      BY <2>2, <3>1, PublishType DEF Dispatch
    <3> QED  BY <2>2, <3>2 DEF Dispatch, JobOK, StoreOK, RestOK
  <2>3. CASE DispatchLost(e)
    BY <2>3 DEF DispatchLost, JobOK, StoreOK, RestOK
  <2>4. CASE GenerateExam(e)
    BY <2>4 DEF GenerateExam, JobOK, StoreOK, RestOK, Status
  <2>5. CASE ParentDeleted(e)
    BY <2>5 DEF ParentDeleted, JobOK, StoreOK, RestOK
  <2> QED  BY <1>1, <2>1, <2>2, <2>3, <2>4, <2>5 DEF CreateStep
<1>2. ASSUME NEW w \in Workers, NEW m \in Messages, Deliver(w, m)
      PROVE  JobOK' /\ StoreOK' /\ RestOK'
  BY <1>2, DeliverType DEF Deliver, StoreOK
<1>3. ASSUME NEW w \in Workers, WorkerStep(w)
      PROVE  JobOK' /\ StoreOK' /\ RestOK'
  <2>a. job[w].pc # "idle"
    BY <1>3 DEF WorkerStep, Load, Generate, Commit, Fails, Refetch, RecordFailed,
         RecoveryRaises, Retry, GiveUp, Ack, Timeout
  <2>b. job[w].exam \in Exams /\ job[w].tries \in 0 .. MaxRetries
    BY <2>a DEF JobOK, Job
  <2>c. \A pc \in {"generate", "commit", "refetch", "flip", "raised", "returned"} : pc \in JobPC
    BY DEF JobPC
  <2>1. CASE Load(w)
    BY <2>1, <2>a, <2>b, <2>c, GotoType DEF Load, StoreOK, RestOK
  <2>2. CASE Generate(w) \/ Fails(w) \/ RecoveryRaises(w)
    BY <2>2, <2>a, <2>c, GotoType DEF Generate, Fails, RecoveryRaises, StoreOK, RestOK
  <2>3. CASE Commit(w)
    BY <2>3, <2>a, <2>c, GotoType, EffectTypes DEF Commit, RestOK
  <2>4. CASE Refetch(w)
    BY <2>4, <2>a, <2>b, <2>c, GotoType DEF Refetch, StoreOK, RestOK
  <2>5. CASE RecordFailed(w)
    BY <2>5, <2>a, <2>c, GotoType, EffectTypes DEF RecordFailed, StoreOK, RestOK
  <2>6. CASE Retry(w)
    <3>1. job[w].tries + 1 \in 0 .. MaxRetries
      BY <2>6, <2>b, BoundsAssumption DEF Retry
    <3> QED  BY <2>6, <2>a, <2>b, <2>c, <3>1, GotoType, PublishType DEF Retry, StoreOK, RestOK
  <2>7. CASE GiveUp(w)
    BY <2>7, <2>a, <2>b, <2>c, GotoType DEF GiveUp, StoreOK, RestOK
  <2>8. CASE Ack(w)
    BY <2>8, IdleType DEF Ack, StoreOK, RestOK
  <2>9. CASE Timeout(w)
    BY <2>9, <2>a, <2>c, GotoType, EffectTypes DEF Timeout, CutShort, RestOK
  <2> QED  BY <1>3, <2>1, <2>2, <2>3, <2>4, <2>5, <2>6, <2>7, <2>8, <2>9 DEF WorkerStep
<1>4. ASSUME NEW w \in Workers, Fault(w)
      PROVE  JobOK' /\ StoreOK' /\ RestOK'
  <2>1. /\ job[w].pc # "idle" /\ faults + 1 \in 0 .. MaxFaults /\ UNCHANGED create
        /\ job[w].exam \in Exams /\ job[w].tries \in 0 .. MaxRetries
    BY <1>4, BoundsAssumption
       DEF Fault, WorkerDies, BrokerLost, PoolProcessDies, ConnectionLost, CutShort, JobOK, RestOK, Job
  <2>2. StoreOK'
    <3>1. CASE BrokerLost(w)
      BY <3>1 DEF BrokerLost, StoreOK
    <3> QED  BY <1>4, <2>1, <3>1, EffectTypes DEF Fault, WorkerDies, PoolProcessDies, ConnectionLost
  <2>3. JobOK'
    <3>1. CASE ConnectionLost(w)
      <4>1. "refetch" \in JobPC /\ "raised" \in JobPC
        BY DEF JobPC
      <4>2. Goto(w, "refetch") \/ Goto(w, "raised")
        BY <3>1 DEF ConnectionLost
      <4> QED  BY <2>1, <4>1, <4>2, GotoType
    <3>2. CASE BrokerLost(w)
      BY <3>2 DEF BrokerLost, JobOK
    <3> QED  BY <1>4, <3>1, <3>2, IdleType DEF Fault, WorkerDies, PoolProcessDies
  <2> QED  BY <1>4, <2>1, <2>2, <2>3, PublishType
           DEF Fault, WorkerDies, BrokerLost, PoolProcessDies, ConnectionLost, RestOK
<1>5. CASE UNCHANGED vars
  BY <1>5 DEF vars, JobOK, StoreOK, RestOK
<1> QED  BY <1>1, <1>2, <1>3, <1>4, <1>5 DEF Next

\* Every reachable state is well typed (generate_exam_task and what it calls).
THEOREM TypeCorrect == Spec => []TypeOK
BY InitType, NextType, PTL DEF Spec

-----------------------------------------------------------------------------
(***************************************************************************)
(* A status that has left PENDING never returns to it, so what a session   *)
(* loaded may be out of date but not that far; and nobody works on an exam *)
(* that has not been created.                                              *)
(***************************************************************************)

SeenIsPast ==
  \A w \in Workers : job[w].pc \in {"generate", "commit", "flip"} /\ job[w].seen # "PENDING"
     => exam[job[w].exam] # "PENDING"

NewIsNobodys ==
  \A e \in Exams : create[e] = "new" =>
     /\ exam[e] = "NONE"
     /\ \A w \in Workers  : job[w].pc # "idle" => job[w].exam # e
     /\ \A m \in Messages : m[1] = e => ready[m] = 0

\* All that a step of the worker w may do to the exams is to decide the one it
\* works on: the facts the invariants need of it.
Decides(w) ==
  LET e == job[w].exam IN
  /\ \A x \in Exams \ {e} : exam'[x] = exam[x] /\ filled'[x] = filled[x]
  /\ \/ exam'[e] = exam[e] /\ filled'[e] = filled[e]
     \/ exam[e] # "NONE" /\ exam'[e] \in {"READY", "FAILED"} /\ filled'[e] = filled[e]
        /\ (exam'[e] = "READY" => exam[e] = "READY")
     \/ exam[e] # "NONE" /\ exam'[e] \in {"READY", "FAILED"} /\ filled'[e] = filled[e] + 1

LEMMA CommitDecides ==
  ASSUME TypeOK, SeenIsPast, NEW w \in Workers, job[w].pc = "commit", CanFill(w), Fill(w)
  PROVE  Decides(w)
<1>1. job[w].exam \in Exams /\ exam[job[w].exam] \in {"PENDING", "READY", "FAILED"}
  BY DEF TypeOK, CanFill, Status
<1>2. job[w].seen = "READY" => exam[job[w].exam] # "PENDING"
  BY DEF SeenIsPast
<1> QED  BY <1>1, <1>2 DEF Decides, Fill, TypeOK

LEMMA FlipDecides ==
  ASSUME TypeOK, NEW w \in Workers, job[w].pc = "flip", CanFlip(w), Flip(w), UNCHANGED filled
  PROVE  Decides(w)
<1>1. job[w].exam \in Exams
  BY DEF TypeOK
<1> QED  BY <1>1 DEF Decides, Flip, CanFlip, TypeOK

LEMMA CutDecides ==
  ASSUME TypeOK, SeenIsPast, NEW w \in Workers, CutShort(w)
  PROVE  Decides(w)
<1>1. CASE UNCHANGED <<exam, filled>>
  BY <1>1 DEF Decides
<1> QED  BY <1>1, CommitDecides, FlipDecides DEF CutShort

LEMMA WorkerDecides ==
  ASSUME TypeOK, SeenIsPast, NEW w \in Workers,
         WorkerStep(w) \/ Fault(w)
  PROVE  Decides(w)
<1>1. CASE UNCHANGED <<exam, filled>>
  BY <1>1 DEF Decides
<1>2. CASE Commit(w)
  BY <1>2, CommitDecides DEF Commit
<1>3. CASE RecordFailed(w)
  BY <1>3, FlipDecides DEF RecordFailed
<1>4. CASE Timeout(w) \/ WorkerDies(w) \/ PoolProcessDies(w) \/ ConnectionLost(w)
  BY <1>4, CutDecides DEF Timeout, WorkerDies, PoolProcessDies, ConnectionLost
<1> QED  BY <1>1, <1>2, <1>3, <1>4
         DEF WorkerStep, Fault, BrokerLost, Load, Generate, Fails, Refetch, RecoveryRaises, Retry,
             GiveUp, Ack

\* Such a step keeps the content, and PENDING is never entered.
LEMMA DecidesContent ==
  ASSUME TypeOK, TypeOK', QuestionsFitStatus, NEW w \in Workers, job[w].exam \in Exams, Decides(w)
  PROVE  /\ QuestionsFitStatus'
         /\ \A e \in Exams : exam'[e] = "PENDING" => exam[e] = "PENDING"
         /\ \A e \in Exams : exam[e] = "NONE" => exam'[e] = "NONE"
<1>1. \A e \in Exams : filled[e] \in Nat
  BY DEF TypeOK
<1>2. \A e \in Exams : exam'[e] = "PENDING" => exam[e] = "PENDING" /\ filled'[e] = filled[e]
  BY DEF Decides
<1>3. \A e \in Exams : exam'[e] = "NONE" => exam[e] = "NONE" /\ filled'[e] = filled[e]
  BY DEF Decides
<1>4. \A e \in Exams : exam'[e] = "READY" /\ exam[e] = "READY" => filled'[e] >= filled[e]
  BY <1>1 DEF Decides
<1>5. \A e \in Exams : exam'[e] = "READY" /\ exam[e] # "READY" => filled'[e] = filled[e] + 1
  BY DEF Decides
<1>6. ASSUME NEW x \in Exams, exam'[x] = "READY"
      PROVE  filled'[x] > 0
  BY <1>1, <1>4, <1>5, <1>6 DEF QuestionsFitStatus, TypeOK
<1>7. ASSUME NEW x \in Exams, exam'[x] \in {"PENDING", "NONE"}
      PROVE  filled'[x] = 0
  BY <1>2, <1>3, <1>7 DEF QuestionsFitStatus
<1>8. \A e \in Exams : exam[e] = "NONE" => exam'[e] = "NONE"
  BY DEF Decides
<1> QED  BY <1>2, <1>6, <1>7, <1>8 DEF QuestionsFitStatus

-----------------------------------------------------------------------------
(***************************************************************************)
(* What a step of the worker w does to the rest of the state.              *)
(***************************************************************************)

\* A process keeps its exam until it is idle; what it holds as seen it held
\* before or has just read.
KeepsJobs(w) ==
  /\ \A v \in Workers \ {w} : job'[v] = job[v]
  /\ job'[w].pc # "idle" => job'[w].exam = job[w].exam
  /\ job'[w].pc \in {"generate", "commit", "flip"} =>
       \/ job[w].pc \in {"generate", "commit", "flip"} /\ job'[w].seen = job[w].seen
       \/ UNCHANGED exam /\ job'[w].seen = exam[job[w].exam]

\* Nothing is created, no message taken, none added but for the exam of w.
KeepsRest(w) ==
  /\ UNCHANGED create
  /\ lost \subseteq lost'
  /\ \A m \in Messages : ready'[m] = ready[m] \/ (m[1] = job[w].exam /\ ready'[m] > 0)

LEMMA WorkerBusy ==
  ASSUME TypeOK, NEW w \in Workers, WorkerStep(w) \/ Fault(w)
  PROVE  /\ job[w].pc # "idle" /\ job[w].exam \in Exams
         /\ job[w].tries \in 0 .. MaxRetries
BY DEF WorkerStep, Load, Generate, Commit, Fails, Refetch, RecordFailed,
       RecoveryRaises, Retry, GiveUp, Ack, Timeout, Fault, WorkerDies, BrokerLost,
       PoolProcessDies, ConnectionLost, TypeOK, Job

LEMMA WorkerKeeps ==
  ASSUME TypeOK, NEW w \in Workers, WorkerStep(w) \/ Fault(w)
  PROVE  KeepsJobs(w) /\ KeepsRest(w)
<1>a. /\ JobOK /\ ready \in [Messages -> Nat]
      /\ job[w].exam \in Exams /\ job[w].tries \in 0 .. MaxRetries
      /\ exam[job[w].exam] = "NONE" \/ exam[job[w].exam] \in Status
  BY WorkerBusy, TypeParts DEF TypeOK
<1>b. \A pc \in {"generate", "commit", "refetch", "flip", "raised", "returned"} : pc \in JobPC
  BY DEF JobPC
<1>1. CASE Load(w) \/ Refetch(w)
  <2>1. CASE Goto(w, "returned") \/ Goto(w, "raised")
    BY <1>1, <1>a, <1>b, <2>1, GotoEffect DEF Load, Refetch, KeepsJobs, KeepsRest
  <2>2. ASSUME NEW pc \in {"generate", "flip"}, exam[job[w].exam] # "NONE",
               job' = [job EXCEPT ![w].pc = pc, ![w].seen = exam[job[w].exam]]
        PROVE  KeepsJobs(w) /\ KeepsRest(w)
    <3> DEFINE s == exam[job[w].exam]
    <3>1. s \in Status /\ pc \in JobPC /\ job' = [job EXCEPT ![w].pc = pc, ![w].seen = s]
      BY <1>a, <1>b, <2>2
    <3> HIDE DEF s
    <3>2. /\ job'[w].pc = pc /\ job'[w].exam = job[w].exam /\ job'[w].seen = s
          /\ \A v \in Workers \ {w} : job'[v] = job[v]
      BY <1>a, <3>1, SeenEffect
    <3> USE DEF s
    <3>3. KeepsJobs(w)
      BY <1>1, <3>2 DEF Load, Refetch, KeepsJobs
    <3> QED  BY <1>1, <3>3 DEF Load, Refetch, KeepsRest
  <2> QED  BY <1>1, <2>1, <2>2 DEF Load, Refetch
<1>2. CASE Generate(w)
  BY <1>2, <1>a, <1>b, GotoEffect DEF Generate, KeepsJobs, KeepsRest
<1>3. CASE Commit(w) \/ Fails(w) \/ RecordFailed(w) \/ RecoveryRaises(w)
  BY <1>3, <1>a, <1>b, GotoEffect
     DEF Commit, Fails, RecordFailed, RecoveryRaises, KeepsJobs, KeepsRest
<1>4. CASE GiveUp(w) \/ Timeout(w)
  BY <1>4, <1>a, <1>b, GotoEffect DEF GiveUp, Timeout, CutShort, KeepsJobs, KeepsRest
<1>5. CASE Retry(w)
  <2>1. job[w].tries + 1 \in 0 .. MaxRetries
    BY <1>5, <1>a, BoundsAssumption DEF Retry
  <2>2. KeepsJobs(w)
    BY <1>5, <1>a, <1>b, GotoEffect DEF Retry, KeepsJobs
  <2>3. \A m \in Messages : ready'[m] = ready[m] \/ (m[1] = job[w].exam /\ ready'[m] > 0)
    BY <1>5, <1>a, <2>1, PublishType DEF Retry
  <2> QED  BY <1>5, <2>2, <2>3 DEF Retry, KeepsRest
<1>6. CASE Ack(w) \/ PoolProcessDies(w)
  BY <1>6, <1>a, IdleType DEF Ack, PoolProcessDies, CutShort, KeepsJobs, KeepsRest
<1>7. CASE WorkerDies(w)
  <2>1. KeepsJobs(w)
    BY <1>7, <1>a, IdleType DEF WorkerDies, KeepsJobs
  <2>2. \A m \in Messages : ready'[m] = ready[m] \/ (m[1] = job[w].exam /\ ready'[m] > 0)
    BY <1>7, <1>a, PublishType DEF WorkerDies
  <2> QED  BY <1>7, <2>1, <2>2 DEF WorkerDies, CutShort, KeepsRest
<1>8. CASE ConnectionLost(w)
  <2>1. Goto(w, "refetch") \/ Goto(w, "raised")
    BY <1>8 DEF ConnectionLost
  <2> QED  BY <1>8, <1>a, <1>b, <2>1, GotoEffect DEF ConnectionLost, CutShort, KeepsJobs, KeepsRest
<1>9. CASE BrokerLost(w)
  BY <1>9, <1>a, PublishType DEF BrokerLost, KeepsJobs, KeepsRest
<1> QED  BY <1>1, <1>2, <1>3, <1>4, <1>5, <1>6, <1>7, <1>8, <1>9 DEF WorkerStep, Fault

-----------------------------------------------------------------------------
(***************************************************************************)
(* The status and the questions of an exam agree.                          *)
(***************************************************************************)

ContentInv == TypeOK /\ QuestionsFitStatus /\ SeenIsPast /\ NewIsNobodys

LEMMA InitContent == Init => ContentInv
<1> SUFFICES ASSUME Init PROVE QuestionsFitStatus /\ SeenIsPast /\ NewIsNobodys
  BY InitType DEF ContentInv
<1> QED  BY DEF Init, QuestionsFitStatus, SeenIsPast, NewIsNobodys, Idle

LEMMA NextContent == ContentInv /\ [Next]_vars => ContentInv'
<1> SUFFICES ASSUME ContentInv, [Next]_vars
             PROVE  QuestionsFitStatus' /\ SeenIsPast' /\ NewIsNobodys'
  BY NextType DEF ContentInv
<1>a. TypeOK /\ TypeOK' /\ QuestionsFitStatus /\ SeenIsPast /\ NewIsNobodys
  BY NextType DEF ContentInv
<1>b. JobOK /\ RestOK
  BY <1>a, TypeParts
<1>1. ASSUME NEW e \in Exams, CreatePlaceholder(e)
      PROVE  QuestionsFitStatus' /\ SeenIsPast' /\ NewIsNobodys'
  <2>1. /\ exam[e] = "NONE" /\ filled[e] = 0
        /\ \A w \in Workers : job[w].pc # "idle" => job[w].exam # e
    BY <1>a, <1>1 DEF CreatePlaceholder, NewIsNobodys, QuestionsFitStatus
  <2>2. QuestionsFitStatus'
    BY <1>a, <1>1, <2>1 DEF CreatePlaceholder, TypeOK, QuestionsFitStatus
  <2>3. SeenIsPast'
    BY <1>a, <1>1, <2>1 DEF CreatePlaceholder, TypeOK, SeenIsPast
  <2>4. NewIsNobodys'
    BY <1>a, <1>1, <2>1 DEF CreatePlaceholder, TypeOK, NewIsNobodys
  <2> QED  BY <2>2, <2>3, <2>4
<1>2. ASSUME NEW e \in Exams, GenerateExam(e) \/ ParentDeleted(e)
      PROVE  QuestionsFitStatus' /\ SeenIsPast' /\ NewIsNobodys'
  <2>1. QuestionsFitStatus'
    BY <1>a, <1>2 DEF GenerateExam, ParentDeleted, TypeOK, QuestionsFitStatus
  <2>2. SeenIsPast'
    BY <1>a, <1>2 DEF GenerateExam, ParentDeleted, TypeOK, SeenIsPast
  <2>3. NewIsNobodys'
    BY <1>a, <1>2 DEF GenerateExam, ParentDeleted, TypeOK, NewIsNobodys
  <2> QED  BY <2>1, <2>2, <2>3
<1>3. ASSUME NEW e \in Exams, Dispatch(e) \/ DispatchLost(e)
      PROVE  QuestionsFitStatus' /\ SeenIsPast' /\ NewIsNobodys'
  <2>1. create[e] = "committed" /\ create' = [create EXCEPT ![e] = "done"]
    BY <1>3 DEF Dispatch, DispatchLost
  <2>2. \A m \in Messages : m[1] # e => ready'[m] = ready[m]
    <3>1. 0 \in 0 .. MaxRetries
      BY BoundsAssumption
    <3>2. CASE Dispatch(e)
      BY <1>b, <3>1, <3>2, PublishType DEF Dispatch, RestOK
    <3> QED  BY <1>3, <3>2 DEF DispatchLost
  <2>3. UNCHANGED <<exam, filled, job>>
    BY <1>3 DEF Dispatch, DispatchLost
  <2>4. NewIsNobodys'
    BY <1>a, <2>1, <2>2, <2>3 DEF NewIsNobodys, TypeOK
  <2> QED  BY <1>a, <2>3, <2>4 DEF QuestionsFitStatus, SeenIsPast
<1>4. ASSUME NEW w \in Workers, NEW m \in Messages, Deliver(w, m)
      PROVE  QuestionsFitStatus' /\ SeenIsPast' /\ NewIsNobodys'
  <2>1. /\ job'[w].exam = m[1] /\ job'[w].pc = "load"
        /\ \A v \in Workers \ {w} : job'[v] = job[v]
        /\ \A k \in Messages : k # m => ready'[k] = ready[k]
    BY <1>4, <1>b, DeliverType
  <2>2. UNCHANGED <<exam, filled, create>> /\ ready[m] > 0
    BY <1>4 DEF Deliver
  <2>3. m[1] \in Exams /\ create[m[1]] # "new"
    BY <1>a, <2>2 DEF NewIsNobodys, Messages
  <2>4. NewIsNobodys'
    BY <1>a, <2>1, <2>2, <2>3 DEF NewIsNobodys
  <2>5. SeenIsPast'
    BY <1>a, <2>1, <2>2 DEF SeenIsPast
  <2> QED  BY <1>a, <2>2, <2>4, <2>5 DEF QuestionsFitStatus
<1>5. ASSUME NEW w \in Workers, WorkerStep(w) \/ Fault(w)
      PROVE  QuestionsFitStatus' /\ SeenIsPast' /\ NewIsNobodys'
  <2>1. /\ KeepsJobs(w) /\ KeepsRest(w) /\ Decides(w)
        /\ job[w].pc # "idle" /\ job[w].exam \in Exams
    BY <1>a, <1>5, WorkerKeeps, WorkerDecides, WorkerBusy
  <2>2. /\ QuestionsFitStatus'
        /\ \A e \in Exams : exam'[e] = "PENDING" => exam[e] = "PENDING"
        /\ \A e \in Exams : exam[e] = "NONE" => exam'[e] = "NONE"
    BY <1>a, <2>1, DecidesContent
  <2>3. SeenIsPast'
    <3> SUFFICES ASSUME NEW v \in Workers, job'[v].pc \in {"generate", "commit", "flip"},
                        job'[v].seen # "PENDING"
                 PROVE  exam'[job'[v].exam] # "PENDING"
      BY DEF SeenIsPast
    <3>1. CASE v # w
      BY <1>a, <2>1, <2>2, <3>1 DEF SeenIsPast, KeepsJobs, TypeOK
    <3>2. CASE v = w
      BY <1>a, <2>1, <2>2, <3>2 DEF SeenIsPast, KeepsJobs
    <3> QED  BY <3>1, <3>2
  <2>4. NewIsNobodys'
    <3>1. create[job[w].exam] # "new"
      BY <1>a, <2>1 DEF NewIsNobodys
    <3> QED  BY <1>a, <2>1, <2>2, <3>1 DEF NewIsNobodys, KeepsJobs, KeepsRest
  <2> QED  BY <2>2, <2>3, <2>4
<1>6. CASE UNCHANGED vars
  BY <1>a, <1>6 DEF vars, QuestionsFitStatus, SeenIsPast, NewIsNobodys
<1> QED  BY <1>1, <1>2, <1>3, <1>4, <1>5, <1>6 DEF Next, CreateStep

\* However deliveries overlap, are cut off or repeated, READY comes with
\* questions and PENDING without any: no part of an exam is visible early
\* (generate_room_exam_questions).
THEOREM ReadyMeansQuestions == Spec => []QuestionsFitStatus
<1>1. ContentInv => QuestionsFitStatus
  BY DEF ContentInv
<1> QED  BY <1>1, InitContent, NextContent, PTL DEF Spec

-----------------------------------------------------------------------------
(***************************************************************************)
(* PENDING for good: PendingIsAttended is inductive given SeenIsPast.      *)
(***************************************************************************)

\* As long as its delivery is not over, a worker that leaves its exam PENDING
\* is there to go on; when it is over it has left a message or a loss behind.
WorkerAttends(w) ==
  LET e == job[w].exam IN
  \/ exam'[e] # "PENDING"
  \/ e \in lost'
  \/ \E m \in Messages : m[1] = e /\ ready'[m] > 0
  \/ job'[w].exam = e /\ job'[w].pc \notin {"idle", "returned"}

LEMMA StepAttends ==
  ASSUME TypeOK, SeenIsPast, NEW w \in Workers, job[w].pc # "returned",
         WorkerStep(w) \/ Fault(w)
  PROVE  WorkerAttends(w)
<1>a. /\ JobOK /\ ready \in [Messages -> Nat]
      /\ job[w].exam \in Exams /\ job[w].tries \in 0 .. MaxRetries
      /\ KeepsJobs(w)
  BY WorkerBusy, WorkerKeeps, TypeParts DEF TypeOK
<1>b. \A pc \in {"generate", "commit", "refetch", "flip", "raised", "returned"} : pc \in JobPC
  BY DEF JobPC
<1>1. CASE Load(w) \/ Refetch(w)
  <2>1. CASE exam[job[w].exam] = "NONE"
    BY <1>1, <2>1 DEF Load, Refetch, WorkerAttends
  <2>2. ASSUME exam[job[w].exam] # "NONE"
        PROVE  WorkerAttends(w)
    <3>1. exam[job[w].exam] \in Status
      BY <1>a, <2>2 DEF TypeOK
    <3>2. CASE Goto(w, "raised")
      BY <1>a, <1>b, <3>2, GotoEffect DEF WorkerAttends
    <3>3. ASSUME NEW pc \in {"generate", "flip"},
                 job' = [job EXCEPT ![w].pc = pc, ![w].seen = exam[job[w].exam]]
          PROVE  WorkerAttends(w)
      BY <1>a, <1>b, <3>1, <3>3, SeenEffect DEF WorkerAttends
    <3> QED  BY <1>1, <2>2, <3>2, <3>3 DEF Load, Refetch
  <2> QED  BY <2>1, <2>2
<1>2. CASE Generate(w) \/ Fails(w) \/ RecoveryRaises(w) \/ Timeout(w)
  BY <1>2, <1>a, <1>b, GotoEffect DEF Generate, Fails, RecoveryRaises, Timeout, WorkerAttends
<1>3. CASE Commit(w)
  <2>1. job[w].seen = "READY" => exam[job[w].exam] # "PENDING"
    BY <1>3 DEF Commit, SeenIsPast
  <2> QED  BY <1>3, <1>a, <2>1 DEF Commit, Fill, TypeOK, WorkerAttends
<1>4. CASE RecordFailed(w)
  <2>1. job[w].seen = "FAILED" => exam[job[w].exam] # "PENDING"
    BY <1>4 DEF RecordFailed, SeenIsPast
  <2> QED  BY <1>4, <1>a, <2>1 DEF RecordFailed, Flip, TypeOK, WorkerAttends
<1>5. CASE Retry(w)
  <2>1. job[w].tries + 1 \in 0 .. MaxRetries
    BY <1>5, <1>a, BoundsAssumption DEF Retry
  <2> QED  BY <1>5, <1>a, <2>1, PublishType DEF Retry, WorkerAttends
<1>6. CASE GiveUp(w) \/ PoolProcessDies(w)
  BY <1>6 DEF GiveUp, PoolProcessDies, WorkerAttends
<1>7. CASE WorkerDies(w) \/ BrokerLost(w)
  BY <1>7, <1>a, PublishType DEF WorkerDies, BrokerLost, WorkerAttends
<1>8. ~Ack(w)
  BY DEF Ack
<1>9. CASE ConnectionLost(w)
  <2>1. Goto(w, "refetch") \/ Goto(w, "raised")
    BY <1>9 DEF ConnectionLost
  <2> QED  BY <1>a, <1>b, <2>1, GotoEffect DEF WorkerAttends
<1> QED  BY <1>1, <1>2, <1>3, <1>4, <1>5, <1>6, <1>7, <1>8, <1>9 DEF WorkerStep, Fault

AttendedInv == ContentInv /\ PendingIsAttended

LEMMA InitAttended == Init => AttendedInv
BY InitContent DEF AttendedInv, Init, PendingIsAttended

LEMMA NextAttended == AttendedInv /\ [Next]_vars => AttendedInv'
<1> SUFFICES ASSUME AttendedInv, [Next]_vars PROVE PendingIsAttended'
  BY NextContent DEF AttendedInv
<1>a. /\ ContentInv /\ TypeOK /\ QuestionsFitStatus /\ SeenIsPast /\ JobOK /\ RestOK
      /\ PendingIsAttended
  BY TypeParts DEF AttendedInv, ContentInv
<1>1. ASSUME NEW e \in Exams, CreatePlaceholder(e) PROVE PendingIsAttended'
  BY <1>a, <1>1 DEF CreatePlaceholder, PendingIsAttended, TypeOK
<1>2. ASSUME NEW e \in Exams, GenerateExam(e) \/ ParentDeleted(e) PROVE PendingIsAttended'
  <2>1. \A x \in Exams : exam'[x] = "PENDING" => exam[x] = "PENDING" /\
                          (create[x] = "committed" => create'[x] = "committed")
    BY <1>a, <1>2 DEF GenerateExam, ParentDeleted, TypeOK
  <2> QED  BY <1>a, <1>2, <2>1 DEF GenerateExam, ParentDeleted, PendingIsAttended
<1>3. ASSUME NEW e \in Exams, Dispatch(e) \/ DispatchLost(e) PROVE PendingIsAttended'
  <2>1. /\ UNCHANGED <<exam, job>> /\ lost \subseteq lost'
        /\ \A x \in Exams \ {e} : create'[x] = create[x]
    BY <1>a, <1>3 DEF Dispatch, DispatchLost, TypeOK
  <2>2. /\ e \in lost' \/ \E m \in Messages : m[1] = e /\ ready'[m] > 0
        /\ \A m \in Messages : ready[m] > 0 => ready'[m] > 0
    <3>1. 0 \in 0 .. MaxRetries
      BY BoundsAssumption
    <3>2. CASE Dispatch(e)
      BY <1>a, <3>1, <3>2, PublishType DEF Dispatch, RestOK
    <3> QED  BY <1>3, <3>2 DEF DispatchLost
  <2> QED  BY <1>a, <2>1, <2>2 DEF PendingIsAttended
<1>4. ASSUME NEW w \in Workers, NEW m \in Messages, Deliver(w, m) PROVE PendingIsAttended'
  <2>1. /\ job'[w].exam = m[1] /\ job'[w].pc = "load" /\ job[w].pc = "idle"
        /\ \A v \in Workers \ {w} : job'[v] = job[v]
        /\ \A k \in Messages : k # m => ready'[k] = ready[k]
        /\ UNCHANGED <<exam, create, lost>>
    BY <1>4, <1>a, DeliverType DEF Deliver
  <2> QED  BY <1>a, <2>1 DEF PendingIsAttended
<1>5. ASSUME NEW w \in Workers, WorkerStep(w) \/ Fault(w)
      PROVE  PendingIsAttended'
  <2>1. KeepsJobs(w) /\ KeepsRest(w) /\ Decides(w) /\ job[w].exam \in Exams
    BY <1>a, <1>5, WorkerKeeps, WorkerDecides, WorkerBusy
  <2>2. \A e \in Exams : exam'[e] = "PENDING" => exam[e] = "PENDING"
    BY <2>1 DEF Decides
  <2>3. \A m \in Messages : ready[m] > 0 => ready'[m] > 0
    BY <2>1 DEF KeepsRest
  <2>4. job[w].pc # "returned" => WorkerAttends(w)
    BY <1>a, <1>5, StepAttends
  <2> SUFFICES ASSUME NEW e \in Exams, exam'[e] = "PENDING"
               PROVE  \/ e \in lost'
                      \/ create'[e] = "committed"
                      \/ \E m \in Messages : m[1] = e /\ ready'[m] > 0
                      \/ \E v \in Workers : job'[v].exam = e /\ job'[v].pc \notin {"idle", "returned"}
    BY DEF PendingIsAttended
  <2>5. CASE e \in lost \/ create[e] = "committed" \/ \E m \in Messages : m[1] = e /\ ready[m] > 0
    BY <2>1, <2>3, <2>5 DEF KeepsRest
  <2>6. ASSUME NEW v \in Workers, job[v].exam = e, job[v].pc \notin {"idle", "returned"}, v # w
        PROVE  job'[v].exam = e /\ job'[v].pc \notin {"idle", "returned"}
    BY <2>1, <2>6 DEF KeepsJobs
  <2>7. CASE job[w].exam = e /\ job[w].pc \notin {"idle", "returned"}
    BY <2>4, <2>7 DEF WorkerAttends
  <2> QED  BY <1>a, <2>2, <2>5, <2>6, <2>7 DEF PendingIsAttended
<1>6. CASE UNCHANGED vars
  BY <1>a, <1>6 DEF vars, PendingIsAttended
<1> QED  BY <1>1, <1>2, <1>3, <1>4, <1>5, <1>6 DEF Next, CreateStep

\* Whoever polls a PENDING exam polls for something that is still to come, or was
\* lost (generate_room_exam, generate_exam_task).
THEOREM PendingAttended == Spec => []PendingIsAttended
<1>1. AttendedInv => PendingIsAttended
  BY DEF AttendedInv
<1> QED  BY <1>1, InitAttended, NextAttended, PTL DEF Spec

\* An exam stays PENDING with nothing under way only if its task was not sent,
\* died with its process or raised on its last try (generate_exam_task).
THEOREM NeverPendingForGood == Spec => []PendingOnlyWhenLost
<1>1. AttendedInv => PendingOnlyWhenLost
  <2> SUFFICES ASSUME AttendedInv, NEW e \in Exams, Quiet(e), exam[e] = "PENDING"
               PROVE  e \in lost
    BY DEF PendingOnlyWhenLost
  <2>1. \A m \in Messages : m[1] = e => ~(ready[m] > 0)
    BY DEF Quiet
  <2> QED  BY <2>1 DEF AttendedInv, PendingIsAttended, Quiet
<1> QED  BY <1>1, InitAttended, NextAttended, PTL DEF Spec

-----------------------------------------------------------------------------
(***************************************************************************)
(* A verdict is taken back only by a run that is not the first.  While     *)
(* there is no fault, the first run of an exam's task exists once: as a      *)
(* committed request, as a message or as a delivery.  Once the exam is     *)
(* decided, or the task is retried, that run is over.                      *)
(***************************************************************************)

First(w, e) == job[w].pc # "idle" /\ job[w].exam = e /\ job[w].tries = 0

Single(e) ==
  /\ create[e] = "committed" => ready[<<e, 0>>] = 0
  /\ create[e] = "committed" \/ ready[<<e, 0>>] > 0 => \A w \in Workers : ~First(w, e)
  /\ ready[<<e, 0>>] <= 1
  /\ \A v, w \in Workers : First(v, e) /\ First(w, e) => v = w

Over(e) ==
  /\ create[e] # "committed" /\ ready[<<e, 0>>] = 0
  /\ \A w \in Workers : First(w, e) => job[w].pc \in {"returned", "raised"}

Retried(e) ==
  \/ \E n \in 1 .. MaxRetries : ready[<<e, n>>] > 0
  \/ \E w \in Workers : job[w].pc # "idle" /\ job[w].exam = e /\ job[w].tries # 0

FirstRun(e) ==
  /\ Single(e)
  /\ exam[e] \in {"READY", "FAILED"} \/ Retried(e) => Over(e)

FirstRuns == faults = 0 => \A e \in Exams : FirstRun(e)

\* A step of the worker w, as far as FirstRuns is concerned.
LEMMA StepFrame ==
  ASSUME TypeOK, NEW w \in Workers, WorkerStep(w)
  PROVE  /\ job[w].pc # "idle" /\ job[w].exam \in Exams
         /\ UNCHANGED <<create, faults>>
         /\ \A v \in Workers \ {w} : job'[v] = job[v]
         /\ job'[w].pc # "idle" => job'[w].exam = job[w].exam /\ job'[w].tries = job[w].tries
         /\ job[w].pc \in {"returned", "raised"} => job'[w].pc \in {"returned", "raised", "idle"}
         /\ \/ UNCHANGED exam
            \/ job'[w].pc \in {"returned", "raised"} /\ job[w].pc \in {"commit", "flip"}
         /\ \A e \in Exams \ {job[w].exam} : exam'[e] = exam[e]
         /\ \A e \in Exams : ready'[<<e, 0>>] = ready[<<e, 0>>]
         /\ \/ UNCHANGED ready
            \/ /\ job[w].pc = "raised"
               /\ \A e \in Exams \ {job[w].exam}, n \in 1 .. MaxRetries :
                     ready'[<<e, n>>] = ready[<<e, n>>]
<1>a. /\ job[w].pc # "idle" /\ job[w].exam \in Exams /\ job[w].tries \in 0 .. MaxRetries
      /\ job \in [Workers -> Job] /\ ready \in [Messages -> Nat]
      /\ exam \in [Exams -> Status \cup {"NONE"}]
  BY WorkerBusy DEF TypeOK
<1>b. ASSUME NEW pc \in JobPC, Goto(w, pc)
      PROVE  /\ \A v \in Workers \ {w} : job'[v] = job[v]
             /\ job'[w].pc = pc /\ job'[w].exam = job[w].exam /\ job'[w].tries = job[w].tries
  BY <1>a, <1>b DEF Goto, Job
<1>c. ASSUME NEW pc \in JobPC, NEW s, job' = [job EXCEPT ![w].pc = pc, ![w].seen = s]
      PROVE  /\ \A v \in Workers \ {w} : job'[v] = job[v]
             /\ job'[w].pc = pc /\ job'[w].exam = job[w].exam /\ job'[w].tries = job[w].tries
  BY <1>a, <1>c DEF Job
<1>d. \A pc \in {"generate", "commit", "refetch", "flip", "raised", "returned"} : pc \in JobPC
  BY DEF JobPC
<1>1. CASE Load(w)
  <2>1. CASE Goto(w, "returned") \/ Goto(w, "raised")
    BY <1>1, <2>1, <1>a, <1>b, <1>d DEF Load
  <2>2. CASE job' = [job EXCEPT ![w].pc = "generate", ![w].seen = exam[job[w].exam]]
    BY <1>1, <2>2, <1>a, <1>c, <1>d DEF Load
  <2> QED  BY <1>1, <2>1, <2>2 DEF Load
<1>2. CASE Refetch(w)
  <2>1. CASE Goto(w, "returned")
    BY <1>2, <2>1, <1>a, <1>b, <1>d DEF Refetch
  <2>2. CASE job' = [job EXCEPT ![w].pc = "flip", ![w].seen = exam[job[w].exam]]
    BY <1>2, <2>2, <1>a, <1>c, <1>d DEF Refetch
  <2> QED  BY <1>2, <2>1, <2>2 DEF Refetch
<1>3. CASE Generate(w) \/ Fails(w) \/ RecoveryRaises(w) \/ GiveUp(w)
  BY <1>3, <1>a, <1>b, <1>d DEF Generate, Fails, RecoveryRaises, GiveUp
<1>4. CASE Commit(w)
  BY <1>4, <1>a, <1>b, <1>d DEF Commit, Fill
<1>5. CASE RecordFailed(w)
  BY <1>5, <1>a, <1>b, <1>d DEF RecordFailed, Flip
<1>6. CASE Timeout(w)
  BY <1>6, <1>a, <1>b, <1>d DEF Timeout, CutShort, Fill, Flip
<1>7. CASE Ack(w)
  BY <1>7, <1>a DEF Ack, Idle
<1>8. CASE Retry(w)
  <2>1. job[w].tries + 1 \in 1 .. MaxRetries
    BY <1>8, <1>a, BoundsAssumption DEF Retry
  <2> DEFINE k == <<job[w].exam, job[w].tries + 1>>
  <2>2. ready' = [ready EXCEPT ![k] = @ + 1]
    BY <1>8 DEF Retry, Publish
  <2>3. \A e \in Exams : <<e, 0>> # k /\ <<e, 0>> \in Messages
    BY <2>1, BoundsAssumption DEF Messages
  <2>4. \A e \in Exams \ {job[w].exam}, n \in 1 .. MaxRetries :
           <<e, n>> # k /\ <<e, n>> \in Messages
    BY BoundsAssumption DEF Messages
  <2> HIDE DEF k
  <2>5. \A e \in Exams : ready'[<<e, 0>>] = ready[<<e, 0>>]
    BY <1>a, <2>2, <2>3
  <2>6. \A e \in Exams \ {job[w].exam}, n \in 1 .. MaxRetries : ready'[<<e, n>>] = ready[<<e, n>>]
    BY <1>a, <2>2, <2>4
  <2> QED  BY <1>8, <1>a, <1>b, <1>d, <2>5, <2>6 DEF Retry
<1> QED  BY <1>1, <1>2, <1>3, <1>4, <1>5, <1>6, <1>7, <1>8 DEF WorkerStep

FirstInv == ContentInv /\ FirstRuns

LEMMA InitFirst == Init => FirstInv
<1> SUFFICES ASSUME Init, NEW e \in Exams PROVE FirstRun(e)
  BY InitContent DEF FirstInv, FirstRuns
<1>1. \A n \in 0 .. MaxRetries : ready[<<e, n>>] = 0
  BY DEF Init, Messages
<1>2. 0 \in 0 .. MaxRetries /\ \A n \in 1 .. MaxRetries : n \in 0 .. MaxRetries
  BY BoundsAssumption
<1>3. ~Retried(e)
  <2>1. \A n \in 1 .. MaxRetries : ~(ready[<<e, n>>] > 0)
    BY <1>1, <1>2
  <2>2. \A w \in Workers : job[w].pc = "idle"
    BY DEF Init, Idle
  <2> QED  BY <2>1, <2>2 DEF Retried
<1>4. Single(e)
  BY <1>1, <1>2 DEF Init, Idle, Single, First
<1> QED  BY <1>3, <1>4 DEF Init, FirstRun

\* The exams a step has nothing to do with.
LEMMA UntouchedFirst ==
  ASSUME NEW e \in Exams, FirstRun(e),
         exam'[e] = exam[e] \/ exam'[e] = "NONE", create'[e] = create[e],
         \A n \in 0 .. MaxRetries : ready'[<<e, n>>] = ready[<<e, n>>],
         \A w \in Workers : job'[w] = job[w] \/ (~First(w, e) /\ ~First(w, e)'
                             /\ (job'[w].pc = "idle" \/ job'[w].exam # e
                                   \/ (job'[w].exam = job[w].exam /\ job'[w].tries = job[w].tries
                                         /\ job[w].pc # "idle")))
  PROVE  FirstRun(e)'
<1>1. 0 \in 0 .. MaxRetries /\ \A n \in 1 .. MaxRetries : n \in 0 .. MaxRetries
  BY BoundsAssumption
<1>2. Single(e)'
  BY <1>1 DEF FirstRun, Single, First
<1>3. Over(e) => Over(e)'
  BY <1>1 DEF Over, First
<1>4. Retried(e)' => Retried(e)
  BY <1>1 DEF Retried
<1> QED  BY <1>2, <1>3, <1>4 DEF FirstRun

LEMMA NextFirst == FirstInv /\ [Next]_vars => FirstInv'
<1> SUFFICES ASSUME FirstInv, [Next]_vars, faults' = 0, NEW e \in Exams
             PROVE  FirstRun(e)'
  BY NextContent DEF FirstInv, FirstRuns
<1>a. /\ TypeOK /\ NewIsNobodys /\ JobOK /\ ready \in [Messages -> Nat]
      /\ faults \in Nat /\ 0 \in 0 .. MaxRetries
      /\ \A n \in 0 .. MaxRetries, x \in Exams : <<x, n>> \in Messages
      /\ \A n \in 1 .. MaxRetries : n \in 0 .. MaxRetries
  BY TypeParts, BoundsAssumption DEF FirstInv, ContentInv, TypeOK, Messages
<1>b. ASSUME faults = 0 PROVE \A x \in Exams : FirstRun(x)
  BY <1>b DEF FirstInv, FirstRuns
<1>1. ASSUME NEW x \in Exams, CreatePlaceholder(x) \/ GenerateExam(x) PROVE FirstRun(e)'
  <2>0. /\ create[x] = "new" /\ UNCHANGED <<ready, job, faults>>
        /\ \A y \in Exams \ {x} : exam'[y] = exam[y] /\ create'[y] = create[y]
    BY <1>a, <1>1 DEF CreatePlaceholder, GenerateExam, TypeOK
  <2>1. CASE x = e
    <3>1. ready[<<e, 0>>] = 0 /\ \A n \in 1 .. MaxRetries : ready[<<e, n>>] = 0
      BY <1>a, <2>0, <2>1 DEF NewIsNobodys
    <3>2. \A w \in Workers : job[w].pc # "idle" => job[w].exam # e
      BY <1>a, <2>0, <2>1 DEF NewIsNobodys
    <3>3. ~Retried(e)' /\ Single(e)'
      <4>1. \A n \in 1 .. MaxRetries : ~(ready'[<<e, n>>] > 0)
        BY <2>0, <3>1
      <4>2. ~Retried(e)'
        BY <2>0, <3>2, <4>1 DEF Retried
      <4>3. \A w \in Workers : ~First(w, e)'
        BY <2>0, <3>2 DEF First
      <4>4. ready'[<<e, 0>>] = 0
        BY <2>0, <3>1
      <4> QED  BY <4>2, <4>3, <4>4 DEF Single
    <3>4. CASE CreatePlaceholder(x)
      BY <1>a, <2>1, <3>3, <3>4 DEF CreatePlaceholder, FirstRun, TypeOK
    <3>5. CASE GenerateExam(x)
      <4>1. create'[e] = "done"
        BY <1>a, <2>1, <3>5 DEF GenerateExam, TypeOK
      <4> QED  BY <2>0, <3>1, <3>2, <3>3, <4>1 DEF FirstRun, Over, First
    <3> QED  BY <1>1, <3>4, <3>5
  <2>2. CASE x # e
    BY <1>b, <2>0, <2>2, UntouchedFirst
  <2> QED  BY <2>1, <2>2
<1>2. ASSUME NEW x \in Exams, ParentDeleted(x) PROVE FirstRun(e)'
  <2>1. exam'[e] = exam[e] \/ exam'[e] = "NONE"
    BY <1>a, <1>2 DEF ParentDeleted, TypeOK
  <2> QED  BY <1>2, <1>b, <2>1, UntouchedFirst DEF ParentDeleted
<1>3. ASSUME NEW x \in Exams, Dispatch(x) \/ DispatchLost(x) PROVE FirstRun(e)'
  <2>0. /\ create[x] = "committed" /\ create' = [create EXCEPT ![x] = "done"]
        /\ UNCHANGED <<exam, job, faults>>
    BY <1>3 DEF Dispatch, DispatchLost
  <2>1. /\ \A n \in 0 .. MaxRetries : x # e \/ n # 0 => ready'[<<e, n>>] = ready[<<e, n>>]
        /\ ready'[<<x, 0>>] \in {ready[<<x, 0>>], ready[<<x, 0>>] + 1}
    <3>1. CASE Dispatch(x)
      <4>1. ready' = [ready EXCEPT ![<<x, 0>>] = @ + 1]
        BY <3>1 DEF Dispatch, Publish
      <4> DEFINE k == <<x, 0>>
      <4>2. \A n \in 0 .. MaxRetries : x # e \/ n # 0 => <<e, n>> # k /\ <<e, n>> \in Messages
        BY <1>a
      <4>3. k \in Messages
        BY <1>a
      <4> HIDE DEF k
      <4>4. ready' = [ready EXCEPT ![k] = @ + 1]
        BY <4>1 DEF k
      <4>5. \A n \in 0 .. MaxRetries : x # e \/ n # 0 => ready'[<<e, n>>] = ready[<<e, n>>]
        BY <1>a, <4>2, <4>4
      <4>6. ready'[k] = ready[k] + 1
        BY <1>a, <4>3, <4>4
      <4> QED  BY <4>5, <4>6 DEF k
    <3> QED  BY <1>3, <3>1 DEF DispatchLost
  <2>2. CASE x # e
    BY <1>a, <1>b, <2>0, <2>1, <2>2, UntouchedFirst DEF TypeOK
  <2>3. CASE x = e
    <3>1. Single(e) /\ ~Over(e) /\ ready[<<e, 0>>] = 0 /\ \A w \in Workers : ~First(w, e)
      BY <1>b, <2>0, <2>3 DEF FirstRun, Single, Over
    <3>2. create'[e] = "done" /\ ready'[<<e, 0>>] \in {0, 1}
      BY <1>a, <2>0, <2>1, <2>3, <3>1 DEF TypeOK
    <3>3. Single(e)'
      BY <2>0, <3>1, <3>2 DEF Single, First
    <3>4. ~Retried(e)
      BY <1>b, <2>0, <3>1 DEF FirstRun
    <3>5. ~Retried(e)'
      BY <1>a, <2>0, <2>1, <3>4 DEF Retried
    <3>6. exam[e] \notin {"READY", "FAILED"}
      BY <1>b, <2>0, <3>1 DEF FirstRun
    <3> QED  BY <2>0, <3>3, <3>5, <3>6 DEF FirstRun
  <2> QED  BY <2>2, <2>3
<1>4. ASSUME NEW w \in Workers, NEW m \in Messages, Deliver(w, m) PROVE FirstRun(e)'
  <2>0. /\ job[w].pc = "idle" /\ UNCHANGED <<exam, create, faults>>
        /\ job'[w].pc = "load" /\ job'[w].exam = m[1] /\ job'[w].tries = m[2]
        /\ \A v \in Workers \ {w} : job'[v] = job[v]
    BY <1>4, <1>a DEF Deliver, TypeOK
  <2>1. /\ ready[m] > 0 /\ ready'[m] = ready[m] - 1
        /\ \A k \in Messages : k # m => ready'[k] = ready[k]
    BY <1>4, <1>a DEF Deliver
  <2>2. m = <<m[1], m[2]>> /\ m[1] \in Exams /\ m[2] \in 0 .. MaxRetries
    BY DEF Messages
  <2>3. FirstRun(e)
    BY <1>b, <2>0
  <2>4. CASE m[1] # e
    <3>1. \A n \in 0 .. MaxRetries : ready'[<<e, n>>] = ready[<<e, n>>]
      BY <1>a, <2>1, <2>2, <2>4
    <3> QED  BY <2>0, <2>3, <2>4, <3>1, UntouchedFirst DEF First
  <2>5. CASE m[1] = e /\ m[2] = 0
    <3>1. m = <<e, 0>> /\ ready[<<e, 0>>] = 1 /\ ready'[<<e, 0>>] = 0
      BY <1>a, <2>1, <2>2, <2>3, <2>5 DEF FirstRun, Single
    <3>2. create[e] # "committed" /\ \A v \in Workers : ~First(v, e)
      BY <2>3, <3>1 DEF FirstRun, Single
    <3>3. Single(e)'
      BY <2>0, <3>1, <3>2 DEF Single, First
    <3>4. ~Over(e)
      BY <3>1 DEF Over
    <3>5. ~Retried(e) /\ exam[e] \notin {"READY", "FAILED"}
      BY <2>3, <3>4 DEF FirstRun
    <3>6. ~Retried(e)'
      <4>1. \A n \in 1 .. MaxRetries : ready'[<<e, n>>] = ready[<<e, n>>]
        BY <1>a, <2>1, <3>1
      <4> QED  BY <2>0, <2>5, <3>5, <4>1 DEF Retried
    <3> QED  BY <2>0, <3>3, <3>5, <3>6 DEF FirstRun
  <2>6. CASE m[1] = e /\ m[2] # 0
    <3>1. ready'[<<e, 0>>] = ready[<<e, 0>>]
      BY <1>a, <2>1, <2>2, <2>6
    <3>2. m[2] \in 1 .. MaxRetries /\ ready[<<e, m[2]>>] > 0
      BY <1>a, <2>1, <2>2, <2>6
    <3>3. Over(e)
      BY <2>3, <3>2 DEF FirstRun, Retried
    <3>4. \A v \in Workers : First(v, e)' <=> First(v, e)
      BY <2>0, <2>6 DEF First
    <3>5. Single(e)'
      BY <2>0, <2>3, <3>1, <3>4 DEF FirstRun, Single
    <3>6. Over(e)'
      BY <2>0, <3>1, <3>3, <3>4 DEF Over, First
    <3> QED  BY <3>5, <3>6 DEF FirstRun
  <2> QED  BY <2>4, <2>5, <2>6
<1>5. ASSUME NEW w \in Workers, WorkerStep(w) PROVE FirstRun(e)'
  <2> DEFINE x == job[w].exam
  <2>0. /\ job[w].pc # "idle" /\ x \in Exams
        /\ UNCHANGED <<create, faults>>
        /\ \A v \in Workers \ {w} : job'[v] = job[v]
        /\ job'[w].pc # "idle" => job'[w].exam = x /\ job'[w].tries = job[w].tries
        /\ job[w].pc \in {"returned", "raised"} => job'[w].pc \in {"returned", "raised", "idle"}
        /\ \/ UNCHANGED exam
           \/ job'[w].pc \in {"returned", "raised"} /\ job[w].pc \in {"commit", "flip"}
        /\ \A y \in Exams \ {x} : exam'[y] = exam[y]
        /\ \A y \in Exams : ready'[<<y, 0>>] = ready[<<y, 0>>]
        /\ \/ UNCHANGED ready
           \/ /\ job[w].pc = "raised"
              /\ \A y \in Exams \ {x}, n \in 1 .. MaxRetries : ready'[<<y, n>>] = ready[<<y, n>>]
    BY <1>a, <1>5, StepFrame
  <2>1. FirstRun(e)
    BY <1>b, <2>0
  <2>2. CASE x # e
    <3>1. \A n \in 0 .. MaxRetries : ready'[<<e, n>>] = ready[<<e, n>>]
      <4>1. \A n \in 0 .. MaxRetries : n = 0 \/ n \in 1 .. MaxRetries
        BY BoundsAssumption
      <4> QED  BY <2>0, <2>2, <4>1
    <3> QED  BY <2>0, <2>1, <2>2, <3>1, UntouchedFirst DEF First
  <2>3. CASE x = e
    <3>1. \A v \in Workers : First(v, e)' => First(v, e)
      BY <2>0, <2>3 DEF First
    <3>2. Single(e)'
      BY <2>0, <2>1, <3>1 DEF FirstRun, Single
    <3>3. Over(e) => Over(e)'
      BY <2>0, <3>1 DEF Over, First
    <3>4. CASE ~First(w, e)
      BY <2>0, <2>1, <2>3, <3>2, <3>3, <3>4 DEF FirstRun, Retried, First
    <3>5. CASE First(w, e)
      <4>1. /\ create[e] # "committed" /\ ready[<<e, 0>>] = 0
            /\ \A v \in Workers : First(v, e) => v = w
        <5>1. ready[<<e, 0>>] \in Nat
          BY <1>a
        <5> QED  BY <2>1, <3>5, <5>1 DEF FirstRun, Single
      <4>2. job'[w].pc \in {"returned", "raised", "idle"} => Over(e)'
        BY <2>0, <3>1, <4>1 DEF Over, First
      <4>3. CASE job'[w].pc \in {"returned", "raised", "idle"}
        BY <3>2, <4>2, <4>3 DEF FirstRun
      <4>4. CASE job'[w].pc \notin {"returned", "raised", "idle"}
        <5>1. UNCHANGED exam /\ UNCHANGED ready
          BY <2>0, <4>4
        <5>2. Retried(e)' => Retried(e)
          BY <2>0, <5>1 DEF Retried
        <5> QED  BY <2>1, <3>2, <3>3, <5>1, <5>2 DEF FirstRun
      <4> QED  BY <4>3, <4>4
    <3> QED  BY <3>4, <3>5
  <2> QED  BY <2>2, <2>3
<1>6. ASSUME NEW w \in Workers, Fault(w) PROVE FALSE
  BY <1>a, <1>6 DEF Fault, WorkerDies, BrokerLost, PoolProcessDies, ConnectionLost
<1>7. CASE UNCHANGED vars
  <2>1. FirstRun(e) /\ UNCHANGED <<exam, create, ready, job>>
    BY <1>7, <1>b DEF vars
  <2> QED  BY <2>1, UntouchedFirst
<1> QED  BY <1>1, <1>2, <1>3, <1>4, <1>5, <1>6, <1>7 DEF Next, CreateStep

\* Who decides an exam is at work on it.
LEMMA DecidesAtWork ==
  ASSUME TypeOK, NEW w \in Workers, NEW e \in Exams, exam'[e] # exam[e],
         WorkerStep(w) \/ Fault(w)
  PROVE  job[w].exam = e /\ job[w].pc \in {"commit", "flip"}
<1>1. CASE WorkerStep(w)
  BY <1>1, StepFrame
<1>2. CASE Fault(w)
  BY <1>2 DEF Fault, WorkerDies, BrokerLost, PoolProcessDies, ConnectionLost, CutShort, Fill,
              Flip, TypeOK
<1> QED  BY <1>1, <1>2

LEMMA StepKeepsVerdict ==
  ASSUME FirstInv, [Next]_vars, NEW e \in Exams,
         exam[e] \in {"READY", "FAILED"}, exam'[e] \notin {exam[e], "NONE"}
  PROVE  RunsAgain(e)
<1>a. TypeOK /\ NewIsNobodys /\ faults \in Nat
  BY BoundsAssumption DEF FirstInv, ContentInv, TypeOK
<1>1. ASSUME NEW x \in Exams, CreateStep(x) \/ GenerateExam(x) \/ ParentDeleted(x)
      PROVE  FALSE
  <2>1. CASE CreatePlaceholder(x) \/ GenerateExam(x)
    <3>1. x = e
      BY <1>a, <2>1 DEF CreatePlaceholder, GenerateExam, TypeOK
    <3> QED  BY <1>a, <2>1, <3>1 DEF CreatePlaceholder, GenerateExam, NewIsNobodys
  <2>2. CASE Dispatch(x) \/ DispatchLost(x)
    BY <2>2 DEF Dispatch, DispatchLost
  <2>3. CASE ParentDeleted(x)
    BY <1>a, <2>3 DEF ParentDeleted, TypeOK
  <2> QED  BY <1>1, <2>1, <2>2, <2>3 DEF CreateStep
<1>2. ASSUME NEW w \in Workers, NEW m \in Messages, Deliver(w, m) PROVE FALSE
  BY <1>2 DEF Deliver
<1>3. ASSUME NEW w \in Workers, WorkerStep(w) \/ Fault(w)
      PROVE  RunsAgain(e)
  <2>1. job[w].exam = e /\ job[w].pc \in {"commit", "flip"}
    BY <1>a, <1>3, DecidesAtWork
  <2>2. job[w].tries \in Nat
    BY <1>a, BoundsAssumption DEF TypeOK, Job
  <2>3. CASE faults = 0
    <3>1. Over(e)
      BY <2>3 DEF FirstInv, FirstRuns, FirstRun
    <3>2. job[w].tries # 0
      BY <2>1, <3>1 DEF Over, First
    <3>3. job[w].tries > 0
      BY <2>2, <3>2
    <3> QED  BY <2>1, <3>3 DEF RunsAgain
  <2>4. CASE faults # 0
    <3>1. faults > 0
      BY <1>a, <2>4
    <3> QED  BY <3>1 DEF RunsAgain
  <2> QED  BY <2>3, <2>4
<1>4. CASE UNCHANGED vars
  BY <1>4 DEF vars
<1> QED  BY <1>1, <1>2, <1>3, <1>4 DEF Next

\* Without a retry and without a death, what a client saw as the verdict stays the
\* verdict (generate_exam_task).
THEOREM VerdictsAreFinal == Spec => VerdictIsFinal
<1>1. FirstInv /\ [Next]_vars =>
        [\A e \in Exams : exam[e] \in {"READY", "FAILED"} /\ exam'[e] \notin {exam[e], "NONE"}
            => RunsAgain(e)]_vars
  BY StepKeepsVerdict
<1> QED  BY <1>1, InitFirst, NextFirst, PTL DEF Spec, VerdictIsFinal

-----------------------------------------------------------------------------
(***************************************************************************)
(* How often an exam can be filled.  Every try that is still to come, in a *)
(* delivery or in a message, is counted as a set that may be added; a      *)
(* commit turns one of them into a set, a retry hands the rest on, and     *)
(* only a death with its message adds to the sum.                          *)
(***************************************************************************)

Tries == 0 .. MaxRetries

\* The tries in which the delivery j, or its retries, may still add a set.
Left(j) ==
  {k \in 0 .. MaxRetries :
     \/ j.pc \in {"load", "generate", "commit"} /\ k >= j.tries
     \/ j.pc \in {"refetch", "flip", "raised"} /\ k > j.tries}

\* The tries ahead for an exam: of its deliveries, of its messages (one for each
\* copy), and of a task not yet sent.
Running(e) == {r \in Workers \X Tries : job[r[1]].exam = e /\ r[2] \in Left(job[r[1]])}

Queued(e) ==
  {q \in Tries \X Nat \X Tries : q[2] \in 1 .. ready[<<e, q[1]>>] /\ q[3] >= q[1]}

Promised(e) == IF create[e] = "done" THEN 0 ELSE MaxRetries + 1

Room == (MaxRetries + 1) * (faults + 1)

SetsCounted(e) ==
  /\ IsFiniteSet(Running(e))
  /\ IsFiniteSet(Queued(e))
  /\ filled[e] + Cardinality(Running(e)) + Cardinality(Queued(e)) + Promised(e) <= Room

Counted == \A e \in Exams : SetsCounted(e)

-----------------------------------------------------------------------------
\* A finite set that loses one part and gains another.
LEMMA Exchange ==
  ASSUME NEW S, NEW L, NEW G, NEW U, IsFiniteSet(S), IsFiniteSet(G),
         L \subseteq S, U \subseteq (S \ L) \cup G
  PROVE  /\ IsFiniteSet(U) /\ IsFiniteSet(L)
         /\ Cardinality(U) + Cardinality(L) <= Cardinality(S) + Cardinality(G)
<1> DEFINE K == S \ L
<1>1. S \cap L = L
  OBVIOUS
<1>2. /\ IsFiniteSet(K) /\ Cardinality(K) = Cardinality(S) - Cardinality(L)
      /\ IsFiniteSet(L)
  BY <1>1, FS_Difference, FS_Subset
<1> HIDE DEF K
<1>3. /\ IsFiniteSet(K \cup G) /\ IsFiniteSet(K \cap G)
      /\ Cardinality(K \cup G) = Cardinality(K) + Cardinality(G) - Cardinality(K \cap G)
  BY <1>2, FS_Union, FS_Intersection
<1>4. IsFiniteSet(U) /\ Cardinality(U) <= Cardinality(K \cup G)
  <2>1. U \in SUBSET (K \cup G)
    BY DEF K
  <2> QED  BY <1>3, <2>1, FS_Subset
<1>5. /\ Cardinality(S) \in Nat /\ Cardinality(L) \in Nat /\ Cardinality(G) \in Nat
      /\ Cardinality(K) \in Nat /\ Cardinality(K \cup G) \in Nat
      /\ Cardinality(K \cap G) \in Nat /\ Cardinality(U) \in Nat
  BY <1>2, <1>3, <1>4, FS_CardinalityType
<1> QED  BY <1>2, <1>3, <1>4, <1>5

\* What is handed on: all tries from n.
RunBlock(w, n) == {<<w, k>> : k \in n .. MaxRetries}
QueueBlock(n, i) == {<<n, i, k>> : k \in n .. MaxRetries}

LEMMA BlockSizes ==
  ASSUME NEW n \in 0 .. MaxRetries + 1, NEW w, NEW i
  PROVE  /\ IsFiniteSet(RunBlock(w, n)) /\ Cardinality(RunBlock(w, n)) = MaxRetries - n + 1
         /\ IsFiniteSet(QueueBlock(n, i)) /\ Cardinality(QueueBlock(n, i)) = MaxRetries - n + 1
<1> DEFINE N == n .. MaxRetries
           f == [k \in N |-> <<w, k>>]
           g == [k \in N |-> <<n, i, k>>]
<1>1. IsFiniteSet(N) /\ Cardinality(N) = MaxRetries - n + 1
  BY BoundsAssumption, FS_Interval
<1>2. f \in Bijection(N, RunBlock(w, n))
  BY DEF RunBlock, Bijection, Injection, Surjection, IsInjective
<1>3. g \in Bijection(N, QueueBlock(n, i))
  BY DEF QueueBlock, Bijection, Injection, Surjection, IsInjective
<1> QED  BY <1>1, <1>2, <1>3, FS_Bijection DEF ExistsBijection

LEMMA Product ==
  ASSUME NEW a \in Nat, NEW b \in Nat
  PROVE  a * b \in Nat /\ a * (b + 1) = a * b + a
OBVIOUS

\* There is room for another MaxRetries + 1 sets each time a process is lost.
LEMMA RoomGrows ==
  ASSUME TypeOK, faults' \in {faults, faults + 1}
  PROVE  /\ Room \in Nat /\ Room' \in Nat
         /\ faults' = faults => Room' = Room
         /\ faults' = faults + 1 => Room' = Room + MaxRetries + 1
<1> DEFINE M == MaxRetries + 1
           f == faults + 1
<1>1. M \in Nat /\ f \in Nat
  BY BoundsAssumption DEF TypeOK
<1>2. Room = M * f /\ Room' = M * (faults' + 1)
  BY DEF Room
<1> HIDE DEF M
<1>3. CASE faults' = faults
  BY <1>1, <1>2, <1>3, Product
<1>4. CASE faults' = faults + 1
  <2>1. Room' = M * (f + 1)
    BY <1>2, <1>4
  <2> HIDE DEF f
  <2>2. Room \in Nat /\ Room' = Room + M
    BY <1>1, <1>2, <2>1, Product
  <2>3. Room' = Room + MaxRetries + 1 /\ Room' \in Nat
    BY <1>1, <2>2, BoundsAssumption DEF M
  <2>4. faults' # faults
    BY <1>4 DEF TypeOK
  <2> QED  BY <2>2, <2>3, <2>4
<1> QED  BY <1>3, <1>4

\* An exam that gains nothing.
LEMMA NoMore ==
  ASSUME NEW e \in Exams, TypeOK, TypeOK', SetsCounted(e),
         Running(e)' \subseteq Running(e), Queued(e)' \subseteq Queued(e),
         filled'[e] <= filled[e], Promised(e)' <= Promised(e), faults' \in {faults, faults + 1}
  PROVE  SetsCounted(e)'
<1>2. /\ IsFiniteSet(Running(e)') /\ IsFiniteSet(Queued(e)')
      /\ Cardinality(Running(e)') + Cardinality(Queued(e)')
           <= Cardinality(Running(e)) + Cardinality(Queued(e))
      /\ Cardinality(Running(e)') \in Nat /\ Cardinality(Queued(e)') \in Nat
      /\ Cardinality(Running(e)) \in Nat /\ Cardinality(Queued(e)) \in Nat
  <2>1. /\ IsFiniteSet(Running(e)') /\ Cardinality(Running(e)') <= Cardinality(Running(e))
        /\ IsFiniteSet(Queued(e)') /\ Cardinality(Queued(e)') <= Cardinality(Queued(e))
        /\ IsFiniteSet(Running(e)) /\ IsFiniteSet(Queued(e))
    BY FS_Subset DEF SetsCounted
  <2>2. /\ Cardinality(Running(e)') \in Nat /\ Cardinality(Queued(e)') \in Nat
        /\ Cardinality(Running(e)) \in Nat /\ Cardinality(Queued(e)) \in Nat
    BY <2>1, FS_CardinalityType
  <2> QED  BY <2>1, <2>2
<1>3. /\ Room \in Nat /\ Room' \in Nat /\ Room' >= Room
  BY RoomGrows, BoundsAssumption
<1>4. filled[e] \in Nat /\ filled'[e] \in Nat
  BY DEF TypeOK
<1>5. Promised(e) \in Nat /\ Promised(e)' \in Nat
  BY BoundsAssumption DEF Promised
<1> QED  BY <1>2, <1>3, <1>4, <1>5 DEF SetsCounted

-----------------------------------------------------------------------------
\* What a step of the worker w does to the sets it may still add.

Same(w) ==
  /\ UNCHANGED create
  /\ \A v \in Workers \ {w} : job'[v] = job[v]
  /\ \A x \in Exams \ {job[w].exam} : filled'[x] = filled[x]

\* It adds none, or one that it was allowed to.
Spends(w) ==
  LET e == job[w].exam IN
  /\ job'[w].pc # "idle" => job'[w].exam = e
  /\ Left(job'[w]) \subseteq Left(job[w])
  /\ \/ filled'[e] = filled[e]
     \/ /\ filled'[e] = filled[e] + 1
        /\ job[w].tries \in Left(job[w]) \ Left(job'[w])

LEMMA LeftOfPC ==
  ASSUME NEW j
  PROVE  /\ j.pc \in {"idle", "returned"} => Left(j) = {}
         /\ j.pc \in {"load", "generate", "commit"} => Left(j) = {k \in Tries : k >= j.tries}
         /\ j.pc \in {"refetch", "flip", "raised"} => Left(j) = {k \in Tries : k > j.tries}
BY DEF Left, Tries

LEMMA CutFills ==
  ASSUME TypeOK, NEW w \in Workers, CutShort(w), job[w].exam \in Exams
  PROVE  /\ UNCHANGED create
         /\ \A x \in Exams \ {job[w].exam} : filled'[x] = filled[x]
         /\ \/ filled'[job[w].exam] = filled[job[w].exam]
            \/ filled'[job[w].exam] = filled[job[w].exam] + 1 /\ job[w].pc = "commit"
BY DEF CutShort, Fill, TypeOK

LEMMA GotoLeft ==
  ASSUME JobOK, NEW w \in Workers, NEW pc \in JobPC, NEW s \in Status,
         Goto(w, pc) \/ job' = [job EXCEPT ![w].pc = pc, ![w].seen = s]
  PROVE  job'[w].tries = job[w].tries /\ job'[w].pc = pc /\ job'[w].exam = job[w].exam
BY DEF JobOK, Goto, Job

\* The process goes on at the same try, or is done with the message.
LEMMA SpendsByPC ==
  ASSUME NEW w \in Workers, job[w].tries \in Tries,
         job'[w].pc # "idle" => job'[w].exam = job[w].exam,
         \/ job'[w].pc \in {"idle", "returned"}
         \/ job'[w].tries = job[w].tries /\ job'[w].pc \in {"refetch", "flip", "raised"}
            /\ job[w].pc \notin {"idle", "returned"}
         \/ job'[w].tries = job[w].tries /\ job'[w].pc \in {"generate", "commit"}
            /\ job[w].pc \in {"load", "generate"} /\ UNCHANGED filled,
         job[w].pc \in JobPC,
         \/ filled'[job[w].exam] = filled[job[w].exam]
         \/ filled'[job[w].exam] = filled[job[w].exam] + 1 /\ job[w].pc = "commit"
  PROVE  Spends(w)
<1> DEFINE j == job[w]
           k == job'[w]
           more == k.pc \in {"generate", "commit"}
<1>1. /\ j.pc \in {"idle", "returned"} => Left(j) = {}
      /\ j.pc \in {"load", "generate", "commit"} => Left(j) = {n \in Tries : n >= j.tries}
      /\ j.pc \in {"refetch", "flip", "raised"} => Left(j) = {n \in Tries : n > j.tries}
      /\ k.pc \in {"idle", "returned"} => Left(k) = {}
      /\ k.pc \in {"load", "generate", "commit"} => Left(k) = {n \in Tries : n >= k.tries}
      /\ k.pc \in {"refetch", "flip", "raised"} => Left(k) = {n \in Tries : n > k.tries}
  BY LeftOfPC
<1>2. Left(k) \subseteq Left(j)
  <2>1. CASE k.pc \in {"idle", "returned"}
    BY <1>1, <2>1
  <2>2. CASE k.pc \in {"refetch", "flip", "raised"} /\ k.tries = j.tries
    BY <1>1, <2>2 DEF JobPC, Tries
  <2>3. CASE more /\ k.tries = j.tries
    BY <1>1, <2>3
  <2> QED  BY <2>1, <2>2, <2>3
<1>3. CASE filled'[job[w].exam] = filled[job[w].exam]
  BY <1>2, <1>3 DEF Spends
<1>4. CASE filled'[job[w].exam] = filled[job[w].exam] + 1 /\ job[w].pc = "commit"
  <2>1. j.tries \in Left(j)
    BY <1>1, <1>4 DEF Tries
  <2>2. j.tries \notin Left(k)
    <3>1. CASE k.pc \in {"idle", "returned"}
      BY <1>1, <3>1
    <3>2. CASE k.pc \in {"refetch", "flip", "raised"} /\ k.tries = j.tries
      BY <1>1, <3>2 DEF Tries
    <3> QED  BY <1>4, <3>1, <3>2
  <2> QED  BY <1>2, <1>4, <2>1, <2>2 DEF Spends
<1> QED  BY <1>3, <1>4

LEMMA WorkerSpends ==
  ASSUME TypeOK, NEW w \in Workers, WorkerStep(w) \/ Fault(w)
  PROVE  Same(w) /\ Spends(w)
<1>a. /\ JobOK /\ KeepsJobs(w) /\ KeepsRest(w) /\ job[w].exam \in Exams
      /\ job[w].tries \in Tries /\ filled[job[w].exam] \in Nat
  BY WorkerKeeps, WorkerBusy, TypeParts DEF TypeOK, Tries
<1>b. /\ \A pc \in {"generate", "commit", "refetch", "flip", "raised", "returned"} : pc \in JobPC
      /\ \E s \in Status : TRUE
  BY DEF JobPC, Status
<1>1. /\ UNCHANGED create
      /\ \A v \in Workers \ {w} : job'[v] = job[v]
      /\ job'[w].pc # "idle" => job'[w].exam = job[w].exam
  BY <1>a DEF KeepsRest, KeepsJobs
<1>2. /\ \A x \in Exams \ {job[w].exam} : filled'[x] = filled[x]
      /\ \/ filled'[job[w].exam] = filled[job[w].exam]
         \/ filled'[job[w].exam] = filled[job[w].exam] + 1 /\ job[w].pc = "commit"
  <2>1. CASE UNCHANGED filled
    BY <2>1
  <2>2. CASE Commit(w)
    BY <1>a, <2>2 DEF Commit, Fill, TypeOK
  <2>3. CASE Timeout(w) \/ WorkerDies(w) \/ PoolProcessDies(w) \/ ConnectionLost(w)
    BY <1>a, <2>3, CutFills DEF Timeout, WorkerDies, PoolProcessDies, ConnectionLost
  <2> QED  BY <2>1, <2>2, <2>3
      DEF WorkerStep, Fault, BrokerLost, Load, Generate, Fails, Refetch, RecordFailed,
          RecoveryRaises, Retry, GiveUp, Ack
<1> SUFFICES Spends(w)
  BY <1>1, <1>2 DEF Same
<1>c. job[w].pc \in JobPC
  BY DEF TypeOK, Job
<1>3. ASSUME Load(w) \/ Refetch(w), NEW pc \in {"generate", "flip"},
             exam[job[w].exam] # "NONE", pc = "generate" => job[w].pc = "load",
             job' = [job EXCEPT ![w].pc = pc, ![w].seen = exam[job[w].exam]]
      PROVE  Spends(w)
  <2>1. exam[job[w].exam] \in Status /\ pc \in JobPC
    BY <1>a, <1>b, <1>3 DEF TypeOK
  <2>2. job'[w].tries = job[w].tries /\ job'[w].pc = pc
    BY <1>a, <1>3, <2>1, GotoLeft
  <2>3. UNCHANGED filled /\ job[w].pc \in {"load", "refetch"}
    BY <1>3 DEF Load, Refetch
  <2> QED  BY <1>a, <1>1, <1>c, <1>3, <2>2, <2>3, SpendsByPC
<1>4. ASSUME NEW pc \in {"refetch", "flip", "raised", "returned"}, Goto(w, pc),
             job[w].pc \notin {"idle", "returned"}
      PROVE  Spends(w)
  <2>1. job'[w].tries = job[w].tries /\ job'[w].pc = pc
    BY <1>a, <1>b, <1>4, GotoLeft
  <2> QED  BY <1>a, <1>1, <1>c, <1>2, <1>4, <2>1, SpendsByPC
<1>5. CASE Load(w) \/ Refetch(w)
  <2>1. CASE Goto(w, "raised") \/ Goto(w, "returned")
    BY <1>4, <1>5, <2>1 DEF Load, Refetch
  <2> QED  BY <1>3, <1>5, <2>1 DEF Load, Refetch
<1>6. CASE Generate(w)
  <2>1. job'[w].tries = job[w].tries /\ job'[w].pc = "commit"
    BY <1>a, <1>b, <1>6, GotoLeft DEF Generate
  <2> QED  BY <1>a, <1>1, <1>c, <1>6, <2>1, SpendsByPC DEF Generate
<1>7. CASE \/ Commit(w) \/ Fails(w) \/ RecordFailed(w) \/ RecoveryRaises(w) \/ Retry(w)
           \/ GiveUp(w) \/ Timeout(w) \/ ConnectionLost(w)
  BY <1>4, <1>7
     DEF Commit, Fails, RecordFailed, RecoveryRaises, Retry, GiveUp, Timeout, ConnectionLost
<1>8. CASE Ack(w) \/ WorkerDies(w) \/ PoolProcessDies(w)
  <2>1. job'[w].pc = "idle"
    BY <1>a, <1>8, IdleType DEF Ack, WorkerDies, PoolProcessDies
  <2> QED  BY <1>a, <1>1, <1>c, <1>2, <2>1, SpendsByPC
<1>9. CASE BrokerLost(w)
  BY <1>9 DEF BrokerLost, Spends
<1> QED  BY <1>5, <1>6, <1>7, <1>8, <1>9 DEF WorkerStep, Fault

-----------------------------------------------------------------------------
\* A step of a worker never adds to Running, and pays for the set it commits.
LEMMA RunningShrinks ==
  ASSUME TypeOK, NEW w \in Workers, Same(w), Spends(w), NEW x \in Exams
  PROVE  Running(x)' \subseteq Running(x)
<1> SUFFICES ASSUME NEW v \in Workers, NEW k \in Tries, job'[v].exam = x, k \in Left(job'[v])
             PROVE  job[v].exam = x /\ k \in Left(job[v])
  BY DEF Running
<1>1. CASE v = w
  <2>1. job'[w].pc # "idle"
    BY <1>1, LeftOfPC
  <2> QED  BY <1>1, <2>1 DEF Spends
<1>2. CASE v # w
  BY <1>2 DEF Same
<1> QED  BY <1>1, <1>2

LEMMA SetPaidFor ==
  ASSUME TypeOK, NEW w \in Workers, Same(w), Spends(w), NEW e \in Exams, job[w].exam = e,
         IsFiniteSet(Running(e))
  PROVE  /\ IsFiniteSet(Running(e)')
         /\ filled'[e] + Cardinality(Running(e)') <= filled[e] + Cardinality(Running(e))
<1>a. Running(e)' \subseteq Running(e)
  BY RunningShrinks
<1>b. /\ IsFiniteSet(Running(e)') /\ Cardinality(Running(e)') <= Cardinality(Running(e))
      /\ Cardinality(Running(e)) \in Nat /\ Cardinality(Running(e)') \in Nat
      /\ filled[e] \in Nat
  BY <1>a, FS_Subset, FS_CardinalityType DEF TypeOK
<1>1. CASE filled'[e] = filled[e]
  BY <1>b, <1>1
<1>2. CASE filled'[e] = filled[e] + 1 /\ job[w].tries \in Left(job[w]) \ Left(job'[w])
  <2> DEFINE r == <<w, job[w].tries>>
             P == Running(e)'
             R == Running(e)
  <2>1. r \in R
    BY <1>2 DEF Running, Left, Tries
  <2>2. r \notin P
    BY <1>2 DEF Running
  <2>3. IsFiniteSet(R \ {r}) /\ Cardinality(R \ {r}) = Cardinality(R) - 1
    BY <2>1, FS_RemoveElement
  <2>4. P \in SUBSET (R \ {r})
    BY <1>a, <2>2
  <2>5. Cardinality(P) <= Cardinality(R \ {r})
    BY <2>3, <2>4, FS_Subset
  <2> HIDE DEF P, R
  <2>6. Cardinality(P) <= Cardinality(R) - 1
    BY <2>3, <2>5
  <2> QED  BY <1>b, <1>2, <2>6 DEF P, R
<1> QED  BY <1>1, <1>2 DEF Spends

LEMMA QueueGains ==
  ASSUME TypeOK, NEW e \in Exams, NEW n \in Tries, Publish(e, n), IsFiniteSet(Queued(e))
  PROVE  /\ IsFiniteSet(Queued(e)')
         /\ Cardinality(Queued(e)') <= Cardinality(Queued(e)) + (MaxRetries - n + 1)
         /\ \A x \in Exams \ {e} : Queued(x)' = Queued(x)
<1> DEFINE m == <<e, n>>
           B == QueueBlock(n, ready[m] + 1)
<1>1. /\ m \in Messages /\ ready[m] \in Nat
      /\ \A k \in Messages : ready'[k] = IF k = m THEN ready[k] + 1 ELSE ready[k]
  BY DEF Publish, Messages, Tries, TypeOK
<1>2. Queued(e)' \subseteq Queued(e) \cup B
  <2> SUFFICES ASSUME NEW a \in Tries, NEW i \in Nat, NEW k \in Tries,
                      i \in 1 .. ready'[<<e, a>>], k >= a, i \notin 1 .. ready[<<e, a>>]
               PROVE  <<a, i, k>> \in B
    BY DEF Queued
  <2>1. <<e, a>> \in Messages
    BY DEF Messages, Tries
  <2>2. a = n
    BY <1>1, <2>1
  <2>3. i = ready[m] + 1
    BY <1>1, <2>2
  <2> QED  BY <2>2, <2>3, BoundsAssumption DEF QueueBlock, Tries
<1>3. IsFiniteSet(B) /\ Cardinality(B) = MaxRetries - n + 1
  <2>1. n \in 0 .. MaxRetries + 1
    BY BoundsAssumption DEF Tries
  <2> QED  BY <2>1, BlockSizes
<1>4. \A x \in Exams \ {e} : Queued(x)' = Queued(x)
  <2> SUFFICES ASSUME NEW x \in Exams \ {e}
               PROVE  \A a \in Tries : ready'[<<x, a>>] = ready[<<x, a>>]
    BY DEF Queued
  <2> QED  BY <1>1 DEF Messages, Tries
<1> HIDE DEF B
<1>5. /\ IsFiniteSet(Queued(e)')
      /\ Cardinality(Queued(e)') + Cardinality({}) <= Cardinality(Queued(e)) + Cardinality(B)
  <2> DEFINE N == {}
             Q == Queued(e)
             U == Queued(e)'
  <2>1. N \subseteq Q /\ U \subseteq (Q \ N) \cup B
    BY <1>2
  <2> HIDE DEF N, Q, U
  <2>2. IsFiniteSet(U) /\ Cardinality(U) + Cardinality(N) <= Cardinality(Q) + Cardinality(B)
    BY <1>3, <2>1, Exchange DEF Q
  <2> QED  BY <2>2 DEF N, Q, U
<1>6. Cardinality({}) = 0 /\ Cardinality(Queued(e)') \in Nat
  BY <1>5, FS_EmptySet, FS_CardinalityType
<1> QED  BY <1>3, <1>4, <1>5, <1>6

LEMMA RetryMoves ==
  ASSUME TypeOK, NEW w \in Workers, Retry(w), NEW e \in Exams, job[w].exam = e, SetsCounted(e)
  PROVE  SetsCounted(e)'
<1> DEFINE n == job[w].tries + 1
           B == RunBlock(w, n)
           R == Running(e)
           P == Running(e)'
<1>1. /\ n \in Tries /\ Publish(e, n) /\ UNCHANGED <<filled, create, faults>>
      /\ job[w].pc = "raised" /\ JobOK
  BY TypeParts, BoundsAssumption DEF Retry, TypeOK, Job, Tries
<1>2. Same(w) /\ Spends(w)
  BY WorkerSpends DEF WorkerStep
<1>3. B \subseteq R
  <2> SUFFICES ASSUME NEW k \in n .. MaxRetries
               PROVE  k \in Tries /\ k \in Left(job[w])
    BY DEF RunBlock, Running
  <2>1. job[w].tries \in Nat /\ k \in Int /\ k >= job[w].tries + 1 /\ k <= MaxRetries
    BY BoundsAssumption DEF TypeOK, Job
  <2>2. k \in Tries /\ k > job[w].tries
    BY <2>1, BoundsAssumption DEF Tries
  <2> QED  BY <1>1, <2>2, LeftOfPC
<1>4. job'[w].pc = "returned"
  <2>1. "returned" \in JobPC
    BY DEF JobPC
  <2> QED  BY <1>1, <2>1, GotoEffect DEF Retry
<1>5. P \subseteq R /\ P \cap B = {}
  <2>1. Left(job'[w]) = {}
    BY <1>4, LeftOfPC
  <2> QED  BY <1>2, <2>1, RunningShrinks DEF Running, RunBlock
<1>6. IsFiniteSet(B) /\ Cardinality(B) = MaxRetries - n + 1
  <2>1. n \in 0 .. MaxRetries + 1
    BY <1>1, BoundsAssumption DEF Tries
  <2> QED  BY <2>1, BlockSizes
<1>7. /\ IsFiniteSet(P) /\ Cardinality(P) \in Nat /\ Cardinality(R) \in Nat
      /\ Cardinality(P) + (MaxRetries - n + 1) <= Cardinality(R)
  <2> DEFINE N == {}
  <2>1. IsFiniteSet(N) /\ Cardinality(N) = 0
    BY FS_EmptySet
  <2>2. P \subseteq (R \ B) \cup N /\ IsFiniteSet(R)
    BY <1>5 DEF SetsCounted
  <2> HIDE DEF N, P, R, B
  <2>3. IsFiniteSet(P) /\ Cardinality(P) + Cardinality(B) <= Cardinality(R) + Cardinality(N)
    BY <1>3, <2>1, <2>2, Exchange
  <2>4. Cardinality(P) \in Nat /\ Cardinality(R) \in Nat
    BY <2>2, <2>3, FS_CardinalityType
  <2> QED  BY <1>6, <2>1, <2>3, <2>4
<1>8. /\ IsFiniteSet(Queued(e)')
      /\ Cardinality(Queued(e)') <= Cardinality(Queued(e)) + (MaxRetries - n + 1)
      /\ IsFiniteSet(Queued(e))
  BY <1>1, QueueGains DEF SetsCounted
<1>9. Cardinality(Queued(e)') \in Nat /\ Cardinality(Queued(e)) \in Nat
  BY <1>8, FS_CardinalityType
<1>10. /\ filled'[e] = filled[e] /\ filled[e] \in Nat /\ Promised(e)' = Promised(e) /\ Room' = Room
       /\ Promised(e) \in Nat /\ Room \in Nat /\ MaxRetries - n + 1 \in Nat
  BY <1>1, RoomGrows, BoundsAssumption DEF Promised, Room, TypeOK, Tries
<1>11. filled[e] + Cardinality(R) + Cardinality(Queued(e)) + Promised(e) <= Room
  BY DEF SetsCounted
<1> HIDE DEF n, B, R, P
<1>12. filled'[e] + Cardinality(P) + Cardinality(Queued(e)') + Promised(e)' <= Room'
  BY <1>7, <1>8, <1>9, <1>10, <1>11
<1> QED  BY <1>7, <1>8, <1>12 DEF SetsCounted, P

\* The message of a worker that died or lost the broker comes back: another
\* MaxRetries + 1 at most.
LEMMA DeathAdds ==
  ASSUME TypeOK, TypeOK', NEW w \in Workers, WorkerDies(w) \/ BrokerLost(w), NEW e \in Exams,
         job[w].exam = e, SetsCounted(e)
  PROVE  SetsCounted(e)'
<1>1. /\ job[w].tries \in Tries /\ Publish(e, job[w].tries) /\ faults' = faults + 1
      /\ UNCHANGED create
  BY DEF WorkerDies, BrokerLost, CutShort, TypeOK, Job, Tries
<1>2. Same(w) /\ Spends(w)
  BY WorkerSpends DEF Fault
<1>3. /\ IsFiniteSet(Running(e)')
      /\ filled'[e] + Cardinality(Running(e)') <= filled[e] + Cardinality(Running(e))
  BY <1>2, SetPaidFor DEF SetsCounted
<1>4. /\ IsFiniteSet(Queued(e)')
      /\ Cardinality(Queued(e)') <= Cardinality(Queued(e)) + (MaxRetries - job[w].tries + 1)
  BY <1>1, QueueGains DEF SetsCounted
<1>5. /\ Cardinality(Running(e)) \in Nat /\ Cardinality(Running(e)') \in Nat
      /\ Cardinality(Queued(e)) \in Nat /\ Cardinality(Queued(e)') \in Nat
  BY <1>3, <1>4, FS_CardinalityType DEF SetsCounted
<1>6. /\ Promised(e)' = Promised(e) /\ Promised(e) \in Nat
      /\ Room' = Room + MaxRetries + 1 /\ Room \in Nat
      /\ filled[e] \in Nat /\ filled'[e] \in Nat /\ MaxRetries \in Nat /\ job[w].tries \in Nat
  BY <1>1, RoomGrows, BoundsAssumption DEF Promised, TypeOK, Tries
<1> QED  BY <1>3, <1>4, <1>5, <1>6 DEF SetsCounted

LEMMA WorkerCounted ==
  ASSUME TypeOK, TypeOK', Counted, NEW w \in Workers, WorkerStep(w) \/ Fault(w)
  PROVE  Counted'
<1>a. Same(w) /\ Spends(w) /\ job[w].exam \in Exams
  BY WorkerSpends, WorkerBusy
<1>b. /\ faults' \in {faults, faults + 1}
      /\ UNCHANGED ready \/ Retry(w) \/ WorkerDies(w) \/ BrokerLost(w)
  BY DEF WorkerStep, Load, Generate, Commit, Fails, Refetch, RecordFailed, RecoveryRaises,
         Retry, GiveUp, Ack, Timeout, Fault, WorkerDies, BrokerLost, PoolProcessDies, ConnectionLost
<1>c. \A x \in Exams : Promised(x)' = Promised(x) /\ Promised(x) \in Nat
  BY <1>a, BoundsAssumption DEF Same, Promised
<1> SUFFICES ASSUME NEW x \in Exams PROVE SetsCounted(x)'
  BY DEF Counted
<1>d. SetsCounted(x) /\ filled[x] \in Nat /\ filled'[x] \in Nat
  BY DEF Counted, TypeOK
<1>1. CASE x # job[w].exam
  <2>1. Queued(x)' = Queued(x)
    <3>1. CASE UNCHANGED ready
      BY <3>1 DEF Queued
    <3>2. ASSUME NEW n \in Tries, Publish(job[w].exam, n)
          PROVE  Queued(x)' = Queued(x)
      BY <1>a, <1>1, <3>2, QueueGains DEF Counted, SetsCounted
    <3>3. job[w].tries \in Tries /\ (Retry(w) => job[w].tries + 1 \in Tries)
      BY BoundsAssumption DEF TypeOK, Job, Tries, Retry
    <3> QED  BY <1>b, <3>1, <3>2, <3>3 DEF Retry, WorkerDies, BrokerLost
  <2>2. Running(x)' \subseteq Running(x) /\ filled'[x] <= filled[x]
    BY <1>a, <1>d, <1>1, RunningShrinks DEF Same
  <2> QED  BY <1>b, <1>c, <1>d, <2>1, <2>2, NoMore
<1>2. CASE x = job[w].exam /\ UNCHANGED ready
  <2>1. Queued(x)' = Queued(x)
    BY <1>2 DEF Queued
  <2>2. /\ IsFiniteSet(Running(x)')
        /\ filled'[x] + Cardinality(Running(x)') <= filled[x] + Cardinality(Running(x))
    BY <1>a, <1>d, <1>2, SetPaidFor DEF SetsCounted
  <2>3. /\ Cardinality(Running(x)) \in Nat /\ Cardinality(Running(x)') \in Nat
        /\ Cardinality(Queued(x)) \in Nat
    BY <1>d, <2>2, FS_CardinalityType DEF SetsCounted
  <2>4. Room \in Nat /\ Room' \in Nat /\ Room' >= Room
    BY <1>b, RoomGrows, BoundsAssumption
  <2> QED  BY <1>c, <1>d, <2>1, <2>2, <2>3, <2>4 DEF SetsCounted
<1> QED  BY <1>b, <1>d, <1>1, <1>2, RetryMoves, DeathAdds

-----------------------------------------------------------------------------
CountInv == ContentInv /\ Counted

LEMMA InitCounted == Init => Counted
<1> SUFFICES ASSUME Init, NEW e \in Exams PROVE SetsCounted(e)
  BY DEF Counted
<1>1. Running(e) = {}
  BY LeftOfPC DEF Init, Running, Idle
<1>2. Queued(e) = {}
  BY DEF Init, Queued, Messages, Tries
<1>3. filled[e] = 0 /\ Promised(e) = MaxRetries + 1 /\ Room = MaxRetries + 1
  BY BoundsAssumption DEF Init, Promised, Room
<1> QED  BY <1>1, <1>2, <1>3, FS_EmptySet, BoundsAssumption DEF SetsCounted

\* The request pays for the first delivery with what it was promised.
LEMMA CreateCounted ==
  ASSUME TypeOK, TypeOK', QuestionsFitStatus, NewIsNobodys, Counted, NEW e \in Exams,
         CreateStep(e) \/ GenerateExam(e) \/ ParentDeleted(e)
  PROVE  Counted'
<1> SUFFICES ASSUME NEW x \in Exams PROVE SetsCounted(x)'
  BY DEF Counted
<1>a. /\ SetsCounted(x) /\ filled[x] \in Nat /\ filled'[x] \in Nat /\ faults' = faults
      /\ UNCHANGED job
  BY DEF Counted, TypeOK, CreateStep, CreatePlaceholder, Dispatch, DispatchLost, GenerateExam,
         ParentDeleted
<1>b. Running(x)' = Running(x)
  BY <1>a DEF Running
<1>c. /\ Promised(x) \in Nat /\ Promised(x)' \in Nat /\ Promised(x)' <= Promised(x)
      /\ x # e => Promised(x)' = Promised(x)
  BY BoundsAssumption DEF Promised, TypeOK, CreateStep, CreatePlaceholder, Dispatch, DispatchLost,
         GenerateExam, ParentDeleted
<1>d. Room' = Room /\ Room \in Nat
  BY <1>a, RoomGrows
<1>e. /\ IsFiniteSet(Running(x)) /\ IsFiniteSet(Queued(x))
      /\ Cardinality(Running(x)) \in Nat /\ Cardinality(Queued(x)) \in Nat
      /\ filled[x] + Cardinality(Running(x)) + Cardinality(Queued(x)) + Promised(x) <= Room
  BY <1>a, FS_CardinalityType DEF SetsCounted
<1>1. CASE CreatePlaceholder(e) \/ DispatchLost(e) \/ ParentDeleted(e)
  <2>1. filled'[x] <= filled[x] /\ Queued(x)' = Queued(x)
    BY <1>a, <1>1 DEF CreatePlaceholder, DispatchLost, ParentDeleted, TypeOK, Queued
  <2> QED  BY <1>a, <1>b, <1>c, <2>1, NoMore
<1>2. CASE GenerateExam(e)
  <2>1. Queued(x)' = Queued(x)
    BY <1>2 DEF GenerateExam, Queued
  <2>2. CASE x = e
    <3>1. filled[x] = 0 /\ filled'[x] = 1
      BY <1>2, <2>2 DEF GenerateExam, NewIsNobodys, QuestionsFitStatus, TypeOK
    <3>2. Promised(x) = MaxRetries + 1 /\ Promised(x)' = 0
      BY <1>2, <2>2 DEF GenerateExam, Promised, TypeOK
    <3> QED  BY <1>b, <1>d, <1>e, <2>1, <3>1, <3>2, BoundsAssumption DEF SetsCounted
  <2>3. CASE x # e
    BY <1>a, <1>b, <1>c, <1>2, <2>1, <2>3, NoMore DEF GenerateExam
  <2> QED  BY <2>2, <2>3
<1>3. CASE Dispatch(e)
  <2>1. 0 \in Tries /\ Publish(e, 0) /\ filled' = filled
    BY <1>3, BoundsAssumption DEF Dispatch, Tries
  <2>2. /\ IsFiniteSet(Queued(e)')
        /\ Cardinality(Queued(e)') <= Cardinality(Queued(e)) + (MaxRetries - 0 + 1)
        /\ \A y \in Exams \ {e} : Queued(y)' = Queued(y)
    BY <2>1, QueueGains DEF Counted, SetsCounted
  <2>3. CASE x = e
    <3>1. Promised(x) = MaxRetries + 1 /\ Promised(x)' = 0
      BY <1>3, <2>3 DEF Dispatch, Promised, TypeOK
    <3>2. Cardinality(Queued(x)') \in Nat
      BY <2>2, <2>3, FS_CardinalityType
    <3> QED  BY <1>a, <1>b, <1>d, <1>e, <2>1, <2>2, <2>3, <3>1, <3>2, BoundsAssumption DEF SetsCounted
  <2>4. CASE x # e
    BY <1>a, <1>b, <1>c, <2>1, <2>2, <2>4, NoMore
  <2> QED  BY <2>3, <2>4
<1> QED  BY <1>1, <1>2, <1>3 DEF CreateStep

\* A copy of a message becomes a delivery with the same tries ahead.
LEMMA DeliverCounted ==
  ASSUME TypeOK, TypeOK', Counted, NEW w \in Workers, NEW m \in Messages, Deliver(w, m)
  PROVE  Counted'
<1> SUFFICES ASSUME NEW x \in Exams PROVE SetsCounted(x)'
  BY DEF Counted
<1> DEFINE n == m[2]
           i == ready[m]
           G == RunBlock(w, n)
           L == QueueBlock(n, i)
           R == Running(x)
           P == Running(x)'
           Q == Queued(x)
           U == Queued(x)'
<1>a. /\ SetsCounted(x) /\ filled[x] \in Nat /\ faults' = faults /\ UNCHANGED <<filled, create>>
      /\ m = <<m[1], n>> /\ m[1] \in Exams /\ n \in Tries
      /\ i \in Nat /\ i > 0 /\ job[w].pc = "idle"
      /\ \A k \in Messages : ready'[k] = IF k = m THEN ready[k] - 1 ELSE ready[k]
  BY DEF Counted, TypeOK, Deliver, Messages, Tries
<1>b. /\ job'[w] = [pc |-> "load", exam |-> m[1], tries |-> n, seen |-> "PENDING"]
      /\ \A v \in Workers \ {w} : job'[v] = job[v]
  BY DEF Deliver, TypeOK
<1>c. Promised(x)' = Promised(x) /\ Promised(x) \in Nat /\ Room' = Room /\ Room \in Nat
  BY <1>a, RoomGrows, BoundsAssumption DEF Promised
<1>d. Left(job'[w]) = {k \in Tries : k >= n}
  BY <1>b, LeftOfPC
<1>1. CASE x # m[1]
  <2>1. P \subseteq R
    BY <1>1, <1>b DEF Running
  <2>2. U \subseteq Q
    BY <1>1, <1>a DEF Queued, Messages, Tries
  <2> QED  BY <1>a, <1>c, <2>1, <2>2, NoMore
<1>2. CASE x = m[1]
  <2>1. P \subseteq R \cup G
    BY <1>b, <1>d DEF Running, RunBlock, Tries
  <2>2. L \subseteq Q
    BY <1>2, <1>a, BoundsAssumption DEF Queued, QueueBlock, Tries
  <2>3. U \subseteq Q \ L
    BY <1>2, <1>a DEF Queued, QueueBlock, Messages, Tries
  <2>4. /\ IsFiniteSet(G) /\ Cardinality(G) = MaxRetries - n + 1
        /\ IsFiniteSet(L) /\ Cardinality(L) = MaxRetries - n + 1
    <3>1. n \in 0 .. MaxRetries + 1
      BY <1>a, BoundsAssumption DEF Tries
    <3> QED  BY <3>1, BlockSizes
  <2>5. IsFiniteSet(R) /\ IsFiniteSet(Q)
    BY <1>a DEF SetsCounted
  <2>6. /\ IsFiniteSet(P) /\ Cardinality(P) <= Cardinality(R) + (MaxRetries - n + 1)
        /\ IsFiniteSet(U) /\ Cardinality(U) + (MaxRetries - n + 1) <= Cardinality(Q)
        /\ Cardinality(P) \in Nat /\ Cardinality(R) \in Nat
        /\ Cardinality(U) \in Nat /\ Cardinality(Q) \in Nat
    <3> DEFINE N == {}
    <3>1. /\ IsFiniteSet(N) /\ Cardinality(N) = 0 /\ N \subseteq R
          /\ P \subseteq (R \ N) \cup G /\ U \subseteq (Q \ L) \cup N
      BY <2>1, <2>3, FS_EmptySet
    <3> HIDE DEF N, P, R, U, Q, L, G
    <3>2. IsFiniteSet(P) /\ Cardinality(P) + Cardinality(N) <= Cardinality(R) + Cardinality(G)
      BY <2>4, <2>5, <3>1, Exchange
    <3>3. IsFiniteSet(U) /\ Cardinality(U) + Cardinality(L) <= Cardinality(Q) + Cardinality(N)
      BY <2>2, <2>5, <3>1, Exchange
    <3>4. /\ Cardinality(P) \in Nat /\ Cardinality(R) \in Nat
          /\ Cardinality(U) \in Nat /\ Cardinality(Q) \in Nat
      BY <2>5, <3>2, <3>3, FS_CardinalityType
    <3> QED  BY <2>4, <3>1, <3>2, <3>3, <3>4
  <2>7. filled[x] + Cardinality(R) + Cardinality(Q) + Promised(x) <= Room
    BY <1>a DEF SetsCounted
  <2>8. MaxRetries - n + 1 \in Nat
    BY <1>a, BoundsAssumption DEF Tries
  <2> HIDE DEF n, P, R, U, Q
  <2>9. filled'[x] + Cardinality(P) + Cardinality(U) + Promised(x)' <= Room'
    BY <1>a, <1>c, <2>6, <2>7, <2>8
  <2> QED  BY <2>6, <2>9 DEF SetsCounted, P, U
<1> QED  BY <1>1, <1>2

LEMMA NextCounted == CountInv /\ [Next]_vars => CountInv'
<1> SUFFICES ASSUME CountInv, [Next]_vars PROVE Counted'
  BY NextContent DEF CountInv
<1>a. TypeOK /\ TypeOK' /\ QuestionsFitStatus /\ NewIsNobodys /\ Counted
  BY NextContent DEF CountInv, ContentInv
<1>1. CASE UNCHANGED vars
  BY <1>a, <1>1 DEF vars, Counted, SetsCounted, Running, Queued, Promised, Room
<1> QED  BY <1>a, <1>1, CreateCounted, DeliverCounted, WorkerCounted DEF Next

\* No interleaving of retries, timeouts, commits and redeliveries adds more question
\* sets than the retries of one message, and of one more for each process lost
\* (generate_exam_task, max_retries, task_acks_late).
THEOREM SetsAreBounded == Spec => []QuestionSetsBounded
<1>1. CountInv => QuestionSetsBounded
  <2> SUFFICES ASSUME CountInv, NEW e \in Exams
               PROVE  filled[e] <= (MaxRetries + 1) * (faults + 1)
    BY DEF QuestionSetsBounded
  <2>1. SetsCounted(e) /\ filled[e] \in Nat /\ Room \in Nat /\ Promised(e) \in Nat
    <3>2. MaxRetries + 1 \in Nat /\ faults + 1 \in Nat
      BY BoundsAssumption DEF CountInv, ContentInv, TypeOK
    <3>3. Room \in Nat
      BY <3>2, Product DEF Room
    <3> QED  BY <3>3, BoundsAssumption DEF CountInv, ContentInv, Counted, TypeOK, Promised
  <2>2. Cardinality(Running(e)) \in Nat /\ Cardinality(Queued(e)) \in Nat
    BY <2>1, FS_CardinalityType DEF SetsCounted
  <2>3. filled[e] <= Room
    BY <2>1, <2>2 DEF SetsCounted
  <2> QED  BY <2>3 DEF Room
<1>2. Init => CountInv
  BY InitContent, InitCounted DEF CountInv
<1> QED  BY <1>1, <1>2, NextCounted, PTL DEF Spec

=============================================================================
