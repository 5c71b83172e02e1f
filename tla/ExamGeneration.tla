---------------------------- MODULE ExamGeneration ----------------------------
(***************************************************************************)
(* Room-wide exams: generate_room_exam creates the row at PENDING and      *)
(* dispatches generate_exam_task, which asks the model for questions and   *)
(* commits them with READY, or rolls back and commits FAILED.              *)
(*                                                                         *)
(* The task is delivered at least once (task_acks_late) and does not ask   *)
(* whether the exam is still PENDING, so what one delivery committed the   *)
(* next one may add to or overwrite.  `seen` is the status a session       *)
(* loaded, as in Ingestion; an operator introduced by "Slip:" is no part   *)
(* of the specification but a mistaken form of the definition after it.    *)
(***************************************************************************)
EXTENDS Naturals

CONSTANTS
  Exams,       \* exam ids
  Workers,     \* Celery pool processes
  NoExam,      \* what an idle process works on
  MaxRetries,  \* max_retries of generate_exam_task
  MaxFaults    \* bound on processes and connections lost in the middle of a task

ASSUME ExamsAssumption  == NoExam \notin Exams
ASSUME BoundsAssumption == MaxRetries \in Nat /\ MaxFaults \in Nat

VARIABLES
  exam,    \* exams.status, or "NONE" where there is no committed row
  filled,  \* how many question sets the exam's exam_questions add up to
  create,  \* the request that creates each exam
  ready,   \* the queue: copies of each message
  job,     \* what each process is doing
  faults,  \* processes and connections lost so far
  lost     \* history: exams whose last task went away without a verdict

vars == <<exam, filled, create, ready, job, faults, lost>>

Status   == {"PENDING", "READY", "FAILED"}
Messages == Exams \X (0 .. MaxRetries)

JobPC == {"idle", "load",         \* before the first db.get
          "generate",             \* material and the model's answer
          "commit",               \* questions and READY, about to commit
          "refetch", "flip",      \* after the rollback: get, then FAILED
          "raised", "returned"}   \* back in generate_exam_task

Job == [pc : JobPC, exam : Exams \cup {NoExam}, tries : 0 .. MaxRetries, seen : Status]

Idle == [pc |-> "idle", exam |-> NoExam, tries |-> 0, seen |-> "PENDING"]

Init ==
  /\ exam   = [e \in Exams |-> "NONE"]
  /\ filled = [e \in Exams |-> 0]
  /\ create = [e \in Exams |-> "new"]
  /\ ready  = [m \in Messages |-> 0]
  /\ job    = [w \in Workers |-> Idle]
  /\ faults = 0
  /\ lost   = {}

-----------------------------------------------------------------------------
\* The API.

CreatePlaceholder(e) ==
  /\ create[e] = "new"
  /\ create' = [create EXCEPT ![e] = "committed"]
  /\ exam' = [exam EXCEPT ![e] = "PENDING"]
  /\ UNCHANGED <<filled, ready, job, faults, lost>>

\* The per-document flow has no task: questions and READY in one request,
\* which fails without a trace if the model gives nothing to grade.
GenerateExam(e) ==
  /\ create[e] = "new"
  /\ create' = [create EXCEPT ![e] = "done"]
  /\ exam'   = [exam EXCEPT ![e] = "READY"]
  /\ filled' = [filled EXCEPT ![e] = 1]
  /\ UNCHANGED <<ready, job, faults, lost>>

Publish(e, n) == ready' = [ready EXCEPT ![<<e, n>>] = @ + 1]

Dispatch(e) ==
  /\ create[e] = "committed"
  /\ create' = [create EXCEPT ![e] = "done"]
  /\ Publish(e, 0)
  /\ UNCHANGED <<exam, filled, job, faults, lost>>

\* The API process dies after the commit, or the broker refuses the message.
DispatchLost(e) ==
  /\ create[e] = "committed"
  /\ create' = [create EXCEPT ![e] = "done"]
  /\ lost' = lost \cup {e}
  /\ UNCHANGED <<exam, filled, ready, job, faults>>

\* The exam goes with its room, or its document (ON DELETE CASCADE).
ParentDeleted(e) ==
  /\ exam[e] # "NONE"
  /\ exam'   = [exam EXCEPT ![e] = "NONE"]
  /\ filled' = [filled EXCEPT ![e] = 0]
  /\ UNCHANGED <<create, ready, job, faults, lost>>

-----------------------------------------------------------------------------
\* A worker process.

Goto(w, pc) == job' = [job EXCEPT ![w].pc = pc]

\* Slip: a message is handed over without being taken from the queue.
DeliverBlindly(w, m) ==
  /\ job[w].pc = "idle"
  /\ ready' = [ready EXCEPT ![m] = @ - 1]
  /\ job' = [job EXCEPT ![w] =
       [pc |-> "load", exam |-> m[1], tries |-> m[2], seen |-> "PENDING"]]
  /\ UNCHANGED <<exam, filled, create, faults, lost>>

Deliver(w, m) ==
  /\ job[w].pc = "idle"
  /\ ready[m] > 0
  /\ ready' = [ready EXCEPT ![m] = @ - 1]
  /\ job' = [job EXCEPT ![w] =
       [pc |-> "load", exam |-> m[1], tries |-> m[2], seen |-> "PENDING"]]
  /\ UNCHANGED <<exam, filled, create, faults, lost>>

\* Before the try: an error here reaches the task function.
Load(w) ==
  LET e == job[w].exam IN
  /\ job[w].pc = "load"
  /\ \/ exam[e] # "NONE" /\ job' = [job EXCEPT ![w].pc = "generate", ![w].seen = exam[e]]
     \/ exam[e] = "NONE" /\ Goto(w, "returned")
     \/ Goto(w, "raised")
  /\ UNCHANGED <<exam, filled, create, ready, faults, lost>>

\* The model answered with at least one question that can be graded.
Generate(w) ==
  /\ job[w].pc = "generate"
  /\ Goto(w, "commit")
  /\ UNCHANGED <<exam, filled, create, ready, faults, lost>>

\* Slip: the questions are committed, the status is left for later.
FillSilently(w) ==
  /\ filled' = [filled EXCEPT ![job[w].exam] = @ + 1]
  /\ UNCHANGED exam

\* Questions and READY in one transaction.  The questions reference the exam.
CanFill(w) == exam[job[w].exam] # "NONE"
Fill(w) ==
  /\ exam' = IF job[w].seen = "READY" THEN exam
             ELSE [exam EXCEPT ![job[w].exam] = "READY"]
  /\ filled' = [filled EXCEPT ![job[w].exam] = @ + 1]

\* Slip: something after the commit, still inside the try, raises.
CommitThenFails(w) ==
  /\ job[w].pc = "commit"
  /\ CanFill(w)
  /\ Fill(w)
  /\ Goto(w, "refetch")
  /\ UNCHANGED <<create, ready, faults, lost>>

Commit(w) ==
  /\ job[w].pc = "commit"
  /\ CanFill(w)
  /\ Fill(w)
  /\ Goto(w, "returned")
  /\ UNCHANGED <<create, ready, faults, lost>>

\* No material, a bad answer, no valid question, a commit that fails.
Fails(w) ==
  /\ job[w].pc \in {"generate", "commit"}
  /\ Goto(w, "refetch")
  /\ UNCHANGED <<exam, filled, create, ready, faults, lost>>

\* Slip: the failure is logged, the status left as it was.
RefetchSkipped(w) ==
  /\ job[w].pc = "refetch"
  /\ Goto(w, "returned")
  /\ UNCHANGED <<exam, filled, create, ready, faults, lost>>

Refetch(w) ==
  LET e == job[w].exam IN
  /\ job[w].pc = "refetch"
  /\ \/ exam[e] # "NONE" /\ job' = [job EXCEPT ![w].pc = "flip", ![w].seen = exam[e]]
     \/ exam[e] = "NONE" /\ Goto(w, "returned")
  /\ UNCHANGED <<exam, filled, create, ready, faults, lost>>

CanFlip(w) == job[w].seen = "FAILED" \/ exam[job[w].exam] # "NONE"
Flip(w) == exam' = IF job[w].seen = "FAILED" THEN exam
                   ELSE [exam EXCEPT ![job[w].exam] = "FAILED"]

RecordFailed(w) ==
  /\ job[w].pc = "flip"
  /\ CanFlip(w)
  /\ Flip(w)
  /\ Goto(w, "returned")
  /\ UNCHANGED <<filled, create, ready, faults, lost>>

\* The rollback, the second get or its commit raises inside the except clause.
RecoveryRaises(w) ==
  /\ job[w].pc \in {"refetch", "flip"}
  /\ Goto(w, "raised")
  /\ UNCHANGED <<exam, filled, create, ready, faults, lost>>

\* Slip: the exception ends the task instead of reaching self.retry.
RetryNever(w) ==
  /\ job[w].pc = "raised"
  /\ job[w].tries < MaxRetries
  /\ Goto(w, "returned")
  /\ UNCHANGED <<exam, filled, create, ready, faults, lost>>

\* Slip: the task is sent anew, which starts the count of its retries again.
RetryUncounted(w) ==
  /\ job[w].pc = "raised"
  /\ job[w].tries < MaxRetries
  /\ Publish(job[w].exam, 0)
  /\ Goto(w, "returned")
  /\ UNCHANGED <<exam, filled, create, faults, lost>>

Retry(w) ==
  /\ job[w].pc = "raised"
  /\ job[w].tries < MaxRetries
  /\ Publish(job[w].exam, job[w].tries + 1)
  /\ Goto(w, "returned")
  /\ UNCHANGED <<exam, filled, create, faults, lost>>

GiveUp(w) ==
  /\ job[w].pc = "raised"
  /\ job[w].tries = MaxRetries
  /\ lost' = lost \cup {job[w].exam}
  /\ Goto(w, "returned")
  /\ UNCHANGED <<exam, filled, create, ready, faults>>

Ack(w) ==
  /\ job[w].pc = "returned"
  /\ job' = [job EXCEPT ![w] = Idle]
  /\ UNCHANGED <<exam, filled, create, ready, faults, lost>>

\* What a cut leaves behind: a commit under way may have gone through.
CutShort(w) ==
  /\ UNCHANGED create
  /\ \/ UNCHANGED <<exam, filled>>
     \/ job[w].pc = "commit" /\ CanFill(w) /\ Fill(w)
     \/ job[w].pc = "flip" /\ CanFlip(w) /\ Flip(w) /\ UNCHANGED filled

\* TASK_TIMEOUT_SECONDS.  CancelledError passes the except clause by.
Timeout(w) ==
  /\ job[w].pc \in {"load", "generate", "commit", "refetch", "flip"}
  /\ CutShort(w)
  /\ Goto(w, "raised")
  /\ UNCHANGED <<ready, faults, lost>>

\* The worker dies before it acks: the message comes back.
WorkerDies(w) ==
  /\ job[w].pc # "idle"
  /\ faults < MaxFaults
  /\ CutShort(w)
  /\ Publish(job[w].exam, job[w].tries)
  /\ job'    = [job EXCEPT ![w] = Idle]
  /\ faults' = faults + 1
  /\ UNCHANGED lost

\* The worker loses the broker: the message comes back while the task goes on.
BrokerLost(w) ==
  /\ job[w].pc # "idle"
  /\ faults < MaxFaults
  /\ Publish(job[w].exam, job[w].tries)
  /\ faults' = faults + 1
  /\ UNCHANGED <<exam, filled, create, job, lost>>

\* Only the pool process dies: Celery acks the message.  At "raised" it stands as
\* well for a retry that cannot be published, whose message is rejected for good.
PoolProcessDies(w) ==
  /\ job[w].pc # "idle"
  /\ faults < MaxFaults
  /\ CutShort(w)
  /\ lost'   = lost \cup {job[w].exam}
  /\ job'    = [job EXCEPT ![w] = Idle]
  /\ faults' = faults + 1
  /\ UNCHANGED ready

\* The connection goes with the answer to a COMMIT: the session raises, the
\* transaction may have gone through all the same.
ConnectionLost(w) ==
  /\ job[w].pc \in {"commit", "flip"}
  /\ faults < MaxFaults
  /\ CutShort(w)
  /\ Goto(w, IF job[w].pc = "commit" THEN "refetch" ELSE "raised")
  /\ faults' = faults + 1
  /\ UNCHANGED <<ready, lost>>

-----------------------------------------------------------------------------
CreateStep(e) == CreatePlaceholder(e) \/ Dispatch(e) \/ DispatchLost(e)

WorkerStep(w) ==
  \/ Load(w) \/ Generate(w) \/ Commit(w) \/ Fails(w) \/ Refetch(w)
  \/ RecordFailed(w) \/ RecoveryRaises(w) \/ Retry(w) \/ GiveUp(w) \/ Ack(w)
  \/ Timeout(w)

Fault(w) == WorkerDies(w) \/ BrokerLost(w) \/ PoolProcessDies(w) \/ ConnectionLost(w)

Next ==
  \/ \E e \in Exams : CreateStep(e) \/ GenerateExam(e) \/ ParentDeleted(e)
  \/ \E w \in Workers, m \in Messages : Deliver(w, m)
  \/ \E w \in Workers : WorkerStep(w) \/ Fault(w)

Spec == Init /\ [][Next]_vars

\* A request is carried on once the placeholder is committed, a free process takes a
\* waiting message, a task goes on or is cut off by its timeout.
Fairness ==
  /\ \A e \in Exams : WF_vars(Dispatch(e) \/ DispatchLost(e))
  /\ WF_vars(\E w \in Workers, m \in Messages : Deliver(w, m))
  /\ \A w \in Workers : WF_vars(WorkerStep(w))

FairSpec == Spec /\ Fairness

-----------------------------------------------------------------------------
TypeOK ==
  /\ exam   \in [Exams -> Status \cup {"NONE"}]
  /\ filled \in [Exams -> Nat]
  /\ create \in [Exams -> {"new", "committed", "done"}]
  /\ ready  \in [Messages -> Nat]
  /\ job    \in [Workers -> Job]
  /\ faults \in 0 .. MaxFaults
  /\ lost   \subseteq Exams
  /\ \A w \in Workers : job[w].pc # "idle" => job[w].exam \in Exams

Quiet(e) ==
  /\ \A m \in Messages : m[1] = e => ready[m] = 0
  /\ \A w \in Workers  : job[w].exam # e
  /\ create[e] # "committed"

\* An exam is left at PENDING for good, with the frontend polling it, only if
\* its task was never sent, died with its process, or raised on its last try
\* (a timeout, or an error inside the except clause).
PendingOnlyWhenLost ==
  \A e \in Exams : Quiet(e) /\ exam[e] = "PENDING" => e \in lost

\* What makes PendingOnlyWhenLost inductive: a PENDING exam has a request that is
\* about to dispatch its task, a message, or a delivery that will still give a
\* verdict or raise (generate_room_exam_questions, generate_exam_task).
PendingIsAttended ==
  \A e \in Exams : exam[e] = "PENDING" =>
     \/ e \in lost
     \/ create[e] = "committed"
     \/ \E m \in Messages : m[1] = e /\ ready[m] > 0
     \/ \E w \in Workers  : job[w].exam = e /\ job[w].pc \notin {"idle", "returned"}

\* READY means there is something to answer: the questions are committed with
\* the status, and nothing takes them away while the exam exists.  PENDING exams
\* have none yet: a student who opens one early never sees a part of one.
QuestionsFitStatus ==
  \A e \in Exams :
    /\ exam[e] = "READY" => filled[e] > 0
    /\ exam[e] \in {"PENDING", "NONE"} => filled[e] = 0

\* A verdict is taken back, READY for FAILED or the other way round, only by a run
\* of the task that is not its first, a retry or a delivery after a death, or
\* because the answer to a COMMIT was lost and read as a failure.  Neither generate_exam_task
\* nor generate_room_exam_questions looks at the status.
RunsAgain(e) == faults > 0 \/ \E w \in Workers : job[w].exam = e /\ job[w].tries > 0

VerdictIsFinal ==
  [][\A e \in Exams :
       exam[e] \in {"READY", "FAILED"} /\ exam'[e] \notin {exam[e], "NONE"} => RunsAgain(e)]_vars

\* A polled exam gets its verdict, disappears, or is one of the lost cases.
EventuallyDecided ==
  \A e \in Exams : exam[e] = "PENDING" ~> exam[e] # "PENDING" \/ e \in lost

\* The task may fill an exam again and again (see FilledOnce), but only as often as
\* its retries allow, and so often again for each process that died with its
\* message: no interleaving of timeouts, commits and retries adds more sets.
QuestionSetsBounded == \A e \in Exams : filled[e] <= (MaxRetries + 1) * (faults + 1)

\* The docstring of generate_room_exam_questions: it fills in questions for a
\* PENDING exam.  An exam that has its questions gets no second set.
FilledOnce == \A e \in Exams : filled[e] <= 1
=============================================================================
