# Verification of the XookHub backend

XookHub is a study-room service: members of a room upload documents, a worker
extracts and indexes them, and the language model answers questions, writes
flashcards and sets exams from them. This directory holds TLA+ models of the
parts where the order of events decides what is stored, the TLC configurations
that check them on small instances, and TLAPS proofs for any number of
documents, rooms, people, requests, processes and faults.

    tlc -config ingestion_core.cfg MCIngestion      # a run
    tlapm IngestionProofs.tla                       # the proofs

## The system

Source paths are relative to the repository.

| Part | Code | State it keeps | Operations |
|---|---|---|---|
| documents API | `src/documents/{router,service,models}.py` | `documents`, `document_chunks` rows; objects in MinIO | upload, re-chunk, delete, list, status |
| ingestion task | `src/worker/tasks.py` | none of its own between tasks | `process_document_task` → `_process_document`, `_set_status` |
| broker and Celery | `src/worker/celery_app.py` | messages: waiting, handed out, acked | publish, deliver, ack, redeliver, retry |
| worker event loop | `src/worker/tasks.py:78-174` | one asyncio loop and thread per process | get, submit, time out, shut down |
| exam generation | `src/generation/service.py:295-451` | `exams`, `exam_questions` rows | per-document exam (in the request), room-wide exam (placeholder, task) |
| exam attempts | `src/generation/service.py:480-607` | `exam_attempts`, `attempt_answers` rows | start, answer, submit, list |
| flashcards, SM-2 | `src/generation/service.py:150-293`, `sm2.py` | `flashcards`, `flashcard_reviews` rows | generate, review, list due |
| summaries | `src/generation/service.py` | `summaries` rows | generate, read |
| rooms | `src/rooms/*.py` | `study_rooms`, `room_members`, `group_messages` rows | create, update, delete, invite, change role, invite code, join, post |
| conversations, RAG | `src/rag/{service,router}.py` | `conversations`, `messages` rows | create, rename, delete, streamed turn, stateless answer |
| users, authentication | `src/users/*.py`, `src/core/security.py` | `users`, `api_keys` rows | lazy insert, sign-up webhook, profile, API keys |
| chunker, parsers | `src/documents/parser.py` | none | parse, `chunk_text` |

How they interact:

* **Shared rows.** Every request and every task is a database session at READ
  COMMITTED, autoflush off. It loads rows, decides, and flushes. The ORM
  compares each attribute with the value *loaded* and sends only what differs;
  nothing is locked between the load and the flush, and there is no version
  column. An UPDATE of a row that is gone raises `StaleDataError`; an INSERT whose
  parent is gone, or that repeats a unique key, raises `IntegrityError`.
* **Commit, then side effect.** Upload, re-chunk, room exam and group message
  commit first and then publish a task or a broadcast; nothing makes the two
  atomic. Upload and delete touch MinIO *before* their commit.
* **At-least-once tasks.** `task_acks_late` redelivers the message of a worker
  that dies; the message of a single pool process that dies is acked, since
  `task_reject_on_worker_lost` is not set. `self.retry` publishes a new message.
  Neither task looks at the status of its row before it starts.
* **A timeout that cancels.** After 600 s the task thread gives up and cancels the
  coroutine. `CancelledError` is not an `Exception`: recovery code is skipped,
  while a COMMIT already sent may still go through.

What is hard about it is listed line by line under `hazards` in PROJECT.json:
overlapping tasks of one document, retries and redeliveries of work already
done, timeouts racing commits, check-then-act without locks in every request,
and UPDATEs that are not sent because a stale value says they are not needed.

What makes each part correct:

* documents: a document that is polled gets a verdict, which changes only when the task
  runs again; INDEXED comes with its chunks; re-chunking never loses content; a deleted
  document stays deleted; a listed document has its file.
* exam generation: a polled exam gets a verdict; READY has questions, PENDING has
  none; one question set per exam.
* attempts: no grade is visible before the submit; the score is what one grading of the
  stored choices over the exam's questions gives; after the submit nothing changes.
* flashcards: reviews act one at a time; ease and interval stay in their ranges, and
  every success but the first lengthens the interval.
* rooms: a change is made with the authority it needs, as it was asked; the code an
  OWNER was told works; neither a role nor an edit is undone by the way; what is
  broadcast is stored; nothing outlives its room.
* conversations: a turn is stored whole or not at all, and is stored when the
  client is told it is done.
* users: any order of webhook and first requests ends with one row; who is let in
  has one; nobody's name or address is undone; a repeated webhook succeeds.

## The modules

| Module | Models |
|---|---|
| `Ingestion` | documents API, queue, worker processes running `process_document_task` |
| `IngestionProofs` | its theorems |
| `ExamGeneration` | `generate_room_exam`, queue, worker processes running `generate_exam_task`; `generate_exam` |
| `ExamGenerationProofs` | its theorems |
| `AtomicAttempt` | abstract specification: an answer or a submit is one step, and nothing changes after the submit |
| `Attempts` | the concurrent `submit_answer` and `submit_attempt` requests of one attempt; implements `AtomicAttempt` until one is overtaken |
| `AttemptsProofs` | its theorems, the implementation among them |
| `ConversationLog` | abstract specification: a turn enters the history in one step, at most once, and its client is told so only then |
| `Conversations` | the streamed turns of one conversation against its deletion; implements `ConversationLog` |
| `ConversationsProofs` | its theorems, the implementation among them |
| `SM2` | the arithmetic of `compute_sm2` and the row it is kept in: operators only |
| `SpacedRepetition` | abstract specification: reviews of a card as single steps |
| `Flashcards` | `review_flashcard` by overlapping requests; implements `SpacedRepetition` until two overlap |
| `FlashcardsProofs` | the lemmas about SM-2 and the theorems, the implementation among them |
| `RoomRoles` | rooms, users, codes, the columns a PATCH may set and the order of the roles, shared by the next two |
| `RoomAccess` | abstract specification: each request is one step that does what was asked, while its caller is entitled to it |
| `Rooms` | the overlapping requests of `src/rooms`; implements `RoomAccess` until a caller is overtaken or a PATCH stored in part |
| `RoomsProofs` | its theorems, the implementation among them |
| `UserAccounts` | the lazy insert, the sign-up webhook, profiles and API keys |
| `UserAccountsProofs` | its theorems |
| `MC*` | symmetry sets and constant values for TLC |

An operator whose comment starts with **"Slip:"** is no part of a specification.
It is the definition after it with a mistake that a change of the code could
plausibly make (no DELETE of the old chunks, a swallowed exception, a dropped
check); PROJECT.json pairs each with a property that it breaks, which shows that
the property constrains the code.

### Ingestion

`row`, `chunks`, `object` are the committed `documents.status`, the chunk *sets*
(each commit of a task writes one set, numbered by `version`), and whether the
file is in MinIO. `ready` counts the copies of each message `<<document, retries>>`
in the queue; delivery order is left open, since retries are delayed and several
processes consume. `job[w]` is what a worker process is doing, `req[q]` what an API
request is doing; both carry `seen`, the status their session has loaded. Two history
variables: `lost`, documents whose last task went away without a verdict, and
`overlapped`, documents of which a task has issued its DELETE while another was between
its own DELETE and its COMMIT (`Replacing`).

| Actions | Code |
|---|---|
| `UploadStore`, `UploadCommit`, `Dispatch`, `DispatchLost` | `DocumentService.upload`, `upload_document`: flush, put the object, commit, `delay` |
| `RechunkLoad`, `RechunkCommit` | `request_rechunk`: load, assign PENDING (sent only if it differs), commit, `delay` |
| `DeleteObject`, `DeleteCommit` | `DocumentService.delete`: remove the object (an `S3Error` is swallowed), delete with cascade |
| `RequestFails` | `get_db`: any exception rolls back |
| `Deliver`, `Ack` | the broker and the pool; prefetch is 1 |
| `SetStatusGet`, `SetStatusCommit`, `SetStatusRaises` | `_set_status`, in a session of its own |
| `Load`, `Fetch`, `DropOldChunks`, `LockOldChunks`, `Commit` | the session of `_process_document`: get, download and parse, DELETE (its snapshot, then its row locks), embed, INSERT and INDEXED in one commit |
| `Fails`, `Retry`, `GiveUp` | roll back and record FAILED, re-raise; `self.retry` up to `max_retries` |
| `Timeout` | `_run_coroutine`: `TimeoutError`, the coroutine is cancelled |
| `WorkerDies`, `PoolProcessDies`, `BrokerLost` | redelivery, acked loss, and redelivery while the task goes on, as configured in `celery_app.py` |
| `ConnectionLost` | a COMMIT whose answer is lost: the `except` clauses take it for a failure and may write FAILED over the INDEXED that it stored |

`CutShort` is what a timeout, a death or a lost connection leaves in the database:
nothing, or the COMMIT that was on its way. Such a COMMIT takes effect at the moment
of the cut or never; one that Postgres executes only later is not modelled. A retry that
cannot be published ends the task and loses it: that is `PoolProcessDies` of a task that
has raised.

### ExamGeneration

`exam` is the committed status, `filled` how many question sets the exam has.
`CreatePlaceholder`, `Dispatch`, `DispatchLost` are `generate_room_exam`; `GenerateExam`
is the per-document flow; `ParentDeleted` the cascade from its room or document. `Load`
… `RecordFailed` are `generate_room_exam_questions` with its two gets and two commits,
`RecoveryRaises` an error inside its except clause; the rest, `ConnectionLost` included,
is as in Ingestion. What the model answers is abstracted to usable (at least one
question that can be graded) or not.

### Attempts

Attempts share nothing but the exam's questions, so one attempt is modelled.
`answers[q]` is the row of `attempt_answers` or `NoRow`. An answer request checks
(`AnswerCheck`), loads its row (`AnswerLoad`) and flushes and commits (`AnswerCommit`);
a submit checks the status (`SubmitCheck`), lists the questions (`SubmitList`), loads
the answers (`SubmitLoad`), grades and commits (`SubmitCommit`). `Refuse` is every
refusal and rollback. `QuestionsArrive` is a commit of the generation task. The first
may come after the attempt has started, since `start_attempt` does not look at the
exam's status; and since a task that is delivered again adds a further set
(`FilledOnce`), others may come at any time, between a submit's list and its commit too.
The score is kept as correct out of total, without the division. `submitted_at` is left
out.

`graded` and `overtaken` are history variables: the questions that the last submit has
graded, and whether an answer that passed the status check (`seen`) was stored after the
submit, or a submit graded choices or questions that are out of date (`Stale`). The
refinement mapping `Sheet` is the attempt as stored until then; `Overtake` of
`AtomicAttempt` may void it at any time. So a second submit that overlaps the first does no
harm by itself: what it writes is what is there. A question set that arrives after the
submit leaves the score as it is, in both specifications.

### Conversations

`messages` is the committed history of one conversation, `turn[t]` where a streamed
request is and when its transaction began, `client[t]` the last event its client has
heard. `Begin` is the first SELECT, `Ask` the flush of the question, `Retrieve` the
embedding and the vector search, `Token` a delta, `EndStream` the end of the model's
answer, `Commit` the INSERT of the answer with the commit. `Pair` is what that
transaction makes visible: both messages, stamped with `now()`, which Postgres keeps
fixed for a transaction. `Fails`, `SendDone`, `SendError` are `event_generator`;
`Disconnect` closes the generator, which no `except` clause sees. `Delete` is
`delete_conversation` or a cascade from the room; it waits for the turns that
hold the conversation's row by their foreign key (`Holds`). A COMMIT may take effect
though the session, or the client, is gone. `ConversationLog` is implemented by the
committed history as it is, with the clients that have heard "done".

### Flashcards

Users and cards share nothing, so the reviews of one card by one user are modelled.
`row` is the committed `flashcard_reviews` row; its two timestamps are kept as `delay`,
the days from the last review to the next. `Load` reads it, `Review` computes and
flushes: `Insert` for a first review, `Update` for a later one, whose `Sent` leaves out
the columns that equal the value read. `Fails` is every error, of which the unique
constraint, the foreign key, a row that is gone and a date past the year 9999
(`IsADate`) are forced by the guards of `Review`. Ease factors are hundredths; the
product of interval and ease is rounded to a nearest day, at a tie to either side,
since the code's floats may fall on either.

`mixed` is a history variable: a review has written over a row it had not read. The
abstract specification allows the step `Overlap` at any time, after which it promises
nothing; the refinement mapping is the row until `mixed`.

### Rooms

`life`, `profile`, `code`, `role` and `posts` are the committed rooms with their
members and messages; `profile` holds the columns that a PATCH may set, in `Sent` those it
sets to something else than was read, each sent by itself. A request is
one transaction: `Begin` is `require_role`, or the room found by its code (`BeginJoin`);
`LoadRoom`, `LoadMember`, `LoadNoMember` read the row to be changed, or find none; then
flush and commit are one action, since each transaction flushes once, right before
its commit, and so never holds one lock while it waits for another.

| Actions | Code |
|---|---|
| `Create` | `create_room`: the room and its first OWNER in one transaction |
| `Update`, `Delete` | `update_room` (the columns in `Sent`, if any), `delete_room` with the ORM's cascade and the foreign keys behind it |
| `Invite`, `Join`, `ChangeRole` | `invite_user`, `join_by_code`, `change_member_role`; the loser of a race meets a constraint |
| `SetCode`, `Collide` | `generate_invite_code`: a free code, or a collision, a rollback and another attempt on the expired room |
| `Post`, `Broadcast` | `post_group_message`: commit, then a push that may be lost |
| `Refuse` | every error: the request is rolled back |

Four history variables: `given`, the code an OWNER was last told; `abdicated`, rooms
whose OWNER has demoted itself; `overtaken`, rooms changed by a commit whose caller had
lost the right since `require_role` looked, or with a code that had been replaced
(`Witness`); `mixed`, rooms of which a PATCH has stored some columns and left out another
that it sets, since it had read that value there, while an overlapping PATCH had changed it
(`Mixes`).

In `RoomAccess` a request is checked and done in one step, and does exactly what it was
asked: `want` says what that is. `Overtaken` voids the room of a request at any time. The
refinement mapping is `Shown`, the room as stored until it is overtaken or mixed, and
`Wanted`, what each request has been asked until its commit or refusal. So, on every
other room, the overlap of requests cannot be told from operations done one after the
other. Without `mixed` this is false, as TLC finds at once.

### UserAccounts

`row` is the `users` table, whose rows are never deleted; `key` says whose each API key
is. A request is verified and looks for its caller's row (`SignIn`), inserts it if it is
missing (`LazyInsert`: ON CONFLICT on the id only, so that an address somebody else has
raises), and then reads and patches the profile (`LoadProfile`, `UpdateProfile`), makes
an API key (`CreateKey`) or ends otherwise (`EndCall`). A webhook is sent (`Send`), gets
the row (`SyncGet`), and inserts or updates it (`SyncInsert`, `SyncUpdate`), or is
refused by a constraint or by the width of the name's column (`SyncRefused`) or fails
(`SyncFault`), and comes again. The request schema does not bound the name; `LongNames`
are those that the column does not take. `Sent` is the ORM's comparison with the value
read. A token without an address gives the row a placeholder of the person's own.

## The runs

| Run | Shows |
|---|---|
| `ingestion_core` | Any mix of an upload, re-chunks and deletes, with overlapping tasks, a retry, timeouts, and a death or a lost connection. `StrandedOnlyWhenLost`: a document is left at PENDING or PROCESSING with nothing under way only in the lost cases. `ContentFitsStatus`: INDEXED comes with content, and a task that outlives its document writes nothing. `ContentNeverLost`: no step takes content away. `VerdictIsFinal`: a verdict is overwritten only if a re-chunk was asked for or the task runs again. `NoChunkPileUp`: coexisting chunk sets come from overlapping attempts, so there are at most as many as processes. `SingleUnlessOverlap`: tasks that are not between DELETE and COMMIT at once leave one chunk set, whatever is retried, redelivered or cut off. `ListedIsStored`: a listed document has its file unless a deletion was asked for. |
| `ingestion_live` | `EventuallySettled`: a document that waits for a verdict gets one, disappears, or is lost, whichever verdict it is heading for. |
| `ingestion_overlap` | expected violation of `SingleChunkSet`, see Findings |
| `exam_core` | `PendingOnlyWhenLost`, `QuestionsFitStatus` (READY has questions, PENDING none), `VerdictIsFinal` (READY and FAILED change only when the task runs again or a COMMIT's answer is lost), and `EventuallyDecided` under fairness, with redeliveries, timeouts, and a death or a lost connection. `QuestionSetsBounded`: an exam gets at most `(MaxRetries + 1) * (MaxFaults + 1)` question sets, whatever order the messages come in. |
| `exam_redelivery` | expected violation of `FilledOnce` |
| `attempts_core` | Three answers, two submits and question sets that arrive one after the other. `ScoreMatchesGrades`: unless two submits went through, the stored grades add up to the stored score although answers and questions slip in. `GradingIsAtomic`: `Attempts` implements `AtomicAttempt`. |
| `attempts_after_submit` | expected violation of `SubmittedIsFinal` |
| `conversation_core` | `TurnsAreAtomic`: `Conversations` implements `ConversationLog`: no history shows half a turn, a client told "done" finds its turn unless the conversation is gone, nothing is stored for a deleted one. With failures, disconnects, overlapping turns and lost answers to COMMIT. |
| `flashcard_core` | `NeverZero`: whatever overlaps, no interval collapses. `OnScheme`, `SuccessGrows`: without overlap one day, six days, then ever more. `ReviewsAreAtomic`: `Flashcards` implements `SpacedRepetition`. |
| `flashcard_overlap` | expected violation of `LapseRestartsInterval` |
| `rooms_core` | `GivenCodeWorks`: the last new code an OWNER was told works, whatever collided or was edited. `NothingOutlivesRoom`, `BroadcastIsStored`. `RolesAreKept`: a role changes only by a change of role that asked for it. `EditsAreKept`: a column changes only by a PATCH that sets it, and none puts back what it has read over what another has stored since. `OwnerlessIsExplained`: a room is without an OWNER only if one demoted itself or was demoted while its own change was under way. `OperationsAreAtomic`: `Rooms` implements `RoomAccess`, each request being one step that does what was asked. |
| `users_core` | `CallerHasRow`: who is let in, or has a key, has a row. `NothingIsUndone`: neither the lazy insert nor a PATCH nor a late webhook undoes what it does not mean to. `SyncSucceeds`: a webhook that lost a race succeeds when it comes again, unless its address is somebody else's or its name too long. |

### Bounds

* `ingestion_core`: one document, since documents share nothing but processes and the
  queue; three requests, enough for an upload with two re-chunks, or a re-chunk and a
  delete, in flight together; two processes, so two tasks of the document overlap while
  messages for a third wait; `MaxRetries = 1` (the code has 3): the first retry already
  differs from the first attempt and the last, further ones repeat it; one process or
  connection, to the broker or to the database, lost. `ingestion_live` has two
  documents, so tasks compete for the processes, and gives one no text and the other no
  parser, so that every verdict is reached.
* `exam_core`: two exams, two processes, `MaxRetries = 1`, which is the code's value,
  one process or connection lost as in `ingestion_core`. No symmetry in runs that check
  liveness.
* `attempts_core`: two questions of two options, which arrive together or one by one,
  three answers, two submits: an
  answer can be loaded, overtaken by another to the same question, and both by a
  submit. Clients may also send indices out of range on both sides.
* `conversation_core`: three turns, so that two overlap while a third has ended or has
  yet to begin; any number of tokens.
* `flashcard_core`: two requests at a time, six reviews in all, every grade: enough for
  the ease to fall to its floor and for two successes to follow there; the last date is 40
  days away, which four perfect reviews would pass and `IsADate` refuses.
* `rooms_core`: two rooms, two people, two codes and three overlapping requests: one to
  be overtaken, one that overtakes it, and a third to meet the result; both codes can be
  taken, so that draws collide. Two columns of two values, so that PATCHes can set the
  same column and different ones; all rooms are created with the same values
  (`SameCreated`), as only equality with what a PATCH sets matters. `MaxAttempts = 2`
  (the code has 10): the second attempt differs from the first by the expired room,
  further ones repeat it.
* `users_core`: two people who may claim one address; two webhooks, for one person or
  two, so that an insert can be lost to a request or to the other webhook; one request at
  a time, since two requests share only what a webhook's writes show as well; one name that
  is too long; one error.
* `CHECK_DEADLOCK FALSE` throughout: with a bounded number of requests the system
  comes to rest.

The bounds `Requests`, `MaxFaults`, `Answerers`, `Submitters`, `Turns`, `Reviewers`,
`MaxReviews`, `Horizon`, `MaxAttempts`, `Callers` and `Webhooks` are constants of the
modules, and the theorems hold for all their values.

### Fairness

`FairSpec` of Ingestion and ExamGeneration assumes that a request which has begun is
answered one way or the other, that some free process takes a waiting message, and that
each running task takes its next step, fails, or is cut off. The last is what
`TASK_TIMEOUT_SECONDS` guarantees in the code: `_run_coroutine` waits 600 s at most, so
the disjunct `Timeout` is enabled in every running state. Nothing makes the client send
a request (of a request, only the step that follows its commit is fair), and nothing
prevents all attempts from failing. The liveness runs have no deaths or one; unbounded
deaths would let a message be redelivered for ever.

`FairSpec` of UserAccounts assumes that a webhook which has not succeeded is delivered
again and worked on: the docstring of `sync_from_supabase` counts on the sender's
retries. Errors of the database, which end a delivery without a cause in the model, are
bounded by `MaxFaults`; the refusals that a race causes are not.

## The proofs

Every theorem is about `Spec`, for any sets of documents (exams, questions, turns,
rooms, people, codes), requests and processes and any `MaxRetries`, `MaxFaults`, `Horizon`
and `MaxAttempts`, from the named `ASSUME`s of the modules: a placeholder value is no
document, bounds are naturals, the question set and the set of processes are finite,
the key names an option, rooms are created with
values in all their columns, nobody has another's placeholder address.

* **Ingestion.** `TypeCorrect`. `NeverStranded`: `StrandedOnlyWhenLost` is not
  inductive, as it speaks of quiet documents only; `OpenIsAttended` is
  (`AlwaysAttended`). It names, for each open document, who will settle it: a committed
  request before its dispatch, a message, or an attempt (`WillSettle`) that has yet to
  load the row, has loaded a status its own commit changes, is recording a failure, or
  raised. The delicate case is an attempt that loaded INDEXED: its commit sends no
  status, so it must not count as attending. `IndexedMeansContent` proves
  `ContentFitsStatus`, `ContentStays` the action property `ContentNeverLost`.
  `ListedHasFile`: a listed document that nobody has asked to delete has its file, since
  what an upload that is to commit has stored is still there (`FileInv`).
  `ChunksDoNotPileUp`: an injection from the chunk sets of a document to the processes,
  such that one which is replacing the content is about to delete the set laid at its
  door (`PileInv`). `OneSetUnlessOverlap` continues that argument: while a document has
  not been overlapped, whoever is replacing its content is alone and its DELETE has seen
  all that is stored (`AloneInv`), so its COMMIT leaves one set. With a single process
  that is always so (`OneProcessOneSet`). These rest on one account of what a step does
  to the sets (`PileStep`). `VerdictsAreFinal`: the first task of a document exists
  once, and is over once there is a verdict or a retry (`BirthInv`, `FirstInv`).
* **ExamGeneration.** `TypeCorrect`; `ReadyMeansQuestions`: `QuestionsFitStatus` needs
  that what a process has seen is in the exam's past (`SeenIsPast`: a process that
  loaded READY finds the questions there, so not sending the status does no harm) and
  that an exam not created yet has no messages and no process (`NewIsNobodys`);
  `NeverPendingForGood` by the inductive `PendingIsAttended` (`PendingAttended`);
  `VerdictsAreFinal`: a first run finds its exam undecided (`FirstRuns`).
  `SetsAreBounded` proves `QuestionSetsBounded` by counting what an exam may still get:
  a running task, a message and a task yet to be sent are each worth the tries they have
  left (`Running`, `Queued`, `Promised`), and sets stored plus tries ahead stay below
  what the deaths so far allow (`Counted`). A commit turns one try into a set, a retry
  hands on the rest, and only a redelivered message adds tries (`DeathAdds`).
* **Attempts.** `TypeCorrect`, and `NothingGradedEarly` (no grade before the submit) by
  one invariant, `Inv`: the rows an answer has loaded still exist (`RowsStay`), the
  questions a submit has listed are some of the exam's (`Listed`). `GradesAddUp`: while
  the attempt is in progress, what submits have loaded is ungraded, so the first submit
  to commit grades exactly the rows it loaded (`CommitGrades`), and a second one voids
  the premise. `ImplementsAtomicAttempt` proves `GradingIsAtomic`: until overtaken, a
  submit that is to commit finds either the attempt in progress with the choices and
  questions it loaded, and marks it as `Submit` does (`CommitMarks`), or the same ones
  graded already, and is a stutter (`SheetInv`).
* **Conversations.** `TypeCorrect`, `TurnsAreWhole`, `DoneMeansSaved` and
  `DeletedMeansEmpty` by one invariant: a turn that has inserted
  its question keeps its conversation (`HeldExists`), stored messages come in pairs of
  turns that have begun (`InPairs`), and a saved turn is stored or the conversation gone
  (`SavedIsStored`). All actions of a turn but the first have one shape (`MovesOn`), so
  their preservation is proved once. `ImplementsConversationLog` maps the commit of a
  turn to `Record`, the event to `Tell`, the deletion to `Close`, and everything else to
  a stutter. The theorems `TurnsAreWhole` to `DeletedMeansEmpty` state its consequences
  one by one; no run checks them apart.
* **Flashcards.** First the arithmetic: the ease keeps its floor, and at the floor a
  rounded product still exceeds an interval of six days or more (`ProductGrows`). From
  it `OutcomeOK`, what a review computes from any sound row; then that the mixture of
  sound rows is sound, so `TypeCorrect`, `IntervalsStayPositive` and
  `IntervalsHaveADate` (every stored delay ends before the last date) hold however
  reviews overlap, and `SchemeHolds` and `SuccessesGrow` until they do.
  `ImplementsAtomicReviews` maps every step to a step of `SpacedRepetition` or a
  stutter.
* **Rooms.** One invariant, `IInv`: what a request under way knows is what it asked for
  (`Sound`), what is broadcast is posted (`PostedOK`), and each room
  is whole (`RoomOK`: what is not live has nothing left, a code that was given is the
  room's, an ownerless room is explained). `LastOwner` turns on `Witness`: an
  OWNER demoted by a caller who is still an OWNER leaves that caller. `RolesStay` and
  `EditsStay` go action by action. `ImplementsAtomicOperations` maps each commit to the
  operation of `RoomAccess` that its request wants (`DoStep`), or to `Overtaken` if the
  caller was not entitled any more or the PATCH is stored in part; beginning a request is
  `Ask`, its refusal `Drop`, and everything else a stutter.
* **UserAccounts.** All writes to `users` have one shape (`Writes`): one row, kept or
  made whole. From it the types and `CallersHaveRows`; and `NothingUndone`, action by
  action.

Only model-checked: liveness (`EventuallySettled`, `EventuallyDecided`, `SyncSucceeds`),
which the prover cannot treat under fairness, and the expected violations. Every other
property of a passing run is a theorem.

## Findings

* `SingleChunkSet` (tasks.py:282): two overlapping tasks of one document each
  delete the chunks they can see and each insert a full set; every passage is then
  indexed twice until the next re-chunk. It takes two tasks between DELETE and COMMIT
  at once, and nothing less does it (`SingleUnlessOverlap`).
* `FilledOnce` (generation/service.py:422): an exam task delivered again after its
  commit adds a second set of questions; each redelivery adds at most
  `MaxRetries + 1` of them (`QuestionSetsBounded`).
* `SubmittedIsFinal` (generation/service.py:507, 545): the status check of an answer or a
  submit is not repeated or locked at the commit, so a submitted attempt takes an
  answer, or is scored again over choices that have changed. Unless one overtakes
  the other in this way, overlapping requests do no harm (`GradingIsAtomic`).
* `LapseRestartsInterval` (generation/service.py:286): two overlapping reviews leave
  a row with the repetitions of one and the interval of the other; by the docstring
  of sm2.py a lapse resets both. Without overlap it does (`OnScheme`).

Also seen while modelling, without a run of its own:

* The comment at tasks.py:355 says that FAILED is recorded before the retry, which is
  not so after a timeout.
* A question set that is added after, or during, a submit is in no score, although the
  docstring at generation/service.py:539 says "Grade every question": a submit lists the
  questions once, and a submitted attempt is not graded again.
* The docstring at rag/service.py:188 says "Persists the user message immediately"; the
  question is only flushed, and stays in the open transaction until the answer is
  complete.
* `sync_from_supabase` is "safe to call more than once", but of two calls at once, or a call
  and a lazy insert, one fails with an `IntegrityError`; `SyncSucceeds` shows that it
  heals when the webhook comes again.
* `UserRead.email` is an `EmailStr`, which a placeholder address with its `.local` is
  not: a person without an address cannot read or patch the profile.
* The webhook's payload does not bound the name (users/schemas.py:40), but its column does
  (users/models.py:35, 120 characters): a longer one fails on every delivery, and its sender
  repeats it in vain.
* Two overlapping PATCHes of a room may leave a part of each, which neither order of the two
  gives (rooms/service.py:138-140): a column is not sent if it equals the value read.
* Two OWNERs that demote each other at once both succeed, and nobody is left to
  administer the room; the last OWNER may also demote itself.
* An OWNER whose draw repeats the code it read is told a code that was not sent; if
  another request has replaced the code meanwhile, the one told does not work (one draw in
  31^6, and the model records no such draw as given).
* Deleting a room while a flashcard of it is inserted fails, since the ORM sets
  the `room_id` of the rows it has read to NULL.

## What is not modelled

* **Worker event loop.** With the prefork pool one task thread per process calls
  `_run_coroutine`, one call after another, so the double-checked creation of the loop and
  its shutdown never overlap. The timeout is part of Ingestion and ExamGeneration.
* **Chunker.** `chunk_text` is a loop over one string that shares nothing; of parsing and
  chunking only the three outcomes matter to the rest.
* **Citations.** They are JSON copies without a foreign key: a re-chunk leaves them naming
  chunks that are gone, and nothing relies on finding them.
* **One-transaction operations with nothing to race for**: summaries, the generation of a
  deck, creating, renaming and listing conversations, the stateless answer, all listings.
  Authorisation is taken as passed where other parts use it; it is modelled in Rooms.
* **LLM adapter, MinIO, token verification**: their outcomes are nondeterministic.
* **Configuration, response formatting, migrations, deployment; the connection pool;
  the routing of the two queues by name**, since every worker consumes both.

## Plan

1. `Exams`: `ExamGeneration` and `Attempts` composed over shared questions, to see from
   which retries and redeliveries a further question set reaches an attempt under way;
   today `Attempts` lets sets arrive at any time.
2. `Chunker`: `chunk_text` against a reference definition (every character covered,
   overlaps of the given size), over bounded texts and sizes.
3. The generation of flashcards and conversations' creation against the deletion of
   their room.
4. An abstract specification of the user table, with the upserts of the webhook column by
   column, and the proof that `UserAccounts` implements it.

Abstract specifications of a document's and an exam's life were considered and left
out: with retries, redeliveries and lost answers almost every change of status is
possible, and what remains is stated directly by `VerdictIsFinal`,
`ContentFitsStatus` and `QuestionsFitStatus`.
