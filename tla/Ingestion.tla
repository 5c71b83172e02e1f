------------------------------ MODULE Ingestion ------------------------------
(***************************************************************************)
(* Document ingestion: the API requests that upload, re-chunk and delete a *)
(* document, the RabbitMQ queue they feed, and the Celery worker processes *)
(* that run process_document_task over it.                                 *)
(*                                                                         *)
(* A step is what the database, the object store or the broker can tell    *)
(* apart: one statement or one commit.  Between a db.get and the commit    *)
(* that follows it any other actor may commit, so a session keeps in       *)
(* `seen` the status it loaded: the ORM sends an UPDATE only for a column  *)
(* whose value differs from the loaded one, and an UPDATE of a row that is *)
(* gone raises StaleDataError.  Postgres runs at READ COMMITTED.           *)
(*                                                                         *)
(* An operator introduced by "Slip:" is no part of the specification: it   *)
(* is the definition after it with a mistake a change of the code could    *)
(* make, kept to see a property fail.                                      *)
(***************************************************************************)
EXTENDS Naturals, FiniteSets

CONSTANTS
  Docs,         \* document ids: uuid4, never used twice
  Requests,     \* API requests; their number bounds what the clients ask for
  Workers,      \* Celery pool processes, each running one task at a time
  NoDoc,        \* what an idle process or an unused request works on
  Blank,        \* documents whose file parses to no text at all
  Unsupported,  \* documents whose stored mime type no parser handles
  MaxRetries,   \* max_retries of process_document_task
  MaxFaults     \* bound on processes and connections lost in the middle of a task

ASSUME DocsAssumption   == NoDoc \notin Docs
ASSUME BlankAssumption  == Blank \subseteq Docs /\ Unsupported \subseteq Docs
ASSUME BoundsAssumption == MaxRetries \in Nat /\ MaxFaults \in Nat
ASSUME WorkersAssumption == IsFiniteSet(Workers)

VARIABLES
  row,      \* documents.status, or "NONE" where there is no committed row
  chunks,   \* the chunk sets stored for each document, by version number
  version,  \* how many chunk sets have been written for each document
  object,   \* is the file in MinIO?
  ready,    \* the queue: how many copies of each message wait in it
  job,      \* what each worker process is doing
  req,      \* what each API request is doing
  faults,   \* processes and connections lost so far
  lost,     \* history: documents whose last task went away without a verdict
  overlapped  \* history: documents two processes were replacing at once

store  == <<row, chunks, version, object>>
vars   == <<row, chunks, version, object, ready, job, req, faults, lost, overlapped>>

Status   == {"PENDING", "PROCESSING", "INDEXED", "FAILED", "QUARANTINED"}
Open     == {"PENDING", "PROCESSING"}    \* the statuses the frontend keeps polling
Written  == {"PROCESSING", "FAILED", "QUARANTINED"}    \* what _set_status writes
Messages == Docs \X (0 .. MaxRetries)    \* <<document_id, retries so far>>

JobPC == {"idle",                 \* waiting for a message
          "mark", "flip",         \* _set_status: before its get, before its commit
          "load", "fetch",        \* db.get; download and parse
          "drop", "lock",         \* DELETE of the old chunks: snapshot, row locks
          "commit",               \* embed, add the new chunks, commit
          "raised", "returned"}   \* back in process_document_task

Job == [pc : JobPC, doc : Docs \cup {NoDoc}, tries : 0 .. MaxRetries,
        target : Written, seen : Status, dropped : SUBSET Nat, recorded : BOOLEAN]

Req == [op : {"none", "upload", "rechunk", "delete"},
        at : {"new", "stored", "loaded", "removed", "committed", "done"},
        doc : Docs \cup {NoDoc}, seen : Status]

Idle == [pc |-> "idle", doc |-> NoDoc, tries |-> 0, target |-> "PROCESSING",
         seen |-> "PENDING", dropped |-> {}, recorded |-> FALSE]

Init ==
  /\ row     = [d \in Docs |-> "NONE"]
  /\ chunks  = [d \in Docs |-> {}]
  /\ version = [d \in Docs |-> 0]
  /\ object  = [d \in Docs |-> FALSE]
  /\ ready   = [m \in Messages |-> 0]
  /\ job     = [w \in Workers |-> Idle]
  /\ req     = [q \in Requests |->
                  [op |-> "none", at |-> "new", doc |-> NoDoc, seen |-> "PENDING"]]
  /\ faults  = 0
  /\ lost    = {}
  /\ overlapped = {}

-----------------------------------------------------------------------------
(***************************************************************************)
(* The queue.  Delivery order plays no part: retries carry a countdown,    *)
(* and several processes consume.                                          *)
(***************************************************************************)

Publish(d, n) == ready' = [ready EXCEPT ![<<d, n>>] = @ + 1]

-----------------------------------------------------------------------------
(***************************************************************************)
(* API requests.  A request whose session raises is rolled back by get_db, *)
(* whatever it did outside the database stays done.                        *)
(***************************************************************************)

Begin(q, op, at, d, s) ==
  req' = [req EXCEPT ![q] = [op |-> op, at |-> at, doc |-> d, seen |-> s]]

\* A session that ends forgets what it loaded.
Advance(q, at) == req' = [req EXCEPT ![q].at = at, ![q].seen = "PENDING"]

\* Slip: a failed put_object is swallowed, as delete does with its S3Error.
UploadUnstored(q, d) ==
  /\ req[q].at = "new"
  /\ \A p \in Requests : req[p].doc # d
  /\ Begin(q, "upload", "stored", d, "PENDING")
  /\ UNCHANGED <<store, ready, job, faults, lost, overlapped>>

\* upload: the row is flushed but not committed when the file goes to MinIO.
UploadStore(q, d) ==
  /\ req[q].at = "new"
  /\ \A p \in Requests : req[p].doc # d
  /\ object' = [object EXCEPT ![d] = TRUE]
  /\ Begin(q, "upload", "stored", d, "PENDING")
  /\ UNCHANGED <<row, chunks, version, ready, job, faults, lost, overlapped>>

UploadCommit(q) ==
  /\ req[q].at = "stored"
  /\ row' = [row EXCEPT ![req[q].doc] = "PENDING"]
  /\ Advance(q, "committed")
  /\ UNCHANGED <<chunks, version, object, ready, job, faults, lost, overlapped>>

RechunkLoad(q, d) ==
  /\ req[q].at = "new"
  /\ row[d] # "NONE"
  /\ Begin(q, "rechunk", "loaded", d, row[d])
  /\ UNCHANGED <<store, ready, job, faults, lost, overlapped>>

\* Loaded as PENDING, the assignment changes nothing and no UPDATE is sent.
RechunkCommit(q) ==
  /\ req[q].at = "loaded"
  /\ row[req[q].doc] # "NONE"
  /\ row' = IF req[q].seen = "PENDING" THEN row
            ELSE [row EXCEPT ![req[q].doc] = "PENDING"]
  /\ Advance(q, "committed")
  /\ UNCHANGED <<chunks, version, object, ready, job, faults, lost, overlapped>>

\* The file goes first, and an S3Error is swallowed.
DeleteObject(q, d) ==
  /\ req[q].at = "new"
  /\ row[d] # "NONE"
  /\ \E removed \in BOOLEAN : object' = [object EXCEPT ![d] = @ /\ ~removed]
  /\ Begin(q, "delete", "removed", d, row[d])
  /\ UNCHANGED <<row, chunks, version, ready, job, faults, lost, overlapped>>

\* A process in "commit" holds the row locks of the chunks it has deleted.
Holds(w, d) == job[w].pc = "commit" /\ job[w].doc = d

\* The row goes and its chunks with it (ORM cascade, ON DELETE CASCADE).
DeleteCommit(q) ==
  LET d == req[q].doc IN
  /\ req[q].at = "removed"
  /\ \A w \in Workers : Holds(w, d) => job[w].dropped \cap chunks[d] = {}
  /\ row'    = [row EXCEPT ![d] = "NONE"]
  /\ chunks' = [chunks EXCEPT ![d] = {}]
  /\ Advance(q, "done")
  /\ UNCHANGED <<version, object, ready, job, faults, lost, overlapped>>

\* Any exception before the commit: rolled back, answered with an error.
RequestFails(q) ==
  /\ req[q].at \in {"stored", "loaded", "removed"}
  /\ Advance(q, "done")
  /\ UNCHANGED <<store, ready, job, faults, lost, overlapped>>

\* process_document_task.delay, after the commit.
Dispatch(q) ==
  /\ req[q].at = "committed"
  /\ Publish(req[q].doc, 0)
  /\ Advance(q, "done")
  /\ UNCHANGED <<store, job, faults, lost, overlapped>>

\* The API process dies after the commit, or the broker refuses the message.
DispatchLost(q) ==
  /\ req[q].at = "committed"
  /\ lost' = lost \cup {req[q].doc}
  /\ Advance(q, "done")
  /\ UNCHANGED <<store, ready, job, faults, overlapped>>

-----------------------------------------------------------------------------
(***************************************************************************)
(* A worker process.                                                       *)
(***************************************************************************)

Goto(w, pc) == job' = [job EXCEPT ![w].pc = pc]

\* The session of w closes, committed or rolled back, and forgets what it read.
Close(w, pc, target, recorded) ==
  job' = [job EXCEPT ![w] = [Idle EXCEPT !.pc = pc, !.doc = job[w].doc,
            !.tries = job[w].tries, !.target = target, !.recorded = recorded]]

\* _set_status(document_id, s) is about to run.
Mark(w, s) == Close(w, "mark", s, FALSE)

\* The task function is back from _process_document without, or with, an error.
Return(w)          == Close(w, "returned", "PROCESSING", FALSE)
Raise(w, recorded) == Close(w, "raised", "PROCESSING", recorded)

\* Slip: a message is handed over without being taken from the queue.
DeliverBlindly(w, m) ==
  /\ job[w].pc = "idle"
  /\ ready' = [ready EXCEPT ![m] = @ - 1]
  /\ job' = [job EXCEPT ![w] = [Idle EXCEPT !.pc = "mark", !.doc = m[1], !.tries = m[2]]]
  /\ UNCHANGED <<store, req, faults, lost, overlapped>>

Deliver(w, m) ==
  /\ job[w].pc = "idle"
  /\ ready[m] > 0
  /\ ready' = [ready EXCEPT ![m] = @ - 1]
  /\ job' = [job EXCEPT ![w] = [Idle EXCEPT !.pc = "mark", !.doc = m[1], !.tries = m[2]]]
  /\ UNCHANGED <<store, req, faults, lost, overlapped>>

\* Where _process_document goes on to after _set_status(target).
AfterMark(w) ==
  CASE job[w].target = "PROCESSING"  -> Close(w, "load", "PROCESSING", FALSE)
    [] job[w].target = "QUARANTINED" -> Return(w)
    [] OTHER                         -> Raise(w, TRUE)

SetStatusGet(w) ==
  LET d == job[w].doc IN
  /\ job[w].pc = "mark"
  /\ \/ row[d] = "NONE" /\ AfterMark(w)
     \/ row[d] # "NONE" /\ job' = [job EXCEPT ![w].pc = "flip", ![w].seen = row[d]]
  /\ UNCHANGED <<store, ready, req, faults, lost, overlapped>>

\* The status column that the session of w sends, if it sends one.
FlipStatus(w) ==
  row' = IF job[w].seen = job[w].target THEN row
         ELSE [row EXCEPT ![job[w].doc] = job[w].target]

CanFlip(w) == job[w].seen = job[w].target \/ row[job[w].doc] # "NONE"

SetStatusCommit(w) ==
  /\ job[w].pc = "flip"
  /\ CanFlip(w)
  /\ FlipStatus(w)
  /\ AfterMark(w)
  /\ UNCHANGED <<chunks, version, object, ready, req, faults, lost, overlapped>>

\* StaleDataError, or the database out of reach: nothing around _set_status
\* catches it, neither before the try nor inside an except clause.
SetStatusRaises(w) ==
  /\ job[w].pc \in {"mark", "flip"}
  /\ Raise(w, FALSE)
  /\ UNCHANGED <<store, ready, req, faults, lost, overlapped>>

Load(w) ==
  LET d == job[w].doc IN
  /\ job[w].pc = "load"
  /\ \/ row[d] = "NONE" /\ Return(w)
     \/ row[d] # "NONE" /\ job' = [job EXCEPT ![w].pc = "fetch", ![w].seen = row[d]]
  /\ UNCHANGED <<store, ready, req, faults, lost, overlapped>>

\* Download, then pick the parser: a missing object is an error (Fails), a
\* mime type without a parser a verdict.
Fetch(w) ==
  LET d == job[w].doc IN
  /\ job[w].pc = "fetch"
  /\ object[d]
  /\ IF d \in Unsupported THEN Mark(w, "QUARANTINED") ELSE Goto(w, "drop")
  /\ UNCHANGED <<store, ready, req, faults, lost, overlapped>>

\* Slip: the DELETE runs in a session of its own, like _set_status.
DropInOwnSession(w) ==
  LET d == job[w].doc IN
  /\ job[w].pc = "drop"
  /\ chunks' = [chunks EXCEPT ![d] = {}]
  /\ job' = [job EXCEPT ![w].pc = "lock", ![w].dropped = chunks[d]]
  /\ UNCHANGED <<row, version, object, ready, req, faults, lost, overlapped>>

\* Slip: no DELETE, as if every task were the document's first.
DropNothing(w) ==
  /\ job[w].pc = "drop"
  /\ Goto(w, "lock")
  /\ UNCHANGED <<store, ready, req, faults, lost, overlapped>>

\* Between the DELETE's snapshot and the commit.
Replacing(w, d) == job[w].pc \in {"lock", "commit"} /\ job[w].doc = d

\* DELETE sees the chunks committed when the statement starts ...
DropOldChunks(w) ==
  LET d == job[w].doc IN
  /\ job[w].pc = "drop"
  /\ job' = [job EXCEPT ![w].pc = "lock", ![w].dropped = chunks[d]]
  /\ overlapped' = overlapped \cup
       (IF \E v \in Workers \ {w} : Replacing(v, d) THEN {d} ELSE {})
  /\ UNCHANGED <<store, ready, req, faults, lost>>

\* ... and waits for whoever else is deleting them.
LockOldChunks(w) ==
  LET d == job[w].doc IN
  /\ job[w].pc = "lock"
  /\ \A v \in Workers \ {w} :
        Holds(v, d) => job[v].dropped \cap job[w].dropped \cap chunks[d] = {}
  /\ Goto(w, "commit")
  /\ UNCHANGED <<store, ready, req, faults, lost, overlapped>>

\* Slip: document_chunks without its foreign key.
PersistAnyway(w) == TRUE

\* With the row gone the status UPDATE or the chunks' foreign key fails; only
\* a transaction that needs neither goes through.
CanPersist(w) ==
  LET d == job[w].doc IN
  row[d] # "NONE" \/ (job[w].seen = "INDEXED" /\ d \in Blank)

\* The new chunks and INDEXED, in one transaction with the DELETE.
PersistChunks(w) ==
  LET d == job[w].doc IN
  /\ row' = IF job[w].seen = "INDEXED" THEN row ELSE [row EXCEPT ![d] = "INDEXED"]
  /\ version' = [version EXCEPT ![d] = @ + 1]
  /\ chunks'  = [chunks EXCEPT ![d] =
       (@ \ job[w].dropped) \cup (IF d \in Blank THEN {} ELSE {version[d] + 1})]

\* Slip: something after the commit, still inside the try, raises.
CommitThenFails(w) ==
  /\ job[w].pc = "commit"
  /\ CanPersist(w)
  /\ PersistChunks(w)
  /\ Mark(w, "FAILED")
  /\ UNCHANGED <<object, ready, req, faults, lost, overlapped>>

Commit(w) ==
  /\ job[w].pc = "commit"
  /\ CanPersist(w)
  /\ PersistChunks(w)
  /\ Return(w)
  /\ UNCHANGED <<object, ready, req, faults, lost, overlapped>>

\* Slip: the exception is logged and forgotten.
FailsSilently(w) ==
  /\ job[w].pc \in {"load", "fetch", "drop", "lock", "commit"}
  /\ Return(w)
  /\ UNCHANGED <<store, ready, req, faults, lost, overlapped>>

\* Any Exception inside the try: roll back, then record FAILED.
Fails(w) ==
  /\ job[w].pc \in {"load", "fetch", "drop", "lock", "commit"}
  /\ Mark(w, "FAILED")
  /\ UNCHANGED <<store, ready, req, faults, lost, overlapped>>

\* Slip: the exception ends the task instead of reaching self.retry.
RetryNever(w) ==
  /\ job[w].pc = "raised"
  /\ job[w].tries < MaxRetries
  /\ Return(w)
  /\ UNCHANGED <<store, ready, req, faults, lost, overlapped>>

\* self.retry publishes the next attempt before this message is acked.
Retry(w) ==
  /\ job[w].pc = "raised"
  /\ job[w].tries < MaxRetries
  /\ Publish(job[w].doc, job[w].tries + 1)
  /\ Return(w)
  /\ UNCHANGED <<store, req, faults, lost, overlapped>>

GiveUp(w) ==
  /\ job[w].pc = "raised"
  /\ job[w].tries = MaxRetries
  /\ lost' = IF job[w].recorded THEN lost ELSE lost \cup {job[w].doc}
  /\ Return(w)
  /\ UNCHANGED <<store, ready, req, faults, overlapped>>

Ack(w) ==
  /\ job[w].pc = "returned"
  /\ job' = [job EXCEPT ![w] = Idle]
  /\ UNCHANGED <<store, ready, req, faults, lost, overlapped>>

-----------------------------------------------------------------------------
(***************************************************************************)
(* What cuts a coroutine short.  If it was waiting for a COMMIT, Postgres  *)
(* may or may not have carried it out.                                     *)
(***************************************************************************)

Running == {"mark", "flip", "load", "fetch", "drop", "lock", "commit"}

CutShort(w) ==
  /\ UNCHANGED <<object, req>>
  /\ \/ UNCHANGED <<row, chunks, version>>
     \/ job[w].pc = "flip" /\ CanFlip(w) /\ FlipStatus(w) /\ UNCHANGED <<chunks, version>>
     \/ job[w].pc = "commit" /\ CanPersist(w) /\ PersistChunks(w)

\* TASK_TIMEOUT_SECONDS: the task thread raises TimeoutError and cancels the
\* coroutine.  CancelledError is no Exception: FAILED is not recorded.
Timeout(w) ==
  /\ job[w].pc \in Running
  /\ CutShort(w)
  /\ Raise(w, FALSE)
  /\ UNCHANGED <<ready, faults, lost, overlapped>>

\* The whole worker dies: acks_late puts its unacked message back, with the same
\* retry count.
WorkerDies(w) ==
  /\ job[w].pc # "idle"
  /\ faults < MaxFaults
  /\ CutShort(w)
  /\ Publish(job[w].doc, job[w].tries)
  /\ job'    = [job EXCEPT ![w] = Idle]
  /\ faults' = faults + 1
  /\ UNCHANGED <<lost, overlapped>>

\* The worker loses the broker, which puts the message back while the task goes on
\* (worker_cancel_long_running_tasks_on_connection_loss is not set).
BrokerLost(w) ==
  /\ job[w].pc # "idle"
  /\ faults < MaxFaults
  /\ Publish(job[w].doc, job[w].tries)
  /\ faults' = faults + 1
  /\ UNCHANGED <<store, job, req, lost, overlapped>>

\* Only the pool process dies: Celery acks the message of a task that ends in
\* WorkerLostError (task_reject_on_worker_lost is not set).  At "raised" it stands
\* as well for a retry that cannot be published: Task.retry then rejects the
\* message, which does not come back.
PoolProcessDies(w) ==
  /\ job[w].pc # "idle"
  /\ faults < MaxFaults
  /\ CutShort(w)
  /\ lost'   = lost \cup {job[w].doc}
  /\ job'    = [job EXCEPT ![w] = Idle]
  /\ faults' = faults + 1
  /\ UNCHANGED <<ready, overlapped>>

\* The connection goes with the answer to a COMMIT: the session raises an
\* Exception, the transaction may have gone through all the same.
ConnectionLost(w) ==
  /\ job[w].pc \in {"flip", "commit"}
  /\ faults < MaxFaults
  /\ CutShort(w)
  /\ IF job[w].pc = "commit" THEN Mark(w, "FAILED") ELSE Raise(w, FALSE)
  /\ faults' = faults + 1
  /\ UNCHANGED <<ready, lost, overlapped>>

-----------------------------------------------------------------------------
RequestStep(q) ==
  \/ UploadCommit(q) \/ RechunkCommit(q) \/ DeleteCommit(q) \/ RequestFails(q)
  \/ Dispatch(q) \/ DispatchLost(q)

WorkerStep(w) ==
  \/ SetStatusGet(w) \/ SetStatusCommit(w) \/ SetStatusRaises(w)
  \/ Load(w) \/ Fetch(w) \/ DropOldChunks(w) \/ LockOldChunks(w) \/ Commit(w)
  \/ Fails(w) \/ Retry(w) \/ GiveUp(w) \/ Ack(w) \/ Timeout(w)

Fault(w) == WorkerDies(w) \/ BrokerLost(w) \/ PoolProcessDies(w) \/ ConnectionLost(w)

Next ==
  \/ \E q \in Requests : RequestStep(q)
  \/ \E q \in Requests, d \in Docs :
        UploadStore(q, d) \/ RechunkLoad(q, d) \/ DeleteObject(q, d)
  \/ \E w \in Workers, m \in Messages : Deliver(w, m)
  \/ \E w \in Workers : WorkerStep(w) \/ Fault(w)

Spec == Init /\ [][Next]_vars

\* A request is answered, one way or the other; a free process takes a waiting
\* message; and a task goes on, fails or is cut off by its timeout.
Fairness ==
  /\ \A q \in Requests : WF_vars(RequestStep(q))
  /\ WF_vars(\E w \in Workers, m \in Messages : Deliver(w, m))
  /\ \A w \in Workers : WF_vars(WorkerStep(w))

FairSpec == Spec /\ Fairness

-----------------------------------------------------------------------------
(***************************************************************************)
(* Properties.                                                             *)
(***************************************************************************)

TypeOK ==
  /\ row     \in [Docs -> Status \cup {"NONE"}]
  /\ chunks  \in [Docs -> SUBSET Nat]
  /\ version \in [Docs -> Nat]
  /\ object  \in [Docs -> BOOLEAN]
  /\ ready   \in [Messages -> Nat]
  /\ job     \in [Workers -> Job]
  /\ req     \in [Requests -> Req]
  /\ faults  \in 0 .. MaxFaults
  /\ lost    \subseteq Docs
  /\ overlapped \subseteq Docs
  /\ \A w \in Workers  : job[w].pc # "idle" => job[w].doc \in Docs
  /\ \A q \in Requests : req[q].at # "new"  => req[q].doc \in Docs

\* Nothing is left in the system that could still change the status of d.
Quiet(d) ==
  /\ \A m \in Messages : m[1] = d => ready[m] = 0
  /\ \A w \in Workers  : job[w].doc # d
  /\ \A q \in Requests : req[q].doc = d => req[q].at \in {"new", "done"}

\* Commit before dispatch, retries and the two isolated status commits leave a
\* document at PENDING or PROCESSING for good in four cases only: its message
\* was never sent, its pool process died, or its last attempt was cut off by
\* the timeout or could not write its status.  No order of overlapping
\* attempts, re-chunks and redeliveries does (router.upload_document,
\* _process_document).
StrandedOnlyWhenLost ==
  \A d \in Docs : Quiet(d) /\ row[d] \in Open => d \in lost

\* The attempt of w has yet to give d a verdict, or to hand it on: it will load
\* d, it loaded d at a status that its own commit then changes, it is about to
\* record a failure, or it raised and a retry or an entry in `lost` follows.
WillSettle(w, d) ==
  /\ job[w].doc = d
  /\ \/ job[w].pc \in {"load", "mark"}
     \/ job[w].pc = "flip" /\ (job[w].target = "PROCESSING" \/ job[w].seen # job[w].target)
     \/ job[w].pc \in {"fetch", "drop", "lock", "commit"} /\ job[w].seen # "INDEXED"
     \/ job[w].pc = "raised" /\ (job[w].tries < MaxRetries \/ ~job[w].recorded)

Attended(d) ==
  \/ d \in lost
  \/ \E q \in Requests : req[q].doc = d /\ req[q].at = "committed"
  \/ \E m \in Messages : m[1] = d /\ ready[m] > 0
  \/ \E w \in Workers  : WillSettle(w, d)

\* What makes StrandedOnlyWhenLost inductive: whoever leaves a document open
\* leaves somebody behind who will see to it, a request that has committed but
\* not dispatched, a message in the queue, or an attempt.
OpenIsAttended == \A d \in Docs : row[d] \in Open => Attended(d)

\* INDEXED is committed together with the chunks: a document shown as INDEXED
\* has some, unless its file has no text (_process_document, "a single unit
\* together with the final INDEXED status").  A task that outlives its document
\* leaves none behind.
ContentFitsStatus ==
  \A d \in Docs :
    /\ row[d] = "INDEXED" /\ d \notin Blank => chunks[d] # {}
    /\ row[d] = "NONE" => chunks[d] = {}

\* A re-chunk replaces the content in one commit: while the document exists it
\* never loses what it had, however the attempts fail, overlap or are cut off.
ContentNeverLost ==
  [][\A d \in Docs \ Blank :
       chunks[d] # {} /\ row'[d] # "NONE" => chunks'[d] # {}]_vars

\* The file of a listed document is in the object store, until somebody asks
\* for its deletion (DocumentService.upload stores before the commit).
ListedIsStored ==
  \A d \in Docs : row[d] # "NONE" =>
     object[d] \/ \E q \in Requests : req[q].doc = d /\ req[q].op = "delete"

\* Re-chunks replace the content, they do not pile it up: chunk sets stored side
\* by side come from attempts that overlapped one another, so there are never
\* more of them than worker processes, however often a document is re-chunked,
\* retried or redelivered (the DELETE in _process_document).
NoChunkPileUp == \A d \in Docs : Cardinality(chunks[d]) <= Cardinality(Workers)

\* And side by side they are only where two processes were between the DELETE and
\* the commit at once.  Tasks that meet earlier or later, that die or are cut off
\* in between, or whose commit goes through unanswered, leave one set.
SingleUnlessOverlap == \A d \in Docs \ overlapped : Cardinality(chunks[d]) <= 1

\* The comment on the DELETE in _process_document: previous chunks are dropped
\* before the new set is written, so there is one set at a time.
SingleChunkSet == \A d \in Docs : Cardinality(chunks[d]) <= 1

\* A verdict is taken back, INDEXED for FAILED or any other way, only if somebody
\* asks for a re-chunk or a second run of the task overtakes the first: a retry,
\* a delivery after a death, or the answer to a COMMIT that was lost and read as
\* a failure.  _process_document does not look at the status it overwrites.
RunsAgain(d) ==
  \/ faults > 0
  \/ \E q \in Requests : req[q].doc = d /\ req[q].op = "rechunk"
  \/ \E w \in Workers  : job[w].doc = d /\ job[w].tries > 0

VerdictIsFinal ==
  [][\A d \in Docs :
       row[d] \in Status \ Open /\ row'[d] \notin {row[d], "NONE"} => RunsAgain(d)]_vars

\* A document that is waiting gets its verdict, disappears, or is one of the
\* cases of StrandedOnlyWhenLost (the frontend polls GET .../status for it).
EventuallySettled ==
  \A d \in Docs : row[d] \in Open ~> row[d] \notin Open \/ d \in lost
=============================================================================
