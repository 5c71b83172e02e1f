--------------------------- MODULE IngestionProofs ---------------------------
(***************************************************************************)
(* Theorems about Ingestion, for any number of documents, requests,        *)
(* processes, retries, deaths and lost connections.                        *)
(***************************************************************************)
EXTENDS Ingestion, FiniteSetTheorems, TLAPS

-----------------------------------------------------------------------------
(***************************************************************************)
(* The two ways job and req are updated keep their types.                  *)
(***************************************************************************)

JobOK ==
  /\ job \in [Workers -> Job]
  /\ \A w \in Workers : job[w].pc # "idle" => job[w].doc \in Docs

ReqOK ==
  /\ req \in [Requests -> Req]
  /\ \A q \in Requests : req[q].at # "new" => req[q].doc \in Docs

\* A process whose session ends keeps its message.
LEMMA CloseType ==
  ASSUME JobOK, NEW w \in Workers, job[w].pc # "idle",
         NEW pc \in JobPC, NEW s \in Written, NEW r \in BOOLEAN,
         Close(w, pc, s, r)
  PROVE  JobOK'
BY DEF JobOK, Close, Job, Idle, Status

\* A step inside a session.
LEMMA GotoType ==
  ASSUME JobOK, NEW w \in Workers, job[w].pc # "idle", NEW pc \in JobPC
  PROVE  /\ Goto(w, pc) => JobOK'
         /\ \A s \in Status :
               job' = [job EXCEPT ![w].pc = pc, ![w].seen = s] => JobOK'
         /\ \A c \in SUBSET Nat :
               job' = [job EXCEPT ![w].pc = pc, ![w].dropped = c] => JobOK'
BY DEF JobOK, Goto, Job

LEMMA IdleType ==
  ASSUME JobOK, NEW w \in Workers, job' = [job EXCEPT ![w] = Idle]
  PROVE  JobOK'
BY BoundsAssumption DEF JobOK, Job, Idle, JobPC, Status, Written

LEMMA AdvanceType ==
  ASSUME ReqOK, NEW q \in Requests, req[q].at # "new",
         NEW at \in {"new", "stored", "loaded", "removed", "committed", "done"},
         Advance(q, at)
  PROVE  ReqOK'
BY DEF ReqOK, Advance, Req, Status

LEMMA BeginType ==
  ASSUME ReqOK, NEW q \in Requests, NEW d \in Docs, NEW s \in Status,
         NEW op \in {"none", "upload", "rechunk", "delete"},
         NEW at \in {"new", "stored", "loaded", "removed", "committed", "done"},
         Begin(q, op, at, d, s)
  PROVE  ReqOK'
BY DEF ReqOK, Begin, Req

\* One more copy of a message.
LEMMA PublishType ==
  ASSUME ready \in [Messages -> Nat], NEW d \in Docs, NEW n \in 0 .. MaxRetries,
         Publish(d, n)
  PROVE  ready' \in [Messages -> Nat]
BY DEF Publish, Messages

StoreOK ==
  /\ row     \in [Docs -> Status \cup {"NONE"}]
  /\ chunks  \in [Docs -> SUBSET Nat]
  /\ version \in [Docs -> Nat]
  /\ object  \in [Docs -> BOOLEAN]

RestOK ==
  /\ ready   \in [Messages -> Nat]
  /\ faults  \in 0 .. MaxFaults
  /\ lost    \subseteq Docs
  /\ overlapped \subseteq Docs

LEMMA TypeParts == TypeOK <=> JobOK /\ ReqOK /\ StoreOK /\ RestOK
BY DEF TypeOK, JobOK, ReqOK, StoreOK, RestOK

\* The effects of a commit, in time or cut off, keep the store well typed.
LEMMA EffectTypes ==
  ASSUME StoreOK, JobOK, NEW w \in Workers, job[w].pc # "idle"
  PROVE  /\ FlipStatus(w) => row' \in [Docs -> Status \cup {"NONE"}]
         /\ PersistChunks(w) =>
              /\ row'     \in [Docs -> Status \cup {"NONE"}]
              /\ chunks'  \in [Docs -> SUBSET Nat]
              /\ version' \in [Docs -> Nat]
         /\ CutShort(w) => StoreOK'
<1>1. job[w].doc \in Docs /\ job[w].target \in Status \cup {"NONE"}
  BY DEF JobOK, Job, Written, Status
<1>2. FlipStatus(w) => row' \in [Docs -> Status \cup {"NONE"}]
  BY <1>1 DEF FlipStatus, StoreOK
<1>3. ASSUME PersistChunks(w)
      PROVE  /\ row'     \in [Docs -> Status \cup {"NONE"}]
             /\ chunks'  \in [Docs -> SUBSET Nat]
             /\ version' \in [Docs -> Nat]
  BY <1>1, <1>3 DEF PersistChunks, StoreOK, Status
<1>4. CutShort(w) => StoreOK'
  BY <1>2, <1>3 DEF CutShort, StoreOK
<1> QED  BY <1>2, <1>3, <1>4

-----------------------------------------------------------------------------
LEMMA InitType == Init => TypeOK
BY BoundsAssumption DEF Init, TypeOK, Idle, Job, JobPC, Req, Status, Written

\* Type correctness, one step per action.
LEMMA NextType == TypeOK /\ [Next]_vars => TypeOK'
<1> SUFFICES ASSUME JobOK, ReqOK, StoreOK, RestOK, [Next]_vars
             PROVE  JobOK' /\ ReqOK' /\ StoreOK' /\ RestOK'
  BY TypeParts, PTL
<1> USE DEF store
<1>1. ASSUME NEW q \in Requests, RequestStep(q)
      PROVE  JobOK' /\ ReqOK' /\ StoreOK' /\ RestOK'
  <2>1. CASE UploadCommit(q)
    BY <2>1, AdvanceType DEF UploadCommit, JobOK, StoreOK, RestOK, ReqOK, Status
  <2>2. CASE RechunkCommit(q)
    BY <2>2, AdvanceType DEF RechunkCommit, JobOK, StoreOK, RestOK, ReqOK, Status
  <2>3. CASE DeleteCommit(q)
    BY <2>3, AdvanceType DEF DeleteCommit, JobOK, StoreOK, RestOK, ReqOK
  <2>4. CASE RequestFails(q)
    BY <2>4, AdvanceType DEF RequestFails, JobOK, StoreOK, RestOK
  <2>5. CASE Dispatch(q)
    BY <2>5, AdvanceType, PublishType, BoundsAssumption
       DEF Dispatch, JobOK, StoreOK, RestOK, ReqOK
  <2>6. CASE DispatchLost(q)
    BY <2>6, AdvanceType DEF DispatchLost, JobOK, StoreOK, RestOK, ReqOK
  <2> QED  BY <1>1, <2>1, <2>2, <2>3, <2>4, <2>5, <2>6 DEF RequestStep
<1>2. ASSUME NEW q \in Requests, NEW d \in Docs,
             UploadStore(q, d) \/ RechunkLoad(q, d) \/ DeleteObject(q, d)
      PROVE  JobOK' /\ ReqOK' /\ StoreOK' /\ RestOK'
  <2>1. CASE UploadStore(q, d)
    BY <2>1, BeginType DEF UploadStore, JobOK, StoreOK, RestOK, Status
  <2>2. CASE RechunkLoad(q, d)
    BY <2>2, BeginType DEF RechunkLoad, JobOK, StoreOK, RestOK
  <2>3. CASE DeleteObject(q, d)
    BY <2>3, BeginType DEF DeleteObject, JobOK, StoreOK, RestOK
  <2> QED  BY <1>2, <2>1, <2>2, <2>3
<1>3. ASSUME NEW w \in Workers, NEW m \in Messages, Deliver(w, m)
      PROVE  JobOK' /\ ReqOK' /\ StoreOK' /\ RestOK'
  <2>1. m[1] \in Docs /\ m[2] \in 0 .. MaxRetries
    BY DEF Messages
  <2>2. JobOK'
    BY <1>3, <2>1 DEF Deliver, JobOK, Job, Idle, JobPC, Status, Written
  <2> QED  BY <1>3, <2>2 DEF Deliver, ReqOK, StoreOK, RestOK
<1>4. ASSUME NEW w \in Workers, WorkerStep(w)
      PROVE  JobOK' /\ ReqOK' /\ StoreOK' /\ RestOK'
  <2> USE DEF JobPC, Status, Written, Mark, Return, Raise
  <2>1. CASE SetStatusGet(w)
    <3>1. job[w].doc \in Docs /\ job[w].pc # "idle"
      BY <2>1 DEF SetStatusGet, JobOK
    <3>2. CASE row[job[w].doc] = "NONE"
      BY <2>1, <3>1, <3>2, CloseType
         DEF SetStatusGet, AfterMark, ReqOK, StoreOK, RestOK
    <3>3. CASE row[job[w].doc] # "NONE"
      <4>1. row[job[w].doc] \in Status
        BY <3>1, <3>3 DEF StoreOK
      <4> QED
        BY <2>1, <3>1, <3>3, <4>1, GotoType DEF SetStatusGet, ReqOK, StoreOK, RestOK
    <3> QED  BY <3>2, <3>3
  <2>2. CASE SetStatusCommit(w)
    BY <2>2, CloseType, EffectTypes
       DEF SetStatusCommit, AfterMark, ReqOK, StoreOK, RestOK
  <2>3. CASE SetStatusRaises(w)
    BY <2>3, CloseType DEF SetStatusRaises, ReqOK, StoreOK, RestOK
  <2>4. CASE Load(w)
    <3>1. job[w].doc \in Docs /\ job[w].pc # "idle"
      BY <2>4 DEF Load, JobOK
    <3>2. row[job[w].doc] # "NONE" => row[job[w].doc] \in Status
      BY <3>1 DEF StoreOK
    <3> QED
      BY <2>4, <3>1, <3>2, CloseType, GotoType DEF Load, ReqOK, StoreOK, RestOK
  <2>5. CASE Fetch(w)
    BY <2>5, CloseType, GotoType DEF Fetch, ReqOK, StoreOK, RestOK
  <2>6. CASE DropOldChunks(w)
    <3>1. job[w].pc # "idle" /\ chunks[job[w].doc] \in SUBSET Nat
      BY <2>6 DEF DropOldChunks, JobOK, StoreOK
    <3>2. JobOK'
      BY <2>6, <3>1, GotoType DEF DropOldChunks
    <3>3. job[w].doc \in Docs
      BY <2>6 DEF DropOldChunks, JobOK
    <3>4. overlapped' \subseteq Docs
      BY <2>6, <3>3 DEF DropOldChunks, RestOK
    <3> QED
      BY <2>6, <3>2, <3>4 DEF DropOldChunks, ReqOK, StoreOK, RestOK
  <2>7. CASE LockOldChunks(w)
    BY <2>7, GotoType DEF LockOldChunks, ReqOK, StoreOK, RestOK
  <2>8. CASE Commit(w)
    BY <2>8, CloseType, EffectTypes DEF Commit, ReqOK, StoreOK, RestOK
  <2>9. CASE Fails(w)
    BY <2>9, CloseType DEF Fails, ReqOK, StoreOK, RestOK
  <2>10. CASE Retry(w)
    <3>1. job[w].doc \in Docs /\ job[w].tries + 1 \in 0 .. MaxRetries
      BY <2>10, BoundsAssumption DEF Retry, JobOK, Job
    <3> QED
      BY <2>10, <3>1, CloseType, PublishType DEF Retry, ReqOK, StoreOK, RestOK
  <2>11. CASE GiveUp(w)
    BY <2>11, CloseType DEF GiveUp, JobOK, ReqOK, StoreOK, RestOK
  <2>12. CASE Ack(w)
    BY <2>12, IdleType DEF Ack, ReqOK, StoreOK, RestOK
  <2>13. CASE Timeout(w)
    BY <2>13, CloseType, EffectTypes
       DEF Timeout, Running, CutShort, ReqOK, RestOK
  <2> QED  BY <1>4, <2>1, <2>2, <2>3, <2>4, <2>5, <2>6, <2>7, <2>8, <2>9,
              <2>10, <2>11, <2>12, <2>13 DEF WorkerStep
<1>5. ASSUME NEW w \in Workers, WorkerDies(w)
      PROVE  JobOK' /\ ReqOK' /\ StoreOK' /\ RestOK'
  <2>1. job[w].doc \in Docs /\ job[w].tries \in 0 .. MaxRetries
    BY <1>5 DEF WorkerDies, JobOK, Job
  <2>2. JobOK' /\ StoreOK'
    BY <1>5, IdleType, EffectTypes DEF WorkerDies
  <2>3. RestOK'
    BY <1>5, <2>1, PublishType, BoundsAssumption DEF WorkerDies, RestOK
  <2> QED  BY <1>5, <2>2, <2>3 DEF WorkerDies, CutShort, ReqOK
<1>6. ASSUME NEW w \in Workers, PoolProcessDies(w)
      PROVE  JobOK' /\ ReqOK' /\ StoreOK' /\ RestOK'
  <2>1. job[w].doc \in Docs
    BY <1>6 DEF PoolProcessDies, JobOK
  <2>2. JobOK' /\ StoreOK'
    BY <1>6, IdleType, EffectTypes DEF PoolProcessDies
  <2>3. RestOK'
    BY <1>6, <2>1, BoundsAssumption DEF PoolProcessDies, RestOK
  <2> QED  BY <1>6, <2>2, <2>3 DEF PoolProcessDies, CutShort, ReqOK
<1>7. ASSUME NEW w \in Workers, ConnectionLost(w)
      PROVE  JobOK' /\ ReqOK' /\ StoreOK' /\ RestOK'
  <2>1. JobOK'
    BY <1>7, CloseType DEF ConnectionLost, Mark, Raise, JobPC, Written
  <2>2. StoreOK'
    BY <1>7, EffectTypes DEF ConnectionLost
  <2>3. RestOK'
    BY <1>7, BoundsAssumption DEF ConnectionLost, RestOK
  <2> QED  BY <1>7, <2>1, <2>2, <2>3 DEF ConnectionLost, CutShort, ReqOK
<1>8. ASSUME NEW w \in Workers, BrokerLost(w)
      PROVE  JobOK' /\ ReqOK' /\ StoreOK' /\ RestOK'
  <2>1. job[w].doc \in Docs /\ job[w].tries \in 0 .. MaxRetries
    BY <1>8 DEF BrokerLost, JobOK, Job
  <2>2. RestOK'
    BY <1>8, <2>1, PublishType, BoundsAssumption DEF BrokerLost, RestOK
  <2> QED  BY <1>8, <2>2 DEF BrokerLost, JobOK, ReqOK, StoreOK
<1>9. CASE UNCHANGED vars
  BY <1>9 DEF vars, JobOK, ReqOK, StoreOK, RestOK
<1> QED  BY <1>1, <1>2, <1>3, <1>4, <1>5, <1>6, <1>7, <1>8, <1>9 DEF Next, Fault

\* Type correctness of Ingestion.
THEOREM TypeCorrect == Spec => []TypeOK
BY InitType, NextType, PTL DEF Spec

-----------------------------------------------------------------------------
(***************************************************************************)
(* No document is stranded: OpenIsAttended is inductive.                   *)
(***************************************************************************)

\* A step of w disturbs only what w itself promised to d.
LEMMA OnlyOwnPromise ==
  ASSUME TypeOK, NEW w \in Workers, NEW d \in Docs,
         job' = [job EXCEPT ![w] = job'[w]],
         req' = req, lost \subseteq lost',
         \A m \in Messages : ready[m] > 0 => ready'[m] > 0,
         Attended(d)
  PROVE  WillSettle(w, d) \/ Attended(d)'
<1>1. CASE \E v \in Workers \ {w} : WillSettle(v, d)
  <2>1. PICK v \in Workers \ {w} : WillSettle(v, d)
    BY <1>1
  <2>2. job'[v] = job[v]
    BY DEF TypeOK
  <2>3. WillSettle(v, d)'
    BY <2>1, <2>2 DEF WillSettle
  <2> QED  BY <2>3 DEF Attended
<1>2. CASE \A v \in Workers \ {w} : ~WillSettle(v, d)
  BY <1>2 DEF Attended
<1> QED  BY <1>1, <1>2

\* What w has to show for a step of its own.
LEMMA OwnStep ==
  ASSUME TypeOK, OpenIsAttended, NEW w \in Workers, NEW d \in Docs,
         job' = [job EXCEPT ![w] = job'[w]],
         req' = req, lost \subseteq lost',
         \A m \in Messages : ready[m] > 0 => ready'[m] > 0,
         row[d] \notin Open \/ WillSettle(w, d)
           => row'[d] \notin Open \/ Attended(d)'
  PROVE  row'[d] \in Open => Attended(d)'
BY OnlyOwnPromise DEF OpenIsAttended

\* A published message attends to its document.
LEMMA PublishAttends ==
  ASSUME TypeOK, NEW d \in Docs, NEW n \in 0 .. MaxRetries, Publish(d, n)
  PROVE  Attended(d)' /\ \A m \in Messages : ready[m] > 0 => ready'[m] > 0
<1>1. <<d, n>> \in Messages /\ <<d, n>>[1] = d
  BY DEF Messages
<1>2. ready'[<<d, n>>] = ready[<<d, n>>] + 1 /\ ready[<<d, n>>] \in Nat
  BY <1>1 DEF Publish, TypeOK
<1>3. \A m \in Messages : ready[m] > 0 => ready'[m] > 0
  BY <1>1, <1>2 DEF Publish, TypeOK
<1> QED  BY <1>1, <1>2, <1>3 DEF Attended

\* What a step leaves in the record of w.
LEMMA CloseEffect ==
  ASSUME TypeOK, NEW w \in Workers, NEW pc, NEW s, NEW r, Close(w, pc, s, r)
  PROVE  /\ job' = [job EXCEPT ![w] = job'[w]]
         /\ job'[w].pc = pc /\ job'[w].doc = job[w].doc
         /\ job'[w].tries = job[w].tries
         /\ job'[w].target = s /\ job'[w].recorded = r
BY DEF TypeOK, Close, Idle

LEMMA GotoEffect ==
  ASSUME TypeOK, NEW w \in Workers, NEW pc,
         \/ Goto(w, pc)
         \/ job' = [job EXCEPT ![w].pc = pc, ![w].dropped = chunks[job[w].doc]]
  PROVE  /\ job' = [job EXCEPT ![w] = job'[w]]
         /\ job'[w].pc = pc /\ job'[w].doc = job[w].doc
         /\ job'[w].seen = job[w].seen
BY DEF TypeOK, Goto, Job

LEMMA SeenEffect ==
  ASSUME TypeOK, NEW w \in Workers, NEW pc, NEW s,
         job' = [job EXCEPT ![w].pc = pc, ![w].seen = s]
  PROVE  /\ job' = [job EXCEPT ![w] = job'[w]]
         /\ job'[w].pc = pc /\ job'[w].doc = job[w].doc
         /\ job'[w].seen = s /\ job'[w].target = job[w].target
BY DEF TypeOK, Job

LEMMA WorkerAttends ==
  ASSUME TypeOK, OpenIsAttended, NEW w \in Workers, WorkerStep(w), NEW d \in Docs
  PROVE  row'[d] \in Open => Attended(d)'
<1> USE DEF Mark, Return, Raise, store
<1>w. ASSUME WillSettle(w, d)'  PROVE Attended(d)'
  BY <1>w DEF Attended
<1>d. job[w].pc # "idle" => job[w].doc \in Docs
  BY DEF TypeOK
<1>t. job[w].target \in Written
  BY DEF TypeOK, Job
<1>1. CASE SetStatusGet(w)
  <2>1. CASE row[job[w].doc] = "NONE"
    <3>1. AfterMark(w) /\ UNCHANGED <<row, ready, req, lost>>
      BY <1>1, <2>1 DEF SetStatusGet
    <3>2. job' = [job EXCEPT ![w] = job'[w]]
      BY <3>1, CloseEffect DEF AfterMark
    <3>3. WillSettle(w, d) => row'[d] \notin Open
      BY <3>1, <2>1 DEF WillSettle, Open
    <3> QED  BY <3>1, <3>2, <3>3, OwnStep
  <2>2. CASE row[job[w].doc] # "NONE"
    <3>1. /\ job' = [job EXCEPT ![w].pc = "flip", ![w].seen = row[job[w].doc]]
          /\ UNCHANGED <<row, ready, req, lost>> /\ job[w].pc = "mark"
      BY <1>1, <2>2 DEF SetStatusGet
    <3>2. WillSettle(w, d) /\ row'[d] \in Open => WillSettle(w, d)'
      <4>1. /\ job'[w].pc = "flip" /\ job'[w].doc = job[w].doc
            /\ job'[w].seen = row[job[w].doc] /\ job'[w].target = job[w].target
        BY <3>1, SeenEffect
      <4>2. WillSettle(w, d) /\ row'[d] \in Open => row[job[w].doc] \in Open
        BY <3>1 DEF WillSettle
      <4> QED  BY <4>1, <4>2, <1>t DEF WillSettle, Open, Written
    <3> QED  BY <3>1, <3>2, <1>w, SeenEffect, OwnStep
  <2> QED  BY <2>1, <2>2
<1>2. CASE SetStatusCommit(w)
  <2>1. /\ job' = [job EXCEPT ![w] = job'[w]]
        /\ job'[w].doc = job[w].doc
        /\ job[w].target = "PROCESSING" => job'[w].pc = "load"
        /\ UNCHANGED <<ready, req, lost>>
    BY <1>2, CloseEffect DEF SetStatusCommit, AfterMark
  <2>2. row[d] \in Open => row'[d] \in Open \/ job[w].doc = d
    BY <1>2 DEF SetStatusCommit, FlipStatus, TypeOK
  <2>3. row'[d] \in Open => row'[d] = row[d] \/ (job[w].target = "PROCESSING" /\ job[w].doc = d)
    BY <1>2, <1>t DEF SetStatusCommit, FlipStatus, Open, Written, TypeOK
  <2>4. WillSettle(w, d) /\ row'[d] \in Open => job[w].target = "PROCESSING"
    BY <1>2, <1>d, <1>t
       DEF SetStatusCommit, FlipStatus, WillSettle, Open, Written, TypeOK
  <2>5. job[w].target = "PROCESSING" /\ job[w].doc = d => WillSettle(w, d)'
    BY <2>1 DEF WillSettle
  <2>6. WillSettle(w, d) => job[w].doc = d
    BY DEF WillSettle
  <2> QED  BY <2>1, <2>3, <2>4, <2>5, <2>6, <1>w, OwnStep
<1>3. CASE SetStatusRaises(w)
  <2>1. WillSettle(w, d) => WillSettle(w, d)'
    BY <1>3, CloseEffect DEF SetStatusRaises, WillSettle
  <2> QED  BY <1>3, <2>1, <1>w, CloseEffect, OwnStep DEF SetStatusRaises
<1>4. CASE Load(w)
  <2>1. CASE row[job[w].doc] = "NONE"
    <3>1. WillSettle(w, d) => row'[d] \notin Open
      BY <1>4, <2>1 DEF Load, WillSettle, Open
    <3> QED  BY <1>4, <2>1, <3>1, CloseEffect, OwnStep DEF Load
  <2>2. CASE row[job[w].doc] # "NONE"
    <3>1. job' = [job EXCEPT ![w].pc = "fetch", ![w].seen = row[job[w].doc]]
      BY <1>4, <2>2 DEF Load
    <3>2. WillSettle(w, d) /\ row'[d] \in Open => WillSettle(w, d)'
      <4>1. /\ job'[w].pc = "fetch" /\ job'[w].doc = job[w].doc
            /\ job'[w].seen = row[job[w].doc]
        BY <3>1 DEF TypeOK, Job
      <4>2. WillSettle(w, d) /\ row'[d] \in Open
              => row[job[w].doc] # "INDEXED" /\ job[w].doc = d
        BY <1>4 DEF Load, WillSettle, Open
      <4> QED  BY <4>1, <4>2 DEF WillSettle
    <3> QED  BY <1>4, <3>1, <3>2, <1>w, SeenEffect, OwnStep DEF Load
  <2> QED  BY <2>1, <2>2
<1>5. CASE Fetch(w)
  <2>1. WillSettle(w, d) => WillSettle(w, d)'
    BY <1>5, CloseEffect, GotoEffect DEF Fetch, WillSettle
  <2> QED  BY <1>5, <2>1, <1>w, CloseEffect, GotoEffect, OwnStep DEF Fetch
<1>6. CASE DropOldChunks(w)
  <2>1. WillSettle(w, d) => WillSettle(w, d)'
    BY <1>6, GotoEffect DEF DropOldChunks, WillSettle
  <2> QED  BY <1>6, <2>1, <1>w, GotoEffect, OwnStep DEF DropOldChunks
<1>7. CASE LockOldChunks(w)
  <2>1. WillSettle(w, d) => WillSettle(w, d)'
    BY <1>7, GotoEffect DEF LockOldChunks, WillSettle
  <2> QED  BY <1>7, <2>1, <1>w, GotoEffect, OwnStep DEF LockOldChunks
<1>8. CASE Commit(w)
  <2>1. row'[d] \in Open => row'[d] = row[d]
    BY <1>8 DEF Commit, PersistChunks, Open, TypeOK
  <2>2. WillSettle(w, d) => row'[d] \notin Open
    BY <1>8 DEF Commit, PersistChunks, WillSettle, Open, TypeOK
  <2> QED  BY <1>8, <2>1, <2>2, CloseEffect, OwnStep DEF Commit
<1>9. CASE Fails(w)
  <2>1. job[w].doc = d => WillSettle(w, d)'
    BY <1>9, CloseEffect DEF Fails, WillSettle
  <2>2. WillSettle(w, d) => job[w].doc = d
    BY DEF WillSettle
  <2> QED  BY <1>9, <2>1, <2>2, <1>w, CloseEffect, OwnStep DEF Fails
<1>10. CASE Retry(w)
  <2>1. job[w].doc \in Docs /\ job[w].tries + 1 \in 0 .. MaxRetries
    BY <1>10, BoundsAssumption DEF Retry, TypeOK, Job
  <2>2. WillSettle(w, d) => Attended(d)'
    BY <1>10, <2>1, PublishAttends DEF Retry, WillSettle
  <2>3. \A m \in Messages : ready[m] > 0 => ready'[m] > 0
    BY <1>10, <2>1, PublishAttends DEF Retry
  <2> QED  BY <1>10, <2>2, <2>3, CloseEffect, OwnStep DEF Retry
<1>11. CASE GiveUp(w)
  <2>1. WillSettle(w, d) => Attended(d)'
    BY <1>11, BoundsAssumption DEF GiveUp, WillSettle, Attended
  <2> QED  BY <1>11, <2>1, CloseEffect, OwnStep DEF GiveUp
<1>12. CASE Ack(w)
  <2>1. ~WillSettle(w, d)
    BY <1>12 DEF Ack, WillSettle
  <2>2. job' = [job EXCEPT ![w] = job'[w]]
    BY <1>12 DEF Ack, TypeOK
  <2> QED  BY <1>12, <2>1, <2>2, OwnStep DEF Ack
<1>13. CASE Timeout(w)
  <2>1. job[w].doc = d => WillSettle(w, d)'
    BY <1>13, CloseEffect DEF Timeout, WillSettle
  <2>2. job[w].doc # d => row'[d] = row[d]
    BY <1>13, <1>d DEF Timeout, Running, CutShort, FlipStatus, PersistChunks, TypeOK
  <2>3. WillSettle(w, d) => job[w].doc = d
    BY DEF WillSettle
  <2> QED  BY <1>13, <2>1, <2>2, <2>3, <1>w, CloseEffect, OwnStep
              DEF Timeout, CutShort
<1> QED  BY <1>1, <1>2, <1>3, <1>4, <1>5, <1>6, <1>7, <1>8, <1>9,
            <1>10, <1>11, <1>12, <1>13 DEF WorkerStep

LEMMA InitAttended == Init => OpenIsAttended
BY DEF Init, OpenIsAttended, Open

LEMMA NextAttended == TypeOK /\ OpenIsAttended /\ [Next]_vars => OpenIsAttended'
<1> SUFFICES ASSUME TypeOK, OpenIsAttended, [Next]_vars,
                    NEW d \in Docs, row'[d] \in Open
             PROVE  Attended(d)'
  BY DEF OpenIsAttended
<1> USE DEF store
<1>1. ASSUME NEW q \in Requests, RequestStep(q)
      PROVE  Attended(d)'
  <2>0. /\ \A p \in Requests : p # q => req'[p] = req[p]
        /\ req[q].at = "committed" \/ UNCHANGED <<ready, lost>>
        /\ UNCHANGED job
    BY <1>1 DEF RequestStep, UploadCommit, RechunkCommit, DeleteCommit,
                RequestFails, Dispatch, DispatchLost, Advance, TypeOK
  <2>1. CASE UploadCommit(q) \/ RechunkCommit(q)
    <3>1. req'[q].at = "committed" /\ req'[q].doc = req[q].doc
      BY <2>1 DEF UploadCommit, RechunkCommit, Advance, TypeOK, Req
    <3>2. CASE req[q].doc = d
      BY <3>1, <3>2 DEF Attended
    <3>3. CASE req[q].doc # d
      <4>1. row[d] \in Open /\ UNCHANGED <<ready, lost>>
        BY <2>1, <3>3 DEF UploadCommit, RechunkCommit, TypeOK
      <4> QED  BY <2>0, <3>3, <4>1 DEF OpenIsAttended, Attended, WillSettle
    <3> QED  BY <3>2, <3>3
  <2>2. CASE DeleteCommit(q) \/ RequestFails(q)
    <3>1. row[d] \in Open /\ req[q].at # "committed" /\ UNCHANGED <<ready, lost>>
      BY <2>2 DEF DeleteCommit, RequestFails, Open, TypeOK
    <3> QED  BY <2>0, <3>1 DEF OpenIsAttended, Attended, WillSettle
  <2>3. CASE Dispatch(q)
    <3>1. req[q].doc \in Docs /\ 0 \in 0 .. MaxRetries
      BY <2>3, BoundsAssumption DEF Dispatch, TypeOK
    <3>2. \A m \in Messages : ready[m] > 0 => ready'[m] > 0
      BY <2>3, <3>1, PublishAttends DEF Dispatch
    <3>3. CASE req[q].doc = d
      BY <2>3, <3>1, <3>3, PublishAttends DEF Dispatch
    <3>4. CASE req[q].doc # d
      <4>1. row[d] \in Open /\ UNCHANGED lost
        BY <2>3 DEF Dispatch
      <4> QED  BY <2>0, <3>2, <3>4, <4>1 DEF OpenIsAttended, Attended, WillSettle
    <3> QED  BY <3>3, <3>4
  <2>4. CASE DispatchLost(q)
    <3>1. row[d] \in Open /\ lost' = lost \cup {req[q].doc} /\ UNCHANGED ready
      BY <2>4 DEF DispatchLost
    <3> QED  BY <2>0, <3>1 DEF OpenIsAttended, Attended, WillSettle
  <2> QED  BY <1>1, <2>1, <2>2, <2>3, <2>4 DEF RequestStep
<1>2. ASSUME NEW q \in Requests, NEW c \in Docs,
             UploadStore(q, c) \/ RechunkLoad(q, c) \/ DeleteObject(q, c)
      PROVE  Attended(d)'
  <2>1. /\ \A p \in Requests : p # q => req'[p] = req[p]
        /\ req[q].at = "new" /\ UNCHANGED <<row, ready, job, lost>>
    BY <1>2 DEF UploadStore, RechunkLoad, DeleteObject, Begin, TypeOK
  <2> QED  BY <2>1 DEF OpenIsAttended, Attended, WillSettle
<1>3. ASSUME NEW w \in Workers, NEW m \in Messages, Deliver(w, m)
      PROVE  Attended(d)'
  <2>1. /\ row[d] \in Open /\ UNCHANGED <<req, lost>>
        /\ \A v \in Workers : v # w => job'[v] = job[v]
        /\ job'[w].pc = "mark" /\ job'[w].doc = m[1]
        /\ ~WillSettle(w, d)
        /\ \A k \in Messages : k # m => ready'[k] = ready[k]
    BY <1>3 DEF Deliver, Idle, TypeOK, WillSettle
  <2>2. CASE m[1] = d
    BY <2>1, <2>2 DEF Attended, WillSettle
  <2>3. CASE m[1] # d
    <3>1. Attended(d)
      BY <2>1 DEF OpenIsAttended
    <3>2. ASSUME NEW v \in Workers, WillSettle(v, d)  PROVE WillSettle(v, d)'
      BY <2>1, <3>2 DEF WillSettle
    <3> QED  BY <2>1, <2>3, <3>1, <3>2 DEF Attended
  <2> QED  BY <2>2, <2>3
<1>4. ASSUME NEW w \in Workers, WorkerStep(w)
      PROVE  Attended(d)'
  BY <1>4, WorkerAttends
<1>5. ASSUME NEW w \in Workers, WorkerDies(w)
      PROVE  Attended(d)'
  <2>1. job[w].doc \in Docs /\ job[w].tries \in 0 .. MaxRetries
    BY <1>5 DEF WorkerDies, TypeOK, Job
  <2>2. \A m \in Messages : ready[m] > 0 => ready'[m] > 0
    BY <1>5, <2>1, PublishAttends DEF WorkerDies
  <2>3. CASE job[w].doc = d
    BY <1>5, <2>1, <2>3, PublishAttends DEF WorkerDies
  <2>4. CASE job[w].doc # d
    <3>1. row'[d] = row[d] /\ ~WillSettle(w, d)
      BY <1>5, <2>1, <2>4
         DEF WorkerDies, CutShort, FlipStatus, PersistChunks, TypeOK, WillSettle
    <3>2. job' = [job EXCEPT ![w] = job'[w]]
      BY <1>5 DEF WorkerDies, TypeOK
    <3> QED  BY <1>5, <2>2, <3>1, <3>2, OwnStep DEF WorkerDies, CutShort
  <2> QED  BY <2>3, <2>4
<1>6. ASSUME NEW w \in Workers, PoolProcessDies(w)
      PROVE  Attended(d)'
  <2>1. job[w].doc \in Docs
    BY <1>6 DEF PoolProcessDies, TypeOK
  <2>2. CASE job[w].doc = d
    BY <1>6, <2>2 DEF PoolProcessDies, Attended
  <2>3. CASE job[w].doc # d
    <3>1. row'[d] = row[d] /\ ~WillSettle(w, d)
      BY <1>6, <2>1, <2>3
         DEF PoolProcessDies, CutShort, FlipStatus, PersistChunks, TypeOK, WillSettle
    <3>2. job' = [job EXCEPT ![w] = job'[w]]
      BY <1>6 DEF PoolProcessDies, TypeOK
    <3> QED  BY <1>6, <3>1, <3>2, OwnStep DEF PoolProcessDies, CutShort
  <2> QED  BY <2>2, <2>3
<1>7. ASSUME NEW w \in Workers, ConnectionLost(w)
      PROVE  Attended(d)'
  <2>1. /\ job' = [job EXCEPT ![w] = job'[w]] /\ job'[w].doc = job[w].doc
        /\ job'[w].pc = "mark" \/ (job'[w].pc = "raised" /\ ~job'[w].recorded)
    BY <1>7, CloseEffect DEF ConnectionLost, Mark, Raise
  <2>2. job[w].doc = d => WillSettle(w, d)'
    BY <2>1 DEF WillSettle
  <2>3. job[w].doc # d => row'[d] = row[d] /\ ~WillSettle(w, d)
    BY <1>7 DEF ConnectionLost, CutShort, FlipStatus, PersistChunks, TypeOK, WillSettle
  <2>4. WillSettle(w, d)' => Attended(d)'
    BY DEF Attended
  <2> QED  BY <1>7, <2>1, <2>2, <2>3, <2>4, OwnStep DEF ConnectionLost, CutShort
<1>8. ASSUME NEW w \in Workers, BrokerLost(w)
      PROVE  Attended(d)'
  <2>1. job[w].doc \in Docs /\ job[w].tries \in 0 .. MaxRetries
    BY <1>8 DEF BrokerLost, TypeOK, Job
  <2>2. \A m \in Messages : ready[m] > 0 => ready'[m] > 0
    BY <1>8, <2>1, PublishAttends DEF BrokerLost
  <2>3. row[d] \in Open /\ UNCHANGED <<job, req, lost>>
    BY <1>8 DEF BrokerLost
  <2> QED  BY <2>2, <2>3 DEF OpenIsAttended, Attended, WillSettle
<1>9. CASE UNCHANGED vars
  BY <1>9 DEF vars, OpenIsAttended, Attended, WillSettle
<1> QED  BY <1>1, <1>2, <1>3, <1>4, <1>5, <1>6, <1>7, <1>8, <1>9 DEF Next, Fault

\* An attended document is not quiet, so an open one that is quiet is lost.
LEMMA AttendedNotQuiet == TypeOK /\ OpenIsAttended => StrandedOnlyWhenLost
<1> SUFFICES ASSUME TypeOK, OpenIsAttended, NEW d \in Docs, Quiet(d),
                    row[d] \in Open
             PROVE  d \in lost
  BY DEF StrandedOnlyWhenLost
<1>1. \A m \in Messages : m[1] = d => ~(ready[m] > 0)
  BY DEF Quiet
<1> QED  BY <1>1 DEF OpenIsAttended, Attended, WillSettle, Quiet

\* Whoever leaves a document open leaves somebody behind who will settle it, or a
\* recorded loss (upload_document, request_rechunk, _process_document).
THEOREM AlwaysAttended == Spec => []OpenIsAttended
<1>1. TypeOK /\ OpenIsAttended /\ [Next]_vars => TypeOK' /\ OpenIsAttended'
  BY NextType, NextAttended
<1>2. Init => TypeOK /\ OpenIsAttended
  BY InitType, InitAttended
<1> QED  BY <1>1, <1>2, PTL DEF Spec

\* However attempts, re-chunks, deletes, retries, redeliveries and deaths
\* interleave, a document that is left at PENDING or PROCESSING with nobody
\* working on it is one of the cases of `lost`.
THEOREM NeverStranded == Spec => []StrandedOnlyWhenLost
<1>1. TypeOK /\ OpenIsAttended /\ [Next]_vars => TypeOK' /\ OpenIsAttended'
  BY NextType, NextAttended
<1>2. Init => TypeOK /\ OpenIsAttended
  BY InitType, InitAttended
<1>3. TypeOK /\ OpenIsAttended => StrandedOnlyWhenLost
  BY AttendedNotQuiet
<1> QED  BY <1>1, <1>2, <1>3, PTL DEF Spec

-----------------------------------------------------------------------------
(***************************************************************************)
(* Status and chunks move together.                                        *)
(***************************************************************************)

\* What one step may do to a document: write a status other than INDEXED,
\* replace the chunks and write INDEXED, or remove everything.
ContentStep(d) ==
  \/ chunks'[d] = chunks[d] /\ (row'[d] = row[d] \/ row'[d] \in Status \ {"INDEXED"})
  \/ d \notin Blank /\ row'[d] # "NONE" /\ chunks'[d] # {}
  \/ d \in Blank /\ row'[d] # "NONE"
  \/ d \in Blank /\ row'[d] = row[d] /\ chunks'[d] \subseteq chunks[d]
  \/ row'[d] = "NONE" /\ chunks'[d] = {}

LEMMA EffectContent ==
  ASSUME TypeOK, NEW w \in Workers, job[w].pc # "idle", NEW d \in Docs
  PROVE  /\ CanFlip(w) /\ FlipStatus(w) /\ UNCHANGED chunks => ContentStep(d)
         /\ CanPersist(w) /\ PersistChunks(w) => ContentStep(d)
         /\ CutShort(w) => ContentStep(d)
<1>1. job[w].doc \in Docs /\ job[w].target \in Status \ {"INDEXED"}
  BY DEF TypeOK, Job, Written, Status
<1>2. CanFlip(w) /\ FlipStatus(w) /\ UNCHANGED chunks => ContentStep(d)
  BY <1>1 DEF FlipStatus, ContentStep, TypeOK
<1>3. ASSUME CanPersist(w), PersistChunks(w)  PROVE ContentStep(d)
  <2>1. CASE d # job[w].doc
    BY <1>1, <1>3, <2>1 DEF PersistChunks, ContentStep, TypeOK
  <2>2. CASE d = job[w].doc
    <3>1. /\ row'[d] = IF job[w].seen = "INDEXED" THEN row[d] ELSE "INDEXED"
          /\ chunks'[d] = (chunks[d] \ job[w].dropped)
                            \cup (IF d \in Blank THEN {} ELSE {version[d] + 1})
      BY <1>3, <2>2 DEF PersistChunks, TypeOK
    <3> QED  BY <1>3, <2>2, <3>1 DEF CanPersist, ContentStep
  <2> QED  BY <2>1, <2>2
<1>4. CutShort(w) => ContentStep(d)
  BY <1>2, <1>3 DEF CutShort, ContentStep
<1> QED  BY <1>2, <1>3, <1>4

LEMMA NextContent ==
  ASSUME TypeOK, [Next]_vars, NEW d \in Docs
  PROVE  ContentStep(d)
<1> USE DEF store
<1>0. UNCHANGED <<row, chunks>> => ContentStep(d)
  BY DEF ContentStep
<1>1. ASSUME NEW q \in Requests, RequestStep(q)
      PROVE  ContentStep(d)
  <2>1. CASE UploadCommit(q) \/ RechunkCommit(q)
    BY <2>1 DEF UploadCommit, RechunkCommit, ContentStep, Status, TypeOK
  <2>2. CASE DeleteCommit(q)
    BY <2>2 DEF DeleteCommit, ContentStep, TypeOK
  <2>3. CASE RequestFails(q) \/ Dispatch(q) \/ DispatchLost(q)
    BY <2>3, <1>0 DEF RequestFails, Dispatch, DispatchLost
  <2> QED  BY <1>1, <2>1, <2>2, <2>3 DEF RequestStep
<1>2. ASSUME NEW q \in Requests, NEW c \in Docs,
             UploadStore(q, c) \/ RechunkLoad(q, c) \/ DeleteObject(q, c)
      PROVE  ContentStep(d)
  BY <1>2, <1>0 DEF UploadStore, RechunkLoad, DeleteObject
<1>3. ASSUME NEW w \in Workers, NEW m \in Messages, Deliver(w, m)
      PROVE  ContentStep(d)
  BY <1>3, <1>0 DEF Deliver
<1>4. ASSUME NEW w \in Workers, WorkerStep(w)
      PROVE  ContentStep(d)
  <2>1. CASE SetStatusCommit(w)
    BY <2>1, EffectContent DEF SetStatusCommit
  <2>2. CASE Commit(w)
    BY <2>2, EffectContent DEF Commit
  <2>3. CASE Timeout(w)
    BY <2>3, EffectContent DEF Timeout, Running
  <2>4. CASE UNCHANGED store
    BY <2>4, <1>0
  <2> QED  BY <1>4, <2>1, <2>2, <2>3, <2>4
              DEF WorkerStep, SetStatusGet, SetStatusRaises, Load, Fetch,
                  DropOldChunks, LockOldChunks, Fails, Retry, GiveUp, Ack
<1>5. ASSUME NEW w \in Workers, Fault(w)
      PROVE  ContentStep(d)
  BY <1>5, <1>0, EffectContent DEF Fault, WorkerDies, BrokerLost, PoolProcessDies, ConnectionLost
<1>6. CASE UNCHANGED vars
  BY <1>6, <1>0 DEF vars
<1> QED  BY <1>1, <1>2, <1>3, <1>4, <1>5, <1>6 DEF Next

LEMMA ContentInductive ==
  /\ Init => ContentFitsStatus
  /\ TypeOK /\ ContentFitsStatus /\ [Next]_vars => ContentFitsStatus'
<1>1. Init => ContentFitsStatus
  BY DEF Init, ContentFitsStatus
<1>2. ASSUME TypeOK, ContentFitsStatus, [Next]_vars
      PROVE  ContentFitsStatus'
  BY <1>2, NextContent, BlankAssumption
     DEF ContentStep, ContentFitsStatus, Status
<1> QED  BY <1>1, <1>2

\* A document shown as INDEXED has content, in any overlap of tasks, re-chunks,
\* deletes and deaths, and content belongs to a document that exists
\* (_process_document).
THEOREM IndexedMeansContent == Spec => []ContentFitsStatus
<1>1. TypeOK /\ ContentFitsStatus /\ [Next]_vars => TypeOK' /\ ContentFitsStatus'
  BY NextType, ContentInductive
<1>2. Init => TypeOK /\ ContentFitsStatus
  BY InitType, ContentInductive
<1> QED  BY <1>1, <1>2, PTL DEF Spec

\* While a document exists it never loses the content it had: a re-chunk
\* replaces it in one commit.
THEOREM ContentStays == Spec => ContentNeverLost
<1>1. TypeOK /\ [Next]_vars =>
        [\A d \in Docs \ Blank :
           chunks[d] # {} /\ row'[d] # "NONE" => chunks'[d] # {}]_vars
  BY NextContent DEF ContentStep
<1> QED  BY <1>1, TypeCorrect, PTL DEF Spec, ContentNeverLost

-----------------------------------------------------------------------------
(***************************************************************************)
(* Who is listed has a file.  A request keeps its operation once begun, an *)
(* upload that has stored its file finds it there, or somebody who saw the *)
(* document in the list has asked for its deletion.                        *)
(***************************************************************************)

Asked(d) == \E q \in Requests : req[q].doc = d /\ req[q].op = "delete"

FileInv ==
  /\ \A q \in Requests : req[q].at = "new" => req[q].op = "none"
  /\ \A q \in Requests, d \in Docs :
        req[q].at = "stored" /\ req[q].doc = d => object[d] \/ Asked(d)
  /\ ListedIsStored

LEMMA InitFile == Init => FileInv
BY DEF Init, FileInv, ListedIsStored

\* A worker writes to rows that exist, and leaves files and requests alone.
LEMMA WorkerFile ==
  ASSUME TypeOK, FileInv, NEW w \in Workers,
         WorkerStep(w) \/ Fault(w)
  PROVE  FileInv'
<1>1. UNCHANGED <<object, req>>
  BY DEF WorkerStep, SetStatusGet, SetStatusCommit, SetStatusRaises, Load, Fetch, DropOldChunks,
         LockOldChunks, Commit, Fails, Retry, GiveUp, Ack, Timeout, Fault, WorkerDies,
         BrokerLost, PoolProcessDies, ConnectionLost, CutShort, store
<1>2. CanFlip(w) /\ FlipStatus(w) => \A d \in Docs : row'[d] # "NONE" => row[d] # "NONE"
  BY DEF CanFlip, FlipStatus, TypeOK
<1>3. CanPersist(w) /\ PersistChunks(w) => \A d \in Docs : row'[d] # "NONE" => row[d] # "NONE"
  BY DEF CanPersist, PersistChunks, TypeOK
<1>4. \A d \in Docs : row'[d] # "NONE" => row[d] # "NONE"
  <2>1. CASE UNCHANGED row
    BY <2>1
  <2>2. CASE SetStatusCommit(w)
    BY <1>2, <2>2 DEF SetStatusCommit
  <2>3. CASE Commit(w)
    BY <1>3, <2>3 DEF Commit
  <2>4. CASE Timeout(w) \/ Fault(w)
    BY <1>2, <1>3, <2>4
       DEF Timeout, Fault, WorkerDies, BrokerLost, PoolProcessDies, ConnectionLost, CutShort, store
  <2> QED  BY <2>1, <2>2, <2>3, <2>4
              DEF WorkerStep, SetStatusGet, SetStatusRaises, Load, Fetch, DropOldChunks,
                  LockOldChunks, Fails, Retry, GiveUp, Ack, store
<1> QED  BY <1>1, <1>4 DEF FileInv, ListedIsStored, Asked

LEMMA NextFile == TypeOK /\ FileInv /\ [Next]_vars => FileInv'
<1> SUFFICES ASSUME TypeOK, FileInv, [Next]_vars PROVE FileInv'
  OBVIOUS
<1>a. /\ req \in [Requests -> Req] /\ object \in [Docs -> BOOLEAN]
      /\ row \in [Docs -> Status \cup {"NONE"}]
      /\ \A q \in Requests : req[q].at # "new" => req[q].doc \in Docs
  BY DEF TypeOK
<1>b. \A q \in Requests : req[q].at = "new" => req[q].op = "none"
  BY DEF FileInv
<1>1. ASSUME NEW q \in Requests, RequestStep(q) PROVE FileInv'
  <2>1. /\ req[q].at # "new" /\ req'[q].at \in {"committed", "done"}
        /\ req'[q].op = req[q].op /\ req'[q].doc = req[q].doc
        /\ \A p \in Requests \ {q} : req'[p] = req[p]
        /\ UNCHANGED object
    BY <1>1, <1>a DEF RequestStep, UploadCommit, RechunkCommit, DeleteCommit, RequestFails,
         Dispatch, DispatchLost, Advance, Req, store
  <2>2. \A d \in Docs : Asked(d)' <=> Asked(d)
    BY <2>1 DEF Asked
  <2>3. \A d \in Docs : row'[d] # "NONE" =>
           row[d] # "NONE" \/ (req[q].at = "stored" /\ d = req[q].doc)
    BY <1>1, <1>a DEF RequestStep, UploadCommit, RechunkCommit, DeleteCommit, RequestFails,
         Dispatch, DispatchLost, store
  <2>4. \A p \in Requests : req'[p].at = "new" => req'[p].op = "none"
    BY <1>b, <2>1
  <2>5. \A p \in Requests, x \in Docs :
           req'[p].at = "stored" /\ req'[p].doc = x => object'[x] \/ Asked(x)'
    BY <1>a, <2>1, <2>2 DEF FileInv
  <2>6. ListedIsStored'
    BY <2>1, <2>2, <2>3 DEF FileInv, ListedIsStored, Asked
  <2> QED  BY <2>4, <2>5, <2>6 DEF FileInv
<1>2. ASSUME NEW q \in Requests, NEW d \in Docs,
             UploadStore(q, d) \/ RechunkLoad(q, d) \/ DeleteObject(q, d)
      PROVE  FileInv'
  <2>1. /\ req[q].op = "none" /\ req'[q].doc = d /\ req'[q].at # "new"
        /\ \A p \in Requests \ {q} : req'[p] = req[p]
        /\ UNCHANGED row
    BY <1>2, <1>a, <1>b DEF UploadStore, RechunkLoad, DeleteObject, Begin, store
  <2>2. \A x \in Docs : Asked(x) => Asked(x)'
    BY <2>1 DEF Asked
  <2>3. \A x \in Docs : object[x] => object'[x] \/ Asked(x)'
    <3>1. CASE UploadStore(q, d) \/ RechunkLoad(q, d)
      BY <3>1, <1>a DEF UploadStore, RechunkLoad, store
    <3>2. CASE DeleteObject(q, d)
      <4>1. req'[q].op = "delete"
        BY <3>2, <1>a DEF DeleteObject, Begin
      <4>2. Asked(d)'
        BY <2>1, <4>1 DEF Asked
      <4>3. \A x \in Docs \ {d} : object'[x] = object[x]
        BY <3>2, <1>a DEF DeleteObject
      <4> QED  BY <4>2, <4>3
    <3> QED  BY <1>2, <3>1, <3>2
  <2>4. req'[q].at = "stored" => object'[d]
    BY <1>2, <1>a DEF UploadStore, RechunkLoad, DeleteObject, Begin
  <2>5. \A p \in Requests : req'[p].at = "new" => req'[p].op = "none"
    BY <1>b, <2>1
  <2>6. \A p \in Requests, x \in Docs :
           req'[p].at = "stored" /\ req'[p].doc = x => object'[x] \/ Asked(x)'
    BY <1>a, <2>1, <2>2, <2>3, <2>4 DEF FileInv
  <2>7. ListedIsStored'
    BY <2>1, <2>2, <2>3 DEF FileInv, ListedIsStored, Asked
  <2> QED  BY <2>5, <2>6, <2>7 DEF FileInv
<1>3. ASSUME NEW w \in Workers, NEW m \in Messages, Deliver(w, m) PROVE FileInv'
  BY <1>3 DEF Deliver, store, FileInv, ListedIsStored, Asked
<1>4. ASSUME NEW w \in Workers, WorkerStep(w) \/ Fault(w) PROVE FileInv'
  BY <1>4, WorkerFile
<1>5. CASE UNCHANGED vars
  BY <1>5 DEF vars, FileInv, ListedIsStored, Asked
<1> QED  BY <1>1, <1>2, <1>3, <1>4, <1>5 DEF Next

\* A listed document has its file until somebody asks for its deletion: upload
\* stores before it commits, and only delete removes (DocumentService).
THEOREM ListedHasFile == Spec => []ListedIsStored
<1>1. Init => TypeOK /\ FileInv
  BY InitType, InitFile
<1>2. TypeOK /\ FileInv /\ [Next]_vars => TypeOK' /\ FileInv'
  BY NextType, NextFile
<1>3. FileInv => ListedIsStored
  BY DEF FileInv
<1> QED  BY <1>1, <1>2, <1>3, PTL DEF Spec

-----------------------------------------------------------------------------
(***************************************************************************)
(* Chunk sets do not pile up.  Every set that is stored can be laid at the *)
(* door of a different process: before a process writes its next set, it   *)
(* has read, and then deletes, the one that it wrote last.                 *)
(***************************************************************************)

\* f tells who wrote each chunk set of d.
Wrote(d, f) ==
  /\ \A a, b \in chunks[d] : f[a] = f[b] => a = b
  /\ \A c \in chunks[d], w \in Workers :
        f[c] = w /\ Replacing(w, d) => c \in job[w].dropped

PileOK(d) ==
  /\ \A c \in chunks[d] : c <= version[d]
  /\ \E f \in [chunks[d] -> Workers] : Wrote(d, f)

PileInv == \A d \in Docs : PileOK(d)

\* What one step may do: begin to replace what is stored, remove it, or replace it.
SnapshotStep(d) ==
  \A w \in Workers :
    Replacing(w, d)' =>
      \/ Replacing(w, d) /\ job'[w].dropped = job[w].dropped
      \/ /\ job'[w].dropped = chunks[d]
         /\ d \in overlapped' \/ \A v \in Workers \ {w} : ~Replacing(v, d)'

ReplaceStep(w, d) ==
  /\ Replacing(w, d) /\ ~Replacing(w, d)'
  /\ \A v \in Workers \ {w} : job'[v] = job[v]
  /\ version'[d] = version[d] + 1
  /\ chunks'[d] \subseteq (chunks[d] \ job[w].dropped) \cup {version[d] + 1}

PileStep(d) ==
  \/ chunks'[d] = chunks[d] /\ version'[d] = version[d] /\ SnapshotStep(d)
  \/ chunks'[d] = {} /\ UNCHANGED job
  \/ \E w \in Workers : ReplaceStep(w, d)

LEMMA PileStepKeeps ==
  ASSUME TypeOK, NEW d \in Docs, PileOK(d), PileStep(d)
  PROVE  PileOK(d)'
<1>1. PICK f \in [chunks[d] -> Workers] : Wrote(d, f)
  BY DEF PileOK
<1>2. chunks[d] \subseteq Nat /\ version[d] \in Nat
  BY DEF TypeOK
<1>3. CASE chunks'[d] = chunks[d] /\ version'[d] = version[d] /\ SnapshotStep(d)
  <2>1. Wrote(d, f)'
    BY <1>1, <1>3 DEF Wrote, SnapshotStep
  <2>2. \A c \in chunks'[d] : c <= version'[d]
    BY <1>3 DEF PileOK
  <2>3. f \in [chunks'[d] -> Workers]
    BY <1>1, <1>3
  <2> QED  BY <2>1, <2>2, <2>3 DEF PileOK
<1>4. CASE chunks'[d] = {} /\ UNCHANGED job
  <2>1. PICK g : g = [c \in {} |-> d]
    OBVIOUS
  <2>2. g \in [chunks'[d] -> Workers] /\ Wrote(d, g)'
    BY <1>4, <2>1 DEF Wrote
  <2> QED  BY <1>4, <2>2 DEF PileOK
<1>5. ASSUME NEW w \in Workers, ReplaceStep(w, d)
      PROVE  PileOK(d)'
  <2>1. PICK n \in Nat : n = version[d] + 1 /\ n \notin chunks[d] /\ version'[d] = n
    BY <1>2, <1>5 DEF PileOK, ReplaceStep
  <2>2. \A c \in chunks'[d] : c = n \/ (c \in chunks[d] /\ c \notin job[w].dropped)
    BY <1>5, <2>1 DEF ReplaceStep
  <2>3. \A c \in chunks'[d] : c <= version'[d]
    <3>1. \A c \in chunks[d] : c <= n
      BY <1>2, <2>1 DEF PileOK
    <3> QED  BY <2>1, <2>2, <3>1
  <2>4. \A c \in chunks'[d] : c # n => f[c] \in Workers \ {w}
    BY <1>1, <1>5, <2>2 DEF Wrote, ReplaceStep
  <2>g. PICK g : g = [c \in chunks'[d] |-> IF c = n THEN w ELSE f[c]]
    OBVIOUS
  <2>5. g \in [chunks'[d] -> Workers]
    BY <2>4, <2>g
  <2>6. \A a, b \in chunks'[d] : g[a] = g[b] => a = b
    BY <1>1, <2>2, <2>4, <2>g DEF Wrote
  <2>7. ASSUME NEW c \in chunks'[d], NEW v \in Workers, g[c] = v, Replacing(v, d)'
        PROVE  c \in job'[v].dropped
    <3>1. v # w /\ job'[v] = job[v] /\ Replacing(v, d)
      BY <1>5, <2>7 DEF ReplaceStep, Replacing
    <3>2. c # n /\ f[c] = v /\ c \in chunks[d]
      BY <2>2, <2>7, <2>g, <3>1
    <3> QED  BY <1>1, <3>1, <3>2 DEF Wrote
  <2>8. Wrote(d, g)'
    BY <2>6, <2>7 DEF Wrote
  <2> QED  BY <2>3, <2>5, <2>8 DEF PileOK
<1> QED  BY <1>3, <1>4, <1>5 DEF PileStep

\* A step of w that is not about to replace anything, or goes on doing so.
LEMMA OthersSnapshot ==
  ASSUME TypeOK, NEW w \in Workers, NEW d \in Docs, job' = [job EXCEPT ![w] = job'[w]],
         \/ job'[w].pc \notin {"lock", "commit"}
         \/ Replacing(w, d)' => Replacing(w, d) /\ job'[w].dropped = job[w].dropped
         \/ Replacing(w, d)' => /\ job'[w].dropped = chunks[d]
                                /\ \/ d \in overlapped'
                                   \/ \A v \in Workers \ {w} : ~Replacing(v, d),
         UNCHANGED <<chunks, version>>
  PROVE  PileStep(d)
<1>1. \A v \in Workers \ {w} : job'[v] = job[v]
  BY DEF TypeOK
<1> QED  BY <1>1 DEF PileStep, SnapshotStep, Replacing

\* A transaction of w that ends, with its commit or without.
LEMMA EffectPile ==
  ASSUME TypeOK, NEW w \in Workers, NEW d \in Docs,
         job' = [job EXCEPT ![w] = job'[w]], job'[w].pc \notin {"lock", "commit"}
  PROVE  /\ job[w].pc = "commit" /\ PersistChunks(w) => PileStep(d)
         /\ CutShort(w) => PileStep(d)
<1>1. \A v \in Workers \ {w} : job'[v] = job[v]
  BY DEF TypeOK
<1>2. ASSUME job[w].pc = "commit", PersistChunks(w)  PROVE PileStep(d)
  <2>1. job[w].doc \in Docs
    BY <1>2 DEF TypeOK
  <2>2. CASE d # job[w].doc
    <3>1. chunks'[d] = chunks[d] /\ version'[d] = version[d]
      BY <1>2, <2>1, <2>2 DEF PersistChunks, TypeOK
    <3> QED  BY <1>1, <3>1 DEF PileStep, SnapshotStep, Replacing
  <2>3. CASE d = job[w].doc
    <3>1. /\ version'[d] = version[d] + 1
          /\ chunks'[d] = (chunks[d] \ job[w].dropped)
                            \cup (IF d \in Blank THEN {} ELSE {version[d] + 1})
      BY <1>2, <2>1, <2>3 DEF PersistChunks, TypeOK
    <3>2. chunks'[d] \subseteq (chunks[d] \ job[w].dropped) \cup {version[d] + 1}
      BY <3>1
    <3>3. Replacing(w, d) /\ ~Replacing(w, d)'
      BY <1>2, <2>3 DEF Replacing
    <3> QED  BY <1>1, <3>1, <3>2, <3>3 DEF PileStep, ReplaceStep
  <2> QED  BY <2>2, <2>3
<1>3. UNCHANGED <<chunks, version>> => PileStep(d)
  BY OthersSnapshot
<1> QED  BY <1>2, <1>3 DEF CutShort

LEMMA NextPile ==
  ASSUME TypeOK, [Next]_vars, NEW d \in Docs
  PROVE  PileStep(d)
<1> USE DEF store, Mark, Return, Raise
<1>0. UNCHANGED <<chunks, version, job>> => PileStep(d)
  BY DEF PileStep, SnapshotStep, Replacing
<1>1. ASSUME NEW q \in Requests, RequestStep(q)
      PROVE  PileStep(d)
  <2>1. CASE DeleteCommit(q)
    BY <2>1, <1>0 DEF DeleteCommit, PileStep, SnapshotStep, Replacing, TypeOK
  <2> QED  BY <1>1, <1>0, <2>1
           DEF RequestStep, UploadCommit, RechunkCommit, RequestFails, Dispatch, DispatchLost
<1>2. ASSUME NEW q \in Requests, NEW c \in Docs,
             UploadStore(q, c) \/ RechunkLoad(q, c) \/ DeleteObject(q, c)
      PROVE  PileStep(d)
  BY <1>2, <1>0 DEF UploadStore, RechunkLoad, DeleteObject
<1>3. ASSUME NEW w \in Workers, NEW m \in Messages, Deliver(w, m)
      PROVE  PileStep(d)
  <2>1. job' = [job EXCEPT ![w] = job'[w]] /\ job'[w].pc = "mark"
    BY <1>3 DEF Deliver, TypeOK, Idle
  <2> QED  BY <1>3, <2>1, OthersSnapshot DEF Deliver
<1>4. ASSUME NEW w \in Workers, NEW pc \in JobPC \ {"lock", "commit"}, NEW s, NEW r,
             Close(w, pc, s, r)
      PROVE  job' = [job EXCEPT ![w] = job'[w]] /\ job'[w].pc \notin {"lock", "commit"}
  BY <1>4, CloseEffect
<1>5. ASSUME NEW w \in Workers, job' = [job EXCEPT ![w] = Idle]
      PROVE  job' = [job EXCEPT ![w] = job'[w]] /\ job'[w].pc \notin {"lock", "commit"}
  BY <1>5 DEF TypeOK, Idle
<1>6. ASSUME NEW w \in Workers, WorkerStep(w)
      PROVE  PileStep(d)
  <2> DEFINE Leaves == job' = [job EXCEPT ![w] = job'[w]] /\ job'[w].pc \notin {"lock", "commit"}
  <2>m. AfterMark(w) => Leaves
    BY <1>4 DEF AfterMark, JobPC
  <2>1. CASE SetStatusGet(w) \/ Load(w)
    <3>1. ASSUME NEW pc \in {"flip", "fetch"},
                 job' = [job EXCEPT ![w].pc = pc, ![w].seen = row[job[w].doc]]
          PROVE  Leaves
      BY <3>1, SeenEffect
    <3>2. Leaves
      BY <2>1, <2>m, <3>1, <1>4 DEF SetStatusGet, Load, JobPC
    <3> QED  BY <2>1, <3>2, OthersSnapshot DEF SetStatusGet, Load
  <2>2. CASE SetStatusCommit(w)
    BY <2>2, <2>m, OthersSnapshot DEF SetStatusCommit
  <2>3. CASE Fetch(w)
    <3>1. ASSUME Goto(w, "drop")  PROVE Leaves
      BY <3>1 DEF Goto, TypeOK, Job
    <3>2. Leaves
      BY <2>3, <3>1, <1>4 DEF Fetch, JobPC
    <3> QED  BY <2>3, <3>2, OthersSnapshot DEF Fetch
  <2>4. CASE SetStatusRaises(w) \/ Fails(w) \/ Retry(w) \/ GiveUp(w)
    <3>1. Leaves
      BY <2>4, <1>4 DEF SetStatusRaises, Fails, Retry, GiveUp, JobPC
    <3> QED  BY <2>4, <3>1, OthersSnapshot DEF SetStatusRaises, Fails, Retry, GiveUp
  <2>5. CASE Ack(w)
    BY <2>5, <1>5, OthersSnapshot DEF Ack
  <2>6. CASE DropOldChunks(w)
    <3>1. /\ job' = [job EXCEPT ![w] = job'[w]]
          /\ job'[w].doc = job[w].doc /\ job'[w].dropped = chunks[job[w].doc]
      BY <2>6 DEF DropOldChunks, TypeOK, Job
    <3>2. Replacing(w, d)' =>
            /\ job'[w].dropped = chunks[d]
            /\ d \in overlapped' \/ \A v \in Workers \ {w} : ~Replacing(v, d)
      BY <2>6, <3>1 DEF DropOldChunks, Replacing
    <3> QED  BY <2>6, <3>1, <3>2, OthersSnapshot DEF DropOldChunks
  <2>7. CASE LockOldChunks(w)
    <3>1. /\ job' = [job EXCEPT ![w] = job'[w]] /\ job[w].pc = "lock"
          /\ job'[w].doc = job[w].doc /\ job'[w].dropped = job[w].dropped
      BY <2>7 DEF LockOldChunks, Goto, TypeOK, Job
    <3>2. Replacing(w, d)' => Replacing(w, d) /\ job'[w].dropped = job[w].dropped
      BY <3>1 DEF Replacing
    <3> QED  BY <2>7, <3>1, <3>2, OthersSnapshot DEF LockOldChunks
  <2>8. CASE Commit(w)
    <3>1. Leaves /\ job[w].pc = "commit" /\ PersistChunks(w)
      BY <2>8, <1>4 DEF Commit, JobPC
    <3> QED  BY <3>1, EffectPile
  <2>9. CASE Timeout(w)
    <3>1. Leaves /\ CutShort(w)
      BY <2>9, <1>4 DEF Timeout, JobPC
    <3> QED  BY <3>1, EffectPile
  <2> QED  BY <1>6, <2>1, <2>2, <2>3, <2>4, <2>5, <2>6, <2>7, <2>8, <2>9 DEF WorkerStep
<1>7. ASSUME NEW w \in Workers, Fault(w)
      PROVE  PileStep(d)
  <2>1. CASE BrokerLost(w)
    BY <2>1, <1>0 DEF BrokerLost, store
  <2>2. CASE WorkerDies(w) \/ PoolProcessDies(w) \/ ConnectionLost(w)
    <3>1. CutShort(w)
      BY <2>2 DEF WorkerDies, PoolProcessDies, ConnectionLost
    <3>2. job' = [job EXCEPT ![w] = job'[w]] /\ job'[w].pc \notin {"lock", "commit"}
      BY <2>2, <1>4, <1>5 DEF WorkerDies, PoolProcessDies, ConnectionLost, JobPC
    <3> QED  BY <3>1, <3>2, EffectPile
  <2> QED  BY <1>7, <2>1, <2>2 DEF Fault
<1>8. CASE UNCHANGED vars
  BY <1>8, <1>0 DEF vars
<1> QED  BY <1>1, <1>2, <1>3, <1>6, <1>7, <1>8 DEF Next

LEMMA PileBounds ==
  ASSUME PileInv  PROVE NoChunkPileUp
<1> SUFFICES ASSUME NEW d \in Docs  PROVE Cardinality(chunks[d]) <= Cardinality(Workers)
  BY DEF NoChunkPileUp
<1>1. PICK f \in [chunks[d] -> Workers] : Wrote(d, f)
  BY DEF PileInv, PileOK
<1>2. f \in Injection(chunks[d], Workers)
  BY <1>1 DEF Wrote, Injection, IsInjective
<1> QED  BY <1>2, FS_Injection, WorkersAssumption

\* However often a document is re-chunked, retried or redelivered, it has at most
\* as many chunk sets as there are processes (the DELETE of _process_document).
THEOREM ChunksDoNotPileUp == Spec => []NoChunkPileUp
<1>1. Init => PileInv
  <2> SUFFICES ASSUME Init, NEW d \in Docs  PROVE PileOK(d)
    BY DEF PileInv
  <2>1. chunks[d] = {}
    BY DEF Init
  <2> DEFINE g == [c \in {} |-> d]
  <2>2. g \in [chunks[d] -> Workers] /\ Wrote(d, g)
    BY <2>1 DEF Wrote
  <2> QED  BY <2>1, <2>2 DEF PileOK
<1>2. TypeOK /\ PileInv /\ [Next]_vars => TypeOK' /\ PileInv'
  BY NextType, NextPile, PileStepKeeps DEF PileInv
<1> QED  BY <1>1, <1>2, InitType, PileBounds, PTL DEF Spec

-----------------------------------------------------------------------------
(***************************************************************************)
(* Without an overlap, one set: whoever is replacing a document is alone,  *)
(* and has seen all that is stored.                                        *)
(***************************************************************************)

AloneOK(d) ==
  d \notin overlapped =>
    /\ \A v, w \in Workers : Replacing(v, d) /\ Replacing(w, d) => v = w
    /\ \A w \in Workers : Replacing(w, d) => chunks[d] \subseteq job[w].dropped
    /\ \A a, b \in chunks[d] : a = b

AloneInv == \A d \in Docs : AloneOK(d)

LEMMA OverlapsStay == [Next]_vars => overlapped \subseteq overlapped'
BY DEF Next, vars, RequestStep, UploadCommit, RechunkCommit, DeleteCommit, RequestFails, Dispatch,
       DispatchLost, UploadStore, RechunkLoad, DeleteObject, Deliver, WorkerStep, SetStatusGet,
       SetStatusCommit, SetStatusRaises, Load, Fetch, DropOldChunks, LockOldChunks, Commit, Fails,
       Retry, GiveUp, Ack, Timeout, Fault, WorkerDies, BrokerLost, PoolProcessDies, ConnectionLost

LEMMA PileStepAlone ==
  ASSUME TypeOK, NEW d \in Docs, AloneOK(d), PileStep(d), overlapped \subseteq overlapped'
  PROVE  AloneOK(d)'
<1> SUFFICES ASSUME d \notin overlapped'
             PROVE  /\ \A v, w \in Workers : Replacing(v, d)' /\ Replacing(w, d)' => v = w
                    /\ \A w \in Workers : Replacing(w, d)' => chunks'[d] \subseteq job'[w].dropped
                    /\ \A a, b \in chunks'[d] : a = b
  BY DEF AloneOK
<1>a. /\ \A v, w \in Workers : Replacing(v, d) /\ Replacing(w, d) => v = w
      /\ \A w \in Workers : Replacing(w, d) => chunks[d] \subseteq job[w].dropped
      /\ \A a, b \in chunks[d] : a = b
  BY DEF AloneOK
<1>1. CASE chunks'[d] = chunks[d] /\ version'[d] = version[d] /\ SnapshotStep(d)
  BY <1>a, <1>1 DEF SnapshotStep
<1>2. CASE chunks'[d] = {} /\ UNCHANGED job
  BY <1>a, <1>2 DEF Replacing
<1>3. ASSUME NEW w \in Workers, ReplaceStep(w, d)
      PROVE  /\ \A v \in Workers : ~Replacing(v, d)'
             /\ \A a, b \in chunks'[d] : a = b
  <2>1. \A v \in Workers : ~Replacing(v, d)'
    BY <1>a, <1>3 DEF ReplaceStep, Replacing
  <2>2. chunks'[d] \subseteq {version[d] + 1}
    BY <1>a, <1>3 DEF ReplaceStep
  <2> QED  BY <2>1, <2>2
<1> QED  BY <1>1, <1>2, <1>3 DEF PileStep

\* A document has more than one chunk set only if two processes were replacing it
\* at the same time, both past the DELETE and neither committed (_process_document).
THEOREM OneSetUnlessOverlap == Spec => []SingleUnlessOverlap
<1>1. Init => AloneInv
  BY DEF Init, AloneInv, AloneOK, Replacing, Idle
<1>2. TypeOK /\ AloneInv /\ [Next]_vars => TypeOK' /\ AloneInv'
  BY NextType, NextPile, PileStepAlone, OverlapsStay DEF AloneInv
<1>3. AloneInv => SingleUnlessOverlap
  <2> SUFFICES ASSUME AloneInv, NEW d \in Docs \ overlapped  PROVE Cardinality(chunks[d]) <= 1
    BY DEF SingleUnlessOverlap
  <2>1. \A a, b \in chunks[d] : a = b
    BY DEF AloneInv, AloneOK
  <2>2. chunks[d] = {} \/ \E a : chunks[d] = {a}
    BY <2>1
  <2>3. Cardinality(chunks[d]) \in {0, 1}
    BY <2>2, FS_EmptySet, FS_Singleton
  <2> QED  BY <2>3
<1> QED  BY <1>1, <1>2, <1>3, InitType, PTL DEF Spec

OneProcess == \A v, w \in Workers : v = w

\* A single worker process suffices for the promise of the comment on the DELETE:
\* one set at a time, whatever is retried, redelivered, cut off or deleted.
THEOREM OneProcessOneSet == OneProcess /\ Spec => []SingleChunkSet
<1> DEFINE None == OneProcess /\ overlapped = {}
<1>1. OneProcess /\ Init => None
  BY DEF Init
<1>2. None /\ [Next]_vars => None'
  BY DEF OneProcess, Next, vars, RequestStep, UploadCommit, RechunkCommit, DeleteCommit,
         RequestFails, Dispatch, DispatchLost, UploadStore, RechunkLoad, DeleteObject, Deliver,
         WorkerStep, SetStatusGet, SetStatusCommit, SetStatusRaises, Load, Fetch, DropOldChunks,
         LockOldChunks, Commit, Fails, Retry, GiveUp, Ack, Timeout, Fault, WorkerDies,
         BrokerLost, PoolProcessDies, ConnectionLost
<1>3. None /\ SingleUnlessOverlap => SingleChunkSet
  BY DEF SingleUnlessOverlap, SingleChunkSet
<1> HIDE DEF None
<1> QED  BY <1>1, <1>2, <1>3, OneSetUnlessOverlap, PTL DEF Spec

-----------------------------------------------------------------------------
(***************************************************************************)
(* Who may have to do with a document: nobody before its upload commits,   *)
(* and there is one upload of it.                                          *)
(***************************************************************************)

Born(d) == \E q \in Requests :
             req[q].doc = d /\ req[q].op = "upload" /\ req[q].at \in {"committed", "done"}

Nobodys(d) ==
  /\ row[d] = "NONE"
  /\ \A w \in Workers  : job[w].pc # "idle" => job[w].doc # d
  /\ \A m \in Messages : m[1] = d => ready[m] = 0

Shape(q) ==
  /\ req[q].at = "new"       => req[q].op = "none"
  /\ req[q].at = "stored"    => req[q].op = "upload"
  /\ req[q].at = "loaded"    => req[q].op = "rechunk"
  /\ req[q].at = "removed"   => req[q].op = "delete"
  /\ req[q].at = "committed" => req[q].op \in {"upload", "rechunk"}
  /\ \A d \in Docs : req[q].op \in {"rechunk", "delete"} /\ req[q].doc = d => Born(d)

OneUpload ==
  \A p, q \in Requests :
    req[p].op = "upload" /\ req[q].op = "upload" /\ req[p].doc = req[q].doc => p = q

BirthInv ==
  /\ \A q \in Requests : Shape(q)
  /\ OneUpload
  /\ \A d \in Docs : ~Born(d) => Nobodys(d)

\* What a step of the request q does to the requests.
LEMMA RequestFrame ==
  ASSUME TypeOK, NEW q \in Requests, RequestStep(q)
  PROVE  /\ \A p \in Requests \ {q} : req'[p] = req[p]
         /\ req'[q].op = req[q].op /\ req'[q].doc = req[q].doc /\ req[q].doc \in Docs
         /\ \/ req[q].at \in {"stored", "loaded"} /\ req'[q].at = "committed"
            \/ req[q].at # "new" /\ req'[q].at = "done"
         /\ UNCHANGED <<job, faults>>
BY DEF RequestStep, UploadCommit, RechunkCommit, DeleteCommit, RequestFails, Dispatch,
       DispatchLost, Advance, TypeOK, Req, store

LEMMA BeginFrame ==
  ASSUME TypeOK, NEW q \in Requests, NEW d \in Docs,
         UploadStore(q, d) \/ RechunkLoad(q, d) \/ DeleteObject(q, d)
  PROVE  /\ \A p \in Requests \ {q} : req'[p] = req[p]
         /\ req[q].at = "new" /\ req'[q].doc = d
         /\ \/ /\ req'[q].op = "upload" /\ req'[q].at = "stored"
               /\ \A p \in Requests : req[p].doc # d
            \/ req'[q].op = "rechunk" /\ req'[q].at = "loaded" /\ row[d] # "NONE"
            \/ req'[q].op = "delete" /\ req'[q].at = "removed" /\ row[d] # "NONE"
         /\ UNCHANGED <<row, ready, job, faults>>
BY DEF UploadStore, RechunkLoad, DeleteObject, Begin, TypeOK, store

\* Where nothing is added for d, d stays nobody's.
LEMMA StaysNobodys ==
  ASSUME NEW d \in Docs, Nobodys(d), row'[d] \in {row[d], "NONE"},
         \A m \in Messages : m[1] = d => ready'[m] \in {ready[m], 0},
         \A w \in Workers : job'[w].pc = "idle" \/ job'[w].doc # d
                              \/ (job[w].pc # "idle" /\ job[w].doc = d)
  PROVE  Nobodys(d)'
BY DEF Nobodys

\* A step of the worker w, as far as the documents' first runs are concerned.
LEMMA StepFrame ==
  ASSUME TypeOK, NEW w \in Workers, WorkerStep(w)
  PROVE  /\ job[w].pc # "idle" /\ job[w].doc \in Docs
         /\ UNCHANGED <<req, faults>>
         /\ \A v \in Workers \ {w} : job'[v] = job[v]
         /\ job'[w].pc # "idle" => job'[w].doc = job[w].doc /\ job'[w].tries = job[w].tries
         /\ job[w].pc \in {"returned", "raised"} => job'[w].pc \in {"returned", "raised", "idle"}
         /\ \/ UNCHANGED row
            \/ /\ job[w].pc \in {"commit", "flip"}
               /\ row'[job[w].doc] \in Open \/ job'[w].pc \in {"returned", "raised"}
         /\ \A d \in Docs \ {job[w].doc} : row'[d] = row[d]
         /\ row[job[w].doc] = "NONE" => row'[job[w].doc] = "NONE"
         /\ \A d \in Docs : ready'[<<d, 0>>] = ready[<<d, 0>>]
         /\ \/ UNCHANGED ready
            \/ /\ job[w].pc = "raised"
               /\ \A d \in Docs \ {job[w].doc}, n \in 1 .. MaxRetries :
                     ready'[<<d, n>>] = ready[<<d, n>>]
<1> USE DEF Mark, Return, Raise, store
<1>a. /\ job \in [Workers -> Job] /\ ready \in [Messages -> Nat]
      /\ row \in [Docs -> Status \cup {"NONE"}]
      /\ job[w].tries \in 0 .. MaxRetries /\ job[w].target \in Written
  BY DEF TypeOK, Job
<1>0. job[w].pc # "idle" /\ job[w].doc \in Docs
  BY DEF WorkerStep, SetStatusGet, SetStatusCommit, SetStatusRaises, Load, Fetch, DropOldChunks,
         LockOldChunks, Commit, Fails, Retry, GiveUp, Ack, Timeout, Running, TypeOK
<1>b. ASSUME NEW pc, NEW t, NEW r, Close(w, pc, t, r)
      PROVE  /\ \A v \in Workers \ {w} : job'[v] = job[v]
             /\ job'[w].pc = pc /\ job'[w].doc = job[w].doc /\ job'[w].tries = job[w].tries
  BY <1>a, <1>b DEF Close, Idle
<1>c. ASSUME NEW pc,
             \/ Goto(w, pc)
             \/ job' = [job EXCEPT ![w].pc = pc, ![w].seen = row[job[w].doc]]
             \/ job' = [job EXCEPT ![w].pc = pc, ![w].dropped = chunks[job[w].doc]]
      PROVE  /\ \A v \in Workers \ {w} : job'[v] = job[v]
             /\ job'[w].pc = pc /\ job'[w].doc = job[w].doc /\ job'[w].tries = job[w].tries
  BY <1>a, <1>c DEF Goto, Job
<1>d. CanFlip(w) /\ FlipStatus(w) =>
        /\ \A d \in Docs \ {job[w].doc} : row'[d] = row[d]
        /\ row[job[w].doc] = "NONE" => row'[job[w].doc] = "NONE"
        /\ UNCHANGED row \/ row'[job[w].doc] = job[w].target
  BY <1>0, <1>a DEF CanFlip, FlipStatus
<1>e. CanPersist(w) /\ PersistChunks(w) =>
        /\ \A d \in Docs \ {job[w].doc} : row'[d] = row[d]
        /\ row[job[w].doc] = "NONE" => row'[job[w].doc] = "NONE"
  BY <1>0, <1>a DEF CanPersist, PersistChunks
<1>f. AfterMark(w) =>
        /\ \A v \in Workers \ {w} : job'[v] = job[v]
        /\ job'[w].doc = job[w].doc /\ job'[w].tries = job[w].tries
        /\ job[w].target # "PROCESSING" => job'[w].pc \in {"returned", "raised"}
  BY <1>b DEF AfterMark
<1>1. CASE SetStatusGet(w) \/ Load(w)
  <2>1. /\ UNCHANGED <<row, ready, req, faults>>
        /\ job[w].pc \in {"mark", "load"}
    BY <1>1 DEF SetStatusGet, Load
  <2>2. /\ \A v \in Workers \ {w} : job'[v] = job[v]
        /\ job'[w].doc = job[w].doc /\ job'[w].tries = job[w].tries
    BY <1>1, <1>b, <1>c, <1>f DEF SetStatusGet, Load
  <2> QED  BY <1>0, <2>1, <2>2
<1>2. CASE SetStatusCommit(w)
  <2>1. UNCHANGED row \/ row'[job[w].doc] \in Open \/ job[w].target # "PROCESSING"
    BY <1>2, <1>d DEF SetStatusCommit, Open
  <2> QED  BY <1>2, <1>0, <1>d, <1>f, <2>1 DEF SetStatusCommit
<1>3. CASE SetStatusRaises(w) \/ Fails(w) \/ GiveUp(w)
  BY <1>3, <1>0, <1>b DEF SetStatusRaises, Fails, GiveUp
<1>4. CASE Fetch(w) \/ DropOldChunks(w) \/ LockOldChunks(w)
  BY <1>4, <1>0, <1>b, <1>c DEF Fetch, DropOldChunks, LockOldChunks
<1>5. CASE Commit(w)
  BY <1>5, <1>0, <1>b, <1>e DEF Commit
<1>6. CASE Timeout(w)
  BY <1>6, <1>0, <1>b, <1>d, <1>e DEF Timeout, CutShort
<1>7. CASE Ack(w)
  BY <1>7, <1>0, <1>a DEF Ack, Idle
<1>8. CASE Retry(w)
  <2>1. job[w].tries + 1 \in 1 .. MaxRetries
    BY <1>8, <1>a, BoundsAssumption DEF Retry
  <2> DEFINE k == <<job[w].doc, job[w].tries + 1>>
  <2>2. ready' = [ready EXCEPT ![k] = @ + 1]
    BY <1>8 DEF Retry, Publish
  <2>3. \A d \in Docs : <<d, 0>> # k /\ <<d, 0>> \in Messages
    BY <2>1, BoundsAssumption DEF Messages
  <2>4. \A d \in Docs \ {job[w].doc}, n \in 1 .. MaxRetries :
           <<d, n>> # k /\ <<d, n>> \in Messages
    BY BoundsAssumption DEF Messages
  <2> HIDE DEF k
  <2>5. \A d \in Docs : ready'[<<d, 0>>] = ready[<<d, 0>>]
    BY <1>a, <2>2, <2>3
  <2>6. \A d \in Docs \ {job[w].doc}, n \in 1 .. MaxRetries : ready'[<<d, n>>] = ready[<<d, n>>]
    BY <1>a, <2>2, <2>4
  <2> QED  BY <1>8, <1>0, <1>b, <2>5, <2>6 DEF Retry
<1> QED  BY <1>1, <1>2, <1>3, <1>4, <1>5, <1>6, <1>7, <1>8 DEF WorkerStep

\* A step of the worker w, in time or in a fault, stays with its document.
LEMMA WorkerFrame ==
  ASSUME TypeOK, NEW w \in Workers, WorkerStep(w) \/ Fault(w)
  PROVE  /\ job[w].pc # "idle" /\ UNCHANGED req
         /\ \A v \in Workers \ {w} : job'[v] = job[v]
         /\ job'[w].pc # "idle" => job'[w].doc = job[w].doc
         /\ \A d \in Docs \ {job[w].doc} : row'[d] = row[d]
         /\ \A m \in Messages : m[1] # job[w].doc => ready'[m] = ready[m]
<1>a. job \in [Workers -> Job] /\ ready \in [Messages -> Nat]
  BY DEF TypeOK
<1>b. ASSUME NEW d, NEW n, Publish(d, n)
      PROVE  \A m \in Messages : m[1] # d => ready'[m] = ready[m]
  <2>1. \A m \in Messages : m[1] # d => m # <<d, n>>
    OBVIOUS
  <2> QED  BY <1>a, <1>b, <2>1 DEF Publish
<1>1. CASE WorkerStep(w)
  <2>1. \A m \in Messages : m[1] # job[w].doc => ready'[m] = ready[m]
    BY <1>1, <1>b DEF WorkerStep, SetStatusGet, SetStatusCommit, SetStatusRaises, Load, Fetch,
         DropOldChunks, LockOldChunks, Commit, Fails, Retry, GiveUp, Ack, Timeout, store
  <2> QED  BY <1>1, <2>1, StepFrame
<1>2. CASE Fault(w)
  <2>1. job[w].pc # "idle" /\ CutShort(w)
    BY <1>2 DEF Fault, WorkerDies, BrokerLost, PoolProcessDies, ConnectionLost, CutShort, store
  <2>2. \A m \in Messages : m[1] # job[w].doc => ready'[m] = ready[m]
    BY <1>2, <1>b DEF Fault, WorkerDies, BrokerLost, PoolProcessDies, ConnectionLost
  <2>3. UNCHANGED req /\ \A d \in Docs \ {job[w].doc} : row'[d] = row[d]
    BY <2>1 DEF CutShort, FlipStatus, PersistChunks, TypeOK
  <2>4. /\ \A v \in Workers \ {w} : job'[v] = job[v]
        /\ job'[w].pc # "idle" => job'[w].doc = job[w].doc
    <3>1. CASE job' = [job EXCEPT ![w] = Idle]
      BY <1>a, <3>1 DEF Idle
    <3>2. CASE ConnectionLost(w)
      <4>1. job' = [job EXCEPT ![w] = job'[w]] /\ job'[w].doc = job[w].doc
        BY <3>2, CloseEffect DEF ConnectionLost, Mark, Raise
      <4> QED  BY <1>a, <4>1
    <3>3. CASE UNCHANGED job
      BY <3>3
    <3> QED  BY <1>2, <3>1, <3>2, <3>3 DEF Fault, WorkerDies, BrokerLost, PoolProcessDies
  <2> QED  BY <2>1, <2>2, <2>3, <2>4
<1> QED  BY <1>1, <1>2

LEMMA InitBirth == Init => BirthInv
<1> SUFFICES ASSUME Init PROVE BirthInv
  OBVIOUS
<1>1. \A q \in Requests : Shape(q)
  BY DEF Init, Shape
<1>2. OneUpload
  BY DEF Init, OneUpload
<1>3. \A d \in Docs : Nobodys(d)
  BY DEF Init, Nobodys, Idle
<1> QED  BY <1>1, <1>2, <1>3 DEF BirthInv

LEMMA NextBirth == TypeOK /\ BirthInv /\ [Next]_vars => BirthInv'
<1> SUFFICES ASSUME TypeOK, BirthInv, [Next]_vars PROVE BirthInv'
  OBVIOUS
<1>a. /\ \A q \in Requests : Shape(q)
      /\ OneUpload
      /\ \A d \in Docs : ~Born(d) => Nobodys(d)
      /\ ready \in [Messages -> Nat]
  BY DEF BirthInv, TypeOK
<1>r. ASSUME UNCHANGED req
      PROVE  /\ \A q \in Requests : Shape(q)'
             /\ OneUpload'
             /\ \A d \in Docs : Born(d) <=> Born(d)'
  BY <1>a, <1>r DEF Shape, OneUpload, Born
<1>1. ASSUME NEW q \in Requests, RequestStep(q) PROVE BirthInv'
  <2>0. /\ \A p \in Requests \ {q} : req'[p] = req[p]
        /\ req'[q].op = req[q].op /\ req'[q].doc = req[q].doc /\ req[q].doc \in Docs
        /\ \/ req[q].at \in {"stored", "loaded"} /\ req'[q].at = "committed"
           \/ req[q].at # "new" /\ req'[q].at = "done"
        /\ UNCHANGED job
    BY <1>1, RequestFrame
  <2>1. \A d \in Docs : Born(d) => Born(d)'
    BY <2>0 DEF Born
  <2>2. \A p \in Requests, d \in Docs :
           req[p].op \in {"rechunk", "delete"} /\ req[p].doc = d => Born(d)'
    BY <1>a, <2>1 DEF Shape
  <2>3. \A p \in Requests : Shape(p)'
    BY <1>a, <2>0, <2>2 DEF Shape
  <2>4. OneUpload'
    BY <1>a, <2>0 DEF OneUpload
  <2>5. ASSUME NEW d \in Docs, ~Born(d)' PROVE Nobodys(d)'
    <3>1. ~Born(d) /\ Nobodys(d)
      BY <1>a, <2>1, <2>5
    <3>2. CASE UploadCommit(q)
      <4>1. req[q].doc # d
        <5>1. req'[q].at = "committed" /\ req'[q].op = "upload"
          BY <1>a, <2>0, <3>2 DEF UploadCommit, Shape, Advance, TypeOK
        <5> QED  BY <2>0, <2>5, <5>1 DEF Born
      <4>2. row'[d] = row[d] /\ UNCHANGED ready
        BY <3>2, <4>1 DEF UploadCommit, TypeOK
      <4> QED  BY <2>0, <3>1, <4>2 DEF Nobodys
    <3>3. CASE RechunkCommit(q)
      <4>1. row'[d] \in {row[d], "NONE"} /\ UNCHANGED ready
        BY <3>1, <3>3 DEF RechunkCommit, TypeOK, Nobodys
      <4> QED  BY <2>0, <3>1, <4>1 DEF Nobodys
    <3>4. CASE DeleteCommit(q)
      <4>1. row'[d] \in {row[d], "NONE"} /\ UNCHANGED ready
        BY <2>0, <3>4 DEF DeleteCommit, TypeOK
      <4> QED  BY <2>0, <3>1, <4>1 DEF Nobodys
    <3>5. CASE RequestFails(q) \/ DispatchLost(q)
      BY <2>0, <3>1, <3>5 DEF RequestFails, DispatchLost, Nobodys, store
    <3>6. CASE Dispatch(q)
      <4>1. req[q].doc # d
        <5>1. req[q].at = "committed"
          BY <3>6 DEF Dispatch
        <5> QED  BY <1>a, <3>1, <5>1 DEF Shape, Born
      <4>2. \A m \in Messages : m[1] = d => ready'[m] = ready[m]
        <5>1. \A m \in Messages : m[1] = d => m # <<req[q].doc, 0>>
          BY <4>1
        <5> QED  BY <1>a, <3>6, <5>1 DEF Dispatch, Publish
      <4> QED  BY <2>0, <3>1, <3>6, <4>2 DEF Dispatch, Nobodys, store
    <3> QED  BY <1>1, <3>2, <3>3, <3>4, <3>5, <3>6 DEF RequestStep
  <2> QED  BY <2>3, <2>4, <2>5 DEF BirthInv
<1>2. ASSUME NEW q \in Requests, NEW c \in Docs,
             UploadStore(q, c) \/ RechunkLoad(q, c) \/ DeleteObject(q, c)
      PROVE  BirthInv'
  <2>0. /\ \A p \in Requests \ {q} : req'[p] = req[p]
        /\ req[q].at = "new" /\ req'[q].doc = c
        /\ \/ /\ req'[q].op = "upload" /\ req'[q].at = "stored"
              /\ \A p \in Requests : req[p].doc # c
           \/ req'[q].op = "rechunk" /\ req'[q].at = "loaded" /\ row[c] # "NONE"
           \/ req'[q].op = "delete" /\ req'[q].at = "removed" /\ row[c] # "NONE"
        /\ UNCHANGED <<row, ready, job>>
    BY <1>2, BeginFrame
  <2>1. \A d \in Docs : Born(d) <=> Born(d)'
    BY <2>0 DEF Born
  <2>2. \A p \in Requests, d \in Docs :
           req[p].op \in {"rechunk", "delete"} /\ req[p].doc = d => Born(d)'
    BY <1>a, <2>1 DEF Shape
  <2>3. row[c] # "NONE" => Born(c)'
    BY <1>a, <2>1 DEF Nobodys
  <2>4. \A p \in Requests : Shape(p)'
    BY <1>a, <2>0, <2>2, <2>3 DEF Shape
  <2>5. OneUpload'
    BY <1>a, <2>0 DEF OneUpload
  <2>6. \A d \in Docs : ~Born(d)' => Nobodys(d)'
    BY <1>a, <2>0, <2>1 DEF Nobodys
  <2> QED  BY <2>4, <2>5, <2>6 DEF BirthInv
<1>3. ASSUME NEW w \in Workers, NEW m \in Messages, Deliver(w, m) PROVE BirthInv'
  <2>0. /\ ready[m] > 0 /\ UNCHANGED <<row, req>>
        /\ job'[w].doc = m[1]
        /\ \A v \in Workers \ {w} : job'[v] = job[v]
        /\ \A k \in Messages \ {m} : ready'[k] = ready[k]
    BY <1>3 DEF Deliver, TypeOK, Idle, store
  <2>1. ASSUME NEW d \in Docs, Nobodys(d) PROVE Nobodys(d)'
    <3>1. m[1] # d
      BY <2>0, <2>1 DEF Nobodys
    <3> QED  BY <2>0, <2>1, <3>1 DEF Nobodys
  <2> QED  BY <1>a, <1>r, <2>0, <2>1 DEF BirthInv
<1>4. ASSUME NEW w \in Workers, WorkerStep(w) \/ Fault(w) PROVE BirthInv'
  <2>0. /\ job[w].pc # "idle" /\ UNCHANGED req
        /\ \A v \in Workers \ {w} : job'[v] = job[v]
        /\ job'[w].pc # "idle" => job'[w].doc = job[w].doc
        /\ \A d \in Docs \ {job[w].doc} : row'[d] = row[d]
        /\ \A m \in Messages : m[1] # job[w].doc => ready'[m] = ready[m]
    BY <1>4, WorkerFrame
  <2>1. ASSUME NEW d \in Docs, Nobodys(d) PROVE Nobodys(d)'
    <3>1. job[w].doc # d
      BY <2>0, <2>1 DEF Nobodys
    <3> QED  BY <2>0, <2>1, <3>1 DEF Nobodys
  <2> QED  BY <1>a, <1>r, <2>0, <2>1 DEF BirthInv
<1>5. CASE UNCHANGED vars
  BY <1>a, <1>r, <1>5 DEF vars, BirthInv, Nobodys
<1> QED  BY <1>1, <1>2, <1>3, <1>4, <1>5 DEF Next

\* Who changes the status of a document is at work on it.
LEMMA AtWork ==
  ASSUME TypeOK, NEW w \in Workers, WorkerStep(w) \/ Fault(w),
         NEW d \in Docs, row'[d] # row[d]
  PROVE  /\ job[w].pc # "idle" /\ job[w].doc = d
         /\ job[w].pc \notin {"returned", "raised"}
<1>1. job[w].pc # "idle" /\ job[w].doc = d
  BY WorkerFrame
<1>2. CASE WorkerStep(w)
  BY <1>2, StepFrame
<1>3. CASE Fault(w)
  <2>1. CutShort(w)
    BY <1>3 DEF Fault, WorkerDies, BrokerLost, PoolProcessDies, ConnectionLost, CutShort, store
  <2> QED  BY <1>1, <2>1 DEF CutShort
<1> QED  BY <1>1, <1>2, <1>3

-----------------------------------------------------------------------------
(***************************************************************************)
(* A verdict is taken back only by a run that is not the first.  While     *)
(* there is no fault and no re-chunk is asked for, the first run of a      *)
(* document's task exists once: as a committed upload, as a message or as  *)
(* a delivery.  Once the document has its verdict, or the task is retried, *)
(* that run is over.                                                       *)
(***************************************************************************)

Rechunked(d) == \E q \in Requests : req[q].doc = d /\ req[q].op = "rechunk"
Committed(d) == \E q \in Requests : req[q].doc = d /\ req[q].at = "committed"
First(w, d)  == job[w].pc # "idle" /\ job[w].doc = d /\ job[w].tries = 0
Decided(d)   == row[d] \in Status \ Open

Single(d) ==
  /\ Committed(d) => ready[<<d, 0>>] = 0
  /\ Committed(d) \/ ready[<<d, 0>>] > 0 => \A w \in Workers : ~First(w, d)
  /\ ready[<<d, 0>>] <= 1
  /\ \A v, w \in Workers : First(v, d) /\ First(w, d) => v = w

Over(d) ==
  /\ ~Committed(d) /\ ready[<<d, 0>>] = 0
  /\ \A w \in Workers : First(w, d) => job[w].pc \in {"returned", "raised"}

Retried(d) ==
  \/ \E n \in 1 .. MaxRetries : ready[<<d, n>>] > 0
  \/ \E w \in Workers : job[w].pc # "idle" /\ job[w].doc = d /\ job[w].tries # 0

FirstRun(d) == Single(d) /\ (Decided(d) \/ Retried(d) => Over(d))

FirstRuns == faults = 0 => \A d \in Docs : Rechunked(d) \/ FirstRun(d)

FirstInv == TypeOK /\ BirthInv /\ FirstRuns

\* Where nothing happens to the first run of d, and d gets no verdict.
LEMMA UntouchedFirst ==
  ASSUME NEW d \in Docs, FirstRun(d), Decided(d)' => Decided(d), Committed(d)' => Committed(d),
         \A n \in 0 .. MaxRetries : ready'[<<d, n>>] = ready[<<d, n>>],
         \A w \in Workers : job'[w] = job[w] \/ (~First(w, d) /\ ~First(w, d)'
                             /\ (job'[w].pc = "idle" \/ job'[w].doc # d
                                   \/ (job'[w].doc = job[w].doc /\ job'[w].tries = job[w].tries
                                         /\ job[w].pc # "idle")))
  PROVE  FirstRun(d)'
<1>1. 0 \in 0 .. MaxRetries /\ \A n \in 1 .. MaxRetries : n \in 0 .. MaxRetries
  BY BoundsAssumption
<1>2. Single(d)'
  BY <1>1 DEF FirstRun, Single, First
<1>3. Over(d) => Over(d)'
  BY <1>1 DEF Over, First
<1>4. Retried(d)' => Retried(d)
  BY <1>1 DEF Retried
<1> QED  BY <1>2, <1>3, <1>4 DEF FirstRun

\* A document that is nobody's may have a request that is about to dispatch.
LEMMA NobodysFirst ==
  ASSUME TypeOK, NEW d \in Docs, Nobodys(d)
  PROVE  Single(d) /\ ~Retried(d) /\ ~Decided(d)
<1>1. \A n \in 0 .. MaxRetries : ready[<<d, n>>] = 0
  BY DEF Nobodys, Messages
<1>2. 0 \in 0 .. MaxRetries /\ \A n \in 1 .. MaxRetries : n \in 0 .. MaxRetries
  BY BoundsAssumption
<1>3. Single(d)
  BY <1>1, <1>2 DEF Nobodys, Single, First
<1>4. ~Retried(d)
  <2>1. \A n \in 1 .. MaxRetries : ~(ready[<<d, n>>] > 0)
    BY <1>1, <1>2
  <2> QED  BY <2>1 DEF Nobodys, Retried
<1> QED  BY <1>3, <1>4 DEF Nobodys, Decided, Status

LEMMA InitFirst == Init => FirstInv
<1> SUFFICES ASSUME Init, NEW d \in Docs PROVE FirstRun(d)
  BY InitType, InitBirth DEF FirstInv, FirstRuns
<1>1. Nobodys(d)
  BY DEF Init, Nobodys, Idle
<1> QED  BY <1>1, InitType, NobodysFirst DEF FirstRun

\* One step of a worker: the argument for the document it works on.
LEMMA WorkerFirst ==
  ASSUME TypeOK, NEW w \in Workers, WorkerStep(w), NEW d \in Docs, FirstRun(d)
  PROVE  FirstRun(d)'
<1> DEFINE x == job[w].doc
<1>0. /\ job[w].pc # "idle" /\ x \in Docs /\ UNCHANGED req
      /\ \A v \in Workers \ {w} : job'[v] = job[v]
      /\ job'[w].pc # "idle" => job'[w].doc = x /\ job'[w].tries = job[w].tries
      /\ job[w].pc \in {"returned", "raised"} => job'[w].pc \in {"returned", "raised", "idle"}
      /\ \/ UNCHANGED row
         \/ /\ job[w].pc \in {"commit", "flip"}
            /\ row'[x] \in Open \/ job'[w].pc \in {"returned", "raised"}
      /\ \A y \in Docs \ {x} : row'[y] = row[y]
      /\ \A y \in Docs : ready'[<<y, 0>>] = ready[<<y, 0>>]
      /\ \/ UNCHANGED ready
         \/ /\ job[w].pc = "raised"
            /\ \A y \in Docs \ {x}, n \in 1 .. MaxRetries : ready'[<<y, n>>] = ready[<<y, n>>]
  BY StepFrame
<1>c. Committed(d) <=> Committed(d)'
  BY <1>0 DEF Committed
<1>1. CASE x # d
  <2>1. \A n \in 0 .. MaxRetries : ready'[<<d, n>>] = ready[<<d, n>>]
    <3>1. \A n \in 0 .. MaxRetries : n = 0 \/ n \in 1 .. MaxRetries
      BY BoundsAssumption
    <3> QED  BY <1>0, <1>1, <3>1
  <2>2. Decided(d)' => Decided(d)
    BY <1>0, <1>1 DEF Decided
  <2> QED  BY <1>0, <1>1, <1>c, <2>1, <2>2, UntouchedFirst DEF First
<1>2. CASE x = d
  <2>1. \A v \in Workers : First(v, d)' => First(v, d)
    BY <1>0, <1>2 DEF First
  <2>2. Single(d)'
    BY <1>0, <1>c, <2>1 DEF FirstRun, Single
  <2>3. Over(d) => Over(d)'
    BY <1>0, <1>c, <2>1 DEF Over, First
  <2>4. CASE ~First(w, d)
    <3>1. job[w].tries # 0
      BY <1>0, <1>2, <2>4 DEF First
    <3>2. Over(d)
      BY <1>0, <1>2, <3>1 DEF FirstRun, Retried
    <3> QED  BY <2>2, <2>3, <3>2 DEF FirstRun
  <2>5. CASE First(w, d)
    <3>1. /\ ~Committed(d) /\ ready[<<d, 0>>] = 0
          /\ \A v \in Workers : First(v, d) => v = w
      <4>1. ready[<<d, 0>>] \in Nat
        BY BoundsAssumption DEF TypeOK, Messages
      <4> QED  BY <2>5, <4>1 DEF FirstRun, Single
    <3>2. CASE job'[w].pc \in {"returned", "raised", "idle"}
      <4>1. Over(d)'
        BY <1>0, <1>c, <2>1, <3>1, <3>2 DEF Over, First
      <4> QED  BY <2>2, <4>1 DEF FirstRun
    <3>3. CASE job'[w].pc \notin {"returned", "raised", "idle"}
      <4>1. UNCHANGED ready /\ (UNCHANGED row \/ row'[d] \in Open)
        BY <1>0, <1>2, <3>3
      <4>2. Retried(d)' => Retried(d)
        BY <1>0, <4>1 DEF Retried
      <4>3. Decided(d)' => Decided(d)
        BY <4>1 DEF Decided
      <4> QED  BY <2>2, <2>3, <4>2, <4>3 DEF FirstRun
    <3> QED  BY <3>2, <3>3
  <2> QED  BY <2>4, <2>5
<1> QED  BY <1>1, <1>2

\* One step of a request: the argument for the document it is about.
LEMMA RequestFirst ==
  ASSUME TypeOK, BirthInv, NEW q \in Requests, RequestStep(q),
         NEW d \in Docs, ~Rechunked(d), FirstRun(d)
  PROVE  FirstRun(d)'
<1>0. /\ \A p \in Requests \ {q} : req'[p] = req[p]
      /\ req'[q].op = req[q].op /\ req'[q].doc = req[q].doc /\ req[q].doc \in Docs
      /\ \/ req[q].at \in {"stored", "loaded"} /\ req'[q].at = "committed"
         \/ req[q].at # "new" /\ req'[q].at = "done"
      /\ UNCHANGED job
  BY RequestFrame
<1>a. /\ \A p \in Requests : Shape(p)
      /\ OneUpload
      /\ ~Born(d) => Nobodys(d)
      /\ ready \in [Messages -> Nat]
      /\ 0 \in 0 .. MaxRetries
      /\ \A n \in 0 .. MaxRetries : <<d, n>> \in Messages
      /\ \A n \in 1 .. MaxRetries : n \in 0 .. MaxRetries
  BY BoundsAssumption DEF BirthInv, TypeOK, Messages
<1>b. ASSUME UNCHANGED ready, Decided(d)' => Decided(d), Committed(d)' => Committed(d)
      PROVE  FirstRun(d)'
  BY <1>0, <1>b, UntouchedFirst
<1>1. CASE UploadCommit(q)
  <2>0. req[q].at = "stored" /\ req[q].op = "upload" /\ UNCHANGED ready
    BY <1>a, <1>1 DEF UploadCommit, Shape
  <2>1. CASE req[q].doc = d
    <3>1. ~Born(d)
      BY <1>a, <2>0, <2>1 DEF Born, OneUpload
    <3>2. Single(d) /\ ~Retried(d) /\ ready[<<d, 0>>] = 0 /\ \A w \in Workers : ~First(w, d)
      BY <1>a, <3>1, NobodysFirst DEF Nobodys, First
    <3>3. Single(d)' /\ ~Retried(d)'
      BY <1>0, <2>0, <3>2 DEF Single, First, Retried
    <3>4. ~Decided(d)'
      BY <1>1, <2>1 DEF UploadCommit, TypeOK, Decided, Open
    <3> QED  BY <3>3, <3>4 DEF FirstRun
  <2>2. CASE req[q].doc # d
    <3>1. Committed(d)' => Committed(d)
      BY <1>0, <2>2 DEF Committed
    <3>2. Decided(d)' => Decided(d)
      BY <1>1, <2>2 DEF UploadCommit, TypeOK, Decided
    <3> QED  BY <1>b, <2>0, <3>1, <3>2
  <2> QED  BY <2>1, <2>2
<1>2. CASE RechunkCommit(q)
  <2>1. req[q].doc # d
    BY <1>a, <1>2 DEF RechunkCommit, Shape, Rechunked
  <2>2. Committed(d)' => Committed(d)
    BY <1>0, <2>1 DEF Committed
  <2>3. (Decided(d)' => Decided(d)) /\ UNCHANGED ready
    BY <1>2, <2>1 DEF RechunkCommit, TypeOK, Decided
  <2> QED  BY <1>b, <2>2, <2>3
<1>3. CASE DeleteCommit(q) \/ RequestFails(q) \/ DispatchLost(q)
  <2>0. req'[q].at = "done"
    BY <1>3 DEF DeleteCommit, RequestFails, DispatchLost, Advance, TypeOK, Req
  <2>1. Committed(d)' => Committed(d)
    BY <1>0, <2>0 DEF Committed
  <2>2. (Decided(d)' => Decided(d)) /\ UNCHANGED ready
    BY <1>0, <1>3 DEF DeleteCommit, RequestFails, DispatchLost, TypeOK, Decided, Status, store
  <2> QED  BY <1>b, <2>1, <2>2
<1>4. CASE Dispatch(q)
  <2> DEFINE k == <<req[q].doc, 0>>
  <2>0. /\ ready' = [ready EXCEPT ![k] = @ + 1] /\ k \in Messages
        /\ req[q].at = "committed" /\ req'[q].at = "done" /\ UNCHANGED row
    BY <1>0, <1>4, BoundsAssumption DEF Dispatch, Publish, Messages, Advance, TypeOK, store
  <2>1. \A n \in 0 .. MaxRetries : req[q].doc # d \/ n # 0 => <<d, n>> # k
    OBVIOUS
  <2> HIDE DEF k
  <2>2. /\ \A n \in 0 .. MaxRetries : req[q].doc # d \/ n # 0 => ready'[<<d, n>>] = ready[<<d, n>>]
        /\ ready'[k] = ready[k] + 1
    BY <1>a, <2>0, <2>1
  <2>3. Committed(d)' => Committed(d)
    BY <1>0, <2>0 DEF Committed
  <2>4. CASE req[q].doc # d
    <3>1. Decided(d)' => Decided(d)
      BY <2>0 DEF Decided
    <3> QED  BY <1>0, <2>2, <2>3, <2>4, <3>1, UntouchedFirst
  <2>5. CASE req[q].doc = d
    <3>1. Committed(d)
      BY <2>0, <2>5 DEF Committed
    <3>2. ~Committed(d)'
      <4>1. ASSUME NEW p \in Requests, req[p].doc = d, req[p].at = "committed"  PROVE p = q
        <5>1. req[p].op = "upload" /\ req[q].op = "upload"
          BY <1>a, <2>0, <2>5, <4>1 DEF Shape, Rechunked
        <5> QED  BY <1>a, <2>5, <4>1, <5>1 DEF OneUpload
      <4> QED  BY <1>0, <2>0, <4>1 DEF Committed
    <3>3. ready[<<d, 0>>] = 0 /\ ~Decided(d) /\ ~Retried(d) /\ \A w \in Workers : ~First(w, d)
      BY <3>1 DEF FirstRun, Single, Over
    <3>4. ready'[<<d, 0>>] = 1
      BY <2>2, <2>5, <3>3 DEF k
    <3>5. Single(d)'
      BY <1>0, <3>2, <3>3, <3>4 DEF Single, First
    <3>6. ~Retried(d)'
      BY <1>0, <1>a, <2>2, <3>3 DEF Retried
    <3> QED  BY <2>0, <3>3, <3>5, <3>6 DEF FirstRun, Decided
  <2> QED  BY <2>4, <2>5
<1> QED  BY <1>1, <1>2, <1>3, <1>4 DEF RequestStep

LEMMA NextFirst == FirstInv /\ [Next]_vars => FirstInv'
<1> SUFFICES ASSUME FirstInv, [Next]_vars, faults' = 0, NEW d \in Docs, ~Rechunked(d)'
             PROVE  FirstRun(d)'
  BY NextType, NextBirth DEF FirstInv, FirstRuns
<1>a. /\ TypeOK /\ BirthInv /\ ready \in [Messages -> Nat] /\ faults \in Nat
      /\ 0 \in 0 .. MaxRetries
      /\ \A n \in 0 .. MaxRetries : <<d, n>> \in Messages
      /\ \A n \in 1 .. MaxRetries : n \in 0 .. MaxRetries
  BY BoundsAssumption DEF FirstInv, TypeOK, Messages
<1>b. ASSUME faults = 0, ~Rechunked(d) PROVE FirstRun(d)
  BY <1>b DEF FirstInv, FirstRuns
<1>1. ASSUME NEW q \in Requests, RequestStep(q) PROVE FirstRun(d)'
  <2>1. faults = 0 /\ ~Rechunked(d)
    BY <1>a, <1>1, RequestFrame DEF Rechunked
  <2> QED  BY <1>a, <1>b, <1>1, <2>1, RequestFirst
<1>2. ASSUME NEW q \in Requests, NEW c \in Docs,
             UploadStore(q, c) \/ RechunkLoad(q, c) \/ DeleteObject(q, c)
      PROVE  FirstRun(d)'
  <2>0. /\ \A p \in Requests \ {q} : req'[p] = req[p]
        /\ req[q].at = "new" /\ req'[q].at # "committed"
        /\ UNCHANGED <<row, ready, job, faults>>
    BY <1>a, <1>2, BeginFrame
  <2>1. ~Rechunked(d)
    BY <1>a, <2>0 DEF Rechunked, BirthInv, Shape
  <2>2. Committed(d)' => Committed(d)
    BY <2>0 DEF Committed
  <2>3. Decided(d)' => Decided(d)
    BY <2>0 DEF Decided
  <2> QED  BY <1>b, <2>0, <2>1, <2>2, <2>3, UntouchedFirst
<1>3. ASSUME NEW w \in Workers, NEW m \in Messages, Deliver(w, m) PROVE FirstRun(d)'
  <2>0. /\ job[w].pc = "idle" /\ UNCHANGED <<row, req, faults>>
        /\ job'[w].pc = "mark" /\ job'[w].doc = m[1] /\ job'[w].tries = m[2]
        /\ \A v \in Workers \ {w} : job'[v] = job[v]
    BY <1>3, <1>a DEF Deliver, TypeOK, Idle, store
  <2>1. /\ ready[m] > 0 /\ ready'[m] = ready[m] - 1
        /\ \A k \in Messages : k # m => ready'[k] = ready[k]
    BY <1>3, <1>a DEF Deliver
  <2>2. m = <<m[1], m[2]>> /\ m[1] \in Docs /\ m[2] \in 0 .. MaxRetries
    BY DEF Messages
  <2>3. FirstRun(d)
    BY <1>b, <2>0 DEF Rechunked
  <2>c. (Committed(d) <=> Committed(d)') /\ (Decided(d) <=> Decided(d)')
    BY <2>0 DEF Committed, Decided
  <2>4. CASE m[1] # d
    <3>1. \A n \in 0 .. MaxRetries : ready'[<<d, n>>] = ready[<<d, n>>]
      BY <1>a, <2>1, <2>2, <2>4
    <3> QED  BY <2>0, <2>3, <2>4, <2>c, <3>1, UntouchedFirst DEF First
  <2>5. CASE m[1] = d /\ m[2] = 0
    <3>1. m = <<d, 0>> /\ ready[<<d, 0>>] = 1 /\ ready'[<<d, 0>>] = 0
      BY <1>a, <2>1, <2>2, <2>3, <2>5 DEF FirstRun, Single
    <3>2. ~Committed(d) /\ \A v \in Workers : ~First(v, d)
      BY <2>3, <3>1 DEF FirstRun, Single
    <3>3. Single(d)'
      BY <2>0, <2>c, <3>1, <3>2 DEF Single, First
    <3>4. ~Over(d)
      BY <3>1 DEF Over
    <3>5. ~Retried(d)
      BY <2>3, <3>4 DEF FirstRun
    <3>6. ~Retried(d)'
      <4>1. \A n \in 1 .. MaxRetries : n # 0 /\ ready'[<<d, n>>] = ready[<<d, n>>]
        BY <1>a, <2>1, <3>1
      <4> QED  BY <2>0, <2>5, <3>5, <4>1 DEF Retried
    <3> QED  BY <2>3, <2>c, <3>3, <3>4, <3>6 DEF FirstRun
  <2>6. CASE m[1] = d /\ m[2] # 0
    <3>1. Retried(d)
      <4>1. m[2] \in 1 .. MaxRetries /\ ready[<<d, m[2]>>] > 0
        BY <1>a, <2>1, <2>2, <2>6, BoundsAssumption
      <4> QED  BY <4>1 DEF Retried
    <3>2. Over(d)
      BY <2>3, <3>1 DEF FirstRun
    <3>3. ready'[<<d, 0>>] = ready[<<d, 0>>]
      <4>1. m # <<d, 0>>
        BY <2>6
      <4> QED  BY <1>a, <2>1, <4>1
    <3>4. \A v \in Workers : First(v, d)' => First(v, d) /\ job'[v] = job[v]
      BY <2>0, <2>6 DEF First
    <3>5. Single(d)'
      BY <2>3, <2>c, <3>3, <3>4 DEF FirstRun, Single
    <3>6. Over(d)'
      BY <2>c, <3>2, <3>3, <3>4 DEF Over
    <3> QED  BY <3>5, <3>6 DEF FirstRun
  <2> QED  BY <2>4, <2>5, <2>6
<1>4. ASSUME NEW w \in Workers, WorkerStep(w) PROVE FirstRun(d)'
  <2>1. UNCHANGED <<req, faults>>
    BY <1>a, <1>4, StepFrame
  <2>2. FirstRun(d)
    BY <1>b, <2>1 DEF Rechunked
  <2> QED  BY <1>a, <1>4, <2>2, WorkerFirst
<1>5. ASSUME NEW w \in Workers, Fault(w) PROVE FALSE
  <2>1. faults' = faults + 1
    BY <1>5 DEF Fault, WorkerDies, BrokerLost, PoolProcessDies, ConnectionLost
  <2> QED  BY <1>a, <2>1
<1>6. CASE UNCHANGED vars
  <2>1. FirstRun(d) /\ UNCHANGED <<row, req, ready, job>>
    BY <1>6, <1>b DEF vars, Rechunked
  <2> QED  BY <2>1, UntouchedFirst DEF Decided, Committed
<1> QED  BY <1>1, <1>2, <1>3, <1>4, <1>5, <1>6 DEF Next

LEMMA StepKeepsVerdict ==
  ASSUME FirstInv, [Next]_vars, NEW d \in Docs, Decided(d), row'[d] \notin {row[d], "NONE"}
  PROVE  RunsAgain(d)
<1>a. TypeOK /\ BirthInv /\ faults \in Nat
  BY BoundsAssumption DEF FirstInv, TypeOK
<1>1. ASSUME NEW q \in Requests, RequestStep(q) PROVE RunsAgain(d)
  <2>1. CASE UploadCommit(q)
    <3>1. req[q].doc = d /\ req[q].at = "stored" /\ req[q].op = "upload"
      BY <1>a, <2>1 DEF UploadCommit, TypeOK, BirthInv, Shape
    <3>2. ~Born(d)
      BY <1>a, <3>1 DEF BirthInv, OneUpload, Born
    <3> QED  BY <1>a, <3>2, NobodysFirst DEF BirthInv
  <2>2. CASE RechunkCommit(q)
    <3>1. req[q].doc = d /\ req[q].op = "rechunk"
      BY <1>a, <2>2 DEF RechunkCommit, TypeOK, BirthInv, Shape
    <3> QED  BY <3>1 DEF RunsAgain
  <2>3. ~DeleteCommit(q) /\ ~RequestFails(q) /\ ~Dispatch(q) /\ ~DispatchLost(q)
    BY <1>a DEF DeleteCommit, RequestFails, Dispatch, DispatchLost, TypeOK, store
  <2> QED  BY <1>1, <2>1, <2>2, <2>3 DEF RequestStep
<1>2. ASSUME NEW q \in Requests, NEW c \in Docs,
             UploadStore(q, c) \/ RechunkLoad(q, c) \/ DeleteObject(q, c)
      PROVE  FALSE
  BY <1>a, <1>2, BeginFrame
<1>3. ASSUME NEW w \in Workers, NEW m \in Messages, Deliver(w, m) PROVE FALSE
  BY <1>3 DEF Deliver, store
<1>4. ASSUME NEW w \in Workers, WorkerStep(w) \/ Fault(w) PROVE RunsAgain(d)
  <2>1. CASE faults # 0
    <3>1. faults > 0
      BY <1>a, <2>1
    <3> QED  BY <3>1 DEF RunsAgain
  <2>2. CASE Rechunked(d)
    BY <2>2 DEF Rechunked, RunsAgain
  <2>3. CASE faults = 0 /\ ~Rechunked(d)
    <3>1. Over(d)
      BY <2>3 DEF FirstInv, FirstRuns, FirstRun
    <3>2. job[w].pc # "idle" /\ job[w].doc = d /\ job[w].pc \notin {"returned", "raised"}
      BY <1>a, <1>4, AtWork
    <3>3. job[w].tries # 0 /\ job[w].tries \in Nat
      BY <1>a, <3>1, <3>2, BoundsAssumption DEF Over, First, TypeOK, Job
    <3>4. job[w].tries > 0
      BY <3>3
    <3> QED  BY <3>2, <3>4 DEF RunsAgain
  <2> QED  BY <2>1, <2>2, <2>3
<1>5. CASE UNCHANGED vars
  BY <1>5 DEF vars
<1> QED  BY <1>1, <1>2, <1>3, <1>4, <1>5 DEF Next

\* Without a re-chunk, a retry and a fault, the verdict that a client polled for
\* stays the verdict (_process_document).
THEOREM VerdictsAreFinal == Spec => VerdictIsFinal
<1>1. FirstInv /\ [Next]_vars =>
        [\A d \in Docs : row[d] \in Status \ Open /\ row'[d] \notin {row[d], "NONE"}
            => RunsAgain(d)]_vars
  BY StepKeepsVerdict DEF Decided
<1> QED  BY <1>1, InitFirst, NextFirst, PTL DEF Spec, VerdictIsFinal
=============================================================================
