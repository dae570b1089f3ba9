------------------------ MODULE DocumentPipelineProofs ------------------------
(***************************************************************************)
(* Proofs about DocumentPipeline, for any documents, any number of retry   *)
(* jobs, any number of chunks and any capacity of the channel.             *)
(***************************************************************************)
EXTENDS DocumentPipeline, TLAPS

USE PipelineAssumption DEF PipelineAssumption

(***************************************************************************)
(* A send adds the document to the channel and a receive takes the first   *)
(* one out; what else is in the channel stays.                             *)
(***************************************************************************)
LEMMA AppendMembers ==
  ASSUME NEW S, NEW q \in Seq(S), NEW e \in S
  PROVE  /\ Append(q, e) \in Seq(S)
         /\ Len(Append(q, e)) = Len(q) + 1
         /\ \A x : Contains(Append(q, e), x) <=> Contains(q, x) \/ x = e
<1>1. /\ Append(q, e) \in Seq(S)
      /\ Len(Append(q, e)) = Len(q) + 1
      /\ \A i \in 1..Len(q) : Append(q, e)[i] = q[i]
      /\ Append(q, e)[Len(q) + 1] = e
      /\ Len(q) \in Nat
  OBVIOUS
<1>2. 1..(Len(q) + 1) = 1..Len(q) \union {Len(q) + 1}
  BY <1>1
<1>3. \A x : Contains(Append(q, e), x) <=> Contains(q, x) \/ x = e
  BY <1>1, <1>2, Zenon DEF Contains
<1> QED BY <1>1, <1>3

\* What a receive from the channel leaves in the queue.
LEMMA TakeMembers ==
  ASSUME NEW S, NEW q \in Seq(S), q # <<>>
  PROVE  /\ Head(q) \in S /\ Tail(q) \in Seq(S)
         /\ Len(Tail(q)) = Len(q) - 1
         /\ \A x : Contains(q, x) <=> Contains(Tail(q), x) \/ x = Head(q)
<1>1. /\ Head(q) \in S /\ Tail(q) \in Seq(S) /\ Len(Tail(q)) = Len(q) - 1
      /\ Head(q) = q[1] /\ Len(q) \in Nat \ {0}
      /\ \A i \in 1..(Len(q) - 1) : Tail(q)[i] = q[i + 1]
  OBVIOUS
<1>2. ASSUME NEW x, Contains(q, x) PROVE Contains(Tail(q), x) \/ x = Head(q)
  <2>1. PICK i \in 1..Len(q) : q[i] = x
    BY <1>2 DEF Contains
  <2>2. CASE i = 1
    BY <1>1, <2>1, <2>2
  <2>3. CASE i # 1
    <3>1. i - 1 \in 1..(Len(q) - 1) /\ (i - 1) + 1 = i
      BY <1>1, <2>3
    <3>2. Tail(q)[i - 1] = x
      BY <1>1, <2>1, <3>1
    <3> QED BY <1>1, <3>1, <3>2 DEF Contains
  <2> QED BY <2>2, <2>3
<1>3. ASSUME NEW x, Contains(Tail(q), x) PROVE Contains(q, x)
  <2>1. PICK i \in 1..(Len(q) - 1) : Tail(q)[i] = x
    BY <1>1, <1>3 DEF Contains
  <2>2. i + 1 \in 1..Len(q) /\ q[i + 1] = x
    BY <1>1, <2>1
  <2> QED BY <2>2 DEF Contains
<1>4. Contains(q, Head(q))
  BY <1>1 DEF Contains
<1> QED BY <1>1, <1>2, <1>3, <1>4

\* Nothing is in the empty channel.
LEMMA EmptyHasNone == \A x : ~Contains(<<>>, x)
BY DEF Contains

-------------------------------------------------------------------------------
(* Types.  The two parts beyond TypeOK: the worker has a document exactly  *)
(* while it works, and a job that is about to mark one has it on its list. *)

WorkerHasDoc == worker.pc \in {"starting", "waiting"} <=> worker.doc = NoDoc
JobHasDoc == \A j \in Jobs : job[j].pc = "mark" => job[j].at \in job[j].todo

TInv == TypeOK /\ WorkerHasDoc /\ JobHasDoc

\* The types, one variable at a time.
JobType == [Jobs -> [pc : {"idle", "publish", "mark", "done"},
                     todo : SUBSET Docs, at : Docs \union {NoDoc}]]
WorkerType == [pc : WorkerPC, doc : Docs \union {NoDoc}, part : 1..(Parts + 1),
               usable : SUBSET (1..Parts)]

\* The two history variables of the passed-over errors.
HistoryTypes == missed \in [Docs -> SUBSET (1..Parts)] /\ unmarked \subseteq Docs

\* Noting a loss.
LEMMA LosesTypes ==
  ASSUME TypeOK, NEW d, NEW why \in Reasons, Loses(d, why)
  PROVE  lost' \in [Docs -> SUBSET Reasons]
<1>1. lost \in [Docs -> SUBSET Reasons]
  BY DEF TypeOK
<1>2. lost' = [lost EXCEPT ![d] = @ \union {why}]
  BY DEF Loses
<1> QED BY <1>1, <1>2

\* What the channel and the record of losses look like after a Publish.
LEMMA PublishTypes ==
  ASSUME TypeOK, NEW d \in Docs, Delivers(d) \/ Drops(d) \/ Aborts(d)
  PROVE  /\ queue' \in Seq(Docs) /\ Len(queue') <= Capacity
         /\ lost' \in [Docs -> SUBSET Reasons]
<1>0. queue \in Seq(Docs) /\ Len(queue) \in Nat /\ Len(queue) <= Capacity
  BY DEF TypeOK
<1>1. CASE Delivers(d)
  <2>1. queue' \in Seq(Docs) /\ Len(queue') = Len(queue) + 1
    BY <1>0, <1>1, AppendMembers DEF Delivers
  <2>2. Len(queue) < Capacity
    BY <1>1 DEF Delivers
  <2>3. Len(queue') <= Capacity
    BY <1>0, <2>1, <2>2
  <2>4. lost' \in [Docs -> SUBSET Reasons]
    BY <1>1 DEF Delivers, TypeOK
  <2> QED BY <2>1, <2>3, <2>4
<1>2. CASE Drops(d)
  <2>1. queue' = queue
    BY <1>2 DEF Drops
  <2>2. Loses(d, "nobody") \/ Loses(d, "full")
    BY <1>2 DEF Drops
  <2>3. "nobody" \in Reasons /\ "full" \in Reasons
    BY DEF Reasons
  <2> QED BY <1>0, <2>1, <2>2, <2>3, LosesTypes
<1>3. CASE Aborts(d)
  <2>1. queue' = queue /\ Loses(d, "cancelled") /\ "cancelled" \in Reasons
    BY <1>3 DEF Aborts, Reasons
  <2> QED BY <1>0, <2>1, LosesTypes
<1> QED BY <1>1, <1>2, <1>3

\* UpdateStatus keeps the status column well typed.
LEMMA StatusTypes ==
  ASSUME TypeOK, NEW d, NEW s \in Statuses, UpdateStatus(d, s)
  PROVE  status' \in [Docs -> Statuses]
BY DEF TypeOK, UpdateStatus

\* A fresh worker record.
LEMMA WorkerRecord ==
  ASSUME NEW pc \in WorkerPC, NEW d \in Docs \union {NoDoc}
  PROVE  /\ Worker(pc, d) \in WorkerType
         /\ Worker(pc, d).pc = pc /\ Worker(pc, d).doc = d
         /\ Worker(pc, d).part = 1
BY DEF Worker, WorkerType

\* The types hold of the empty store.
LEMMA TInvInit == Init => TInv
<1> SUFFICES ASSUME Init PROVE TInv
  OBVIOUS
<1>1. objects \subseteq Docs /\ twice \subseteq Docs
  BY DEF Init
<1>2. status \in [Docs -> Statuses] /\ lost \in [Docs -> SUBSET Reasons]
  BY DEF Init, Statuses
<1>3. stored \in [Docs -> [1..Parts -> Nat]]
  BY DEF Init
<1>4. upload \in [Docs -> {"new", "stored", "saved", "done", "failed"}]
  BY DEF Init
<1>5. job \in JobType /\ JobHasDoc
  BY DEF Init, JobType, JobHasDoc
<1>6. queue \in Seq(Docs) /\ Len(queue) <= Capacity
  BY DEF Init
<1>7. worker \in WorkerType /\ WorkerHasDoc
  BY WorkerRecord DEF Init, WorkerPC, WorkerHasDoc
<1>8. HistoryTypes
  BY DEF Init, HistoryTypes
<1> QED
  BY <1>1, <1>2, <1>3, <1>4, <1>5, <1>6, <1>7, <1>8
  DEF TInv, TypeOK, JobType, WorkerType, HistoryTypes

\* Only errors are added to the history, each of a document and its chunk.
LEMMA HistoryTyped ==
  ASSUME TInv, [Next]_vars
  PROVE  HistoryTypes'
<1>1. HistoryTypes /\ TypeOK
  BY DEF TInv, TypeOK, HistoryTypes
<1>2. CASE UNCHANGED <<missed, unmarked>>
  BY <1>1, <1>2 DEF HistoryTypes
<1>3. CASE \E j \in Jobs : JobMarks(j)
  BY <1>1, <1>3 DEF JobMarks, UpdateStatus, HistoryTypes, TInv, JobHasDoc, TypeOK
<1>4. CASE WorkerMarksInProgress
  BY <1>1, <1>4
  DEF WorkerMarksInProgress, UpdateStatus, HistoryTypes, TInv, WorkerHasDoc, TypeOK
<1>5. CASE WorkerSavesPart
  <2>1. worker.part \in 1..Parts
    BY <1>1, <1>5 DEF WorkerSavesPart, TypeOK
  <2> QED BY <1>1, <1>5, <2>1 DEF WorkerSavesPart, HistoryTypes
<1> QED
  BY <1>2, <1>3, <1>4, <1>5
  DEF Next, vars, WorkerNext, UploadStores, UploadSaves, UploadPublishes,
      JobFetches, JobPublishes, WorkerSubscribes, WorkerTakes,
      WorkerReadsMetadata, WorkerOpens, WorkerEmbeds, WorkerSucceeds, WorkerFails,
      WorkerFinishes, Crash

\* The three steps of the upload handler keep the types.
LEMMA TInvUpload ==
  ASSUME TInv, HistoryTypes', NEW d \in Docs,
         UploadStores(d) \/ UploadSaves(d) \/ UploadPublishes(d)
  PROVE  TInv'
<1> USE DEF TInv
<1>1. CASE UploadStores(d)
  BY <1>1 DEF TypeOK, HistoryTypes, WorkerHasDoc, JobHasDoc, UploadStores
<1>2. CASE UploadSaves(d)
  <2>1. status' \in [Docs -> Statuses]
    BY <1>2 DEF TypeOK, UploadSaves, Statuses
  <2>2. upload' \in [Docs -> {"new", "stored", "saved", "done", "failed"}]
    BY <1>2 DEF TypeOK, UploadSaves
  <2>3. UNCHANGED <<objects, stored, job, queue, worker, lost, twice>>
    BY <1>2 DEF UploadSaves
  <2> QED BY <2>1, <2>2, <2>3 DEF TypeOK, HistoryTypes, WorkerHasDoc, JobHasDoc
<1>3. CASE UploadPublishes(d)
  <2>1. /\ queue' \in Seq(Docs) /\ Len(queue') <= Capacity
        /\ lost' \in [Docs -> SUBSET Reasons]
    BY <1>3, PublishTypes DEF UploadPublishes
  <2>2. /\ upload' \in [Docs -> {"new", "stored", "saved", "done", "failed"}]
        /\ UNCHANGED <<objects, status, stored, job, worker, twice>>
    BY <1>3 DEF TypeOK, UploadPublishes
  <2> QED BY <2>1, <2>2 DEF TypeOK, HistoryTypes, WorkerHasDoc, JobHasDoc
<1> QED BY <1>1, <1>2, <1>3

\* What one job does to its own record leaves the records well-formed.
LEMMA JobRecord ==
  ASSUME TInv, NEW j \in Jobs, NEW r \in [pc : {"idle", "publish", "mark", "done"},
                                          todo : SUBSET Docs, at : Docs \union {NoDoc}],
         r.pc = "mark" => r.at \in r.todo,
         job' = [job EXCEPT ![j] = r]
  PROVE  job' \in JobType /\ JobHasDoc'
BY DEF TInv, TypeOK, JobType, JobHasDoc

\* The three steps of a SubmitGenerateEmbeddingsJob request keep them.
LEMMA TInvJob ==
  ASSUME TInv, HistoryTypes', NEW j \in Jobs, JobFetches(j) \/ JobPublishes(j) \/ JobMarks(j)
  PROVE  TInv'
<1> DEFINE JobRow == [pc : {"idle", "publish", "mark", "done"},
                      todo : SUBSET Docs, at : Docs \union {NoDoc}]
<1>0. JobDone \in JobRow /\ JobDone.pc = "done"
  BY DEF JobDone
<1>1. CASE JobFetches(j)
  <2> DEFINE failed == {d \in Docs : status[d] = "ERROR"}
             fresh == [pc |-> "publish", todo |-> failed, at |-> NoDoc]
  <2>1. fresh \in JobRow /\ fresh.pc = "publish"
    OBVIOUS
  <2>2. \E r \in JobRow : r.pc # "mark" /\ job' = [job EXCEPT ![j] = r]
    <3>1. job' = [job EXCEPT ![j] = JobDone] \/ job' = [job EXCEPT ![j] = fresh]
      BY <1>1 DEF JobFetches
    <3> QED BY <1>0, <2>1, <3>1
  <2>3. job' \in JobType /\ JobHasDoc'
    BY <2>2, JobRecord
  <2>4. /\ twice' \subseteq Docs
        /\ UNCHANGED <<objects, status, stored, upload, queue, worker, lost>>
    BY <1>1 DEF TInv, TypeOK, JobFetches
  <2> QED BY <2>3, <2>4 DEF TInv, TypeOK, HistoryTypes, WorkerHasDoc, JobType
<1>2. CASE JobPublishes(j)
  <2>1. PICK d \in job[j].todo :
          \/ /\ Delivers(d) \/ Drops(d)
             /\ job' = [job EXCEPT ![j] = [@ EXCEPT !.pc = "mark", !.at = d]]
          \/ /\ Aborts(d)
             /\ job' = [job EXCEPT ![j] = JobDone]
    BY <1>2 DEF JobPublishes
  <2>2. job[j] \in JobRow /\ d \in Docs
    BY DEF TInv, TypeOK
  <2>3. /\ queue' \in Seq(Docs) /\ Len(queue') <= Capacity
        /\ lost' \in [Docs -> SUBSET Reasons]
    BY <2>1, <2>2, PublishTypes DEF TInv
  <2> DEFINE next == [job[j] EXCEPT !.pc = "mark", !.at = d]
  <2>4. next \in JobRow /\ next.at \in next.todo
    BY <2>1, <2>2
  <2>5. job' = [job EXCEPT ![j] = next] \/ job' = [job EXCEPT ![j] = JobDone]
    BY <2>1
  <2>6. job' \in JobType /\ JobHasDoc'
    BY <1>0, <2>4, <2>5, JobRecord
  <2>7. UNCHANGED <<objects, status, stored, upload, worker, twice>>
    BY <1>2 DEF JobPublishes
  <2> QED BY <2>3, <2>6, <2>7 DEF TInv, TypeOK, HistoryTypes, WorkerHasDoc, JobType
<1>3. CASE JobMarks(j)
  <2> DEFINE d == job[j].at
  <2>1. d \in Docs /\ job[j] \in JobRow
    BY <1>3 DEF JobMarks, TInv, TypeOK, JobHasDoc
  <2>2. JobAfter(j, d) \in JobRow /\ JobAfter(j, d).pc # "mark"
    BY <1>0, <2>1 DEF JobAfter
  <2>3. job' \in JobType /\ JobHasDoc'
    <3>1. job' = [job EXCEPT ![j] = JobAfter(j, d)]
      BY <1>3 DEF JobMarks
    <3> HIDE DEF d
    <3> QED BY <2>2, <3>1, JobRecord
  <2>4. status' \in [Docs -> Statuses]
    BY <1>3, StatusTypes DEF JobMarks, TInv, Statuses
  <2>5. lost' \in [Docs -> SUBSET Reasons]
    <3>1. UNCHANGED lost \/ Loses(d, "overtaken")
      BY <1>3 DEF JobMarks
    <3>2. "overtaken" \in Reasons
      BY DEF Reasons
    <3> QED BY <3>1, <3>2, LosesTypes DEF TInv, TypeOK
  <2>6. UNCHANGED <<objects, stored, upload, queue, worker, twice>>
    BY <1>3 DEF JobMarks
  <2> QED BY <2>3, <2>4, <2>5, <2>6 DEF TInv, TypeOK, HistoryTypes, WorkerHasDoc, JobType
<1> QED BY <1>1, <1>2, <1>3

(***************************************************************************)
(* A step of the worker that keeps its document, and one that ends it.     *)
(***************************************************************************)
LEMMA WorkerTypes ==
  ASSUME TInv, HistoryTypes', worker' \in WorkerType, WorkerHasDoc',
         status' \in [Docs -> Statuses], lost' \in [Docs -> SUBSET Reasons],
         stored' \in [Docs -> [1..Parts -> Nat]],
         queue' \in Seq(Docs), Len(queue') <= Capacity,
         UNCHANGED <<objects, upload, job, twice>>
  PROVE  TInv'
BY DEF TInv, TypeOK, HistoryTypes, JobHasDoc, WorkerType

\* One more copy of one chunk is still a count for each chunk.
LEMMA CountUp ==
  ASSUME NEW S, NEW f \in [S -> Nat], NEW x \in S
  PROVE  [f EXCEPT ![x] = @ + 1] \in [S -> Nat]
<1>1. f[x] + 1 \in Nat
  OBVIOUS
<1> QED BY <1>1

\* Every step of the embedding worker keeps them.
LEMMA TInvWorker ==
  ASSUME TInv, HistoryTypes', WorkerNext
  PROVE  TInv'
<1>0. /\ worker \in WorkerType /\ queue \in Seq(Docs) /\ Len(queue) <= Capacity
      /\ status \in [Docs -> Statuses] /\ lost \in [Docs -> SUBSET Reasons]
      /\ stored \in [Docs -> [1..Parts -> Nat]] /\ WorkerHasDoc
  BY DEF TInv, TypeOK, WorkerType
<1>a. Idle \in WorkerType /\ Idle.pc = "waiting" /\ Idle.doc = NoDoc
  BY WorkerRecord DEF Idle, WorkerPC
<1>b. worker.pc \notin {"starting", "waiting"} => worker.doc \in Docs
  BY <1>0 DEF WorkerHasDoc, WorkerType
<1>1. CASE WorkerSubscribes
  BY <1>0, <1>1, <1>a, WorkerTypes DEF WorkerSubscribes, WorkerHasDoc
<1>2. CASE WorkerTakes
  <2>1. /\ Head(queue) \in Docs /\ queue' \in Seq(Docs)
        /\ Len(queue') <= Capacity
    <3>1. Head(queue) \in Docs /\ Tail(queue) \in Seq(Docs)
          /\ Len(Tail(queue)) = Len(queue) - 1
      BY <1>0, <1>2, TakeMembers DEF WorkerTakes
    <3>2. queue' = Tail(queue)
      BY <1>2 DEF WorkerTakes
    <3> QED BY <1>0, <3>1, <3>2
  <2>2. /\ worker' \in WorkerType /\ worker'.pc = "took"
        /\ worker'.doc = Head(queue)
    BY <1>2, <2>1, WorkerRecord DEF WorkerTakes, WorkerPC
  <2>3. WorkerHasDoc'
    BY <2>1, <2>2 DEF WorkerHasDoc
  <2>4. UNCHANGED <<objects, status, stored, upload, job, lost, twice>>
    BY <1>2 DEF WorkerTakes
  <2> QED BY <1>0, <2>1, <2>2, <2>3, <2>4, WorkerTypes
<1>3. CASE WorkerMarksInProgress
  <2>1. status' \in [Docs -> Statuses]
    BY <1>3, StatusTypes DEF WorkerMarksInProgress, TInv, Statuses
  <2>2. worker' \in WorkerType /\ WorkerHasDoc'
    BY <1>0, <1>3, <1>b DEF WorkerMarksInProgress, WorkerType, WorkerHasDoc, WorkerPC
  <2> QED BY <1>0, <1>3, <2>1, <2>2, WorkerTypes DEF WorkerMarksInProgress
<1>4. ASSUME WorkerGivesUp, worker.doc \in Docs,
             UNCHANGED <<objects, status, stored, upload, job, queue, twice>>
      PROVE  TInv'
  <2>1. worker' \in WorkerType /\ WorkerHasDoc'
    BY <1>4, <1>a DEF WorkerGivesUp, WorkerHasDoc
  <2>2. lost' \in [Docs -> SUBSET Reasons]
    BY <1>4, LosesTypes DEF WorkerGivesUp, Reasons, TInv
  <2> QED BY <1>0, <1>4, <2>1, <2>2, WorkerTypes
<1>5. CASE WorkerReadsMetadata
  <2>1. CASE worker' = [worker EXCEPT !.pc = "open"] /\ UNCHANGED lost
    <3>1. worker' \in WorkerType /\ WorkerHasDoc'
      BY <1>0, <1>5, <1>b, <2>1
      DEF WorkerReadsMetadata, WorkerType, WorkerHasDoc, WorkerPC
    <3> QED BY <1>0, <1>5, <2>1, <3>1, WorkerTypes DEF WorkerReadsMetadata
  <2>2. CASE WorkerGivesUp
    BY <1>4, <1>5, <1>b, <2>2 DEF WorkerReadsMetadata
  <2> QED BY <1>5, <2>1, <2>2 DEF WorkerReadsMetadata
<1>6. CASE WorkerOpens
  <2>1. CASE worker' = [worker EXCEPT !.pc = "pipeline"] /\ UNCHANGED lost
    <3>1. worker' \in WorkerType /\ WorkerHasDoc'
      BY <1>0, <1>6, <1>b, <2>1
      DEF WorkerOpens, WorkerType, WorkerHasDoc, WorkerPC
    <3> QED BY <1>0, <1>6, <2>1, <3>1, WorkerTypes DEF WorkerOpens
  <2>2. CASE WorkerGivesUp
    BY <1>4, <1>6, <1>b, <2>2 DEF WorkerOpens
  <2> QED BY <1>6, <2>1, <2>2 DEF WorkerOpens
<1>7. CASE WorkerEmbeds
  <2>1. worker' \in WorkerType /\ WorkerHasDoc'
    BY <1>0, <1>7, <1>b
    DEF WorkerEmbeds, WorkerType, WorkerHasDoc, WorkerPC
  <2> QED BY <1>0, <1>7, <2>1, WorkerTypes DEF WorkerEmbeds
<1>8. CASE WorkerSavesPart
  <2>0. worker.doc \in Docs /\ worker.part \in 1..Parts /\ worker.pc = "save"
    BY <1>0, <1>8, <1>b DEF WorkerSavesPart, WorkerType
  <2>1. worker' \in WorkerType /\ WorkerHasDoc'
    <3>1. worker' = [worker EXCEPT !.part = @ + 1]
      BY <1>8 DEF WorkerSavesPart
    <3>2. worker.part + 1 \in 1..(Parts + 1)
      BY <2>0
    <3>3. worker' \in WorkerType /\ worker'.pc = worker.pc
          /\ worker'.doc = worker.doc
      BY <1>0, <3>1, <3>2 DEF WorkerType
    <3> QED BY <1>0, <3>3 DEF WorkerHasDoc
  <2>2. stored' \in [Docs -> [1..Parts -> Nat]]
    <3>1. CASE UNCHANGED stored
      BY <1>0, <3>1
    <3>2. CASE stored' = [stored EXCEPT ![worker.doc][worker.part] = @ + 1]
      <4>1. stored[worker.doc] \in [1..Parts -> Nat]
        BY <1>0, <2>0
      <4>2. [stored[worker.doc] EXCEPT ![worker.part] = @ + 1] \in [1..Parts -> Nat]
        BY <2>0, <4>1, CountUp
      <4> QED BY <1>0, <2>0, <3>2, <4>2
    <3> QED BY <1>8, <3>1, <3>2 DEF WorkerSavesPart
  <2> QED BY <1>0, <1>8, <2>1, <2>2, WorkerTypes DEF WorkerSavesPart
<1>9. ASSUME NEW s \in {"SUCCESS", "ERROR"}, WorkerFinishes(s)
      PROVE  TInv'
  <2>1. worker' \in WorkerType /\ WorkerHasDoc'
    BY <1>9, <1>a DEF WorkerFinishes, WorkerHasDoc
  <2>2. status' \in [Docs -> Statuses]
    BY <1>0, <1>9 DEF WorkerFinishes, Statuses
  <2>3. lost' \in [Docs -> SUBSET Reasons]
    <3>1. UNCHANGED lost \/ Loses(worker.doc, "not written")
      BY <1>9 DEF WorkerFinishes
    <3>2. "not written" \in Reasons
      BY DEF Reasons
    <3> QED BY <1>0, <3>1, <3>2, LosesTypes DEF TInv
  <2> QED BY <1>0, <1>9, <2>1, <2>2, <2>3, WorkerTypes DEF WorkerFinishes
<1> QED
  BY <1>1, <1>2, <1>3, <1>5, <1>6, <1>7, <1>8, <1>9
  DEF WorkerNext, WorkerSucceeds, WorkerFails

\* A crash keeps them: what is in memory goes back to its start.
LEMMA TInvCrash ==
  ASSUME TInv, HistoryTypes', Crash
  PROVE  TInv'
<1>1. upload' \in [Docs -> {"new", "stored", "saved", "done", "failed"}]
  BY DEF TInv, TypeOK, Crash
<1>2. job' \in JobType /\ JobHasDoc'
  BY DEF TInv, TypeOK, Crash, JobType, JobHasDoc, JobDone
<1>3. worker' \in WorkerType /\ WorkerHasDoc'
  BY WorkerRecord DEF Crash, WorkerPC, WorkerHasDoc
<1>4. lost' \in [Docs -> SUBSET Reasons]
  BY DEF TInv, TypeOK, Crash, Reasons
<1>5. queue' \in Seq(Docs) /\ Len(queue') <= Capacity
  BY DEF Crash
<1>6. UNCHANGED <<objects, status, stored, twice>>
  BY DEF Crash
<1> QED
  BY <1>1, <1>2, <1>3, <1>4, <1>5, <1>6
  DEF TInv, TypeOK, HistoryTypes, JobType, WorkerType

\* Every step of the pipeline keeps the types.
LEMMA TInvStep == TInv /\ [Next]_vars => TInv'
<1>1. TInv /\ UNCHANGED vars => TInv'
  BY DEF TInv, TypeOK, WorkerHasDoc, JobHasDoc, vars
<1> QED
  BY <1>1, HistoryTyped, TInvUpload, TInvJob, TInvWorker, TInvCrash DEF Next

(***************************************************************************)
(* Every variable keeps its type; in particular the channel between the    *)
(* publishers and the worker never holds more than Capacity events         *)
(* (queue.go:92), and the worker never has a document while it waits.      *)
(***************************************************************************)
THEOREM TypeCorrect == Spec => []TypeOK
<1>1. TInv => TypeOK
  BY DEF TInv
<1> QED BY <1>1, TInvInit, TInvStep, PTL DEF Spec

-------------------------------------------------------------------------------
(* What is in hand.                                                        *)

\* A Publish touches one document: it is in the channel or noted as lost.
LEMMA PublishMembers ==
  ASSUME TypeOK, NEW d \in Docs, Delivers(d) \/ Drops(d) \/ Aborts(d)
  PROVE  /\ \A x : Contains(queue', x) => Contains(queue, x) \/ x = d
         /\ \A x : Contains(queue, x) => Contains(queue', x)
         /\ \A x \in Docs \ {d} : lost'[x] = lost[x]
         /\ Contains(queue', d) \/ lost'[d] # {}
<1>0. queue \in Seq(Docs) /\ lost \in [Docs -> SUBSET Reasons]
  BY DEF TypeOK
<1>1. CASE Delivers(d)
  <2>1. queue' = Append(queue, d) /\ lost' = [lost EXCEPT ![d] = {}]
    BY <1>1 DEF Delivers
  <2>2. \A x : Contains(queue', x) <=> Contains(queue, x) \/ x = d
    BY <1>0, <2>1, AppendMembers
  <2>3. \A x \in Docs \ {d} : lost'[x] = lost[x]
    BY <1>0, <2>1
  <2> QED BY <2>2, <2>3
<1>2. CASE Drops(d) \/ Aborts(d)
  <2>1. queue' = queue
    BY <1>2 DEF Drops, Aborts
  <2>2. \E why : lost' = [lost EXCEPT ![d] = @ \union {why}]
    BY <1>2 DEF Drops, Aborts, Loses
  <2>3. lost'[d] # {} /\ \A x \in Docs \ {d} : lost'[x] = lost[x]
    BY <1>0, <2>2
  <2> QED BY <2>1, <2>3
<1> QED BY <1>1, <1>2

\* A loss of one document.
LEMMA LosesEffect ==
  ASSUME TypeOK, NEW d \in Docs, NEW why, Loses(d, why)
  PROVE  lost'[d] # {} /\ \A x \in Docs : lost[x] # {} => lost'[x] # {}
<1>1. lost \in [Docs -> SUBSET Reasons] /\ lost' = [lost EXCEPT ![d] = @ \union {why}]
  BY DEF TypeOK, Loses
<1>2. lost'[d] = lost[d] \union {why} /\ \A x \in Docs \ {d} : lost'[x] = lost[x]
  BY <1>1
<1> QED BY <1>2

\* The status of one document.
LEMMA StatusEffect ==
  ASSUME TypeOK, NEW d \in Docs, NEW s, UpdateStatus(d, s)
  PROVE  /\ \A x \in Docs \ {d} : status'[x] = status[x]
         /\ status'[d] \in {s, status[d]}
BY DEF TypeOK, UpdateStatus

(***************************************************************************)
(* The strengthening of RowHasObject: an upload that has stored its file   *)
(* has it in the store, and whatever anyone is working on has a row.       *)
(***************************************************************************)
StoredHasObject == \A d \in Docs : upload[d] = "stored" => d \in objects

InHand(d) == \/ Contains(queue, d) \/ worker.doc = d \/ upload[d] = "saved"
             \/ \E j \in Jobs : d \in job[j].todo

HandsHaveRow == \A d \in Docs : InHand(d) => status[d] # "none"

RInv == RowHasObject /\ StoredHasObject /\ HandsHaveRow

(***************************************************************************)
(* A step keeps RInv if it forgets no file, gives a row only to a document *)
(* with a file, takes no row away, and takes in hand only what has a row.  *)
(***************************************************************************)
LEMMA RInvKept ==
  ASSUME RInv, objects \subseteq objects',
         \A d \in Docs : status[d] # "none" => status'[d] # "none",
         \A d \in Docs : status'[d] # "none" => status[d] # "none" \/ d \in objects,
         \A d \in Docs : upload'[d] = "stored" => upload[d] = "stored" \/ d \in objects',
         \A d \in Docs : InHand(d)' => InHand(d) \/ status'[d] # "none"
  PROVE  RInv'
<1>1. RowHasObject'
  BY DEF RInv, RowHasObject
<1>2. StoredHasObject'
  BY DEF RInv, StoredHasObject
<1>3. HandsHaveRow'
  BY DEF RInv, HandsHaveRow
<1> QED BY <1>1, <1>2, <1>3 DEF RInv

\* An upload stores the file before it saves the row, so RInv is kept.
LEMMA RInvUpload ==
  ASSUME TInv, RInv, NEW d \in Docs,
         UploadStores(d) \/ UploadSaves(d) \/ UploadPublishes(d)
  PROVE  RInv'
<1> USE DEF TInv
<1>1. CASE UploadStores(d)
  <2>1. /\ objects \subseteq objects'
        /\ \A x \in Docs : upload'[x] = "stored" => upload[x] = "stored" \/ x \in objects'
        /\ \A x \in Docs : upload'[x] = "saved" => upload[x] = "saved"
    BY <1>1 DEF TypeOK, UploadStores
  <2>2. UNCHANGED <<status, queue, worker, job>>
    BY <1>1 DEF UploadStores
  <2>3. \A x \in Docs : InHand(x)' => InHand(x)
    BY <2>1, <2>2 DEF InHand
  <2> QED BY <2>1, <2>2, <2>3, RInvKept
<1>2. CASE UploadSaves(d)
  <2>1. /\ d \in objects
        /\ \A x \in Docs \ {d} : upload'[x] = upload[x] /\ status'[x] = status[x]
        /\ upload'[d] \in {"saved", "failed"}
        /\ upload'[d] = "saved" => status'[d] # "none"
        /\ status[d] # "none" => status'[d] # "none"
    BY <1>2 DEF TypeOK, UploadSaves, RInv, StoredHasObject
  <2>2. UNCHANGED <<objects, queue, worker, job>>
    BY <1>2 DEF UploadSaves
  <2>3. \A x \in Docs : InHand(x)' => InHand(x) \/ status'[x] # "none"
    BY <2>1, <2>2 DEF InHand
  <2> QED BY <2>1, <2>2, <2>3, RInvKept
<1>3. CASE UploadPublishes(d)
  <2>1. \A x : Contains(queue', x) => Contains(queue, x) \/ x = d
    BY <1>3, PublishMembers DEF UploadPublishes
  <2>2. /\ UNCHANGED <<objects, status, worker, job>>
        /\ upload[d] = "saved"
        /\ \A x \in Docs : upload'[x] \in {upload[x], "done"}
    BY <1>3 DEF UploadPublishes, TypeOK
  <2>3. \A x \in Docs : InHand(x)' => InHand(x)
    BY <2>1, <2>2 DEF InHand
  <2> QED BY <2>2, <2>3, RInvKept
<1> QED BY <1>1, <1>2, <1>3

\* A job takes its documents from the rows marked ERROR, so each has a row.
LEMMA RInvJob ==
  ASSUME TInv, RInv, NEW j \in Jobs, JobFetches(j) \/ JobPublishes(j) \/ JobMarks(j)
  PROVE  RInv'
<1> USE DEF TInv
<1>1. CASE JobFetches(j)
  <2>1. UNCHANGED <<objects, status, upload, queue, worker>>
    BY <1>1 DEF JobFetches
  <2>2. ASSUME NEW x \in Docs, NEW k \in Jobs, x \in job'[k].todo
        PROVE  x \in job[k].todo \/ status[x] = "ERROR"
    <3> DEFINE failed == {d \in Docs : status[d] = "ERROR"}
               fresh == [pc |-> "publish", todo |-> failed, at |-> NoDoc]
    <3>1. job' = [job EXCEPT ![j] = JobDone] \/ job' = [job EXCEPT ![j] = fresh]
      BY <1>1 DEF JobFetches
    <3>2. job'[k] \in {job[k], JobDone, fresh}
      BY <3>1 DEF TypeOK
    <3>3. JobDone.todo = {} /\ fresh.todo = failed
      BY DEF JobDone
    <3> QED BY <2>2, <3>2, <3>3
  <2>3. \A x \in Docs : InHand(x)' => InHand(x) \/ status'[x] # "none"
    BY <2>1, <2>2 DEF InHand
  <2> QED BY <2>1, <2>3, RInvKept
<1>2. CASE JobPublishes(j)
  <2>1. UNCHANGED <<objects, status, upload, worker>>
    BY <1>2 DEF JobPublishes
  <2>2. PICK d \in job[j].todo :
          /\ Delivers(d) \/ Drops(d) \/ Aborts(d)
          /\ \/ job' = [job EXCEPT ![j] = [@ EXCEPT !.pc = "mark", !.at = d]]
             \/ job' = [job EXCEPT ![j] = JobDone]
    BY <1>2 DEF JobPublishes
  <2>3. d \in Docs
    BY DEF TypeOK
  <2>4. \A x : Contains(queue', x) => Contains(queue, x) \/ x = d
    BY <2>2, <2>3, PublishMembers
  <2>5. \A x \in Docs, k \in Jobs : x \in job'[k].todo => x \in job[k].todo
    <3>1. ASSUME NEW k \in Jobs PROVE job'[k].todo \in {job[k].todo, {}}
      <4>1. job[j] \in [pc : {"idle", "publish", "mark", "done"},
                        todo : SUBSET Docs, at : Docs \union {NoDoc}]
        BY DEF TypeOK
      <4> DEFINE next == [job[j] EXCEPT !.pc = "mark", !.at = d]
      <4>2. next.todo = job[j].todo /\ JobDone.todo = {}
        BY <4>1 DEF JobDone
      <4>3. job' = [job EXCEPT ![j] = next] \/ job' = [job EXCEPT ![j] = JobDone]
        BY <2>2
      <4> HIDE DEF next
      <4>4. CASE k = j
        <5>1. job'[j] \in {next, JobDone}
          BY <4>3 DEF TypeOK
        <5> QED BY <4>2, <4>4, <5>1
      <4>5. CASE k # j
        BY <4>3, <4>5 DEF TypeOK
      <4> QED BY <4>4, <4>5
    <3> QED BY <3>1
  <2>6. \A x \in Docs : InHand(x)' => InHand(x)
    BY <2>1, <2>2, <2>4, <2>5 DEF InHand
  <2> QED BY <2>1, <2>6, RInvKept
<1>3. CASE JobMarks(j)
  <2> DEFINE d == job[j].at
  <2>1. d \in Docs /\ d \in job[j].todo
    BY <1>3 DEF JobMarks, JobHasDoc, TypeOK
  <2>2. status[d] # "none"
    BY <2>1 DEF RInv, HandsHaveRow, InHand
  <2>3. /\ \A x \in Docs \ {d} : status'[x] = status[x]
        /\ status'[d] \in {"QUEUED", status[d]}
    BY <1>3, <2>1, StatusEffect DEF JobMarks
  <2>4. UNCHANGED <<objects, upload, queue, worker>>
    BY <1>3 DEF JobMarks
  <2>5. \A x \in Docs, k \in Jobs : x \in job'[k].todo => x \in job[k].todo
    BY <1>3 DEF JobMarks, JobAfter, JobDone, TypeOK
  <2>6. \A x \in Docs : InHand(x)' => InHand(x)
    BY <2>4, <2>5 DEF InHand
  <2> QED BY <2>2, <2>3, <2>4, <2>6, RInvKept
<1> QED BY <1>1, <1>2, <1>3

(***************************************************************************)
(* What any step of the worker does: it works on its document only, and    *)
(* lets go of it with a final status or with a loss.                       *)
(***************************************************************************)
LEMMA WorkerEffect ==
  ASSUME TInv, WorkerNext
  PROVE  /\ UNCHANGED <<objects, upload, job>>
         /\ \A x \in Docs : Contains(queue', x) => Contains(queue, x)
         /\ \A x \in Docs : Contains(queue, x) => Contains(queue', x) \/ worker'.doc = x
         /\ \A x \in Docs : worker'.doc = x => Contains(queue, x) \/ worker.doc = x
         /\ \A x \in Docs : status'[x] # status[x]
              => worker.doc = x /\ status'[x] \in {"IN_PROGRESS", "SUCCESS", "ERROR"}
         /\ \A x \in Docs : worker.doc = x /\ worker'.doc # x
              => status'[x] \in {"SUCCESS", "ERROR"} \/ lost'[x] # {}
         /\ \A x \in Docs : lost[x] # {} => lost'[x] # {}
<1>0. /\ worker.pc \in WorkerPC
      /\ worker.pc \notin {"starting", "waiting"} => worker.doc \in Docs
      /\ worker.pc \in {"starting", "waiting"} => worker.doc = NoDoc
      /\ Idle.doc = NoDoc
  BY DEF TInv, TypeOK, WorkerHasDoc, Idle, Worker
<1>a. TypeOK
  BY DEF TInv
<1>1. CASE WorkerSubscribes
  BY <1>0, <1>1 DEF WorkerSubscribes
<1>2. CASE WorkerTakes
  <2>1. queue \in Seq(Docs) /\ queue # <<>>
    BY <1>2, <1>a DEF WorkerTakes, TypeOK
  <2>2. \A x : Contains(queue, x) <=> Contains(Tail(queue), x) \/ x = Head(queue)
    BY <2>1, TakeMembers
  <2>3. queue' = Tail(queue) /\ worker'.doc = Head(queue) /\ worker.doc = NoDoc
    BY <1>0, <1>2 DEF WorkerTakes, Worker
  <2>4. UNCHANGED <<objects, upload, job, status, lost>>
    BY <1>2 DEF WorkerTakes
  <2> QED BY <2>2, <2>3, <2>4
<1>3. CASE WorkerMarksInProgress
  <2>1. /\ worker.doc \in Docs
        /\ worker'.doc = worker.doc
        /\ UNCHANGED <<objects, upload, job, queue, lost>>
    BY <1>0, <1>3, <1>a DEF WorkerMarksInProgress, TypeOK
  <2>2. /\ \A x \in Docs \ {worker.doc} : status'[x] = status[x]
        /\ status'[worker.doc] \in {"IN_PROGRESS", status[worker.doc]}
    BY <1>3, <1>a, <2>1, StatusEffect DEF WorkerMarksInProgress
  <2> QED BY <2>1, <2>2
<1>4. CASE WorkerReadsMetadata \/ WorkerOpens
  <2>1. worker.doc \in Docs /\ UNCHANGED <<objects, status, upload, job, queue>>
    BY <1>0, <1>4 DEF WorkerReadsMetadata, WorkerOpens
  <2>2. CASE WorkerGivesUp
    <3>1. /\ worker'.doc = NoDoc /\ lost'[worker.doc] # {}
          /\ \A x \in Docs : lost[x] # {} => lost'[x] # {}
      BY <1>0, <1>a, <2>1, <2>2, LosesEffect DEF WorkerGivesUp
    <3> QED BY <2>1, <3>1
  <2>3. CASE ~WorkerGivesUp
    <3>1. worker'.doc = worker.doc /\ UNCHANGED lost
      BY <1>4, <1>a, <2>3 DEF WorkerReadsMetadata, WorkerOpens, TypeOK
    <3> QED BY <2>1, <3>1
  <2> QED BY <2>2, <2>3
<1>5. CASE WorkerEmbeds \/ WorkerSavesPart
  <2>1. /\ worker'.doc = worker.doc
        /\ UNCHANGED <<objects, status, upload, job, queue, lost>>
    BY <1>5, <1>a DEF WorkerEmbeds, WorkerSavesPart, TypeOK
  <2> QED BY <2>1
<1>6. ASSUME NEW s \in {"SUCCESS", "ERROR"}, WorkerFinishes(s), worker.doc \in Docs
      PROVE  /\ worker'.doc = NoDoc
             /\ UNCHANGED <<objects, upload, job, queue>>
             /\ \A x \in Docs : status'[x] # status[x] => worker.doc = x /\ status'[x] = s
             /\ status'[worker.doc] = s \/ lost'[worker.doc] # {}
             /\ \A x \in Docs : lost[x] # {} => lost'[x] # {}
  <2>1. worker'.doc = NoDoc /\ UNCHANGED <<objects, upload, job, queue>>
    BY <1>0, <1>6 DEF WorkerFinishes
  <2>2. CASE status' = [status EXCEPT ![worker.doc] = s] /\ UNCHANGED lost
    <3>1. /\ \A x \in Docs : status'[x] # status[x] => worker.doc = x /\ status'[x] = s
          /\ status'[worker.doc] = s
      BY <1>6, <1>a, <2>2 DEF TypeOK
    <3> QED BY <2>1, <2>2, <3>1
  <2>3. CASE Loses(worker.doc, "not written") /\ UNCHANGED status
    BY <1>6, <1>a, <2>1, <2>3, LosesEffect
  <2> QED BY <1>6, <2>2, <2>3 DEF WorkerFinishes
<1>7. CASE WorkerSucceeds \/ WorkerFails
  <2>1. worker.doc \in Docs
    BY <1>0, <1>7 DEF WorkerSucceeds, WorkerFails
  <2> QED BY <1>6, <1>7, <2>1 DEF WorkerSucceeds, WorkerFails
<1> QED BY <1>1, <1>2, <1>3, <1>4, <1>5, <1>7 DEF WorkerNext

\* The worker only handles what it took from the queue.
LEMMA RInvWorker ==
  ASSUME TInv, RInv, WorkerNext
  PROVE  RInv'
<1>1. \A x \in Docs : InHand(x)' => InHand(x)
  BY WorkerEffect DEF InHand
<1>2. \A x \in Docs : worker.doc = x => status[x] # "none"
  BY DEF RInv, HandsHaveRow, InHand
<1>3. \A x \in Docs : status'[x] = status[x]
                        \/ (status[x] # "none" /\ status'[x] # "none")
  BY <1>2, WorkerEffect
<1>4. UNCHANGED <<objects, upload>>
  BY WorkerEffect
<1> QED BY <1>1, <1>3, <1>4, RInvKept

\* A crash gives nobody anything new, and notes what it takes away.
LEMMA CrashEffect ==
  ASSUME TInv, Crash
  PROVE  /\ UNCHANGED <<objects, status>>
         /\ \A x \in Docs : upload'[x] \notin {"stored", "saved"}
         /\ \A x \in Docs : InHand(x)' => InHand(x)
         /\ \A x \in Docs : Interrupted(x) \/ lost[x] # {} => lost'[x] # {}
<1>1. UNCHANGED <<objects, status>>
  BY DEF Crash
<1>2. \A x \in Docs : upload'[x] \notin {"stored", "saved"}
  BY DEF Crash, TInv, TypeOK
<1>3. \A x \in Docs : worker'.doc # x /\ ~Contains(queue', x)
  BY EmptyHasNone DEF Crash, Worker
<1>4. \A x \in Docs, j \in Jobs : x \in job'[j].todo => x \in job[j].todo
  <2> SUFFICES ASSUME NEW x \in Docs, NEW j \in Jobs, x \in job'[j].todo
               PROVE  x \in job[j].todo
    OBVIOUS
  <2>1. job'[j] = IF job[j].pc = "idle" THEN job[j] ELSE JobDone
    BY DEF Crash
  <2> QED BY <2>1 DEF JobDone
<1>5. \A x \in Docs : Interrupted(x) \/ lost[x] # {} => lost'[x] # {}
  BY DEF Crash, TInv, TypeOK
<1> QED BY <1>1, <1>2, <1>3, <1>4, <1>5 DEF InHand

\* RInv holds of the empty store.
LEMMA RInvInit == Init => RInv
BY EmptyHasNone
DEF Init, RInv, RowHasObject, StoredHasObject, HandsHaveRow, InHand, Worker

\* Every step keeps RInv.
LEMMA RInvStep == TInv /\ RInv /\ [Next]_vars => RInv'
<1> SUFFICES ASSUME TInv, RInv, [Next]_vars PROVE RInv'
  OBVIOUS
<1>1. CASE Crash
  BY <1>1, CrashEffect, RInvKept
<1>2. CASE UNCHANGED vars
  BY <1>2 DEF RInv, RowHasObject, StoredHasObject, HandsHaveRow, InHand, vars
<1> QED BY <1>1, <1>2, RInvUpload, RInvJob, RInvWorker DEF Next

(***************************************************************************)
(* A document in the table has its file on disk (service.go:482-489).      *)
(* Inductive together with: whatever an upload, a job, the channel or the  *)
(* worker has in hand has a row, so that no status is written without one. *)
(***************************************************************************)
THEOREM RowsHaveObjects == Spec => []RowHasObject
<1>1. RInv => RowHasObject
  BY DEF RInv
<1> QED BY <1>1, RInvInit, RInvStep, TInvInit, TInvStep, PTL DEF Spec

-------------------------------------------------------------------------------
(* Stuck documents.                                                        *)

\* What StuckExplained says of one document.
Accounted(d) == status[d] \in {"QUEUED", "IN_PROGRESS"} => OnTheWay(d) \/ lost[d] # {}

\* An upload leaves a QUEUED row in the queue or notes the loss.
LEMMA AccountedUpload ==
  ASSUME TInv, NEW x \in Docs, Accounted(x), NEW d \in Docs,
         UploadStores(d) \/ UploadSaves(d) \/ UploadPublishes(d)
  PROVE  Accounted(x)'
<1> USE DEF TInv
<1>1. CASE UploadStores(d)
  <2>1. upload[x] = "saved" => upload'[x] = "saved"
    BY <1>1 DEF UploadStores, TypeOK
  <2>2. UNCHANGED <<status, queue, worker, lost>>
    BY <1>1 DEF UploadStores
  <2> QED BY <2>1, <2>2 DEF Accounted, OnTheWay, WorkerHas
<1>2. CASE UploadSaves(d)
  <2>1. UNCHANGED <<queue, worker, lost>>
    BY <1>2 DEF UploadSaves
  <2>2. x # d => status'[x] = status[x] /\ upload'[x] = upload[x]
    BY <1>2 DEF UploadSaves, TypeOK
  <2>3. x = d => upload'[x] = "saved" \/ (status'[x] = status[x] /\ upload[x] # "saved")
    BY <1>2 DEF UploadSaves, TypeOK
  <2> QED BY <2>1, <2>2, <2>3 DEF Accounted, OnTheWay, WorkerHas
<1>3. CASE UploadPublishes(d)
  <2>1. /\ Contains(queue, x) => Contains(queue', x)
        /\ x # d => lost'[x] = lost[x]
        /\ Contains(queue', d) \/ lost'[d] # {}
    BY <1>3, PublishMembers DEF UploadPublishes
  <2>2. UNCHANGED <<status, worker>> /\ (x # d => upload'[x] = upload[x])
    BY <1>3 DEF UploadPublishes, TypeOK
  <2> QED BY <2>1, <2>2 DEF Accounted, OnTheWay, WorkerHas
<1> QED BY <1>1, <1>2, <1>3

\* A job marks a document QUEUED only after its Publish was made or lost.
LEMMA AccountedJob ==
  ASSUME TInv, NEW x \in Docs, Accounted(x), NEW j \in Jobs,
         JobFetches(j) \/ JobPublishes(j) \/ JobMarks(j)
  PROVE  Accounted(x)'
<1> USE DEF TInv
<1>1. CASE JobFetches(j)
  BY <1>1 DEF JobFetches, Accounted, OnTheWay, WorkerHas
<1>2. CASE JobPublishes(j)
  <2>1. PICK d \in job[j].todo : Delivers(d) \/ Drops(d) \/ Aborts(d)
    BY <1>2 DEF JobPublishes
  <2>2. d \in Docs
    BY DEF TypeOK
  <2>3. /\ Contains(queue, x) => Contains(queue', x)
        /\ x # d => lost'[x] = lost[x]
        /\ Contains(queue', d) \/ lost'[d] # {}
    BY <2>1, <2>2, PublishMembers
  <2>4. UNCHANGED <<status, worker, upload>>
    BY <1>2 DEF JobPublishes
  <2> QED BY <2>3, <2>4 DEF Accounted, OnTheWay, WorkerHas
<1>3. CASE JobMarks(j)
  <2> DEFINE d == job[j].at
  <2>1. d \in Docs
    BY <1>3 DEF JobMarks, JobHasDoc, TypeOK
  <2>2. x # d => status'[x] = status[x]
    BY <1>3, <2>1, StatusEffect DEF JobMarks
  <2>3. UNCHANGED <<queue, worker, upload>>
    BY <1>3 DEF JobMarks
  <2>4. CASE WorkerHas(d)
    <3>1. UNCHANGED lost
      BY <1>3, <2>4 DEF JobMarks
    <3> QED BY <2>2, <2>3, <2>4, <3>1 DEF Accounted, OnTheWay, WorkerHas
  <2>5. CASE ~WorkerHas(d)
    <3>1. lost'[d] # {} /\ (lost[x] # {} => lost'[x] # {})
      BY <1>3, <2>1, <2>5, LosesEffect DEF JobMarks
    <3> QED BY <2>2, <2>3, <3>1 DEF Accounted, OnTheWay, WorkerHas
  <2> QED BY <2>4, <2>5
<1> QED BY <1>1, <1>2, <1>3

\* The worker lets go of a document at SUCCESS, at ERROR or with a loss.
LEMMA AccountedWorker ==
  ASSUME TInv, NEW x \in Docs, Accounted(x), WorkerNext
  PROVE  Accounted(x)'
<1>1. /\ Contains(queue, x) => Contains(queue', x) \/ worker'.doc = x
      /\ status'[x] # status[x] => worker.doc = x
      /\ worker.doc = x /\ worker'.doc # x
           => status'[x] \in {"SUCCESS", "ERROR"} \/ lost'[x] # {}
      /\ lost[x] # {} => lost'[x] # {}
      /\ upload' = upload
  BY WorkerEffect
<1>2. CASE worker.doc = x
  BY <1>1, <1>2 DEF Accounted, OnTheWay, WorkerHas
<1>3. CASE worker.doc # x
  BY <1>1, <1>3 DEF Accounted, OnTheWay, WorkerHas
<1> QED BY <1>2, <1>3

(***************************************************************************)
(* A document shown as queued or in progress is on its way, or stuck for   *)
(* one of the named reasons.  Inductive with the types alone: every way to *)
(* let go of a document either finishes it or names the reason.            *)
(***************************************************************************)
THEOREM StuckIsExplained == Spec => []StuckExplained
<1>1. Init => StuckExplained
  BY DEF Init, StuckExplained
<1>2. TInv /\ StuckExplained /\ [Next]_vars => StuckExplained'
  <2> SUFFICES ASSUME TInv, [Next]_vars, NEW x \in Docs, Accounted(x)
               PROVE  Accounted(x)'
    BY DEF StuckExplained, Accounted
  <2>1. CASE Crash
    <3>1. UNCHANGED status /\ (Interrupted(x) \/ lost[x] # {} => lost'[x] # {})
      BY <2>1, CrashEffect
    <3> QED BY <3>1 DEF Accounted, OnTheWay, Interrupted
  <2>2. CASE UNCHANGED vars
    BY <2>2 DEF Accounted, OnTheWay, WorkerHas, vars
  <2> QED BY <2>1, <2>2, AccountedUpload, AccountedJob, AccountedWorker DEF Next
<1> QED BY <1>1, <1>2, TInvInit, TInvStep, PTL DEF Spec

-------------------------------------------------------------------------------
(* Searchable documents.                                                   *)

(***************************************************************************)
(* The strengthening of SuccessIsIndexed: while the worker saves, the      *)
(* chunks it has passed can be found, or are known to be missing.          *)
(***************************************************************************)
Settled(d, p) == stored[d][p] > 0 \/ p \in missed[d]

PassedAreStored ==
  worker.pc = "save" =>
    \A p \in 1..Parts : p < worker.part => Settled(worker.doc, p)

StartsAtFirst == worker.pc # "save" => worker.part = 1

SInv == SuccessIsIndexed /\ PassedAreStored /\ StartsAtFirst

\* A step that saves nothing, ends nothing in SUCCESS and leaves the worker
\* outside the save loop, or as it was.
LEMMA SInvQuiet ==
  ASSUME SInv, UNCHANGED <<stored, missed>>,
         \A x \in Docs : status'[x] = "SUCCESS" => status[x] = "SUCCESS",
         UNCHANGED worker \/ (worker'.pc # "save" /\ worker'.part = 1)
  PROVE  SInv'
BY DEF SInv, SuccessIsIndexed, PassedAreStored, StartsAtFirst, Settled

\* Saving one part's vectors settles that part and unsettles none.
LEMMA SaveSettles ==
  ASSUME TypeOK, WorkerSavesPart, worker.doc \in Docs, worker.part \in 1..Parts
  PROVE  /\ \/ stored'[worker.doc][worker.part] > 0
            \/ worker.part \in missed'[worker.doc]
         /\ \A x \in Docs, q \in 1..Parts : Settled(x, q) => Settled(x, q)'
<1> DEFINE d == worker.doc
           p == worker.part
<1>0. /\ stored \in [Docs -> [1..Parts -> Nat]]
      /\ missed \in [Docs -> SUBSET (1..Parts)]
  BY DEF TypeOK
<1>1. CASE stored' = [stored EXCEPT ![d][p] = @ + 1] /\ UNCHANGED missed
  <2>1. stored[d] \in [1..Parts -> Nat] /\ stored[d][p] \in Nat
    BY <1>0
  <2>2. stored'[d] = [stored[d] EXCEPT ![p] = @ + 1]
        /\ \A x \in Docs \ {d} : stored'[x] = stored[x]
    BY <1>0, <1>1
  <2>3. stored'[d][p] > 0 /\ \A q \in 1..Parts : q # p => stored'[d][q] = stored[d][q]
    BY <2>1, <2>2
  <2> QED BY <1>1, <2>2, <2>3 DEF Settled
<1>2. CASE missed' = [missed EXCEPT ![d] = @ \union {p}] /\ UNCHANGED stored
  BY <1>0, <1>2 DEF Settled
<1> QED BY <1>1, <1>2 DEF WorkerSavesPart

\* SUCCESS is only reached after the last part.
LEMMA SInvSaves ==
  ASSUME TInv, SInv, WorkerSavesPart
  PROVE  SInv'
<1> DEFINE d == worker.doc
           p == worker.part
<1>0. TypeOK
  BY DEF TInv
<1>1. worker.pc = "save" /\ p \in 1..Parts /\ d \in Docs
  BY DEF WorkerSavesPart, TInv, TypeOK, WorkerHasDoc
<1>2. worker' = [worker EXCEPT !.part = @ + 1] /\ status' = status
  BY <1>1 DEF WorkerSavesPart
<1>3. worker'.doc = d /\ worker'.part = p + 1 /\ worker'.pc = "save"
  BY <1>0, <1>1, <1>2 DEF TypeOK
<1>4. /\ stored'[d][p] > 0 \/ p \in missed'[d]
      /\ \A x \in Docs, q \in 1..Parts : Settled(x, q) => Settled(x, q)'
  BY <1>0, <1>1, SaveSettles
<1>5. SuccessIsIndexed'
  BY <1>2, <1>4 DEF SInv, SuccessIsIndexed, Settled
<1> HIDE DEF d, p
<1>6. PassedAreStored'
  <2>1. ASSUME NEW q \in 1..Parts, q < p + 1 PROVE (stored'[d][q] > 0 \/ q \in missed'[d])
    <3>1. CASE q = p
      BY <1>4, <3>1 DEF Settled
    <3>2. CASE q # p
      <4>1. q < p
        BY <1>1, <2>1, <3>2
      <4>2. stored[d][q] > 0 \/ q \in missed[d]
        BY <1>1, <4>1 DEF SInv, PassedAreStored, Settled, d, p
      <4> QED BY <1>1, <1>4, <4>2 DEF Settled
    <3> QED BY <3>1, <3>2
  <2> QED BY <1>1, <1>3, <2>1 DEF PassedAreStored, Settled
<1> QED BY <1>3, <1>5, <1>6 DEF SInv, StartsAtFirst

\* Every step of the worker keeps SInv.
LEMMA SInvWorker ==
  ASSUME TInv, SInv, WorkerNext
  PROVE  SInv'
<1>0. TypeOK
  BY DEF TInv
<1>a. \A pc, d : Worker(pc, d).pc = pc /\ Worker(pc, d).part = 1
  BY DEF Worker
<1>1. CASE WorkerSubscribes \/ WorkerTakes \/ WorkerReadsMetadata \/ WorkerOpens
  <2>1. UNCHANGED <<status, stored, missed>>
    BY <1>1 DEF WorkerSubscribes, WorkerTakes, WorkerReadsMetadata, WorkerOpens
  <2>2. CASE \E pc, d : pc # "save" /\ worker' = Worker(pc, d)
    BY <1>a, <2>1, <2>2, SInvQuiet
  <2>3. CASE \E pc \in {"open", "pipeline"} : worker' = [worker EXCEPT !.pc = pc]
    <3>1. worker'.pc # "save" /\ worker'.part = worker.part
      BY <1>0, <2>3 DEF TypeOK
    <3>2. worker.pc # "save"
      BY <1>1 DEF WorkerSubscribes, WorkerTakes, WorkerReadsMetadata, WorkerOpens
    <3> QED BY <2>1, <3>1, <3>2, SInvQuiet DEF SInv, StartsAtFirst
  <2> QED
    BY <1>1, <2>2, <2>3
    DEF WorkerSubscribes, WorkerTakes, WorkerReadsMetadata, WorkerOpens,
        WorkerGivesUp, Idle
<1>2. CASE WorkerMarksInProgress
  <2>1. UNCHANGED <<stored, missed>> /\ worker'.pc # "save" /\ worker'.part = 1
    BY <1>0, <1>2 DEF WorkerMarksInProgress, TypeOK, SInv, StartsAtFirst
  <2>2. \A x \in Docs : status'[x] = "SUCCESS" => status[x] = "SUCCESS"
    BY <1>0, <1>2 DEF WorkerMarksInProgress, UpdateStatus, TypeOK
  <2> QED BY <2>1, <2>2, SInvQuiet
<1>3. CASE WorkerEmbeds
  <2>1. UNCHANGED <<status, stored, missed>> /\ worker.part = 1
    BY <1>3 DEF WorkerEmbeds, SInv, StartsAtFirst
  <2>2. CASE worker' = [worker EXCEPT !.pc = "failed"]
    <3>1. worker'.pc # "save" /\ worker'.part = 1
      BY <1>0, <2>1, <2>2 DEF TypeOK
    <3> QED BY <2>1, <3>1, SInvQuiet
  <2>3. CASE worker' # [worker EXCEPT !.pc = "failed"]
    <3>1. PICK us \in SUBSET (1..Parts) : worker' = [worker EXCEPT !.pc = "save", !.usable = us]
      BY <1>3, <2>3 DEF WorkerEmbeds
    <3>2. worker'.pc = "save" /\ worker'.part = 1
      BY <1>0, <2>1, <3>1 DEF TypeOK
    <3>3. \A p \in 1..Parts : ~(p < 1)
      OBVIOUS
    <3> QED
      BY <2>1, <3>2, <3>3
      DEF SInv, SuccessIsIndexed, PassedAreStored, StartsAtFirst, Settled
  <2> QED BY <2>2, <2>3
<1>4. CASE WorkerSavesPart
  BY <1>4, SInvSaves
<1>5. ASSUME NEW s, WorkerFinishes(s),
             s = "SUCCESS" => \A p \in 1..Parts : Settled(worker.doc, p)
      PROVE  SInv'
  <2>1. /\ UNCHANGED <<stored, missed>>
        /\ worker'.pc # "save" /\ worker'.part = 1
        /\ UNCHANGED status \/ status' = [status EXCEPT ![worker.doc] = s]
    <3>1. UNCHANGED <<stored, missed>> /\ worker' = Worker("waiting", NoDoc)
      BY <1>5 DEF WorkerFinishes, Idle
    <3>2. UNCHANGED status \/ status' = [status EXCEPT ![worker.doc] = s]
      BY <1>5 DEF WorkerFinishes
    <3>3. worker'.pc = "waiting" /\ worker'.part = 1
      BY <1>a, <3>1
    <3> QED BY <3>1, <3>2, <3>3
  <2>2. \A x \in Docs : status'[x] = status[x] \/ (x = worker.doc /\ status'[x] = s)
    BY <1>0, <2>1 DEF TypeOK
  <2>3. SuccessIsIndexed'
    BY <1>5, <2>1, <2>2 DEF SInv, SuccessIsIndexed, Settled
  <2> QED BY <2>1, <2>3 DEF SInv, PassedAreStored, StartsAtFirst
<1>6. CASE WorkerSucceeds
  <2>1. \A p \in 1..Parts : p < worker.part
    BY <1>0, <1>6 DEF WorkerSucceeds, TypeOK
  <2>2. \A p \in 1..Parts : Settled(worker.doc, p)
    BY <1>6, <2>1 DEF WorkerSucceeds, SInv, PassedAreStored
  <2> QED BY <1>5, <1>6, <2>2 DEF WorkerSucceeds
<1>7. CASE WorkerFails
  BY <1>5, <1>7 DEF WorkerFails
<1> QED BY <1>1, <1>2, <1>3, <1>4, <1>6, <1>7 DEF WorkerNext

(***************************************************************************)
(* SUCCESS means searchable but for the chunks whose insert failed or whose*)
(* vector was not one (service.go:690-703).  Inductive together with: the  *)
(* worker has settled the chunks it has passed.                            *)
(***************************************************************************)
THEOREM SuccessMeansIndexed == Spec => []SuccessIsIndexed
<1>1. Init => SInv
  BY DEF Init, SInv, SuccessIsIndexed, PassedAreStored, StartsAtFirst, Worker
<1>2. TInv /\ SInv /\ [Next]_vars => SInv'
  <2> SUFFICES ASSUME TInv, SInv, [Next]_vars PROVE SInv'
    OBVIOUS
  <2>1. ASSUME NEW d \in Docs, UploadStores(d) \/ UploadSaves(d) \/ UploadPublishes(d)
        PROVE  SInv'
    <3>1. UNCHANGED <<stored, missed, worker>>
      BY <2>1 DEF UploadStores, UploadSaves, UploadPublishes
    <3>2. \A x \in Docs : status'[x] = "SUCCESS" => status[x] = "SUCCESS"
      BY <2>1 DEF UploadStores, UploadSaves, UploadPublishes, TInv, TypeOK
    <3> QED BY <3>1, <3>2, SInvQuiet
  <2>2. ASSUME NEW j \in Jobs, JobFetches(j) \/ JobPublishes(j) \/ JobMarks(j)
        PROVE  SInv'
    <3>1. UNCHANGED <<stored, missed, worker>>
      BY <2>2 DEF JobFetches, JobPublishes, JobMarks
    <3>2. \A x \in Docs : status'[x] = "SUCCESS" => status[x] = "SUCCESS"
      BY <2>2 DEF JobFetches, JobPublishes, JobMarks, UpdateStatus, TInv, TypeOK
    <3> QED BY <3>1, <3>2, SInvQuiet
  <2>3. CASE Crash
    <3>1. UNCHANGED <<status, stored, missed>> /\ worker'.pc # "save" /\ worker'.part = 1
      BY <2>3 DEF Crash, Worker
    <3> QED BY <3>1, SInvQuiet
  <2>4. CASE UNCHANGED vars
    BY <2>4, SInvQuiet DEF vars
  <2> QED BY <2>1, <2>2, <2>3, <2>4, SInvWorker DEF Next
<1>3. SInv => SuccessIsIndexed
  BY DEF SInv
<1> QED BY <1>1, <1>2, <1>3, TInvInit, TInvStep, PTL DEF Spec

-------------------------------------------------------------------------------
(* Duplicates.  For a document that no two jobs have fetched, and whose    *)
(* status could always be written, there is never more than one event, in  *)
(* the channel or with the worker, and none comes once a chunk is stored.  *)

Once(q, d) == \A m, n \in DOMAIN q : q[m] = d /\ q[n] = d => m = n
NotStored(d) == \A p \in 1..Parts : stored[d][p] = 0
Marking(j, d) == job[j].pc = "mark" /\ job[j].at = d

OneEvent(d) == Once(queue, d) /\ (worker.doc = d => ~Contains(queue, d))

OneCopy(d) ==
  /\ Contains(queue, d) \/ status[d] = "ERROR" \/ upload[d] \in {"new", "stored", "saved"}
       => NotStored(d)
  /\ \A p \in 1..Parts :
       /\ stored[d][p] <= 1
       /\ worker.doc = d /\ (worker.pc # "save" \/ p >= worker.part) => stored[d][p] = 0

ErrorIsFinal(d) ==
  status[d] = "ERROR" =>
    /\ worker.doc = d => worker.pc = "took"
    /\ WorkerHas(d) => \E j \in Jobs : Marking(j, d)

OneJob(d) ==
  /\ \A j \in Jobs : d \in job[j].todo =>
       /\ upload[d] \in {"done", "failed"}
       /\ Marking(j, d) \/ (status[d] = "ERROR" /\ ~WorkerHas(d))
  /\ \A j, k \in Jobs : d \in job[j].todo /\ d \in job[k].todo => j = k

UploadIsFirst(d) ==
  /\ upload[d] \in {"new", "stored"} => status[d] = "none" /\ ~WorkerHas(d)
  /\ upload[d] = "saved" => status[d] = "QUEUED" /\ ~WorkerHas(d)

Single(d) ==
  OneEvent(d) /\ OneCopy(d) /\ ErrorIsFinal(d) /\ OneJob(d) /\ UploadIsFirst(d)

RestingJobs == \A j \in Jobs : job[j].pc \in {"idle", "done"} => job[j].todo = {}

DInv == RestingJobs /\ \A d \in Docs \ (twice \union unmarked) : Single(d)

\* An event is added to a channel that has none of its document.
LEMMA OnceAppend ==
  ASSUME NEW S, NEW q \in Seq(S), NEW e \in S, NEW d, Once(q, d), d = e => ~Contains(q, e)
  PROVE  Once(Append(q, e), d)
<1>1. /\ Len(q) \in Nat /\ DOMAIN q = 1..Len(q)
      /\ DOMAIN Append(q, e) = 1..(Len(q) + 1)
      /\ \A i \in 1..Len(q) : Append(q, e)[i] = q[i]
      /\ Append(q, e)[Len(q) + 1] = e
  OBVIOUS
<1>2. ASSUME NEW m \in 1..(Len(q) + 1), NEW n \in 1..(Len(q) + 1),
             Append(q, e)[m] = d, Append(q, e)[n] = d
      PROVE  m = n
  <2>1. CASE m \in 1..Len(q) /\ n \in 1..Len(q)
    BY <1>1, <1>2, <2>1 DEF Once
  <2>2. CASE m \notin 1..Len(q) /\ n \notin 1..Len(q)
    BY <1>1, <1>2, <2>2
  <2>3. CASE m \in 1..Len(q) /\ n \notin 1..Len(q)
    <3>1. n = Len(q) + 1 /\ q[m] = d /\ e = d
      BY <1>1, <1>2, <2>3
    <3> QED BY <2>3, <3>1 DEF Contains
  <2>4. CASE m \notin 1..Len(q) /\ n \in 1..Len(q)
    <3>1. m = Len(q) + 1 /\ q[n] = d /\ e = d
      BY <1>1, <1>2, <2>4
    <3> QED BY <2>4, <3>1 DEF Contains
  <2> QED BY <2>1, <2>2, <2>3, <2>4
<1> QED BY <1>1, <1>2 DEF Once

\* The first event is taken from a channel that has it once.
LEMMA OnceTail ==
  ASSUME NEW S, NEW q \in Seq(S), q # <<>>, NEW d, Once(q, d)
  PROVE  /\ Once(Tail(q), d)
         /\ Head(q) = d => ~Contains(Tail(q), d)
<1>1. /\ Len(q) \in Nat \ {0} /\ DOMAIN q = 1..Len(q) /\ Head(q) = q[1]
      /\ Len(Tail(q)) = Len(q) - 1
      /\ DOMAIN Tail(q) = 1..(Len(q) - 1)
      /\ \A i \in 1..(Len(q) - 1) : Tail(q)[i] = q[i + 1]
  OBVIOUS
<1>2. ASSUME NEW m \in 1..(Len(q) - 1), NEW n \in 1..(Len(q) - 1),
             Tail(q)[m] = d, Tail(q)[n] = d
      PROVE  m = n
  <2>1. m + 1 \in 1..Len(q) /\ n + 1 \in 1..Len(q) /\ q[m + 1] = d /\ q[n + 1] = d
    BY <1>1, <1>2
  <2>2. m + 1 = n + 1
    BY <1>1, <2>1 DEF Once
  <2> QED BY <1>1, <2>2
<1>3. ASSUME Head(q) = d, Contains(Tail(q), d) PROVE FALSE
  <2>1. PICK m \in 1..(Len(q) - 1) : Tail(q)[m] = d
    BY <1>1, <1>3 DEF Contains
  <2>2. m + 1 \in 1..Len(q) /\ 1 \in 1..Len(q) /\ q[m + 1] = d /\ q[1] = d
    BY <1>1, <1>3, <2>1
  <2>3. m + 1 = 1
    BY <1>1, <2>2 DEF Once
  <2> QED BY <1>1, <2>3
<1> QED BY <1>1, <1>2, <1>3 DEF Once

\* A Publish of one document changes nothing about the events of the others.
LEMMA PublishOnce ==
  ASSUME TypeOK, NEW d \in Docs, Delivers(d) \/ Drops(d) \/ Aborts(d)
  PROVE  /\ \A x : x # d => (Contains(queue, x)' <=> Contains(queue, x))
         /\ \A x : x # d /\ Once(queue, x) => Once(queue, x)'
         /\ ~Contains(queue, d) => Once(queue, d)'
<1>0. queue \in Seq(Docs)
  BY DEF TypeOK
<1>1. CASE Delivers(d)
  <2>1. queue' = Append(queue, d)
    BY <1>1 DEF Delivers
  <2>2. \A x : Contains(queue', x) <=> Contains(queue, x) \/ x = d
    BY <1>0, <2>1, AppendMembers
  <2>3. ASSUME NEW x, x # d, Once(queue, x) PROVE Once(queue', x)
    BY <1>0, <2>1, <2>3, OnceAppend
  <2>4. ASSUME ~Contains(queue, d) PROVE Once(queue', d)
    <3>1. Once(queue, d)
      BY <2>4 DEF Contains, Once
    <3> QED BY <1>0, <2>1, <2>4, <3>1, OnceAppend
  <2> QED BY <2>2, <2>3, <2>4
<1>2. CASE Drops(d) \/ Aborts(d)
  <2>1. queue' = queue
    BY <1>2 DEF Drops, Aborts
  <2> QED BY <2>1 DEF Contains, Once
<1> QED BY <1>1, <1>2

(***************************************************************************)
(* A step that does not touch a document, or only takes it off the list of *)
(* a job, keeps all that is said of it.                                    *)
(***************************************************************************)
Untouched(d) ==
  /\ Contains(queue, d)' <=> Contains(queue, d)
  /\ Once(queue, d) => Once(queue, d)'
  /\ worker'.doc = d <=> worker.doc = d
  /\ worker.doc = d => worker' = worker
  /\ status'[d] = status[d] /\ stored'[d] = stored[d] /\ upload'[d] = upload[d]
  /\ \A j \in Jobs : /\ d \in job'[j].todo => d \in job[j].todo
                     /\ Marking(j, d) => Marking(j, d)'

\* A document that is not touched stays single.
LEMMA UntouchedSingle ==
  ASSUME NEW d \in Docs, Single(d), Untouched(d)
  PROVE  Single(d)'
<1>1. OneEvent(d)'
  BY DEF Single, OneEvent, Untouched
<1>2. OneCopy(d)'
  BY DEF Single, OneCopy, Untouched, NotStored
<1>3. WorkerHas(d)' <=> WorkerHas(d)
  BY DEF Untouched, WorkerHas
<1>4. ErrorIsFinal(d)'
  <2>1. \A j \in Jobs : Marking(j, d) => Marking(j, d)'
    BY DEF Untouched
  <2> QED BY <1>3, <2>1 DEF Single, ErrorIsFinal, Untouched
<1>5. OneJob(d)'
  BY <1>3 DEF Single, OneJob, Untouched
<1>6. UploadIsFirst(d)'
  BY <1>3 DEF Single, UploadIsFirst, Untouched
<1> QED BY <1>1, <1>2, <1>4, <1>5, <1>6 DEF Single

\* The upload request of a document is its first publisher.
LEMMA SingleUpload ==
  ASSUME TInv, NEW x \in Docs, Single(x), NEW d \in Docs,
         UploadStores(d) \/ UploadSaves(d) \/ UploadPublishes(d)
  PROVE  Single(x)'
<1>0. TypeOK
  BY DEF TInv
<1>1. UNCHANGED <<worker, job, stored>> /\ \A j \in Jobs : Marking(j, x)' <=> Marking(j, x)
  BY DEF UploadStores, UploadSaves, UploadPublishes, Marking
<1>2. CASE x # d
  <2>1. (Contains(queue, x)' <=> Contains(queue, x)) /\ (Once(queue, x) => Once(queue, x)')
    <3>1. CASE UNCHANGED queue
      BY <3>1 DEF Contains, Once
    <3>2. CASE UploadPublishes(d)
      BY <1>0, <1>2, <3>2, PublishOnce DEF UploadPublishes
    <3> QED BY <3>1, <3>2 DEF UploadStores, UploadSaves
  <2>2. status'[x] = status[x] /\ upload'[x] = upload[x]
    BY <1>0, <1>2 DEF UploadStores, UploadSaves, UploadPublishes, TypeOK
  <2> QED BY <1>1, <2>1, <2>2, UntouchedSingle DEF Untouched
<1>3. CASE x = d
  <2>1. upload[d] \in {"new", "stored", "saved"} /\ ~WorkerHas(d) /\ NotStored(d)
        /\ status[d] # "ERROR" /\ \A j \in Jobs : d \notin job[j].todo
    BY <1>3 DEF UploadStores, UploadSaves, UploadPublishes, Single, UploadIsFirst,
                OneCopy, OneJob
  <2>2. NotStored(d)' /\ \A p \in 1..Parts : stored'[d][p] = 0
    BY <1>1, <2>1 DEF NotStored
  <2>3. OneCopy(x)'
    BY <1>1, <1>3, <2>2 DEF OneCopy
  <2>4. OneJob(x)'
    BY <1>1, <1>3, <2>1 DEF OneJob
  <2>5. status'[d] # "ERROR"
    BY <1>0, <2>1 DEF UploadStores, UploadSaves, UploadPublishes, TypeOK
  <2>6. OneEvent(x)'
    <3>1. CASE UNCHANGED queue
      BY <1>1, <3>1 DEF Single, OneEvent, Contains, Once
    <3>2. CASE UploadPublishes(d)
      <4>1. ~Contains(queue, d) /\ worker'.doc # d
        BY <1>1, <2>1 DEF WorkerHas
      <4> QED BY <1>0, <1>3, <3>2, <4>1, PublishOnce DEF UploadPublishes, OneEvent
    <3> QED BY <3>1, <3>2 DEF UploadStores, UploadSaves
  <2>7. UploadIsFirst(x)'
    <3>1. CASE UploadStores(d)
      BY <1>0, <1>3, <2>1, <3>1
      DEF UploadStores, TypeOK, Single, UploadIsFirst, WorkerHas, Contains
    <3>2. CASE UploadSaves(d)
      BY <1>0, <1>3, <2>1, <3>2
      DEF UploadSaves, TypeOK, Single, UploadIsFirst, WorkerHas, Contains
    <3>3. CASE UploadPublishes(d)
      BY <1>0, <1>3, <3>3 DEF UploadPublishes, TypeOK, UploadIsFirst
    <3> QED BY <3>1, <3>2, <3>3
  <2> QED BY <1>3, <2>3, <2>4, <2>5, <2>6, <2>7 DEF Single, ErrorIsFinal
<1> QED BY <1>2, <1>3

\* A job that lets go of the documents of its list, or of one of them.
LEMMA JobLets ==
  ASSUME TInv, NEW x \in Docs, Single(x), NEW j \in Jobs, ~Marking(j, x),
         \A k \in Jobs \ {j} : job'[k] = job[k],
         x \in job'[j].todo => x \in job[j].todo,
         UNCHANGED <<stored, upload, worker>>, status'[x] = status[x],
         Contains(queue, x)' <=> Contains(queue, x), Once(queue, x) => Once(queue, x)'
  PROVE  Single(x)'
<1>1. \A k \in Jobs : /\ x \in job'[k].todo => x \in job[k].todo
                      /\ Marking(k, x) => Marking(k, x)'
  BY DEF Marking
<1> QED BY <1>1, UntouchedSingle DEF Untouched

\* A job that fetches a document nobody else has on a list.
LEMMA SingleFetch ==
  ASSUME TInv, RestingJobs, NEW x \in Docs, Single(x), NEW j \in Jobs, JobFetches(j),
         x \notin twice'
  PROVE  Single(x)'
<1> DEFINE failed == {d \in Docs : status[d] = "ERROR"}
           fresh == [pc |-> "publish", todo |-> failed, at |-> NoDoc]
<1>0. TypeOK /\ JobHasDoc
  BY DEF TInv
<1>1. /\ job[j].pc = "idle" /\ job[j].todo = {}
      /\ UNCHANGED <<status, stored, upload, queue, worker>>
      /\ \A k \in Jobs \ {j} : job'[k] = job[k]
  BY <1>0 DEF JobFetches, RestingJobs, TypeOK
<1>2. (Contains(queue, x)' <=> Contains(queue, x)) /\ (Once(queue, x) => Once(queue, x)')
  BY <1>1 DEF Contains, Once
<1>3. CASE x \notin job'[j].todo
  BY <1>1, <1>2, <1>3, JobLets DEF Marking
<1>4. CASE x \in job'[j].todo
  <2>1. /\ failed # {} /\ job' = [job EXCEPT ![j] = fresh]
        /\ twice' = twice \union {d \in failed : \E k \in Jobs : d \in job[k].todo}
    BY <1>0, <1>4 DEF JobFetches, JobDone, TypeOK
  <2>2. job'[j].todo = failed
    BY <1>0, <2>1 DEF TypeOK
  <2>3. status[x] = "ERROR" /\ \A k \in Jobs : x \notin job[k].todo
    BY <1>4, <2>1, <2>2
  <2>4. \A k \in Jobs : ~Marking(k, x)
    BY <1>0, <2>3 DEF Marking, JobHasDoc
  <2>5. ~WorkerHas(x) /\ upload[x] \in {"done", "failed"}
    BY <1>0, <2>3, <2>4 DEF Single, ErrorIsFinal, UploadIsFirst, TypeOK
  <2>6. OneEvent(x)' /\ OneCopy(x)' /\ UploadIsFirst(x)' /\ ~WorkerHas(x)'
    BY <1>1, <1>2, <2>5
    DEF Single, OneEvent, OneCopy, NotStored, UploadIsFirst, WorkerHas
  <2>7. OneJob(x)'
    BY <1>1, <2>3, <2>5, <2>6 DEF OneJob
  <2> QED BY <2>6, <2>7 DEF Single, ErrorIsFinal, WorkerHas
<1> QED BY <1>3, <1>4

\* A job that publishes a document which is in nobody's hands but its own.
LEMMA SinglePublish ==
  ASSUME TInv, NEW x \in Docs, Single(x), NEW j \in Jobs, JobPublishes(j)
  PROVE  Single(x)'
<1>0. TypeOK
  BY DEF TInv
<1>1. job[j].pc = "publish" /\ UNCHANGED <<status, stored, upload, worker>>
  BY DEF JobPublishes
<1>2. PICK d \in job[j].todo :
        \/ /\ Delivers(d) \/ Drops(d)
           /\ job' = [job EXCEPT ![j] = [@ EXCEPT !.pc = "mark", !.at = d]]
        \/ /\ Aborts(d)
           /\ job' = [job EXCEPT ![j] = JobDone]
  BY DEF JobPublishes
<1>3. /\ d \in Docs /\ \A k \in Jobs \ {j} : job'[k] = job[k]
      /\ \A k \in Jobs \ {j} : Marking(k, x) => Marking(k, x)'
  BY <1>0, <1>2 DEF TypeOK, Marking
<1>4. ~Marking(j, x)
  BY <1>1 DEF Marking
<1>5. CASE Aborts(d) /\ job' = [job EXCEPT ![j] = JobDone]
  <2>1. job'[j].todo = {} /\ UNCHANGED queue
    BY <1>0, <1>5 DEF TypeOK, JobDone, Aborts
  <2> QED BY <1>1, <1>3, <1>4, <2>1, JobLets DEF Contains, Once
<1>6. CASE /\ Delivers(d) \/ Drops(d)
           /\ job' = [job EXCEPT ![j] = [@ EXCEPT !.pc = "mark", !.at = d]]
  <2>1. job'[j].todo = job[j].todo /\ job'[j].pc = "mark" /\ job'[j].at = d
    BY <1>0, <1>6 DEF TypeOK
  <2>2. CASE x # d
    <3>1. (Contains(queue, x)' <=> Contains(queue, x)) /\ (Once(queue, x) => Once(queue, x)')
      BY <1>0, <1>3, <1>6, <2>2, PublishOnce
    <3> QED BY <1>1, <1>3, <1>4, <2>1, <3>1, JobLets
  <2>3. CASE x = d
    <3>1. /\ upload[x] \in {"done", "failed"} /\ status[x] = "ERROR" /\ ~WorkerHas(x)
          /\ \A k \in Jobs \ {j} : x \notin job[k].todo
      BY <1>2, <1>4, <2>3 DEF Single, OneJob
    <3>2. Marking(j, x)'
      BY <2>1, <2>3 DEF Marking
    <3>3. OneEvent(x)' /\ worker'.doc # x
      BY <1>0, <1>1, <1>3, <1>6, <2>3, <3>1, PublishOnce DEF OneEvent, WorkerHas
    <3>4. OneCopy(x)'
      BY <1>1, <3>1 DEF Single, OneCopy, NotStored
    <3>5. OneJob(x)' /\ UploadIsFirst(x)' /\ ErrorIsFinal(x)'
      BY <1>1, <1>3, <3>1, <3>2, <3>3 DEF OneJob, UploadIsFirst, ErrorIsFinal
    <3> QED BY <3>3, <3>4, <3>5 DEF Single
  <2> QED BY <2>2, <2>3
<1> QED BY <1>2, <1>5, <1>6

\* A job that marks the document it has published.
LEMMA SingleMark ==
  ASSUME TInv, NEW x \in Docs, Single(x), NEW j \in Jobs, JobMarks(j), x \notin unmarked'
  PROVE  Single(x)'
<1> DEFINE d == job[j].at
<1>0. TypeOK /\ JobHasDoc
  BY DEF TInv
<1>1. /\ job[j].pc = "mark" /\ UNCHANGED <<stored, upload, worker, queue>>
      /\ job' = [job EXCEPT ![j] = JobAfter(j, d)] /\ UpdateStatus(d, "QUEUED")
  BY DEF JobMarks
<1>2. /\ d \in job[j].todo /\ d \in Docs
      /\ job'[j].todo \subseteq job[j].todo \ {d}
      /\ \A k \in Jobs \ {j} : job'[k] = job[k]
  BY <1>0, <1>1 DEF JobHasDoc, TypeOK, JobAfter, JobDone
<1>3. (Contains(queue, x)' <=> Contains(queue, x)) /\ (Once(queue, x) => Once(queue, x)')
  BY <1>1 DEF Contains, Once
<1>4. CASE x # d
  <2>1. status'[x] = status[x] /\ ~Marking(j, x)
    BY <1>0, <1>1, <1>2, <1>4, StatusEffect DEF Marking
  <2> QED BY <1>1, <1>2, <1>3, <2>1, JobLets
<1>5. CASE x = d
  <2>1. status'[x] = "QUEUED"
    BY <1>0, <1>1, <1>2, <1>5 DEF UpdateStatus, TypeOK
  <2>2. upload[x] \in {"done", "failed"} /\ \A k \in Jobs : x \notin job'[k].todo
    BY <1>2, <1>5 DEF Single, OneJob
  <2>3. OneEvent(x)' /\ OneCopy(x)'
    BY <1>1, <1>3, <2>1, <2>2 DEF Single, OneEvent, OneCopy, NotStored
  <2>4. OneJob(x)' /\ UploadIsFirst(x)' /\ ErrorIsFinal(x)'
    BY <1>1, <2>1, <2>2 DEF OneJob, UploadIsFirst, ErrorIsFinal
  <2> QED BY <2>3, <2>4 DEF Single
<1> QED BY <1>4, <1>5

\* A step of the worker that concerns another document.
LEMMA WorkerOthers ==
  ASSUME NEW x \in Docs, Single(x), worker.doc # x, worker'.doc # x,
         UNCHANGED <<upload, job, queue>>,
         status'[x] = status[x], stored'[x] = stored[x]
  PROVE  Single(x)'
<1>1. (Contains(queue, x)' <=> Contains(queue, x)) /\ (Once(queue, x) => Once(queue, x)')
  BY DEF Contains, Once
<1> QED BY <1>1, UntouchedSingle DEF Untouched, Marking

\* A step of the worker with the document it has taken: once it has written a
\* status it may say ERROR only of one that it gives back with no chunk stored.
LEMMA WorkerOwn ==
  ASSUME TInv, NEW x \in Docs, Single(x), worker.doc = x,
         UNCHANGED <<upload, job, queue>>,
         status'[x] = "ERROR" => worker'.doc # x /\ NotStored(x)',
         \A p \in 1..Parts :
           /\ stored'[x][p] <= 1
           /\ worker'.doc = x /\ (worker'.pc # "save" \/ p >= worker'.part)
                => stored'[x][p] = 0
  PROVE  Single(x)'
<1>0. TypeOK
  BY DEF TInv
<1>1. WorkerHas(x) /\ ~Contains(queue, x) /\ Once(queue, x)
  BY DEF WorkerHas, Single, OneEvent
<1>2. upload[x] \in {"done", "failed"}
  BY <1>0, <1>1 DEF Single, UploadIsFirst, TypeOK
<1>3. ~Contains(queue, x)' /\ Once(queue, x)'
  BY <1>1 DEF Contains, Once
<1>4. OneEvent(x)' /\ UploadIsFirst(x)'
  BY <1>2, <1>3 DEF OneEvent, UploadIsFirst
<1>5. OneCopy(x)'
  BY <1>2, <1>3 DEF OneCopy
<1>6. ErrorIsFinal(x)'
  BY <1>3 DEF ErrorIsFinal, WorkerHas
<1>7. OneJob(x)'
  BY <1>1, <1>2 DEF Single, OneJob, Marking
<1> QED BY <1>4, <1>5, <1>6, <1>7 DEF Single

\* The worker takes a document's only event.
LEMMA SingleTake ==
  ASSUME TInv, NEW x \in Docs, Single(x), WorkerTakes
  PROVE  Single(x)'
<1>1. /\ queue \in Seq(Docs) /\ queue # <<>> /\ queue' = Tail(queue)
      /\ worker' = Worker("took", Head(queue)) /\ worker.doc = NoDoc
      /\ UNCHANGED <<status, stored, upload, job>>
  BY DEF TInv, TypeOK, WorkerHasDoc, WorkerTakes
<1>2. worker'.pc = "took" /\ worker'.doc = Head(queue)
  BY <1>1 DEF Worker
<1>3. \A y : Contains(queue, y) <=> Contains(Tail(queue), y) \/ y = Head(queue)
  BY <1>1, TakeMembers
<1>4. Once(Tail(queue), x) /\ (Head(queue) = x => ~Contains(Tail(queue), x))
  BY <1>1, OnceTail DEF Single, OneEvent
<1>5. CASE x # Head(queue)
  BY <1>1, <1>2, <1>3, <1>4, <1>5, UntouchedSingle DEF Untouched, Marking
<1>6. CASE x = Head(queue)
  <2>1. /\ WorkerHas(x) /\ Contains(queue, x) /\ NotStored(x)
        /\ upload[x] \in {"done", "failed"}
    BY <1>3, <1>6 DEF WorkerHas, Single, OneCopy, UploadIsFirst, TInv, TypeOK
  <2>2. OneEvent(x)' /\ UploadIsFirst(x)'
    BY <1>1, <1>4, <1>6, <2>1 DEF OneEvent, UploadIsFirst
  <2>3. OneCopy(x)'
    BY <1>1, <2>1 DEF OneCopy, NotStored
  <2>4. ErrorIsFinal(x)' /\ OneJob(x)'
    BY <1>1, <1>2, <2>1 DEF Single, ErrorIsFinal, OneJob, Marking
  <2> QED BY <2>2, <2>3, <2>4 DEF Single
<1> QED BY <1>5, <1>6

\* The worker saves one more chunk of its document.
LEMMA SingleSave ==
  ASSUME TInv, NEW x \in Docs, Single(x), WorkerSavesPart
  PROVE  Single(x)'
<1> DEFINE d == worker.doc
           n == worker.part
<1>0. TypeOK
  BY DEF TInv
<1>1. /\ worker.pc = "save" /\ n \in 1..Parts /\ d \in Docs
      /\ UNCHANGED <<status, upload, job, queue>>
      /\ worker' = [worker EXCEPT !.part = @ + 1]
  BY DEF WorkerSavesPart, TInv, TypeOK, WorkerHasDoc
<1>2. worker'.pc = "save" /\ worker'.doc = d /\ worker'.part = n + 1
  BY <1>0, <1>1 DEF TypeOK
<1>3. UNCHANGED stored \/ stored' = [stored EXCEPT ![d][n] = @ + 1]
  BY DEF WorkerSavesPart
<1>4. stored \in [Docs -> [1..Parts -> Nat]]
  BY <1>0 DEF TypeOK
<1>5. CASE x # d
  <2>1. stored'[x] = stored[x]
    BY <1>3, <1>4, <1>5
  <2> QED BY <1>1, <1>2, <1>5, <2>1, WorkerOthers
<1>6. CASE x = d
  <2>1. status'[x] # "ERROR"
    BY <1>1, <1>6 DEF Single, ErrorIsFinal
  <2>2. ASSUME NEW p \in 1..Parts
        PROVE  stored'[x][p] <= 1 /\ (p >= n + 1 => stored'[x][p] = 0)
    <3>0. stored[x] \in [1..Parts -> Nat] /\ stored[x][p] \in Nat
      BY <1>4
    <3>1. stored[x][p] <= 1 /\ (p >= n => stored[x][p] = 0)
      BY <1>1, <1>6 DEF Single, OneCopy
    <3>2. CASE p = n
      <4>1. stored'[x][p] \in {stored[x][p], stored[x][p] + 1}
        BY <1>1, <1>3, <1>4, <1>6, <3>0, <3>2
      <4> QED BY <1>1, <3>0, <3>1, <3>2, <4>1
    <3>3. CASE p # n
      <4>1. stored'[x][p] = stored[x][p]
        BY <1>1, <1>3, <1>4, <1>6, <3>0, <3>3
      <4> QED BY <1>1, <3>0, <3>1, <3>3, <4>1
    <3> QED BY <3>2, <3>3
  <2> QED BY <1>1, <1>2, <1>6, <2>1, <2>2, WorkerOwn
<1> QED BY <1>5, <1>6

\* Every step of the worker keeps a document single.
LEMMA SingleWorker ==
  ASSUME TInv, NEW x \in Docs, Single(x), WorkerNext, x \notin unmarked'
  PROVE  Single(x)'
<1>0. /\ TypeOK /\ Idle.doc = NoDoc /\ x # NoDoc
      /\ worker.pc \in {"starting", "waiting"} => worker.doc = NoDoc
      /\ worker.pc \notin {"starting", "waiting"} => worker.doc \in Docs
  BY DEF TInv, TypeOK, WorkerHasDoc, Idle, Worker
<1>1. CASE WorkerSubscribes
  BY <1>0, <1>1, WorkerOthers DEF WorkerSubscribes
<1>2. CASE WorkerTakes
  BY <1>2, SingleTake
<1>3. CASE WorkerMarksInProgress
  <2>1. /\ worker'.doc = worker.doc /\ worker'.pc = "metadata" /\ worker.pc = "took"
        /\ UNCHANGED <<stored, upload, job, queue>>
        /\ UpdateStatus(worker.doc, "IN_PROGRESS") /\ worker.doc \in Docs
    BY <1>0, <1>3 DEF WorkerMarksInProgress, TypeOK
  <2>2. CASE x # worker.doc
    <3>1. status'[x] = status[x]
      BY <1>0, <2>1, <2>2, StatusEffect
    <3> QED BY <2>1, <2>2, <3>1, WorkerOthers
  <2>3. CASE x = worker.doc
    <3>1. status'[x] = "IN_PROGRESS"
      BY <1>0, <2>1, <2>3 DEF UpdateStatus, TypeOK
    <3>2. \A p \in 1..Parts : stored'[x][p] = 0
      BY <2>1, <2>3 DEF Single, OneCopy
    <3> QED BY <2>1, <2>3, <3>1, <3>2, WorkerOwn
  <2> QED BY <2>2, <2>3
<1>4. CASE WorkerReadsMetadata \/ WorkerOpens \/ WorkerEmbeds
  <2>1. /\ worker.pc \in {"metadata", "open", "pipeline"}
        /\ UNCHANGED <<status, stored, upload, job, queue>>
        /\ worker'.doc \in {worker.doc, NoDoc}
    BY <1>0, <1>4
    DEF WorkerReadsMetadata, WorkerOpens, WorkerEmbeds, WorkerGivesUp, TypeOK
  <2>2. CASE x # worker.doc
    BY <1>0, <2>1, <2>2, WorkerOthers
  <2>3. CASE x = worker.doc
    <3>1. status'[x] # "ERROR" /\ \A p \in 1..Parts : stored'[x][p] = 0
      BY <2>1, <2>3 DEF Single, ErrorIsFinal, OneCopy
    <3> QED BY <2>1, <2>3, <3>1, WorkerOwn
  <2> QED BY <2>2, <2>3
<1>5. CASE WorkerSavesPart
  BY <1>5, SingleSave
<1>6. CASE WorkerSucceeds \/ WorkerFails
  <2>1. /\ worker.pc \in {"save", "failed"} /\ worker'.doc = NoDoc
        /\ UNCHANGED <<stored, upload, job, queue>>
    BY <1>0, <1>6 DEF WorkerSucceeds, WorkerFails, WorkerFinishes
  <2>2. /\ x # worker.doc => status'[x] = status[x]
        /\ worker.pc = "save" => status'[x] = status[x] \/ status'[x] = "SUCCESS"
    BY <1>0, <1>6 DEF WorkerSucceeds, WorkerFails, WorkerFinishes, TypeOK
  <2>3. CASE x # worker.doc
    BY <1>0, <2>1, <2>2, <2>3, WorkerOthers
  <2>4. CASE x = worker.doc
    <3>1. status[x] # "ERROR" /\ \A p \in 1..Parts : stored'[x][p] <= 1
      BY <2>1, <2>4 DEF Single, ErrorIsFinal, OneCopy
    <3>2. status'[x] = "ERROR" => NotStored(x)'
      BY <2>1, <2>2, <2>4, <3>1 DEF Single, OneCopy, NotStored
    <3> QED BY <1>0, <2>1, <2>4, <3>1, <3>2, WorkerOwn
  <2> QED BY <2>3, <2>4
<1> QED BY <1>1, <1>2, <1>3, <1>4, <1>5, <1>6 DEF WorkerNext

\* A crash empties everybody's hands; what is stored and marked stays.
LEMMA SingleCrash ==
  ASSUME TInv, RestingJobs, NEW x \in Docs, Single(x), Crash
  PROVE  Single(x)'
<1>0. TypeOK /\ x # NoDoc
  BY DEF TInv
<1>1. /\ ~Contains(queue', x) /\ Once(queue', x) /\ worker'.doc # x
      /\ UNCHANGED <<status, stored>>
  BY <1>0 DEF Crash, Worker, Contains, Once
<1>2. upload'[x] \in {"done", "failed"} \/ (upload'[x] = "new" /\ upload[x] = "new")
  BY <1>0 DEF Crash, TypeOK
<1>3. \A j \in Jobs : job'[j].todo = {}
  BY <1>0 DEF Crash, RestingJobs, JobDone, TypeOK
<1>4. OneEvent(x)' /\ OneJob(x)'
  BY <1>1, <1>3 DEF OneEvent, OneJob
<1>5. OneCopy(x)'
  BY <1>1, <1>2 DEF Single, OneCopy, NotStored
<1>6. ErrorIsFinal(x)' /\ UploadIsFirst(x)'
  BY <1>1, <1>2 DEF Single, ErrorIsFinal, UploadIsFirst, WorkerHas
<1> QED BY <1>4, <1>5, <1>6 DEF Single

\* A job that is not running has nothing left to do.
LEMMA JobsRest ==
  ASSUME TInv, RestingJobs, [Next]_vars
  PROVE  RestingJobs'
<1>0. TypeOK
  BY DEF TInv
<1>1. CASE UNCHANGED job
  BY <1>1 DEF RestingJobs
<1>2. ASSUME NEW j \in Jobs, JobFetches(j) \/ JobPublishes(j) \/ JobMarks(j)
      PROVE  RestingJobs'
  <2>1. /\ \A k \in Jobs \ {j} : job'[k] = job[k]
        /\ job'[j].pc \in {"idle", "done"} => job'[j].todo = {}
    <3>0. job \in JobType /\ JobDone.todo = {}
      BY <1>0 DEF TypeOK, JobType, JobDone
    <3>1. CASE JobFetches(j)
      <4>1. \E r : job' = [job EXCEPT ![j] = r] /\ (r = JobDone \/ r.pc = "publish")
        BY <3>1 DEF JobFetches
      <4> QED BY <3>0, <4>1 DEF JobType
    <3>2. CASE JobPublishes(j)
      <4>1. PICK d : \/ job' = [job EXCEPT ![j] = [@ EXCEPT !.pc = "mark", !.at = d]]
                     \/ job' = [job EXCEPT ![j] = JobDone]
        BY <3>2 DEF JobPublishes
      <4>2. CASE job' = [job EXCEPT ![j] = [@ EXCEPT !.pc = "mark", !.at = d]]
        <5>1. job'[j].pc = "mark" /\ \A k \in Jobs \ {j} : job'[k] = job[k]
          BY <3>0, <4>2 DEF JobType
        <5> QED BY <5>1
      <4>3. CASE job' = [job EXCEPT ![j] = JobDone]
        BY <3>0, <4>3 DEF JobType
      <4> QED BY <4>1, <4>2, <4>3
    <3>3. CASE JobMarks(j)
      <4> DEFINE r == JobAfter(j, job[j].at)
      <4>1. job' = [job EXCEPT ![j] = r]
        BY <3>3 DEF JobMarks
      <4>2. r = JobDone \/ r.pc = "publish"
        BY DEF JobAfter
      <4> HIDE DEF r
      <4> QED BY <3>0, <4>1, <4>2 DEF JobType
    <3> QED BY <1>2, <3>1, <3>2, <3>3
  <2> QED BY <2>1 DEF RestingJobs
<1>3. CASE Crash
  BY <1>0, <1>3 DEF Crash, RestingJobs, JobDone, TypeOK
<1> QED
  BY <1>1, <1>2, <1>3, WorkerEffect
  DEF Next, vars, UploadStores, UploadSaves, UploadPublishes

\* DInv holds before the first upload.
LEMMA DInvInit == Init => DInv
<1> SUFFICES ASSUME Init PROVE DInv
  OBVIOUS
<1>1. RestingJobs
  BY DEF Init, RestingJobs
<1>2. ASSUME NEW x \in Docs PROVE Single(x)
  <2>1. /\ ~Contains(queue, x) /\ Once(queue, x) /\ worker.doc # x
        /\ upload[x] = "new" /\ status[x] = "none"
        /\ \A j \in Jobs : job[j].todo = {}
        /\ \A p \in 1..Parts : stored[x][p] = 0
    BY DEF Init, Worker, Contains, Once
  <2> QED
    BY <2>1 DEF Single, OneEvent, OneCopy, NotStored, ErrorIsFinal, OneJob,
                UploadIsFirst, WorkerHas
<1> QED BY <1>1, <1>2 DEF DInv

\* The history is never rewritten.
LEMMA HistoryGrows ==
  ASSUME [Next]_vars
  PROVE  twice \subseteq twice' /\ unmarked \subseteq unmarked'
BY DEF Next, vars, WorkerNext, UploadStores, UploadSaves, UploadPublishes,
       JobFetches, JobPublishes, JobMarks, UpdateStatus, WorkerSubscribes,
       WorkerTakes, WorkerMarksInProgress, WorkerReadsMetadata, WorkerOpens,
       WorkerEmbeds, WorkerSavesPart, WorkerSucceeds, WorkerFails,
       WorkerFinishes, Crash

\* Every step keeps DInv.
LEMMA DInvStep == TInv /\ DInv /\ [Next]_vars => DInv'
<1> SUFFICES ASSUME TInv, DInv, [Next]_vars, NEW x \in Docs,
                    x \notin twice', x \notin unmarked'
             PROVE  Single(x)'
  BY JobsRest DEF DInv
<1>1. Single(x) /\ RestingJobs
  BY HistoryGrows DEF DInv
<1>2. CASE UNCHANGED vars
  BY <1>1, <1>2, UntouchedSingle DEF vars, Untouched, Marking, Contains, Once
<1> QED
  BY <1>1, <1>2, SingleUpload, SingleFetch, SinglePublish, SingleMark,
     SingleWorker, SingleCrash
  DEF Next

(***************************************************************************)
(* No chunk is stored twice unless two jobs overlapped on its document or  *)
(* an error kept the document's status from being written, however many    *)
(* jobs there are and wherever the process dies.  Inductive together with  *)
(* Single: one event at a time, and none once something is stored.         *)
(***************************************************************************)
THEOREM DuplicatesNeedOverlap == Spec => []DuplicateNeedsOverlap
<1>1. TInv /\ DInv => DuplicateNeedsOverlap
  <2> SUFFICES ASSUME TInv, DInv, NEW d \in Docs, d \notin twice \union unmarked,
                      NEW p \in 1..Parts, stored[d][p] > 1
               PROVE  FALSE
    BY DEF DuplicateNeedsOverlap
  <2>1. stored[d][p] <= 1 /\ stored[d][p] \in Nat
    BY DEF DInv, Single, OneCopy, TInv, TypeOK
  <2> QED BY <2>1
<1> QED BY <1>1, DInvInit, DInvStep, TInvInit, TInvStep, PTL DEF Spec

-------------------------------------------------------------------------------
(* Finished documents.                                                     *)

\* No event of a finished document is on its way or being worked on.
Rests(d) == status[d] = "SUCCESS" => ~WorkerHas(d)
SuccessRests == \A d \in Docs \ (twice \union unmarked) : Rests(d)

\* A document that is neither in the channel nor with the worker stays so.
LEMMA RestsKept ==
  ASSUME NEW x \in Docs, Rests(x), status'[x] = "SUCCESS" => status[x] = "SUCCESS",
         Contains(queue', x) => Contains(queue, x), worker'.doc = x => worker.doc = x
  PROVE  Rests(x)'
BY DEF Rests, WorkerHas

\* Only the uploads of new documents and the jobs of failed ones publish.
LEMMA RestsPublishers ==
  ASSUME TInv, NEW x \in Docs, Single(x), Rests(x),
         \/ \E d \in Docs : UploadStores(d) \/ UploadSaves(d) \/ UploadPublishes(d)
         \/ \E j \in Jobs : JobFetches(j) \/ JobPublishes(j) \/ JobMarks(j)
  PROVE  Rests(x)'
<1>0. TypeOK /\ JobHasDoc
  BY DEF TInv
<1>1. ASSUME UNCHANGED <<queue, worker>>,
             status'[x] = "SUCCESS" => status[x] = "SUCCESS"
      PROVE  Rests(x)'
  BY <1>1, RestsKept
<1>2. ASSUME NEW d \in Docs, UploadStores(d) \/ UploadSaves(d) PROVE Rests(x)'
  <2>1. UNCHANGED <<queue, worker>> /\ (status'[x] = "SUCCESS" => status[x] = "SUCCESS")
    BY <1>0, <1>2 DEF UploadStores, UploadSaves, TypeOK
  <2> QED BY <1>1, <2>1
<1>3. ASSUME NEW j \in Jobs, JobFetches(j) PROVE Rests(x)'
  BY <1>1, <1>3 DEF JobFetches
<1>4. ASSUME NEW j \in Jobs, JobMarks(j) PROVE Rests(x)'
  <2>1. UNCHANGED <<queue, worker>> /\ (status'[x] = "SUCCESS" => status[x] = "SUCCESS")
    BY <1>0, <1>4 DEF JobMarks, UpdateStatus, TypeOK
  <2> QED BY <1>1, <2>1
<1>5. ASSUME NEW d \in Docs, Delivers(d) \/ Drops(d) \/ Aborts(d), status[d] # "SUCCESS",
             UNCHANGED <<status, worker>>
      PROVE  Rests(x)'
  <2>1. CASE x = d
    BY <1>5, <2>1 DEF Rests
  <2>2. CASE x # d
    <3>1. Contains(queue', x) => Contains(queue, x)
      BY <1>0, <1>5, <2>2, PublishMembers
    <3> QED BY <1>5, <3>1, RestsKept
  <2> QED BY <2>1, <2>2
<1>6. ASSUME NEW d \in Docs, UploadPublishes(d) PROVE Rests(x)'
  <2>1. UNCHANGED <<status, worker>> /\ (Delivers(d) \/ Drops(d) \/ Aborts(d))
    BY <1>6 DEF UploadPublishes
  <2>2. CASE x = d
    <3>1. status[d] = "QUEUED"
      BY <1>6, <2>2 DEF UploadPublishes, Single, UploadIsFirst
    <3> QED BY <1>5, <2>1, <3>1
  <2>3. CASE x # d
    <3>1. Contains(queue', x) => Contains(queue, x)
      BY <1>0, <2>1, <2>3, PublishMembers
    <3> QED BY <2>1, <3>1, RestsKept
  <2> QED BY <2>2, <2>3
<1>7. ASSUME NEW j \in Jobs, JobPublishes(j) PROVE Rests(x)'
  <2>1. PICK d \in job[j].todo : Delivers(d) \/ Drops(d) \/ Aborts(d)
    BY <1>7 DEF JobPublishes
  <2>2. d \in Docs /\ job[j].pc = "publish" /\ UNCHANGED <<status, worker>>
    BY <1>0, <1>7 DEF TypeOK, JobPublishes
  <2>3. CASE x = d
    <3>1. ~Marking(j, x)
      BY <2>2 DEF Marking
    <3>2. status[d] = "ERROR"
      BY <2>3, <3>1 DEF Single, OneJob
    <3> QED BY <1>5, <2>1, <2>2, <3>2
  <2>4. CASE x # d
    <3>1. Contains(queue', x) => Contains(queue, x)
      BY <1>0, <2>1, <2>2, <2>4, PublishMembers
    <3> QED BY <2>2, <3>1, RestsKept
  <2> QED BY <2>3, <2>4
<1> QED BY <1>2, <1>3, <1>4, <1>6, <1>7

\* The worker writes SUCCESS when it is through with the document.
LEMMA RestsWorker ==
  ASSUME TInv, NEW x \in Docs, Single(x), Rests(x), WorkerNext
  PROVE  Rests(x)'
<1>0. TypeOK /\ Idle.doc = NoDoc /\ x # NoDoc
  BY DEF TInv, Idle, Worker
<1>1. CASE status'[x] = status[x]
  BY <1>1, WorkerEffect DEF Rests, WorkerHas
<1>2. CASE status'[x] # status[x] /\ status'[x] = "SUCCESS"
  <2>1. worker.doc = x /\ ~Contains(queue, x)
    BY <1>2, WorkerEffect DEF Single, OneEvent
  <2>2. ~Contains(queue', x)
    BY <2>1, WorkerEffect
  <2>3. worker' = Idle
    <3>1. CASE WorkerSucceeds \/ WorkerFails
      BY <3>1 DEF WorkerSucceeds, WorkerFails, WorkerFinishes
    <3>2. CASE WorkerMarksInProgress
      <4>1. worker.doc \in Docs /\ UpdateStatus(worker.doc, "IN_PROGRESS")
        BY <2>1, <3>2 DEF WorkerMarksInProgress
      <4>2. status'[x] \in {"IN_PROGRESS", status[x]}
        BY <1>0, <2>1, <4>1, StatusEffect
      <4> QED BY <1>2, <4>2
    <3> QED
      BY <1>2, <3>1, <3>2
      DEF WorkerNext, WorkerSubscribes, WorkerTakes, WorkerReadsMetadata,
          WorkerOpens, WorkerEmbeds, WorkerSavesPart
  <2> QED BY <1>0, <2>2, <2>3 DEF Rests, WorkerHas
<1> QED BY <1>1, <1>2 DEF Rests

\* Every step keeps SuccessRests.
LEMMA SuccessRestsStep == TInv /\ DInv /\ SuccessRests /\ [Next]_vars => SuccessRests'
<1> SUFFICES ASSUME TInv, DInv, SuccessRests, [Next]_vars, NEW x \in Docs,
                    x \notin twice', x \notin unmarked'
             PROVE  Rests(x)'
  BY DEF SuccessRests
<1>1. Single(x) /\ Rests(x)
  BY HistoryGrows DEF DInv, SuccessRests
<1>2. CASE Crash
  BY <1>2, EmptyHasNone DEF Crash, Worker, Rests, WorkerHas
<1>3. CASE UNCHANGED vars
  BY <1>1, <1>3 DEF vars, Rests, WorkerHas
<1> QED BY <1>1, <1>2, <1>3, RestsPublishers, RestsWorker DEF Next

(***************************************************************************)
(* A document shown as finished stays finished: except for the documents   *)
(* of two overlapping jobs and of an unwritten status, only the late       *)
(* QUEUED of a job that published the document before (service.go:586-591) *)
(* takes SUCCESS away.  No second event, no upload and no crash does.      *)
(***************************************************************************)
SuccessIsKept ==
  \A d \in Docs \ (twice \union unmarked) :
    status[d] = "SUCCESS"
      => status'[d] = "SUCCESS" \/ \E j \in Jobs : Marking(j, d) /\ JobMarks(j)

THEOREM FinishedStaysFinished == Spec => [][SuccessIsKept]_vars
<1>1. Init => SuccessRests
  BY DEF Init, SuccessRests, Rests
<1>2. TInv /\ DInv /\ SuccessRests /\ [Next]_vars => [SuccessIsKept]_vars
  <2> SUFFICES ASSUME TInv, DInv, SuccessRests, Next, NEW x \in Docs,
                      x \notin twice \union unmarked, status[x] = "SUCCESS",
                      status'[x] # "SUCCESS"
               PROVE  \E j \in Jobs : Marking(j, x) /\ JobMarks(j)
    BY DEF SuccessIsKept
  <2>0. TypeOK /\ JobHasDoc /\ Single(x) /\ ~WorkerHas(x)
    BY DEF TInv, DInv, SuccessRests, Rests
  <2>1. ASSUME NEW d \in Docs, UploadStores(d) \/ UploadSaves(d) \/ UploadPublishes(d)
        PROVE  FALSE
    <3>1. UploadSaves(d) /\ x = d
      BY <2>0, <2>1 DEF UploadStores, UploadSaves, UploadPublishes, TypeOK
    <3> QED BY <2>0, <3>1 DEF UploadSaves, Single, UploadIsFirst
  <2>2. ASSUME NEW j \in Jobs, JobFetches(j) \/ JobPublishes(j) \/ JobMarks(j)
        PROVE  Marking(j, x) /\ JobMarks(j)
    <3>1. JobMarks(j) /\ job[j].pc = "mark" /\ job[j].at \in Docs
      BY <2>0, <2>2 DEF JobFetches, JobPublishes, JobMarks, JobHasDoc, TypeOK
    <3>2. job[j].at = x
      BY <2>0, <3>1, StatusEffect DEF JobMarks
    <3> QED BY <3>1, <3>2 DEF Marking
  <2>3. ~WorkerNext
    BY <2>0, WorkerEffect DEF WorkerHas
  <2>4. ~Crash
    BY DEF Crash
  <2> QED BY <2>1, <2>2, <2>3, <2>4 DEF Next
<1> QED
  BY <1>1, <1>2, SuccessRestsStep, DInvInit, DInvStep, TInvInit, TInvStep, PTL DEF Spec

-------------------------------------------------------------------------------
(* Without errors: no database statement fails and no file is unreadable.  *)

\* The two kinds of loss that need an error.
ErrorLosses == {"gave up", "not written"}

NoErrors == unmarked = {} /\ \A d \in Docs : lost[d] \cap ErrorLosses = {}

\* A loss for another reason.
LEMMA LosesOther ==
  ASSUME TypeOK, NoErrors, NEW d \in Docs, NEW why, why \notin ErrorLosses, Loses(d, why)
  PROVE  \A x \in Docs : lost'[x] \cap ErrorLosses = {}
<1>1. lost \in [Docs -> SUBSET Reasons] /\ lost' = [lost EXCEPT ![d] = @ \union {why}]
  BY DEF TypeOK, Loses
<1>2. \A x \in Docs : lost'[x] \in {lost[x], lost[x] \union {why}}
  BY <1>1
<1> QED BY <1>2 DEF NoErrors

\* A Publish that loses its event does so for another reason.
LEMMA PublishOther ==
  ASSUME TypeOK, NoErrors, NEW d \in Docs, Delivers(d) \/ Drops(d) \/ Aborts(d)
  PROVE  \A x \in Docs : lost'[x] \cap ErrorLosses = {}
<1>1. CASE Delivers(d)
  <2>1. \A x \in Docs : lost'[x] \in {lost[x], {}}
    BY <1>1 DEF Delivers, TypeOK
  <2> QED BY <2>1 DEF NoErrors
<1>2. CASE Drops(d) \/ Aborts(d)
  <2>1. \E why \in {"nobody", "full", "cancelled"} : Loses(d, why)
    BY <1>2 DEF Drops, Aborts
  <2> QED BY <2>1, LosesOther DEF ErrorLosses
<1> QED BY <1>1, <1>2

\* The worker finds the row and the file of what it has taken.
LEMMA WorkerFinds ==
  ASSUME ~Faults, TInv, RInv, WorkerNext
  PROVE  UNCHANGED <<lost, unmarked>>
<1>1. worker.pc \notin {"starting", "waiting"}
        => /\ worker.doc \in Docs /\ status[worker.doc] # "none"
           /\ worker.doc \in objects
  BY DEF TInv, TypeOK, WorkerHasDoc, RInv, HandsHaveRow, InHand, RowHasObject
<1>2. CASE WorkerReadsMetadata \/ WorkerOpens
  BY <1>1, <1>2 DEF WorkerReadsMetadata, WorkerOpens
<1>3. CASE WorkerSucceeds \/ WorkerFails
  BY <1>3 DEF WorkerSucceeds, WorkerFails, WorkerFinishes
<1>4. CASE WorkerMarksInProgress
  BY <1>4 DEF WorkerMarksInProgress, UpdateStatus
<1> QED
  BY <1>2, <1>3, <1>4
  DEF WorkerNext, WorkerSubscribes, WorkerTakes, WorkerEmbeds, WorkerSavesPart

\* Every step keeps NoErrors.
LEMMA NoErrorsStep ==
  ASSUME ~Faults, TInv, RInv, NoErrors, [Next]_vars
  PROVE  NoErrors'
<1>0. TypeOK /\ JobHasDoc
  BY DEF TInv
<1>1. CASE UNCHANGED <<lost, unmarked>>
  BY <1>1 DEF NoErrors
<1>2. ASSUME NEW d \in Docs, UploadPublishes(d) PROVE NoErrors'
  BY <1>0, <1>2, PublishOther DEF UploadPublishes, NoErrors
<1>3. ASSUME NEW j \in Jobs, JobPublishes(j) PROVE NoErrors'
  <2>1. PICK d \in job[j].todo : Delivers(d) \/ Drops(d) \/ Aborts(d)
    BY <1>3 DEF JobPublishes
  <2>2. d \in Docs /\ UNCHANGED unmarked
    BY <1>0, <1>3 DEF TypeOK, JobPublishes
  <2> QED BY <1>0, <2>1, <2>2, PublishOther DEF NoErrors
<1>4. ASSUME NEW j \in Jobs, JobMarks(j) PROVE NoErrors'
  <2>1. job[j].at \in Docs /\ UNCHANGED unmarked
    BY <1>0, <1>4 DEF JobMarks, JobHasDoc, TypeOK, UpdateStatus
  <2>2. UNCHANGED lost \/ Loses(job[j].at, "overtaken")
    BY <1>4 DEF JobMarks
  <2>3. CASE Loses(job[j].at, "overtaken")
    <3>1. "overtaken" \notin ErrorLosses
      BY DEF ErrorLosses
    <3>2. \A x \in Docs : lost'[x] \cap ErrorLosses = {}
      BY <1>0, <2>1, <2>3, <3>1, LosesOther
    <3> QED BY <2>1, <3>2 DEF NoErrors
  <2> QED BY <1>1, <2>1, <2>2, <2>3
<1>5. CASE Crash
  <2>1. \A x \in Docs : lost'[x] \in {lost[x], lost[x] \union {"crash"}}
    BY <1>5 DEF Crash
  <2>2. UNCHANGED unmarked
    BY <1>5 DEF Crash
  <2> QED BY <2>1, <2>2 DEF NoErrors, ErrorLosses
<1> QED
  BY <1>1, <1>2, <1>3, <1>4, <1>5, WorkerFinds
  DEF Next, vars, UploadStores, UploadSaves, JobFetches

(***************************************************************************)
(* As long as the database and the files answer, the worker never drops a  *)
(* document it has taken: its row and its file are always there, whatever  *)
(* the order of uploads, jobs and crashes.  Documents that stay queued or  *)
(* in progress are then the work of a Publish (no subscriber, a full       *)
(* channel, a client that left), of a job's late QUEUED, or of a crash.    *)
(***************************************************************************)
StuckByPublishOrCrash ==
  \A d \in Docs : status[d] \in {"QUEUED", "IN_PROGRESS"} =>
    OnTheWay(d) \/ lost[d] \cap {"nobody", "full", "cancelled", "overtaken", "crash"} # {}

THEOREM WorkerNeverGivesUp == ~Faults => (Spec => []StuckByPublishOrCrash)
<1> SUFFICES ASSUME ~Faults PROVE Spec => []StuckByPublishOrCrash
  OBVIOUS
<1>1. Init => NoErrors
  BY DEF Init, NoErrors
<1>2. TInv /\ RInv /\ NoErrors /\ [Next]_vars => NoErrors'
  BY NoErrorsStep
<1>3. TInv /\ NoErrors /\ StuckExplained => StuckByPublishOrCrash
  <2> SUFFICES ASSUME TInv, NoErrors, NEW d \in Docs, lost[d] # {}
               PROVE  lost[d] \cap {"nobody", "full", "cancelled", "overtaken", "crash"} # {}
    BY DEF StuckExplained, StuckByPublishOrCrash
  <2>1. lost[d] \subseteq Reasons /\ lost[d] \cap ErrorLosses = {}
    BY DEF TInv, TypeOK, NoErrors
  <2> QED BY <2>1 DEF Reasons, ErrorLosses
<1>4. Spec => []StuckExplained
  BY StuckIsExplained
<1> QED
  BY <1>1, <1>2, <1>3, <1>4, RInvInit, RInvStep, TInvInit, TInvStep, PTL DEF Spec

\* At any time at most one job has documents left to publish.
JobsApart == \A j, k \in Jobs : job[j].todo # {} /\ job[k].todo # {} => j = k

\* Jobs that do not overlap fetch no document twice.
LEMMA NotTwice ==
  ASSUME TInv, RestingJobs, twice = {}, JobsApart', [Next]_vars
  PROVE  twice' = {}
<1>1. ASSUME NEW j \in Jobs, JobFetches(j), NEW d \in twice' PROVE FALSE
  <2> DEFINE failed == {x \in Docs : status[x] = "ERROR"}
             fresh == [pc |-> "publish", todo |-> failed, at |-> NoDoc]
  <2>1. /\ job' = [job EXCEPT ![j] = IF failed = {} THEN JobDone ELSE fresh]
        /\ d \in failed /\ job[j].pc = "idle"
        /\ \E k \in Jobs : d \in job[k].todo
    BY <1>1 DEF JobFetches
  <2>2. PICK k \in Jobs : d \in job[k].todo
    BY <2>1
  <2>3. k # j
    BY <2>1, <2>2 DEF RestingJobs
  <2>4. job' = [job EXCEPT ![j] = fresh] /\ fresh.todo = failed
    BY <2>1
  <2> HIDE DEF fresh
  <2>5. job'[k] = job[k] /\ job'[j] = fresh
    BY <2>3, <2>4 DEF TInv, TypeOK
  <2>6. d \in job'[k].todo /\ d \in job'[j].todo
    BY <2>1, <2>2, <2>4, <2>5
  <2> QED BY <2>3, <2>6 DEF JobsApart
<1>2. CASE UNCHANGED twice
  BY <1>2
<1> QED
  BY <1>1, <1>2
  DEF Next, vars, WorkerNext, UploadStores, UploadSaves, UploadPublishes,
      JobPublishes, JobMarks, WorkerSubscribes, WorkerTakes, WorkerMarksInProgress,
      WorkerReadsMetadata, WorkerOpens, WorkerEmbeds, WorkerSavesPart,
      WorkerSucceeds, WorkerFails, WorkerFinishes, Crash

(***************************************************************************)
(* As long as the database answers and no two jobs run at the same time,   *)
(* every chunk of every document is stored at most once, however often     *)
(* documents are retried and the process is killed: nothing in the schema  *)
(* prevents a second copy, only this order of statuses and events does.    *)
(***************************************************************************)
NoDuplicates == \A d \in Docs, p \in 1..Parts : stored[d][p] <= 1

THEOREM OneJobNoDuplicates == ~Faults => (Spec /\ []JobsApart => []NoDuplicates)
<1> SUFFICES ASSUME ~Faults PROVE Spec /\ []JobsApart => []NoDuplicates
  OBVIOUS
<1>1. Init => NoErrors /\ twice = {}
  BY DEF Init, NoErrors
<1>2. TInv /\ RInv /\ NoErrors /\ [Next]_vars => NoErrors'
  BY NoErrorsStep
<1>3. TInv /\ DInv /\ twice = {} /\ JobsApart' /\ [Next]_vars => (twice = {})'
  BY NotTwice DEF DInv
<1>4. TInv /\ DInv /\ NoErrors /\ twice = {} => NoDuplicates
  BY DEF DInv, NoErrors, NoDuplicates, Single, OneCopy
<1> QED
  BY <1>1, <1>2, <1>3, <1>4, RInvInit, RInvStep, DInvInit, DInvStep, TInvInit,
     TInvStep, PTL
  DEF Spec
===============================================================================
