---------------------------- MODULE DocumentPipeline ----------------------------
(***************************************************************************)
(* From an uploaded file to a searchable document: UploadFile, the         *)
(* embedding worker (EmbeddingSubscriber) and the retry job                *)
(* (SubmitGenerateEmbeddingsJob) of service/service.go, with the object    *)
(* store (store/store.go), the table project_docs and the chunk tables     *)
(* (dao/dao_sqlite.go, dao_postgres.go) and the queue between them.        *)
(*                                                                         *)
(* Processes: one upload request per document (each has a fresh object     *)
(* id), any number of retry requests, one worker goroutine.  A database    *)
(* statement, a file written or opened, a Publish and a receive are atomic *)
(* steps; everything else interleaves.  The process can be killed at any   *)
(* step: files and tables survive, requests, queue and worker do not.      *)
(*                                                                         *)
(* The queue is the lossy broadcast of MessageQueue with one subscriber.   *)
(* A document is a model value; its text is Parts chunks.  The embedder (a *)
(* remote Ollama, not in this repository) fails, or answers each chunk     *)
(* with a vector that the vector table accepts or with something else.     *)
(***************************************************************************)
EXTENDS Naturals, Sequences, SequencesExt

CONSTANTS Docs,        \* the documents of a project
          Jobs,        \* the calls of SubmitGenerateEmbeddingsJob
          NoDoc,       \* "no document"
          Parts,       \* the chunks of a document
          Capacity,    \* buffered events: 100 in queue.go:92
          Faults       \* whether database and file calls may return errors

ASSUME PipelineAssumption ==
  /\ NoDoc \notin Docs
  /\ Parts \in Nat \ {0}
  /\ Capacity \in Nat \ {0}
  /\ Faults \in BOOLEAN

VARIABLES
  objects,  \* the files under filestore/objects
  status,   \* project_docs.embedding_status, "none" without a row
  stored,   \* for each chunk of a document, the searchable copies of it
  upload,   \* each UploadFile request
  job,      \* each retry request, the documents it has left and the current one
  queue,    \* the events in the worker's channel
  worker,   \* the embedding worker and what it is working on
  lost,     \* why a document may be in nobody's hands
  twice,    \* the documents two overlapping jobs have fetched
  missed,   \* the chunks of a document the worker passed without storing them
  unmarked  \* the documents whose QUEUED or IN_PROGRESS could not be written

vars == <<objects, status, stored, upload, job, queue, worker, lost, twice,
          missed, unmarked>>

Statuses == {"none", "QUEUED", "IN_PROGRESS", "ERROR", "SUCCESS"}
Reasons == {"nobody", "full", "cancelled", "gave up", "not written",
            "overtaken", "crash"}
WorkerPC == {"starting", "waiting", "took", "metadata", "open", "pipeline",
             "save", "failed", "saved"}

TypeOK ==
  /\ objects \subseteq Docs
  /\ status \in [Docs -> Statuses]
  /\ stored \in [Docs -> [1..Parts -> Nat]]
  /\ upload \in [Docs -> {"new", "stored", "saved", "done", "failed"}]
  /\ job \in [Jobs -> [pc : {"idle", "publish", "mark", "done"},
                       todo : SUBSET Docs, at : Docs \union {NoDoc}]]
  /\ queue \in Seq(Docs) /\ Len(queue) <= Capacity
  /\ worker \in [pc : WorkerPC, doc : Docs \union {NoDoc}, part : 1..(Parts + 1),
                 usable : SUBSET (1..Parts)]
  /\ lost \in [Docs -> SUBSET Reasons]
  /\ twice \subseteq Docs
  /\ missed \in [Docs -> SUBSET (1..Parts)]
  /\ unmarked \subseteq Docs

Worker(pc, d) == [pc |-> pc, doc |-> d, part |-> 1, usable |-> {}]
Idle == Worker("waiting", NoDoc)
JobDone == [pc |-> "done", todo |-> {}, at |-> NoDoc]

Init ==
  /\ objects = {}
  /\ status = [d \in Docs |-> "none"]
  /\ stored = [d \in Docs |-> [p \in 1..Parts |-> 0]]
  /\ upload = [d \in Docs |-> "new"]
  /\ job = [j \in Jobs |-> [pc |-> "idle", todo |-> {}, at |-> NoDoc]]
  /\ queue = <<>>
  /\ worker = Worker("starting", NoDoc)
  /\ lost = [d \in Docs |-> {}]
  /\ twice = {}
  /\ missed = [d \in Docs |-> {}]
  /\ unmarked = {}

-------------------------------------------------------------------------------
(* Publish on generate.embedding, and the status column.                   *)

Subscribed == worker.pc # "starting"

\* Mutant: the channel has no limit.
DeliversUnbounded(d) ==
  /\ Subscribed
  /\ queue' = Append(queue, d)
  /\ lost' = [lost EXCEPT ![d] = {}]

Delivers(d) ==
  /\ Subscribed
  /\ Len(queue) < Capacity
  /\ queue' = Append(queue, d)
  /\ lost' = [lost EXCEPT ![d] = {}]

Loses(d, why) == lost' = [lost EXCEPT ![d] = @ \union {why}]

\* Publish returns nil and the event is gone.
Drops(d) ==
  /\ \/ ~Subscribed /\ Loses(d, "nobody")
     \/ Subscribed /\ Len(queue) = Capacity /\ Loses(d, "full")
  /\ UNCHANGED queue

\* Publish returns ctx.Err(): the client of the request has gone away.
Aborts(d) == Subscribed /\ Loses(d, "cancelled") /\ UNCHANGED queue

\* UpdateEmbeddingStatus; an error is printed and the code goes on.
UpdateStatus(d, s) ==
  \/ status' = [status EXCEPT ![d] = s] /\ UNCHANGED unmarked
  \/ Faults /\ unmarked' = unmarked \union {d} /\ UNCHANGED status

-------------------------------------------------------------------------------
(* UploadFile.                                                             *)

\* A file over the limits, or one that could not be written, ends the call.
UploadStores(d) ==
  /\ upload[d] = "new"
  /\ \/ /\ objects' = objects \union {d}
        /\ upload' = [upload EXCEPT ![d] = "stored"]
     \/ /\ upload' = [upload EXCEPT ![d] = "failed"]
        /\ UNCHANGED objects
  /\ UNCHANGED <<status, stored, job, queue, worker, lost, twice, missed,
                 unmarked>>

\* Mutant: the row is written without waiting for the file.
UploadSavesFirst(d) ==
  /\ upload[d] \in {"new", "stored"}
  /\ status' = [status EXCEPT ![d] = "QUEUED"]
  /\ upload' = [upload EXCEPT ![d] = "saved"]
  /\ UNCHANGED <<objects, stored, job, queue, worker, lost, twice, missed,
                 unmarked>>

\* FileSave; an error leaves the object without a row.
UploadSaves(d) ==
  /\ upload[d] = "stored"
  /\ \/ /\ status' = [status EXCEPT ![d] = "QUEUED"]
        /\ upload' = [upload EXCEPT ![d] = "saved"]
     \/ /\ Faults
        /\ upload' = [upload EXCEPT ![d] = "failed"]
        /\ UNCHANGED status
  /\ UNCHANGED <<objects, stored, job, queue, worker, lost, twice, missed,
                 unmarked>>

\* An error of Publish is logged, the upload succeeds all the same.
UploadPublishes(d) ==
  /\ upload[d] = "saved"
  /\ Delivers(d) \/ Drops(d) \/ Aborts(d)
  /\ upload' = [upload EXCEPT ![d] = "done"]
  /\ UNCHANGED <<objects, status, stored, job, worker, twice, missed, unmarked>>

-------------------------------------------------------------------------------
(* SubmitGenerateEmbeddingsJob: one SELECT of the failed documents, then   *)
(* for each of them Publish and, after it, the status QUEUED.              *)

\* Mutant: the job takes every document that is not finished.
JobFetchesUnfinished(j) ==
  LET failed == {d \in Docs : status[d] \notin {"none", "SUCCESS"}}
  IN  /\ job[j].pc = "idle"
      /\ job' = [job EXCEPT ![j] =
                   IF failed = {} THEN JobDone
                   ELSE [pc |-> "publish", todo |-> failed, at |-> NoDoc]]
      /\ twice' = twice \union
                    {d \in failed : \E k \in Jobs : d \in job[k].todo}
      /\ UNCHANGED <<objects, status, stored, upload, queue, worker, lost,
                     missed, unmarked>>

JobFetches(j) ==
  LET failed == {d \in Docs : status[d] = "ERROR"}
  IN  /\ job[j].pc = "idle"
      /\ \/ /\ job' = [job EXCEPT ![j] =
                         IF failed = {} THEN JobDone
                         ELSE [pc |-> "publish", todo |-> failed, at |-> NoDoc]]
            /\ twice' = twice \union
                          {d \in failed : \E k \in Jobs : d \in job[k].todo}
         \/ /\ Faults
            /\ job' = [job EXCEPT ![j] = JobDone]
            /\ UNCHANGED twice
      /\ UNCHANGED <<objects, status, stored, upload, queue, worker, lost,
                     missed, unmarked>>

JobPublishes(j) ==
  /\ job[j].pc = "publish"
  /\ \E d \in job[j].todo :
       \/ /\ Delivers(d) \/ Drops(d)
          /\ job' = [job EXCEPT ![j] = [@ EXCEPT !.pc = "mark", !.at = d]]
       \/ /\ Aborts(d)
          /\ job' = [job EXCEPT ![j] = JobDone]
  /\ UNCHANGED <<objects, status, stored, upload, worker, twice, missed,
                 unmarked>>

\* The worker has an event of d in front of it, or has not finished one.
WorkerHas(d) == Contains(queue, d) \/ worker.doc = d

\* The job after d.
JobAfter(j, d) ==
  IF job[j].todo = {d} THEN JobDone
  ELSE [pc |-> "publish", todo |-> job[j].todo \ {d}, at |-> NoDoc]

\* If the worker is through with the event already, QUEUED is the last word.
JobMarks(j) ==
  LET d == job[j].at
  IN  /\ job[j].pc = "mark"
      /\ UpdateStatus(d, "QUEUED")
      /\ IF WorkerHas(d) THEN UNCHANGED lost ELSE Loses(d, "overtaken")
      /\ job' = [job EXCEPT ![j] = JobAfter(j, d)]
      /\ UNCHANGED <<objects, stored, upload, queue, worker, twice, missed>>

-------------------------------------------------------------------------------
(* EmbeddingSubscriber.                                                    *)

WorkerSubscribes ==
  /\ worker.pc = "starting"
  /\ worker' = Idle
  /\ UNCHANGED <<objects, status, stored, upload, job, queue, lost, twice,
                 missed, unmarked>>

WorkerTakes ==
  /\ worker.pc = "waiting"
  /\ queue # <<>>
  /\ queue' = Tail(queue)
  /\ worker' = Worker("took", Head(queue))
  /\ UNCHANGED <<objects, status, stored, upload, job, lost, twice, missed,
                 unmarked>>

WorkerMarksInProgress ==
  /\ worker.pc = "took"
  /\ UpdateStatus(worker.doc, "IN_PROGRESS")
  /\ worker' = [worker EXCEPT !.pc = "metadata"]
  /\ UNCHANGED <<objects, stored, upload, job, queue, lost, twice, missed>>

\* The worker prints an error and goes on with the next event.
WorkerGivesUp ==
  /\ worker' = Idle
  /\ Loses(worker.doc, "gave up")

WorkerReadsMetadata ==
  /\ worker.pc = "metadata"
  /\ \/ /\ status[worker.doc] # "none"
        /\ worker' = [worker EXCEPT !.pc = "open"]
        /\ UNCHANGED lost
     \/ /\ Faults \/ status[worker.doc] = "none"
        /\ WorkerGivesUp
  /\ UNCHANGED <<objects, status, stored, upload, job, queue, twice, missed,
                 unmarked>>

\* Mutant: an error ends the goroutine.
WorkerOpensOrReturns ==
  /\ worker.pc = "open"
  /\ \/ /\ worker.doc \in objects
        /\ worker' = [worker EXCEPT !.pc = "pipeline"]
        /\ UNCHANGED lost
     \/ /\ Faults
        /\ worker' = Worker("gone", NoDoc)
        /\ Loses(worker.doc, "gave up")
  /\ UNCHANGED <<objects, status, stored, upload, job, queue, twice, missed,
                 unmarked>>

WorkerOpens ==
  /\ worker.pc = "open"
  /\ \/ /\ worker.doc \in objects
        /\ worker' = [worker EXCEPT !.pc = "pipeline"]
        /\ UNCHANGED lost
     \/ /\ Faults \/ worker.doc \notin objects
        /\ WorkerGivesUp
  /\ UNCHANGED <<objects, status, stored, upload, job, queue, twice, missed,
                 unmarked>>

\* RunWithChunks: read, chunk, embed.  One failed chunk fails the document;
\* usable are the chunks whose vector the database will accept.
WorkerEmbeds ==
  /\ worker.pc = "pipeline"
  /\ \/ \E us \in SUBSET (1..Parts) :
          worker' = [worker EXCEPT !.pc = "save", !.usable = us]
     \/ worker' = [worker EXCEPT !.pc = "failed"]
  /\ UNCHANGED <<objects, status, stored, upload, job, queue, lost, twice,
                 missed, unmarked>>

\* SaveRAGChunk and SaveRAGChunkEmbedding of one chunk.  It can be found only
\* if both rows are there; an error of either is printed.
WorkerSavesPart ==
  /\ worker.pc = "save"
  /\ worker.part <= Parts
  /\ \/ /\ worker.part \in worker.usable
        /\ stored' = [stored EXCEPT ![worker.doc][worker.part] = @ + 1]
        /\ UNCHANGED missed
     \/ /\ Faults \/ worker.part \notin worker.usable
        /\ missed' = [missed EXCEPT ![worker.doc] = @ \union {worker.part}]
        /\ UNCHANGED stored
  /\ worker' = [worker EXCEPT !.part = @ + 1]
  /\ UNCHANGED <<objects, status, upload, job, queue, lost, twice, unmarked>>

\* The final status; if it cannot be written nobody tries again.
WorkerFinishes(s) ==
  /\ \/ /\ status' = [status EXCEPT ![worker.doc] = s]
        /\ UNCHANGED lost
     \/ /\ Faults
        /\ Loses(worker.doc, "not written")
        /\ UNCHANGED status
  /\ worker' = Idle
  /\ UNCHANGED <<objects, stored, upload, job, queue, twice, missed, unmarked>>

WorkerSucceeds ==
  /\ worker.pc = "save"
  /\ worker.part > Parts
  /\ WorkerFinishes("SUCCESS")

\* Mutant: the error is printed and the status left alone.
WorkerFailsSilently ==
  /\ worker.pc = "failed"
  /\ worker' = Idle
  /\ UNCHANGED <<objects, status, stored, upload, job, queue, lost, twice,
                 missed, unmarked>>

\* Mutant: after the error the code goes on to the end of the loop body.
WorkerFailsThrough ==
  /\ worker.pc = "failed"
  /\ WorkerFinishes("SUCCESS")

WorkerFails ==
  /\ worker.pc = "failed"
  /\ WorkerFinishes("ERROR")

WorkerNext ==
  \/ WorkerSubscribes \/ WorkerTakes \/ WorkerMarksInProgress
  \/ WorkerReadsMetadata \/ WorkerOpens \/ WorkerEmbeds
  \/ WorkerSavesPart \/ WorkerSucceeds \/ WorkerFails

-------------------------------------------------------------------------------
\* An upload whose request is not over, a document the worker was to see.
Interrupted(d) == WorkerHas(d) \/ upload[d] = "saved"

\* The process is killed and started again.  Nothing looks for documents that
\* were on their way.
Crash ==
  /\ lost' = [d \in Docs |-> IF Interrupted(d) THEN lost[d] \union {"crash"}
                             ELSE lost[d]]
  /\ upload' = [d \in Docs |-> IF upload[d] \in {"stored", "saved"} THEN "failed"
                               ELSE upload[d]]
  /\ job' = [j \in Jobs |-> IF job[j].pc = "idle" THEN job[j] ELSE JobDone]
  /\ queue' = <<>>
  /\ worker' = Worker("starting", NoDoc)
  /\ UNCHANGED <<objects, status, stored, twice, missed, unmarked>>

Next ==
  \/ \E d \in Docs : UploadStores(d) \/ UploadSaves(d) \/ UploadPublishes(d)
  \/ \E j \in Jobs : JobFetches(j) \/ JobPublishes(j) \/ JobMarks(j)
  \/ WorkerNext
  \/ Crash

Spec == Init /\ [][Next]_vars

\* The worker goroutine runs, and every call it makes returns (the HTTP client
\* of the embedder has no timeout: that the remote end answers is assumed).
\* Nobody has to upload or retry, no request has to finish, no crash has to come.
FairSpec == Spec /\ WF_vars(WorkerNext)

-------------------------------------------------------------------------------
(* Properties.                                                             *)

(***************************************************************************)
(* A document in the table has its file on disk, whatever fails and        *)
(* whenever the process dies: UploadFile stores first, and nothing deletes *)
(* (service.go:482-489; the download handler and the worker rely on it).   *)
(***************************************************************************)
RowHasObject == \A d \in Docs : status[d] # "none" => d \in objects

(***************************************************************************)
(* A document shown as queued or in progress is on its way to the worker,  *)
(* or got stuck for one of the named reasons: its event was dropped or the *)
(* publisher's client left, the worker gave up before the pipeline, the    *)
(* final status could not be written, a job marked it QUEUED after the     *)
(* worker had finished, or the process died.                               *)
(***************************************************************************)
OnTheWay(d) == upload[d] = "saved" \/ WorkerHas(d)

StuckExplained ==
  \A d \in Docs : status[d] \in {"QUEUED", "IN_PROGRESS"}
                    => OnTheWay(d) \/ lost[d] # {}

(***************************************************************************)
(* SUCCESS means that every chunk can be found, even if the process was    *)
(* killed and the document retried in between, except for the chunks whose *)
(* insert failed or whose vector was not one: the worker prints that and   *)
(* goes on (service.go:690-702).                                           *)
(***************************************************************************)
SuccessIsIndexed ==
  \A d \in Docs : status[d] = "SUCCESS" =>
    \A p \in 1..Parts : stored[d][p] > 0 \/ p \in missed[d]

(***************************************************************************)
(* A chunk is stored twice (and then takes both places of the two-row      *)
(* search) only for a document that a second job fetched between the       *)
(* Publish and the QUEUED of a first one (service.go:586-591), or whose    *)
(* status an error left at ERROR while the worker had it.  A crash in the  *)
(* middle of the inserts is not enough.                                    *)
(***************************************************************************)
DuplicateNeedsOverlap ==
  \A d \in Docs : (\E p \in 1..Parts : stored[d][p] > 1)
                    => d \in twice \union unmarked

(***************************************************************************)
(* An event that reached the channel is not forgotten: its document ends   *)
(* in SUCCESS or ERROR, or is lost for a named reason.  One document that  *)
(* fails does not stop the ones behind it.                                 *)
(***************************************************************************)
EventuallyFinished ==
  \A d \in Docs :
    Contains(queue, d) ~> (status[d] \in {"SUCCESS", "ERROR"} \/ lost[d] # {})

(***************************************************************************)
(* project.tsx:185 says "Currently in queue" of a document whose status is *)
(* QUEUED.  A job writes QUEUED after its Publish, and the worker can have *)
(* finished the document by then: nothing was lost, nothing is queued, and *)
(* no retry will fetch it.                                                 *)
(***************************************************************************)
QueuedIsQueued ==
  \A d \in Docs : status[d] = "QUEUED"
                    => OnTheWay(d) \/ lost[d] \ {"overtaken"} # {}
===============================================================================
