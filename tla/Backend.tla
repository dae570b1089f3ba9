-------------------------------- MODULE Backend --------------------------------
(***************************************************************************)
(* The backend as main.go:85-94 wires it: the settings (SettingsSync) and  *)
(* the documents (DocumentPipeline) share one queue, here as the lossy     *)
(* broadcast MessageQueue implements.  SettingsSync has a counter for its  *)
(* channel and DocumentPipeline a sequence of documents; in this module    *)
(* both are inboxes of subscriptions, and every Publish, Subscribe and     *)
(* receive of the program is a step of the broadcast together with what    *)
(* the caller does next.  The steps that do not touch the queue are those  *)
(* of the two components.  The refinements say that the components'        *)
(* private channels were no simplification.                                *)
(***************************************************************************)
EXTENDS Naturals, Sequences

CONSTANTS Setters, Chats, DBFails, MaxVer,      \* of SettingsSync
          Docs, Jobs, NoDoc, Parts, Faults,     \* of DocumentPipeline
          Capacity,                             \* of every channel
          NoSubject                             \* of LossyBroadcast

ASSUME BackendAssumption ==
  /\ DBFails \in BOOLEAN /\ MaxVer \in Nat
  /\ NoDoc \notin Docs
  /\ Parts \in Nat \ {0}
  /\ Faults \in BOOLEAN
  /\ Capacity \in Nat \ {0}
  /\ NoSubject \notin {"settings.changed", "generate.embedding"}

VARIABLES
  db, marker, cache, boot, reader, setter, chat, settingsLost, skipped,
  objects, status, stored, upload, job, worker, docLost, twice, missed,
  unmarked,
  live, topic, inbox, sent, shut, result,
  data      \* what each message carries: a document, or NoDoc

settingsVars ==
  <<db, marker, cache, boot, reader, setter, chat, settingsLost, skipped>>
documentVars == <<objects, status, stored, upload, job, worker, docLost, twice,
                  missed, unmarked>>
queueVars == <<live, topic, inbox, sent, shut, result, data>>
vars == <<settingsVars, documentVars, queueVars>>

\* events/events.go, and the goroutines that subscribe.
Changed == "settings.changed"
Embed == "generate.embedding"
Subscribers == {"reader", "worker"}

Queue == INSTANCE LossyBroadcast
  WITH Subjects <- {Changed, Embed}, Subs <- Subscribers

Settings == INSTANCE SettingsSync
  WITH pending <- Len(inbox["reader"]), lost <- settingsLost

\* The documents whose events wait in the worker's channel.
Events == [i \in 1..Len(inbox["worker"]) |-> data[inbox["worker"][i].id]]

Documents == INSTANCE DocumentPipeline
  WITH queue <- Events, lost <- docLost

Init ==
  /\ Queue!Init
  /\ data = <<>>
  /\ Settings!Init
  /\ Documents!Init

-------------------------------------------------------------------------------
(* The settings.                                                           *)

SettingsAlone ==
  /\ UNCHANGED <<queueVars, documentVars>>
  /\ \/ Settings!BootLoad \/ Settings!BootAssign \/ Settings!CheckFirstBoot
     \/ Settings!SeedDefaults \/ Settings!MarkBooted
     \/ Settings!ReaderSelects \/ Settings!ReaderAssigns
     \/ \E u \in Setters : Settings!SetterStores(u)
     \/ \E c \in Chats : Settings!ChatReadsKey(c) \/ Settings!ChatReadsUrl(c)

\* SetSetting publishes with context.Background(): nothing cancels it.
PublishChanged ==
  /\ Queue!PublishOK(Changed)
  /\ data' = Append(data, NoDoc)
  /\ settingsLost' = IF "reader" \in live THEN settingsLost
                     ELSE settingsLost \union {"nobody"}
  /\ UNCHANGED <<db, marker, cache, reader, chat, skipped, documentVars>>

SeedAnnounces ==
  /\ boot.pc = "announce"
  /\ PublishChanged
  /\ boot' = [boot EXCEPT !.pc = "mark"]
  /\ UNCHANGED setter

SetterAnnounces(u) ==
  /\ setter[u] = "announce"
  /\ PublishChanged
  /\ setter' = [setter EXCEPT ![u] = "idle"]
  /\ UNCHANGED boot

\* Mutant: the goroutine subscribes to the other subject.
ReaderSubscribesToEmbed ==
  /\ reader.pc = "starting"
  /\ Queue!Join("reader", Embed)
  /\ reader' = [reader EXCEPT !.pc = "waiting"]
  /\ UNCHANGED <<db, marker, cache, boot, setter, chat, settingsLost, skipped,
                 data, documentVars>>

ReaderSubscribes ==
  /\ reader.pc = "starting"
  /\ Queue!Join("reader", Changed)
  /\ reader' = [reader EXCEPT !.pc = "waiting"]
  /\ UNCHANGED <<db, marker, cache, boot, setter, chat, settingsLost, skipped,
                 data, documentVars>>

ReaderTakes ==
  /\ reader.pc = "waiting"
  /\ Queue!Take("reader")
  /\ reader' = [reader EXCEPT !.pc = "select"]
  /\ UNCHANGED <<db, marker, cache, boot, setter, chat, settingsLost, skipped,
                 data, documentVars>>

-------------------------------------------------------------------------------
(* The documents.  Requests come once the servers run; the worker goroutine *)
(* is started by NewChatService, after the first load of the settings.     *)

Serving == boot.pc = "serving"

DocumentsAlone ==
  /\ UNCHANGED <<queueVars, settingsVars>>
  /\ \/ /\ Serving
        /\ \/ \E d \in Docs : Documents!UploadStores(d) \/ Documents!UploadSaves(d)
           \/ \E j \in Jobs : Documents!JobFetches(j) \/ Documents!JobMarks(j)
     \/ Documents!WorkerMarksInProgress \/ Documents!WorkerReadsMetadata
     \/ Documents!WorkerOpens \/ Documents!WorkerEmbeds
     \/ Documents!WorkerSavesPart
     \/ Documents!WorkerSucceeds \/ Documents!WorkerFails

\* Why the event of the last Publish did not reach the worker's channel.
WhyMissed ==
  IF result' = "cancelled" THEN "cancelled"
  ELSE IF "worker" \in live THEN "full" ELSE "nobody"

\* Publish with the context of the request, whose client may go away.
PublishEmbed(d) ==
  /\ Queue!PublishOK(Embed) \/ Queue!PublishAborted(Embed)
  /\ data' = Append(data, d)
  /\ docLost' = [docLost EXCEPT ![d] =
                   IF inbox'["worker"] # inbox["worker"] THEN {}
                   ELSE @ \union {WhyMissed}]

UploadPublishes(d) ==
  /\ upload[d] = "saved"
  /\ PublishEmbed(d)
  /\ upload' = [upload EXCEPT ![d] = "done"]
  /\ UNCHANGED <<objects, status, stored, job, worker, twice, missed, unmarked,
                 settingsVars>>

JobPublishes(j) ==
  /\ job[j].pc = "publish"
  /\ \E d \in job[j].todo :
       /\ PublishEmbed(d)
       /\ job' = [job EXCEPT ![j] =
                    IF result' = "ok" THEN [@ EXCEPT !.pc = "mark", !.at = d]
                    ELSE Documents!JobDone]
  /\ UNCHANGED <<objects, status, stored, upload, worker, twice, missed,
                 unmarked, settingsVars>>

WorkerSubscribes ==
  /\ boot.pc \notin {"load", "assign"}
  /\ worker.pc = "starting"
  /\ Queue!Join("worker", Embed)
  /\ worker' = Documents!Idle
  /\ UNCHANGED <<objects, status, stored, upload, job, docLost, twice, missed,
                 unmarked, data, settingsVars>>

\* Mutant: the document of the message taken before.
WorkerTakesStale ==
  /\ worker.pc = "waiting"
  /\ Queue!Take("worker")
  /\ worker' = Documents!Worker("took", data[1])
  /\ UNCHANGED <<objects, status, stored, upload, job, docLost, twice, missed,
                 unmarked, data, settingsVars>>

WorkerTakes ==
  /\ worker.pc = "waiting"
  /\ Queue!Take("worker")
  /\ worker' = Documents!Worker("took", data[Head(inbox["worker"]).id])
  /\ UNCHANGED <<objects, status, stored, upload, job, docLost, twice, missed,
                 unmarked, data, settingsVars>>

-------------------------------------------------------------------------------
\* The process is killed and started again, with a new queue.
Crash ==
  /\ live' = {}
  /\ topic' = [s \in Subscribers |-> NoSubject]
  /\ inbox' = [s \in Subscribers |-> <<>>]
  /\ sent' = 0
  /\ shut' = FALSE
  /\ result' = "none"
  /\ data' = <<>>
  /\ Settings!Crash
  /\ Documents!Crash

Next ==
  \/ SettingsAlone
  \/ SeedAnnounces
  \/ \E u \in Setters : SetterAnnounces(u)
  \/ ReaderSubscribes \/ ReaderTakes
  \/ DocumentsAlone
  \/ \E d \in Docs : UploadPublishes(d)
  \/ \E j \in Jobs : JobPublishes(j)
  \/ WorkerSubscribes \/ WorkerTakes
  \/ Crash

Spec == Init /\ [][Next]_vars

-------------------------------------------------------------------------------
(* Properties.                                                             *)

Message == [id : 1..sent, subject : {Changed, Embed}]

TypeOK ==
  /\ live \subseteq Subscribers
  /\ topic \in [Subscribers -> {Changed, Embed, NoSubject}]
  /\ inbox \in [Subscribers -> Seq(Message)]
  /\ \A s \in Subscribers : Len(inbox[s]) <= Capacity
  /\ sent \in Nat
  /\ shut = FALSE
  /\ data \in Seq(Docs \union {NoDoc}) /\ Len(data) = sent

(***************************************************************************)
(* The backend with its one queue implements the two components with their *)
(* private channels.                                                       *)
(***************************************************************************)
ImplementsSettings == Settings!Spec

ImplementsDocuments == Documents!Spec
===============================================================================
