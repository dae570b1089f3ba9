----------------------------- MODULE BackendProofs -----------------------------
(***************************************************************************)
(* The backend with one queue implements its components with private       *)
(* channels, for any number of requests, documents and jobs and any        *)
(* capacity.                                                               *)
(***************************************************************************)
EXTENDS Backend, SequenceTheorems, TLAPS

USE BackendAssumption DEF BackendAssumption

(***************************************************************************)
(* What connects the goroutines with their subscriptions: a goroutine past *)
(* "starting" has the live subscription of its own subject, one that has   *)
(* not started has none and an empty inbox.                                *)
(***************************************************************************)
SubscribedTo(s, subj, started) ==
  /\ started => s \in live /\ topic[s] = subj
  /\ ~started => s \notin live /\ topic[s] = NoSubject /\ inbox[s] = <<>>

ReaderWired ==
  /\ reader = [pc |-> reader.pc, got |-> reader.got]
  /\ SubscribedTo("reader", Changed, reader.pc # "starting")

WorkerWired ==
  /\ worker = [pc |-> worker.pc, doc |-> worker.doc, part |-> worker.part,
               usable |-> worker.usable]
  /\ SubscribedTo("worker", Embed, worker.pc # "starting")

\* What a job may have on its list.
JobsTyped ==
  job \in [Jobs -> [pc : {"idle", "publish", "mark", "done"},
                    todo : SUBSET Docs, at : Docs \union {NoDoc}]]

Wired == TypeOK /\ ReaderWired /\ WorkerWired /\ JobsTyped

\* Nobody has subscribed yet.
LEMMA WiredInit == Init => Wired
<1> SUFFICES ASSUME Init PROVE Wired
  OBVIOUS
<1> USE DEF Init, Queue!Init, Settings!Init, Documents!Init, Subscribers
<1>1. TypeOK
  BY DEF TypeOK, Message
<1>2. ReaderWired
  BY DEF ReaderWired, SubscribedTo
<1>3. WorkerWired
  BY DEF WorkerWired, SubscribedTo, Documents!Worker
<1>4. JobsTyped
  BY DEF JobsTyped
<1> QED BY <1>1, <1>2, <1>3, <1>4 DEF Wired

-------------------------------------------------------------------------------
(* What the steps of the broadcast do to the two inboxes and to Events.    *)

\* Sequences over a set are sequences over a larger one.
LEMMA SeqMonotone ==
  ASSUME NEW S, NEW T, S \subseteq T, NEW q \in Seq(S)
  PROVE  q \in Seq(T)
OBVIOUS

\* A function on 1..n is a sequence of length n.
LEMMA SeqOfLength ==
  ASSUME NEW S, NEW n \in Nat, NEW q \in [1..n -> S]
  PROVE  q \in Seq(S) /\ Len(q) = n
OBVIOUS

\* The text of a message is found under its id.
LEMMA InboxIds ==
  ASSUME TypeOK, NEW s \in Subscribers, NEW i \in 1..Len(inbox[s])
  PROVE  inbox[s][i].id \in 1..Len(data)
<1>1. inbox[s] \in Seq(Message) /\ sent = Len(data)
  BY DEF TypeOK
<1>2. inbox[s][i] \in Message
  BY <1>1
<1> QED BY <1>1, <1>2 DEF Message

\* Events is the worker's inbox with each message replaced by its document.
LEMMA EventsAre ==
  ASSUME TypeOK
  PROVE  /\ Events \in Seq(Docs \union {NoDoc})
         /\ Len(Events) = Len(inbox["worker"])
         /\ \A i \in 1..Len(inbox["worker"]) :
              Events[i] = data[inbox["worker"][i].id]
<1>1. "worker" \in Subscribers /\ Len(inbox["worker"]) \in Nat
  BY DEF TypeOK, Subscribers
<1>2. \A i \in 1..Len(inbox["worker"]) :
        data[inbox["worker"][i].id] \in Docs \union {NoDoc}
  <2> SUFFICES ASSUME NEW i \in 1..Len(inbox["worker"])
               PROVE  data[inbox["worker"][i].id] \in Docs \union {NoDoc}
    OBVIOUS
  <2>1. inbox["worker"][i].id \in 1..Len(data)
    BY <1>1, InboxIds
  <2>2. data \in Seq(Docs \union {NoDoc})
    BY DEF TypeOK
  <2> QED BY <2>1, <2>2, ElementOfSeq
<1> QED BY <1>1, <1>2 DEF Events

(***************************************************************************)
(* A Publish to subj gives each subscription its inbox, or its inbox with  *)
(* the message if it is live, of this subject, and has room.               *)
(***************************************************************************)
LEMMA DeliverTypes ==
  ASSUME TypeOK, NEW subj \in {Changed, Embed}, NEW d \in Docs \union {NoDoc},
         NEW receivers \in SUBSET Queue!Reachable(subj),
         Queue!Deliver(subj, receivers), data' = Append(data, d)
  PROVE  /\ TypeOK'
         /\ \A s \in Subscribers \ receivers : inbox'[s] = inbox[s]
         /\ \A s \in receivers :
              /\ s \in live /\ topic[s] = subj /\ Len(inbox[s]) < Capacity
              /\ inbox'[s] = Append(inbox[s], [id |-> sent + 1, subject |-> subj])
<1> DEFINE msg == [id |-> sent + 1, subject |-> subj]
<1>1. /\ sent' = sent + 1 /\ UNCHANGED <<live, topic, shut>>
      /\ inbox' = [s \in Subscribers |-> IF s \in receivers
                                         THEN Append(inbox[s], msg)
                                         ELSE inbox[s]]
  BY DEF Queue!Deliver
<1>2. receivers \subseteq Subscribers
  BY DEF Queue!Reachable, TypeOK
<1>3. msg \in Message' /\ Message \subseteq Message'
  BY <1>1 DEF Message, TypeOK
<1> HIDE DEF msg
<1>4. ASSUME NEW s \in Subscribers
      PROVE  inbox'[s] \in Seq(Message') /\ Len(inbox'[s]) <= Capacity
  <2>1. inbox[s] \in Seq(Message) /\ Len(inbox[s]) <= Capacity
    BY DEF TypeOK
  <2>2. inbox[s] \in Seq(Message')
    BY <1>3, <2>1, SeqMonotone
  <2>3. CASE s \in receivers
    <3>1. Len(inbox[s]) < Capacity
      BY <2>3 DEF Queue!Reachable
    <3>2. inbox'[s] = Append(inbox[s], msg)
      BY <1>1, <2>3
    <3> QED BY <1>3, <2>1, <2>2, <3>1, <3>2
  <2>4. CASE s \notin receivers
    BY <1>1, <2>1, <2>2, <2>4
  <2> QED BY <2>3, <2>4
<1>5. data' \in Seq(Docs \union {NoDoc}) /\ Len(data') = sent'
  BY <1>1 DEF TypeOK
<1>6. TypeOK'
  BY <1>1, <1>4, <1>5 DEF TypeOK
<1> QED BY <1>1, <1>2, <1>6 DEF Queue!Reachable, msg

\* The documents waiting stay as they are while messages go elsewhere.
LEMMA EventsKept ==
  ASSUME TypeOK, NEW d, data' = Append(data, d),
         inbox'["worker"] = inbox["worker"]
  PROVE  Events' = Events
<1>1. \A i \in 1..Len(inbox["worker"]) :
        data'[inbox["worker"][i].id] = data[inbox["worker"][i].id]
  <2> SUFFICES ASSUME NEW i \in 1..Len(inbox["worker"])
               PROVE  data'[inbox["worker"][i].id] = data[inbox["worker"][i].id]
    OBVIOUS
  <2>1. inbox["worker"][i].id \in 1..Len(data)
    BY InboxIds DEF Subscribers
  <2> QED BY <2>1 DEF TypeOK
<1> QED BY <1>1 DEF Events

\* An event for d arrives.
LEMMA EventArrives ==
  ASSUME TypeOK, NEW d \in Docs \union {NoDoc}, data' = Append(data, d),
         NEW subj,
         inbox'["worker"] = Append(inbox["worker"], [id |-> sent + 1, subject |-> subj])
  PROVE  Events' = Append(Events, d)
<1> DEFINE n == Len(inbox["worker"])
<1>1. n \in Nat /\ inbox["worker"] \in Seq(Message)
  BY DEF TypeOK, Subscribers
<1>2. /\ Len(inbox'["worker"]) = n + 1
      /\ \A i \in 1..n : inbox'["worker"][i] = inbox["worker"][i]
      /\ inbox'["worker"][n + 1].id = sent + 1
  BY <1>1
<1>3. data'[sent + 1] = d
  BY DEF TypeOK
<1>4. ASSUME NEW i \in 1..n
      PROVE  data'[inbox'["worker"][i].id] = Events[i]
  <2>1. inbox["worker"][i].id \in 1..Len(data)
    BY InboxIds DEF Subscribers
  <2>2. data'[inbox["worker"][i].id] = data[inbox["worker"][i].id]
    BY <2>1 DEF TypeOK
  <2> QED BY <1>2, <2>2, EventsAre
<1>5. Events' = [i \in 1..(n + 1) |-> data'[inbox'["worker"][i].id]]
  BY <1>2 DEF Events
<1>6. Events \in Seq(Docs \union {NoDoc}) /\ Len(Events) = n
  BY EventsAre
<1>7. /\ Append(Events, d) \in Seq(Docs \union {NoDoc})
      /\ Len(Append(Events, d)) = n + 1
      /\ \A i \in 1..n : Append(Events, d)[i] = Events[i]
      /\ Append(Events, d)[n + 1] = d
  BY <1>6, AppendProperties
<1>8. \A i \in 1..(n + 1) :
        data'[inbox'["worker"][i].id] = Append(Events, d)[i]
  <2> SUFFICES ASSUME NEW i \in 1..(n + 1)
               PROVE  data'[inbox'["worker"][i].id] = Append(Events, d)[i]
    OBVIOUS
  <2>1. CASE i = n + 1
    BY <1>2, <1>3, <1>7, <2>1
  <2>2. CASE i \in 1..n
    BY <1>4, <1>7, <2>2
  <2>3. \A m \in Nat : \A k \in 1..(m + 1) : k = m + 1 \/ k \in 1..m
    OBVIOUS
  <2> QED BY <1>1, <2>1, <2>2, <2>3
<1>9. \A i \in 1..(n + 1) : Append(Events, d)[i] \in Docs \union {NoDoc}
  BY <1>1, <1>7, ElementOfSeq
<1> HIDE DEF n
<1>10. Events' \in Seq(Docs \union {NoDoc}) /\ Len(Events') = n + 1
  <2>1. Events' \in [1..(n + 1) -> Docs \union {NoDoc}]
    BY <1>5, <1>8, <1>9
  <2>2. n + 1 \in Nat
    BY <1>1 DEF n
  <2> QED BY <2>1, <2>2, SeqOfLength
<1>11. \A i \in 1..(n + 1) : Events'[i] = Append(Events, d)[i]
  BY <1>5, <1>8
<1> QED BY <1>7, <1>10, <1>11, SeqEqual

\* The worker takes the oldest event.
LEMMA EventTaken ==
  ASSUME TypeOK, inbox["worker"] # <<>>, UNCHANGED data,
         inbox'["worker"] = Tail(inbox["worker"])
  PROVE  /\ Events # <<>>
         /\ Head(Events) = data[Head(inbox["worker"]).id]
         /\ Events' = Tail(Events)
<1> DEFINE n == Len(inbox["worker"])
<1>1. n \in Nat /\ n > 0 /\ inbox["worker"] \in Seq(Message)
  BY DEF TypeOK, Subscribers
<1>2. /\ Events \in Seq(Docs \union {NoDoc}) /\ Len(Events) = n
      /\ \A i \in 1..n : Events[i] = data[inbox["worker"][i].id]
  BY EventsAre
<1>3. Events # <<>> /\ Head(Events) = data[Head(inbox["worker"]).id]
  BY <1>1, <1>2
<1>4. /\ Len(inbox'["worker"]) = n - 1
      /\ \A i \in 1..(n - 1) : inbox'["worker"][i] = inbox["worker"][i + 1]
  BY <1>1
<1>5. Events' = [i \in 1..(n - 1) |-> data[inbox'["worker"][i].id]]
  BY <1>4 DEF Events
<1>6. /\ Tail(Events) \in Seq(Docs \union {NoDoc}) /\ Len(Tail(Events)) = n - 1
      /\ \A i \in 1..(n - 1) : Tail(Events)[i] = Events[i + 1]
  BY <1>2, <1>3, HeadTailProperties
<1>7. \A i \in 1..(n - 1) : data[inbox'["worker"][i].id] = Events[i + 1]
  BY <1>1, <1>2, <1>4
<1>8. \A i \in 1..(n - 1) : Events[i + 1] \in Docs \union {NoDoc}
  BY <1>1, <1>2, ElementOfSeq
<1> HIDE DEF n
<1>9. Events' \in Seq(Docs \union {NoDoc}) /\ Len(Events') = n - 1
  <2>1. Events' \in [1..(n - 1) -> Docs \union {NoDoc}]
    BY <1>5, <1>7, <1>8
  <2>2. n - 1 \in Nat
    BY <1>1 DEF n
  <2> QED BY <2>1, <2>2, SeqOfLength
<1>10. \A i \in 1..(n - 1) : Events'[i] = Tail(Events)[i]
  BY <1>5, <1>6, <1>7
<1>11. Events' = Tail(Events)
  BY <1>6, <1>9, <1>10, SeqEqual
<1> QED BY <1>3, <1>11

-------------------------------------------------------------------------------
(***************************************************************************)
(* The Publish of SetSetting is the Announce of SettingsSync, and leaves   *)
(* the worker's channel alone.                                             *)
(***************************************************************************)
LEMMA PublishChangedEffect ==
  ASSUME Wired, PublishChanged
  PROVE  /\ TypeOK' /\ Events' = Events
         /\ UNCHANGED <<live, topic>> /\ inbox'["worker"] = inbox["worker"]
         /\ Settings!Announce
<1> DEFINE R == Queue!Reachable(Changed)
<1>1. Queue!Deliver(Changed, R) /\ data' = Append(data, NoDoc)
  BY DEF PublishChanged, Queue!PublishOK
<1>2. TypeOK /\ Changed \in {Changed, Embed} /\ "reader" \in Subscribers
      /\ "worker" \in Subscribers /\ Changed # Embed
  BY DEF Wired, Changed, Embed, Subscribers
<1>3. /\ TypeOK'
      /\ \A s \in Subscribers \ R : inbox'[s] = inbox[s]
      /\ \A s \in R :
           /\ s \in live /\ topic[s] = Changed /\ Len(inbox[s]) < Capacity
           /\ inbox'[s] = Append(inbox[s], [id |-> sent + 1, subject |-> Changed])
  <2> HIDE DEF R
  <2>1. R \in SUBSET Queue!Reachable(Changed)
    BY DEF R
  <2> QED BY <1>1, <1>2, <2>1, DeliverTypes
<1>4. "worker" \notin R
  BY <1>2 DEF Wired, WorkerWired, SubscribedTo, Queue!Reachable
<1>5. Events' = Events
  BY <1>1, <1>2, <1>3, <1>4, EventsKept
<1>6. UNCHANGED <<live, topic>>
  BY <1>1 DEF Queue!Deliver
<1>7. CASE reader.pc = "starting"
  <2>1. "reader" \notin live
    BY <1>7 DEF Wired, ReaderWired, SubscribedTo
  <2>2. "reader" \notin R
    BY <2>1 DEF Queue!Reachable
  <2>3. inbox'["reader"] = inbox["reader"] /\ settingsLost' = settingsLost \union {"nobody"}
    BY <1>2, <1>3, <2>1, <2>2 DEF PublishChanged
  <2>4. Settings!Announce
    BY <1>7, <2>3 DEF Settings!Announce
  <2> QED BY <1>2, <1>3, <1>4, <1>5, <1>6, <2>4
<1>8. CASE reader.pc # "starting"
  <2>1. "reader" \in live /\ topic["reader"] = Changed
    BY <1>8 DEF Wired, ReaderWired, SubscribedTo
  <2>2. inbox["reader"] \in Seq(Message) /\ Len(inbox["reader"]) \in Nat
    BY <1>2 DEF TypeOK
  <2>3. settingsLost' = settingsLost
    BY <2>1 DEF PublishChanged
  <2>4. ASSUME Len(inbox["reader"]) < Capacity PROVE Settings!Announce
    <3>1. "reader" \in R
      BY <2>1, <2>4 DEF Queue!Reachable
    <3>2. inbox'["reader"] = Append(inbox["reader"], [id |-> sent + 1, subject |-> Changed])
      BY <1>3, <3>1
    <3>3. Len(inbox'["reader"]) = Len(inbox["reader"]) + 1
      BY <2>2, <3>2
    <3> QED BY <1>8, <2>3, <2>4, <3>3 DEF Settings!Announce
  <2>5. ASSUME ~(Len(inbox["reader"]) < Capacity) PROVE Settings!Announce
    <3>1. "reader" \notin R
      BY <2>5 DEF Queue!Reachable
    <3>2. inbox'["reader"] = inbox["reader"]
      BY <1>2, <1>3, <3>1
    <3> QED BY <1>8, <2>3, <2>5, <3>2 DEF Settings!Announce
  <2>6. Settings!Announce
    BY <2>4, <2>5
  <2> QED BY <1>2, <1>3, <1>4, <1>5, <1>6, <2>6
<1> QED BY <1>7, <1>8

(***************************************************************************)
(* A Publish for a document is one of the outcomes of DocumentPipeline, as *)
(* the error it returns tells: with one subscriber a Publish that returned *)
(* an error has delivered nothing.  The settings' channel is left alone.   *)
(***************************************************************************)
LEMMA PublishEmbedEffect ==
  ASSUME Wired, NEW d \in Docs, PublishEmbed(d)
  PROVE  /\ TypeOK'
         /\ UNCHANGED <<live, topic>> /\ inbox'["reader"] = inbox["reader"]
         /\ result' = "ok" => Documents!Delivers(d) \/ Documents!Drops(d)
         /\ result' # "ok" => Documents!Aborts(d)
<1>1. PICK receivers \in SUBSET Queue!Reachable(Embed) :
        /\ Queue!Deliver(Embed, receivers)
        /\ \/ result' = "ok" /\ receivers = Queue!Reachable(Embed)
           \/ result' = "cancelled" /\ \E s \in live \ receivers : topic[s] = Embed
  BY DEF PublishEmbed, Queue!PublishOK, Queue!PublishAborted
<1>2. /\ TypeOK /\ Embed \in {Changed, Embed} /\ "reader" \in Subscribers
      /\ "worker" \in Subscribers /\ Changed # Embed /\ NoSubject # Embed
      /\ live \subseteq {"reader", "worker"}
      /\ d \in Docs \union {NoDoc} /\ data' = Append(data, d)
  BY DEF Wired, Changed, Embed, Subscribers, TypeOK, PublishEmbed
<1>3. /\ TypeOK'
      /\ \A s \in Subscribers \ receivers : inbox'[s] = inbox[s]
      /\ \A s \in receivers :
           /\ s \in live /\ topic[s] = Embed /\ Len(inbox[s]) < Capacity
           /\ inbox'[s] = Append(inbox[s], [id |-> sent + 1, subject |-> Embed])
  BY <1>1, <1>2, DeliverTypes
<1>4. topic["reader"] # Embed
  BY <1>2 DEF Wired, ReaderWired, SubscribedTo
<1>5. inbox'["reader"] = inbox["reader"]
  BY <1>2, <1>3, <1>4
<1>6. UNCHANGED <<live, topic>>
  BY <1>1 DEF Queue!Deliver
<1>7. inbox["worker"] \in Seq(Message) /\ Len(inbox["worker"]) \in Nat
      /\ Len(inbox["worker"]) <= Capacity
      /\ Len(Events) = Len(inbox["worker"])
  <2>1. inbox["worker"] \in Seq(Message) /\ Len(inbox["worker"]) <= Capacity
    BY <1>2 DEF TypeOK
  <2>2. Len(Events) = Len(inbox["worker"])
    BY <1>2, EventsAre
  <2> QED BY <2>1, <2>2
<1>8. /\ worker.pc = "starting" => "worker" \notin live
      /\ worker.pc # "starting" => "worker" \in live /\ topic["worker"] = Embed
  BY DEF Wired, WorkerWired, SubscribedTo
<1>9. CASE "worker" \in receivers
  <2>1. /\ "worker" \in live /\ Len(inbox["worker"]) < Capacity
        /\ inbox'["worker"] = Append(inbox["worker"], [id |-> sent + 1, subject |-> Embed])
    BY <1>3, <1>9
  <2>2. Events' = Append(Events, d)
    BY <1>2, <2>1, EventArrives
  <2>3. Len(inbox'["worker"]) = Len(inbox["worker"]) + 1
    BY <1>7, <2>1
  <2>4. inbox'["worker"] # inbox["worker"]
    BY <1>7, <2>3
  <2>5. docLost' = [docLost EXCEPT ![d] = {}]
    BY <2>4 DEF PublishEmbed
  <2>6. Documents!Delivers(d)
    BY <1>7, <1>8, <2>1, <2>2, <2>5 DEF Documents!Delivers, Documents!Subscribed
  <2>7. result' = "ok"
    <3>1. ~ \E s \in live \ receivers : topic[s] = Embed
      BY <1>2, <1>4, <1>9
    <3> QED BY <1>1, <3>1
  <2> QED BY <1>3, <1>5, <1>6, <2>6, <2>7
<1>10. CASE "worker" \notin receivers
  <2>1. inbox'["worker"] = inbox["worker"]
    BY <1>2, <1>3, <1>10
  <2>2. Events' = Events
    BY <1>2, <2>1, EventsKept
  <2>3. docLost' = [docLost EXCEPT ![d] = @ \union {WhyMissed}]
    BY <2>1 DEF PublishEmbed
  <2>4. CASE result' = "ok"
    <3>1. ~("worker" \in live /\ topic["worker"] = Embed /\ Len(inbox["worker"]) < Capacity)
      BY <1>1, <1>10, <2>4 DEF Queue!Reachable
    <3>2. CASE worker.pc = "starting"
      <4>1. WhyMissed = "nobody"
        BY <1>8, <2>4, <3>2 DEF WhyMissed
      <4>2. Documents!Drops(d)
        BY <2>2, <2>3, <3>2, <4>1
        DEF Documents!Drops, Documents!Loses, Documents!Subscribed
      <4> QED BY <1>3, <1>5, <1>6, <2>4, <4>2
    <3>3. CASE worker.pc # "starting"
      <4>1. WhyMissed = "full"
        BY <1>8, <2>4, <3>3 DEF WhyMissed
      <4>2. Len(Events) = Capacity
        BY <1>7, <1>8, <3>1, <3>3
      <4>3. Documents!Drops(d)
        BY <2>2, <2>3, <3>3, <4>1, <4>2
        DEF Documents!Drops, Documents!Loses, Documents!Subscribed
      <4> QED BY <1>3, <1>5, <1>6, <2>4, <4>3
    <3> QED BY <3>2, <3>3
  <2>5. CASE result' # "ok"
    <3>1. result' = "cancelled" /\ \E s \in live \ receivers : topic[s] = Embed
      BY <1>1, <2>5
    <3>2. "worker" \in live
      BY <1>2, <1>4, <3>1
    <3>3. worker.pc # "starting" /\ WhyMissed = "cancelled"
      BY <1>8, <3>1, <3>2 DEF WhyMissed
    <3>4. Documents!Aborts(d)
      BY <2>2, <2>3, <3>3
      DEF Documents!Aborts, Documents!Loses, Documents!Subscribed
    <3> QED BY <1>3, <1>5, <1>6, <2>5, <3>4
  <2> QED BY <2>4, <2>5
<1> QED BY <1>9, <1>10

-------------------------------------------------------------------------------
(* Each step of the backend keeps the wiring, and is a step of each        *)
(* component or changes nothing of it.                                     *)

Good == /\ Wired'
        /\ Settings!Next \/ UNCHANGED Settings!vars
        /\ Documents!Next \/ UNCHANGED Documents!vars

\* Steps beside the queue leave its types and Events alone.
LEMMA QueueKept ==
  ASSUME Wired, UNCHANGED queueVars
  PROVE  TypeOK' /\ Events' = Events
BY DEF Wired, TypeOK, Message, queueVars, Events

\* Steps beside the settings are stutters of SettingsSync.
LEMMA SettingsKept ==
  ASSUME UNCHANGED settingsVars, inbox'["reader"] = inbox["reader"]
  PROVE  UNCHANGED Settings!vars
BY DEF settingsVars, Settings!vars

\* Steps beside the documents are stutters of DocumentPipeline.
LEMMA DocumentsKept ==
  ASSUME UNCHANGED documentVars, Events' = Events
  PROVE  UNCHANGED Documents!vars
BY DEF documentVars, Documents!vars

\* The reader goes on, with its subscription.
LEMMA ReaderGoesOn ==
  ASSUME Wired, UNCHANGED <<live, topic>>, reader.pc # "starting",
         NEW pc, pc # "starting", NEW got,
         \/ reader' = [reader EXCEPT !.pc = pc]
         \/ reader' = [pc |-> pc, got |-> got]
  PROVE  ReaderWired'
<1>1. reader' = [pc |-> pc, got |-> reader'.got]
  BY DEF Wired, ReaderWired
<1> QED BY <1>1 DEF Wired, ReaderWired, SubscribedTo

\* Settings: the steps that do not touch the queue.
LEMMA SettingsAloneGood ==
  ASSUME Wired, SettingsAlone
  PROVE  Good
<1>1. TypeOK' /\ Events' = Events
  BY QueueKept DEF SettingsAlone
<1>2. UNCHANGED <<live, topic, inbox, documentVars>>
  BY DEF SettingsAlone, queueVars
<1>3. WorkerWired' /\ JobsTyped'
  BY <1>2 DEF documentVars, Wired, WorkerWired, SubscribedTo, JobsTyped
<1>4. Settings!Next
  BY DEF SettingsAlone, Settings!Next, Settings!Boot, Settings!Reader
<1>5. ReaderWired'
  <2>1. CASE UNCHANGED reader
    BY <1>2, <2>1 DEF Wired, ReaderWired, SubscribedTo
  <2>2. CASE Settings!ReaderSelects
    <3>1. PICK pc \in {"assign", "waiting"} :
            \/ reader' = [reader EXCEPT !.pc = pc]
            \/ reader' = [pc |-> pc, got |-> db]
      BY <2>2 DEF Settings!ReaderSelects
    <3>2. reader.pc # "starting"
      BY <2>2 DEF Settings!ReaderSelects
    <3> QED BY <1>2, <3>1, <3>2, ReaderGoesOn
  <2>3. CASE Settings!ReaderAssigns
    <3>1. reader' = [reader EXCEPT !.pc = "waiting"] /\ reader.pc # "starting"
      BY <2>3 DEF Settings!ReaderAssigns
    <3> QED BY <1>2, <3>1, ReaderGoesOn
  <2>4. UNCHANGED reader \/ Settings!ReaderSelects \/ Settings!ReaderAssigns
    BY DEF SettingsAlone, Settings!BootLoad, Settings!BootAssign,
           Settings!CheckFirstBoot, Settings!SeedDefaults, Settings!MarkBooted,
           Settings!SetterStores, Settings!ChatReadsKey, Settings!ChatReadsUrl
  <2> QED BY <2>1, <2>2, <2>3, <2>4
<1>6. UNCHANGED Documents!vars
  BY <1>1, <1>2, DocumentsKept
<1> QED BY <1>1, <1>3, <1>4, <1>5, <1>6 DEF Good, Wired

\* Settings: both announcements.
LEMMA AnnounceGood ==
  ASSUME Wired,
         SeedAnnounces \/ \E u \in Setters : SetterAnnounces(u)
  PROVE  Good
<1>1. PublishChanged
  BY DEF SeedAnnounces, SetterAnnounces
<1>2. /\ TypeOK' /\ Events' = Events
      /\ UNCHANGED <<live, topic>> /\ inbox'["worker"] = inbox["worker"]
      /\ Settings!Announce
  BY <1>1, PublishChangedEffect
<1>3. UNCHANGED <<db, marker, cache, reader, chat, skipped, documentVars>>
  BY <1>1 DEF PublishChanged
<1>5. reader.pc = "starting" => inbox'["reader"] = inbox["reader"]
  <2> SUFFICES ASSUME reader.pc = "starting"
               PROVE  inbox'["reader"] = inbox["reader"]
    OBVIOUS
  <2>1. "reader" \notin Queue!Reachable(Changed) /\ "reader" \in Subscribers
    BY DEF Wired, ReaderWired, SubscribedTo, Queue!Reachable, Subscribers
  <2> QED BY <1>1, <2>1 DEF PublishChanged, Queue!PublishOK, Queue!Deliver
<1>6. Wired'
  BY <1>2, <1>3, <1>5
  DEF documentVars, Wired, ReaderWired, WorkerWired, SubscribedTo, JobsTyped
<1>7. Settings!Next
  <2>1. CASE SeedAnnounces
    <3>1. Settings!SeedAnnounce
      BY <1>2, <1>3, <2>1 DEF SeedAnnounces, Settings!SeedAnnounce
    <3> QED BY <3>1 DEF Settings!Next, Settings!Boot
  <2>2. ASSUME NEW u \in Setters, SetterAnnounces(u) PROVE Settings!Next
    <3>1. Settings!SetterAnnounces(u)
      BY <1>2, <1>3, <2>2 DEF SetterAnnounces, Settings!SetterAnnounces
    <3> QED BY <3>1 DEF Settings!Next
  <2> QED BY <2>1, <2>2
<1>8. UNCHANGED Documents!vars
  BY <1>2, <1>3, DocumentsKept
<1> QED BY <1>6, <1>7, <1>8 DEF Good

\* Settings: the goroutine subscribes and receives.
LEMMA ReaderGood ==
  ASSUME Wired, ReaderSubscribes \/ ReaderTakes
  PROVE  Good
<1>1. /\ UNCHANGED <<db, marker, cache, boot, setter, chat, settingsLost, skipped,
                     data, documentVars>>
      /\ "reader" \in Subscribers /\ "worker" \in Subscribers /\ "reader" # "worker"
  BY DEF ReaderSubscribes, ReaderTakes, Subscribers
<1>2. CASE ReaderSubscribes
  <2>1. /\ topic' = [topic EXCEPT !["reader"] = Changed]
        /\ live' = live \union {"reader"}
        /\ UNCHANGED <<inbox, sent, shut>>
        /\ reader' = [reader EXCEPT !.pc = "waiting"] /\ reader.pc = "starting"
    BY <1>2 DEF ReaderSubscribes, Queue!Join
  <2>2. TypeOK' /\ Events' = Events
    BY <1>1, <2>1 DEF Wired, TypeOK, Message, Events
  <2>3. ReaderWired'
    BY <1>1, <2>1 DEF Wired, TypeOK, ReaderWired, SubscribedTo
  <2>4. WorkerWired' /\ JobsTyped'
    BY <1>1, <2>1 DEF Wired, WorkerWired, SubscribedTo, JobsTyped, documentVars, TypeOK
  <2>5. Settings!ReaderSubscribes
    BY <1>1, <2>1 DEF Settings!ReaderSubscribes
  <2>6. UNCHANGED Documents!vars
    BY <1>1, <2>2, DocumentsKept
  <2> QED BY <2>2, <2>3, <2>4, <2>5, <2>6 DEF Good, Wired, Settings!Next, Settings!Reader
<1>3. CASE ReaderTakes
  <2>1. /\ inbox["reader"] # <<>>
        /\ inbox' = [inbox EXCEPT !["reader"] = Tail(@)]
        /\ UNCHANGED <<live, topic, sent, shut>>
        /\ reader' = [reader EXCEPT !.pc = "select"] /\ reader.pc = "waiting"
    BY <1>3 DEF ReaderTakes, Queue!Take
  <2>2. inbox["reader"] \in Seq(Message) /\ Len(inbox["reader"]) <= Capacity
    BY <1>1 DEF Wired, TypeOK
  <2>3. /\ Tail(inbox["reader"]) \in Seq(Message)
        /\ Len(Tail(inbox["reader"])) = Len(inbox["reader"]) - 1
        /\ Len(inbox["reader"]) > 0
    BY <2>1, <2>2, HeadTailProperties, EmptySeq
  <2>4. /\ inbox'["reader"] = Tail(inbox["reader"])
        /\ \A s \in Subscribers \ {"reader"} : inbox'[s] = inbox[s]
        /\ inbox' \in [Subscribers -> Seq(Message)]
    BY <1>1, <2>1, <2>3 DEF Wired, TypeOK
  <2>5. \A s \in Subscribers : Len(inbox'[s]) <= Capacity
    <3>1. Len(inbox'["reader"]) <= Capacity
      BY <2>2, <2>3, <2>4
    <3>2. \A s \in Subscribers \ {"reader"} : Len(inbox'[s]) <= Capacity
      BY <2>4 DEF Wired, TypeOK
    <3> QED BY <3>1, <3>2
  <2>6. TypeOK'
    BY <1>1, <2>1, <2>4, <2>5 DEF Wired, TypeOK, Message
  <2>7. Events' = Events
    BY <1>1, <2>4 DEF Events
  <2>8. ReaderWired'
    BY <2>1, ReaderGoesOn
  <2>9. WorkerWired' /\ JobsTyped'
    BY <1>1, <2>1, <2>4 DEF Wired, WorkerWired, SubscribedTo, JobsTyped, documentVars
  <2>10. Settings!ReaderTakes
    BY <1>1, <2>1, <2>3, <2>4 DEF Settings!ReaderTakes
  <2>11. UNCHANGED Documents!vars
    BY <1>1, <2>7, DocumentsKept
  <2> QED BY <2>6, <2>8, <2>9, <2>10, <2>11 DEF Good, Wired, Settings!Next, Settings!Reader
<1> QED BY <1>2, <1>3

\* The worker goes on, with its subscription.
LEMMA WorkerGoesOn ==
  ASSUME Wired, UNCHANGED <<live, topic>>, worker.pc # "starting",
         worker' = [pc |-> worker'.pc, doc |-> worker'.doc,
                    part |-> worker'.part, usable |-> worker'.usable],
         worker'.pc # "starting"
  PROVE  WorkerWired'
BY DEF Wired, WorkerWired, SubscribedTo

\* The list of a job stays a list of documents.
LEMMA JobAlone ==
  ASSUME Wired, NEW j \in Jobs, Documents!JobFetches(j) \/ Documents!JobMarks(j)
  PROVE  JobsTyped'
<1>1. CASE Documents!JobFetches(j)
  BY <1>1 DEF Wired, JobsTyped, Documents!JobFetches, Documents!JobDone
<1>2. CASE Documents!JobMarks(j)
  <2>1. job' = [job EXCEPT ![j] = Documents!JobAfter(j, job[j].at)]
    BY <1>2 DEF Documents!JobMarks
  <2>2. Documents!JobAfter(j, job[j].at)
          \in [pc : {"idle", "publish", "mark", "done"},
               todo : SUBSET Docs, at : Docs \union {NoDoc}]
    BY DEF Wired, JobsTyped, Documents!JobAfter, Documents!JobDone
  <2> QED BY <2>1, <2>2 DEF Wired, JobsTyped
<1> QED BY <1>1, <1>2

\* The worker between two receives.
LEMMA WorkerAlone ==
  ASSUME Wired, UNCHANGED <<live, topic>>,
         \/ Documents!WorkerMarksInProgress \/ Documents!WorkerReadsMetadata
         \/ Documents!WorkerOpens \/ Documents!WorkerEmbeds
         \/ Documents!WorkerSavesPart
         \/ Documents!WorkerSucceeds \/ Documents!WorkerFails
  PROVE  WorkerWired' /\ UNCHANGED job
<1> USE DEF Wired, WorkerWired, Documents!Idle, Documents!Worker, Documents!WorkerGivesUp,
            Documents!WorkerFinishes
<1>1. CASE Documents!WorkerMarksInProgress
  BY <1>1, WorkerGoesOn DEF Documents!WorkerMarksInProgress
<1>2. CASE Documents!WorkerReadsMetadata
  <2>1. worker.pc = "metadata" /\ UNCHANGED job
    BY <1>2 DEF Documents!WorkerReadsMetadata
  <2>2. \/ worker' = [worker EXCEPT !.pc = "open"]
        \/ worker' = Documents!Idle
    BY <1>2 DEF Documents!WorkerReadsMetadata
  <2> QED BY <2>1, <2>2, WorkerGoesOn
<1>3. CASE Documents!WorkerOpens
  <2>1. worker.pc = "open" /\ UNCHANGED job
    BY <1>3 DEF Documents!WorkerOpens
  <2>2. \/ worker' = [worker EXCEPT !.pc = "pipeline"]
        \/ worker' = Documents!Idle
    BY <1>3 DEF Documents!WorkerOpens
  <2> QED BY <2>1, <2>2, WorkerGoesOn
<1>4. CASE Documents!WorkerEmbeds
  BY <1>4, WorkerGoesOn DEF Documents!WorkerEmbeds
<1>5. CASE Documents!WorkerSavesPart
  BY <1>5, WorkerGoesOn DEF Documents!WorkerSavesPart
<1>6. CASE Documents!WorkerSucceeds
  BY <1>6, WorkerGoesOn DEF Documents!WorkerSucceeds
<1>7. CASE Documents!WorkerFails
  BY <1>7, WorkerGoesOn DEF Documents!WorkerFails
<1> QED BY <1>1, <1>2, <1>3, <1>4, <1>5, <1>6, <1>7

\* Documents: the steps that do not touch the queue.
LEMMA DocumentsAloneGood ==
  ASSUME Wired, DocumentsAlone
  PROVE  Good
<1>1. TypeOK' /\ Events' = Events
  BY QueueKept DEF DocumentsAlone
<1>2. UNCHANGED <<live, topic, inbox, settingsVars>>
  BY DEF DocumentsAlone, queueVars
<1>3. ReaderWired'
  BY <1>2 DEF settingsVars, Wired, ReaderWired, SubscribedTo
<1>4. Documents!Next
  BY DEF DocumentsAlone, Documents!Next, Documents!WorkerNext
<1>5. WorkerWired' /\ JobsTyped'
  <2>1. CASE UNCHANGED <<worker, job>>
    BY <1>2, <2>1 DEF Wired, WorkerWired, SubscribedTo, JobsTyped
  <2>2. ASSUME NEW j \in Jobs, Documents!JobFetches(j) \/ Documents!JobMarks(j)
        PROVE  WorkerWired' /\ JobsTyped'
    <3>1. UNCHANGED worker
      BY <2>2 DEF Documents!JobFetches, Documents!JobMarks
    <3>2. JobsTyped'
      BY <2>2, JobAlone
    <3> QED BY <1>2, <3>1, <3>2 DEF Wired, WorkerWired, SubscribedTo
  <2>3. ASSUME \/ Documents!WorkerMarksInProgress \/ Documents!WorkerReadsMetadata
               \/ Documents!WorkerOpens \/ Documents!WorkerEmbeds
               \/ Documents!WorkerSavesPart
               \/ Documents!WorkerSucceeds \/ Documents!WorkerFails
        PROVE  WorkerWired' /\ JobsTyped'
    BY <1>2, <2>3, WorkerAlone DEF Wired, JobsTyped
  <2>4. ASSUME NEW d \in Docs, Documents!UploadStores(d) \/ Documents!UploadSaves(d)
        PROVE  UNCHANGED <<worker, job>>
    BY <2>4 DEF Documents!UploadStores, Documents!UploadSaves
  <2> QED BY <2>1, <2>2, <2>3, <2>4 DEF DocumentsAlone
<1>6. UNCHANGED Settings!vars
  BY <1>2, SettingsKept
<1> QED BY <1>1, <1>3, <1>4, <1>5, <1>6 DEF Good, Wired

\* After a Publish for a document reader and worker are where they were; the
\* worker that has not started has no inbox to fill.
LEMMA PublishKeepsWiring ==
  ASSUME Wired, NEW d \in Docs, PublishEmbed(d), UNCHANGED <<settingsVars, worker>>
  PROVE  ReaderWired' /\ WorkerWired' /\ UNCHANGED Settings!vars
<1>1. UNCHANGED <<live, topic>> /\ inbox'["reader"] = inbox["reader"]
  BY PublishEmbedEffect
<1>2. ReaderWired'
  BY <1>1 DEF settingsVars, Wired, ReaderWired, SubscribedTo
<1>3. worker.pc = "starting" => inbox'["worker"] = inbox["worker"]
  <2> SUFFICES ASSUME worker.pc = "starting"
               PROVE  inbox'["worker"] = inbox["worker"]
    OBVIOUS
  <2>1. PICK receivers \in SUBSET Queue!Reachable(Embed) : Queue!Deliver(Embed, receivers)
    BY DEF PublishEmbed, Queue!PublishOK, Queue!PublishAborted
  <2>2. "worker" \notin receivers /\ "worker" \in Subscribers
    BY DEF Wired, WorkerWired, SubscribedTo, Queue!Reachable, Subscribers
  <2> QED BY <2>1, <2>2 DEF Queue!Deliver
<1>4. WorkerWired'
  BY <1>1, <1>3 DEF Wired, WorkerWired, SubscribedTo
<1>5. UNCHANGED Settings!vars
  BY <1>1, SettingsKept
<1> QED BY <1>2, <1>4, <1>5

\* Documents: the event of an upload.
LEMMA UploadGood ==
  ASSUME Wired, NEW d \in Docs, UploadPublishes(d)
  PROVE  Good
<1>1. PublishEmbed(d) /\ UNCHANGED <<settingsVars, worker, job>>
  BY DEF UploadPublishes
<1>2. TypeOK' /\ (Documents!Delivers(d) \/ Documents!Drops(d) \/ Documents!Aborts(d))
  BY <1>1, PublishEmbedEffect
<1>3. ReaderWired' /\ WorkerWired' /\ UNCHANGED Settings!vars
  BY <1>1, PublishKeepsWiring
<1>4. JobsTyped'
  BY <1>1 DEF Wired, JobsTyped
<1>5. Documents!UploadPublishes(d)
  BY <1>2 DEF UploadPublishes, Documents!UploadPublishes
<1>6. Documents!Next
  BY <1>5 DEF Documents!Next
<1> QED BY <1>2, <1>3, <1>4, <1>6 DEF Good, Wired

\* Documents: the event of a retry job.
LEMMA JobGood ==
  ASSUME Wired, NEW j \in Jobs, JobPublishes(j)
  PROVE  Good
<1>1. PICK d \in job[j].todo :
        /\ PublishEmbed(d)
        /\ job' = [job EXCEPT ![j] =
                     IF result' = "ok" THEN [@ EXCEPT !.pc = "mark", !.at = d]
                     ELSE Documents!JobDone]
  BY DEF JobPublishes
<1>2. UNCHANGED <<settingsVars, worker, objects, status, stored, upload, twice,
                  missed, unmarked>>
  BY DEF JobPublishes
<1>3. d \in Docs
  BY DEF Wired, JobsTyped
<1>4. /\ TypeOK'
      /\ result' = "ok" => Documents!Delivers(d) \/ Documents!Drops(d)
      /\ result' # "ok" => Documents!Aborts(d)
  BY <1>1, <1>3, PublishEmbedEffect
<1>5. ReaderWired' /\ WorkerWired' /\ UNCHANGED Settings!vars
  BY <1>1, <1>2, <1>3, PublishKeepsWiring
<1>6. JobsTyped'
  BY <1>1, <1>3 DEF Wired, JobsTyped, Documents!JobDone
<1>7. Documents!JobPublishes(j)
  <2>1. job[j].pc = "publish"
    BY DEF JobPublishes
  <2>2. CASE result' = "ok"
    BY <1>1, <1>2, <1>4, <2>1, <2>2 DEF Documents!JobPublishes
  <2>3. CASE result' # "ok"
    BY <1>1, <1>2, <1>4, <2>1, <2>3 DEF Documents!JobPublishes
  <2> QED BY <2>2, <2>3
<1>8. Documents!Next
  BY <1>7 DEF Documents!Next
<1> QED BY <1>4, <1>5, <1>6, <1>8 DEF Good, Wired

\* Documents: the worker subscribes and receives.
LEMMA WorkerGood ==
  ASSUME Wired, WorkerSubscribes \/ WorkerTakes
  PROVE  Good
<1>1. /\ UNCHANGED <<objects, status, stored, upload, job, docLost, twice, missed,
                     unmarked, data, settingsVars>>
      /\ "reader" \in Subscribers /\ "worker" \in Subscribers /\ "reader" # "worker"
  BY DEF WorkerSubscribes, WorkerTakes, Subscribers
<1>2. JobsTyped'
  BY <1>1 DEF Wired, JobsTyped
<1>3. CASE WorkerSubscribes
  <2>1. /\ topic' = [topic EXCEPT !["worker"] = Embed]
        /\ live' = live \union {"worker"}
        /\ UNCHANGED <<inbox, sent, shut>>
        /\ worker' = Documents!Idle /\ worker.pc = "starting"
    BY <1>3 DEF WorkerSubscribes, Queue!Join
  <2>2. TypeOK' /\ Events' = Events
    BY <1>1, <2>1 DEF Wired, TypeOK, Message, Events
  <2>3. WorkerWired'
    BY <1>1, <2>1 DEF Wired, TypeOK, WorkerWired, SubscribedTo, Documents!Idle,
                      Documents!Worker
  <2>4. ReaderWired'
    BY <1>1, <2>1 DEF Wired, ReaderWired, SubscribedTo, settingsVars, TypeOK
  <2>5. Documents!WorkerSubscribes
    BY <1>1, <2>1, <2>2 DEF Documents!WorkerSubscribes
  <2>6. UNCHANGED Settings!vars
    BY <1>1, <2>1, SettingsKept
  <2> QED BY <1>2, <2>2, <2>3, <2>4, <2>5, <2>6
          DEF Good, Wired, Documents!Next, Documents!WorkerNext
<1>4. CASE WorkerTakes
  <2>1. /\ inbox["worker"] # <<>>
        /\ inbox' = [inbox EXCEPT !["worker"] = Tail(@)]
        /\ UNCHANGED <<live, topic, sent, shut>>
        /\ worker' = Documents!Worker("took", data[Head(inbox["worker"]).id])
        /\ worker.pc = "waiting"
    BY <1>4 DEF WorkerTakes, Queue!Take
  <2>2. inbox["worker"] \in Seq(Message) /\ Len(inbox["worker"]) <= Capacity
    BY <1>1 DEF Wired, TypeOK
  <2>3. /\ Tail(inbox["worker"]) \in Seq(Message)
        /\ Len(Tail(inbox["worker"])) = Len(inbox["worker"]) - 1
        /\ Len(inbox["worker"]) > 0
    BY <2>1, <2>2, HeadTailProperties, EmptySeq
  <2>4. /\ inbox'["worker"] = Tail(inbox["worker"])
        /\ \A s \in Subscribers \ {"worker"} : inbox'[s] = inbox[s]
        /\ inbox' \in [Subscribers -> Seq(Message)]
    BY <1>1, <2>1, <2>3 DEF Wired, TypeOK
  <2>5. \A s \in Subscribers : Len(inbox'[s]) <= Capacity
    <3>1. Len(inbox'["worker"]) <= Capacity
      BY <2>2, <2>3, <2>4
    <3>2. \A s \in Subscribers \ {"worker"} : Len(inbox'[s]) <= Capacity
      BY <2>4 DEF Wired, TypeOK
    <3> QED BY <3>1, <3>2
  <2>6. TypeOK'
    BY <1>1, <2>1, <2>4, <2>5 DEF Wired, TypeOK, Message
  <2>7. /\ Events # <<>>
        /\ Head(Events) = data[Head(inbox["worker"]).id]
        /\ Events' = Tail(Events)
    BY <1>1, <2>1, <2>4, EventTaken DEF Wired
  <2>8. WorkerWired'
    BY <2>1, WorkerGoesOn DEF Documents!Worker
  <2>9. ReaderWired'
    BY <1>1, <2>1, <2>4 DEF Wired, ReaderWired, SubscribedTo, settingsVars
  <2>10. Documents!WorkerTakes
    BY <1>1, <2>1, <2>7 DEF Documents!WorkerTakes
  <2>11. UNCHANGED Settings!vars
    BY <1>1, <2>4, SettingsKept
  <2> QED BY <1>2, <2>6, <2>8, <2>9, <2>10, <2>11
          DEF Good, Wired, Documents!Next, Documents!WorkerNext
<1> QED BY <1>3, <1>4

\* A restart is a restart of both components.
LEMMA CrashGood ==
  ASSUME Wired, Crash
  PROVE  Good
<1>1. /\ live' = {} /\ topic' = [s \in Subscribers |-> NoSubject]
      /\ inbox' = [s \in Subscribers |-> <<>>]
      /\ sent' = 0 /\ shut' = FALSE /\ data' = <<>>
      /\ Settings!Crash /\ Documents!Crash
  BY DEF Crash
<1>2. TypeOK'
  BY <1>1 DEF TypeOK, Message
<1>3. ReaderWired'
  BY <1>1 DEF ReaderWired, SubscribedTo, Settings!Crash, Subscribers
<1>4. WorkerWired'
  BY <1>1 DEF WorkerWired, SubscribedTo, Documents!Crash, Documents!Worker, Subscribers
<1>5. JobsTyped'
  BY <1>1 DEF Wired, JobsTyped, Documents!Crash, Documents!JobDone
<1> QED BY <1>1, <1>2, <1>3, <1>4, <1>5 DEF Good, Wired, Settings!Next, Documents!Next

\* Every step keeps the wiring and is a step or a stutter of each component.
LEMMA EveryStepGood == Wired /\ [Next]_vars => Good
<1> SUFFICES ASSUME Wired, [Next]_vars PROVE Good
  OBVIOUS
<1>1. CASE UNCHANGED vars
  <2>1. UNCHANGED <<settingsVars, documentVars, queueVars>>
    BY <1>1 DEF vars
  <2>2. TypeOK' /\ Events' = Events
    BY <2>1, QueueKept
  <2>3. UNCHANGED <<live, topic, inbox, reader, worker, job>>
    BY <2>1 DEF queueVars, settingsVars, documentVars
  <2>4. ReaderWired' /\ WorkerWired' /\ JobsTyped'
    BY <2>3 DEF Wired, ReaderWired, WorkerWired, SubscribedTo, JobsTyped
  <2>5. UNCHANGED Settings!vars /\ UNCHANGED Documents!vars
    BY <2>1, <2>2, <2>3, SettingsKept, DocumentsKept
  <2> QED BY <2>2, <2>4, <2>5 DEF Good, Wired
<1> QED
  BY <1>1, SettingsAloneGood, AnnounceGood, ReaderGood, DocumentsAloneGood,
     UploadGood, JobGood, WorkerGood, CrashGood
  DEF Next

(***************************************************************************)
(* The queue's part of the state keeps its types: no channel holds more    *)
(* than its capacity, the queue is never closed (nobody calls Close), and  *)
(* each message taken has its data.                                        *)
(***************************************************************************)
THEOREM TypeCorrect == Spec => []TypeOK
<1>1. Wired /\ [Next]_vars => Wired'
  BY EveryStepGood DEF Good
<1>2. Wired => TypeOK
  BY DEF Wired
<1> QED BY <1>1, <1>2, WiredInit, PTL DEF Spec

(***************************************************************************)
(* The backend with its one queue behaves as SettingsSync with a counter   *)
(* for a channel: documents' events never disturb it.                      *)
(***************************************************************************)
THEOREM BackendIsSettings == Spec => ImplementsSettings
<1>1. Init => Settings!Init
  BY DEF Init
<1>2. Wired /\ [Next]_vars => Wired' /\ [Settings!Next]_(Settings!vars)
  BY EveryStepGood DEF Good
<1> QED BY <1>1, <1>2, WiredInit, PTL DEF Spec, ImplementsSettings, Settings!Spec

(***************************************************************************)
(* The backend with its one queue behaves as DocumentPipeline with its     *)
(* sequence of documents.                                                  *)
(***************************************************************************)
THEOREM BackendIsDocuments == Spec => ImplementsDocuments
<1>1. Init => Documents!Init
  BY DEF Init
<1>2. Wired /\ [Next]_vars => Wired' /\ [Documents!Next]_(Documents!vars)
  BY EveryStepGood DEF Good
<1> QED BY <1>1, <1>2, WiredInit, PTL DEF Spec, ImplementsDocuments, Documents!Spec
-------------------------------------------------------------------------------
(***************************************************************************)
(* The theorems of the two components hold of the backend.  They are about *)
(* instances of the proof modules, whose definitions are those of Settings *)
(* and Documents under another name.                                       *)
(***************************************************************************)
SettingsSyncs == INSTANCE SettingsSyncProofs
  WITH pending <- Len(inbox["reader"]), lost <- settingsLost

Pipeline == INSTANCE DocumentPipelineProofs WITH queue <- Events, lost <- docLost

\* The two instances of SettingsSync are the same specification.
LEMMA SameSettings == SettingsSyncs!Spec <=> Settings!Spec
BY DEF SettingsSyncs!vars, Settings!vars, SettingsSyncs!Nothing,
   Settings!Nothing, SettingsSyncs!Init, Settings!Init, SettingsSyncs!Serving,
   Settings!Serving, SettingsSyncs!Announce, Settings!Announce,
   SettingsSyncs!Upsert, Settings!Upsert, SettingsSyncs!BootLoad,
   Settings!BootLoad, SettingsSyncs!BootAssign, Settings!BootAssign,
   SettingsSyncs!Unmarked, Settings!Unmarked, SettingsSyncs!CheckFirstBoot,
   Settings!CheckFirstBoot, SettingsSyncs!SeedDefaults, Settings!SeedDefaults,
   SettingsSyncs!SeedAnnounce, Settings!SeedAnnounce,
   SettingsSyncs!MarkBooted, Settings!MarkBooted, SettingsSyncs!Boot,
   Settings!Boot, SettingsSyncs!ReaderSubscribes, Settings!ReaderSubscribes,
   SettingsSyncs!ReaderTakes, Settings!ReaderTakes,
   SettingsSyncs!ReaderSelects, Settings!ReaderSelects,
   SettingsSyncs!ReaderAssigns, Settings!ReaderAssigns, SettingsSyncs!Reader,
   Settings!Reader, SettingsSyncs!SetterStores, Settings!SetterStores,
   SettingsSyncs!SetterAnnounces, Settings!SetterAnnounces,
   SettingsSyncs!ChatReadsKey, Settings!ChatReadsKey,
   SettingsSyncs!ChatReadsUrl, Settings!ChatReadsUrl, SettingsSyncs!Crash,
   Settings!Crash, SettingsSyncs!Next, Settings!Next, SettingsSyncs!Spec,
   Settings!Spec

\* So are the two instances of DocumentPipeline.
LEMMA SameWorkerHas == \A d : Pipeline!WorkerHas(d) <=> Documents!WorkerHas(d)
BY DEF Pipeline!WorkerHas, Documents!WorkerHas, Pipeline!Contains, Documents!Contains

\* The steps agree, action by action.
LEMMA SameDocumentSteps == Pipeline!Next <=> Documents!Next
<1>1. \A d \in Docs : Pipeline!UploadStores(d) <=> Documents!UploadStores(d)
  BY DEF Pipeline!UploadStores, Documents!UploadStores
<1>2. \A d \in Docs : Pipeline!UploadSaves(d) <=> Documents!UploadSaves(d)
  BY DEF Pipeline!UploadSaves, Documents!UploadSaves
<1>3. \A d \in Docs : Pipeline!UploadPublishes(d) <=> Documents!UploadPublishes(d)
  BY DEF Pipeline!UploadPublishes, Documents!UploadPublishes,
     Pipeline!Delivers, Documents!Delivers, Pipeline!Drops, Documents!Drops,
     Pipeline!Aborts, Documents!Aborts, Pipeline!Subscribed,
     Documents!Subscribed, Pipeline!Loses, Documents!Loses
<1>4. \A j \in Jobs : Pipeline!JobFetches(j) <=> Documents!JobFetches(j)
  BY DEF Pipeline!JobFetches, Documents!JobFetches, Pipeline!JobDone,
     Documents!JobDone
<1>5. \A j \in Jobs : Pipeline!JobPublishes(j) <=> Documents!JobPublishes(j)
  BY DEF Pipeline!JobPublishes, Documents!JobPublishes, Pipeline!JobDone,
     Documents!JobDone, Pipeline!Delivers, Documents!Delivers, Pipeline!Drops,
     Documents!Drops, Pipeline!Aborts, Documents!Aborts, Pipeline!Subscribed,
     Documents!Subscribed, Pipeline!Loses, Documents!Loses
<1>6. ASSUME NEW j \in Jobs PROVE Pipeline!JobMarks(j) <=> Documents!JobMarks(j)
  <2> DEFINE d == job[j].at
  <2>1. Pipeline!JobAfter(j, d) = Documents!JobAfter(j, d)
    BY DEF Pipeline!JobAfter, Documents!JobAfter, Pipeline!JobDone, Documents!JobDone
  <2>2. Pipeline!WorkerHas(d) <=> Documents!WorkerHas(d)
    BY SameWorkerHas
  <2>3. Pipeline!Loses(d, "overtaken") <=> Documents!Loses(d, "overtaken")
    BY DEF Pipeline!Loses, Documents!Loses
  <2>4. Pipeline!UpdateStatus(d, "QUEUED") <=> Documents!UpdateStatus(d, "QUEUED")
    BY DEF Pipeline!UpdateStatus, Documents!UpdateStatus
  <2> QED BY <2>1, <2>2, <2>3, <2>4 DEF Pipeline!JobMarks, Documents!JobMarks
<1>7. Pipeline!WorkerSubscribes <=> Documents!WorkerSubscribes
  BY DEF Pipeline!WorkerSubscribes, Documents!WorkerSubscribes, Pipeline!Idle,
     Documents!Idle, Pipeline!Worker, Documents!Worker
<1>8. Pipeline!WorkerTakes <=> Documents!WorkerTakes
  BY DEF Pipeline!WorkerTakes, Documents!WorkerTakes, Pipeline!Worker,
     Documents!Worker
<1>9. Pipeline!WorkerMarksInProgress <=> Documents!WorkerMarksInProgress
  BY DEF Pipeline!WorkerMarksInProgress, Documents!WorkerMarksInProgress,
     Pipeline!UpdateStatus, Documents!UpdateStatus
<1>10. Pipeline!WorkerReadsMetadata <=> Documents!WorkerReadsMetadata
  BY DEF Pipeline!WorkerReadsMetadata, Documents!WorkerReadsMetadata,
     Pipeline!WorkerGivesUp, Documents!WorkerGivesUp, Pipeline!Idle,
     Documents!Idle, Pipeline!Loses, Documents!Loses, Pipeline!Worker,
     Documents!Worker
<1>11. Pipeline!WorkerOpens <=> Documents!WorkerOpens
  BY DEF Pipeline!WorkerOpens, Documents!WorkerOpens, Pipeline!WorkerGivesUp,
     Documents!WorkerGivesUp, Pipeline!Idle, Documents!Idle, Pipeline!Loses,
     Documents!Loses, Pipeline!Worker, Documents!Worker
<1>12. Pipeline!WorkerEmbeds <=> Documents!WorkerEmbeds
  BY DEF Pipeline!WorkerEmbeds, Documents!WorkerEmbeds
<1>13. Pipeline!WorkerSavesPart <=> Documents!WorkerSavesPart
  BY DEF Pipeline!WorkerSavesPart, Documents!WorkerSavesPart
<1>14. Pipeline!WorkerSucceeds <=> Documents!WorkerSucceeds
  BY DEF Pipeline!WorkerSucceeds, Documents!WorkerSucceeds,
     Pipeline!WorkerFinishes, Documents!WorkerFinishes, Pipeline!Idle,
     Documents!Idle, Pipeline!Loses, Documents!Loses, Pipeline!Worker,
     Documents!Worker
<1>15. Pipeline!WorkerFails <=> Documents!WorkerFails
  BY DEF Pipeline!WorkerFails, Documents!WorkerFails, Pipeline!WorkerFinishes,
     Documents!WorkerFinishes, Pipeline!Idle, Documents!Idle, Pipeline!Loses,
     Documents!Loses, Pipeline!Worker, Documents!Worker
<1>16. Pipeline!WorkerNext <=> Documents!WorkerNext
  BY <1>7, <1>8, <1>9, <1>10, <1>11, <1>12, <1>13, <1>14, <1>15 DEF
     Pipeline!WorkerNext, Documents!WorkerNext
<1>17. Pipeline!Crash <=> Documents!Crash
  <2> DEFINE Lost(Interrupted(_)) ==
        [d \in Docs |-> IF Interrupted(d) THEN docLost[d] \union {"crash"} ELSE docLost[d]]
  <2>1. \A d : Pipeline!Interrupted(d) <=> Documents!Interrupted(d)
    BY SameWorkerHas DEF Pipeline!Interrupted, Documents!Interrupted
  <2>2. Lost(Pipeline!Interrupted) = Lost(Documents!Interrupted)
    BY <2>1, Zenon
  <2> QED BY <2>2 DEF Pipeline!Crash, Documents!Crash, Pipeline!JobDone,
                      Documents!JobDone, Pipeline!Worker, Documents!Worker
<1> QED
  BY <1>1, <1>2, <1>3, <1>4, <1>5, <1>6, <1>16, <1>17 DEF Pipeline!Next,
     Documents!Next

\* So do the specifications.
LEMMA SameDocuments == Pipeline!Spec <=> Documents!Spec
<1>1. Pipeline!Init <=> Documents!Init
  BY DEF Pipeline!Init, Documents!Init, Pipeline!Worker, Documents!Worker
<1>2. [Pipeline!Next]_(Pipeline!vars) <=> [Documents!Next]_(Documents!vars)
  BY SameDocumentSteps DEF Pipeline!vars, Documents!vars
<1> QED BY <1>1, <1>2, PTL DEF Pipeline!Spec, Documents!Spec

(***************************************************************************)
(* What SettingsSync promises, of the backend with its one queue: a stale  *)
(* copy is explained, a request never sends a new key to an older URL, and *)
(* a marked database has settings.                                         *)
(***************************************************************************)
THEOREM SettingsPromises ==
  Spec => []( /\ Settings!StaleExplained
              /\ Settings!UrlNotOlderThanKey
              /\ Settings!MarkedIsSeeded )
<1>1. SettingsSyncs!Spec => []SettingsSyncs!StaleExplained
  BY BackendAssumption, SettingsSyncs!StaleIsExplained
  DEF BackendAssumption, SettingsSyncs!StaleIsExplained
<1>2. SettingsSyncs!Spec => []SettingsSyncs!UrlNotOlderThanKey
  BY BackendAssumption, SettingsSyncs!KeyNeverOutrunsUrl
  DEF BackendAssumption, SettingsSyncs!KeyNeverOutrunsUrl
<1>3. SettingsSyncs!Spec => []SettingsSyncs!MarkedIsSeeded
  BY BackendAssumption, SettingsSyncs!MarkedImpliesSeeded
  DEF BackendAssumption, SettingsSyncs!MarkedImpliesSeeded
<1>4. SettingsSyncs!StaleExplained <=> Settings!StaleExplained
  BY DEF SettingsSyncs!StaleExplained, Settings!StaleExplained,
         SettingsSyncs!WillPublish, Settings!WillPublish, SettingsSyncs!WillReload,
         Settings!WillReload, SettingsSyncs!WillLoad, Settings!WillLoad
<1>5. SettingsSyncs!UrlNotOlderThanKey <=> Settings!UrlNotOlderThanKey
  BY DEF SettingsSyncs!UrlNotOlderThanKey, Settings!UrlNotOlderThanKey
<1>6. SettingsSyncs!MarkedIsSeeded <=> Settings!MarkedIsSeeded
  BY DEF SettingsSyncs!MarkedIsSeeded, Settings!MarkedIsSeeded
<1> QED BY <1>1, <1>2, <1>3, <1>4, <1>5, <1>6, SameSettings, BackendIsSettings, PTL
    DEF ImplementsSettings

(***************************************************************************)
(* What DocumentPipeline promises, of the backend with its one queue: a    *)
(* row has its file, a document that stays QUEUED or IN_PROGRESS got stuck *)
(* for a named reason, SUCCESS means indexed, and duplicates need two jobs *)
(* at once or an unwritten status.                                         *)
(***************************************************************************)
THEOREM DocumentPromises ==
  Spec => []( /\ Documents!RowHasObject
              /\ Documents!StuckExplained
              /\ Documents!SuccessIsIndexed
              /\ Documents!DuplicateNeedsOverlap )
<1>1. Pipeline!Spec => []Pipeline!RowHasObject
  BY BackendAssumption, Pipeline!RowsHaveObjects
  DEF BackendAssumption, Pipeline!RowsHaveObjects
<1>2. Pipeline!Spec => []Pipeline!StuckExplained
  BY BackendAssumption, Pipeline!StuckIsExplained
  DEF BackendAssumption, Pipeline!StuckIsExplained
<1>3. Pipeline!Spec => []Pipeline!SuccessIsIndexed
  BY BackendAssumption, Pipeline!SuccessMeansIndexed
  DEF BackendAssumption, Pipeline!SuccessMeansIndexed
<1>4. Pipeline!Spec => []Pipeline!DuplicateNeedsOverlap
  BY BackendAssumption, Pipeline!DuplicatesNeedOverlap
  DEF BackendAssumption, Pipeline!DuplicatesNeedOverlap
<1>5. Pipeline!RowHasObject <=> Documents!RowHasObject
  BY DEF Pipeline!RowHasObject, Documents!RowHasObject
<1>6. Pipeline!StuckExplained <=> Documents!StuckExplained
  <2>1. \A d : Pipeline!OnTheWay(d) <=> Documents!OnTheWay(d)
    BY SameWorkerHas DEF Pipeline!OnTheWay, Documents!OnTheWay
  <2> QED BY <2>1 DEF Pipeline!StuckExplained, Documents!StuckExplained
<1>7. Pipeline!SuccessIsIndexed <=> Documents!SuccessIsIndexed
  BY DEF Pipeline!SuccessIsIndexed, Documents!SuccessIsIndexed
<1>8. Pipeline!DuplicateNeedsOverlap <=> Documents!DuplicateNeedsOverlap
  BY DEF Pipeline!DuplicateNeedsOverlap, Documents!DuplicateNeedsOverlap
<1> QED BY <1>1, <1>2, <1>3, <1>4, <1>5, <1>6, <1>7, <1>8, SameDocuments,
           BackendIsDocuments, PTL
    DEF ImplementsDocuments

(***************************************************************************)
(* The same for the steps of the documents: with the settings' events in   *)
(* the same queue and the settings' Publish in the way of its lock, a      *)
(* finished document stays finished, until a late QUEUED.                  *)
(***************************************************************************)
THEOREM DocumentStepPromise == Spec => [][Pipeline!SuccessIsKept]_(Pipeline!vars)
<1>1. Pipeline!Spec => [][Pipeline!SuccessIsKept]_(Pipeline!vars)
  BY BackendAssumption, Pipeline!FinishedStaysFinished
  DEF BackendAssumption, Pipeline!FinishedStaysFinished
<1> QED BY <1>1, SameDocuments, BackendIsDocuments, PTL DEF ImplementsDocuments

(***************************************************************************)
(* Without errors of the database and the files: the copy of the settings  *)
(* stays stale only after an announcement that nobody heard, a document    *)
(* stays unfinished only after a lost Publish, a late QUEUED or a crash,   *)
(* and jobs that do not overlap leave no duplicates.                       *)
(***************************************************************************)
THEOREM HealthyBackend ==
  /\ ~DBFails => (Spec => []SettingsSyncs!StaleOnlyUnheard)
  /\ ~Faults => (Spec => []Pipeline!StuckByPublishOrCrash)
  /\ ~Faults => (Spec /\ []Pipeline!JobsApart => []Pipeline!NoDuplicates)
<1>1. ~DBFails => (SettingsSyncs!Spec => []SettingsSyncs!StaleOnlyUnheard)
  BY BackendAssumption, SettingsSyncs!OnlyUnheardIsLost
  DEF BackendAssumption, SettingsSyncs!OnlyUnheardIsLost
<1>2. ~Faults => (Pipeline!Spec => []Pipeline!StuckByPublishOrCrash)
  BY BackendAssumption, Pipeline!WorkerNeverGivesUp
  DEF BackendAssumption, Pipeline!WorkerNeverGivesUp
<1>3. ~Faults => (Pipeline!Spec /\ []Pipeline!JobsApart => []Pipeline!NoDuplicates)
  BY BackendAssumption, Pipeline!OneJobNoDuplicates
  DEF BackendAssumption, Pipeline!OneJobNoDuplicates
<1> QED BY <1>1, <1>2, <1>3, SameSettings, SameDocuments, BackendIsSettings,
           BackendIsDocuments, PTL
    DEF ImplementsSettings, ImplementsDocuments
===============================================================================
