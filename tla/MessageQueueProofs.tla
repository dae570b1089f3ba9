-------------------------- MODULE MessageQueueProofs --------------------------
(***************************************************************************)
(* Proofs about MessageQueue, for any subjects, any number of              *)
(* subscriptions, any capacity and any number of messages: its locks and   *)
(* its panic, the order of what a subscriber reads, and that the queue     *)
(* implements LossyBroadcast.                                              *)
(***************************************************************************)
EXTENDS MessageQueue, SequenceTheorems, TLAPS

USE QueueAssumption DEF QueueAssumption

(***************************************************************************)
(* What append(channels[:i], channels[i+1:]...) leaves (queue.go:140).     *)
(***************************************************************************)
LEMMA RemoveAtElements ==
  ASSUME NEW S, NEW chs \in Seq(S), NEW i \in 1..Len(chs)
  PROVE  /\ RemoveAt(chs, i) \in Seq(S)
         /\ Len(RemoveAt(chs, i)) = Len(chs) - 1
         /\ \A j \in 1..(Len(chs) - 1) :
              RemoveAt(chs, i)[j] = IF j < i THEN chs[j] ELSE chs[j + 1]
<1> DEFINE before == SubSeq(chs, 1, i - 1)
           after == SubSeq(chs, i + 1, Len(chs))
<1>1. /\ before \in Seq(S) /\ Len(before) = i - 1
      /\ \A j \in 1..(i - 1) : before[j] = chs[j]
  OBVIOUS
<1>2. /\ after \in Seq(S) /\ Len(after) = Len(chs) - i
      /\ \A j \in 1..(Len(chs) - i) : after[j] = chs[i + j]
  OBVIOUS
<1>3. RemoveAt(chs, i) = before \o after
  BY DEF RemoveAt
<1> HIDE DEF before, after
<1>4. /\ before \o after \in Seq(S)
      /\ Len(before \o after) = (i - 1) + (Len(chs) - i)
      /\ \A j \in 1..((i - 1) + (Len(chs) - i)) :
           (before \o after)[j] = IF j <= i - 1 THEN before[j] ELSE after[j - (i - 1)]
  <2>1. /\ before \o after \in Seq(S)
        /\ Len(before \o after) = Len(before) + Len(after)
        /\ \A j \in 1..(Len(before) + Len(after)) :
             (before \o after)[j] = IF j <= Len(before) THEN before[j]
                                    ELSE after[j - Len(before)]
    BY <1>1, <1>2, ConcatProperties, Zenon
  <2> QED BY <1>1, <1>2, <2>1
<1>5. Len(chs) \in Nat /\ (i - 1) + (Len(chs) - i) = Len(chs) - 1
  OBVIOUS
<1>6. ASSUME NEW j \in 1..(Len(chs) - 1)
      PROVE  (before \o after)[j] = IF j < i THEN chs[j] ELSE chs[j + 1]
  <2>1. CASE j < i
    <3>1. j \in 1..(i - 1)
      BY <2>1
    <3> QED BY <1>1, <1>4, <1>5, <2>1, <3>1
  <2>2. CASE ~(j < i)
    <3>1. j - (i - 1) \in 1..(Len(chs) - i) /\ i + (j - (i - 1)) = j + 1
      BY <1>5, <2>2
    <3>2. (before \o after)[j] = after[j - (i - 1)]
      BY <1>4, <1>5, <2>2
    <3> QED BY <1>2, <2>2, <3>1, <3>2
  <2> QED BY <1>5, <2>1, <2>2
<1> QED BY <1>3, <1>4, <1>5, <1>6

\* The elements of a sequence, and having each of them once.
Elems(chs) == {chs[i] : i \in 1..Len(chs)}
Once(chs) == \A i, j \in 1..Len(chs) : chs[i] = chs[j] => i = j

(***************************************************************************)
(* append(q.subscribers[subject], ch) (queue.go:97) adds ch.               *)
(***************************************************************************)
LEMMA AppendAdds ==
  ASSUME NEW S, NEW chs \in Seq(S), NEW e \in S
  PROVE  /\ Append(chs, e) \in Seq(S)
         /\ Elems(Append(chs, e)) = Elems(chs) \union {e}
         /\ Once(chs) /\ e \notin Elems(chs) => Once(Append(chs, e))
<1>1. /\ Append(chs, e) \in Seq(S)
      /\ Len(Append(chs, e)) = Len(chs) + 1
      /\ \A i \in 1..Len(chs) : Append(chs, e)[i] = chs[i]
      /\ Append(chs, e)[Len(chs) + 1] = e
      /\ Len(chs) \in Nat
  BY AppendProperties
<1> DEFINE new == Append(chs, e)
<1> HIDE DEF new
<1>2. Elems(new) = Elems(chs) \union {e}
  <2>1. \A x \in Elems(new) : x \in Elems(chs) \union {e}
    BY <1>1 DEF Elems, new
  <2>2. \A x \in Elems(chs) : x \in Elems(new)
    BY <1>1 DEF Elems, new
  <2>3. e \in Elems(new)
    BY <1>1 DEF Elems, new
  <2> QED BY <2>1, <2>2, <2>3
<1>3. ASSUME Once(chs), e \notin Elems(chs) PROVE Once(new)
  BY <1>1, <1>3 DEF Once, Elems, new
<1> QED BY <1>1, <1>2, <1>3 DEF new

(***************************************************************************)
(* Removing the position of a channel listed once removes that channel and *)
(* no other one.                                                           *)
(***************************************************************************)
LEMMA RemoveAtRemoves ==
  ASSUME NEW S, NEW chs \in Seq(S), NEW i \in 1..Len(chs), Once(chs)
  PROVE  /\ Elems(RemoveAt(chs, i)) = Elems(chs) \ {chs[i]}
         /\ Once(RemoveAt(chs, i))
<1> DEFINE new == RemoveAt(chs, i)
<1>1. /\ Len(new) = Len(chs) - 1
      /\ Len(chs) \in Nat
      /\ \A j \in 1..Len(new) : new[j] = IF j < i THEN chs[j] ELSE chs[j + 1]
  BY RemoveAtElements
<1> HIDE DEF new
<1>2. ASSUME NEW j \in 1..Len(new)
      PROVE  new[j] \in Elems(chs) /\ new[j] # chs[i]
  <2>1. CASE j < i
    <3>1. j \in 1..Len(chs) /\ new[j] = chs[j] /\ j # i
      BY <1>1, <2>1
    <3> QED BY <3>1 DEF Elems, Once
  <2>2. CASE ~(j < i)
    <3>1. j + 1 \in 1..Len(chs) /\ new[j] = chs[j + 1] /\ j + 1 # i
      BY <1>1, <2>2
    <3> QED BY <3>1 DEF Elems, Once
  <2> QED BY <2>1, <2>2
<1>3. ASSUME NEW n \in 1..Len(chs), n # i
      PROVE  chs[n] \in Elems(new)
  <2>1. CASE n < i
    <3>1. n \in 1..Len(new) /\ new[n] = chs[n]
      BY <1>1, <2>1
    <3> QED BY <3>1 DEF Elems
  <2>2. CASE ~(n < i)
    <3>1. n - 1 \in 1..Len(new) /\ ~(n - 1 < i) /\ (n - 1) + 1 = n
      BY <1>1, <1>3, <2>2
    <3>2. new[n - 1] = chs[n]
      BY <1>1, <3>1
    <3> QED BY <3>1, <3>2 DEF Elems
  <2> QED BY <2>1, <2>2
<1>4. Elems(new) = Elems(chs) \ {chs[i]}
  <2>1. \A x \in Elems(new) : x \in Elems(chs) /\ x # chs[i]
    BY <1>2 DEF Elems
  <2>2. \A x \in Elems(chs) : x # chs[i] => x \in Elems(new)
    BY <1>3 DEF Elems
  <2> QED BY <2>1, <2>2
<1>5. ASSUME NEW j \in 1..Len(new), NEW k \in 1..Len(new), new[j] = new[k]
      PROVE  j = k
  <2> DEFINE old(n) == IF n < i THEN n ELSE n + 1
  <2>1. /\ old(j) \in 1..Len(chs) /\ old(k) \in 1..Len(chs)
        /\ new[j] = chs[old(j)] /\ new[k] = chs[old(k)]
    BY <1>1
  <2>2. old(j) = old(k)
    BY <1>5, <2>1 DEF Once
  <2> QED BY <1>1, <2>2
<1> QED BY <1>4, <1>5 DEF Once, new

(***************************************************************************)
(* What unsubscribe leaves of the subscriber lists.                        *)
(***************************************************************************)
LEMMA RemoveChannelEffect ==
  ASSUME TypeOK, NEW s \in Subs, topic[s] \in Subjects, RemoveChannel(s)
  PROVE  /\ subscribers' \in [Subjects -> Seq(Subs)]
         /\ \A subj \in Subjects \ {topic[s]} : subscribers'[subj] = subscribers[subj]
         /\ Once(subscribers[topic[s]]) =>
              /\ Elems(subscribers'[topic[s]]) = Elems(subscribers[topic[s]]) \ {s}
              /\ Once(subscribers'[topic[s]])
<1> DEFINE chs == subscribers[topic[s]]
<1>1. chs \in Seq(Subs)
  BY DEF TypeOK
<1>2. CASE s \notin Members(topic[s]) /\ UNCHANGED subscribers
  <2>1. s \notin Elems(chs)
    BY <1>2 DEF Elems, Members
  <2> QED BY <1>2, <2>1 DEF TypeOK
<1>3. ASSUME NEW i \in 1..Len(chs), chs[i] = s,
             subscribers' = [subscribers EXCEPT ![topic[s]] = RemoveAt(chs, i)]
      PROVE  /\ subscribers' \in [Subjects -> Seq(Subs)]
             /\ \A subj \in Subjects \ {topic[s]} : subscribers'[subj] = subscribers[subj]
             /\ Once(chs) => /\ Elems(subscribers'[topic[s]]) = Elems(chs) \ {s}
                             /\ Once(subscribers'[topic[s]])
  <2>1. RemoveAt(chs, i) \in Seq(Subs)
    BY <1>1, RemoveAtElements
  <2>2. Once(chs) => /\ Elems(RemoveAt(chs, i)) = Elems(chs) \ {s}
                     /\ Once(RemoveAt(chs, i))
    BY <1>1, <1>3, RemoveAtRemoves
  <2> HIDE DEF chs
  <2> QED BY <1>3, <2>1, <2>2 DEF TypeOK
<1> QED BY <1>2, <1>3 DEF RemoveChannel

-------------------------------------------------------------------------------
(***************************************************************************)
(* What a Publish leaves in a channel: its buffer, or its buffer with one  *)
(* message more if there was room (queue.go:70-76).                        *)
(***************************************************************************)
LEMMA PublishEffect ==
  ASSUME TypeOK, NEW subj \in Subjects, NEW dead \in BOOLEAN,
         PublishLoop(subj, dead), NEW s \in Subs
  PROVE  /\ msgID' = msgID + 1 /\ msgID' \in 1..MaxMsg
         /\ buf'[s] \in Seq(Message) /\ Len(buf'[s]) <= Capacity
         /\ \/ buf'[s] = buf[s]
            \/ /\ Len(buf[s]) < Capacity
               /\ s \in Members(subj)
               /\ buf'[s] = Append(buf[s], [id |-> msgID + 1, subject |-> subj])
<1> DEFINE msg == [id |-> msgID + 1, subject |-> subj]
<1>1. msgID' = msgID + 1 /\ msgID' \in 1..MaxMsg
  BY DEF PublishLoop, NextID, TypeOK
<1>2. msg \in Message
  BY <1>1 DEF Message
<1>3. /\ buf[s] \in Seq(Message) /\ Len(buf[s]) <= Capacity
      /\ subscribers[subj] \in Seq(Subs)
  BY DEF TypeOK
<1>4. PICK stop \in 1..(Len(subscribers[subj]) + 1) :
        buf' = [t \in Subs |-> IF t \in SendsTo(subscribers[subj], stop)
                               THEN Append(buf[t], msg) ELSE buf[t]]
  BY DEF PublishLoop, NextID
<1> HIDE DEF msg
<1>5. CASE s \in SendsTo(subscribers[subj], stop)
  <2>1. Len(buf[s]) < Capacity
        /\ s \in Members(subj)
    BY <1>3, <1>5 DEF SendsTo, PassedBefore, HasRoom, Members
  <2>2. buf'[s] = Append(buf[s], msg)
    BY <1>4, <1>5
  <2>3. buf'[s] \in Seq(Message) /\ Len(buf'[s]) = Len(buf[s]) + 1
    BY <1>2, <1>3, <2>2, AppendProperties
  <2> QED BY <1>1, <1>3, <2>1, <2>2, <2>3 DEF msg
<1>6. CASE s \notin SendsTo(subscribers[subj], stop)
  BY <1>1, <1>3, <1>4, <1>6
<1> QED BY <1>5, <1>6

(***************************************************************************)
(* Every variable keeps its type; no channel holds more than its capacity. *)
(***************************************************************************)
THEOREM TypeCorrect == Spec => []TypeOK
<1>1. ASSUME Init PROVE TypeOK
  <2>1. subscribers \in [Subjects -> Seq(Subs)] /\ buf \in [Subs -> Seq(Message)]
    BY <1>1 DEF Init
  <2>2. \A s \in Subs : Len(buf[s]) <= Capacity
    BY <1>1 DEF Init
  <2>3. topic \in [Subs -> Subjects \union {NoSubject}]
        /\ last \in [Subs -> 0..MaxMsg]
    BY <1>1 DEF Init
  <2>4. /\ chan \in [Subs -> {"none", "open", "closed"}]
        /\ watcher \in [Subs -> {"none", "waiting", "unsubscribed", "exited"}]
        /\ reader \in [Subs -> {"none", "ranging", "done"}]
    BY <1>1 DEF Init
  <2>5. pub \in [dead : BOOLEAN, result : {"none", "ok", "cancelled", "closed"}]
    BY <1>1 DEF Init
  <2>6. msgID \in 0..MaxMsg
    BY <1>1 DEF Init
  <2>7. closed \in BOOLEAN /\ panicked \in BOOLEAN /\ cancelled \subseteq Cancelable
    BY <1>1, Zenon DEF Init
  <2> QED BY <2>1, <2>2, <2>3, <2>4, <2>5, <2>6, <2>7 DEF TypeOK
<1>2. ASSUME TypeOK, [Next]_vars PROVE TypeOK'
  <2>1. ASSUME NEW subj \in Subjects, NEW dead \in BOOLEAN, Publish(subj, dead)
        PROVE  TypeOK'
    <3>1. CASE PublishRefused(dead)
      BY <1>2, <3>1 DEF PublishRefused, TypeOK
    <3>2. CASE PublishLoop(subj, dead)
      <4>1. \A s \in Subs : buf'[s] \in Seq(Message) /\ Len(buf'[s]) <= Capacity
        BY <1>2, <3>2, PublishEffect
      <4>2. buf' \in [Subs -> Seq(Message)] /\ msgID' \in 0..MaxMsg
            /\ panicked' \in BOOLEAN
            /\ pub' \in [dead : BOOLEAN,
                          result : {"none", "ok", "cancelled", "closed"}]
        BY <1>2, <3>2, <4>1 DEF PublishLoop, NextID, PublishOutcome, TypeOK
      <4> QED BY <1>2, <3>2, <4>1, <4>2 DEF PublishLoop, TypeOK
    <3> QED BY <2>1, <3>1, <3>2 DEF Publish
  <2>2. ASSUME NEW s \in Subs, NEW subj \in Subjects, Subscribe(s, subj)
        PROVE  TypeOK'
    <3>1. subscribers' \in [Subjects -> Seq(Subs)]
      BY <1>2, <2>2 DEF Subscribe, TypeOK
    <3> QED BY <1>2, <2>2, <3>1 DEF Subscribe, TypeOK
  <2>3. ASSUME NEW s \in Subs, SubscribeRefused(s) PROVE TypeOK'
    BY <1>2, <2>3 DEF SubscribeRefused, TypeOK
  <2>4. ASSUME NEW s \in Subs, Cancel(s) PROVE TypeOK'
    BY <1>2, <2>4 DEF Cancel, TypeOK
  <2>5. ASSUME NEW s \in Subs, Unsubscribe(s) PROVE TypeOK'
    <3>1. CASE topic[s] \in Subjects
      <4>1. subscribers' \in [Subjects -> Seq(Subs)]
        BY <1>2, <2>5, <3>1, RemoveChannelEffect DEF Unsubscribe
      <4> QED BY <1>2, <2>5, <4>1 DEF Unsubscribe, TypeOK
    <3>2. CASE topic[s] \notin Subjects
      <4>1. subscribers' = subscribers
        BY <1>2, <2>5, <3>2 DEF Unsubscribe, RemoveChannel, TypeOK
      <4> QED BY <1>2, <2>5, <4>1 DEF Unsubscribe, TypeOK
    <3> QED BY <3>1, <3>2
  <2>6. ASSUME NEW s \in Subs, CloseChannel(s) PROVE TypeOK'
    BY <1>2, <2>6 DEF CloseChannel, TypeOK
  <2>7. ASSUME NEW s \in Subs, Receive(s) PROVE TypeOK'
    <3>1. buf[s] \in Seq(Message) /\ buf[s] # <<>>
      BY <1>2, <2>7 DEF Receive, TypeOK
    <3>2. /\ Head(buf[s]) \in Message /\ Tail(buf[s]) \in Seq(Message)
          /\ Len(Tail(buf[s])) = Len(buf[s]) - 1
      BY <3>1
    <3>3. Head(buf[s]).id \in 0..MaxMsg
      BY <3>2 DEF Message
    <3>4. last' \in [Subs -> 0..MaxMsg] /\ buf' \in [Subs -> Seq(Message)]
      BY <1>2, <2>7, <3>2, <3>3 DEF Receive, TypeOK
    <3>5. \A t \in Subs : Len(buf'[t]) <= Capacity
      BY <1>2, <2>7, <3>2 DEF Receive, TypeOK
    <3> QED BY <1>2, <2>7, <3>4, <3>5 DEF Receive, TypeOK
  <2>8. ASSUME NEW s \in Subs, RangeEnds(s) PROVE TypeOK'
    BY <1>2, <2>8 DEF RangeEnds, TypeOK
  <2>9. CASE Close
    BY <1>2, <2>9 DEF Close, TypeOK
  <2>10. CASE UNCHANGED vars
    BY <1>2, <2>10 DEF vars, TypeOK
  <2> QED
    BY <1>2, <2>1, <2>2, <2>3, <2>4, <2>5, <2>6, <2>7, <2>8, <2>9, <2>10 DEF Next
<1> QED BY <1>1, <1>2, PTL DEF Spec

-------------------------------------------------------------------------------
(***************************************************************************)
(* The invariant behind the safety of the channels.  SubscribedIsOpen is   *)
(* not inductive: Unsubscribe must find the channel where Subscribe put    *)
(* it (WaitingIsSubscribed), and Close must not meet a channel its watcher *)
(* has already closed.                                                     *)
(***************************************************************************)
NewUntouched ==
  \A s \in Subs : reader[s] = "none" =>
    chan[s] = "none" /\ watcher[s] = "none"

WaitingIsSubscribed ==
  \A s \in Subs : watcher[s] = "waiting" =>
    /\ topic[s] \in Subjects
    /\ ~closed => s \in Members(topic[s])

WatcherCancelled ==
  \A s \in Subs :
    /\ watcher[s] \in {"unsubscribed", "exited"} => s \in cancelled
    /\ chan[s] = "open" => watcher[s] \in {"waiting", "unsubscribed"}

NobodyAfterClose == closed => \A subj \in Subjects : subscribers[subj] = <<>>

QInv ==
  /\ SubscribedIsOpen
  /\ ClosedByOwner
  /\ NewUntouched
  /\ WaitingIsSubscribed
  /\ WatcherCancelled
  /\ NobodyAfterClose
  /\ PanicOnlyAfterCloseAndCancel

\* The queue starts with no channel and no subscriber.
LEMMA QInvInit == Init => QInv
BY DEF Init, QInv, SubscribedIsOpen, ListedOnce, Members, ClosedByOwner, NewUntouched,
       WaitingIsSubscribed, WatcherCancelled, NobodyAfterClose,
       PanicOnlyAfterCloseAndCancel

\* The steps that touch neither the channels nor the subscriber lists.
LEMMA QInvUntouched ==
  ASSUME QInv, UNCHANGED <<subscribers, closed, topic, chan, watcher, cancelled>>,
         panicked' => panicked,
         \A s \in Subs : reader'[s] = "none" => reader[s] = "none"
  PROVE  QInv'
BY DEF QInv, SubscribedIsOpen, ClosedByOwner, NewUntouched, Members, ListedOnce,
       WaitingIsSubscribed, WatcherCancelled, NobodyAfterClose,
       PanicOnlyAfterCloseAndCancel

\* A Publish only sends to listed, hence open, channels: it cannot panic.
LEMMA QInvPublish ==
  ASSUME TypeOK, QInv, ~panicked, NEW subj \in Subjects, NEW dead \in BOOLEAN,
         Publish(subj, dead)
  PROVE  QInv'
<1>1. CASE PublishRefused(dead)
  BY <1>1, QInvUntouched DEF PublishRefused
<1>2. CASE PublishLoop(subj, dead)
  <2>1. PICK stop \in 1..(Len(subscribers[subj]) + 1) :
          panicked' = \E s \in PassedBefore(subscribers[subj], stop) : chan[s] = "closed"
    BY <1>2, Zenon DEF PublishLoop
  <2>2. Len(subscribers[subj]) \in Nat
    BY DEF TypeOK
  <2>3. \A s \in PassedBefore(subscribers[subj], stop) : chan[s] = "open"
    BY <2>2 DEF PassedBefore, QInv, SubscribedIsOpen, Members
  <2>4. ~panicked'
    BY <2>1, <2>3
  <2> QED BY <1>2, <2>4, QInvUntouched DEF PublishLoop
<1> QED BY <1>1, <1>2 DEF Publish

\* Subscribe lists a fresh open channel once, with its watcher waiting.
LEMMA QInvSubscribe ==
  ASSUME TypeOK, QInv, NEW s \in Subs, NEW subj \in Subjects, Subscribe(s, subj)
  PROVE  QInv'
<1>1. /\ ~closed /\ reader[s] = "none" /\ watcher[s] = "none" /\ chan[s] = "none"
      /\ UNCHANGED <<closed, cancelled, panicked>>
      /\ chan' = [chan EXCEPT ![s] = "open"]
      /\ topic' = [topic EXCEPT ![s] = subj]
      /\ watcher' = [watcher EXCEPT ![s] = "waiting"]
      /\ reader' = [reader EXCEPT ![s] = "ranging"]
  BY DEF Subscribe, QInv, NewUntouched
<1>2. /\ DOMAIN chan = Subs /\ DOMAIN topic = Subs /\ DOMAIN watcher = Subs
      /\ DOMAIN reader = Subs
  BY DEF TypeOK
<1>3. \A other \in Subjects : s \notin Members(other)
  BY <1>1 DEF QInv, SubscribedIsOpen
<1>4. /\ Members(subj)' = Members(subj) \union {s} /\ ListedOnce(subj)'
      /\ \A other \in Subjects \ {subj} :
           Members(other)' = Members(other) /\ ListedOnce(other)'
  <2>1. subscribers[subj] \in Seq(Subs)
    BY DEF TypeOK
  <2>2. s \notin Elems(subscribers[subj]) /\ Once(subscribers[subj])
    BY <1>3 DEF QInv, SubscribedIsOpen, ListedOnce, Once, Members, Elems
  <2>3. /\ Elems(Append(subscribers[subj], s)) = Elems(subscribers[subj]) \union {s}
        /\ Once(Append(subscribers[subj], s))
    BY <2>1, <2>2, AppendAdds
  <2>4. /\ subscribers'[subj] = Append(subscribers[subj], s)
        /\ \A other \in Subjects \ {subj} : subscribers'[other] = subscribers[other]
    BY DEF Subscribe, TypeOK
  <2>5. Members(subj)' = Members(subj) \union {s} /\ ListedOnce(subj)'
    BY <2>3, <2>4 DEF Members, ListedOnce, Elems, Once
  <2>6. ASSUME NEW other \in Subjects \ {subj}
        PROVE  Members(other)' = Members(other) /\ ListedOnce(other)'
    BY <2>4 DEF Members, ListedOnce, QInv, SubscribedIsOpen
  <2> QED BY <2>5, <2>6
<1>5. \A t \in Subs : t # s => /\ chan'[t] = chan[t] /\ topic'[t] = topic[t]
                               /\ watcher'[t] = watcher[t]
  BY <1>1
<1>6. chan'[s] = "open" /\ topic'[s] = subj /\ watcher'[s] = "waiting"
  BY <1>1, <1>2
<1>7. \A other \in Subjects : Members(other) \subseteq Subs
  BY DEF Members, TypeOK
<1>8. SubscribedIsOpen'
  BY <1>3, <1>4, <1>5, <1>6, <1>7 DEF QInv, SubscribedIsOpen
<1>9. ClosedByOwner' /\ NewUntouched' /\ WatcherCancelled'
  BY <1>1, <1>2 DEF QInv, ClosedByOwner, NewUntouched, WatcherCancelled
<1>10. WaitingIsSubscribed'
  BY <1>1, <1>4, <1>5, <1>6 DEF QInv, WaitingIsSubscribed
<1>11. NobodyAfterClose' /\ PanicOnlyAfterCloseAndCancel'
  BY <1>1 DEF QInv, NobodyAfterClose, PanicOnlyAfterCloseAndCancel
<1> QED BY <1>8, <1>9, <1>10, <1>11 DEF QInv

\* The watcher's removal leaves its channel open and nowhere listed.
LEMMA QInvUnsubscribe ==
  ASSUME TypeOK, QInv, NEW s \in Subs, Unsubscribe(s)
  PROVE  QInv'
<1>1. /\ s \in cancelled /\ watcher[s] = "waiting" /\ topic[s] \in Subjects
      /\ watcher' = [watcher EXCEPT ![s] = "unsubscribed"]
      /\ UNCHANGED <<closed, cancelled, panicked, chan, topic, reader>>
      /\ DOMAIN watcher = Subs
  BY DEF Unsubscribe, QInv, WaitingIsSubscribed, TypeOK
<1>2. \A subj \in Subjects : ListedOnce(subj) /\ Members(subj) \subseteq Subs
  BY DEF QInv, SubscribedIsOpen, Members, TypeOK
<1>3. \A subj \in Subjects : subj # topic[s] => s \notin Members(subj)
  BY DEF QInv, SubscribedIsOpen
<1>4. \A subj \in Subjects : Members(subj)' = Members(subj) \ {s} /\ ListedOnce(subj)'
  <2>1. Once(subscribers[topic[s]])
    BY <1>1, <1>2 DEF ListedOnce, Once
  <2>2. /\ \A subj \in Subjects \ {topic[s]} : subscribers'[subj] = subscribers[subj]
        /\ Elems(subscribers'[topic[s]]) = Elems(subscribers[topic[s]]) \ {s}
        /\ Once(subscribers'[topic[s]])
    BY <1>1, <2>1, RemoveChannelEffect DEF Unsubscribe
  <2>3. ASSUME NEW subj \in Subjects, subj = topic[s]
        PROVE  Members(subj)' = Members(subj) \ {s} /\ ListedOnce(subj)'
    <3>1. Members(subj)' = Elems(subscribers'[subj])
          /\ Members(subj) = Elems(subscribers[subj])
      BY DEF Members, Elems
    <3>2. Once(subscribers'[subj]) => ListedOnce(subj)'
      BY DEF ListedOnce, Once
    <3> QED BY <2>2, <2>3, <3>1, <3>2
  <2>4. ASSUME NEW subj \in Subjects, subj # topic[s]
        PROVE  Members(subj)' = Members(subj) \ {s} /\ ListedOnce(subj)'
    <3>1. Members(subj)' = Members(subj) /\ ListedOnce(subj)'
      BY <1>2, <2>2, <2>4 DEF Members, ListedOnce
    <3> QED BY <1>3, <2>4, <3>1
  <2> QED BY <2>3, <2>4
<1>5. \A t \in Subs : t # s => watcher'[t] = watcher[t]
  BY <1>1
<1>6. SubscribedIsOpen'
  BY <1>1, <1>2, <1>4, <1>5 DEF QInv, SubscribedIsOpen
<1>7. WaitingIsSubscribed'
  BY <1>1, <1>4, <1>5 DEF QInv, WaitingIsSubscribed
<1>8. ClosedByOwner' /\ NewUntouched' /\ WatcherCancelled'
  BY <1>1 DEF QInv, ClosedByOwner, NewUntouched, WatcherCancelled
<1>9. NobodyAfterClose'
  <2>1. ASSUME closed, NEW subj \in Subjects PROVE subscribers'[subj] = <<>>
    <3>1. subscribers[subj] = <<>> /\ Members(subj) = {}
      BY <2>1 DEF QInv, NobodyAfterClose, Members
    <3>2. subscribers'[subj] \in Seq(Subs) /\ Members(subj)' = {}
      BY <1>1, <1>4, <3>1, RemoveChannelEffect DEF Unsubscribe
    <3>3. \A i \in 1..Len(subscribers'[subj]) : subscribers'[subj][i] \in Members(subj)'
      BY DEF Members
    <3> QED BY <3>2, <3>3
  <2> QED BY <1>1, <2>1 DEF NobodyAfterClose
<1>10. PanicOnlyAfterCloseAndCancel'
  BY <1>1 DEF QInv, PanicOnlyAfterCloseAndCancel
<1> QED BY <1>6, <1>7, <1>8, <1>9, <1>10 DEF QInv

\* The watcher's close(ch): the only way to panic is a Close before it.
LEMMA QInvCloseChannel ==
  ASSUME TypeOK, QInv, NEW s \in Subs, CloseChannel(s)
  PROVE  QInv'
<1>1. /\ watcher[s] = "unsubscribed" /\ s \in cancelled
      /\ watcher' = [watcher EXCEPT ![s] = "exited"]
      /\ chan' = [chan EXCEPT ![s] = "closed"]
      /\ panicked' = (chan[s] = "closed")
      /\ UNCHANGED <<subscribers, closed, topic, cancelled, reader>>
      /\ DOMAIN watcher = Subs /\ DOMAIN chan = Subs
  BY DEF CloseChannel, QInv, WatcherCancelled, TypeOK
<1>2. \A subj \in Subjects : s \notin Members(subj) /\ Members(subj) \subseteq Subs
  <2>1. \A subj \in Subjects : s \notin Members(subj)
    BY <1>1 DEF QInv, SubscribedIsOpen
  <2>2. \A subj \in Subjects : Members(subj) \subseteq Subs
    BY DEF Members, TypeOK
  <2> QED BY <2>1, <2>2
<1>3. \A subj \in Subjects : Members(subj)' = Members(subj) /\ (ListedOnce(subj)' <=> ListedOnce(subj))
  BY <1>1 DEF Members, ListedOnce
<1>4. \A t \in Subs : t # s => watcher'[t] = watcher[t] /\ chan'[t] = chan[t]
  BY <1>1
<1>5. SubscribedIsOpen'
  BY <1>1, <1>2, <1>3, <1>4 DEF QInv, SubscribedIsOpen
<1>6. WaitingIsSubscribed'
  BY <1>1, <1>3, <1>4 DEF QInv, WaitingIsSubscribed
<1>7. ClosedByOwner' /\ NewUntouched' /\ WatcherCancelled'
  BY <1>1 DEF QInv, ClosedByOwner, NewUntouched, WatcherCancelled
<1>8. NobodyAfterClose'
  BY <1>1 DEF QInv, NobodyAfterClose
<1>9. PanicOnlyAfterCloseAndCancel'
  BY <1>1 DEF QInv, ClosedByOwner, PanicOnlyAfterCloseAndCancel
<1> QED BY <1>5, <1>6, <1>7, <1>8, <1>9 DEF QInv

\* Close closes every listed channel, each of them open, exactly once.
LEMMA QInvClose ==
  ASSUME TypeOK, QInv, Close
  PROVE  QInv'
<1>1. /\ ~closed /\ closed' = TRUE
      /\ chan' = [s \in Subs |-> IF s \in Subscribed THEN "closed" ELSE chan[s]]
      /\ panicked' = \E s \in Subscribed : chan[s] = "closed"
      /\ subscribers' = [subj \in Subjects |-> <<>>]
      /\ UNCHANGED <<topic, cancelled, watcher, reader>>
  BY DEF Close
<1>2. \A s \in Subscribed : s \in Subs /\ chan[s] = "open" /\ watcher[s] = "waiting"
  BY DEF Subscribed, QInv, SubscribedIsOpen
<1>3. \A s \in Subs : watcher[s] = "waiting" => s \in Subscribed
  BY <1>1 DEF Subscribed, QInv, WaitingIsSubscribed
<1>4. SubscribedIsOpen'
  BY <1>1 DEF SubscribedIsOpen, Members, ListedOnce
<1>5. ClosedByOwner'
  BY <1>1, <1>3 DEF ClosedByOwner, QInv, WatcherCancelled
<1>6. NewUntouched' /\ WatcherCancelled'
  BY <1>1, <1>2 DEF NewUntouched, WatcherCancelled, QInv
<1>7. WaitingIsSubscribed' /\ NobodyAfterClose'
  BY <1>1 DEF WaitingIsSubscribed, NobodyAfterClose, QInv
<1>8. PanicOnlyAfterCloseAndCancel'
  BY <1>1, <1>2 DEF PanicOnlyAfterCloseAndCancel
<1> QED BY <1>4, <1>5, <1>6, <1>7, <1>8 DEF QInv

\* Every step of the queue keeps QInv.
LEMMA QInvStep == TypeOK /\ QInv /\ [Next]_vars => QInv'
<1> SUFFICES ASSUME TypeOK, QInv, [Next]_vars PROVE QInv'
  OBVIOUS
<1>1. ASSUME NEW s \in Subs, SubscribeRefused(s) PROVE QInv'
  BY <1>1, QInvUntouched DEF SubscribeRefused, TypeOK
<1>2. ASSUME NEW s \in Subs, Cancel(s) PROVE QInv'
  BY <1>2 DEF Cancel, QInv, SubscribedIsOpen, ClosedByOwner, NewUntouched,
              Members, ListedOnce, WaitingIsSubscribed, WatcherCancelled,
              NobodyAfterClose, PanicOnlyAfterCloseAndCancel
<1>3. ASSUME NEW s \in Subs, Receive(s) PROVE QInv'
  BY <1>3, QInvUntouched DEF Receive
<1>4. ASSUME NEW s \in Subs, RangeEnds(s) PROVE QInv'
  BY <1>4, QInvUntouched DEF RangeEnds, TypeOK
<1>5. CASE UNCHANGED vars
  BY <1>5, QInvUntouched DEF vars
<1> QED
  BY <1>1, <1>2, <1>3, <1>4, <1>5, QInvPublish, QInvSubscribe, QInvUnsubscribe,
     QInvCloseChannel, QInvClose DEF Next

(***************************************************************************)
(* In every program that uses the queue: a Publish finds only open         *)
(* channels in its list, each once.                                        *)
(***************************************************************************)
THEOREM PublishSendsToOpenChannels == Spec => []SubscribedIsOpen
<1>1. QInv => SubscribedIsOpen
  BY DEF QInv
<1> QED BY <1>1, QInvInit, QInvStep, TypeCorrect, PTL DEF Spec

(***************************************************************************)
(* In every program that uses the queue: a panic needs both Close and the  *)
(* cancellation of a subscription's context.                               *)
(***************************************************************************)
THEOREM PanicNeedsCloseAndCancel == Spec => []PanicOnlyAfterCloseAndCancel
<1>1. QInv => PanicOnlyAfterCloseAndCancel
  BY DEF QInv
<1> QED BY <1>1, QInvInit, QInvStep, TypeCorrect, PTL DEF Spec

(***************************************************************************)
(* A channel is closed by Close or by its own watcher, and Close leaves no *)
(* reader behind on an open channel whose watcher has nothing left to do.  *)
(***************************************************************************)
THEOREM ChannelsAreClosedByTheirOwner == Spec => []ClosedByOwner
<1>1. QInv => ClosedByOwner
  BY DEF QInv
<1> QED BY <1>1, QInvInit, QInvStep, TypeCorrect, PTL DEF Spec

(***************************************************************************)
(* The program itself never panics in the queue: its two subscriptions use *)
(* context.Background() (settings.go:123, service.go:643), which nobody    *)
(* can cancel.                                                             *)
(***************************************************************************)
THEOREM BackgroundSubscribersNeverPanic == Cancelable = {} => (Spec => []NoPanic)
<1> SUFFICES ASSUME Cancelable = {} PROVE Spec => []NoPanic
  OBVIOUS
<1>1. TypeOK /\ PanicOnlyAfterCloseAndCancel => NoPanic
  BY DEF TypeOK, PanicOnlyAfterCloseAndCancel, NoPanic
<1> QED BY <1>1, TypeCorrect, PanicNeedsCloseAndCancel, PTL

-------------------------------------------------------------------------------
(***************************************************************************)
(* The order of the messages in a channel.                                 *)
(***************************************************************************)
Ordered(b, subj, low, high) ==
  /\ \A i \in 1..Len(b) : b[i].subject = subj /\ low < b[i].id /\ b[i].id <= high
  /\ \A i, j \in 1..Len(b) : i < j => b[i].id < b[j].id

LEMMA AppendKeepsOrder ==
  ASSUME NEW subj \in Subjects, NEW low \in Nat, NEW high \in Nat, low <= high,
         NEW b \in Seq(Message), Ordered(b, subj, low, high), NEW m \in Message,
         m.id = high + 1, m.subject = subj
  PROVE  Ordered(Append(b, m), subj, low, high + 1)
<1> DEFINE new == Append(b, m)
<1>1. /\ Len(b) \in Nat /\ Len(new) = Len(b) + 1
      /\ \A i \in 1..Len(b) : new[i] = b[i]
      /\ new[Len(b) + 1] = m
  BY AppendProperties
<1>2. \A i \in 1..Len(b) : b[i] \in Message /\ b[i].id \in Nat
  <2>1. \A i \in 1..Len(b) : b[i] \in Message
    OBVIOUS
  <2> QED BY <2>1 DEF Message
<1> HIDE DEF new
<1>3. ASSUME NEW i \in 1..Len(new)
      PROVE  new[i].subject = subj /\ low < new[i].id /\ new[i].id <= high + 1
  <2>1. CASE i \in 1..Len(b)
    BY <1>1, <1>2, <2>1 DEF Ordered
  <2>2. CASE i = Len(b) + 1
    BY <1>1, <2>2
  <2> QED BY <1>1, <2>1, <2>2
<1>4. ASSUME NEW i \in 1..Len(new), NEW j \in 1..Len(new), i < j
      PROVE  new[i].id < new[j].id
  <2>1. i \in 1..Len(b)
    BY <1>1, <1>4
  <2>2. CASE j \in 1..Len(b)
    BY <1>1, <1>4, <2>1, <2>2 DEF Ordered
  <2>3. CASE j = Len(b) + 1
    BY <1>1, <1>2, <2>1, <2>3 DEF Ordered
  <2> QED BY <1>1, <2>2, <2>3
<1> QED BY <1>3, <1>4 DEF Ordered, new

LEMMA TailKeepsOrder ==
  ASSUME NEW subj, NEW low \in Nat, NEW high \in Nat,
         NEW b \in Seq(Message), b # <<>>, Ordered(b, subj, low, high)
  PROVE  /\ Ordered(Tail(b), subj, Head(b).id, high)
         /\ Head(b).id \in Nat /\ Head(b).id <= high
<1> DEFINE new == Tail(b)
<1>1. /\ Len(b) \in Nat \ {0} /\ Len(new) = Len(b) - 1 /\ Head(b) = b[1]
      /\ \A i \in 1..Len(new) : new[i] = b[i + 1]
  OBVIOUS
<1>2. \A i \in 1..Len(b) : b[i] \in Message
  OBVIOUS
<1> HIDE DEF new
<1>3. b[1].id \in Nat /\ b[1].id <= high
  BY <1>1, <1>2 DEF Message, Ordered
<1>4. ASSUME NEW i \in 1..Len(new)
      PROVE  new[i].subject = subj /\ b[1].id < new[i].id /\ new[i].id <= high
  <2>1. 1 \in 1..Len(b) /\ i + 1 \in 1..Len(b) /\ 1 < i + 1 /\ new[i] = b[i + 1]
    BY <1>1, <1>4
  <2> QED BY <2>1 DEF Ordered
<1>5. ASSUME NEW i \in 1..Len(new), NEW j \in 1..Len(new), i < j
      PROVE  new[i].id < new[j].id
  <2>1. i + 1 \in 1..Len(b) /\ j + 1 \in 1..Len(b) /\ i + 1 < j + 1
    BY <1>1, <1>5
  <2> QED BY <1>1, <2>1 DEF Ordered
<1> QED BY <1>1, <1>3, <1>4, <1>5 DEF Ordered, new

(***************************************************************************)
(* InOrderOnce is not inductive: the message that is published now must be *)
(* newer than the one the reader took last, and a channel must be empty    *)
(* when it gets its subject.                                               *)
(***************************************************************************)
OrderInv ==
  \A s \in Subs :
    /\ Ordered(buf[s], topic[s], last[s], msgID)
    /\ last[s] <= msgID
    /\ reader[s] = "none" => buf[s] = <<>> /\ topic[s] = NoSubject

LEMMA OrderInvInit == Init => OrderInv
BY DEF Init, OrderInv, Ordered

\* A Publish adds the newest message, to channels of its subject.
LEMMA OrderInvPublish ==
  ASSUME TypeOK, QInv, OrderInv, NEW subj \in Subjects, NEW dead \in BOOLEAN,
         PublishLoop(subj, dead)
  PROVE  OrderInv'
<1> SUFFICES ASSUME NEW s \in Subs
             PROVE  /\ Ordered(buf'[s], topic[s], last[s], msgID + 1)
                    /\ last[s] <= msgID + 1
                    /\ reader[s] = "none" => buf'[s] = <<>> /\ topic[s] = NoSubject
  BY DEF OrderInv, PublishLoop, NextID
<1>1. /\ Ordered(buf[s], topic[s], last[s], msgID) /\ last[s] <= msgID
      /\ reader[s] = "none" => buf[s] = <<>> /\ topic[s] = NoSubject
  BY DEF OrderInv
<1>2. /\ msgID \in Nat /\ last[s] \in Nat /\ buf[s] \in Seq(Message)
      /\ msgID + 1 \in 1..MaxMsg
  <2>1. msgID \in Nat /\ last[s] \in Nat /\ buf[s] \in Seq(Message)
    BY DEF TypeOK
  <2>2. msgID' = msgID + 1 /\ msgID' \in 1..MaxMsg
    BY PublishEffect
  <2> QED BY <2>1, <2>2
<1>3. CASE buf'[s] = buf[s]
  <2>1. \A i \in 1..Len(buf[s]) : buf[s][i] \in Message
    BY <1>2
  <2>2. \A i \in 1..Len(buf[s]) : buf[s][i].id <= msgID + 1
    BY <1>1, <1>2, <2>1 DEF Ordered, Message
  <2> QED BY <1>1, <1>2, <1>3, <2>2 DEF Ordered
<1>4. CASE /\ s \in Members(subj)
           /\ buf'[s] = Append(buf[s], [id |-> msgID + 1, subject |-> subj])
  <2>1. topic[s] = subj /\ watcher[s] = "waiting"
    BY <1>4 DEF QInv, SubscribedIsOpen
  <2>2. reader[s] # "none"
    BY <2>1 DEF QInv, NewUntouched
  <2>3. [id |-> msgID + 1, subject |-> subj] \in Message
    BY <1>2 DEF Message
  <2>4. Ordered(Append(buf[s], [id |-> msgID + 1, subject |-> subj]),
                subj, last[s], msgID + 1)
    BY <1>1, <1>2, <2>1, <2>3, AppendKeepsOrder
  <2> QED BY <1>1, <1>2, <1>4, <2>1, <2>2, <2>4
<1> QED BY <1>3, <1>4, PublishEffect

LEMMA OrderInvStep == TypeOK /\ QInv /\ OrderInv /\ [Next]_vars => OrderInv'
<1> SUFFICES ASSUME TypeOK, QInv, OrderInv, [Next]_vars PROVE OrderInv'
  OBVIOUS
<1>1. ASSUME NEW subj \in Subjects, NEW dead \in BOOLEAN, Publish(subj, dead)
      PROVE  OrderInv'
  <2>1. CASE PublishRefused(dead)
    BY <2>1 DEF PublishRefused, OrderInv
  <2> QED BY <1>1, <2>1, OrderInvPublish DEF Publish
<1>2. ASSUME NEW s \in Subs, NEW subj \in Subjects, Subscribe(s, subj)
      PROVE  OrderInv'
  <2>1. /\ UNCHANGED <<buf, last, msgID>> /\ reader[s] = "none"
        /\ topic' = [topic EXCEPT ![s] = subj]
        /\ reader' = [reader EXCEPT ![s] = "ranging"]
    BY <1>2 DEF Subscribe
  <2>2. buf[s] = <<>>
    BY <2>1 DEF OrderInv
  <2>3. \A t \in Subs : t # s => topic'[t] = topic[t] /\ reader'[t] = reader[t]
    BY <2>1 DEF TypeOK
  <2>4. topic'[s] = subj /\ reader'[s] = "ranging"
    BY <2>1 DEF TypeOK
  <2>5. Ordered(buf[s], subj, last[s], msgID)
    BY <2>2 DEF Ordered
  <2> QED BY <2>1, <2>3, <2>4, <2>5 DEF OrderInv
<1>3. ASSUME NEW s \in Subs, Receive(s) PROVE OrderInv'
  <2>1. /\ reader[s] = "ranging" /\ buf[s] # <<>> /\ UNCHANGED <<topic, msgID, reader>>
        /\ \A t \in Subs \ {s} : buf'[t] = buf[t] /\ last'[t] = last[t]
        /\ buf'[s] = Tail(buf[s]) /\ last'[s] = Head(buf[s]).id
    BY <1>3 DEF Receive, TypeOK
  <2>2. buf[s] \in Seq(Message) /\ last[s] \in Nat /\ msgID \in Nat
    BY DEF TypeOK
  <2>3. Ordered(buf'[s], topic[s], last'[s], msgID) /\ last'[s] <= msgID
    BY <2>1, <2>2, TailKeepsOrder DEF OrderInv
  <2> QED BY <2>1, <2>3 DEF OrderInv
<1>4. ASSUME NEW s \in Subs, SubscribeRefused(s) \/ RangeEnds(s) PROVE OrderInv'
  BY <1>4 DEF SubscribeRefused, RangeEnds, OrderInv, TypeOK
<1>5. ASSUME NEW s \in Subs, Cancel(s) \/ Unsubscribe(s) \/ CloseChannel(s)
      PROVE  OrderInv'
  BY <1>5 DEF Cancel, Unsubscribe, CloseChannel, OrderInv
<1>6. CASE Close
  BY <1>6 DEF Close, OrderInv
<1>7. CASE UNCHANGED vars
  BY <1>7 DEF vars, OrderInv
<1> QED BY <1>1, <1>2, <1>3, <1>4, <1>5, <1>6, <1>7 DEF Next

(***************************************************************************)
(* A reader sees the messages of its subject, each at most once, in the    *)
(* order in which they were published (queue.go:66-76, 92).                *)
(***************************************************************************)
THEOREM DeliveredInOrderOnce == Spec => []InOrderOnce
<1>1. OrderInv => InOrderOnce
  BY DEF OrderInv, Ordered, InOrderOnce
<1> QED BY <1>1, OrderInvInit, OrderInvStep, QInvInit, QInvStep, TypeCorrect, PTL DEF Spec

-------------------------------------------------------------------------------
(***************************************************************************)
(* The refinement.  Broadcast (MessageQueue) takes the subscriptions in    *)
(* the map for the live ones and the channels' buffers for the inboxes.    *)
(***************************************************************************)
LEMMA BroadcastInit == Init => Broadcast!Init
BY DEF Init, Broadcast!Init, Subscribed, Members

\* subscribers did not change, so nobody joined or left.
LEMMA SameSubscribed ==
  ASSUME UNCHANGED subscribers
  PROVE  Subscribed' = Subscribed
BY DEF Subscribed, Members

\* Append(q.subscribers[subject], ch): the subscription joins.
LEMMA SubscribeJoins ==
  ASSUME TypeOK, NEW s \in Subs, NEW subj \in Subjects, Subscribe(s, subj)
  PROVE  Subscribed' = Subscribed \union {s}
<1>1. /\ subscribers'[subj] = Append(subscribers[subj], s)
      /\ \A other \in Subjects \ {subj} : subscribers'[other] = subscribers[other]
      /\ subscribers[subj] \in Seq(Subs)
  BY DEF Subscribe, TypeOK
<1>2. Elems(Append(subscribers[subj], s)) = Elems(subscribers[subj]) \union {s}
  BY <1>1, AppendAdds
<1>3. Members(subj)' = Members(subj) \union {s}
  BY <1>1, <1>2 DEF Members, Elems
<1>4. \A other \in Subjects \ {subj} : Members(other)' = Members(other)
  BY <1>1 DEF Members
<1> QED BY <1>3, <1>4 DEF Subscribed

\* The removal of the channel from the slice: the subscription leaves, if it
\* was still there.
LEMMA UnsubscribeLeaves ==
  ASSUME TypeOK, QInv, NEW s \in Subs, Unsubscribe(s)
  PROVE  Subscribed' = Subscribed \ {s}
<1>1. topic[s] \in Subjects
  BY DEF Unsubscribe, QInv, WaitingIsSubscribed
<1>2. Once(subscribers[topic[s]])
  BY <1>1 DEF QInv, SubscribedIsOpen, ListedOnce, Once
<1>3. /\ \A subj \in Subjects \ {topic[s]} : subscribers'[subj] = subscribers[subj]
      /\ Elems(subscribers'[topic[s]]) = Elems(subscribers[topic[s]]) \ {s}
  BY <1>1, <1>2, RemoveChannelEffect DEF Unsubscribe
<1>4. ASSUME NEW subj \in Subjects, subj = topic[s]
      PROVE  Members(subj)' = Members(subj) \ {s}
  <2>1. Members(subj)' = Elems(subscribers'[subj]) /\ Members(subj) = Elems(subscribers[subj])
    BY DEF Members, Elems
  <2> QED BY <1>3, <1>4, <2>1
<1>5. \A subj \in Subjects \ {topic[s]} : Members(subj)' = Members(subj)
  BY <1>3 DEF Members
<1>6. \A subj \in Subjects \ {topic[s]} : s \notin Members(subj)
  BY DEF QInv, SubscribedIsOpen
<1>7. \A subj \in Subjects : Members(subj)' = Members(subj) \ {s}
  BY <1>4, <1>5, <1>6
<1> QED BY <1>7 DEF Subscribed

(***************************************************************************)
(* The loop of Publish: if it ran to its end, exactly the reachable        *)
(* subscriptions got the message; if it stopped early, some of them did.   *)
(***************************************************************************)
LEMMA PublishBroadcasts ==
  ASSUME TypeOK, QInv, NEW subj \in Subjects, NEW dead \in BOOLEAN,
         PublishLoop(subj, dead)
  PROVE  Broadcast!PublishOK(subj) \/ Broadcast!PublishAborted(subj)
<1> DEFINE chs == subscribers[subj]
<1>1. Len(chs) \in Nat
  BY DEF TypeOK
<1>2. PICK stop \in 1..(Len(chs) + 1) :
        /\ buf' = [s \in Subs |-> IF s \in SendsTo(chs, stop)
                                  THEN Append(buf[s], [id |-> msgID + 1, subject |-> subj])
                                  ELSE buf[s]]
        /\ pub' = [dead |-> dead, result |-> PublishOutcome(chs, stop)]
  BY DEF PublishLoop, NextID
<1>3. ~closed /\ msgID' = msgID + 1 /\ UNCHANGED <<topic, closed>> /\ Subscribed' = Subscribed
  BY SameSubscribed DEF PublishLoop, NextID
<1>4. Members(subj) = {s \in Subscribed : topic[s] = subj}
  <2>1. \A s \in Members(subj) : s \in Subs
    BY DEF Members, TypeOK
  <2> QED BY <2>1 DEF Subscribed, QInv, SubscribedIsOpen
<1>5. Broadcast!Reachable(subj) = {s \in Members(subj) : HasRoom(s)}
  BY <1>4 DEF Broadcast!Reachable, HasRoom
<1>6. Broadcast!Deliver(subj, SendsTo(chs, stop))
  BY <1>2, <1>3 DEF Broadcast!Deliver
<1>7. CASE stop = Len(chs) + 1
  <2>1. PassedBefore(chs, stop) = Members(subj)
    BY <1>1, <1>7 DEF PassedBefore, Members
  <2>2. SendsTo(chs, stop) = Broadcast!Reachable(subj)
    BY <1>5, <2>1 DEF SendsTo
  <2>3. pub'.result = "ok"
    BY <1>1, <1>2, <1>7 DEF PublishOutcome
  <2> QED BY <1>3, <1>6, <2>2, <2>3 DEF Broadcast!PublishOK
<1>8. CASE stop \in 1..Len(chs)
  <2>1. PassedBefore(chs, stop) \subseteq Members(subj)
    BY <1>1, <1>8 DEF PassedBefore, Members
  <2>2. SendsTo(chs, stop) \subseteq Broadcast!Reachable(subj)
    BY <1>5, <2>1 DEF SendsTo
  <2>3. pub'.result = "cancelled"
    BY <1>1, <1>2, <1>8 DEF PublishOutcome
  <2>4. chs[stop] \in Members(subj)
    BY <1>8 DEF Members
  <2>5. chs[stop] \notin PassedBefore(chs, stop)
    <3> SUFFICES ASSUME NEW i \in 1..(stop - 1), chs[i] = chs[stop]
                 PROVE  FALSE
      BY DEF PassedBefore
    <3>1. i \in 1..Len(chs) /\ i # stop
      BY <1>1, <1>8
    <3> QED BY <1>8, <3>1 DEF QInv, SubscribedIsOpen, ListedOnce
  <2>6. chs[stop] \in Subscribed \ SendsTo(chs, stop) /\ topic[chs[stop]] = subj
    BY <1>4, <2>4, <2>5 DEF SendsTo
  <2> QED BY <1>3, <1>6, <2>2, <2>3, <2>6 DEF Broadcast!PublishAborted
<1> QED BY <1>1, <1>7, <1>8

\* Every step of the queue is a step of the broadcast or changes nothing of it.
LEMMA BroadcastStep ==
  TypeOK /\ QInv /\ OrderInv /\ [Next]_vars => [Broadcast!Next]_(Broadcast!vars)
<1> SUFFICES ASSUME TypeOK, QInv, OrderInv, [Next]_vars
             PROVE  Broadcast!Next \/ UNCHANGED Broadcast!vars
  OBVIOUS
<1>1. ASSUME NEW subj \in Subjects, NEW dead \in BOOLEAN, Publish(subj, dead)
      PROVE  Broadcast!Next
  <2>1. CASE PublishRefused(dead)
    <3>1. Broadcast!PublishRefused
      BY <2>1, SameSubscribed DEF PublishRefused, Broadcast!PublishRefused
    <3> QED BY <3>1 DEF Broadcast!Next
  <2>2. CASE PublishLoop(subj, dead)
    BY <2>2, PublishBroadcasts DEF Broadcast!Next
  <2> QED BY <1>1, <2>1, <2>2 DEF Publish
<1>2. ASSUME NEW s \in Subs, NEW subj \in Subjects, Subscribe(s, subj)
      PROVE  Broadcast!Next
  <2>1. topic[s] = NoSubject
    BY <1>2 DEF Subscribe, OrderInv
  <2>2. Broadcast!Join(s, subj)
    BY <1>2, <2>1, SubscribeJoins DEF Subscribe, Broadcast!Join
  <2> QED BY <2>2 DEF Broadcast!Next
<1>3. ASSUME NEW s \in Subs, Unsubscribe(s)
      PROVE  Broadcast!Next \/ UNCHANGED Broadcast!vars
  <2>1. Subscribed' = Subscribed \ {s}
    BY <1>3, UnsubscribeLeaves
  <2>2. UNCHANGED <<topic, buf, msgID, closed, pub>>
    BY <1>3 DEF Unsubscribe
  <2>3. CASE s \in Subscribed
    <3>1. Broadcast!Leave(s)
      BY <2>1, <2>2, <2>3 DEF Broadcast!Leave
    <3> QED BY <3>1 DEF Broadcast!Next
  <2>4. CASE s \notin Subscribed
    BY <2>1, <2>2, <2>4 DEF Broadcast!vars
  <2> QED BY <2>3, <2>4
<1>4. ASSUME NEW s \in Subs, Receive(s) PROVE Broadcast!Next
  <2>1. Broadcast!Take(s)
    BY <1>4, SameSubscribed DEF Receive, Broadcast!Take
  <2> QED BY <2>1 DEF Broadcast!Next
<1>5. CASE Close
  <2>1. Subscribed' = {}
    BY <1>5 DEF Close, Subscribed, Members
  <2>2. Broadcast!Shutdown
    BY <1>5, <2>1 DEF Close, Broadcast!Shutdown
  <2> QED BY <2>2 DEF Broadcast!Next
<1>6. ASSUME NEW s \in Subs,
             SubscribeRefused(s) \/ Cancel(s) \/ CloseChannel(s) \/ RangeEnds(s)
      PROVE  UNCHANGED Broadcast!vars
  BY <1>6, SameSubscribed DEF SubscribeRefused, Cancel, CloseChannel, RangeEnds,
                              Broadcast!vars
<1>7. CASE UNCHANGED vars
  BY <1>7, SameSubscribed DEF vars, Broadcast!vars
<1> QED BY <1>1, <1>2, <1>3, <1>4, <1>5, <1>6, <1>7 DEF Next

(***************************************************************************)
(* The queue implements the lossy broadcast: a message is missed only by a *)
(* full channel or by a Publish that returned an error (queue.go:70-78).   *)
(***************************************************************************)
THEOREM QueueIsLossyBroadcast == Spec => ImplementsBroadcast
<1>1. Init => Broadcast!Init
  BY BroadcastInit
<1>2. TypeOK /\ QInv /\ OrderInv /\ [Next]_vars => [Broadcast!Next]_(Broadcast!vars)
  BY BroadcastStep
<1> QED
  BY <1>1, <1>2, OrderInvInit, OrderInvStep, QInvInit, QInvStep, TypeCorrect, PTL
  DEF Spec, ImplementsBroadcast, Broadcast!Spec
===============================================================================
