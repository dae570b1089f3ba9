----------------------------- MODULE MessageQueue -----------------------------
(***************************************************************************)
(* chatservice/queue/queue.go: the in-memory publish/subscribe queue that  *)
(* connects the settings service to the settings cache and the upload      *)
(* handler to the embedding worker.                                        *)
(*                                                                         *)
(* Publish, Subscribe, Close and unsubscribe each hold q.mu from the first *)
(* statement to the last, so each is one action.  What is NOT under the    *)
(* mutex is an action of its own: a receive from a subscription's channel, *)
(* the cancellation of a context, and the close(ch) the watcher goroutine  *)
(* of a subscription runs after unsubscribe has released the lock.         *)
(*                                                                         *)
(* Receives do run while Publish is inside its loop.  A receive of an      *)
(* older message can be moved before the whole Publish and a receive of    *)
(* the message being published after it, so the atomic Publish loses no    *)
(* reachable state.  The cancellation of the publisher's context inside    *)
(* the loop is kept: see Publish.                                          *)
(***************************************************************************)
EXTENDS Naturals, Sequences, SequencesExt

CONSTANTS Subjects,     \* the subjects of messages (events/events.go)
          Subs,         \* the calls of Subscribe, one channel each
          Capacity,     \* the channel's buffer: 100 in queue.go:92
          NoSubject,    \* the topic of a Subscribe not called yet
          Cancelable,   \* the subscriptions whose context can be cancelled
          MayClose,     \* whether anyone calls Close
          MaxMsg        \* bound of the exploration: messages published

ASSUME QueueAssumption ==
  /\ Capacity \in Nat \ {0}
  /\ MaxMsg \in Nat
  /\ Cancelable \subseteq Subs
  /\ MayClose \in BOOLEAN
  /\ NoSubject \notin Subjects

VARIABLES
  subscribers,  \* q.subscribers: for each subject its channels, in order
  closed,       \* q.closed
  msgID,        \* q.msgID
  topic,        \* the subject each channel was subscribed to
  chan,         \* the channel itself: not made, open, closed
  buf,          \* the messages in the channel's buffer
  cancelled,    \* the subscriptions whose ctx.Done() is closed
  watcher,      \* the goroutine Subscribe starts for each channel
  reader,       \* the consumer's "for msg := range ch"
  last,         \* the ID of the message the reader took last
  pub,          \* what the last call of Publish was given and returned
  panicked      \* a send on, or a close of, a closed channel

vars == <<subscribers, closed, msgID, topic, chan, buf, cancelled, watcher,
          reader, last, pub, panicked>>

Message == [id : 1..MaxMsg, subject : Subjects]

TypeOK ==
  /\ subscribers \in [Subjects -> Seq(Subs)]
  /\ closed \in BOOLEAN
  /\ msgID \in 0..MaxMsg
  /\ topic \in [Subs -> Subjects \union {NoSubject}]
  /\ chan \in [Subs -> {"none", "open", "closed"}]
  /\ buf \in [Subs -> Seq(Message)]
  /\ \A s \in Subs : Len(buf[s]) <= Capacity
  /\ cancelled \subseteq Cancelable
  /\ watcher \in [Subs -> {"none", "waiting", "unsubscribed", "exited"}]
  /\ reader \in [Subs -> {"none", "ranging", "done"}]
  /\ last \in [Subs -> 0..MaxMsg]
  /\ pub \in [dead : BOOLEAN,
              result : {"none", "ok", "cancelled", "closed"}]
  /\ panicked \in BOOLEAN

Init ==
  /\ subscribers = [subj \in Subjects |-> <<>>]
  /\ closed = FALSE
  /\ msgID = 0
  /\ topic = [s \in Subs |-> NoSubject]
  /\ chan = [s \in Subs |-> "none"]
  /\ buf = [s \in Subs |-> <<>>]
  /\ cancelled = {}
  /\ watcher = [s \in Subs |-> "none"]
  /\ reader = [s \in Subs |-> "none"]
  /\ last = [s \in Subs |-> 0]
  /\ pub = [dead |-> FALSE, result |-> "none"]
  /\ panicked = FALSE

HasRoom(s) == Len(buf[s]) < Capacity

\* The channels in the slice of a subject.
Members(subj) == {subscribers[subj][i] : i \in 1..Len(subscribers[subj])}

-------------------------------------------------------------------------------
(* Publish.                                                                *)

PublishRefused(dead) ==
  /\ closed
  /\ pub' = [dead |-> dead, result |-> "closed"]
  /\ UNCHANGED <<subscribers, closed, msgID, topic, chan, buf, cancelled,
                 watcher, reader, last, panicked>>

(***************************************************************************)
(* The loop over the subscribers of a subject.  At each channel, select    *)
(* sends if there is room, returns ctx.Err() if the context is done, picks *)
(* either when both are ready, and skips the channel when neither is.      *)
(* `stop' is the position at which the call returned ctx.Err(), one past   *)
(* the end if it never did.  With a context that was done from the start   *)
(* (dead) a full channel is never skipped, so every channel passed before  *)
(* stop had room; a context cancelled inside the loop may stop it anywhere.*)
(***************************************************************************)
\* q.msgID++ (mutant: forgotten).
NextIDForgotten == msgID
NextID == msgID + 1

PassedBefore(chs, stop) == {chs[i] : i \in 1..(stop - 1)}

\* The channels that take the message (mutant: a full one takes it too).
SendsToAll(chs, stop) == PassedBefore(chs, stop)
SendsTo(chs, stop) == {s \in PassedBefore(chs, stop) : HasRoom(s)}

\* What the call returns (mutant: a done context only leaves the loop).
PublishSwallows(chs, stop) == "ok"
PublishOutcome(chs, stop) == IF stop > Len(chs) THEN "ok" ELSE "cancelled"

PublishLoop(subj, dead) ==
  LET chs == subscribers[subj]
      msg == [id |-> NextID, subject |-> subj]
  IN  /\ ~closed
      /\ msgID < MaxMsg
      /\ msgID' = NextID
      /\ \E stop \in 1..(Len(chs) + 1) :
           /\ dead => \A s \in PassedBefore(chs, stop) : HasRoom(s)
           /\ buf' = [s \in Subs |-> IF s \in SendsTo(chs, stop)
                                     THEN Append(buf[s], msg)
                                     ELSE buf[s]]
           /\ panicked' = \E s \in PassedBefore(chs, stop) : chan[s] = "closed"
           /\ pub' = [dead |-> dead, result |-> PublishOutcome(chs, stop)]
      /\ UNCHANGED <<subscribers, closed, topic, chan, cancelled, watcher,
                     reader, last>>

Publish(subj, dead) == PublishRefused(dead) \/ PublishLoop(subj, dead)

-------------------------------------------------------------------------------
(* Subscribe, cancellation and the watcher goroutine.                      *)

Subscribe(s, subj) ==
  /\ ~closed
  /\ reader[s] = "none"
  /\ chan' = [chan EXCEPT ![s] = "open"]
  /\ topic' = [topic EXCEPT ![s] = subj]
  /\ subscribers' = [subscribers EXCEPT ![subj] = Append(@, s)]
  /\ watcher' = [watcher EXCEPT ![s] = "waiting"]
  /\ reader' = [reader EXCEPT ![s] = "ranging"]
  /\ UNCHANGED <<closed, msgID, buf, cancelled, last, pub, panicked>>

\* ErrQueueClosed: both subscribers of the program print it and return.
SubscribeRefused(s) ==
  /\ closed
  /\ reader[s] = "none"
  /\ reader' = [reader EXCEPT ![s] = "done"]
  /\ UNCHANGED <<subscribers, closed, msgID, topic, chan, buf, cancelled,
                 watcher, last, pub, panicked>>

Cancel(s) ==
  /\ s \in Cancelable \ cancelled
  /\ cancelled' = cancelled \union {s}
  /\ UNCHANGED <<subscribers, closed, msgID, topic, chan, buf, watcher,
                 reader, last, pub, panicked>>

\* Mutant: the shortened slice is not stored back.
RemoveChannelNotStored(s) == UNCHANGED subscribers

\* The slice of the subject without its first occurrence of s (an entry of
\* the map that becomes empty is deleted: an empty sequence here).
RemoveChannel(s) ==
  LET chs == subscribers[topic[s]]
  IN  \/ /\ s \notin Members(topic[s])
         /\ UNCHANGED subscribers
      \/ \E i \in 1..Len(chs) :
           /\ chs[i] = s
           /\ \A j \in 1..(i - 1) : chs[j] # s
           /\ subscribers' = [subscribers EXCEPT ![topic[s]] = RemoveAt(chs, i)]

Unsubscribe(s) ==
  /\ watcher[s] = "waiting"
  /\ s \in cancelled
  /\ RemoveChannel(s)
  /\ watcher' = [watcher EXCEPT ![s] = "unsubscribed"]
  /\ UNCHANGED <<closed, msgID, topic, chan, buf, cancelled, reader, last, pub,
                 panicked>>

\* Mutant: the watcher closes the channel before it unsubscribes.
CloseChannelFirst(s) ==
  /\ watcher[s] \in {"waiting", "unsubscribed"} /\ s \in cancelled
  /\ chan[s] = "open"
  /\ chan' = [chan EXCEPT ![s] = "closed"]
  /\ UNCHANGED <<subscribers, closed, msgID, topic, buf, cancelled, watcher,
                 reader, last, pub, panicked>>

\* Mutant: the watcher only unsubscribes.
CloseChannelForgotten(s) ==
  /\ watcher[s] = "unsubscribed"
  /\ watcher' = [watcher EXCEPT ![s] = "exited"]
  /\ UNCHANGED <<subscribers, closed, msgID, topic, chan, buf, cancelled,
                 reader, last, pub, panicked>>

\* close(ch) after unsubscribe returned; closing a closed channel panics.
CloseChannel(s) ==
  /\ watcher[s] = "unsubscribed"
  /\ watcher' = [watcher EXCEPT ![s] = "exited"]
  /\ chan' = [chan EXCEPT ![s] = "closed"]
  /\ panicked' = (chan[s] = "closed")
  /\ UNCHANGED <<subscribers, closed, msgID, topic, buf, cancelled, reader,
                 last, pub>>

-------------------------------------------------------------------------------
(* Close.  A second call returns nil and changes nothing.                  *)

Subscribed == {s \in Subs : \E subj \in Subjects : s \in Members(subj)}

Close ==
  /\ MayClose
  /\ ~closed
  /\ closed' = TRUE
  /\ chan' = [s \in Subs |-> IF s \in Subscribed THEN "closed" ELSE chan[s]]
  /\ panicked' = \E s \in Subscribed : chan[s] = "closed"
  /\ subscribers' = [subj \in Subjects |-> <<>>]
  /\ UNCHANGED <<msgID, topic, buf, cancelled, watcher, reader, last, pub>>

-------------------------------------------------------------------------------
(* The consumer: for msg := range ch.                                      *)

Receive(s) ==
  /\ reader[s] = "ranging"
  /\ buf[s] # <<>>
  /\ last' = [last EXCEPT ![s] = Head(buf[s]).id]
  /\ buf' = [buf EXCEPT ![s] = Tail(@)]
  /\ UNCHANGED <<subscribers, closed, msgID, topic, chan, cancelled, watcher,
                 reader, pub, panicked>>

\* A closed channel ends the range once its buffer is drained.
RangeEnds(s) ==
  /\ reader[s] = "ranging"
  /\ chan[s] = "closed"
  /\ buf[s] = <<>>
  /\ reader' = [reader EXCEPT ![s] = "done"]
  /\ UNCHANGED <<subscribers, closed, msgID, topic, chan, buf, cancelled,
                 watcher, last, pub, panicked>>

-------------------------------------------------------------------------------
\* A panic in any goroutine ends the program: no step follows it.
Next ==
  /\ ~panicked
  /\ \/ \E subj \in Subjects, dead \in BOOLEAN : Publish(subj, dead)
     \/ \E s \in Subs, subj \in Subjects : Subscribe(s, subj)
     \/ \E s \in Subs : \/ SubscribeRefused(s)
                        \/ Cancel(s)
                        \/ Unsubscribe(s)
                        \/ CloseChannel(s)
                        \/ Receive(s)
                        \/ RangeEnds(s)
     \/ Close

Spec == Init /\ [][Next]_vars

\* The Go scheduler runs every goroutine that can run: the watcher of a
\* subscription and its reader are not starved.  Nobody is obliged to call
\* Publish, Subscribe or Close, or to cancel anything.
Fairness ==
  \A s \in Subs : /\ WF_vars(~panicked /\ Unsubscribe(s))
                  /\ WF_vars(~panicked /\ CloseChannel(s))
                  /\ WF_vars(~panicked /\ Receive(s))
                  /\ WF_vars(~panicked /\ RangeEnds(s))

FairSpec == Spec /\ Fairness

-------------------------------------------------------------------------------
(* Properties.                                                             *)

(***************************************************************************)
(* Publish never reaches a channel it must not send on: a channel in the   *)
(* subscriber map is open, is listed once and under its own subject, and   *)
(* its watcher has not passed unsubscribe.  It takes Subscribe, Close and  *)
(* the two-step watcher (queue.go:100-104) together to break it.           *)
(***************************************************************************)
ListedOnce(subj) ==
  \A i, j \in 1..Len(subscribers[subj]) :
    subscribers[subj][i] = subscribers[subj][j] => i = j

SubscribedIsOpen ==
  \A subj \in Subjects :
    /\ ListedOnce(subj)
    /\ \A s \in Members(subj) :
         chan[s] = "open" /\ topic[s] = subj /\ watcher[s] = "waiting"

(***************************************************************************)
(* The only way to panic is to Close the queue AND cancel the context of a *)
(* subscription: the watcher then closes a channel Close has closed        *)
(* (queue.go:103 and 123).  A program that does one of the two is safe.    *)
(***************************************************************************)
PanicOnlyAfterCloseAndCancel == panicked => closed /\ cancelled # {}

(***************************************************************************)
(* A channel is closed only by Close or by its own watcher, and after      *)
(* Close nobody is left on an open channel except a reader whose watcher   *)
(* is between unsubscribe and close.                                       *)
(***************************************************************************)
ClosedByOwner ==
  \A s \in Subs :
    /\ chan[s] = "closed" => closed \/ watcher[s] = "exited"
    /\ closed /\ chan[s] = "open" => watcher[s] = "unsubscribed"

(***************************************************************************)
(* A reader sees the messages of its own subject, each at most once, in    *)
(* the order in which they were published.                                 *)
(***************************************************************************)
InOrderOnce ==
  \A s \in Subs :
    /\ \A i \in 1..Len(buf[s]) :
         /\ buf[s][i].subject = topic[s]
         /\ last[s] < buf[s][i].id /\ buf[s][i].id <= msgID
    /\ \A i, j \in 1..Len(buf[s]) : i < j => buf[s][i].id < buf[s][j].id

(***************************************************************************)
(* The queue implements the lossy broadcast: a message is missed only by a *)
(* full channel or by a Publish that returned an error.                    *)
(***************************************************************************)
Broadcast == INSTANCE LossyBroadcast
  WITH live <- Subscribed, inbox <- buf, sent <- msgID, shut <- closed,
       result <- pub.result

ImplementsBroadcast == Broadcast!Spec

(***************************************************************************)
(* A reader whose subscription was cancelled, or whose queue was closed,   *)
(* gets out of its range loop (queue.go:28, 109: Close "cleans up").       *)
(***************************************************************************)
ReadersReleased ==
  \A s \in Subs :
    (reader[s] = "ranging" /\ (closed \/ s \in cancelled))
      ~> (reader[s] = "done" \/ panicked)

(***************************************************************************)
(* queue.go:28 says "Close closes the queue and cleans up resources", and  *)
(* :109 "and all active subscriptions".  A subscription whose context is   *)
(* cancelled after (or shortly before) Close makes the program panic.      *)
(***************************************************************************)
NoPanic == ~panicked
===============================================================================
