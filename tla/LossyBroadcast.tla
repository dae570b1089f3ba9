---------------------------- MODULE LossyBroadcast ----------------------------
(***************************************************************************)
(* What a user of chatservice/queue may rely on, stated without locks,     *)
(* slices, channels or goroutines (the Queue interface, queue.go:19-30).   *)
(*                                                                         *)
(* A subscription is for one subject.  A message published to a subject is *)
(* appended to the inbox of the live subscriptions of that subject.  The   *)
(* ONLY reasons for a live subscription to miss a message are that its     *)
(* inbox is full, or that Publish itself reported a failure.  A            *)
(* subscription that ended never gets another message, but what its inbox  *)
(* already holds can still be taken.                                       *)
(***************************************************************************)
EXTENDS Naturals, Sequences

CONSTANTS Subjects,     \* the subjects of messages
          Subs,         \* the subscriptions that may be made
          Capacity,     \* how many messages an inbox holds
          NoSubject     \* the subject of a subscription not made yet

VARIABLES live,         \* the subscriptions in force
          topic,        \* the subject of each subscription
          inbox,        \* the messages each subscription has not taken yet
          sent,         \* how many messages were accepted
          shut,         \* TRUE once the broadcast was shut down
          result        \* what the last Publish reported

vars == <<live, topic, inbox, sent, shut, result>>

Init ==
  /\ live = {}
  /\ topic = [s \in Subs |-> NoSubject]
  /\ inbox = [s \in Subs |-> <<>>]
  /\ sent = 0
  /\ shut = FALSE
  /\ result = "none"

Join(s, subj) ==
  /\ ~shut
  /\ topic[s] = NoSubject
  /\ topic' = [topic EXCEPT ![s] = subj]
  /\ live' = live \union {s}
  /\ UNCHANGED <<inbox, sent, shut, result>>

\* The live subscriptions that have room for a message of this subject (mutant:
\* or none).
ReachableFull(subj) == {s \in live : topic[s] = subj}
Reachable(subj) == {s \in live : topic[s] = subj /\ Len(inbox[s]) < Capacity}

Deliver(subj, receivers) ==
  /\ sent' = sent + 1
  /\ inbox' = [s \in Subs |->
                 IF s \in receivers
                 THEN Append(inbox[s], [id |-> sent + 1, subject |-> subj])
                 ELSE inbox[s]]
  /\ UNCHANGED <<live, topic, shut>>

\* A Publish that reports success reached everyone who had room.
PublishOK(subj) ==
  /\ ~shut
  /\ Deliver(subj, Reachable(subj))
  /\ result' = "ok"

\* A Publish whose context is cancelled may have reached some of them, never
\* all the live subscriptions: it stopped at one.
PublishAborted(subj) ==
  /\ ~shut
  /\ \E receivers \in SUBSET Reachable(subj) :
       /\ \E s \in live \ receivers : topic[s] = subj
       /\ Deliver(subj, receivers)
  /\ result' = "cancelled"

PublishRefused ==
  /\ shut
  /\ result' = "closed"
  /\ UNCHANGED <<live, topic, inbox, sent, shut>>

Take(s) ==
  /\ inbox[s] # <<>>
  /\ inbox' = [inbox EXCEPT ![s] = Tail(@)]
  /\ UNCHANGED <<live, topic, sent, shut, result>>

Leave(s) ==
  /\ s \in live
  /\ live' = live \ {s}
  /\ UNCHANGED <<topic, inbox, sent, shut, result>>

\* Shutting down ends every subscription at once.
Shutdown ==
  /\ ~shut
  /\ shut' = TRUE
  /\ live' = {}
  /\ UNCHANGED <<topic, inbox, sent, result>>

Next ==
  \/ \E s \in Subs, subj \in Subjects : Join(s, subj)
  \/ \E subj \in Subjects : PublishOK(subj) \/ PublishAborted(subj)
  \/ PublishRefused
  \/ \E s \in Subs : Take(s) \/ Leave(s)
  \/ Shutdown

Spec == Init /\ [][Next]_vars
===============================================================================
