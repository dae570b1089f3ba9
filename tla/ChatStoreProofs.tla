----------------------------- MODULE ChatStoreProofs -----------------------------
(***************************************************************************)
(* Proofs about ChatStore: which chat the messages of the view belong to,  *)
(* where questions go, and when client and server agree, for any number of *)
(* chats, openings and questions and any order of the answers.             *)
(***************************************************************************)
EXTENDS ChatStore, SequenceTheorems, TLAPS

USE ChatStoreAssumption DEF ChatStoreAssumption

-------------------------------------------------------------------------------
(***************************************************************************)
(* Types.                                                                  *)
(***************************************************************************)
FetchType == [pc : {"asked", "read", "done"}, chat : Chats \union {NoChat},
              history : Seq(Message)]
StreamPC == {"timer", "sent", "stored", "answered", "ended", "failed"}
StreamType == [pc : StreamPC, chat : Chats \union {NoChat}, meant : Chats]
BubbleType == [question : Streams \union {NoStream}, answer : Streams \union {NoStream}]

ViewOK ==
  /\ view \in [data : Seq(Message) \union {Undefined}, loading : BOOLEAN]
  /\ view.loading => view.data = Undefined

FetchOK == fetch \in Seq(FetchType) /\ Len(fetch) <= MaxOpened
StreamOK == stream \in Seq(StreamType) /\ Len(stream) <= MaxAsked
StoredOK == stored \in [Chats -> Seq(Message)]
GhostsOK == calm \in BOOLEAN /\ alone \in BOOLEAN /\ raced \subseteq Streams /\ left \subseteq Streams

LEMMA Types ==
  TypeOK <=> /\ current \in Chats \union {NoChat} /\ ViewOK
             /\ bubble \in BubbleType /\ FetchOK /\ StreamOK /\ StoredOK
             /\ created \subseteq Chats /\ GhostsOK
BY DEF TypeOK, ViewOK, BubbleType, FetchOK, FetchType, StreamOK, StreamType, StreamPC,
       StoredOK, GhostsOK

LEMMA TypesPrimed ==
  TypeOK' <=> /\ current' \in Chats \union {NoChat} /\ ViewOK'
              /\ bubble' \in BubbleType /\ FetchOK' /\ StreamOK' /\ StoredOK'
              /\ created' \subseteq Chats /\ GhostsOK'
BY DEF TypeOK, ViewOK, BubbleType, FetchOK, FetchType, StreamOK, StreamType, StreamPC,
       StoredOK, GhostsOK

\* The indices of the streams are the questions so far.
LEMMA StreamsAre ==
  ASSUME StreamOK
  PROVE  /\ DOMAIN stream = 1..Len(stream) /\ Len(stream) \in Nat
         /\ DOMAIN stream \subseteq Streams
         /\ \A s \in DOMAIN stream : stream[s] \in StreamType
         /\ Len(stream) < MaxAsked => Len(stream) + 1 \in Streams
<1>1. DOMAIN stream = 1..Len(stream) /\ Len(stream) \in Nat
  BY DEF StreamOK
<1>2. \A s \in DOMAIN stream : stream[s] \in StreamType
  BY DEF StreamOK
<1>3. DOMAIN stream \subseteq Streams /\ (Len(stream) < MaxAsked => Len(stream) + 1 \in Streams)
  BY <1>1 DEF StreamOK, Streams
<1> QED BY <1>1, <1>2, <1>3

LEMMA FetchesAre ==
  ASSUME FetchOK
  PROVE  /\ DOMAIN fetch = 1..Len(fetch) /\ Len(fetch) \in Nat
         /\ \A n \in DOMAIN fetch : fetch[n] \in FetchType
<1>1. DOMAIN fetch = 1..Len(fetch) /\ Len(fetch) \in Nat
  BY DEF FetchOK
<1>2. \A n \in DOMAIN fetch : fetch[n] \in FetchType
  BY DEF FetchOK
<1> QED BY <1>1, <1>2

-------------------------------------------------------------------------------
(***************************************************************************)
(* What the actions do to the calls and streams.                           *)
(***************************************************************************)

\* A call or stream is added.
LEMMA FetchAdded ==
  ASSUME FetchOK, NEW c \in Chats, Len(fetch) < MaxOpened,
         fetch' = Append(fetch, [pc |-> "asked", chat |-> c, history |-> <<>>])
  PROVE  /\ FetchOK'
         /\ DOMAIN fetch' = DOMAIN fetch \union {Len(fetch) + 1}
         /\ \A n \in DOMAIN fetch : fetch'[n] = fetch[n]
         /\ fetch'[Len(fetch) + 1].pc = "asked" /\ fetch'[Len(fetch) + 1].chat = c
<1>1. [pc |-> "asked", chat |-> c, history |-> <<>>] \in FetchType
  BY DEF FetchType
<1>2. /\ fetch' \in Seq(FetchType) /\ Len(fetch') = Len(fetch) + 1
      /\ \A n \in 1..Len(fetch) : fetch'[n] = fetch[n]
      /\ fetch'[Len(fetch) + 1] = [pc |-> "asked", chat |-> c, history |-> <<>>]
  BY <1>1, AppendProperties DEF FetchOK
<1>3. FetchOK' /\ DOMAIN fetch' = DOMAIN fetch \union {Len(fetch) + 1}
  BY <1>2 DEF FetchOK
<1> QED BY <1>2, <1>3, FetchesAre

LEMMA StreamAdded ==
  ASSUME StreamOK, Len(stream) < MaxAsked, NEW x \in StreamType, stream' = Append(stream, x)
  PROVE  /\ StreamOK'
         /\ DOMAIN stream' = DOMAIN stream \union {Len(stream) + 1}
         /\ Len(stream) + 1 \notin DOMAIN stream
         /\ \A s \in DOMAIN stream : stream'[s] = stream[s]
         /\ stream'[Len(stream) + 1] = x
<1>1. /\ stream' \in Seq(StreamType) /\ Len(stream') = Len(stream) + 1
      /\ \A n \in 1..Len(stream) : stream'[n] = stream[n]
      /\ stream'[Len(stream) + 1] = x
  BY AppendProperties DEF StreamOK
<1>2. StreamOK' /\ DOMAIN stream' = DOMAIN stream \union {Len(stream) + 1}
      /\ Len(stream) + 1 \notin DOMAIN stream
  BY <1>1 DEF StreamOK
<1> QED BY <1>1, <1>2, StreamsAre

\* One entry is replaced.
LEMMA FetchSet ==
  ASSUME FetchOK, NEW n \in DOMAIN fetch, NEW x \in FetchType, fetch' = [fetch EXCEPT ![n] = x]
  PROVE  /\ FetchOK' /\ DOMAIN fetch' = DOMAIN fetch /\ fetch'[n] = x
         /\ \A k \in DOMAIN fetch \ {n} : fetch'[k] = fetch[k]
<1>1. fetch' \in Seq(FetchType) /\ Len(fetch') = Len(fetch)
  BY ExceptSeq DEF FetchOK
<1>2. DOMAIN fetch' = DOMAIN fetch /\ fetch'[n] = x /\ \A k \in DOMAIN fetch \ {n} : fetch'[k] = fetch[k]
  OBVIOUS
<1> QED BY <1>1, <1>2 DEF FetchOK

LEMMA StreamSet ==
  ASSUME StreamOK, NEW s \in DOMAIN stream, NEW x \in StreamType,
         stream' = [stream EXCEPT ![s] = x]
  PROVE  /\ StreamOK' /\ DOMAIN stream' = DOMAIN stream /\ stream'[s] = x
         /\ \A t \in DOMAIN stream \ {s} : stream'[t] = stream[t]
<1>1. stream' \in Seq(StreamType) /\ Len(stream') = Len(stream)
  BY ExceptSeq DEF StreamOK
<1>2. DOMAIN stream' = DOMAIN stream /\ stream'[s] = x /\ \A t \in DOMAIN stream \ {s} : stream'[t] = stream[t]
  OBVIOUS
<1> QED BY <1>1, <1>2 DEF StreamOK

\* A stream moves on.
LEMMA StreamMoves ==
  ASSUME StreamOK, NEW s \in DOMAIN stream, NEW pc \in StreamPC,
         stream' = [stream EXCEPT ![s].pc = pc]
  PROVE  /\ StreamOK' /\ DOMAIN stream' = DOMAIN stream
         /\ stream'[s].pc = pc /\ stream'[s].chat = stream[s].chat
         /\ stream'[s].meant = stream[s].meant
         /\ \A t \in DOMAIN stream \ {s} : stream'[t] = stream[t]
<1>1. stream[s] \in StreamType
  BY StreamsAre
<1>2. PICK x : x = [stream[s] EXCEPT !.pc = pc]
  OBVIOUS
<1>3. x \in StreamType /\ x.pc = pc /\ x.chat = stream[s].chat /\ x.meant = stream[s].meant
  BY <1>1, <1>2 DEF StreamType
<1>4. stream' = [stream EXCEPT ![s] = x]
  BY <1>2
<1> QED BY <1>3, <1>4, StreamSet

\* The timer: the question goes to the open chat.
LEMMA TimerMoves ==
  ASSUME StreamOK, NEW s \in DOMAIN stream, NEW c \in Chats,
         stream' = [stream EXCEPT ![s].pc = "sent", ![s].chat = c]
  PROVE  /\ StreamOK' /\ DOMAIN stream' = DOMAIN stream
         /\ stream'[s].pc = "sent" /\ stream'[s].chat = c
         /\ stream'[s].meant = stream[s].meant
         /\ \A t \in DOMAIN stream \ {s} : stream'[t] = stream[t]
<1>1. stream[s] \in StreamType
  BY StreamsAre
<1>2. PICK x : x = [stream[s] EXCEPT !.pc = "sent", !.chat = c]
  OBVIOUS
<1>3. x \in StreamType /\ x.pc = "sent" /\ x.chat = c /\ x.meant = stream[s].meant
  BY <1>1, <1>2 DEF StreamType, StreamPC
<1>4. stream' = [stream EXCEPT ![s] = x]
  BY <1>2
<1> QED BY <1>3, <1>4, StreamSet

\* The server has read the history of the chat.
LEMMA ReadMoves ==
  ASSUME FetchOK, NEW n \in DOMAIN fetch, NEW h \in Seq(Message),
         fetch' = [fetch EXCEPT ![n].pc = "read", ![n].history = h]
  PROVE  /\ FetchOK' /\ DOMAIN fetch' = DOMAIN fetch
         /\ fetch'[n].pc = "read" /\ fetch'[n].chat = fetch[n].chat /\ fetch'[n].history = h
         /\ \A k \in DOMAIN fetch \ {n} : fetch'[k] = fetch[k]
<1>1. fetch[n] \in FetchType
  BY FetchesAre
<1>2. PICK x : x = [fetch[n] EXCEPT !.pc = "read", !.history = h]
  OBVIOUS
<1>3. x \in FetchType /\ x.pc = "read" /\ x.chat = fetch[n].chat /\ x.history = h
  BY <1>1, <1>2 DEF FetchType
<1>4. fetch' = [fetch EXCEPT ![n] = x]
  BY <1>2
<1> QED BY <1>3, <1>4, FetchSet

LEMMA DoneMoves ==
  ASSUME FetchOK, NEW n \in DOMAIN fetch, fetch' = [fetch EXCEPT ![n] = Done]
  PROVE  /\ FetchOK' /\ DOMAIN fetch' = DOMAIN fetch /\ fetch'[n].pc = "done"
         /\ \A k \in DOMAIN fetch \ {n} : fetch'[k] = fetch[k]
<1>1. Done \in FetchType /\ Done.pc = "done"
  BY DEF Done, FetchType
<1> QED BY <1>1, FetchSet

-------------------------------------------------------------------------------
(***************************************************************************)
(* The basic invariant: where each call and stream is bound for.           *)
(***************************************************************************)
StreamInv ==
  \A s \in DOMAIN stream :
    /\ current \in Chats
    /\ stream[s].pc = "timer" => /\ stream[s].chat = NoChat
                                 /\ s \notin left => stream[s].meant = current
    /\ stream[s].pc # "timer" => /\ stream[s].chat \in Chats
                                 /\ s \notin left => stream[s].chat = stream[s].meant

FetchInv == \A n \in DOMAIN fetch : fetch[n].pc # "done" => fetch[n].chat \in Chats

BInv == TypeOK /\ StreamInv /\ FetchInv

LEMMA BInvInit == Init => BInv
<1> SUFFICES ASSUME Init PROVE BInv
  OBVIOUS
<1>1. FetchOK /\ StreamOK /\ DOMAIN stream = {} /\ DOMAIN fetch = {}
  BY DEF Init, FetchOK, StreamOK
<1>2. bubble \in BubbleType
  BY DEF Init, NoBubble, BubbleType
<1>3. StoredOK
  <2> SUFFICES ASSUME NEW c \in Chats, c \in OldChats PROVE <<Question(c)>> \in Seq(Message)
    BY DEF Init, StoredOK
  <2>1. Question(c) \in Message
    BY DEF Question, Message
  <2> QED BY <2>1
<1>4. TypeOK
  BY <1>1, <1>2, <1>3, Types DEF Init, ViewOK, GhostsOK
<1> QED BY <1>1, <1>4 DEF BInv, StreamInv, FetchInv

\* Opening a chat.
LEMMA BInvShow ==
  ASSUME BInv, NEW c \in Chats, Show(c), StoredOK', created' \subseteq Chats,
         \/ UNCHANGED stream
         \/ Len(stream) < MaxAsked
            /\ stream' = Append(stream, [pc |-> "timer", chat |-> NoChat, meant |-> c])
  PROVE  BInv'
<1>1. FetchOK /\ StreamOK /\ GhostsOK
  BY Types DEF BInv
<1>2. /\ FetchOK' /\ DOMAIN fetch' = DOMAIN fetch \union {Len(fetch) + 1}
      /\ \A n \in DOMAIN fetch : fetch'[n] = fetch[n]
      /\ fetch'[Len(fetch) + 1].chat = c
  BY <1>1, FetchAdded DEF Show
<1>3. FetchInv'
  BY <1>2 DEF BInv, FetchInv
<1>4. /\ current' = c /\ ViewOK' /\ bubble' \in BubbleType
  BY DEF Show, ViewOK, NoBubble, BubbleType
<1>5. GhostsOK' /\ left' = left \union {s \in DOMAIN stream : stream[s].pc = "timer"}
  BY <1>1, StreamsAre DEF Show, GhostsOK, Quiet, Running, Fetching
<1>6. CASE UNCHANGED stream
  <2>1. StreamInv' /\ StreamOK'
    BY <1>1, <1>4, <1>5, <1>6 DEF BInv, StreamInv, StreamOK
  <2> QED BY <1>2, <1>3, <1>4, <1>5, <2>1, TypesPrimed DEF BInv
<1>7. CASE /\ Len(stream) < MaxAsked
           /\ stream' = Append(stream, [pc |-> "timer", chat |-> NoChat, meant |-> c])
  <2>1. PICK x \in StreamType : x = [pc |-> "timer", chat |-> NoChat, meant |-> c]
    BY DEF StreamType, StreamPC
  <2>2. /\ StreamOK' /\ DOMAIN stream' = DOMAIN stream \union {Len(stream) + 1}
        /\ \A s \in DOMAIN stream : stream'[s] = stream[s]
        /\ stream'[Len(stream) + 1] = x
    BY <1>1, <1>7, <2>1, StreamAdded
  <2>3. StreamInv'
    BY <1>4, <1>5, <2>1, <2>2 DEF BInv, StreamInv
  <2> QED BY <1>2, <1>3, <1>4, <1>5, <2>2, <2>3, TypesPrimed DEF BInv
<1> QED BY <1>6, <1>7

\* The answers to GetHistory.
LEMMA BInvHistory ==
  ASSUME BInv, NEW n \in DOMAIN fetch, History(n)
  PROVE  BInv'
<1>1. FetchOK /\ StoredOK /\ fetch[n] \in FetchType
  BY Types, FetchesAre DEF BInv
<1>2. CASE HistoryRead(n)
  <2>1. fetch[n].chat \in Chats
    BY <1>2 DEF HistoryRead, BInv, FetchInv
  <2>2. PICK h \in Seq(Message) : h = stored[fetch[n].chat]
    BY <1>1, <2>1 DEF StoredOK
  <2>3. /\ FetchOK' /\ DOMAIN fetch' = DOMAIN fetch /\ fetch'[n].chat = fetch[n].chat
        /\ \A k \in DOMAIN fetch \ {n} : fetch'[k] = fetch[k]
    BY <1>1, <1>2, <2>2, ReadMoves DEF HistoryRead
  <2>4. FetchInv'
    BY <2>1, <2>3 DEF BInv, FetchInv
  <2>5. UNCHANGED <<current, view, bubble, stream, stored, created, ghosts>>
    BY <1>2 DEF HistoryRead
  <2> QED BY <2>3, <2>4, <2>5, Types, TypesPrimed
          DEF BInv, StreamInv, ghosts, ViewOK, StreamOK, StoredOK, GhostsOK
<1>3. CASE HistoryArrives(n) \/ HistoryFails(n)
  <2>1. fetch' = [fetch EXCEPT ![n] = Done]
        /\ UNCHANGED <<current, bubble, stream, stored, created, ghosts>>
    BY <1>3 DEF HistoryArrives, HistoryFails
  <2>2. /\ FetchOK' /\ DOMAIN fetch' = DOMAIN fetch /\ fetch'[n].pc = "done"
        /\ \A k \in DOMAIN fetch \ {n} : fetch'[k] = fetch[k]
    BY <1>1, <2>1, DoneMoves
  <2>3. FetchInv'
    BY <2>2 DEF BInv, FetchInv
  <2>4. ViewOK'
    <3>1. fetch[n].history \in Seq(Message)
      BY <1>1 DEF FetchType
    <3>2. PICK d \in Seq(Message) \union {Undefined} : view' = [data |-> d, loading |-> FALSE]
      BY <1>3, <3>1 DEF HistoryArrives, HistoryFails
    <3>3. view' \in [data : Seq(Message) \union {Undefined}, loading : BOOLEAN]
      BY <3>2
    <3>4. ~view'.loading
      BY <3>2
    <3> QED BY <3>3, <3>4 DEF ViewOK
  <2> QED BY <2>1, <2>2, <2>3, <2>4, Types, TypesPrimed
          DEF BInv, StreamInv, ghosts, StreamOK, StoredOK, GhostsOK
<1> QED BY <1>2, <1>3 DEF History

\* The question goes out: Ask and TimerFires.
LEMMA BInvDoChat ==
  ASSUME BInv, NEW s \in Streams, DoChat(s), StreamOK', StreamInv'
  PROVE  BInv'
<1>1. bubble' \in BubbleType /\ GhostsOK'
  <2>1. GhostsOK
    BY Types DEF BInv
  <2> QED BY <2>1 DEF DoChat, BubbleType, GhostsOK, Quiet, Running, Fetching
<1> QED BY <1>1, Types, TypesPrimed
        DEF DoChat, BInv, FetchInv, ViewOK, FetchOK, StoredOK

LEMMA BInvAsk == BInv /\ Ask => BInv'
<1> SUFFICES ASSUME BInv, Ask PROVE BInv'
  OBVIOUS
<1>1. StreamOK /\ current \in Chats
  BY Types DEF BInv, Ask
<1>2. PICK x \in StreamType : x = [pc |-> "sent", chat |-> current, meant |-> current]
  BY <1>1 DEF StreamType, StreamPC
<1>3. /\ StreamOK' /\ DOMAIN stream' = DOMAIN stream \union {Len(stream) + 1}
      /\ \A s \in DOMAIN stream : stream'[s] = stream[s]
      /\ stream'[Len(stream) + 1] = x
  BY <1>1, <1>2, StreamAdded DEF Ask
<1>4. StreamInv'
  BY <1>1, <1>2, <1>3 DEF Ask, DoChat, BInv, StreamInv
<1>5. Len(stream) + 1 \in Streams
  BY <1>1, StreamsAre DEF Ask
<1> QED BY <1>3, <1>4, <1>5, BInvDoChat DEF Ask

LEMMA BInvTimer ==
  ASSUME BInv, NEW s \in DOMAIN stream, TimerFires(s)
  PROVE  BInv'
<1>1. StreamOK /\ current \in Chats /\ s \in Streams
  BY Types, StreamsAre DEF BInv, StreamInv
<1>2. /\ StreamOK' /\ DOMAIN stream' = DOMAIN stream
      /\ stream'[s].pc = "sent" /\ stream'[s].chat = current
      /\ stream'[s].meant = stream[s].meant
      /\ \A t \in DOMAIN stream \ {s} : stream'[t] = stream[t]
  BY <1>1, TimerMoves DEF TimerFires
<1>3. StreamInv'
  BY <1>1, <1>2 DEF TimerFires, DoChat, BInv, StreamInv
<1> QED BY <1>1, <1>2, <1>3, BInvDoChat DEF TimerFires

\* A stream that was sent moves on: nothing is bound elsewhere.
LEMMA BInvMoves ==
  ASSUME BInv, NEW s \in DOMAIN stream, stream[s].pc # "timer",
         NEW pc \in StreamPC, pc # "timer", stream' = [stream EXCEPT ![s].pc = pc],
         UNCHANGED <<current, fetch, created, left>>,
         ViewOK', bubble' \in BubbleType, StoredOK', GhostsOK'
  PROVE  BInv'
<1>1. StreamOK
  BY Types DEF BInv
<1>2. /\ StreamOK' /\ DOMAIN stream' = DOMAIN stream
      /\ stream'[s].pc = pc /\ stream'[s].chat = stream[s].chat
      /\ stream'[s].meant = stream[s].meant
      /\ \A t \in DOMAIN stream \ {s} : stream'[t] = stream[t]
  BY <1>1, StreamMoves
<1>3. StreamInv'
  BY <1>2 DEF BInv, StreamInv
<1>4. FetchInv' /\ FetchOK'
  BY Types DEF BInv, FetchInv, FetchOK
<1> QED BY <1>2, <1>3, <1>4, Types, TypesPrimed DEF BInv

\* The messages of a stream.
LEMMA MessagesOf ==
  ASSUME NEW s \in Streams
  PROVE  Question(s) \in Message /\ Answer(s) \in Message
         /\ Question(s).of = s /\ Answer(s).of = s
BY DEF Question, Answer, Message

LEMMA BInvStores ==
  ASSUME BInv, NEW s \in DOMAIN stream, NEW m \in Message, NEW pc \in StreamPC,
         pc # "timer", stream[s].pc # "timer", Stores(s, m, pc)
  PROVE  BInv'
<1>1. StoredOK /\ stream[s].chat \in Chats
  BY Types DEF BInv, StreamInv
<1>2. StoredOK'
  BY <1>1 DEF Stores, StoredOK
<1> QED BY <1>2, BInvMoves, Types DEF Stores, BInv, ghosts, ViewOK, GhostsOK

LEMMA AddedIsView ==
  ASSUME BInv, NEW s \in DOMAIN stream, view' = AddToHistory(s)
  PROVE  /\ ViewOK'
         /\ IF view.data = Undefined THEN view' = view
            ELSE view'.data = view.data \o <<Question(s), Answer(s)>>
<1>1. ViewOK /\ s \in Streams
  BY Types, StreamsAre DEF BInv
<1>2. CASE view.data = Undefined
  BY <1>1, <1>2 DEF AddToHistory, ViewOK
<1>3. CASE view.data # Undefined
  <2>1. PICK d \in Seq(Message) : d = view.data \o <<Question(s), Answer(s)>>
    <3>1. view.data \in Seq(Message)
      BY <1>1, <1>3 DEF ViewOK
    <3>2. <<Question(s), Answer(s)>> \in Seq(Message)
      BY <1>1, MessagesOf
    <3> QED BY <3>1, <3>2, ConcatProperties
  <2>2. view' = [view EXCEPT !.data = d]
    BY <1>3, <2>1 DEF AddToHistory
  <2>3. view'.data = d /\ view'.loading = view.loading
        /\ view' \in [data : Seq(Message) \union {Undefined}, loading : BOOLEAN]
    BY <1>1, <2>1, <2>2 DEF ViewOK
  <2> QED BY <1>1, <1>3, <2>1, <2>3 DEF ViewOK
<1> QED BY <1>2, <1>3

LEMMA BInvEnds ==
  ASSUME BInv, NEW s \in DOMAIN stream, End(s) \/ Error(s)
  PROVE  BInv'
<1>1. GhostsOK /\ ViewOK /\ StoredOK /\ NoBubble \in BubbleType
  BY Types DEF BInv, NoBubble, BubbleType
<1>2. "ended" \in StreamPC /\ "failed" \in StreamPC
  BY DEF StreamPC
<1>3. CASE End(s)
  <2>1. GhostsOK' /\ StoredOK'
    BY <1>1, <1>3 DEF End, GhostsOK, StoredOK
  <2> QED BY <1>1, <1>2, <1>3, <2>1, AddedIsView, BInvMoves DEF End
<1>4. CASE Error(s)
  <2>1. GhostsOK' /\ StoredOK' /\ ViewOK' /\ stream[s].pc # "timer"
    BY <1>1, <1>4 DEF Error, GhostsOK, StoredOK, ViewOK, Running
  <2> QED BY <1>1, <1>2, <1>4, <2>1, BInvMoves DEF Error
<1> QED BY <1>3, <1>4

LEMMA BInvStep == BInv /\ [Next]_vars => BInv'
<1> SUFFICES ASSUME BInv, [Next]_vars PROVE BInv'
  OBVIOUS
<1>0. StoredOK /\ created \subseteq Chats /\ DOMAIN stream \subseteq Streams /\ StreamOK
  BY Types, StreamsAre DEF BInv
<1>1. ASSUME NEW c \in Chats, Open(c) \/ AskInNewChat(c) PROVE BInv'
  <2>1. StoredOK' /\ created' \subseteq Chats
    BY <1>0, <1>1 DEF Open, AskInNewChat, StoredOK
  <2> QED BY <1>1, <2>1, BInvShow DEF Open, AskInNewChat
<1>2. ASSUME NEW s \in DOMAIN stream, StoresQuestion(s) \/ StoresAnswer(s) PROVE BInv'
  <2>1. "stored" \in StreamPC /\ "answered" \in StreamPC
    BY DEF StreamPC
  <2> QED BY <1>0, <1>2, <2>1, MessagesOf, BInvStores DEF StoresQuestion, StoresAnswer
<1>3. ASSUME NEW s \in DOMAIN stream, Data(s) PROVE BInv'
  <2>1. bubble' \in BubbleType
    <3>1. bubble \in BubbleType /\ s \in Streams
      BY <1>0, Types DEF BInv
    <3> QED BY <1>3, <3>1 DEF Data, BubbleType
  <2>2. UNCHANGED <<current, view, fetch, stream, stored, created, ghosts>>
    BY <1>3 DEF Data
  <2> QED BY <2>1, <2>2, Types, TypesPrimed
          DEF BInv, StreamInv, FetchInv, ghosts, ViewOK, FetchOK, StreamOK, StoredOK, GhostsOK
<1>4. CASE UNCHANGED vars
  BY <1>4, Types, TypesPrimed
     DEF vars, BInv, StreamInv, FetchInv, ViewOK, FetchOK, StreamOK, StoredOK, GhostsOK
<1> QED BY <1>1, <1>2, <1>3, <1>4, BInvAsk, BInvTimer, BInvHistory, BInvEnds
        DEF Next, Advance

(***************************************************************************)
(* Every variable keeps its type; a view that loads holds no messages.     *)
(***************************************************************************)
THEOREM TypeCorrect == Spec => []TypeOK
<1>1. BInv => TypeOK
  BY DEF BInv
<1> QED BY <1>1, BInvInit, BInvStep, PTL DEF Spec

(***************************************************************************)
(* A question goes to the chat it was typed for, unless the user left the  *)
(* new chat before the timer of home.tsx:18 fired.                         *)
(***************************************************************************)
THEOREM QuestionsGoWhereMeant == Spec => []SentAsMeant
<1>1. BInv => SentAsMeant
  BY DEF BInv, StreamInv, SentAsMeant
<1> QED BY <1>1, BInvInit, BInvStep, PTL DEF Spec

-------------------------------------------------------------------------------
(***************************************************************************)
(* The steps, as far as the invariants below tell them apart.              *)
(***************************************************************************)
Moved(s, pc) ==
  /\ DOMAIN stream' = DOMAIN stream
  /\ stream'[s].pc = pc /\ stream'[s].chat = stream[s].chat
  /\ \A t \in DOMAIN stream \ {s} : stream'[t] = stream[t]

Closed(n) ==
  /\ DOMAIN fetch' = DOMAIN fetch /\ fetch'[n].pc = "done"
  /\ \A k \in DOMAIN fetch \ {n} : fetch'[k] = fetch[k]

StepOpen(c) ==
  /\ current' = c /\ view'.data = Undefined /\ UNCHANGED stored
  /\ calm' = Quiet /\ alone' = Quiet /\ raced' = raced \union Running
  /\ DOMAIN fetch' = DOMAIN fetch \union {Len(fetch) + 1}
  /\ \A n \in DOMAIN fetch : fetch'[n] = fetch[n]
  /\ fetch'[Len(fetch) + 1].pc = "asked" /\ fetch'[Len(fetch) + 1].chat = c
  /\ DOMAIN stream \subseteq DOMAIN stream' /\ DOMAIN stream' \subseteq Streams
  /\ \A s \in DOMAIN stream : stream'[s] = stream[s]
  /\ \A s \in DOMAIN stream' \ DOMAIN stream : stream'[s].pc = "timer"

StepRead(n) ==
  /\ fetch[n].pc = "asked" /\ DOMAIN fetch' = DOMAIN fetch
  /\ fetch'[n].pc = "read" /\ fetch'[n].chat = fetch[n].chat
  /\ fetch[n].chat \in Chats /\ fetch'[n].history = stored[fetch[n].chat]
  /\ \A k \in DOMAIN fetch \ {n} : fetch'[k] = fetch[k]
  /\ UNCHANGED <<current, view, stream, stored, calm, alone, raced>>

StepArrive(n) ==
  /\ fetch[n].pc = "read" /\ view'.data = fetch[n].history /\ Closed(n)
  /\ UNCHANGED <<current, stream, stored, calm, alone, raced>>

StepFail(n) ==
  /\ fetch[n].pc = "asked" /\ view'.data = Undefined /\ Closed(n)
  /\ UNCHANGED <<current, stream, stored, calm, alone, raced>>

StepSend(s) ==
  /\ s \in DOMAIN stream => stream[s].pc = "timer"
  /\ DOMAIN stream' = DOMAIN stream \union {s}
  /\ stream'[s].pc = "sent" /\ stream'[s].chat = current
  /\ \A t \in DOMAIN stream \ {s} : stream'[t] = stream[t]
  /\ alone' = (alone /\ Quiet)
  /\ raced' = IF Fetching THEN raced \union {s} ELSE raced
  /\ UNCHANGED <<current, view, fetch, stored, calm>>

StepStore(s, m, pc) ==
  /\ \A c \in Chats : stored'[c] = IF c = stream[s].chat THEN Append(stored[c], m) ELSE stored[c]
  /\ Moved(s, pc)
  /\ UNCHANGED <<current, view, fetch, calm, alone, raced>>

StepEnd(s) ==
  /\ stream[s].pc \in {"stored", "answered"}
  /\ alone' = (alone /\ stream[s].pc = "answered")
  /\ view'.data = IF view.data = Undefined THEN Undefined
                  ELSE Append(Append(view.data, Question(s)), Answer(s))
  /\ Moved(s, "ended")
  /\ UNCHANGED <<current, fetch, stored, calm, raced>>

StepError(s) ==
  /\ stream[s].pc \in {"sent", "stored", "answered"} /\ Moved(s, "failed") /\ ~alone'
  /\ UNCHANGED <<current, view, fetch, stored, calm, raced>>

StepIdle == UNCHANGED <<current, view, fetch, stream, stored, calm, alone, raced>>

Step ==
  \/ \E c \in Chats : StepOpen(c)
  \/ \E n \in DOMAIN fetch : StepRead(n) \/ StepArrive(n) \/ StepFail(n)
  \/ \E s \in Streams : StepSend(s)
  \/ \E s \in DOMAIN stream :
       \/ stream[s].pc = "sent" /\ StepStore(s, Question(s), "stored")
       \/ stream[s].pc = "stored" /\ StepStore(s, Answer(s), "answered")
       \/ StepEnd(s) \/ StepError(s)
  \/ StepIdle

\* What Append and the two messages of an answer do to a sequence.
LEMMA Appended ==
  ASSUME NEW q \in Seq(Message), NEW m \in Message
  PROVE  /\ Append(q, m) \in Seq(Message)
         /\ DOMAIN Append(q, m) = DOMAIN q \union {Len(q) + 1}
         /\ Len(q) + 1 \notin DOMAIN q
         /\ Append(q, m)[Len(q) + 1] = m
         /\ \A k \in DOMAIN q : Append(q, m)[k] = q[k]
BY AppendProperties

LEMMA AppendedTwice ==
  ASSUME NEW q \in Seq(Message), NEW m \in Message, NEW o \in Message
  PROVE  q \o <<m, o>> = Append(Append(q, m), o)
<1>1. <<m, o>> \in Seq(Message) /\ Len(<<m, o>>) = 2
  OBVIOUS
<1>2. PICK r \in Seq(Message) : r = Append(q, m)
  BY Appended
<1>3. /\ Len(r) = Len(q) + 1 /\ r[Len(q) + 1] = m
      /\ \A k \in 1..Len(q) : r[k] = q[k]
  BY <1>2, AppendProperties
<1>4. PICK t \in Seq(Message) : t = Append(r, o)
  BY Appended
<1>5. /\ Len(t) = Len(q) + 2 /\ t[Len(q) + 2] = o
      /\ \A k \in 1..(Len(q) + 1) : t[k] = r[k]
  BY <1>3, <1>4, AppendProperties
<1>6. PICK u \in Seq(Message) : u = q \o <<m, o>>
  BY <1>1, ConcatProperties
<1>7. /\ Len(u) = Len(q) + 2
      /\ \A k \in 1..(Len(q) + 2) : u[k] = IF k <= Len(q) THEN q[k] ELSE <<m, o>>[k - Len(q)]
  BY <1>1, <1>6, ConcatProperties
<1>8. \A k \in 1..Len(u) : u[k] = t[k]
  <2> SUFFICES ASSUME NEW k \in 1..(Len(q) + 2) PROVE u[k] = t[k]
    BY <1>7
  <2>0. Len(q) \in Nat /\ <<m, o>>[1] = m /\ <<m, o>>[2] = o
    OBVIOUS
  <2>1. CASE k \in 1..Len(q)
    <3>1. u[k] = q[k]
      BY <2>0, <2>1, <1>7
    <3>2. k \in 1..(Len(q) + 1) /\ r[k] = q[k]
      BY <2>0, <2>1, <1>3
    <3> QED BY <3>1, <3>2, <1>5
  <2>2. CASE k = Len(q) + 1
    <3>1. u[k] = m
      BY <2>0, <2>2, <1>7
    <3>2. t[k] = r[k]
      BY <2>0, <2>2, <1>5
    <3> QED BY <2>2, <3>1, <3>2, <1>3
  <2>3. CASE k = Len(q) + 2
    <3>1. u[k] = o
      BY <2>0, <2>3, <1>7
    <3> QED BY <2>3, <3>1, <1>5
  <2> QED BY <2>0, <2>1, <2>2, <2>3
<1>9. u = t
  BY <1>5, <1>7, <1>8, SeqEqual
<1> QED BY <1>2, <1>4, <1>6, <1>9

LEMMA Steps == BInv /\ [Next]_vars => Step
<1> SUFFICES ASSUME BInv, [Next]_vars PROVE Step
  OBVIOUS
<1>0. FetchOK /\ StreamOK /\ StoredOK /\ ViewOK
  BY Types DEF BInv
<1>1. ASSUME NEW c \in Chats, Open(c) \/ AskInNewChat(c) PROVE StepOpen(c)
  <2>1. Show(c) /\ UNCHANGED stored
    BY <1>1 DEF Open, AskInNewChat
  <2>2. /\ DOMAIN fetch' = DOMAIN fetch \union {Len(fetch) + 1}
        /\ \A n \in DOMAIN fetch : fetch'[n] = fetch[n]
        /\ fetch'[Len(fetch) + 1].pc = "asked" /\ fetch'[Len(fetch) + 1].chat = c
    BY <1>0, <2>1, FetchAdded DEF Show
  <2>3. /\ DOMAIN stream \subseteq DOMAIN stream' /\ DOMAIN stream' \subseteq Streams
        /\ \A s \in DOMAIN stream : stream'[s] = stream[s]
        /\ \A s \in DOMAIN stream' \ DOMAIN stream : stream'[s].pc = "timer"
    <3>1. CASE Open(c)
      BY <1>0, <3>1, StreamsAre DEF Open
    <3>2. CASE AskInNewChat(c)
      <4>1. PICK x \in StreamType : x = [pc |-> "timer", chat |-> NoChat, meant |-> c]
        BY DEF StreamType, StreamPC
      <4>2. DOMAIN stream \subseteq Streams /\ Len(stream) + 1 \in Streams
        BY <1>0, <3>2, StreamsAre DEF AskInNewChat
      <4> QED BY <1>0, <3>2, <4>1, <4>2, StreamAdded DEF AskInNewChat
    <3> QED BY <1>1, <3>1, <3>2
  <2>4. /\ current' = c /\ view'.data = Undefined
        /\ calm' = Quiet /\ alone' = Quiet /\ raced' = raced \union Running
    BY <2>1 DEF Show
  <2> QED BY <2>1, <2>2, <2>3, <2>4 DEF StepOpen
<1>2. ASSUME NEW n \in DOMAIN fetch, HistoryRead(n) PROVE StepRead(n)
  <2>1. fetch[n].chat \in Chats /\ fetch[n].pc = "asked"
    BY <1>2 DEF HistoryRead, BInv, FetchInv
  <2>2. PICK h \in Seq(Message) : h = stored[fetch[n].chat]
    BY <1>0, <2>1 DEF StoredOK
  <2>3. /\ DOMAIN fetch' = DOMAIN fetch
        /\ fetch'[n].pc = "read" /\ fetch'[n].chat = fetch[n].chat /\ fetch'[n].history = h
        /\ \A k \in DOMAIN fetch \ {n} : fetch'[k] = fetch[k]
    BY <1>0, <1>2, <2>2, ReadMoves DEF HistoryRead
  <2> QED BY <1>2, <2>1, <2>2, <2>3 DEF HistoryRead, StepRead, ghosts
<1>3. ASSUME NEW n \in DOMAIN fetch, HistoryArrives(n) \/ HistoryFails(n)
      PROVE  StepArrive(n) \/ StepFail(n)
  <2>1. Closed(n)
    BY <1>0, <1>3, DoneMoves DEF HistoryArrives, HistoryFails, Closed
  <2> QED BY <1>3, <2>1 DEF HistoryArrives, HistoryFails, StepArrive, StepFail, ghosts
<1>4. ASSUME Ask PROVE \E s \in Streams : StepSend(s)
  <2>1. PICK x \in StreamType : x = [pc |-> "sent", chat |-> current, meant |-> current]
    BY <1>4, Types DEF Ask, BInv, StreamType, StreamPC
  <2>2. /\ DOMAIN stream' = DOMAIN stream \union {Len(stream) + 1}
        /\ Len(stream) + 1 \notin DOMAIN stream
        /\ \A s \in DOMAIN stream : stream'[s] = stream[s]
        /\ stream'[Len(stream) + 1] = x
    BY <1>0, <1>4, <2>1, StreamAdded DEF Ask
  <2>3. Len(stream) + 1 \in Streams
    BY <1>0, <1>4, StreamsAre DEF Ask
  <2>4. StepSend(Len(stream) + 1)
    BY <1>4, <2>1, <2>2 DEF Ask, DoChat, StepSend
  <2> QED BY <2>3, <2>4
<1>5. ASSUME NEW s \in DOMAIN stream, TimerFires(s) PROVE StepSend(s) /\ s \in Streams
  <2>1. current \in Chats /\ s \in Streams
    BY <1>0, StreamsAre DEF BInv, StreamInv
  <2>2. /\ DOMAIN stream' = DOMAIN stream
        /\ stream'[s].pc = "sent" /\ stream'[s].chat = current
        /\ \A t \in DOMAIN stream \ {s} : stream'[t] = stream[t]
    BY <1>0, <1>5, <2>1, TimerMoves DEF TimerFires
  <2> QED BY <1>5, <2>1, <2>2 DEF TimerFires, DoChat, StepSend
<1>6. ASSUME NEW s \in DOMAIN stream, NEW m \in Message, NEW pc \in StreamPC, Stores(s, m, pc)
      PROVE  StepStore(s, m, pc)
  <2>1. Moved(s, pc)
    BY <1>0, <1>6, StreamMoves DEF Stores, Moved
  <2>2. \A c \in Chats : stored'[c] = IF c = stream[s].chat THEN Append(stored[c], m) ELSE stored[c]
    BY <1>0, <1>6 DEF Stores, StoredOK
  <2> QED BY <1>6, <2>1, <2>2 DEF Stores, StepStore, ghosts
<1>7. ASSUME NEW s \in DOMAIN stream, End(s) PROVE StepEnd(s)
  <2>1. "ended" \in StreamPC /\ s \in Streams
    BY <1>0, StreamsAre DEF StreamPC
  <2>2. Moved(s, "ended")
    BY <1>0, <1>7, <2>1, StreamMoves DEF End, Moved
  <2>3. view'.data = IF view.data = Undefined THEN Undefined
                     ELSE Append(Append(view.data, Question(s)), Answer(s))
    <3>1. CASE view.data = Undefined
      BY <1>7, <3>1, AddedIsView DEF End
    <3>2. CASE view.data # Undefined
      <4>1. view.data \in Seq(Message)
        BY <1>0, <3>2 DEF ViewOK
      <4>2. view'.data = view.data \o <<Question(s), Answer(s)>>
        BY <1>7, <3>2, AddedIsView DEF End
      <4> QED BY <2>1, <3>2, <4>1, <4>2, MessagesOf, AppendedTwice
    <3> QED BY <3>1, <3>2
  <2> QED BY <1>7, <2>2, <2>3 DEF End, StepEnd
<1>8. ASSUME NEW s \in DOMAIN stream, Error(s) PROVE StepError(s)
  <2>1. "failed" \in StreamPC
    BY DEF StreamPC
  <2>2. Moved(s, "failed")
    BY <1>0, <1>8, <2>1, StreamMoves DEF Error, Moved
  <2> QED BY <1>8, <2>2 DEF Error, StepError, Running
<1>9. ASSUME NEW s \in DOMAIN stream, Data(s) PROVE StepIdle
  BY <1>9 DEF Data, StepIdle, ghosts
<1>10. ASSUME NEW s \in DOMAIN stream, StoresQuestion(s) \/ StoresAnswer(s)
       PROVE  \/ stream[s].pc = "sent" /\ StepStore(s, Question(s), "stored")
              \/ stream[s].pc = "stored" /\ StepStore(s, Answer(s), "answered")
  <2>1. "stored" \in StreamPC /\ "answered" \in StreamPC /\ s \in Streams
    BY <1>0, StreamsAre DEF StreamPC
  <2> QED BY <1>6, <1>10, <2>1, MessagesOf DEF StoresQuestion, StoresAnswer
<1>11. CASE UNCHANGED vars
  BY <1>11 DEF vars, Step, StepIdle
<1>12. CASE \E c \in Chats : Open(c) \/ AskInNewChat(c)
  BY <1>1, <1>12 DEF Step
<1>13. CASE \E n \in DOMAIN fetch : History(n)
  BY <1>2, <1>3, <1>13 DEF Step, History
<1>14. CASE Ask
  BY <1>4, <1>14 DEF Step
<1>15. CASE \E s \in DOMAIN stream : Advance(s) \/ Data(s)
  BY <1>5, <1>7, <1>8, <1>9, <1>10, <1>15 DEF Step, Advance
<1> QED BY <1>11, <1>12, <1>13, <1>14, <1>15 DEF Next

-------------------------------------------------------------------------------
(***************************************************************************)
(* The chat of a message: that of its question, once it was sent.          *)
(***************************************************************************)
Belongs(m, c) ==
  \/ m.of \in OldChats /\ m.of = c
  \/ m.of \in DOMAIN stream /\ stream[m.of].pc # "timer" /\ stream[m.of].chat = c
AllBelong(q, c) == \A k \in DOMAIN q : Belongs(q[k], c)

StoredInv == \A c \in Chats : AllBelong(stored[c], c)
HistoryInv ==
  \A n \in DOMAIN fetch : fetch[n].pc = "read" => AllBelong(fetch[n].history, fetch[n].chat)
OwnInv == StoredInv /\ HistoryInv

\* No message changes its chat.
LEMMA BelongsStays ==
  ASSUME StreamOK, Step, NEW q, NEW c, AllBelong(q, c)
  PROVE  AllBelong(q, c)'
<1>1. ASSUME NEW s \in DOMAIN stream, stream[s].pc # "timer"
      PROVE  s \in DOMAIN stream' /\ stream'[s].pc # "timer" /\ stream'[s].chat = stream[s].chat
  BY <1>1 DEF Step, StepOpen, StepRead, StepArrive, StepFail, StepSend, StepStore, StepEnd,
              StepError, StepIdle, Moved
<1> QED BY <1>1 DEF AllBelong, Belongs

LEMMA OwnInit == Init => OwnInv
<1> SUFFICES ASSUME Init PROVE OwnInv
  OBVIOUS
<1>1. ASSUME NEW c \in Chats PROVE AllBelong(stored[c], c)
  <2>1. CASE c \in OldChats
    BY <2>1 DEF Init, AllBelong, Belongs, Question
  <2>2. CASE c \notin OldChats
    BY <2>2 DEF Init, AllBelong
  <2> QED BY <2>1, <2>2
<1> QED BY <1>1 DEF Init, OwnInv, StoredInv, HistoryInv

LEMMA OwnStep == BInv /\ OwnInv /\ Step => OwnInv'
<1> SUFFICES ASSUME BInv, OwnInv, Step PROVE OwnInv'
  OBVIOUS
<1>0. StreamOK /\ StoredOK
  BY Types DEF BInv
<1>1. StoredInv'
  <2> SUFFICES ASSUME NEW c \in Chats PROVE AllBelong(stored[c], c)'
    BY DEF StoredInv
  <2>1. PICK q \in Seq(Message) : q = stored[c]
    BY <1>0 DEF StoredOK
  <2>2. AllBelong(q, c)'
    BY <1>0, <2>1, BelongsStays DEF OwnInv, StoredInv
  <2>3. CASE stored'[c] = stored[c]
    BY <2>1, <2>2, <2>3 DEF AllBelong
  <2>4. ASSUME NEW s \in DOMAIN stream, NEW m \in Message, m.of = s, NEW pc, pc # "timer",
               StepStore(s, m, pc), c = stream[s].chat
        PROVE  AllBelong(stored[c], c)'
    <3>1. stored'[c] = Append(q, m)
      BY <2>1, <2>4 DEF StepStore
    <3>2. Belongs(m, c)'
      BY <2>4 DEF Belongs, StepStore, Moved
    <3> QED BY <2>1, <2>2, <3>1, <3>2, Appended DEF AllBelong
  <2>5. ASSUME NEW s \in DOMAIN stream
        PROVE  Question(s) \in Message /\ Answer(s) \in Message
               /\ Question(s).of = s /\ Answer(s).of = s
    BY <1>0, StreamsAre, MessagesOf
  <2>6. CASE UNCHANGED stored
    BY <2>3, <2>6
  <2>7. ASSUME NEW s \in DOMAIN stream, NEW m, NEW pc, StepStore(s, m, pc)
        PROVE  c # stream[s].chat => stored'[c] = stored[c]
    BY <2>7 DEF StepStore
  <2>8. ASSUME NEW s \in DOMAIN stream,
               StepStore(s, Question(s), "stored") \/ StepStore(s, Answer(s), "answered")
        PROVE  AllBelong(stored[c], c)'
    <3>1. CASE c # stream[s].chat
      BY <2>3, <2>7, <2>8, <3>1
    <3>2. CASE c = stream[s].chat
      BY <2>4, <2>5, <2>8, <3>2
    <3> QED BY <3>1, <3>2
  <2> QED BY <2>6, <2>8
          DEF Step, StepOpen, StepRead, StepArrive, StepFail, StepSend, StepEnd, StepError, StepIdle
<1>2. HistoryInv'
  <2> SUFFICES ASSUME NEW n \in DOMAIN fetch', fetch'[n].pc = "read"
               PROVE  AllBelong(fetch[n].history, fetch[n].chat)'
    BY DEF HistoryInv
  <2>1. CASE n \in DOMAIN fetch /\ fetch'[n] = fetch[n]
    <3>1. AllBelong(fetch[n].history, fetch[n].chat)
      BY <2>1 DEF OwnInv, HistoryInv
    <3>2. PICK q, c : q = fetch[n].history /\ c = fetch[n].chat
      OBVIOUS
    <3> QED BY <1>0, <2>1, <3>1, <3>2, BelongsStays
  <2>2. CASE n \in DOMAIN fetch /\ StepRead(n)
    <3>1. PICK q, c : c = fetch[n].chat /\ q = stored[c] /\ c \in Chats
      BY <2>2 DEF StepRead
    <3>2. AllBelong(q, c)'
      BY <1>0, <3>1, BelongsStays DEF OwnInv, StoredInv
    <3> QED BY <2>2, <3>1, <3>2 DEF StepRead
  <2> QED BY <2>1, <2>2
          DEF Step, StepOpen, StepRead, StepArrive, StepFail, StepSend, StepStore, StepEnd,
              StepError, StepIdle, Closed
<1> QED BY <1>1, <1>2 DEF OwnInv

(***************************************************************************)
(* Whatever is in flight for a calm view is in flight for the open chat.   *)
(***************************************************************************)
CalmInv ==
  calm =>
    /\ \A n \in DOMAIN fetch : fetch[n].pc # "done" => fetch[n].chat = current
    /\ \A s \in Running : stream[s].chat = current
    /\ view.data # Undefined => AllBelong(view.data, current)

LEMMA CalmStep == BInv /\ OwnInv /\ CalmInv /\ Step => CalmInv'
<1> SUFFICES ASSUME BInv, OwnInv, CalmInv, Step, calm' PROVE CalmInv'
  BY DEF CalmInv
<1>0. StreamOK /\ ViewOK
  BY Types DEF BInv
<1>1. ASSUME NEW c \in Chats, StepOpen(c) PROVE CalmInv'
  <2>1. Quiet
    BY <1>1 DEF StepOpen
  <2> QED BY <1>1, <2>1 DEF StepOpen, Quiet, Fetching, Running, CalmInv
<1>2. ASSUME view'.data # Undefined, calm, UNCHANGED <<view, current>>
      PROVE  AllBelong(view.data, current)'
  <2>1. PICK q, c : q = view.data /\ c = current /\ AllBelong(q, c)
    BY <1>2 DEF CalmInv
  <2> QED BY <1>0, <1>2, <2>1, BelongsStays
<1>3. ASSUME NEW n \in DOMAIN fetch, StepRead(n) PROVE CalmInv'
  BY <1>2, <1>3 DEF StepRead, Running, CalmInv
<1>4. ASSUME NEW n \in DOMAIN fetch, StepArrive(n) PROVE CalmInv'
  <2>1. PICK q, c : q = fetch[n].history /\ c = fetch[n].chat /\ AllBelong(q, c)
    BY <1>4 DEF StepArrive, OwnInv, HistoryInv
  <2>2. c = current /\ calm
    BY <1>4, <2>1 DEF StepArrive, CalmInv
  <2>3. AllBelong(view.data, current)'
    BY <1>0, <1>4, <2>1, <2>2, BelongsStays DEF StepArrive
  <2> QED BY <1>4, <2>2, <2>3 DEF StepArrive, Closed, Running, CalmInv
<1>5. ASSUME NEW n \in DOMAIN fetch, StepFail(n) PROVE CalmInv'
  BY <1>5 DEF StepFail, Closed, Running, CalmInv
<1>6. ASSUME NEW s \in Streams, StepSend(s) PROVE CalmInv'
  BY <1>2, <1>6 DEF StepSend, Running, CalmInv
<1>7. ASSUME NEW s \in DOMAIN stream, NEW m, NEW pc, stream[s].pc \in {"sent", "stored"},
             StepStore(s, m, pc)
      PROVE  CalmInv'
  BY <1>2, <1>7 DEF StepStore, Moved, Running, CalmInv
<1>8. ASSUME NEW s \in DOMAIN stream, StepEnd(s) PROVE CalmInv'
  <2>1. s \in Running /\ stream[s].chat = current /\ calm
    BY <1>8 DEF StepEnd, Running, CalmInv
  <2>2. ASSUME view.data # Undefined PROVE AllBelong(view.data, current)'
    <3>1. PICK q \in Seq(Message) : q = view.data
      BY <1>0, <2>2 DEF ViewOK
    <3>2. PICK c : c = current
      OBVIOUS
    <3>3. AllBelong(q, c)'
      BY <1>0, <2>1, <2>2, <3>1, <3>2, BelongsStays DEF CalmInv
    <3>4. Question(s) \in Message /\ Answer(s) \in Message
          /\ Question(s).of = s /\ Answer(s).of = s
      BY <1>0, StreamsAre, MessagesOf
    <3>5. Belongs(Question(s), c)' /\ Belongs(Answer(s), c)'
      BY <1>8, <2>1, <3>2, <3>4 DEF Belongs, StepEnd, Moved
    <3>6. PICK r \in Seq(Message) : r = Append(q, Question(s))
      BY <3>4, Appended
    <3>7. view'.data = Append(r, Answer(s)) /\ current' = c
      BY <1>8, <2>2, <3>1, <3>2, <3>6 DEF StepEnd
    <3>8. AllBelong(r, c)'
      BY <3>3, <3>4, <3>5, <3>6, Appended DEF AllBelong
    <3>9. PICK t \in Seq(Message) : t = Append(r, Answer(s))
      BY <3>4, Appended
    <3>10. AllBelong(t, c)'
      BY <3>4, <3>5, <3>8, <3>9, Appended DEF AllBelong
    <3> QED BY <3>7, <3>9, <3>10
  <2>3. view'.data # Undefined => view.data # Undefined
    BY <1>8 DEF StepEnd
  <2> QED BY <1>8, <2>1, <2>2, <2>3 DEF StepEnd, Moved, Running, CalmInv
<1>9. ASSUME NEW s \in DOMAIN stream, StepError(s) PROVE CalmInv'
  BY <1>2, <1>9 DEF StepError, Moved, Running, CalmInv
<1>10. CASE StepIdle
  BY <1>2, <1>10 DEF StepIdle, Running, CalmInv
<1> QED BY <1>1, <1>3, <1>4, <1>5, <1>6, <1>7, <1>8, <1>9, <1>10 DEF Step

(***************************************************************************)
(* A chat that was opened with nothing in flight shows its own messages    *)
(* only.                                                                   *)
(***************************************************************************)
THEOREM OwnMessages == Spec => []OwnMessagesIfCalm
<1> DEFINE Inv == BInv /\ OwnInv /\ CalmInv
<1>1. Init => Inv
  <2>1. Init => CalmInv
    BY DEF Init, CalmInv, Running
  <2> QED BY <2>1, BInvInit, OwnInit
<1>2. Inv /\ [Next]_vars => Inv'
  BY BInvStep, Steps, OwnStep, CalmStep
<1>3. Inv => OwnMessagesIfCalm
  <2> SUFFICES ASSUME Inv, calm, view.data # Undefined, NEW k \in DOMAIN view.data
               PROVE  ToChat(view.data[k]) = current
    BY DEF OwnMessagesIfCalm
  <2>1. Belongs(view.data[k], current)
    BY DEF CalmInv, AllBelong
  <2>2. DOMAIN stream \intersect OldChats = {}
    BY Types, StreamsAre DEF BInv
  <2> QED BY <2>1, <2>2 DEF Belongs, ToChat
<1> QED BY <1>1, <1>2, <1>3, PTL DEF Spec

-------------------------------------------------------------------------------
(***************************************************************************)
(* One thing at a time: the server is ahead of the view by what the one    *)
(* running stream has stored.                                              *)
(***************************************************************************)
Expected(s) ==
  CASE stream[s].pc = "sent" -> view.data
    [] stream[s].pc = "stored" -> Append(view.data, Question(s))
    [] OTHER -> Append(Append(view.data, Question(s)), Answer(s))

InStep ==
  ~Fetching /\ view.data # Undefined =>
    /\ Running = {} => stored[current] = view.data
    /\ \A s \in Running : stored[current] = Expected(s)

AloneInv ==
  alone =>
    /\ calm
    /\ Running = {} \/ ~Fetching
    /\ \A s, t \in Running : s = t
    /\ \A m, n \in DOMAIN fetch : fetch[m].pc # "done" /\ fetch[n].pc # "done" => m = n
    /\ \A n \in DOMAIN fetch : fetch[n].pc = "read" => fetch[n].history = stored[current]
    /\ InStep

LEMMA AloneStep == BInv /\ CalmInv /\ AloneInv /\ Step => AloneInv'
<1> SUFFICES ASSUME BInv, CalmInv, AloneInv, Step, alone' PROVE AloneInv'
  BY DEF AloneInv
<1>0. StreamOK /\ ViewOK /\ StoredOK
  BY Types DEF BInv
<1>1. ASSUME NEW c \in Chats, StepOpen(c) PROVE AloneInv'
  <2>1. Quiet /\ calm'
    BY <1>1 DEF StepOpen
  <2>2. Running' = {} /\ Fetching' /\ \A n \in DOMAIN fetch : fetch'[n].pc = "done"
    BY <1>1, <2>1 DEF StepOpen, Quiet, Running, Fetching
  <2> QED BY <1>1, <2>1, <2>2 DEF StepOpen, AloneInv, InStep
<1>2. ASSUME NEW n \in DOMAIN fetch, StepRead(n) PROVE AloneInv'
  <2>1. Running' = Running /\ Fetching /\ Fetching' /\ alone
    BY <1>2 DEF StepRead, Running, Fetching
  <2>2. fetch[n].chat = current
    BY <1>2, <2>1 DEF StepRead, CalmInv, AloneInv
  <2> QED BY <1>2, <2>1, <2>2 DEF StepRead, AloneInv, InStep
<1>3. ASSUME NEW n \in DOMAIN fetch, StepArrive(n) \/ StepFail(n) PROVE AloneInv'
  <2>1. alone /\ Fetching /\ Running = {} /\ Running' = {}
    BY <1>3 DEF StepArrive, StepFail, AloneInv, Running, Fetching
  <2>2. ~Fetching' /\ \A k \in DOMAIN fetch' : fetch'[k].pc = "done"
    BY <1>3, <2>1 DEF StepArrive, StepFail, Closed, AloneInv, Fetching
  <2>3. InStep'
    BY <1>3, <2>1, <2>2 DEF StepArrive, StepFail, AloneInv, InStep
  <2> QED BY <1>3, <2>1, <2>2, <2>3 DEF StepArrive, StepFail, AloneInv
<1>4. ASSUME NEW s \in Streams, StepSend(s) PROVE AloneInv'
  <2>1. alone /\ Quiet
    BY <1>4 DEF StepSend
  <2>2. Running' = {s} /\ ~Fetching'
    BY <1>4, <2>1 DEF StepSend, Quiet, Running, Fetching
  <2>3. InStep'
    <3>1. view.data # Undefined => stored[current] = view.data
      BY <2>1 DEF Quiet, AloneInv, InStep
    <3> QED BY <1>4, <2>2, <3>1 DEF StepSend, InStep, Expected
  <2> QED BY <1>4, <2>1, <2>2, <2>3 DEF StepSend, AloneInv, Quiet, Fetching
<1>5. ASSUME NEW s \in DOMAIN stream, NEW m, NEW pc,
             \/ stream[s].pc = "sent" /\ m = Question(s) /\ pc = "stored"
             \/ stream[s].pc = "stored" /\ m = Answer(s) /\ pc = "answered",
             StepStore(s, m, pc)
      PROVE  AloneInv'
  <2>1. alone /\ s \in Running /\ Running = {s} /\ ~Fetching
    BY <1>5 DEF StepStore, Running, AloneInv
  <2>2. stream[s].chat = current /\ current \in Chats
    BY <2>1 DEF CalmInv, AloneInv, BInv, StreamInv
  <2>3. Running' = {s} /\ ~Fetching'
    BY <1>5, <2>1 DEF StepStore, Moved, Running, Fetching
  <2>4. stored'[current] = Append(stored[current], m)
    BY <1>5, <2>2 DEF StepStore
  <2>5. InStep'
    <3>1. view.data # Undefined => stored[current] = Expected(s)
      BY <2>1 DEF AloneInv, InStep
    <3>2. stream'[s].pc = pc
      BY <1>5 DEF StepStore, Moved
    <3>3. view.data # Undefined => stored'[current] = Expected(s)'
      BY <1>5, <2>4, <3>1, <3>2 DEF StepStore, Expected
    <3> QED BY <1>5, <2>3, <3>3 DEF StepStore, InStep
  <2> QED BY <1>5, <2>1, <2>3, <2>5 DEF StepStore, AloneInv, Fetching
<1>6. ASSUME NEW s \in DOMAIN stream, StepEnd(s) PROVE AloneInv'
  <2>1. alone /\ stream[s].pc = "answered" /\ Running = {s} /\ ~Fetching
    BY <1>6 DEF StepEnd, Running, AloneInv
  <2>2. Running' = {} /\ ~Fetching'
    BY <1>6, <2>1 DEF StepEnd, Moved, Running, Fetching
  <2>3. view.data # Undefined => stored[current] = Append(Append(view.data, Question(s)), Answer(s))
    BY <2>1 DEF AloneInv, InStep, Expected
  <2>4. InStep'
    BY <1>6, <2>2, <2>3 DEF StepEnd, InStep
  <2> QED BY <1>6, <2>1, <2>2, <2>4 DEF StepEnd, AloneInv, Fetching
<1>7. ASSUME NEW s \in DOMAIN stream, StepError(s) PROVE AloneInv'
  BY <1>7 DEF StepError
<1>8. CASE StepIdle
  BY <1>8 DEF StepIdle, AloneInv, InStep, Expected, Running, Fetching
<1> QED BY <1>1, <1>2, <1>3, <1>4, <1>5, <1>6, <1>7, <1>8 DEF Step

(***************************************************************************)
(* The client shows what the server stores, if the chat was opened with    *)
(* nothing in flight, and questions were asked one at a time.              *)
(***************************************************************************)
THEOREM ClientAgrees == Spec => []ViewIsHistory
<1> DEFINE Inv == BInv /\ OwnInv /\ CalmInv /\ AloneInv
<1>1. Init => Inv
  <2>1. Init => CalmInv
    BY DEF Init, CalmInv, Running
  <2>2. Init => AloneInv
    BY DEF Init, AloneInv, InStep, Running, Fetching
  <2> QED BY <2>1, <2>2, BInvInit, OwnInit
<1>2. Inv /\ [Next]_vars => Inv'
  BY BInvStep, Steps, OwnStep, CalmStep, AloneStep
<1>3. Inv => ViewIsHistory
  BY DEF AloneInv, InStep, Quiet, ViewIsHistory
<1> QED BY <1>1, <1>2, <1>3, PTL DEF Spec

-------------------------------------------------------------------------------
(***************************************************************************)
(* How often a message occurs.                                             *)
(***************************************************************************)
Has(q, m) == \E k \in DOMAIN q : q[k] = m
NoneOf(q, s) == \A k \in DOMAIN q : q[k].of # s
Once(q, s) == \A j, k \in DOMAIN q : q[j] = q[k] /\ q[k].of = s => j = k

LEMMA AppendOther ==
  ASSUME NEW q \in Seq(Message), NEW m \in Message, NEW s, m.of # s
  PROVE  /\ NoneOf(q, s) => NoneOf(Append(q, m), s)
         /\ Once(q, s) => Once(Append(q, m), s)
         /\ \A x : x.of = s => (Has(Append(q, m), x) <=> Has(q, x))
BY Appended DEF NoneOf, Once, Has

LEMMA AppendFirst ==
  ASSUME NEW q \in Seq(Message), NEW m \in Message, NEW s, m.of = s, ~Has(q, m)
  PROVE  /\ Once(q, s) => Once(Append(q, m), s)
         /\ Has(Append(q, m), m)
         /\ \A x : x # m => (Has(Append(q, m), x) <=> Has(q, x))
BY Appended DEF Once, Has

\* Nothing is stored or on its way of a question that was not sent.
LEMMA NotYet ==
  ASSUME BInv, OwnInv, NEW s \in Streams, s \in DOMAIN stream => stream[s].pc = "timer"
  PROVE  /\ \A c \in Chats : NoneOf(stored[c], s)
         /\ \A n \in DOMAIN fetch : fetch[n].pc = "read" => NoneOf(fetch[n].history, s)
<1>1. ASSUME NEW q, NEW c, AllBelong(q, c) PROVE NoneOf(q, s)
  BY <1>1 DEF AllBelong, Belongs, NoneOf
<1> QED BY <1>1 DEF OwnInv, StoredInv, HistoryInv

(***************************************************************************)
(* The server stores the messages of a question once, and in their order.  *)
(***************************************************************************)
OnceFor(s) ==
  /\ stream[s].pc \in {"timer", "sent"} => \A c \in Chats : NoneOf(stored[c], s)
  /\ stream[s].pc = "stored" => \A c \in Chats : ~Has(stored[c], Answer(s))
  /\ stream[s].pc \in {"stored", "answered", "ended"} => Has(stored[stream[s].chat], Question(s))
  /\ \A c \in Chats : Once(stored[c], s)

StoredOnce == \A s \in DOMAIN stream : OnceFor(s)

LEMMA OnceStep == BInv /\ OwnInv /\ StoredOnce /\ Step => StoredOnce'
<1> SUFFICES ASSUME BInv, OwnInv, StoredOnce, Step, NEW s \in DOMAIN stream' PROVE OnceFor(s)'
  BY DEF StoredOnce
<1>0. StreamOK /\ StoredOK
  BY Types DEF BInv
<1>1. CASE s \in DOMAIN stream /\ stream'[s] = stream[s] /\ UNCHANGED stored
  BY <1>1 DEF StoredOnce, OnceFor
<1>2. CASE /\ s \in Streams /\ (s \in DOMAIN stream => stream[s].pc = "timer")
           /\ stream'[s].pc \in {"timer", "sent"} /\ UNCHANGED stored
  <2>1. \A c \in Chats : NoneOf(stored[c], s)
    BY <1>2, NotYet
  <2> QED BY <1>2, <2>1 DEF OnceFor, NoneOf, Once
<1>3. CASE s \in DOMAIN stream /\ (StepEnd(s) \/ StepError(s))
  BY <1>3 DEF StepEnd, StepError, Moved, StoredOnce, OnceFor
<1>4. ASSUME NEW t \in DOMAIN stream, NEW m, NEW pc,
             \/ stream[t].pc = "sent" /\ m = Question(t) /\ pc = "stored"
             \/ stream[t].pc = "stored" /\ m = Answer(t) /\ pc = "answered",
             StepStore(t, m, pc)
      PROVE  OnceFor(s)'
  <2>1. /\ Question(t) \in Message /\ Question(t).of = t
        /\ Answer(t) \in Message /\ Answer(t).of = t /\ Question(t) # Answer(t)
    BY <1>0, StreamsAre, MessagesOf DEF Question, Answer
  <2>2. m \in Message /\ m.of = t /\ s \in DOMAIN stream /\ OnceFor(s)
    BY <1>4, <2>1 DEF StepStore, Moved, StoredOnce
  <2>3. /\ \A c \in Chats : stored[c] \in Seq(Message)
        /\ \A c \in Chats : stored'[c] = IF c = stream[t].chat THEN Append(stored[c], m) ELSE stored[c]
        /\ stream[t].chat \in Chats
    BY <1>0, <1>4 DEF StepStore, StoredOK, BInv, StreamInv
  <2>4. CASE s # t
    <3>1. stream'[s] = stream[s] /\ (stream[s].pc # "timer" => stream[s].chat \in Chats)
      BY <1>4, <2>2, <2>4 DEF StepStore, Moved, BInv, StreamInv
    <3>2. ASSUME NEW c \in Chats
          PROVE  /\ NoneOf(stored[c], s) => NoneOf(stored'[c], s)
                 /\ Once(stored[c], s) => Once(stored'[c], s)
                 /\ \A x : x.of = s => (Has(stored'[c], x) <=> Has(stored[c], x))
      <4>1. CASE c = stream[t].chat
        BY <2>2, <2>3, <2>4, <4>1, AppendOther
      <4>2. CASE c # stream[t].chat
        BY <2>3, <4>2
      <4> QED BY <4>1, <4>2
    <3>3. Question(s).of = s /\ Answer(s).of = s
      BY DEF Question, Answer
    <3> QED BY <2>2, <3>1, <3>2, <3>3 DEF OnceFor
  <2>5. CASE s = t
    <3>1. \A c \in Chats : ~Has(stored[c], m)
      BY <1>4, <2>2, <2>5 DEF OnceFor, NoneOf, Has
    <3>2. ASSUME NEW c \in Chats
          PROVE  Once(stored[c], s) => Once(stored'[c], s)
      BY <2>2, <2>3, <2>5, <3>1, AppendFirst
    <3>3. stream'[s].pc = pc /\ stream'[s].chat = stream[s].chat
      BY <1>4, <2>5 DEF StepStore, Moved
    <3>4. CASE m = Question(t) /\ pc = "stored" /\ stream[t].pc = "sent"
      <4>1. Has(stored'[stream[s].chat], Question(s))
        BY <2>2, <2>3, <2>5, <3>1, <3>4, AppendFirst
      <4>2. ASSUME NEW c \in Chats PROVE ~Has(stored'[c], Answer(s))
        <5>1. ~Has(stored[c], Answer(s))
          BY <2>1, <2>2, <2>5, <3>4 DEF OnceFor, NoneOf, Has
        <5> QED BY <2>1, <2>2, <2>3, <2>5, <3>1, <3>4, <5>1, AppendFirst
      <4> QED BY <2>2, <3>2, <3>3, <3>4, <4>1, <4>2 DEF OnceFor
    <3>5. CASE m = Answer(t) /\ pc = "answered" /\ stream[t].pc = "stored"
      <4>1. Has(stored'[stream[s].chat], Question(s))
        BY <2>1, <2>2, <2>3, <2>5, <3>1, <3>5, AppendFirst DEF OnceFor
      <4> QED BY <2>2, <3>2, <3>3, <3>5, <4>1 DEF OnceFor
    <3> QED BY <1>4, <3>4, <3>5
  <2> QED BY <2>4, <2>5
<1>5. CASE \E c \in Chats : StepOpen(c)
  <2>1. s \in Streams
    BY <1>5 DEF StepOpen
  <2> QED BY <1>1, <1>2, <1>5, <2>1 DEF StepOpen
<1>6. CASE \E n \in DOMAIN fetch : StepRead(n) \/ StepArrive(n) \/ StepFail(n)
  BY <1>1, <1>6 DEF StepRead, StepArrive, StepFail
<1>7. ASSUME NEW t \in Streams, StepSend(t) PROVE OnceFor(s)'
  <2>1. CASE s = t
    BY <1>2, <1>7, <2>1 DEF StepSend
  <2>2. CASE s # t
    BY <1>1, <1>7, <2>2 DEF StepSend
  <2> QED BY <2>1, <2>2
<1>8. ASSUME NEW t \in DOMAIN stream, StepEnd(t) \/ StepError(t) PROVE OnceFor(s)'
  <2>1. CASE s = t
    BY <1>3, <1>8, <2>1
  <2>2. CASE s # t
    BY <1>1, <1>8, <2>2 DEF StepEnd, StepError, Moved
  <2> QED BY <2>1, <2>2
<1>9. CASE StepIdle
  BY <1>1, <1>9 DEF StepIdle
<1> QED BY <1>4, <1>5, <1>6, <1>7, <1>8, <1>9 DEF Step

(***************************************************************************)
(* The view shows no question that was not asked.                          *)
(***************************************************************************)
Known(q) == \A k \in DOMAIN q : q[k].of \in OldChats \union DOMAIN stream
ViewKnown == view.data # Undefined => Known(view.data)

LEMMA KnownStep == BInv /\ OwnInv /\ ViewKnown /\ Step => ViewKnown'
<1> SUFFICES ASSUME BInv, OwnInv, ViewKnown, Step, view'.data # Undefined PROVE Known(view.data)'
  BY DEF ViewKnown
<1>0. StreamOK /\ ViewOK
  BY Types DEF BInv
<1>1. DOMAIN stream \subseteq DOMAIN stream'
  BY DEF Step, StepOpen, StepRead, StepArrive, StepFail, StepSend, StepStore, StepEnd,
         StepError, StepIdle, Moved
<1>2. CASE UNCHANGED view
  BY <1>1, <1>2 DEF ViewKnown, Known
<1>3. ASSUME NEW n \in DOMAIN fetch, StepArrive(n) PROVE Known(view.data)'
  <2>1. AllBelong(fetch[n].history, fetch[n].chat) /\ view'.data = fetch[n].history
    BY <1>3 DEF StepArrive, OwnInv, HistoryInv
  <2> QED BY <1>1, <2>1 DEF AllBelong, Belongs, Known
<1>4. ASSUME NEW s \in DOMAIN stream, StepEnd(s) PROVE Known(view.data)'
  <2>1. PICK q \in Seq(Message) : q = view.data /\ view.data # Undefined
    BY <1>0, <1>4 DEF StepEnd, ViewOK
  <2>2. /\ Question(s) \in Message /\ Answer(s) \in Message
        /\ Question(s).of = s /\ Answer(s).of = s
    BY <1>0, StreamsAre, MessagesOf
  <2>3. PICK r \in Seq(Message) : r = Append(q, Question(s))
    BY <2>2, Appended
  <2>4. view'.data = Append(r, Answer(s))
    BY <1>4, <2>1, <2>3 DEF StepEnd
  <2>5. Known(r)'
    BY <1>1, <2>1, <2>2, <2>3, Appended DEF ViewKnown, Known
  <2>6. PICK t \in Seq(Message) : t = Append(r, Answer(s))
    BY <2>2, Appended
  <2>7. Known(t)'
    BY <1>1, <2>2, <2>5, <2>6, Appended DEF Known
  <2> QED BY <2>4, <2>6, <2>7
<1> QED BY <1>2, <1>3, <1>4
        DEF Step, StepOpen, StepRead, StepFail, StepSend, StepStore, StepError, StepIdle

(***************************************************************************)
(* A question that met no GetHistory: the view and the histories hold      *)
(* nothing of it until it has ended, and then all that is stored of it.    *)
(***************************************************************************)
Complete(q, s) ==
  /\ Has(q, Question(s)) /\ Once(q, s)
  /\ Has(stored[stream[s].chat], Answer(s)) => Has(q, Answer(s))

RacedFor(s) ==
  /\ s \in Running => ~Fetching
  /\ (stream[s].pc = "timer" \/ s \in Running) /\ view.data # Undefined => NoneOf(view.data, s)
  /\ stream[s].pc = "ended" =>
       /\ \A n \in DOMAIN fetch : fetch[n].pc = "read" /\ fetch[n].chat = stream[s].chat =>
            Complete(fetch[n].history, s)
       /\ calm /\ stream[s].chat = current /\ view.data # Undefined => Complete(view.data, s)

RacedInv == \A s \in DOMAIN stream \ raced : RacedFor(s)

\* A step that leaves s, the view, the calls and the answers to s alone.
LEMMA RacedSame ==
  ASSUME RacedInv, NEW s \in DOMAIN stream \ raced, stream'[s] = stream[s],
         UNCHANGED <<current, view, fetch, calm>>,
         stream[s].pc = "ended" =>
           (Has(stored'[stream[s].chat], Answer(s)) <=> Has(stored[stream[s].chat], Answer(s))),
         s \in DOMAIN stream'
  PROVE  RacedFor(s)'
<1>1. RacedFor(s) /\ (s \in Running' <=> s \in Running) /\ (Fetching' <=> Fetching)
  BY DEF RacedInv, Running, Fetching
<1>2. ASSUME NEW q, stream[s].pc = "ended", Complete(q, s) PROVE Complete(q, s)'
  BY <1>2 DEF Complete
<1> QED BY <1>1, <1>2 DEF RacedFor

\* The two messages of an answer are added to a view that held none of them.
LEMMA CompleteWhenAdded ==
  ASSUME NEW q \in Seq(Message), NEW s \in Streams, NoneOf(q, s)
  PROVE  LET r == Append(Append(q, Question(s)), Answer(s))
         IN  Has(r, Question(s)) /\ Has(r, Answer(s)) /\ Once(r, s)
<1>1. /\ Question(s) \in Message /\ Answer(s) \in Message /\ Question(s) # Answer(s)
      /\ Question(s).of = s /\ Answer(s).of = s
  BY MessagesOf DEF Question, Answer
<1>2. Once(q, s) /\ ~Has(q, Question(s)) /\ ~Has(q, Answer(s))
  BY <1>1 DEF NoneOf, Once, Has
<1>3. PICK r \in Seq(Message) : r = Append(q, Question(s))
  BY <1>1, Appended
<1>4. Once(r, s) /\ Has(r, Question(s)) /\ ~Has(r, Answer(s))
  BY <1>1, <1>2, <1>3, AppendFirst
<1>5. PICK t \in Seq(Message) : t = Append(r, Answer(s))
  BY <1>1, Appended
<1>6. Once(t, s) /\ Has(t, Question(s)) /\ Has(t, Answer(s))
  BY <1>1, <1>4, <1>5, AppendFirst
<1> QED BY <1>3, <1>5, <1>6

\* They change nothing for the messages of another question.
LEMMA OthersWhenAdded ==
  ASSUME NEW q \in Seq(Message), NEW s \in Streams, NEW t, s # t
  PROVE  LET r == Append(Append(q, Question(s)), Answer(s))
         IN  /\ NoneOf(q, t) => NoneOf(r, t)
             /\ Once(q, t) => Once(r, t)
             /\ \A x : x.of = t => (Has(r, x) <=> Has(q, x))
<1>1. /\ Question(s) \in Message /\ Answer(s) \in Message
      /\ Question(s).of = s /\ Answer(s).of = s
  BY MessagesOf
<1>2. PICK r \in Seq(Message) : r = Append(q, Question(s))
  BY <1>1, Appended
<1>3. /\ NoneOf(q, t) => NoneOf(r, t)
      /\ Once(q, t) => Once(r, t)
      /\ \A x : x.of = t => (Has(r, x) <=> Has(q, x))
  BY <1>1, <1>2, AppendOther
<1>4. PICK u \in Seq(Message) : u = Append(r, Answer(s))
  BY <1>1, Appended
<1>5. /\ NoneOf(r, t) => NoneOf(u, t)
      /\ Once(r, t) => Once(u, t)
      /\ \A x : x.of = t => (Has(u, x) <=> Has(r, x))
  BY <1>1, <1>4, AppendOther
<1> QED BY <1>2, <1>3, <1>4, <1>5

LEMMA RacedStep ==
  BInv /\ OwnInv /\ CalmInv /\ StoredOnce /\ ViewKnown /\ RacedInv /\ Step => RacedInv'
<1> SUFFICES ASSUME BInv, OwnInv, CalmInv, StoredOnce, ViewKnown, RacedInv, Step,
                    NEW s \in DOMAIN stream', s \notin raced'
             PROVE  RacedFor(s)'
  BY DEF RacedInv
<1>0. StreamOK /\ StoredOK /\ ViewOK /\ DOMAIN stream \subseteq Streams
  BY Types, StreamsAre DEF BInv
<1>1. ASSUME NEW c \in Chats, StepOpen(c) PROVE RacedFor(s)'
  <2>1. CASE s \in DOMAIN stream
    <3>1. s \notin Running /\ s \notin raced /\ stream'[s] = stream[s] /\ RacedFor(s)
      BY <1>1, <2>1 DEF StepOpen, RacedInv
    <3> QED BY <1>1, <2>1, <3>1 DEF StepOpen, RacedFor, Running, Complete
  <2>2. CASE s \notin DOMAIN stream
    BY <1>1, <2>2 DEF StepOpen, RacedFor, Running
  <2> QED BY <2>1, <2>2
<1>2. ASSUME NEW n \in DOMAIN fetch, StepRead(n) \/ StepArrive(n) \/ StepFail(n)
      PROVE  RacedFor(s)'
  <2>1. s \in DOMAIN stream /\ s \notin raced /\ stream' = stream /\ RacedFor(s)
        /\ UNCHANGED <<stored, current, calm>>
    BY <1>2 DEF StepRead, StepArrive, StepFail, RacedInv
  <2>2. Fetching /\ s \notin Running /\ s \notin Running'
    BY <1>2, <2>1 DEF StepRead, StepArrive, StepFail, RacedFor, Fetching, Running
  <2>3. \A q : Complete(q, s)' <=> Complete(q, s)
    BY <2>1 DEF Complete
  <2>4. ASSUME StepRead(n) PROVE RacedFor(s)'
    <3>1. ASSUME stream[s].pc = "ended", fetch[n].chat = stream[s].chat
          PROVE  Complete(stored[fetch[n].chat], s)
      BY <2>1, <2>4, <3>1 DEF StepRead, StoredOnce, OnceFor, Complete
    <3>2. ASSUME stream[s].pc = "ended", NEW k \in DOMAIN fetch', fetch'[k].pc = "read",
                 fetch'[k].chat = stream[s].chat
          PROVE  Complete(fetch'[k].history, s)
      <4>1. CASE k = n
        BY <2>4, <3>1, <3>2, <4>1 DEF StepRead
      <4>2. CASE k # n
        BY <2>1, <2>4, <3>2, <4>2 DEF StepRead, RacedFor
      <4> QED BY <4>1, <4>2
    <3> QED BY <2>1, <2>2, <2>3, <2>4, <3>2 DEF StepRead, RacedFor
  <2>5. ASSUME StepArrive(n) PROVE RacedFor(s)'
    <3>1. stream[s].pc = "timer" => NoneOf(fetch[n].history, s)
      BY <1>0, <2>1, <2>5, NotYet DEF StepArrive
    <3>2. calm /\ stream[s].chat = current => fetch[n].chat = stream[s].chat
      BY <2>5 DEF StepArrive, CalmInv
    <3>3. calm /\ stream[s].chat = current /\ stream[s].pc = "ended" => Complete(fetch[n].history, s)
      BY <2>1, <2>5, <3>2 DEF StepArrive, RacedFor
    <3>4. ASSUME stream[s].pc = "ended", NEW k \in DOMAIN fetch', fetch'[k].pc = "read",
                 fetch'[k].chat = stream[s].chat
          PROVE  Complete(fetch'[k].history, s)
      BY <2>1, <2>5, <3>4 DEF StepArrive, Closed, RacedFor
    <3> QED BY <2>1, <2>2, <2>3, <2>5, <3>1, <3>3, <3>4 DEF StepArrive, RacedFor
  <2>6. ASSUME StepFail(n) PROVE RacedFor(s)'
    BY <2>1, <2>2, <2>3, <2>6 DEF StepFail, Closed, RacedFor
  <2> QED BY <1>2, <2>4, <2>5, <2>6
<1>3. ASSUME NEW t \in Streams, StepSend(t) PROVE RacedFor(s)'
  <2>1. CASE s = t
    <3>1. ~Fetching /\ s \notin raced /\ ~Fetching'
      BY <1>3, <2>1 DEF StepSend, Fetching
    <3>2. view.data # Undefined => NoneOf(view.data, s)
      <4>1. CASE s \in DOMAIN stream
        BY <1>3, <2>1, <3>1, <4>1 DEF StepSend, RacedInv, RacedFor
      <4>2. CASE s \notin DOMAIN stream
        BY <2>1, <4>2 DEF ViewKnown, Known, NoneOf
      <4> QED BY <4>1, <4>2
    <3> QED BY <1>3, <2>1, <3>1, <3>2 DEF StepSend, RacedFor
  <2>2. CASE s # t
    <3>1. s \in DOMAIN stream \ raced /\ stream'[s] = stream[s]
      BY <1>3, <2>2 DEF StepSend
    <3> QED BY <1>3, <3>1, RacedSame DEF StepSend
  <2> QED BY <2>1, <2>2
<1>4. ASSUME NEW t \in DOMAIN stream, NEW m, NEW pc,
             \/ stream[t].pc = "sent" /\ m = Question(t) /\ pc = "stored"
             \/ stream[t].pc = "stored" /\ m = Answer(t) /\ pc = "answered",
             StepStore(t, m, pc)
      PROVE  RacedFor(s)'
  <2>1. s \in DOMAIN stream \ raced
    BY <1>4 DEF StepStore, Moved
  <2>2. CASE s = t
    BY <1>4, <2>1, <2>2 DEF StepStore, Moved, RacedInv, RacedFor, Running, Fetching
  <2>3. CASE s # t
    <3>1. m \in Message /\ m.of = t /\ Answer(s).of = s
      BY <1>0, <1>4, MessagesOf DEF Answer
    <3>2. stream'[s] = stream[s] /\ (stream[s].pc = "ended" => stream[s].chat \in Chats)
      BY <1>4, <2>1, <2>3 DEF StepStore, Moved, BInv, StreamInv
    <3>3. ASSUME NEW c \in Chats PROVE Has(stored'[c], Answer(s)) <=> Has(stored[c], Answer(s))
      <4>1. stored[c] \in Seq(Message)
        BY <1>0 DEF StoredOK
      <4>2. Has(Append(stored[c], m), Answer(s)) <=> Has(stored[c], Answer(s))
        BY <2>3, <3>1, <4>1, AppendOther
      <4> QED BY <1>4, <4>2 DEF StepStore
    <3> QED BY <1>4, <2>1, <3>2, <3>3, RacedSame DEF StepStore
  <2> QED BY <2>2, <2>3
<1>5. ASSUME NEW t \in DOMAIN stream, StepEnd(t) PROVE RacedFor(s)'
  <2>1. s \in DOMAIN stream \ raced /\ RacedFor(s) /\ t \in Streams
    BY <1>0, <1>5 DEF StepEnd, Moved, RacedInv
  <2>2. UNCHANGED <<current, fetch, stored, calm>> /\ (Fetching' <=> Fetching)
    BY <1>5 DEF StepEnd, Fetching
  <2>3. ASSUME view'.data # Undefined
        PROVE  /\ view.data # Undefined /\ view.data \in Seq(Message)
               /\ view'.data = Append(Append(view.data, Question(t)), Answer(t))
    BY <1>0, <1>5, <2>3 DEF StepEnd, ViewOK
  <2>4. CASE s = t
    <3>1. s \in Running /\ ~Fetching'
      BY <1>5, <2>1, <2>2, <2>4 DEF StepEnd, Running, RacedFor
    <3>2. stream'[s].pc = "ended" /\ s \notin Running'
      BY <1>5, <2>4 DEF StepEnd, Moved, Running
    <3>3. ASSUME view'.data # Undefined PROVE Complete(view.data, s)'
      <4>1. NoneOf(view.data, s)
        BY <2>1, <2>3, <3>1, <3>3 DEF RacedFor
      <4> QED BY <2>1, <2>3, <2>4, <3>3, <4>1, CompleteWhenAdded DEF Complete
    <3> QED BY <3>1, <3>2, <3>3 DEF RacedFor, Fetching
  <2>5. CASE s # t
    <3>1. stream'[s] = stream[s] /\ (s \in Running' <=> s \in Running)
      BY <1>5, <2>1, <2>5 DEF StepEnd, Moved, Running
    <3>2. ASSUME view'.data # Undefined
          PROVE  /\ NoneOf(view.data, s) => NoneOf(view'.data, s)
                 /\ Complete(view.data, s) => Complete(view.data, s)'
      <4>1. /\ NoneOf(view.data, s) => NoneOf(view'.data, s)
            /\ Once(view.data, s) => Once(view'.data, s)
            /\ \A x : x.of = s => (Has(view'.data, x) <=> Has(view.data, x))
        <5>1. PICK q \in Seq(Message) : q = view.data
          BY <2>3, <3>2
        <5>2. PICK r : r = Append(Append(q, Question(t)), Answer(t))
          OBVIOUS
        <5>3. /\ NoneOf(q, s) => NoneOf(r, s)
              /\ Once(q, s) => Once(r, s)
              /\ \A x : x.of = s => (Has(r, x) <=> Has(q, x))
          BY <2>1, <2>5, <5>2, OthersWhenAdded
        <5>4. view'.data = r
          BY <2>3, <3>2, <5>1, <5>2
        <5> QED BY <5>1, <5>3, <5>4
      <4>2. Question(s).of = s /\ Answer(s).of = s
        BY DEF Question, Answer
      <4> QED BY <2>2, <3>1, <4>1, <4>2 DEF Complete
    <3>3. \A q : Complete(q, s) => Complete(q, s)'
      BY <2>2, <3>1 DEF Complete
    <3> QED BY <2>1, <2>2, <2>3, <3>1, <3>2, <3>3 DEF RacedFor
  <2> QED BY <2>4, <2>5
<1>6. ASSUME NEW t \in DOMAIN stream, StepError(t) PROVE RacedFor(s)'
  <2>1. CASE s = t
    BY <1>6, <2>1 DEF StepError, Moved, RacedFor, Running
  <2>2. CASE s # t
    BY <1>6, <2>2, RacedSame DEF StepError, Moved
  <2> QED BY <2>1, <2>2
<1>7. CASE StepIdle
  BY <1>7, RacedSame DEF StepIdle
<1> QED BY <1>1, <1>2, <1>3, <1>4, <1>5, <1>6, <1>7 DEF Step

(***************************************************************************)
(* Questions that overlapped only each other are shown, once each.         *)
(***************************************************************************)
THEOREM NeitherLostNorDoubled == Spec => []OnceUnlessRaced
<1> DEFINE Inv == BInv /\ OwnInv /\ CalmInv /\ StoredOnce /\ ViewKnown /\ RacedInv
<1>1. Init => Inv
  <2>1. Init => CalmInv /\ StoredOnce /\ ViewKnown /\ RacedInv
    BY DEF Init, CalmInv, StoredOnce, ViewKnown, RacedInv, Running
  <2> QED BY <2>1, BInvInit, OwnInit
<1>2. Inv /\ [Next]_vars => Inv'
  BY BInvStep, Steps, OwnStep, CalmStep, OnceStep, KnownStep, RacedStep
<1>3. Inv => OnceUnlessRaced
  <2> SUFFICES ASSUME Inv, calm, view.data # Undefined, NEW s \in DOMAIN stream \ raced,
                      stream[s].pc = "ended", stream[s].chat = current
               PROVE  /\ Shown(Question(s))
                      /\ Shown(Answer(s)) \/ ~Contains(stored[current], Answer(s))
                      /\ \A j, k \in DOMAIN view.data :
                           view.data[j] = view.data[k] /\ view.data[k].of = s => j = k
    BY DEF OnceUnlessRaced
  <2>1. Complete(view.data, s)
    BY DEF RacedInv, RacedFor
  <2>2. stored[current] \in Seq(Message)
    BY Types DEF BInv, StreamInv, StoredOK
  <2>3. Contains(stored[current], Answer(s)) => Has(stored[current], Answer(s))
    BY <2>2 DEF Contains, Has
  <2> QED BY <2>1, <2>3 DEF Complete, Has, Once, Shown
<1> QED BY <1>1, <1>2, <1>3, PTL DEF Spec

===============================================================================
