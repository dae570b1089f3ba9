------------------------------- MODULE ChatStore -------------------------------
(***************************************************************************)
(* The chat view of the web client (frontend/src/store/chat.ts): the open  *)
(* chat ($currentChatId), the messages shown ($currentChatMessages), the   *)
(* question and the answer in progress ($currentChatMessage and            *)
(* $streamingMessage), the GetHistory calls and Chat streams that fill     *)
(* them, and the pages that call in (home.tsx, project.tsx, chat.tsx,      *)
(* app-sidebar.tsx).                                                       *)
(*                                                                         *)
(* JavaScript runs one callback at a time: each is a step.  The answers of *)
(* the server come in any order.  The server stores a question, answers,   *)
(* and stores the answer, as in ChatConversation; here a chat is just the  *)
(* sequence of its messages.  Opening a chat that is open does nothing: an *)
(* atom calls its listeners only for a new value.  Names, the chat list    *)
(* and the list of branches are left out.                                  *)
(***************************************************************************)
EXTENDS Naturals, Sequences, SequencesExt

CONSTANTS Chats,     \* the chats, those created later included
          OldChats,  \* the chats that exist when the client is loaded
          NoChat,    \* $currentChatId before the first choice
          NoStream,  \* no question or answer in progress
          Undefined, \* data: undefined
          MaxOpened, \* how often a chat is opened (bound)
          MaxAsked   \* how many questions are asked (bound)

\* The questions, each with its Chat stream, in the order they are typed.
Streams == 1..MaxAsked
Message == [of : Streams \union OldChats, role : {"user", "assistant"}]

ASSUME ChatStoreAssumption ==
  /\ OldChats \subseteq Chats /\ NoChat \notin Chats
  /\ Streams \intersect Chats = {} /\ NoStream \notin Streams
  /\ Undefined \notin Seq(Message)
  /\ MaxOpened \in Nat /\ MaxAsked \in Nat

VARIABLES
  current,  \* $currentChatId
  view,     \* $currentChatMessages; an error is data undefined, not loading
  bubble,   \* $currentChatMessage and $streamingMessage: whose they are
  fetch,    \* the GetHistory calls, one each time a chat is opened
  stream,   \* the questions and their streams
  stored,   \* the messages of each chat on the server
  created,  \* the chats on the server
  calm,     \* nothing was in flight when the open chat was opened
  alone,    \* nor when a question was asked in it, and each got a stored answer
  raced,    \* the questions that were in flight together with a GetHistory
  left      \* the questions whose new chat was left before they were sent

vars == <<current, view, bubble, fetch, stream, stored, created,
          calm, alone, raced, left>>
ghosts == <<calm, alone, raced, left>>

\* The messages of question s, and the message an old chat begins with.
Question(s) == [of |-> s, role |-> "user"]
Answer(s) == [of |-> s, role |-> "assistant"]

ToChat(m) == IF m.of \in OldChats THEN m.of ELSE stream[m.of].chat

TypeOK ==
  /\ current \in Chats \union {NoChat}
  /\ view \in [data : Seq(Message) \union {Undefined}, loading : BOOLEAN]
  /\ view.loading => view.data = Undefined
  /\ bubble \in [question : Streams \union {NoStream},
                 answer : Streams \union {NoStream}]
  /\ fetch \in Seq([pc : {"asked", "read", "done"}, chat : Chats \union {NoChat},
                     history : Seq(Message)])
  /\ Len(fetch) <= MaxOpened
  /\ stream \in Seq([pc : {"timer", "sent", "stored", "answered", "ended", "failed"},
                      chat : Chats \union {NoChat}, meant : Chats])
  /\ Len(stream) <= MaxAsked
  /\ stored \in [Chats -> Seq(Message)]
  /\ created \subseteq Chats
  /\ calm \in BOOLEAN /\ alone \in BOOLEAN
  /\ raced \subseteq Streams /\ left \subseteq Streams

NoBubble == [question |-> NoStream, answer |-> NoStream]

Init ==
  /\ current = NoChat
  /\ view = [data |-> Undefined, loading |-> FALSE]
  /\ bubble = NoBubble
  /\ fetch = <<>> /\ stream = <<>>
  /\ stored = [c \in Chats |-> IF c \in OldChats THEN <<Question(c)>> ELSE <<>>]
  /\ created = OldChats
  /\ calm = TRUE /\ alone = TRUE
  /\ raced = {} /\ left = {}

Fetching == \E n \in DOMAIN fetch : fetch[n].pc # "done"
Running == {s \in DOMAIN stream : stream[s].pc \in {"sent", "stored", "answered"}}
Quiet == ~Fetching /\ Running = {}

-------------------------------------------------------------------------------
(* Opening a chat.                                                         *)

\* Mutant: the messages stay until the new ones arrive.
ShowKeeps(c) ==
  /\ Len(fetch) < MaxOpened
  /\ current' = c
  /\ UNCHANGED view
  /\ bubble' = NoBubble
  /\ fetch' = Append(fetch, [pc |-> "asked", chat |-> c, history |-> <<>>])
  /\ calm' = Quiet /\ alone' = Quiet
  /\ raced' = raced \union Running
  /\ left' = left \union {s \in DOMAIN stream : stream[s].pc = "timer"}

\* The listeners of $currentChatId: the view is emptied, its history asked for.
\* The answers of earlier calls are still on their way.
Show(c) ==
  /\ Len(fetch) < MaxOpened
  /\ current' = c
  /\ view' = [data |-> Undefined, loading |-> TRUE]
  /\ bubble' = NoBubble
  /\ fetch' = Append(fetch, [pc |-> "asked", chat |-> c, history |-> <<>>])
  /\ calm' = Quiet /\ alone' = Quiet
  /\ raced' = raced \union Running
  /\ left' = left \union {s \in DOMAIN stream : stream[s].pc = "timer"}

\* The sidebar, the address bar, or the answer to BranchChat.
Open(c) ==
  /\ c \in created /\ c # current
  /\ Show(c)
  /\ UNCHANGED <<stream, stored, created>>

\* Mutant: the new chat is shown by the page only.
AskInNewChatUnset(c) ==
  /\ Len(stream) < MaxAsked /\ c \in Chats \ created /\ current # NoChat
  /\ created' = created \union {c}
  /\ stream' = Append(stream, [pc |-> "timer", chat |-> NoChat, meant |-> c])
  /\ UNCHANGED <<current, view, bubble, fetch, stored, ghosts>>

\* A question on the home page or a project's: the answer of CreateChat opens
\* the chat, and a timer of 100 ms sends the question.
AskInNewChat(c) ==
  /\ Len(stream) < MaxAsked
  /\ c \in Chats \ created
  /\ Show(c)
  /\ created' = created \union {c}
  /\ stream' = Append(stream, [pc |-> "timer", chat |-> NoChat, meant |-> c])
  /\ UNCHANGED stored

-------------------------------------------------------------------------------
(* fetchChatMessages.                                                      *)

Done == [pc |-> "done", chat |-> NoChat, history |-> <<>>]

\* The server answers GetHistory.
HistoryRead(n) ==
  /\ fetch[n].pc = "asked"
  /\ fetch' = [fetch EXCEPT ![n].pc = "read", ![n].history = stored[fetch[n].chat]]
  /\ UNCHANGED <<current, view, bubble, stream, stored, created, ghosts>>

\* Mutant: only the atom's data is set.
HistoryArrivesLoading(n) ==
  /\ fetch[n].pc = "read"
  /\ view' = [view EXCEPT !.data = fetch[n].history]
  /\ fetch' = [fetch EXCEPT ![n] = Done]
  /\ UNCHANGED <<current, bubble, stream, stored, created, ghosts>>

\* The answer becomes the view, whatever chat is open by now.
HistoryArrives(n) ==
  /\ fetch[n].pc = "read"
  /\ view' = [data |-> fetch[n].history, loading |-> FALSE]
  /\ fetch' = [fetch EXCEPT ![n] = Done]
  /\ UNCHANGED <<current, bubble, stream, stored, created, ghosts>>

HistoryFails(n) ==
  /\ fetch[n].pc = "asked"
  /\ view' = [data |-> Undefined, loading |-> FALSE]
  /\ fetch' = [fetch EXCEPT ![n] = Done]
  /\ UNCHANGED <<current, bubble, stream, stored, created, ghosts>>

-------------------------------------------------------------------------------
(* doChat.                                                                 *)

\* The question goes to the chat that is open.
DoChat(s) ==
  /\ bubble' = [question |-> s, answer |-> NoStream]
  /\ alone' = (alone /\ Quiet)
  /\ raced' = IF Fetching THEN raced \union {s} ELSE raced
  /\ UNCHANGED <<current, view, fetch, stored, created, calm, left>>

\* The send button of a chat.
Ask ==
  /\ Len(stream) < MaxAsked /\ current # NoChat
  /\ stream' = Append(stream, [pc |-> "sent", chat |-> current, meant |-> current])
  /\ DoChat(Len(stream) + 1)

\* The timer of AskInNewChat.
TimerFires(s) ==
  /\ stream[s].pc = "timer"
  /\ stream' = [stream EXCEPT ![s].pc = "sent", ![s].chat = current]
  /\ DoChat(s)

\* The server stores a message of s.
Stores(s, m, pc) ==
  /\ stored' = [stored EXCEPT ![stream[s].chat] = Append(@, m)]
  /\ stream' = [stream EXCEPT ![s].pc = pc]
  /\ UNCHANGED <<current, view, bubble, fetch, created, ghosts>>

StoresQuestion(s) == stream[s].pc = "sent" /\ Stores(s, Question(s), "stored")

StoresAnswer(s) == stream[s].pc = "stored" /\ Stores(s, Answer(s), "answered")

\* on("data"): the answer so far is shown, whatever chat is open.
Data(s) ==
  /\ stream[s].pc \in {"stored", "answered"} /\ bubble.answer # s
  /\ bubble' = [bubble EXCEPT !.answer = s]
  /\ UNCHANGED <<current, view, fetch, stream, stored, created, ghosts>>

\* Mutant: the two messages are swapped.
AddSwapped(s) ==
  IF view.data = Undefined THEN view
  ELSE [view EXCEPT !.data = @ \o <<Answer(s), Question(s)>>]

\* Mutant: the answer is added, the question was there already.
AddAnswer(s) ==
  IF view.data = Undefined THEN view ELSE [view EXCEPT !.data = Append(@, Answer(s))]

\* addMessageToHistory, twice: nothing is added to data that is undefined.
AddToHistory(s) ==
  IF view.data = Undefined THEN view
  ELSE [view EXCEPT !.data = @ \o <<Question(s), Answer(s)>>]

\* on("end").  An empty answer is not stored, and an error of its INSERT is only
\* logged by the server: the stream ends well all the same.
End(s) ==
  /\ stream[s].pc \in {"stored", "answered"}
  /\ alone' = (alone /\ stream[s].pc = "answered")
  /\ view' = AddToHistory(s)
  /\ bubble' = NoBubble
  /\ stream' = [stream EXCEPT ![s].pc = "ended"]
  /\ UNCHANGED <<current, fetch, stored, created, calm, raced, left>>

\* Mutant: the error is logged and the text left.
ErrorLeavesBubble(s) ==
  /\ s \in Running
  /\ stream' = [stream EXCEPT ![s].pc = "failed"]
  /\ alone' = FALSE
  /\ UNCHANGED <<current, view, bubble, fetch, stored, created, calm,
                 raced, left>>

\* on("error"), from the server or the connection; the server stores no more.
Error(s) ==
  /\ s \in Running
  /\ bubble' = NoBubble
  /\ stream' = [stream EXCEPT ![s].pc = "failed"]
  /\ alone' = FALSE
  /\ UNCHANGED <<current, view, fetch, stored, created, calm, raced, left>>

-------------------------------------------------------------------------------
History(n) == HistoryRead(n) \/ HistoryArrives(n) \/ HistoryFails(n)
Advance(s) == TimerFires(s) \/ StoresQuestion(s) \/ StoresAnswer(s) \/ End(s) \/ Error(s)

Next ==
  \/ \E c \in Chats : Open(c) \/ AskInNewChat(c)
  \/ Ask
  \/ \E n \in DOMAIN fetch : History(n)
  \/ \E s \in DOMAIN stream : Advance(s) \/ Data(s)

Spec == Init /\ [][Next]_vars

\* Every call ends, with an answer or an error, and timers fire.  Nobody has to
\* open a chat or ask.
FairSpec ==
  /\ Spec
  /\ \A n \in 1..MaxOpened : WF_vars(n \in DOMAIN fetch /\ History(n))
  /\ \A s \in Streams : WF_vars(s \in DOMAIN stream /\ Advance(s))

-------------------------------------------------------------------------------
(* Properties.                                                             *)

(***************************************************************************)
(* A chat that was opened with no GetHistory and no stream in flight shows *)
(* messages of that chat only, whatever is asked in it.  Otherwise a late  *)
(* history (chat.ts:59) or the end of a stream (chat.ts:187) may put those *)
(* of another chat under it.                                               *)
(***************************************************************************)
OwnMessagesIfCalm ==
  calm /\ view.data # Undefined =>
    \A k \in DOMAIN view.data : ToChat(view.data[k]) = current

(***************************************************************************)
(* If moreover questions were asked one at a time, after the history had   *)
(* arrived, and every answer was stored, the client shows what the server  *)
(* stores, in its order, whenever nothing is in flight: addMessageToHistory*)
(* and AddChatMessage agree.                                               *)
(***************************************************************************)
ViewIsHistory ==
  alone /\ Quiet /\ view.data # Undefined => view.data = stored[current]

Shown(m) == \E k \in DOMAIN view.data : view.data[k] = m

(***************************************************************************)
(* Questions that overlap each other, but no GetHistory, are neither lost  *)
(* nor doubled: every one that ended is shown once, with one answer (a     *)
(* reload forgets an answer that the server could not store).              *)
(***************************************************************************)
OnceUnlessRaced ==
  calm /\ ~Fetching /\ view.data # Undefined =>
    \A s \in DOMAIN stream \ raced :
      stream[s].pc = "ended" /\ stream[s].chat = current =>
        /\ Shown(Question(s))
        /\ Shown(Answer(s)) \/ ~Contains(stored[current], Answer(s))
        /\ \A j, k \in DOMAIN view.data :
             view.data[j] = view.data[k] /\ view.data[k].of = s => j = k

(***************************************************************************)
(* A question goes to the chat it was typed for, unless that was a new     *)
(* chat and the user opened another within the 100 ms of home.tsx:18 and   *)
(* project.tsx:64: then it goes there, and the new chat stays empty.       *)
(***************************************************************************)
SentAsMeant ==
  \A s \in DOMAIN stream \ left : stream[s].chat # NoChat => stream[s].chat = stream[s].meant

(***************************************************************************)
(* Whatever is opened and asked, "Loading messages..." and the texts of a  *)
(* question in progress do not stay.                                       *)
(***************************************************************************)
Settles ==
  (view.loading \/ bubble # NoBubble) ~> (~view.loading /\ bubble = NoBubble)
===============================================================================
