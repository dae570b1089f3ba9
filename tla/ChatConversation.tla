---------------------------- MODULE ChatConversation ----------------------------
(***************************************************************************)
(* Chats, their messages and their branches: CreateChat, Chat,             *)
(* GenerateChatName and BranchAChat of service/service.go with the         *)
(* statements they run (dao/dao_sqlite.go, dao/dao_postgres.go).           *)
(*                                                                         *)
(* gRPC runs every request in a goroutine of its own and nothing locks a   *)
(* chat: any number of requests work on the same chat.  A statement is an  *)
(* atomic step; BranchChat is one transaction in Postgres and two separate *)
(* statements in SQLite.  The process can be killed at any step.           *)
(*                                                                         *)
(* A message is its row: the id is the position in `messages', since ids   *)
(* ascend and nothing is deleted; its text is left out, and a copy names   *)
(* the row it was copied from.  The language model (external) answers with *)
(* some text, with none, or not at all; what was streamed to the client    *)
(* before an error is not kept anywhere.                                   *)
(***************************************************************************)
EXTENDS Naturals, Sequences, FiniteSets, SequencesExt

CONSTANTS ChatIds,    \* the uuids drawn for chats
          Requests,   \* calls of Chat
          Namers,     \* calls of GenerateChatName
          Branchers,  \* calls of BranchAChat
          None,       \* no chat, no request, no name
          Databases,  \* which of the two databases may be configured
          DBFails     \* whether database statements may return an error

ASSUME ConversationAssumption ==
  /\ None \notin ChatIds \union Requests \union Namers
  /\ Databases \subseteq {"sqlite", "postgres"}
  /\ DBFails \in BOOLEAN

VARIABLES
  database,  \* config.Database.Type, fixed at the start
  chats,     \* chat_list: main or branch, parent, branch point, name
  messages,  \* chat_messages in the order of their ids
  chat,      \* each Chat request: the ids of the history it read, and `peers',
             \* the requests that were open on the chat when it read it
  naming,    \* each GenerateChatName request
  branch     \* each BranchAChat request

vars == <<database, chats, messages, chat, naming, branch>>

Roles == {"user", "assistant"}
Message == [chat : ChatIds, role : Roles, by : Requests \union {None}, of : Nat]

TypeOK ==
  /\ database \in Databases
  /\ chats \in [ChatIds -> [kind : {"none", "main", "branch"},
                            parent : ChatIds \union {None},
                            point : Nat, name : Namers \union {None}]]
  /\ messages \in Seq(Message)
  /\ chat \in [Requests -> [pc : {"new", "read", "asked", "answered", "done"},
                            on : ChatIds \union {None}, seen : SUBSET Nat,
                            question : Nat, peers : SUBSET Requests]]
  /\ naming \in [Namers -> [pc : {"new", "asking", "done"},
                            on : ChatIds \union {None}]]
  /\ branch \in [Branchers -> [pc : {"new", "checked", "copying", "done", "failed"},
                               source : ChatIds \union {None}, point : Nat,
                               on : ChatIds \union {None}]]

NoChat == [kind |-> "none", parent |-> None, point |-> 0, name |-> None]

Init ==
  /\ database \in Databases
  /\ chats = [c \in ChatIds |-> NoChat]
  /\ messages = <<>>
  /\ chat = [r \in Requests |-> [pc |-> "new", on |-> None, seen |-> {},
                                 question |-> 0, peers |-> {}]]
  /\ naming = [n \in Namers |-> [pc |-> "new", on |-> None]]
  /\ branch = [b \in Branchers |-> [pc |-> "new", source |-> None, point |-> 0,
                                    on |-> None]]

Exists(c) == chats[c].kind # "none"
Ids == 1..Len(messages)
IdsOf(c) == {i \in Ids : messages[i].chat = c}

\* INSERT INTO chat_messages (mutant: two arguments, both strings, swapped).
InsertSwapped(c, role, r) ==
  messages' = Append(messages, [chat |-> role, role |-> c, by |-> r, of |-> 0])
Insert(c, role, r) ==
  messages' = Append(messages, [chat |-> c, role |-> role, by |-> r, of |-> 0])

-------------------------------------------------------------------------------
\* CreateChat: the name is empty, the column is_main_branch defaults to TRUE.
CreateChat(c) ==
  /\ ~Exists(c)
  /\ chats' = [chats EXCEPT ![c] = [NoChat EXCEPT !.kind = "main"]]
  /\ UNCHANGED <<messages, chat, naming, branch>>

-------------------------------------------------------------------------------
(* Chat: read the history, insert the question, ask the model, insert the  *)
(* answer.  The first two are not one transaction.                         *)

Open(r) == chat[r].pc \in {"read", "asked", "answered"}
OpenOn(c) == {r \in Requests : Open(r) /\ chat[r].on = c}

\* Mutant: only the latest message is read.
ChatReadsLatest(r, c) ==
  /\ chat[r].pc = "new"
  /\ Exists(c)
  /\ chat' = [chat EXCEPT ![r] = [pc |-> "read", on |-> c,
                                  seen |-> {i \in IdsOf(c) : \A j \in IdsOf(c) : j <= i},
                                  question |-> 0, peers |-> OpenOn(c)]]
  /\ UNCHANGED <<chats, messages, naming, branch>>

ChatReads(r, c) ==
  /\ chat[r].pc = "new"
  /\ Exists(c)
  /\ chat' = [chat EXCEPT ![r] = [pc |-> "read", on |-> c, seen |-> IdsOf(c),
                                  question |-> 0, peers |-> OpenOn(c)]]
  /\ UNCHANGED <<chats, messages, naming, branch>>

\* An error ends the request, here and below.
ChatFails(r) == chat' = [chat EXCEPT ![r].pc = "done"]

ChatStoresQuestion(r) ==
  /\ chat[r].pc = "read"
  /\ \/ /\ Insert(chat[r].on, "user", r)
        /\ chat' = [chat EXCEPT ![r] = [@ EXCEPT !.pc = "asked",
                                                 !.question = Len(messages) + 1]]
     \/ /\ DBFails
        /\ ChatFails(r)
        /\ UNCHANGED messages
  /\ UNCHANGED <<chats, naming, branch>>

\* The whole stream was read, or something ended it: the request to the model
\* failed, the stream broke off, it held no text, the client went away.
ChatStreams(r) ==
  /\ chat[r].pc = "asked"
  /\ chat' = [chat EXCEPT ![r].pc = "answered"] \/ ChatFails(r)
  /\ UNCHANGED <<chats, messages, naming, branch>>

\* Mutant: the request stores an answer without waiting for its question.
ChatStoresAnswerEarly(r) ==
  /\ Open(r)
  /\ Insert(chat[r].on, "assistant", r)
  /\ chat' = [chat EXCEPT ![r].pc = "done"]
  /\ UNCHANGED <<chats, naming, branch>>

\* AddChatMessageWithTokens; an error is logged.
ChatStoresAnswer(r) ==
  /\ chat[r].pc = "answered"
  /\ Insert(chat[r].on, "assistant", r) \/ (DBFails /\ UNCHANGED messages)
  /\ chat' = [chat EXCEPT ![r].pc = "done"]
  /\ UNCHANGED <<chats, naming, branch>>

-------------------------------------------------------------------------------
(* GenerateChatName: GetChatName, the model, SaveChatName.                 *)

NameChecks(n, c) ==
  /\ naming[n].pc = "new"
  /\ Exists(c)
  /\ naming' = [naming EXCEPT ![n] =
                  [pc |-> IF chats[c].name = None THEN "asking" ELSE "done", on |-> c]]
  /\ UNCHANGED <<chats, messages, chat, branch>>

\* The model may answer with an empty name; it may also fail, as may the UPDATE.
NameSaves(n) ==
  /\ naming[n].pc = "asking"
  /\ \E name \in {n, None, chats[naming[n].on].name} :
       chats' = [chats EXCEPT ![naming[n].on].name = name]
  /\ naming' = [naming EXCEPT ![n].pc = "done"]
  /\ UNCHANGED <<messages, chat, branch>>

-------------------------------------------------------------------------------
(* BranchAChat: IsMainBranch, then BranchChat.                             *)

\* Mutant: a branch of a branch is allowed.
BranchChecksNothing(b, c, i) ==
  /\ branch[b].pc = "new"
  /\ Exists(c)
  /\ branch' = [branch EXCEPT ![b] = [pc |-> "checked", source |-> c, point |-> i,
                                      on |-> None]]
  /\ UNCHANGED <<chats, messages, chat, naming>>

\* The client names a message it has seen.
BranchChecks(b, c, i) ==
  /\ branch[b].pc = "new"
  /\ chats[c].kind = "main"
  /\ branch' = [branch EXCEPT ![b] = [pc |-> "checked", source |-> c, point |-> i,
                                      on |-> None]]
  /\ UNCHANGED <<chats, messages, chat, naming>>

\* The chat_list row of the branch; the frontend sends an empty name.
BranchRow(b, c) ==
  chats' = [chats EXCEPT ![c] = [kind |-> "branch", parent |-> branch[b].source,
                                 point |-> branch[b].point, name |-> None]]

\* The rows to copy, by id.
ToCopy(b) == {i \in IdsOf(branch[b].source) : i <= branch[b].point}

\* INSERT INTO chat_messages ... SELECT ... ORDER BY id; from[k] is the k-th row
\* of the SELECT.
CopyRows(b, c) ==
  \E from \in [1..Cardinality(ToCopy(b)) -> ToCopy(b)] :
    /\ Range(from) = ToCopy(b)
    /\ \A j, k \in DOMAIN from : j < k => from[j] < from[k]
    /\ messages' = messages \o
          [k \in DOMAIN from |-> [chat |-> c, role |-> messages[from[k]].role,
                                 by |-> None, of |-> from[k]]]

BranchFails(b) ==
  /\ DBFails
  /\ branch' = [branch EXCEPT ![b].pc = "failed"]

\* Postgres: both statements or none.
BranchCommits(b, c) ==
  /\ database = "postgres"
  /\ branch[b].pc = "checked"
  /\ ~Exists(c)
  /\ \/ /\ BranchRow(b, c)
        /\ CopyRows(b, c)
        /\ branch' = [branch EXCEPT ![b] = [@ EXCEPT !.pc = "done", !.on = c]]
     \/ /\ BranchFails(b)
        /\ UNCHANGED <<chats, messages>>
  /\ UNCHANGED <<chat, naming>>

\* SQLite: the first statement; the branch can be seen and used from here on.
BranchCreates(b, c) ==
  /\ database = "sqlite"
  /\ branch[b].pc = "checked"
  /\ ~Exists(c)
  /\ \/ /\ BranchRow(b, c)
        /\ branch' = [branch EXCEPT ![b] = [@ EXCEPT !.pc = "copying", !.on = c]]
     \/ /\ BranchFails(b)
        /\ UNCHANGED chats
  /\ UNCHANGED <<messages, chat, naming>>

\* Mutant: an error of the second statement is not returned.
BranchCopiesAnyway(b) ==
  /\ branch[b].pc = "copying"
  /\ CopyRows(b, branch[b].on) \/ (DBFails /\ UNCHANGED messages)
  /\ branch' = [branch EXCEPT ![b].pc = "done"]
  /\ UNCHANGED <<chats, chat, naming>>

\* SQLite: the second.  After an error the empty branch stays.
BranchCopies(b) ==
  /\ branch[b].pc = "copying"
  /\ \/ /\ CopyRows(b, branch[b].on)
        /\ branch' = [branch EXCEPT ![b].pc = "done"]
     \/ /\ BranchFails(b)
        /\ UNCHANGED messages
  /\ UNCHANGED <<chats, chat, naming>>

-------------------------------------------------------------------------------
\* The process is killed and started again: the requests end, the tables stay.
Crash ==
  /\ chat' = [r \in Requests |-> IF Open(r) THEN [chat[r] EXCEPT !.pc = "done"]
                                 ELSE chat[r]]
  /\ naming' = [n \in Namers |-> IF naming[n].pc = "asking"
                                 THEN [naming[n] EXCEPT !.pc = "done"]
                                 ELSE naming[n]]
  /\ branch' = [b \in Branchers |-> IF branch[b].pc \in {"checked", "copying"}
                                    THEN [branch[b] EXCEPT !.pc = "failed"]
                                    ELSE branch[b]]
  /\ UNCHANGED <<chats, messages>>

Next ==
  /\ \/ \E c \in ChatIds : CreateChat(c)
     \/ \E r \in Requests : \/ \E c \in ChatIds : ChatReads(r, c)
                            \/ ChatStoresQuestion(r)
                            \/ ChatStreams(r)
                            \/ ChatStoresAnswer(r)
     \/ \E n \in Namers : (\E c \in ChatIds : NameChecks(n, c)) \/ NameSaves(n)
     \/ \E b \in Branchers : \/ \E c \in ChatIds, i \in Ids : BranchChecks(b, c, i)
                             \/ \E c \in ChatIds : BranchCommits(b, c)
                             \/ \E c \in ChatIds : BranchCreates(b, c)
                             \/ BranchCopies(b)
     \/ Crash
  /\ UNCHANGED database

Spec == Init /\ [][Next]_vars

-------------------------------------------------------------------------------
(* Properties.                                                             *)

(***************************************************************************)
(* branching.md:11, 304: a branch is made from a main chat only, whatever  *)
(* happens between the check and the insert.                               *)
(***************************************************************************)
NoNestedBranch ==
  \A c \in ChatIds : chats[c].kind = "branch" => chats[chats[c].parent].kind = "main"

(***************************************************************************)
(* branching.md:21: a branch holds all messages of its source up to the    *)
(* branch point, once each, in their order: also later, when the source    *)
(* has gone on and other requests have inserted rows of their own.  Only   *)
(* on SQLite, and only if its request died or failed between the two       *)
(* statements, it holds none of them; it never holds a part, and a branch  *)
(* whose id was returned to the client is whole.                           *)
(***************************************************************************)
CopiesOf(c) == {i \in IdsOf(c) : messages[i].of # 0}

CopiesComplete(c) ==
  /\ {messages[i].of : i \in CopiesOf(c)} =
       {i \in IdsOf(chats[c].parent) : i <= chats[c].point}
  /\ \A i, j \in CopiesOf(c) : i < j => messages[i].of < messages[j].of

BranchIs(c, pc) == \E b \in Branchers : branch[b].pc = pc /\ branch[b].on = c

Abandoned(c) == database = "sqlite" /\ BranchIs(c, "failed") /\ CopiesOf(c) = {}

BranchIsComplete ==
  \A c \in ChatIds :
    chats[c].kind = "branch" /\ ~BranchIs(c, "copying")
      => CopiesComplete(c) \/ Abandoned(c)

(***************************************************************************)
(* In no chat and at no place are there more answers than questions so     *)
(* far: errors, crashes, overlapping requests and copies leave questions   *)
(* without an answer, never the reverse.                                   *)
(***************************************************************************)
SoFar(c, role, i) == {j \in IdsOf(c) : j <= i /\ messages[j].role = role}

AnswersFollowQuestions ==
  \A c \in ChatIds : \A i \in IdsOf(c) :
    Cardinality(SoFar(c, "assistant", i)) <= Cardinality(SoFar(c, "user", i))

(***************************************************************************)
(* "Chat ID is required to maintain context" (service.go:90): a question   *)
(* is sent with everything said before it in its chat, except the messages *)
(* of requests that were open at the same time (and, on SQLite, copies     *)
(* that a branch had not received yet).                                    *)
(***************************************************************************)
ContextComplete ==
  \A r \in Requests : \A i \in IdsOf(chat[r].on) :
    i < chat[r].question /\ i \notin chat[r].seen
      => IF messages[i].of # 0 THEN database = "sqlite"
         ELSE messages[i].by \in chat[r].peers \/ r \in chat[messages[i].by].peers

(***************************************************************************)
(* service.go:269-271 refuses to name a chat twice: "Chat name already     *)
(* exists".  The check and the UPDATE are two steps with a call of the     *)
(* model between them.                                                     *)
(***************************************************************************)
NameIsKept ==
  [][\A c \in ChatIds : chats[c].name # None => chats'[c].name = chats[c].name]_vars
===============================================================================
