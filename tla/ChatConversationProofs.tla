------------------------- MODULE ChatConversationProofs -------------------------
(***************************************************************************)
(* Proofs about ChatConversation: for any number of chats, requests and    *)
(* branches, on both databases, through errors and crashes.                *)
(***************************************************************************)
EXTENDS ChatConversation, FiniteSetTheorems, FunctionTheorems, SequenceTheorems, TLAPS

USE ConversationAssumption DEF ConversationAssumption

-------------------------------------------------------------------------------
(***************************************************************************)
(* The two statements that add rows.                                       *)
(***************************************************************************)
Row(c, role, r, i) == [chat |-> c, role |-> role, by |-> r, of |-> i]

LEMMA RowFields ==
  ASSUME NEW c, NEW role, NEW r, NEW i
  PROVE  /\ Row(c, role, r, i).chat = c /\ Row(c, role, r, i).role = role
         /\ Row(c, role, r, i).by = r /\ Row(c, role, r, i).of = i
BY DEF Row

\* INSERT of one row: the others stay, the new one has the next id.
LEMMA InsertEffect ==
  ASSUME messages \in Seq(Message), NEW c \in ChatIds, NEW role \in Roles,
         NEW r \in Requests, Insert(c, role, r)
  PROVE  /\ messages' \in Seq(Message)
         /\ Len(messages') = Len(messages) + 1
         /\ \A i \in Ids : messages'[i] = messages[i]
         /\ messages'[Len(messages) + 1] = Row(c, role, r, 0)
<1>1. Row(c, role, r, 0) \in Message
  BY DEF Row, Message
<1>2. messages' = Append(messages, Row(c, role, r, 0))
  BY DEF Insert, Row
<1> QED BY <1>1, <1>2, AppendProperties DEF Ids

LEMMA IdsFinite ==
  ASSUME messages \in Seq(Message), NEW S, S \subseteq Ids
  PROVE  IsFiniteSet(S) /\ Cardinality(S) \in Nat
<1>1. 1 \in Int /\ Len(messages) \in Int
  OBVIOUS
<1>2. IsFiniteSet(Ids)
  BY <1>1, FS_Interval DEF Ids
<1> QED BY <1>2, FS_Subset, FS_CardinalityType

(***************************************************************************)
(* INSERT ... SELECT ... ORDER BY id: Copied names for each new row the    *)
(* row it is a copy of.                                                    *)
(***************************************************************************)
Copied(c, from, n) ==
  /\ messages' \in Seq(Message)
  /\ Len(messages') = Len(messages) + n
  /\ \A i \in Ids : messages'[i] = messages[i]
  /\ \A k \in 1..n : messages'[Len(messages) + k] =
                       Row(c, messages[from[k]].role, None, from[k])

LEMMA CopyRowsEffect ==
  ASSUME messages \in Seq(Message), NEW b \in Branchers, NEW c \in ChatIds,
         CopyRows(b, c)
  PROVE  \E n \in Nat : \E from \in [1..n -> ToCopy(b)] :
           /\ {from[k] : k \in 1..n} = ToCopy(b)
           /\ \A j, k \in 1..n : j < k => from[j] < from[k]
           /\ Copied(c, from, n)
<1> DEFINE n == Cardinality(ToCopy(b))
<1>1. ToCopy(b) \subseteq Ids
  BY DEF ToCopy, IdsOf
<1>2. n \in Nat
  BY <1>1, IdsFinite
<1> HIDE DEF n
<1>3. PICK from \in [1..n -> ToCopy(b)] :
        /\ Range(from) = ToCopy(b)
        /\ \A j, k \in DOMAIN from : j < k => from[j] < from[k]
        /\ messages' = messages \o
             [k \in DOMAIN from |-> [chat |-> c, role |-> messages[from[k]].role,
                                     by |-> None, of |-> from[k]]]
  BY DEF CopyRows, n
<1>4. DOMAIN from = 1..n /\ {from[k] : k \in 1..n} = ToCopy(b)
  BY <1>3 DEF Range
<1> DEFINE new == [k \in 1..n |-> Row(c, messages[from[k]].role, None, from[k])]
<1>5. \A k \in 1..n : Row(c, messages[from[k]].role, None, from[k]) \in Message
  <2> SUFFICES ASSUME NEW k \in 1..n
               PROVE  Row(c, messages[from[k]].role, None, from[k]) \in Message
    OBVIOUS
  <2>1. from[k] \in 1..Len(messages)
    BY <1>1 DEF Ids
  <2>2. messages[from[k]] \in Message
    BY <2>1
  <2> QED BY <2>1, <2>2 DEF Row, Message
<1>6. new \in Seq(Message) /\ Len(new) = n
      /\ \A k \in 1..n : new[k] = Row(c, messages[from[k]].role, None, from[k])
  BY <1>2, <1>5
<1>7. messages' = messages \o new
  BY <1>3, <1>4 DEF Row
<1> HIDE DEF new
<1>8. /\ messages' \in Seq(Message)
      /\ Len(messages') = Len(messages) + n
      /\ \A i \in 1..(Len(messages) + n) :
           messages'[i] = IF i <= Len(messages) THEN messages[i] ELSE new[i - Len(messages)]
  BY <1>6, <1>7, ConcatProperties
<1>9. Len(messages) \in Nat
  OBVIOUS
<1>10. \A i \in Ids : messages'[i] = messages[i]
  BY <1>2, <1>8, <1>9 DEF Ids
<1>11. ASSUME NEW k \in 1..n
       PROVE  messages'[Len(messages) + k] = Row(c, messages[from[k]].role, None, from[k])
  <2>1. /\ Len(messages) + k \in 1..(Len(messages) + n)
        /\ ~(Len(messages) + k <= Len(messages))
        /\ (Len(messages) + k) - Len(messages) = k
    BY <1>2, <1>9
  <2> QED BY <1>6, <1>8, <2>1
<1>12. Copied(c, from, n)
  BY <1>8, <1>10, <1>11 DEF Copied
<1>13. \A j, k \in 1..n : j < k => from[j] < from[k]
  BY <1>3, <1>4
<1> QED BY <1>2, <1>4, <1>12, <1>13

-------------------------------------------------------------------------------
(***************************************************************************)
(* Type correctness, with the records of each table and request named.     *)
(***************************************************************************)
ChatType == [kind : {"none", "main", "branch"}, parent : ChatIds \union {None},
             point : Nat, name : Namers \union {None}]
RequestType == [pc : {"new", "read", "asked", "answered", "done"},
                on : ChatIds \union {None}, seen : SUBSET Nat,
                question : Nat, peers : SUBSET Requests]
NamingType == [pc : {"new", "asking", "done"}, on : ChatIds \union {None}]
BranchType == [pc : {"new", "checked", "copying", "done", "failed"},
               source : ChatIds \union {None}, point : Nat,
               on : ChatIds \union {None}]

LEMMA Types ==
  TypeOK <=> /\ database \in Databases
             /\ chats \in [ChatIds -> ChatType]
             /\ messages \in Seq(Message)
             /\ chat \in [Requests -> RequestType]
             /\ naming \in [Namers -> NamingType]
             /\ branch \in [Branchers -> BranchType]
BY DEF TypeOK, ChatType, RequestType, NamingType, BranchType

LEMMA TypesPrimed ==
  TypeOK' <=> /\ database' \in Databases
              /\ chats' \in [ChatIds -> ChatType]
              /\ messages' \in Seq(Message)
              /\ chat' \in [Requests -> RequestType]
              /\ naming' \in [Namers -> NamingType]
              /\ branch' \in [Branchers -> BranchType]
BY DEF TypeOK, ChatType, RequestType, NamingType, BranchType

\* Setting fields of a record leaves it in its type.
LEMMA SetRequest ==
  ASSUME NEW x \in RequestType
  PROVE  /\ \A pc \in {"new", "read", "asked", "answered", "done"} :
              [x EXCEPT !.pc = pc] \in RequestType
         /\ \A n \in Nat :
              [x EXCEPT !.pc = "asked", !.question = n] \in RequestType
BY DEF RequestType

LEMMA SetBranch ==
  ASSUME NEW x \in BranchType
  PROVE  \A pc \in {"new", "checked", "copying", "done", "failed"} :
           /\ [x EXCEPT !.pc = pc] \in BranchType
           /\ \A c \in ChatIds : [x EXCEPT !.pc = pc, !.on = c] \in BranchType
BY DEF BranchType

LEMMA SetNaming ==
  ASSUME NEW x \in NamingType
  PROVE  [x EXCEPT !.pc = "done"] \in NamingType
BY DEF NamingType

LEMMA SetName ==
  ASSUME NEW x \in ChatType, NEW name \in Namers \union {None}
  PROVE  [x EXCEPT !.name = name] \in ChatType
BY DEF ChatType

LEMMA TypeOKInit == Init => TypeOK
<1> SUFFICES ASSUME Init PROVE TypeOK
  OBVIOUS
<1>1. database \in Databases /\ messages \in Seq(Message)
  BY DEF Init
<1>2. chats \in [ChatIds -> ChatType]
  BY DEF Init, NoChat, ChatType
<1>3. chat \in [Requests -> RequestType]
  BY DEF Init, RequestType
<1>4. naming \in [Namers -> NamingType]
  BY DEF Init, NamingType
<1>5. branch \in [Branchers -> BranchType]
  BY DEF Init, BranchType
<1> QED BY <1>1, <1>2, <1>3, <1>4, <1>5, Types

\* The actions of Chat.
ChatStep(r) ==
  \/ \E c \in ChatIds : ChatReads(r, c)
  \/ ChatStoresQuestion(r) \/ ChatStreams(r) \/ ChatStoresAnswer(r)

LEMMA TypeOKChat ==
  ASSUME TypeOK, NEW r \in Requests, ChatStep(r), UNCHANGED database,
         Open(r) => chat[r].on \in ChatIds
  PROVE  TypeOK'
<1>0. /\ messages \in Seq(Message) /\ chat \in [Requests -> RequestType]
      /\ chat[r] \in RequestType /\ Len(messages) + 1 \in Nat
  BY Types
<1>1. ASSUME NEW c \in ChatIds, ChatReads(r, c) PROVE TypeOK'
  <2>1. IdsOf(c) \subseteq Nat /\ OpenOn(c) \subseteq Requests
    BY <1>0 DEF IdsOf, Ids, OpenOn
  <2>2. [pc |-> "read", on |-> c, seen |-> IdsOf(c), question |-> 0,
         peers |-> OpenOn(c)] \in RequestType
    BY <2>1 DEF RequestType
  <2> QED BY <1>0, <1>1, <2>2, Types, TypesPrimed DEF ChatReads
<1>2. ASSUME NEW pc \in {"new", "read", "asked", "answered", "done"},
             chat' = [chat EXCEPT ![r].pc = pc]
      PROVE  chat' \in [Requests -> RequestType]
  <2>1. [chat[r] EXCEPT !.pc = pc] \in RequestType
    BY <1>0, SetRequest
  <2> QED BY <1>0, <1>2, <2>1
<1>3. CASE ChatStoresQuestion(r)
  <2>1. CASE /\ Insert(chat[r].on, "user", r)
             /\ chat' = [chat EXCEPT ![r] = [@ EXCEPT !.pc = "asked",
                                                      !.question = Len(messages) + 1]]
    <3>1. chat[r].on \in ChatIds
      BY <1>3 DEF ChatStoresQuestion, Open
    <3>2. messages' \in Seq(Message)
      BY <1>0, <2>1, <3>1, InsertEffect DEF Roles
    <3>3. [chat[r] EXCEPT !.pc = "asked", !.question = Len(messages) + 1] \in RequestType
      BY <1>0, SetRequest
    <3>4. chat' \in [Requests -> RequestType]
      BY <1>0, <2>1, <3>3
    <3> QED BY <1>3, <3>2, <3>4, Types, TypesPrimed DEF ChatStoresQuestion
  <2>2. CASE ChatFails(r) /\ UNCHANGED messages
    BY <1>2, <1>3, <2>2, Types, TypesPrimed DEF ChatStoresQuestion, ChatFails
  <2> QED BY <1>3, <2>1, <2>2 DEF ChatStoresQuestion
<1>4. CASE ChatStreams(r)
  BY <1>2, <1>4, Types, TypesPrimed DEF ChatStreams, ChatFails
<1>5. CASE ChatStoresAnswer(r)
  <2>1. chat[r].on \in ChatIds
    BY <1>5 DEF ChatStoresAnswer, Open
  <2>2. messages' \in Seq(Message)
    BY <1>0, <1>5, <2>1, InsertEffect DEF ChatStoresAnswer, Roles
  <2> QED BY <1>2, <1>5, <2>2, Types, TypesPrimed DEF ChatStoresAnswer
<1> QED BY <1>1, <1>3, <1>4, <1>5 DEF ChatStep

\* The actions of GenerateChatName.
NameStep(n) == (\E c \in ChatIds : NameChecks(n, c)) \/ NameSaves(n)

LEMMA TypeOKName ==
  ASSUME TypeOK, NEW n \in Namers, NameStep(n), UNCHANGED database
  PROVE  TypeOK'
<1>0. /\ naming \in [Namers -> NamingType] /\ chats \in [ChatIds -> ChatType]
      /\ naming[n] \in NamingType
  BY Types
<1>1. ASSUME NEW c \in ChatIds, NameChecks(n, c) PROVE TypeOK'
  <2>1. [pc |-> IF chats[c].name = None THEN "asking" ELSE "done", on |-> c] \in NamingType
    BY DEF NamingType
  <2> QED BY <1>0, <1>1, <2>1, Types, TypesPrimed DEF NameChecks
<1>2. CASE NameSaves(n)
  <2>1. PICK name \in {n, None, chats[naming[n].on].name} :
          chats' = [chats EXCEPT ![naming[n].on].name = name]
    BY <1>2 DEF NameSaves
  <2>2. naming' \in [Namers -> NamingType]
    BY <1>0, <1>2, SetNaming DEF NameSaves
  <2>3. CASE naming[n].on \in ChatIds
    <3>1. chats[naming[n].on] \in ChatType /\ name \in Namers \union {None}
      BY <1>0, <2>3 DEF ChatType
    <3>2. [chats[naming[n].on] EXCEPT !.name = name] \in ChatType
      BY <3>1, SetName
    <3>3. chats' \in [ChatIds -> ChatType]
      BY <1>0, <2>1, <2>3, <3>2
    <3> QED BY <1>2, <2>2, <3>3, Types, TypesPrimed DEF NameSaves
  <2>4. CASE naming[n].on \notin ChatIds
    <3>1. chats' = chats
      BY <1>0, <2>1, <2>4
    <3> QED BY <1>2, <2>2, <3>1, Types, TypesPrimed DEF NameSaves
  <2> QED BY <2>3, <2>4
<1> QED BY <1>1, <1>2 DEF NameStep

\* The actions of BranchAChat.
BranchStep(b) ==
  \/ \E c \in ChatIds, i \in Ids : BranchChecks(b, c, i)
  \/ \E c \in ChatIds : BranchCommits(b, c) \/ BranchCreates(b, c)
  \/ BranchCopies(b)

LEMMA BranchRowType ==
  ASSUME TypeOK, NEW b \in Branchers, NEW c \in ChatIds, BranchRow(b, c)
  PROVE  chats' \in [ChatIds -> ChatType]
<1>1. branch[b] \in BranchType /\ chats \in [ChatIds -> ChatType]
  BY Types
<1>2. [kind |-> "branch", parent |-> branch[b].source, point |-> branch[b].point,
       name |-> None] \in ChatType
  BY <1>1 DEF BranchType, ChatType
<1> QED BY <1>1, <1>2 DEF BranchRow

LEMMA TypeOKBranch ==
  ASSUME TypeOK, NEW b \in Branchers, BranchStep(b), UNCHANGED database,
         branch[b].pc = "copying" => branch[b].on \in ChatIds
  PROVE  TypeOK'
<1>0. /\ messages \in Seq(Message) /\ branch \in [Branchers -> BranchType]
      /\ branch[b] \in BranchType
  BY Types
<1>1. ASSUME NEW c \in ChatIds, CopyRows(b, c) PROVE messages' \in Seq(Message)
  BY <1>0, <1>1, CopyRowsEffect DEF Copied
<1>2. ASSUME NEW pc \in {"new", "checked", "copying", "done", "failed"},
             \/ branch' = [branch EXCEPT ![b].pc = pc]
             \/ \E c \in ChatIds :
                  branch' = [branch EXCEPT ![b] = [@ EXCEPT !.pc = pc, !.on = c]]
      PROVE  branch' \in [Branchers -> BranchType]
  <2>1. CASE branch' = [branch EXCEPT ![b].pc = pc]
    <3>1. [branch[b] EXCEPT !.pc = pc] \in BranchType
      BY <1>0, SetBranch
    <3> QED BY <1>0, <2>1, <3>1
  <2>2. ASSUME NEW c \in ChatIds,
               branch' = [branch EXCEPT ![b] = [@ EXCEPT !.pc = pc, !.on = c]]
        PROVE  branch' \in [Branchers -> BranchType]
    <3>1. [branch[b] EXCEPT !.pc = pc, !.on = c] \in BranchType
      BY <1>0, SetBranch
    <3> QED BY <1>0, <2>2, <3>1
  <2> QED BY <1>2, <2>1, <2>2
<1>3. BranchFails(b) => branch' \in [Branchers -> BranchType]
  BY <1>2 DEF BranchFails
<1>4. ASSUME NEW c \in ChatIds, NEW i \in Ids, BranchChecks(b, c, i) PROVE TypeOK'
  <2>1. [pc |-> "checked", source |-> c, point |-> i, on |-> None] \in BranchType
    BY <1>0 DEF Ids, BranchType
  <2> QED BY <1>0, <1>4, <2>1, Types, TypesPrimed DEF BranchChecks
<1>5. ASSUME NEW c \in ChatIds, BranchCommits(b, c) PROVE TypeOK'
  <2>1. CASE /\ BranchRow(b, c) /\ CopyRows(b, c)
             /\ branch' = [branch EXCEPT ![b] = [@ EXCEPT !.pc = "done", !.on = c]]
    <3>1. messages' \in Seq(Message) /\ branch' \in [Branchers -> BranchType]
      BY <1>1, <1>2, <2>1
    <3> QED BY <1>5, <2>1, <3>1, BranchRowType, Types, TypesPrimed DEF BranchCommits
  <2>2. CASE BranchFails(b) /\ UNCHANGED <<chats, messages>>
    BY <1>3, <1>5, <2>2, Types, TypesPrimed DEF BranchCommits
  <2> QED BY <1>5, <2>1, <2>2 DEF BranchCommits
<1>6. ASSUME NEW c \in ChatIds, BranchCreates(b, c) PROVE TypeOK'
  <2>1. CASE /\ BranchRow(b, c)
             /\ branch' = [branch EXCEPT ![b] = [@ EXCEPT !.pc = "copying", !.on = c]]
    <3>1. branch' \in [Branchers -> BranchType]
      BY <1>2, <2>1
    <3> QED BY <1>6, <2>1, <3>1, BranchRowType, Types, TypesPrimed DEF BranchCreates
  <2>2. CASE BranchFails(b) /\ UNCHANGED chats
    BY <1>3, <1>6, <2>2, Types, TypesPrimed DEF BranchCreates
  <2> QED BY <1>6, <2>1, <2>2 DEF BranchCreates
<1>7. CASE BranchCopies(b)
  <2>1. CASE CopyRows(b, branch[b].on) /\ branch' = [branch EXCEPT ![b].pc = "done"]
    <3>1. messages' \in Seq(Message) /\ branch' \in [Branchers -> BranchType]
      BY <1>1, <1>2, <1>7, <2>1 DEF BranchCopies
    <3> QED BY <1>7, <3>1, Types, TypesPrimed DEF BranchCopies
  <2>2. CASE BranchFails(b) /\ UNCHANGED messages
    BY <1>3, <1>7, <2>2, Types, TypesPrimed DEF BranchCopies
  <2> QED BY <1>7, <2>1, <2>2 DEF BranchCopies
<1> QED BY <1>4, <1>5, <1>6, <1>7 DEF BranchStep

LEMMA TypeOKCrash ==
  ASSUME TypeOK, Crash, UNCHANGED database
  PROVE  TypeOK'
<1>1. chat' \in [Requests -> RequestType]
  BY Types, SetRequest DEF Crash
<1>2. naming' \in [Namers -> NamingType]
  BY Types, SetNaming DEF Crash
<1>3. branch' \in [Branchers -> BranchType]
  BY Types, SetBranch DEF Crash
<1> QED BY <1>1, <1>2, <1>3, Types, TypesPrimed DEF Crash

-------------------------------------------------------------------------------
(***************************************************************************)
(* The inductive invariant.  RequestInv: what a request has read and       *)
(* stored; MessageInv: where a row comes from; BranchInv: which request    *)
(* made a branch and how far it got.                                       *)
(***************************************************************************)
RequestInv ==
  \A r \in Requests :
    /\ chat[r].pc = "new" => chat[r].peers = {}
    /\ chat[r].pc # "new" => chat[r].on \in ChatIds /\ Exists(chat[r].on)
    /\ chat[r].pc \in {"new", "read"} => chat[r].question = 0
    /\ chat[r].pc \in {"asked", "answered"} => chat[r].question # 0
    /\ chat[r].question # 0 =>
         /\ chat[r].question \in Ids
         /\ messages[chat[r].question] = Row(chat[r].on, "user", r, 0)

\* A row that was not copied is the question or the answer of its request.
OriginalRow(i) ==
  LET r == messages[i].by
  IN  /\ r \in Requests
      /\ chat[r].question # 0 /\ messages[i].chat = chat[r].on
      /\ messages[i].role = "assistant" =>
           chat[r].question < i /\ chat[r].pc = "done"

\* A copied row repeats a row of the branch's parent.
CopiedRow(i) ==
  LET k == messages[i].of
  IN  /\ chats[messages[i].chat].kind = "branch"
      /\ k \in Ids
      /\ messages[k].chat = chats[messages[i].chat].parent
      /\ messages[k].role = messages[i].role

MessageInv ==
  \A i \in Ids :
    /\ messages[i].chat \in ChatIds /\ Exists(messages[i].chat)
    /\ messages[i].of = 0 => OriginalRow(i)
    /\ messages[i].of # 0 => CopiedRow(i)

\* No request stores two answers.
OneAnswer ==
  \A i, j \in Ids :
    /\ messages[i].of = 0 /\ messages[i].role = "assistant"
    /\ messages[j].of = 0 /\ messages[j].role = "assistant"
    /\ messages[i].by = messages[j].by
    => i = j

BranchedFrom(b) ==
  branch[b].source \in ChatIds /\ chats[branch[b].source].kind = "main"
  /\ branch[b].point \in Ids

MadeBranch(b, c) ==
  /\ chats[c].kind = "branch"
  /\ chats[c].parent = branch[b].source
  /\ chats[c].point = branch[b].point
  /\ branch[b].pc \in {"copying", "failed"} => database = "sqlite" /\ CopiesOf(c) = {}
  /\ branch[b].pc = "done" => CopiesComplete(c)

BranchInv ==
  /\ \A b \in Branchers :
       /\ branch[b].pc # "new" => BranchedFrom(b)
       /\ branch[b].pc \in {"new", "checked"} => branch[b].on = None
       /\ branch[b].pc \in {"copying", "done"} => branch[b].on \in ChatIds
       /\ \A c \in ChatIds : branch[b].on = c => MadeBranch(b, c)
  /\ \A b, d \in Branchers :
       branch[b].on = branch[d].on /\ branch[b].on # None => b = d
  /\ \A c \in ChatIds :
       chats[c].kind = "branch" => \E b \in Branchers : branch[b].on = c

IInv == RequestInv /\ MessageInv /\ OneAnswer /\ BranchInv

LEMMA IInvInit == Init => IInv
<1> SUFFICES ASSUME Init PROVE IInv
  OBVIOUS
<1>1. Ids = {}
  BY DEF Init, Ids
<1>2. \A c \in ChatIds : chats[c].kind = "none"
  BY DEF Init, NoChat
<1>3. RequestInv
  BY DEF Init, RequestInv
<1>4. BranchInv
  BY <1>2 DEF Init, BranchInv
<1> QED BY <1>1, <1>3, <1>4 DEF IInv, MessageInv, OneAnswer

-------------------------------------------------------------------------------
(***************************************************************************)
(* What no step undoes: rows stay, a chat stays what it is, a request that *)
(* has begun stays in its chat and keeps its question.                     *)
(***************************************************************************)
RowsStay ==
  /\ messages' \in Seq(Message) /\ Ids \subseteq Ids'
  /\ \A i \in Ids : messages'[i] = messages[i]

ChatsStay ==
  \A c \in ChatIds : Exists(c) =>
    /\ chats'[c].kind = chats[c].kind
    /\ chats'[c].parent = chats[c].parent
    /\ chats'[c].point = chats[c].point

RequestsStay ==
  \A r \in Requests :
    /\ chat[r].pc # "new" =>
         chat'[r].pc # "new" /\ chat'[r].on = chat[r].on /\ chat'[r].seen = chat[r].seen
         /\ chat'[r].peers = chat[r].peers
    /\ chat[r].question # 0 => chat'[r].question = chat[r].question
    /\ chat[r].pc = "done" => chat'[r].pc = "done"

LEMMA RowsStayInsert ==
  ASSUME messages \in Seq(Message), NEW c \in ChatIds, NEW role \in Roles,
         NEW r \in Requests, Insert(c, role, r)
  PROVE  RowsStay /\ Ids' = Ids \union {Len(messages) + 1}
         /\ Len(messages) + 1 \notin Ids
<1>1. Len(messages) \in Nat /\ Len(messages') = Len(messages) + 1
  BY InsertEffect
<1>2. Ids' = Ids \union {Len(messages) + 1} /\ Len(messages) + 1 \notin Ids
  BY <1>1 DEF Ids
<1> QED BY <1>2, InsertEffect DEF RowsStay

LEMMA RowsStayCopied ==
  ASSUME messages \in Seq(Message), NEW c, NEW n \in Nat, NEW from, Copied(c, from, n)
  PROVE  /\ RowsStay
         /\ Ids' = Ids \union {Len(messages) + k : k \in 1..n}
         /\ \A k \in 1..n : Len(messages) + k \notin Ids
<1>1. Len(messages) \in Nat /\ Len(messages') = Len(messages) + n
  BY DEF Copied
<1>2. \A k \in 1..n : Len(messages) + k \notin Ids
  BY <1>1 DEF Ids
<1>3. Ids' = Ids \union {Len(messages) + k : k \in 1..n}
  <2>1. \A i \in Ids' : i \in Ids \/ \E k \in 1..n : i = Len(messages) + k
    <3> SUFFICES ASSUME NEW i \in 1..(Len(messages) + n), ~(i \in 1..Len(messages))
                 PROVE  \E k \in 1..n : i = Len(messages) + k
      BY <1>1 DEF Ids
    <3>1. i - Len(messages) \in 1..n /\ i = Len(messages) + (i - Len(messages))
      BY <1>1
    <3> QED BY <3>1
  <2>2. Ids \subseteq Ids' /\ \A k \in 1..n : Len(messages) + k \in Ids'
    BY <1>1 DEF Ids
  <2> QED BY <2>1, <2>2
<1>4. RowsStay
  BY <1>3 DEF RowsStay, Copied
<1> QED BY <1>2, <1>3, <1>4

LEMMA RowsStayCopy ==
  ASSUME messages \in Seq(Message), NEW b \in Branchers, NEW c \in ChatIds, CopyRows(b, c)
  PROVE  RowsStay
BY CopyRowsEffect, RowsStayCopied

LEMMA RowsStaySame == messages \in Seq(Message) /\ UNCHANGED messages => RowsStay
BY DEF RowsStay, Ids

LEMMA RowsStayStep ==
  ASSUME TypeOK, IInv, [Next]_vars
  PROVE  RowsStay
<1>0. messages \in Seq(Message)
  BY Types
<1>1. ASSUME NEW r \in Requests, ChatStoresQuestion(r) \/ ChatStoresAnswer(r)
      PROVE  RowsStay
  <2>1. chat[r].on \in ChatIds
    BY <1>1 DEF ChatStoresQuestion, ChatStoresAnswer, IInv, RequestInv
  <2> QED BY <1>0, <1>1, <2>1, RowsStayInsert, RowsStaySame
          DEF ChatStoresQuestion, ChatStoresAnswer, Roles
<1>2. ASSUME NEW b \in Branchers, BranchStep(b) PROVE RowsStay
  <2>1. CASE BranchCopies(b)
    <3>1. branch[b].on \in ChatIds
      BY <2>1 DEF BranchCopies, IInv, BranchInv
    <3> QED BY <1>0, <2>1, <3>1, RowsStayCopy, RowsStaySame DEF BranchCopies
  <2>2. ASSUME NEW c \in ChatIds, BranchCommits(b, c) PROVE RowsStay
    BY <1>0, <2>2, RowsStayCopy, RowsStaySame DEF BranchCommits
  <2> QED BY <1>0, <1>2, <2>1, <2>2, RowsStaySame DEF BranchStep, BranchChecks, BranchCreates
<1> QED BY <1>0, <1>1, <1>2, RowsStaySame
        DEF Next, vars, CreateChat, ChatReads, ChatStreams, NameChecks, NameSaves,
            BranchStep, Crash

\* The row of a branch is new.
LEMMA BranchRowAdds ==
  ASSUME TypeOK, NEW b \in Branchers, NEW c \in ChatIds, ~Exists(c), BranchRow(b, c)
  PROVE  /\ ChatsStay
         /\ \A d \in ChatIds \ {c} : chats'[d] = chats[d]
         /\ chats'[c].kind = "branch"
         /\ chats'[c].parent = branch[b].source /\ chats'[c].point = branch[b].point
<1>1. chats \in [ChatIds -> ChatType]
  BY Types
<1>2. \A d \in ChatIds \ {c} : chats'[d] = chats[d]
  BY <1>1 DEF BranchRow
<1>3. chats'[c] = [kind |-> "branch", parent |-> branch[b].source,
                   point |-> branch[b].point, name |-> None]
  BY <1>1 DEF BranchRow
<1> QED BY <1>2, <1>3 DEF ChatsStay

LEMMA CreateChatAdds ==
  ASSUME TypeOK, NEW c \in ChatIds, CreateChat(c)
  PROVE  ChatsStay /\ chats'[c].kind = "main"
         /\ \A d \in ChatIds \ {c} : chats'[d] = chats[d]
<1>1. chats \in [ChatIds -> ChatType] /\ ~Exists(c)
  BY Types DEF CreateChat
<1>2. \A d \in ChatIds \ {c} : chats'[d] = chats[d]
  BY <1>1 DEF CreateChat
<1>3. chats'[c].kind = "main"
  BY <1>1 DEF CreateChat, NoChat
<1> QED BY <1>1, <1>2, <1>3 DEF ChatsStay

\* A name is all that GenerateChatName changes.
LEMMA NameSavesOnly ==
  ASSUME TypeOK, NEW n \in Namers, NameSaves(n)
  PROVE  \A c \in ChatIds : /\ chats'[c].kind = chats[c].kind
                            /\ chats'[c].parent = chats[c].parent
                            /\ chats'[c].point = chats[c].point
<1>1. chats \in [ChatIds -> ChatType]
  BY Types
<1>2. PICK name : chats' = [chats EXCEPT ![naming[n].on].name = name]
  BY DEF NameSaves
<1> SUFFICES ASSUME NEW c \in ChatIds
             PROVE  /\ chats'[c].kind = chats[c].kind
                    /\ chats'[c].parent = chats[c].parent
                    /\ chats'[c].point = chats[c].point
  OBVIOUS
<1>3. CASE c = naming[n].on
  <2>1. chats'[c] = [chats[c] EXCEPT !.name = name]
    BY <1>1, <1>2, <1>3
  <2> QED BY <1>1, <2>1 DEF ChatType
<1>4. CASE c # naming[n].on
  BY <1>1, <1>2, <1>4
<1> QED BY <1>3, <1>4

LEMMA ChatsStayStep ==
  ASSUME TypeOK, IInv, [Next]_vars
  PROVE  ChatsStay
<1>1. ASSUME NEW b \in Branchers, BranchStep(b) PROVE ChatsStay
  <2>1. ASSUME NEW c \in ChatIds, BranchCommits(b, c) \/ BranchCreates(b, c)
        PROVE  ChatsStay
    <3>1. CASE BranchRow(b, c)
      BY <2>1, <3>1, BranchRowAdds DEF BranchCommits, BranchCreates
    <3>2. CASE UNCHANGED chats
      BY <3>2 DEF ChatsStay
    <3> QED BY <2>1, <3>1, <3>2 DEF BranchCommits, BranchCreates
  <2>2. CASE UNCHANGED chats
    BY <2>2 DEF ChatsStay
  <2> QED BY <1>1, <2>1, <2>2 DEF BranchStep, BranchChecks, BranchCopies
<1>2. ASSUME NEW n \in Namers, NameSaves(n) PROVE ChatsStay
  BY <1>2, NameSavesOnly DEF ChatsStay
<1>3. CASE UNCHANGED chats
  BY <1>3 DEF ChatsStay
<1> QED BY <1>1, <1>2, <1>3, CreateChatAdds
        DEF Next, vars, ChatReads, ChatStoresQuestion, ChatStreams, ChatStoresAnswer,
            NameChecks, BranchStep, Crash

\* A request that fails, goes on or ends changes its pc only.
LEMMA RequestsStayPc ==
  ASSUME TypeOK, NEW r \in Requests, chat[r].pc # "new", chat[r].pc # "done",
         NEW pc, pc # "new", chat' = [chat EXCEPT ![r].pc = pc]
  PROVE  RequestsStay
<1>1. chat \in [Requests -> RequestType]
  BY Types
<1>2. \A q \in Requests \ {r} : chat'[q] = chat[q]
  BY <1>1
<1>3. chat'[r] = [chat[r] EXCEPT !.pc = pc]
  BY <1>1
<1>4. /\ chat'[r].pc = pc /\ chat'[r].on = chat[r].on /\ chat'[r].seen = chat[r].seen
      /\ chat'[r].peers = chat[r].peers /\ chat'[r].question = chat[r].question
  BY <1>1, <1>3 DEF RequestType
<1> QED BY <1>2, <1>4 DEF RequestsStay

LEMMA RequestsStayStep ==
  ASSUME TypeOK, IInv, [Next]_vars
  PROVE  RequestsStay
<1>0. chat \in [Requests -> RequestType]
  BY Types
<1>1. ASSUME NEW r \in Requests, NEW c \in ChatIds, ChatReads(r, c) PROVE RequestsStay
  <2>1. chat[r].pc = "new" /\ chat[r].question = 0
    BY <1>1 DEF ChatReads, IInv, RequestInv
  <2>2. \A q \in Requests \ {r} : chat'[q] = chat[q]
    BY <1>0, <1>1 DEF ChatReads
  <2> QED BY <2>1, <2>2 DEF RequestsStay
<1>2. ASSUME NEW r \in Requests, ChatStoresQuestion(r) PROVE RequestsStay
  <2>1. chat[r].pc = "read" /\ chat[r].question = 0
    BY <1>2 DEF ChatStoresQuestion, IInv, RequestInv
  <2>2. CASE chat' = [chat EXCEPT ![r] = [@ EXCEPT !.pc = "asked",
                                                   !.question = Len(messages) + 1]]
    <3>1. \A q \in Requests \ {r} : chat'[q] = chat[q]
      BY <1>0, <2>2
    <3>2. chat'[r] = [chat[r] EXCEPT !.pc = "asked", !.question = Len(messages) + 1]
      BY <1>0, <2>2
    <3>3. /\ chat'[r].pc = "asked" /\ chat'[r].on = chat[r].on
          /\ chat'[r].seen = chat[r].seen /\ chat'[r].peers = chat[r].peers
      BY <1>0, <3>2 DEF RequestType
    <3> QED BY <2>1, <3>1, <3>3 DEF RequestsStay
  <2>3. CASE ChatFails(r)
    BY <2>1, <2>3, RequestsStayPc DEF ChatFails
  <2> QED BY <1>2, <2>2, <2>3 DEF ChatStoresQuestion
<1>3. ASSUME NEW r \in Requests, ChatStreams(r) \/ ChatStoresAnswer(r) PROVE RequestsStay
  BY <1>3, RequestsStayPc DEF ChatStreams, ChatStoresAnswer, ChatFails
<1>4. CASE Crash
  <2> SUFFICES ASSUME NEW r \in Requests, Open(r),
                      chat'[r] = [chat[r] EXCEPT !.pc = "done"]
               PROVE  /\ chat'[r].pc = "done" /\ chat'[r].on = chat[r].on
                      /\ chat'[r].seen = chat[r].seen /\ chat'[r].peers = chat[r].peers
                      /\ chat'[r].question = chat[r].question
    BY <1>4 DEF Crash, RequestsStay, Open
  <2> QED BY <1>0 DEF RequestType
<1>5. CASE UNCHANGED chat
  BY <1>5 DEF RequestsStay
<1> QED BY <1>1, <1>2, <1>3, <1>4, <1>5
        DEF Next, vars, CreateChat, NameChecks, NameSaves, BranchChecks, BranchCommits,
            BranchCreates, BranchCopies

-------------------------------------------------------------------------------
(***************************************************************************)
(* Copies.                                                                 *)
(***************************************************************************)
LEMMA CopiesSame == UNCHANGED messages => \A c : CopiesOf(c)' = CopiesOf(c)
BY DEF CopiesOf, IdsOf, Ids

\* A message of a request is no copy.
LEMMA CopiesInsert ==
  ASSUME messages \in Seq(Message), NEW d \in ChatIds, NEW role \in Roles,
         NEW r \in Requests, Insert(d, role, r)
  PROVE  \A c : CopiesOf(c)' = CopiesOf(c)
<1>1. /\ Ids' = Ids \union {Len(messages) + 1} /\ Len(messages) + 1 \notin Ids
      /\ \A i \in Ids : messages'[i] = messages[i]
  BY RowsStayInsert DEF RowsStay
<1>2. messages'[Len(messages) + 1].of = 0
  BY InsertEffect, RowFields
<1> QED BY <1>1, <1>2 DEF CopiesOf, IdsOf

\* Copying into one chat adds copies to that one only.
LEMMA CopiesElsewhere ==
  ASSUME messages \in Seq(Message), NEW b \in Branchers, NEW c \in ChatIds, CopyRows(b, c)
  PROVE  \A d \in ChatIds \ {c} : CopiesOf(d)' = CopiesOf(d)
<1>0. PICK n \in Nat : \E from \in [1..n -> ToCopy(b)] : Copied(c, from, n)
  BY CopyRowsEffect
<1>1. PICK from \in [1..n -> ToCopy(b)] : Copied(c, from, n)
  BY <1>0
<1>2. /\ Ids' = Ids \union {Len(messages) + k : k \in 1..n}
      /\ \A k \in 1..n : Len(messages) + k \notin Ids
      /\ \A i \in Ids : messages'[i] = messages[i]
  BY <1>1, RowsStayCopied DEF RowsStay
<1>3. ASSUME NEW k \in 1..n PROVE messages'[Len(messages) + k].chat = c
  <2>1. messages'[Len(messages) + k] = Row(c, messages[from[k]].role, None, from[k])
    BY <1>1 DEF Copied
  <2> QED BY <2>1, RowFields
<1> QED BY <1>2, <1>3 DEF CopiesOf, IdsOf

\* A branch stays complete: what is added later is past its branch point.
LEMMA CompleteStays ==
  ASSUME messages \in Seq(Message), RowsStay, NEW c \in ChatIds,
         chats'[c].parent = chats[c].parent, chats'[c].point = chats[c].point,
         chats[c].point \in Ids, CopiesOf(c)' = CopiesOf(c), CopiesComplete(c)
  PROVE  CopiesComplete(c)'
<1> DEFINE p == chats[c].parent
           n == chats[c].point
<1>1. \A i \in Ids' : i <= n => i \in Ids
  BY DEF Ids, RowsStay
<1>2. {i \in Ids' : messages'[i].chat = p /\ i <= n} = {i \in Ids : messages[i].chat = p /\ i <= n}
  BY <1>1 DEF RowsStay
<1>3. \A i \in CopiesOf(c) : messages'[i] = messages[i]
  BY DEF CopiesOf, IdsOf, RowsStay
<1>4. {messages'[i].of : i \in CopiesOf(c)} = {messages[i].of : i \in CopiesOf(c)}
  BY <1>3
<1>5. {i \in IdsOf(p) : i <= n} = {i \in Ids : messages[i].chat = p /\ i <= n}
  BY DEF IdsOf
<1>6. {i \in IdsOf(chats[c].parent)' : i <= chats'[c].point}
        = {i \in Ids' : messages'[i].chat = p /\ i <= n}
  BY DEF IdsOf
<1>7. {messages'[i].of : i \in CopiesOf(c)'} = {i \in IdsOf(chats[c].parent)' : i <= chats'[c].point}
  BY <1>2, <1>4, <1>5, <1>6 DEF CopiesComplete
<1>8. \A i, j \in CopiesOf(c)' : i < j => messages'[i].of < messages'[j].of
  BY <1>3 DEF CopiesComplete
<1> QED BY <1>7, <1>8 DEF CopiesComplete

\* The INSERT ... SELECT makes a branch without copies complete.
LEMMA CopyCompletes ==
  ASSUME messages \in Seq(Message), NEW b \in Branchers, NEW c \in ChatIds, CopyRows(b, c),
         branch[b].point \in Ids, CopiesOf(c) = {},
         chats'[c].parent = branch[b].source, chats'[c].point = branch[b].point,
         branch[b].source # c
  PROVE  CopiesComplete(c)'
<1>0. PICK n \in Nat : \E from \in [1..n -> ToCopy(b)] :
        /\ {from[k] : k \in 1..n} = ToCopy(b)
        /\ \A j, k \in 1..n : j < k => from[j] < from[k]
        /\ Copied(c, from, n)
  BY CopyRowsEffect
<1>1. PICK from \in [1..n -> ToCopy(b)] :
        /\ {from[k] : k \in 1..n} = ToCopy(b)
        /\ \A j, k \in 1..n : j < k => from[j] < from[k]
        /\ Copied(c, from, n)
  BY <1>0
<1> DEFINE len == Len(messages)
<1>2. len \in Nat
  OBVIOUS
<1>3. /\ Ids' = Ids \union {len + k : k \in 1..n}
      /\ \A i \in Ids : messages'[i] = messages[i]
      /\ RowsStay
  BY <1>1, RowsStayCopied DEF RowsStay
<1>4. \A k \in 1..n : messages'[len + k].chat = c /\ messages'[len + k].of = from[k]
  BY <1>1, RowFields DEF Copied
<1>5. \A k \in 1..n : from[k] \in ToCopy(b) /\ from[k] # 0
  BY <1>1 DEF ToCopy, IdsOf, Ids
<1>6. CopiesOf(c)' = {len + k : k \in 1..n}
  <2>1. \A i \in Ids : ~(messages[i].chat = c /\ messages[i].of # 0)
    BY DEF CopiesOf, IdsOf
  <2>2. CopiesOf(c)' = {i \in Ids' : messages'[i].chat = c /\ messages'[i].of # 0}
    BY DEF CopiesOf, IdsOf
  <2> HIDE DEF len
  <2> QED BY <1>3, <1>4, <1>5, <2>1, <2>2
<1>7. {messages'[i].of : i \in CopiesOf(c)'} = ToCopy(b)
  <2>1. {messages'[i].of : i \in CopiesOf(c)'} = {messages'[len + k].of : k \in 1..n}
    BY <1>6
  <2>2. {messages'[len + k].of : k \in 1..n} = {from[k] : k \in 1..n}
    BY <1>4
  <2> QED BY <1>1, <2>1, <2>2
<1>8. ToCopy(b) = {i \in Ids' : messages'[i].chat = branch[b].source /\ i <= branch[b].point}
  <2>1. \A i \in Ids' : i <= branch[b].point => i \in Ids
    BY <1>2, <1>3 DEF Ids
  <2> QED BY <1>3, <2>1 DEF ToCopy, IdsOf
<1>9. \A i, j \in CopiesOf(c)' : i < j => messages'[i].of < messages'[j].of
  <2> SUFFICES ASSUME NEW j \in 1..n, NEW k \in 1..n, len + j < len + k
               PROVE  messages'[len + j].of < messages'[len + k].of
    BY <1>6
  <2>1. j < k
    BY <1>2
  <2> QED BY <1>1, <1>4, <2>1
<1> QED BY <1>7, <1>8, <1>9 DEF CopiesComplete, IdsOf

-------------------------------------------------------------------------------
(***************************************************************************)
(* The invariant is kept.  First the requests.                             *)
(***************************************************************************)
LEMMA RequestInvStep ==
  ASSUME TypeOK, IInv, [Next]_vars
  PROVE  RequestInv'
<1>0. chat \in [Requests -> RequestType] /\ messages \in Seq(Message)
  BY Types
<1>1. RowsStay /\ ChatsStay /\ RequestsStay
  BY RowsStayStep, ChatsStayStep, RequestsStayStep
<1>2. ASSUME NEW r \in Requests, chat[r].pc # "new",
             chat'[r].pc = chat[r].pc \/ chat'[r].pc = "done"
                \/ (chat[r].pc = "asked" /\ chat'[r].pc = "answered"),
             chat'[r].question = chat[r].question
      PROVE  /\ chat'[r].pc # "new" /\ chat'[r].on \in ChatIds /\ chats'[chat'[r].on].kind # "none"
             /\ chat'[r].pc = "read" => chat'[r].question = 0
             /\ chat'[r].pc \in {"asked", "answered"} => chat'[r].question # 0
             /\ chat'[r].question # 0 =>
                  /\ chat'[r].question \in Ids'
                  /\ messages'[chat'[r].question] = Row(chat'[r].on, "user", r, 0)
  <2>1. chat'[r].on = chat[r].on /\ chat'[r].pc # "new"
    BY <1>1, <1>2 DEF RequestsStay
  <2>2. chat[r].on \in ChatIds /\ Exists(chat[r].on)
    BY <1>2 DEF IInv, RequestInv
  <2>3. chats'[chat'[r].on].kind # "none"
    BY <1>1, <2>1, <2>2 DEF ChatsStay, Exists
  <2>4. chat[r].question # 0 =>
          chat[r].question \in Ids /\ messages[chat[r].question] = Row(chat[r].on, "user", r, 0)
    BY DEF IInv, RequestInv
  <2>5. chat[r].question # 0 =>
          chat[r].question \in Ids' /\ messages'[chat[r].question] = Row(chat[r].on, "user", r, 0)
    BY <1>1, <2>4 DEF RowsStay
  <2>6. /\ chat'[r].pc = "read" => chat'[r].question = 0
        /\ chat'[r].pc \in {"asked", "answered"} => chat'[r].question # 0
    BY <1>2 DEF IInv, RequestInv
  <2> QED BY <1>2, <2>1, <2>2, <2>3, <2>5, <2>6
<1> SUFFICES ASSUME NEW q \in Requests
             PROVE  /\ chat'[q].pc = "new" => chat'[q].peers = {}
                    /\ chat'[q].pc # "new" => chat'[q].on \in ChatIds /\ chats'[chat'[q].on].kind # "none"
                    /\ chat'[q].pc \in {"new", "read"} => chat'[q].question = 0
                    /\ chat'[q].pc \in {"asked", "answered"} => chat'[q].question # 0
                    /\ chat'[q].question # 0 =>
                         /\ chat'[q].question \in Ids'
                         /\ messages'[chat'[q].question] = Row(chat'[q].on, "user", q, 0)
  BY DEF RequestInv, Exists
<1>3. CASE chat'[q] = chat[q]
  <2>1. CASE chat[q].pc = "new"
    BY <1>3, <2>1 DEF IInv, RequestInv
  <2>2. CASE chat[q].pc # "new"
    BY <1>2, <1>3, <2>2
  <2> QED BY <2>1, <2>2
<1>4. ASSUME NEW c \in ChatIds, ChatReads(q, c)
      PROVE  chat'[q].pc = "read" /\ chat'[q].question = 0
             /\ chat'[q].on \in ChatIds /\ chats'[chat'[q].on].kind # "none"
  <2>1. chat'[q].pc = "read" /\ chat'[q].question = 0 /\ chat'[q].on = c
    BY <1>0, <1>4 DEF ChatReads
  <2> QED BY <1>1, <1>4, <2>1 DEF ChatReads, ChatsStay, Exists
<1>5. ASSUME ChatStoresQuestion(q), chat'[q].pc = "asked"
      PROVE  /\ chat'[q].on \in ChatIds /\ chats'[chat'[q].on].kind # "none"
             /\ chat'[q].question # 0 /\ chat'[q].question \in Ids'
             /\ messages'[chat'[q].question] = Row(chat'[q].on, "user", q, 0)
  <2>1. chat[q].pc = "read" /\ chat[q].on \in ChatIds /\ Exists(chat[q].on)
    BY <1>5 DEF ChatStoresQuestion, IInv, RequestInv
  <2>2. ~ChatFails(q)
    BY <1>0, <1>5 DEF ChatFails, RequestType
  <2>3. Insert(chat[q].on, "user", q)
        /\ chat'[q] = [chat[q] EXCEPT !.pc = "asked", !.question = Len(messages) + 1]
    BY <1>0, <1>5, <2>2 DEF ChatStoresQuestion
  <2>4. chat'[q].on = chat[q].on /\ chat'[q].question = Len(messages) + 1
    BY <1>0, <2>3 DEF RequestType
  <2>5. /\ Len(messages) + 1 \in Ids' /\ Len(messages) + 1 # 0
        /\ messages'[Len(messages) + 1] = Row(chat[q].on, "user", q, 0)
    <3>1. "user" \in Roles
      BY DEF Roles
    <3>2. Len(messages) \in Nat
      BY <1>0
    <3> QED BY <1>0, <2>1, <2>3, <3>1, <3>2, InsertEffect, RowsStayInsert
  <2>6. chats'[chat'[q].on].kind # "none"
    BY <1>1, <2>1, <2>4 DEF ChatsStay, Exists
  <2> QED BY <2>1, <2>4, <2>5, <2>6
<1>6. ASSUME ChatStoresQuestion(q), chat'[q].pc # "asked"
      PROVE  chat[q].pc # "new" /\ chat'[q].pc = "done" /\ chat'[q].question = chat[q].question
  <2>1. ChatFails(q)
    <3>1. ASSUME chat' = [chat EXCEPT ![q] = [@ EXCEPT !.pc = "asked",
                                                       !.question = Len(messages) + 1]]
          PROVE  chat'[q].pc = "asked"
      BY <1>0, <3>1 DEF RequestType
    <3> QED BY <1>6, <3>1 DEF ChatStoresQuestion
  <2> QED BY <1>0, <1>6, <2>1 DEF ChatStoresQuestion, ChatFails, RequestType
<1>7. ASSUME ChatStreams(q) \/ ChatStoresAnswer(q) \/ (Crash /\ Open(q))
      PROVE  /\ chat[q].pc # "new" /\ chat'[q].question = chat[q].question
             /\ \/ chat'[q].pc = "done"
                \/ chat[q].pc = "asked" /\ chat'[q].pc = "answered"
  <2>1. PICK pc \in {"answered", "done"} :
          /\ chat'[q] = [chat[q] EXCEPT !.pc = pc]
          /\ chat[q].pc # "new" /\ (pc = "answered" => chat[q].pc = "asked")
    BY <1>0, <1>7 DEF ChatStreams, ChatStoresAnswer, ChatFails, Crash, Open
  <2>2. chat'[q].pc = pc /\ chat'[q].question = chat[q].question
    BY <1>0, <2>1 DEF RequestType
  <2> QED BY <2>1, <2>2
<1>8. \/ chat'[q] = chat[q] \/ ChatStep(q) \/ (Crash /\ Open(q))
  <2>1. ASSUME NEW r \in Requests, r # q, ChatStep(r) PROVE chat'[q] = chat[q]
    BY <1>0, <2>1 DEF ChatStep, ChatReads, ChatStoresQuestion, ChatStreams,
                      ChatStoresAnswer, ChatFails
  <2>2. CASE Crash
    BY <2>2 DEF Crash
  <2> QED BY <2>1, <2>2 DEF Next, vars, ChatStep, CreateChat, NameChecks, NameSaves,
                            BranchChecks, BranchCommits, BranchCreates, BranchCopies
<1> QED BY <1>2, <1>3, <1>4, <1>5, <1>6, <1>7, <1>8 DEF ChatStep

(***************************************************************************)
(* The rows there are keep their origin.                                   *)
(***************************************************************************)
LEMMA OldRowsKept ==
  ASSUME TypeOK, IInv, RowsStay, ChatsStay, RequestsStay, NEW i \in Ids
  PROVE  /\ messages'[i].chat \in ChatIds /\ chats'[messages'[i].chat].kind # "none"
         /\ messages'[i].of = 0 => OriginalRow(i)'
         /\ messages'[i].of # 0 => CopiedRow(i)'
<1>1. messages'[i] = messages[i]
  BY DEF RowsStay
<1>2. messages[i].chat \in ChatIds /\ Exists(messages[i].chat)
  BY DEF IInv, MessageInv
<1>3. messages'[i].chat \in ChatIds /\ chats'[messages'[i].chat].kind # "none"
  BY <1>1, <1>2 DEF ChatsStay, Exists
<1>4. ASSUME messages[i].of = 0 PROVE OriginalRow(i)'
  <2>1. OriginalRow(i)
    BY <1>4 DEF IInv, MessageInv
  <2> DEFINE r == messages[i].by
  <2>2. r \in Requests /\ chat[r].question # 0 /\ chat[r].pc # "new"
    BY <2>1 DEF OriginalRow, IInv, RequestInv
  <2>3. /\ chat'[r].question = chat[r].question /\ chat'[r].on = chat[r].on
        /\ chat[r].pc = "done" => chat'[r].pc = "done"
    BY <2>2 DEF RequestsStay
  <2> QED BY <1>1, <2>1, <2>2, <2>3 DEF OriginalRow
<1>5. ASSUME messages[i].of # 0 PROVE CopiedRow(i)'
  <2>1. CopiedRow(i)
    BY <1>5 DEF IInv, MessageInv
  <2>2. messages[i].of \in Ids' /\ messages'[messages[i].of] = messages[messages[i].of]
    BY <2>1 DEF CopiedRow, RowsStay
  <2>3. /\ chats'[messages[i].chat].kind = chats[messages[i].chat].kind
        /\ chats'[messages[i].chat].parent = chats[messages[i].chat].parent
    BY <1>2 DEF ChatsStay
  <2> QED BY <1>1, <2>1, <2>2, <2>3 DEF CopiedRow
<1> QED BY <1>1, <1>3, <1>4, <1>5

\* The rows of the INSERT ... SELECT.
LEMMA NewCopies ==
  ASSUME messages \in Seq(Message), NEW b \in Branchers, NEW c \in ChatIds, CopyRows(b, c),
         chats'[c].kind = "branch", chats'[c].parent = branch[b].source,
         NEW i \in Ids' \ Ids
  PROVE  messages'[i].chat = c /\ messages'[i].of # 0 /\ CopiedRow(i)'
<1>0. PICK n \in Nat : \E from \in [1..n -> ToCopy(b)] : Copied(c, from, n)
  BY CopyRowsEffect
<1>1. PICK from \in [1..n -> ToCopy(b)] : Copied(c, from, n)
  BY <1>0
<1>2. RowsStay /\ Ids' = Ids \union {Len(messages) + k : k \in 1..n}
  BY <1>1, RowsStayCopied
<1>3. PICK k \in 1..n : i = Len(messages) + k
  BY <1>2
<1>4. messages'[i] = Row(c, messages[from[k]].role, None, from[k])
  BY <1>1, <1>3 DEF Copied
<1>5. /\ messages'[i].chat = c /\ messages'[i].of = from[k]
      /\ messages'[i].role = messages[from[k]].role
  BY <1>4, RowFields
<1>6. from[k] \in Ids /\ messages[from[k]].chat = branch[b].source /\ from[k] # 0
  BY DEF ToCopy, IdsOf, Ids
<1>7. from[k] \in Ids' /\ messages'[from[k]] = messages[from[k]]
  BY <1>2, <1>6 DEF RowsStay
<1> QED BY <1>5, <1>6, <1>7 DEF CopiedRow

\* What a request adds: its question, or its answer, once it has asked.
LEMMA NewOriginal ==
  ASSUME TypeOK, IInv, RequestInv', RequestsStay, NEW r \in Requests,
         ChatStoresQuestion(r) \/ ChatStoresAnswer(r), ~ UNCHANGED messages,
         NEW i \in Nat, i = Len(messages) + 1
  PROVE  /\ Ids' = Ids \union {i} /\ messages'[i].chat = chat[r].on
         /\ messages'[i].of = 0 /\ messages'[i].by = r /\ OriginalRow(i)'
         /\ messages'[i].role = "assistant" => chat[r].pc = "answered"
<1>0. chat \in [Requests -> RequestType] /\ messages \in Seq(Message) /\ Len(messages) \in Nat
  BY Types
<1>1. chat[r].on \in ChatIds /\ chat[r].pc # "new"
  BY DEF ChatStoresQuestion, ChatStoresAnswer, IInv, RequestInv
<1>2. chat'[r].on = chat[r].on
  BY <1>1 DEF RequestsStay
<1>3. CASE ChatStoresQuestion(r)
  <2>1. Insert(chat[r].on, "user", r)
        /\ chat' = [chat EXCEPT ![r] = [@ EXCEPT !.pc = "asked",
                                                 !.question = Len(messages) + 1]]
    BY <1>3 DEF ChatStoresQuestion
  <2>2. chat'[r].question = i
    BY <1>0, <2>1 DEF RequestType
  <2>3. "user" \in Roles
    BY DEF Roles
  <2>4. Ids' = Ids \union {i} /\ messages'[i] = Row(chat[r].on, "user", r, 0)
    BY <1>0, <1>1, <2>1, <2>3, InsertEffect, RowsStayInsert
  <2>5. /\ messages'[i].chat = chat[r].on /\ messages'[i].role = "user"
        /\ messages'[i].by = r /\ messages'[i].of = 0
    BY <2>4, RowFields
  <2>6. OriginalRow(i)'
    BY <1>0, <1>2, <2>2, <2>5 DEF OriginalRow
  <2> QED BY <2>4, <2>5, <2>6
<1>4. CASE ChatStoresAnswer(r)
  <2>1. Insert(chat[r].on, "assistant", r) /\ chat[r].pc = "answered"
        /\ chat' = [chat EXCEPT ![r].pc = "done"]
    BY <1>4 DEF ChatStoresAnswer
  <2>2. chat'[r].pc = "done"
    BY <1>0, <2>1 DEF RequestType
  <2>3. chat[r].question # 0 /\ chat[r].question \in Ids /\ chat'[r].question = chat[r].question
    BY <2>1 DEF IInv, RequestInv, RequestsStay
  <2>4. "assistant" \in Roles
    BY DEF Roles
  <2>5. Ids' = Ids \union {i} /\ messages'[i] = Row(chat[r].on, "assistant", r, 0)
    BY <1>0, <1>1, <2>1, <2>4, InsertEffect, RowsStayInsert
  <2>6. /\ messages'[i].chat = chat[r].on /\ messages'[i].by = r /\ messages'[i].of = 0
    BY <2>5, RowFields
  <2>7. chat[r].question < i
    BY <1>0, <2>3 DEF Ids
  <2>8. OriginalRow(i)'
    BY <1>2, <2>2, <2>3, <2>6, <2>7 DEF OriginalRow
  <2> QED BY <2>1, <2>5, <2>6, <2>8
<1> QED BY <1>3, <1>4

\* The steps that may add rows.
LEMMA WhoAddsRows ==
  ASSUME TypeOK, IInv, [Next]_vars, ~ UNCHANGED messages
  PROVE  \/ \E r \in Requests : ChatStoresQuestion(r) \/ ChatStoresAnswer(r)
         \/ \E b \in Branchers, c \in ChatIds :
              /\ CopyRows(b, c)
              /\ chats'[c].kind = "branch" /\ chats'[c].parent = branch[b].source
<1>1. ASSUME NEW b \in Branchers, NEW c \in ChatIds, BranchCommits(b, c)
      PROVE  /\ CopyRows(b, c)
             /\ chats'[c].kind = "branch" /\ chats'[c].parent = branch[b].source
  BY <1>1, BranchRowAdds DEF BranchCommits
<1>2. ASSUME NEW b \in Branchers, BranchCopies(b)
      PROVE  \E c \in ChatIds :
              /\ CopyRows(b, c)
              /\ chats'[c].kind = "branch" /\ chats'[c].parent = branch[b].source
  <2>1. PICK c \in ChatIds : c = branch[b].on
    BY <1>2 DEF BranchCopies, IInv, BranchInv
  <2>2. MadeBranch(b, c)
    BY <2>1 DEF IInv, BranchInv
  <2> QED BY <1>2, <2>1, <2>2 DEF BranchCopies, MadeBranch
<1> QED BY <1>1, <1>2 DEF Next, vars, CreateChat, ChatReads, ChatStreams, NameChecks, NameSaves,
                          BranchChecks, BranchCreates, Crash

LEMMA MessageInvStep ==
  ASSUME TypeOK, IInv, [Next]_vars
  PROVE  MessageInv' /\ OneAnswer'
<1>0. messages \in Seq(Message) /\ chats \in [ChatIds -> ChatType]
  BY Types
<1>1. RowsStay /\ ChatsStay /\ RequestsStay /\ RequestInv'
  BY RowsStayStep, ChatsStayStep, RequestsStayStep, RequestInvStep
<1>2. \A i \in Ids :
        /\ messages'[i].chat \in ChatIds /\ chats'[messages'[i].chat].kind # "none"
        /\ messages'[i].of = 0 => OriginalRow(i)'
        /\ messages'[i].of # 0 => CopiedRow(i)'
  BY <1>1, OldRowsKept
<1>3. \A i \in Ids : messages'[i] = messages[i]
  BY <1>1 DEF RowsStay
<1>4. CASE UNCHANGED messages
  <2>1. Ids' = Ids
    BY <1>4 DEF Ids
  <2> QED BY <1>2, <1>3, <2>1 DEF MessageInv, OneAnswer, Exists, IInv
<1>5. ASSUME NEW r \in Requests, ChatStoresQuestion(r) \/ ChatStoresAnswer(r),
             ~ UNCHANGED messages
      PROVE  MessageInv' /\ OneAnswer'
  <2>0. PICK n \in Nat : n = Len(messages) + 1
    BY <1>0
  <2>1. /\ Ids' = Ids \union {n} /\ messages'[n].chat = chat[r].on
        /\ messages'[n].of = 0 /\ messages'[n].by = r /\ OriginalRow(n)'
        /\ messages'[n].role = "assistant" => chat[r].pc = "answered"
    BY <1>1, <1>5, <2>0, NewOriginal
  <2>2. chat[r].on \in ChatIds /\ chats'[chat[r].on].kind # "none"
    BY <1>1, <1>5 DEF ChatStoresQuestion, ChatStoresAnswer, IInv, RequestInv, ChatsStay, Exists
  <2>3. MessageInv'
    BY <1>2, <2>1, <2>2 DEF MessageInv, Exists
  <2>4. \A i \in Ids : messages[i].of = 0 /\ messages[i].role = "assistant"
                         => chat[messages[i].by].pc = "done"
    BY DEF IInv, MessageInv, OriginalRow
  <2>5. OneAnswer'
    BY <1>3, <2>1, <2>4 DEF OneAnswer, IInv
  <2> QED BY <2>3, <2>5
<1>6. ASSUME NEW b \in Branchers, NEW c \in ChatIds, CopyRows(b, c),
             chats'[c].kind = "branch", chats'[c].parent = branch[b].source
      PROVE  MessageInv' /\ OneAnswer'
  <2>1. \A i \in Ids' \ Ids : messages'[i].chat = c /\ messages'[i].of # 0 /\ CopiedRow(i)'
    BY <1>0, <1>6, NewCopies
  <2>2. MessageInv'
    BY <1>2, <1>6, <2>1 DEF MessageInv, Exists
  <2>3. OneAnswer'
    BY <1>3, <2>1 DEF OneAnswer, IInv
  <2> QED BY <2>2, <2>3
<1> QED BY <1>4, <1>5, <1>6, WhoAddsRows

-------------------------------------------------------------------------------
(***************************************************************************)
(* The branches.                                                           *)
(***************************************************************************)

\* A branch that was made keeps its state unless its rows are copied.
LEMMA MadeBranchStays ==
  ASSUME TypeOK, IInv, RowsStay, ChatsStay, UNCHANGED database,
         NEW b \in Branchers, NEW c \in ChatIds, branch[b].on = c,
         branch'[b].source = branch[b].source, branch'[b].point = branch[b].point,
         branch'[b].pc = branch[b].pc \/ (branch[b].pc = "copying" /\ branch'[b].pc = "failed"),
         CopiesOf(c)' = CopiesOf(c)
  PROVE  MadeBranch(b, c)'
<1>0. messages \in Seq(Message) /\ branch \in [Branchers -> BranchType]
  BY Types
<1>1. MadeBranch(b, c) /\ branch[b].pc # "new"
  BY DEF IInv, BranchInv
<1>2. branch[b].point \in Ids
  BY <1>1 DEF IInv, BranchInv, BranchedFrom
<1>3. /\ chats'[c].kind = chats[c].kind /\ chats'[c].parent = chats[c].parent
      /\ chats'[c].point = chats[c].point
  BY <1>1 DEF MadeBranch, ChatsStay, Exists
<1>4. CopiesComplete(c) => CopiesComplete(c)'
  BY <1>0, <1>1, <1>2, <1>3, CompleteStays DEF MadeBranch
<1>5. /\ chats[c].kind = "branch"
      /\ chats[c].parent = branch[b].source
      /\ chats[c].point = branch[b].point
      /\ branch[b].pc \in {"copying", "failed"} => database = "sqlite" /\ CopiesOf(c) = {}
      /\ branch[b].pc = "done" => CopiesComplete(c)
  BY <1>1 DEF MadeBranch
<1>6. /\ branch'[b].pc \in {"copying", "failed"} => database' = "sqlite" /\ CopiesOf(c)' = {}
      /\ branch'[b].pc = "done" => CopiesComplete(c)'
  BY <1>4, <1>5
<1> QED BY <1>3, <1>5, <1>6 DEF MadeBranch

LEMMA BranchedFromStays ==
  ASSUME RowsStay, ChatsStay, NEW b \in Branchers, BranchedFrom(b),
         branch'[b].source = branch[b].source, branch'[b].point = branch[b].point
  PROVE  BranchedFrom(b)'
<1>1. chats'[branch[b].source].kind = "main" /\ branch[b].point \in Ids'
  BY DEF BranchedFrom, ChatsStay, Exists, RowsStay
<1> QED BY <1>1 DEF BranchedFrom

(***************************************************************************)
(* The steps that make no branch and copy nothing: at most, requests end.  *)
(***************************************************************************)
LEMMA BranchInvKept ==
  ASSUME TypeOK, IInv, RowsStay, ChatsStay, UNCHANGED database,
         \A c \in ChatIds : CopiesOf(c)' = CopiesOf(c),
         \A c \in ChatIds : chats'[c].kind = "branch" => chats[c].kind = "branch",
         \A b \in Branchers :
           /\ branch'[b].source = branch[b].source
           /\ branch'[b].point = branch[b].point
           /\ branch'[b].on = branch[b].on
           /\ \/ branch'[b].pc = branch[b].pc
              \/ branch[b].pc \in {"checked", "copying"} /\ branch'[b].pc = "failed"
  PROVE  BranchInv'
<1>1. ASSUME NEW b \in Branchers
      PROVE  /\ branch'[b].pc # "new" => BranchedFrom(b)'
             /\ branch'[b].pc \in {"new", "checked"} => branch'[b].on = None
             /\ branch'[b].pc \in {"copying", "done"} => branch'[b].on \in ChatIds
             /\ \A c \in ChatIds : branch'[b].on = c => MadeBranch(b, c)'
  <2>1. branch'[b].pc # "new" => BranchedFrom(b)'
    BY BranchedFromStays DEF IInv, BranchInv
  <2>2. /\ branch'[b].pc \in {"new", "checked"} => branch'[b].on = None
        /\ branch'[b].pc \in {"copying", "done"} => branch'[b].on \in ChatIds
    BY DEF IInv, BranchInv
  <2>3. ASSUME NEW c \in ChatIds, branch'[b].on = c PROVE MadeBranch(b, c)'
    <3>1. branch[b].on = c /\ branch[b].pc # "checked"
      BY <2>3 DEF IInv, BranchInv
    <3> QED BY <3>1, MadeBranchStays
  <2> QED BY <2>1, <2>2, <2>3
<1>2. \A b, d \in Branchers :
        branch'[b].on = branch'[d].on /\ branch'[b].on # None => b = d
  BY DEF IInv, BranchInv
<1>3. \A c \in ChatIds :
        chats'[c].kind = "branch" => \E b \in Branchers : branch'[b].on = c
  BY DEF IInv, BranchInv
<1> QED BY <1>1, <1>2, <1>3 DEF BranchInv

(***************************************************************************)
(* A request that makes the branch c, fills it, or both.                   *)
(***************************************************************************)
LEMMA BranchInvMade ==
  ASSUME TypeOK, IInv, RowsStay, ChatsStay, UNCHANGED database,
         NEW b \in Branchers, NEW c \in ChatIds,
         \/ branch[b].pc = "checked" /\ ~Exists(c)
         \/ branch[b].pc = "copying" /\ branch[b].on = c,
         \A d \in ChatIds \ {c} : CopiesOf(d)' = CopiesOf(d),
         \A d \in ChatIds \ {c} : chats'[d].kind = "branch" => chats[d].kind = "branch",
         \A e \in Branchers \ {b} : branch'[e] = branch[e],
         branch'[b].source = branch[b].source, branch'[b].point = branch[b].point,
         branch'[b].on = c, branch'[b].pc \in {"copying", "done"},
         MadeBranch(b, c)'
  PROVE  BranchInv'
<1>1. \A e \in Branchers \ {b} : branch[e].on # c
  BY DEF IInv, BranchInv, MadeBranch, Exists
<1>2. ASSUME NEW e \in Branchers \ {b}
      PROVE  /\ branch'[e].pc # "new" => BranchedFrom(e)'
             /\ branch'[e].pc \in {"new", "checked"} => branch'[e].on = None
             /\ branch'[e].pc \in {"copying", "done"} => branch'[e].on \in ChatIds
             /\ \A d \in ChatIds : branch'[e].on = d => MadeBranch(e, d)'
  <2>1. branch'[e] = branch[e] /\ branch[e].on # c
    BY <1>1
  <2>2. branch'[e].pc # "new" => BranchedFrom(e)'
    BY <2>1, BranchedFromStays DEF IInv, BranchInv
  <2>3. /\ branch'[e].pc \in {"new", "checked"} => branch'[e].on = None
        /\ branch'[e].pc \in {"copying", "done"} => branch'[e].on \in ChatIds
    BY <2>1 DEF IInv, BranchInv
  <2>4. ASSUME NEW d \in ChatIds, branch'[e].on = d PROVE MadeBranch(e, d)'
    <3>1. branch[e].on = d /\ d # c
      BY <2>1, <2>4
    <3> QED BY <2>1, <3>1, MadeBranchStays
  <2> QED BY <2>2, <2>3, <2>4
<1>3. BranchedFrom(b)'
  BY BranchedFromStays DEF IInv, BranchInv
<1>4. \A e, d \in Branchers :
        branch'[e].on = branch'[d].on /\ branch'[e].on # None => e = d
  <2> SUFFICES ASSUME NEW e \in Branchers, NEW d \in Branchers,
                      branch'[e].on = branch'[d].on, branch'[e].on # None
               PROVE  e = d
    OBVIOUS
  <2> QED BY <1>1 DEF IInv, BranchInv
<1>5. \A d \in ChatIds :
        chats'[d].kind = "branch" => \E e \in Branchers : branch'[e].on = d
  <2> SUFFICES ASSUME NEW d \in ChatIds \ {c}, chats'[d].kind = "branch"
               PROVE  \E e \in Branchers : branch'[e].on = d
    OBVIOUS
  <2>1. PICK e \in Branchers : branch[e].on = d
    BY DEF IInv, BranchInv
  <2>2. e # b
    BY <2>1 DEF IInv, BranchInv, MadeBranch, Exists
  <2> QED BY <2>1, <2>2
<1> QED BY <1>2, <1>3, <1>4, <1>5 DEF BranchInv

LEMMA BranchInvStepBranch ==
  ASSUME TypeOK, IInv, [Next]_vars, RowsStay, ChatsStay, UNCHANGED database,
         NEW b \in Branchers, BranchStep(b)
  PROVE  BranchInv'
<1>0. /\ messages \in Seq(Message) /\ branch \in [Branchers -> BranchType]
      /\ branch[b] \in BranchType
  BY Types
<1>1. ASSUME BranchFails(b), branch[b].pc \in {"checked", "copying"},
             UNCHANGED <<chats, messages>>
      PROVE  BranchInv'
  <2>1. /\ \A d \in Branchers \ {b} : branch'[d] = branch[d]
        /\ branch'[b] = [branch[b] EXCEPT !.pc = "failed"]
    BY <1>0, <1>1 DEF BranchFails
  <2>2. /\ branch'[b].pc = "failed" /\ branch'[b].on = branch[b].on
        /\ branch'[b].source = branch[b].source /\ branch'[b].point = branch[b].point
    BY <1>0, <2>1 DEF BranchType
  <2>3. \A c \in ChatIds : CopiesOf(c)' = CopiesOf(c)
    BY <1>1, CopiesSame
  <2> QED BY <1>1, <2>1, <2>2, <2>3, BranchInvKept
<1>2. ASSUME NEW c \in ChatIds, NEW pc \in {"copying", "done"},
             branch' = [branch EXCEPT ![b] = [@ EXCEPT !.pc = pc, !.on = c]]
      PROVE  /\ \A d \in Branchers \ {b} : branch'[d] = branch[d]
             /\ branch'[b].pc = pc /\ branch'[b].on = c
             /\ branch'[b].source = branch[b].source /\ branch'[b].point = branch[b].point
  <2>1. /\ \A d \in Branchers \ {b} : branch'[d] = branch[d]
        /\ branch'[b] = [branch[b] EXCEPT !.pc = pc, !.on = c]
    BY <1>0, <1>2
  <2> QED BY <1>0, <2>1 DEF BranchType
<1>3. ASSUME NEW c \in ChatIds, ~Exists(c)
      PROVE  CopiesOf(c) = {}
  BY <1>3 DEF IInv, MessageInv, CopiesOf, IdsOf
<1>4. branch[b].pc # "new" => BranchedFrom(b)
  BY DEF IInv, BranchInv
<1>5. ASSUME NEW c \in ChatIds, NEW i \in Ids, BranchChecks(b, c, i) PROVE BranchInv'
  <2>1. /\ \A d \in Branchers \ {b} : branch'[d] = branch[d]
        /\ branch'[b].pc = "checked" /\ branch'[b].source = c /\ branch'[b].point = i
        /\ branch'[b].on = None
        /\ branch[b].pc = "new" /\ chats[c].kind = "main"
        /\ UNCHANGED <<chats, messages>>
    BY <1>0, <1>5 DEF BranchChecks
  <2>2. branch[b].on = None
    BY <2>1 DEF IInv, BranchInv
  <2>3. BranchedFrom(b)'
    BY <2>1 DEF BranchedFrom, Ids
  <2>4. ASSUME NEW d \in Branchers \ {b}
        PROVE  /\ branch'[d].pc # "new" => BranchedFrom(d)'
               /\ branch'[d].pc \in {"new", "checked"} => branch'[d].on = None
               /\ branch'[d].pc \in {"copying", "done"} => branch'[d].on \in ChatIds
               /\ \A e \in ChatIds : branch'[d].on = e => MadeBranch(d, e)'
    <3>1. branch'[d].pc # "new" => BranchedFrom(d)'
      BY <2>1, BranchedFromStays DEF IInv, BranchInv
    <3>2. ASSUME NEW e \in ChatIds, branch'[d].on = e PROVE MadeBranch(d, e)'
      <4>1. CopiesOf(e)' = CopiesOf(e)
        BY <2>1, CopiesSame
      <4> QED BY <2>1, <3>2, <4>1, MadeBranchStays
    <3> QED BY <2>1, <3>1, <3>2 DEF IInv, BranchInv
  <2>5. \A d, e \in Branchers :
          branch'[d].on = branch'[e].on /\ branch'[d].on # None => d = e
    BY <2>1, <2>2 DEF IInv, BranchInv
  <2>6. \A d \in ChatIds :
          chats'[d].kind = "branch" => \E e \in Branchers : branch'[e].on = d
    <3> SUFFICES ASSUME NEW d \in ChatIds, chats'[d].kind = "branch"
                 PROVE  \E e \in Branchers : branch'[e].on = d
      OBVIOUS
    <3>1. PICK e \in Branchers : branch[e].on = d
      BY <2>1 DEF IInv, BranchInv
    <3> QED BY <2>1, <2>2, <3>1
  <2> QED BY <2>1, <2>3, <2>4, <2>5, <2>6 DEF BranchInv
<1>6. ASSUME NEW c \in ChatIds, BranchCommits(b, c) PROVE BranchInv'
  <2>1. CASE /\ BranchRow(b, c) /\ CopyRows(b, c)
             /\ branch' = [branch EXCEPT ![b] = [@ EXCEPT !.pc = "done", !.on = c]]
    <3>1. branch[b].pc = "checked" /\ ~Exists(c)
      BY <1>6 DEF BranchCommits
    <3>2. /\ \A d \in ChatIds \ {c} : chats'[d] = chats[d]
          /\ chats'[c].kind = "branch"
          /\ chats'[c].parent = branch[b].source /\ chats'[c].point = branch[b].point
      BY <2>1, <3>1, BranchRowAdds
    <3>3. /\ \A d \in Branchers \ {b} : branch'[d] = branch[d]
          /\ branch'[b].pc = "done" /\ branch'[b].on = c
          /\ branch'[b].source = branch[b].source /\ branch'[b].point = branch[b].point
      BY <1>2, <2>1
    <3>4. branch[b].source # c /\ branch[b].point \in Ids
      BY <1>4, <3>1 DEF BranchedFrom, Exists
    <3>5. CopiesComplete(c)'
      BY <1>0, <1>3, <2>1, <3>1, <3>2, <3>4, CopyCompletes
    <3>6. MadeBranch(b, c)'
      BY <3>2, <3>3, <3>5 DEF MadeBranch
    <3>7. \A d \in ChatIds \ {c} : CopiesOf(d)' = CopiesOf(d)
      BY <1>0, <2>1, CopiesElsewhere
    <3> QED BY <3>1, <3>2, <3>3, <3>6, <3>7, BranchInvMade
  <2>2. CASE BranchFails(b) /\ UNCHANGED <<chats, messages>>
    BY <1>1, <1>6, <2>2 DEF BranchCommits
  <2> QED BY <1>6, <2>1, <2>2 DEF BranchCommits
<1>7. ASSUME NEW c \in ChatIds, BranchCreates(b, c) PROVE BranchInv'
  <2>1. CASE /\ BranchRow(b, c)
             /\ branch' = [branch EXCEPT ![b] = [@ EXCEPT !.pc = "copying", !.on = c]]
    <3>1. branch[b].pc = "checked" /\ ~Exists(c) /\ database = "sqlite" /\ UNCHANGED messages
      BY <1>7 DEF BranchCreates
    <3>2. /\ \A d \in ChatIds \ {c} : chats'[d] = chats[d]
          /\ chats'[c].kind = "branch"
          /\ chats'[c].parent = branch[b].source /\ chats'[c].point = branch[b].point
      BY <2>1, <3>1, BranchRowAdds
    <3>3. /\ \A d \in Branchers \ {b} : branch'[d] = branch[d]
          /\ branch'[b].pc = "copying" /\ branch'[b].on = c
          /\ branch'[b].source = branch[b].source /\ branch'[b].point = branch[b].point
      BY <1>2, <2>1
    <3>4. \A d : CopiesOf(d)' = CopiesOf(d)
      BY <3>1, CopiesSame
    <3>5. MadeBranch(b, c)'
      BY <1>3, <3>1, <3>2, <3>3, <3>4 DEF MadeBranch
    <3> QED BY <3>1, <3>2, <3>3, <3>4, <3>5, BranchInvMade
  <2>2. CASE BranchFails(b) /\ UNCHANGED chats
    BY <1>1, <1>7, <2>2 DEF BranchCreates
  <2> QED BY <1>7, <2>1, <2>2 DEF BranchCreates
<1>8. CASE BranchCopies(b)
  <2>1. PICK c \in ChatIds : c = branch[b].on
    BY <1>8 DEF BranchCopies, IInv, BranchInv
  <2>2. branch[b].pc = "copying" /\ UNCHANGED chats
    BY <1>8 DEF BranchCopies
  <2>3. /\ chats[c].kind = "branch" /\ chats[c].parent = branch[b].source
        /\ chats[c].point = branch[b].point /\ CopiesOf(c) = {}
    BY <2>1, <2>2 DEF IInv, BranchInv, MadeBranch
  <2>4. CASE CopyRows(b, branch[b].on) /\ branch' = [branch EXCEPT ![b].pc = "done"]
    <3>1. CopyRows(b, c)
      BY <2>1, <2>4
    <3>2. /\ \A d \in Branchers \ {b} : branch'[d] = branch[d]
          /\ branch'[b] = [branch[b] EXCEPT !.pc = "done"]
      BY <1>0, <2>4
    <3>3. /\ branch'[b].pc = "done" /\ branch'[b].on = c
          /\ branch'[b].source = branch[b].source /\ branch'[b].point = branch[b].point
      BY <1>0, <2>1, <3>2 DEF BranchType
    <3>4. branch[b].source # c /\ branch[b].point \in Ids
      BY <1>4, <2>2, <2>3 DEF BranchedFrom
    <3>5. CopiesComplete(c)'
      BY <1>0, <2>2, <2>3, <3>1, <3>4, CopyCompletes
    <3>6. MadeBranch(b, c)'
      BY <2>2, <2>3, <3>3, <3>5 DEF MadeBranch
    <3>7. \A d \in ChatIds \ {c} : CopiesOf(d)' = CopiesOf(d)
      BY <1>0, <3>1, CopiesElsewhere
    <3> QED BY <2>1, <2>2, <3>2, <3>3, <3>6, <3>7, BranchInvMade
  <2>5. CASE BranchFails(b) /\ UNCHANGED messages
    BY <1>1, <2>2, <2>5
  <2> QED BY <1>8, <2>4, <2>5 DEF BranchCopies
<1> QED BY <1>5, <1>6, <1>7, <1>8 DEF BranchStep

LEMMA BranchInvStep ==
  ASSUME TypeOK, IInv, [Next]_vars
  PROVE  BranchInv'
<1>0. messages \in Seq(Message) /\ branch \in [Branchers -> BranchType]
  BY Types
<1>1. RowsStay /\ ChatsStay /\ UNCHANGED database
  BY RowsStayStep, ChatsStayStep DEF Next, vars
<1>2. ASSUME UNCHANGED branch, \A c \in ChatIds : CopiesOf(c)' = CopiesOf(c),
             \A c \in ChatIds : chats'[c].kind = "branch" => chats[c].kind = "branch"
      PROVE  BranchInv'
  BY <1>1, <1>2, BranchInvKept
<1>3. ASSUME NEW r \in Requests, ChatStep(r) PROVE BranchInv'
  <2>1. ASSUME ChatStoresQuestion(r) \/ ChatStoresAnswer(r), ~ UNCHANGED messages
        PROVE  \A c \in ChatIds : CopiesOf(c)' = CopiesOf(c)
    <3>1. chat[r].on \in ChatIds
      BY <2>1 DEF ChatStoresQuestion, ChatStoresAnswer, IInv, RequestInv
    <3>2. \E role \in Roles : Insert(chat[r].on, role, r)
      BY <2>1 DEF ChatStoresQuestion, ChatStoresAnswer, Roles
    <3> QED BY <1>0, <3>1, <3>2, CopiesInsert
  <2> QED BY <1>2, <1>3, <2>1, CopiesSame
          DEF ChatStep, ChatReads, ChatStreams, ChatStoresQuestion, ChatStoresAnswer
<1>4. ASSUME NEW n \in Namers, NameStep(n) PROVE BranchInv'
  BY <1>2, <1>4, CopiesSame, NameSavesOnly DEF NameStep, NameChecks, NameSaves
<1>5. ASSUME NEW c \in ChatIds, CreateChat(c) PROVE BranchInv'
  <2>1. \A d \in ChatIds : chats'[d].kind = "branch" => chats[d].kind = "branch"
    BY <1>5, CreateChatAdds
  <2> QED BY <1>2, <1>5, <2>1, CopiesSame DEF CreateChat
<1>6. CASE Crash
  <2>1. \A b \in Branchers :
          /\ branch'[b].source = branch[b].source
          /\ branch'[b].point = branch[b].point
          /\ branch'[b].on = branch[b].on
          /\ \/ branch'[b].pc = branch[b].pc
             \/ branch[b].pc \in {"checked", "copying"} /\ branch'[b].pc = "failed"
    <3> SUFFICES ASSUME NEW b \in Branchers, branch[b].pc \in {"checked", "copying"},
                        branch'[b] = [branch[b] EXCEPT !.pc = "failed"]
                 PROVE  /\ branch'[b].source = branch[b].source
                        /\ branch'[b].point = branch[b].point
                        /\ branch'[b].on = branch[b].on
                        /\ branch'[b].pc = "failed"
      BY <1>6 DEF Crash
    <3> QED BY <1>0 DEF BranchType
  <2>2. UNCHANGED chats /\ \A c \in ChatIds : CopiesOf(c)' = CopiesOf(c)
    BY <1>6, CopiesSame DEF Crash
  <2> QED BY <1>1, <2>1, <2>2, BranchInvKept
<1>7. CASE UNCHANGED vars
  BY <1>2, <1>7, CopiesSame DEF vars
<1> QED BY <1>1, <1>3, <1>4, <1>5, <1>6, <1>7, BranchInvStepBranch
        DEF Next, ChatStep, NameStep, BranchStep

-------------------------------------------------------------------------------
LEMMA TypeOKStep ==
  ASSUME TypeOK, IInv, [Next]_vars
  PROVE  TypeOK'
<1>1. \A r \in Requests : Open(r) => chat[r].on \in ChatIds
  BY DEF Open, IInv, RequestInv
<1>2. \A b \in Branchers : branch[b].pc = "copying" => branch[b].on \in ChatIds
  BY DEF IInv, BranchInv
<1>3. ASSUME NEW c \in ChatIds, CreateChat(c), UNCHANGED database PROVE TypeOK'
  <2>1. [NoChat EXCEPT !.kind = "main"] \in ChatType
    BY DEF NoChat, ChatType
  <2>2. chats' \in [ChatIds -> ChatType]
    BY <1>3, <2>1, Types DEF CreateChat
  <2> QED BY <1>3, <2>2, Types, TypesPrimed DEF CreateChat
<1>4. CASE UNCHANGED vars
  BY <1>4, Types, TypesPrimed DEF vars
<1> QED BY <1>1, <1>2, <1>3, <1>4, TypeOKChat, TypeOKName, TypeOKBranch, TypeOKCrash
        DEF Next, ChatStep, NameStep, BranchStep

LEMMA IInvStep == TypeOK /\ IInv /\ [Next]_vars => TypeOK' /\ IInv'
BY TypeOKStep, RequestInvStep, MessageInvStep, BranchInvStep DEF IInv

LEMMA IInvAlways == Spec => [](TypeOK /\ IInv)
BY TypeOKInit, IInvInit, IInvStep, PTL DEF Spec

(***************************************************************************)
(* Every variable keeps its type, for any number of requests and chats.    *)
(***************************************************************************)
THEOREM TypeCorrect == Spec => []TypeOK
BY IInvAlways, PTL

(***************************************************************************)
(* No branch is ever made of a branch, whatever happens between the check  *)
(* and the insert (service.go:608-631).                                    *)
(***************************************************************************)
THEOREM BranchesAreOfMainChats == Spec => []NoNestedBranch
<1>1. IInv => NoNestedBranch
  BY DEF IInv, BranchInv, MadeBranch, BranchedFrom, NoNestedBranch
<1> QED BY <1>1, IInvAlways, PTL

(***************************************************************************)
(* A branch is a complete copy up to its branch point, in order, or, on    *)
(* SQLite and after a failure, an empty one (dao_sqlite.go:297-330).       *)
(***************************************************************************)
THEOREM BranchesAreComplete == Spec => []BranchIsComplete
<1>1. TypeOK /\ IInv => BranchIsComplete
  <2> SUFFICES ASSUME TypeOK, IInv, NEW c \in ChatIds, chats[c].kind = "branch",
                      ~BranchIs(c, "copying")
               PROVE  CopiesComplete(c) \/ Abandoned(c)
    BY DEF BranchIsComplete
  <2>1. PICK b \in Branchers : branch[b].on = c
    BY DEF IInv, BranchInv
  <2>2. MadeBranch(b, c) /\ branch[b].pc \notin {"new", "checked"}
    BY <2>1 DEF IInv, BranchInv
  <2>3. branch[b].pc \in {"done", "failed"}
    BY <2>1, <2>2, Types DEF BranchIs, BranchType
  <2> QED BY <2>1, <2>2, <2>3 DEF MadeBranch, Abandoned, BranchIs
<1> QED BY <1>1, IInvAlways, PTL

-------------------------------------------------------------------------------
(***************************************************************************)
(* Answers and questions.  Every answer of a chat has a question of its    *)
(* own before it: the one its request stored or, if the answer is a copy,  *)
(* the copy of that one.                                                   *)
(***************************************************************************)
Asks(c, j, q) ==
  /\ q \in IdsOf(c) /\ q < j /\ messages[q].role = "user"
  /\ IF messages[j].of = 0
     THEN messages[q].of = 0 /\ messages[q].by = messages[j].by
     ELSE messages[q].of # 0
          /\ messages[messages[q].of].by = messages[messages[j].of].by

\* The original of a copy is an original row of the parent.
LEMMA CopyOfOriginal ==
  ASSUME TypeOK, IInv, NEW i \in Ids, messages[i].of # 0
  PROVE  /\ chats[messages[i].chat].kind = "branch"
         /\ messages[i].of \in Ids /\ messages[messages[i].of].of = 0
         /\ messages[messages[i].of].role = messages[i].role
         /\ messages[messages[i].of].chat = chats[messages[i].chat].parent
<1>1. CopiedRow(i) /\ messages[i].chat \in ChatIds
  BY DEF IInv, MessageInv
<1> DEFINE k == messages[i].of
           c == messages[i].chat
<1>2. k \in Ids /\ chats[c].kind = "branch" /\ messages[k].chat = chats[c].parent
  BY <1>1 DEF CopiedRow
<1>3. chats[chats[c].parent].kind = "main"
  BY <1>1, <1>2 DEF IInv, BranchInv, MadeBranch, BranchedFrom
<1>4. messages[k].of = 0
  BY <1>2, <1>3 DEF IInv, MessageInv, CopiedRow
<1> QED BY <1>1, <1>2, <1>4 DEF CopiedRow

LEMMA OriginalQuestion ==
  ASSUME TypeOK, IInv, NEW j \in Ids, messages[j].of = 0, messages[j].role = "assistant"
  PROVE  \E q \in Ids : /\ q < j /\ messages[q].chat = messages[j].chat
                        /\ messages[q].role = "user" /\ messages[q].of = 0
                        /\ messages[q].by = messages[j].by
<1> DEFINE r == messages[j].by
<1>1. r \in Requests /\ chat[r].question # 0 /\ messages[j].chat = chat[r].on
      /\ chat[r].question < j
  BY DEF IInv, MessageInv, OriginalRow
<1>2. chat[r].question \in Ids /\ messages[chat[r].question] = Row(chat[r].on, "user", r, 0)
  BY <1>1 DEF IInv, RequestInv
<1> HIDE DEF r
<1> QED BY <1>1, <1>2, RowFields DEF r

\* The copies of a branch that has any are all there, and in order.
LEMMA CopiedBranch ==
  ASSUME TypeOK, IInv, NEW c \in ChatIds, CopiesOf(c) # {}
  PROVE  CopiesComplete(c)
<1>1. PICK i \in CopiesOf(c) : TRUE
  OBVIOUS
<1>2. i \in Ids /\ messages[i].chat = c /\ messages[i].of # 0
  BY <1>1 DEF CopiesOf, IdsOf
<1>3. chats[c].kind = "branch"
  BY <1>2, CopyOfOriginal
<1>4. PICK b \in Branchers : branch[b].on = c
  BY <1>3 DEF IInv, BranchInv
<1>5. MadeBranch(b, c) /\ branch[b].pc \notin {"new", "checked"}
  BY <1>4 DEF IInv, BranchInv
<1>6. branch[b].pc = "done"
  BY <1>1, <1>5, Types DEF BranchType, MadeBranch
<1> QED BY <1>5, <1>6 DEF MadeBranch

LEMMA EveryAnswerIsAsked ==
  ASSUME TypeOK, IInv, NEW c \in ChatIds, NEW j \in IdsOf(c), messages[j].role = "assistant"
  PROVE  \E q \in IdsOf(c) : Asks(c, j, q)
<1>1. j \in Ids /\ messages[j].chat = c
  BY DEF IdsOf
<1>2. CASE messages[j].of = 0
  BY <1>1, <1>2, OriginalQuestion DEF IdsOf, Asks
<1>3. CASE messages[j].of # 0
  <2> DEFINE k == messages[j].of
             p == chats[c].parent
  <2>1. k \in Ids /\ messages[k].of = 0 /\ messages[k].role = "assistant" /\ messages[k].chat = p
    BY <1>1, <1>3, CopyOfOriginal
  <2>2. PICK x \in Ids : /\ x < k /\ messages[x].chat = p
                         /\ messages[x].role = "user" /\ messages[x].by = messages[k].by
    BY <2>1, OriginalQuestion
  <2>3. j \in CopiesOf(c)
    BY <1>3 DEF CopiesOf
  <2>4. CopiesComplete(c)
    BY <2>3, CopiedBranch
  <2>5. k \in {i \in IdsOf(p) : i <= chats[c].point}
    BY <2>3, <2>4 DEF CopiesComplete
  <2>6. x \in {i \in IdsOf(p) : i <= chats[c].point}
    <3>1. x \in Nat /\ k \in Nat /\ chats[c].point \in Nat
      BY <2>1, <2>2, Types DEF Ids, ChatType
    <3> QED BY <2>2, <2>5, <3>1 DEF IdsOf
  <2>7. PICK q \in CopiesOf(c) : messages[q].of = x
    BY <2>4, <2>6 DEF CopiesComplete
  <2>8. q \in IdsOf(c) /\ q \in Ids /\ messages[q].of # 0 /\ messages[q].chat = c
    BY <2>7 DEF CopiesOf, IdsOf
  <2>9. messages[q].role = "user"
    BY <2>2, <2>7, <2>8, CopyOfOriginal
  <2>10. q < j
    <3>1. q \in Nat /\ j \in Nat /\ x \in Nat /\ k \in Nat
      BY <1>1, <2>1, <2>2, <2>8 DEF Ids
    <3>2. j < q => k < x
      BY <2>3, <2>4, <2>7 DEF CopiesComplete
    <3>3. j # q
      BY <2>2, <2>7, <3>1
    <3> QED BY <2>2, <3>1, <3>2, <3>3
  <2> QED BY <1>3, <2>2, <2>7, <2>8, <2>9, <2>10 DEF Asks
<1> QED BY <1>2, <1>3

\* No question is asked for two answers.
LEMMA OneAnswerEach ==
  ASSUME TypeOK, IInv, NEW c \in ChatIds,
         NEW j \in IdsOf(c), messages[j].role = "assistant",
         NEW k \in IdsOf(c), messages[k].role = "assistant",
         NEW q, Asks(c, j, q), Asks(c, k, q)
  PROVE  j = k
<1>1. j \in Ids /\ k \in Ids
  BY DEF IdsOf
<1>2. CASE messages[q].of = 0
  <2>1. /\ messages[j].of = 0 /\ messages[k].of = 0 /\ messages[j].by = messages[k].by
    BY <1>2 DEF Asks
  <2> QED BY <1>1, <2>1 DEF IInv, OneAnswer
<1>3. CASE messages[q].of # 0
  <2> DEFINE x == messages[j].of
             y == messages[k].of
  <2>1. x # 0 /\ y # 0 /\ messages[x].by = messages[y].by
    BY <1>3 DEF Asks
  <2>2. /\ x \in Ids /\ messages[x].of = 0 /\ messages[x].role = "assistant"
        /\ y \in Ids /\ messages[y].of = 0 /\ messages[y].role = "assistant"
    BY <1>1, <2>1, CopyOfOriginal
  <2>3. x = y
    BY <2>1, <2>2 DEF IInv, OneAnswer
  <2>4. j \in CopiesOf(c) /\ k \in CopiesOf(c)
    BY <2>1 DEF CopiesOf
  <2>5. CopiesComplete(c)
    BY <2>4, CopiedBranch
  <2>6. (j < k => x < y) /\ (k < j => y < x)
    BY <2>4, <2>5 DEF CopiesComplete
  <2>7. j \in Nat /\ k \in Nat /\ x \in Nat
    BY <1>1, <2>2 DEF Ids
  <2> QED BY <2>3, <2>6, <2>7
<1> QED BY <1>2, <1>3

(***************************************************************************)
(* At no place of a chat are there more answers than questions so far:     *)
(* giving each answer its question is one-to-one (service.go:151-226).     *)
(***************************************************************************)
THEOREM AnswersAreAsked == Spec => []AnswersFollowQuestions
<1>1. TypeOK /\ IInv => AnswersFollowQuestions
  <2> SUFFICES ASSUME TypeOK, IInv, NEW c \in ChatIds, NEW i \in IdsOf(c)
               PROVE  Cardinality(SoFar(c, "assistant", i)) <= Cardinality(SoFar(c, "user", i))
    BY DEF AnswersFollowQuestions
  <2> DEFINE A == SoFar(c, "assistant", i)
             Q == SoFar(c, "user", i)
  <2>1. /\ A \subseteq Ids /\ Q \subseteq Ids /\ i \in Ids
        /\ \A j \in A : j \in IdsOf(c) /\ j <= i /\ messages[j].role = "assistant"
    BY DEF SoFar, IdsOf
  <2>2. \A j \in A : \E q \in Q : Asks(c, j, q)
    <3> SUFFICES ASSUME NEW j \in A PROVE \E q \in Q : Asks(c, j, q)
      OBVIOUS
    <3>1. PICK q \in IdsOf(c) : Asks(c, j, q)
      BY <2>1, EveryAnswerIsAsked
    <3>2. q \in Nat /\ j \in Nat /\ i \in Nat
      BY <2>1 DEF IdsOf, Ids
    <3>3. q <= i
      BY <2>1, <3>1, <3>2 DEF Asks
    <3> QED BY <3>1, <3>3 DEF SoFar, Asks
  <2> DEFINE f == [j \in A |-> CHOOSE q \in Q : Asks(c, j, q)]
  <2>3. \A j \in A : f[j] \in Q /\ Asks(c, j, f[j])
    BY <2>2
  <2>4. f \in Injection(A, Q)
    <3>1. f \in [A -> Q]
      BY <2>3
    <3>2. \A j, k \in A : f[j] = f[k] => j = k
      BY <2>1, <2>3, OneAnswerEach
    <3> QED BY <3>1, <3>2, Fun_IsInj
  <2>5. IsFiniteSet(Q)
    BY <2>1, IdsFinite, Types
  <2> QED BY <2>4, <2>5, FS_Injection
<1> QED BY <1>1, IInvAlways, PTL

-------------------------------------------------------------------------------
(* ContextComplete: what a question can have missed of its chat.           *)

(***************************************************************************)
(* Two requests open on one chat: the one that read its history later      *)
(* counts the other as open at the time.                                   *)
(***************************************************************************)
PeersInv ==
  \A r, q \in Requests :
    r # q /\ Open(r) /\ Open(q) /\ chat[r].on = chat[q].on
      => r \in chat[q].peers \/ q \in chat[r].peers

Excused(r, i) ==
  IF messages[i].of # 0 THEN database = "sqlite"
  ELSE messages[i].by \in chat[r].peers \/ r \in chat[messages[i].by].peers

(***************************************************************************)
(* Until the question is stored everything unseen is excused; from then on *)
(* everything unseen before the question.                                  *)
(***************************************************************************)
ContextInv ==
  \A r \in Requests : \A i \in IdsOf(chat[r].on) :
    (chat[r].pc = "read" \/ i < chat[r].question) /\ i \notin chat[r].seen
      => Excused(r, i)

CInv == PeersInv /\ ContextInv

LEMMA CInvInit == Init => CInv
BY DEF Init, CInv, PeersInv, ContextInv, Open, IdsOf, Ids

-------------------------------------------------------------------------------
\* What a step does to a request.
LEMMA RequestMoves ==
  ASSUME TypeOK, IInv, [Next]_vars, NEW r \in Requests, chat'[r] # chat[r]
  PROVE  \/ \E c \in ChatIds : ChatReads(r, c)
         \/ /\ chat[r].pc # "new" /\ chat'[r].pc # "read"
            /\ Open(r)' => Open(r)
            /\ chat'[r].question # chat[r].question =>
                 /\ chat[r].pc = "read" /\ chat'[r].question = Len(messages) + 1
                 /\ Len(messages') = Len(messages) + 1
<1>0. chat \in [Requests -> RequestType] /\ messages \in Seq(Message)
  BY Types
<1>1. \/ ChatStep(r) \/ (Crash /\ Open(r))
  <2>1. ASSUME NEW q \in Requests, q # r, ChatStep(q) PROVE chat'[r] = chat[r]
    BY <1>0, <2>1 DEF ChatStep, ChatReads, ChatStoresQuestion, ChatStreams,
                      ChatStoresAnswer, ChatFails
  <2>2. CASE Crash
    BY <2>2 DEF Crash
  <2> QED BY <2>1, <2>2 DEF Next, vars, ChatStep, CreateChat, NameChecks, NameSaves,
                            BranchChecks, BranchCommits, BranchCreates, BranchCopies
<1>2. ASSUME Open(r), NEW pc \in {"answered", "done"}, chat'[r] = [chat[r] EXCEPT !.pc = pc]
      PROVE  /\ chat[r].pc # "new" /\ chat'[r].pc # "read" /\ Open(r)
             /\ chat'[r].question = chat[r].question
  <2>1. chat'[r].pc = pc /\ chat'[r].question = chat[r].question
    BY <1>0, <1>2 DEF RequestType
  <2> QED BY <1>2, <2>1 DEF Open
<1>3. ASSUME ChatStreams(r) \/ ChatStoresAnswer(r) \/ (Crash /\ Open(r))
             \/ (ChatStoresQuestion(r) /\ ChatFails(r))
      PROVE  \E pc \in {"answered", "done"} : Open(r) /\ chat'[r] = [chat[r] EXCEPT !.pc = pc]
  BY <1>0, <1>3 DEF ChatStreams, ChatStoresAnswer, ChatStoresQuestion, ChatFails, Crash, Open
<1>4. ASSUME ChatStoresQuestion(r), ~ChatFails(r)
      PROVE  /\ chat[r].pc = "read" /\ chat'[r].pc = "asked" /\ Open(r)
             /\ chat'[r].question = Len(messages) + 1
             /\ Len(messages') = Len(messages) + 1
  <2>1. /\ chat[r].pc = "read" /\ Insert(chat[r].on, "user", r)
        /\ chat'[r] = [chat[r] EXCEPT !.pc = "asked", !.question = Len(messages) + 1]
    BY <1>0, <1>4 DEF ChatStoresQuestion
  <2>2. chat'[r].pc = "asked" /\ chat'[r].question = Len(messages) + 1
    BY <1>0, <2>1 DEF RequestType
  <2>3. chat[r].on \in ChatIds /\ "user" \in Roles
    BY <2>1 DEF IInv, RequestInv, Roles
  <2> QED BY <1>0, <2>1, <2>2, <2>3, InsertEffect DEF Open
<1> QED BY <1>1, <1>2, <1>3, <1>4 DEF ChatStep

\* A request that reads the history, and the others meanwhile.
LEMMA ReadEffect ==
  ASSUME TypeOK, NEW r \in Requests, NEW c \in ChatIds, ChatReads(r, c)
  PROVE  /\ chat'[r].pc = "read" /\ chat'[r].on = c /\ chat'[r].seen = IdsOf(c)
         /\ chat'[r].peers = OpenOn(c) /\ chat'[r].question = 0
         /\ chat[r].pc = "new" /\ UNCHANGED messages
         /\ \A q \in Requests \ {r} : chat'[q] = chat[q]
BY Types DEF ChatReads

LEMMA PeersInvStep ==
  ASSUME TypeOK, IInv, PeersInv, [Next]_vars
  PROVE  PeersInv'
<1>0. RequestsStay
  BY RequestsStayStep
<1>1. ASSUME NEW r \in Requests, NEW c \in ChatIds, ChatReads(r, c),
             NEW q \in Requests, q # r, Open(q)', chat'[q].on = chat'[r].on
      PROVE  q \in chat'[r].peers
  BY <1>1, ReadEffect DEF OpenOn, Open
<1> SUFFICES ASSUME NEW r \in Requests, NEW q \in Requests, r # q, Open(r)', Open(q)',
                    chat'[r].on = chat'[q].on
             PROVE  r \in chat'[q].peers \/ q \in chat'[r].peers
  BY DEF PeersInv
<1>2. CASE \E c \in ChatIds : ChatReads(r, c) \/ ChatReads(q, c)
  BY <1>1, <1>2
<1>3. CASE ~ \E c \in ChatIds : ChatReads(r, c) \/ ChatReads(q, c)
  <2>1. Open(r) /\ Open(q)
    BY <1>3, RequestMoves DEF Open
  <2> QED BY <1>0, <2>1 DEF RequestsStay, PeersInv, Open
<1> QED BY <1>2, <1>3

-------------------------------------------------------------------------------
\* An excuse holds for good.
LEMMA ExcusedStays ==
  ASSUME TypeOK, IInv, [Next]_vars, NEW r \in Requests, chat[r].pc # "new",
         NEW i \in Ids, Excused(r, i)
  PROVE  Excused(r, i)'
<1>1. RowsStay /\ RequestsStay /\ UNCHANGED database
  BY RowsStayStep, RequestsStayStep DEF Next, vars
<1>2. messages'[i] = messages[i] /\ chat'[r].peers = chat[r].peers
  BY <1>1 DEF RowsStay, RequestsStay
<1>3. messages[i].of = 0 => /\ messages[i].by \in Requests
                            /\ chat'[messages[i].by].peers = chat[messages[i].by].peers
  BY <1>1 DEF IInv, MessageInv, OriginalRow, RequestInv, RequestsStay
<1> QED BY <1>1, <1>2, <1>3 DEF Excused

\* The row a request adds itself is its question, or its answer and its end.
LEMMA OwnRow ==
  ASSUME TypeOK, IInv, [Next]_vars, NEW r \in Requests, NEW i \in Ids' \ Ids,
         messages'[i].of = 0, messages'[i].by = r
  PROVE  \/ chat'[r].pc = "asked" /\ chat'[r].question = i
         \/ chat[r].pc = "answered" /\ chat'[r].pc = "done"
<1>0. /\ messages \in Seq(Message) /\ Len(messages) \in Nat
      /\ chat \in [Requests -> RequestType]
  BY Types
<1>1. RequestsStay /\ RequestInv' /\ ~ UNCHANGED messages
  BY RequestsStayStep, RequestInvStep DEF Ids
<1>2. ASSUME NEW b \in Branchers, NEW c \in ChatIds, CopyRows(b, c),
             chats'[c].kind = "branch", chats'[c].parent = branch[b].source
      PROVE  FALSE
  BY <1>0, <1>2, NewCopies
<1>3. PICK q \in Requests : ChatStoresQuestion(q) \/ ChatStoresAnswer(q)
  BY <1>1, <1>2, WhoAddsRows
<1>4. PICK n \in Nat : n = Len(messages) + 1
  BY <1>0
<1>5. Ids' = Ids \union {n} /\ messages'[n].by = q
  BY <1>1, <1>3, <1>4, NewOriginal
<1>6. i = n /\ q = r
  BY <1>5
<1>7. CASE ChatStoresQuestion(r)
  <2>1. chat'[r] = [chat[r] EXCEPT !.pc = "asked", !.question = Len(messages) + 1]
    BY <1>0, <1>1, <1>7 DEF ChatStoresQuestion
  <2>2. chat'[r].pc = "asked" /\ chat'[r].question = Len(messages) + 1
    BY <1>0, <2>1 DEF RequestType
  <2> QED BY <1>4, <1>6, <2>2
<1>8. CASE ChatStoresAnswer(r)
  <2>1. chat[r].pc = "answered" /\ chat'[r] = [chat[r] EXCEPT !.pc = "done"]
    BY <1>0, <1>8 DEF ChatStoresAnswer
  <2> QED BY <1>0, <2>1 DEF RequestType
<1> QED BY <1>3, <1>6, <1>7, <1>8

\* A step that adds a row of its own adds no other.
LEMMA OneOriginal ==
  ASSUME TypeOK, IInv, [Next]_vars, NEW i \in Ids' \ Ids, messages'[i].of = 0
  PROVE  Len(messages') = Len(messages) + 1
<1>0. messages \in Seq(Message)
  BY Types
<1>1. ~ UNCHANGED messages
  BY DEF Ids
<1>2. PICK r \in Requests : ChatStoresQuestion(r) \/ ChatStoresAnswer(r)
  BY <1>0, <1>1, WhoAddsRows, NewCopies
<1>3. chat[r].on \in ChatIds
  BY <1>2 DEF ChatStoresQuestion, ChatStoresAnswer, IInv, RequestInv
<1>4. \E role \in Roles : Insert(chat[r].on, role, r)
  BY <1>1, <1>2 DEF ChatStoresQuestion, ChatStoresAnswer, Roles
<1> QED BY <1>0, <1>3, <1>4, InsertEffect

(***************************************************************************)
(* A row that somebody else adds to a chat while a request is open on it   *)
(* comes from another request open on the chat or, on SQLite, is a copy;   *)
(* the transaction of Postgres fills only a chat that is new.              *)
(***************************************************************************)
LEMMA NewRowExcused ==
  ASSUME TypeOK, IInv, PeersInv, [Next]_vars, NEW r \in Requests, Open(r),
         NEW i \in Ids' \ Ids, messages'[i].chat = chat[r].on,
         messages'[i].of # 0 \/ messages'[i].by # r
  PROVE  Excused(r, i)'
<1>0. /\ messages \in Seq(Message) /\ Len(messages) \in Nat
      /\ chat \in [Requests -> RequestType]
  BY Types
<1>1. RequestsStay /\ RequestInv' /\ UNCHANGED database
  BY RequestsStayStep, RequestInvStep DEF Next, vars
<1>2. ~ UNCHANGED messages
  BY DEF Ids
<1>3. ASSUME NEW q \in Requests, ChatStoresQuestion(q) \/ ChatStoresAnswer(q)
      PROVE  Excused(r, i)'
  <2>1. PICK n \in Nat : n = Len(messages) + 1
    BY <1>0
  <2>2. /\ Ids' = Ids \union {n} /\ messages'[n].chat = chat[q].on
        /\ messages'[n].of = 0 /\ messages'[n].by = q
    BY <1>1, <1>2, <1>3, <2>1, NewOriginal
  <2>3. Open(q) /\ chat[q].on = chat[r].on /\ q # r
    BY <1>3, <2>2 DEF Open, ChatStoresQuestion, ChatStoresAnswer
  <2>4. q \in chat[r].peers \/ r \in chat[q].peers
    BY <2>3 DEF PeersInv
  <2>5. chat'[r].peers = chat[r].peers /\ chat'[q].peers = chat[q].peers
    BY <1>1, <2>3 DEF RequestsStay, Open
  <2> QED BY <2>2, <2>4, <2>5 DEF Excused
<1>4. ASSUME NEW b \in Branchers, NEW c \in ChatIds, BranchCommits(b, c) PROVE Excused(r, i)'
  <2>1. CopyRows(b, c) /\ ~Exists(c) /\ chats'[c].kind = "branch"
        /\ chats'[c].parent = branch[b].source
    BY <1>2, <1>4, BranchRowAdds DEF BranchCommits
  <2>2. messages'[i].chat = c
    BY <1>0, <2>1, NewCopies
  <2>3. Exists(chat[r].on)
    BY DEF IInv, RequestInv, Open
  <2> QED BY <2>1, <2>2, <2>3
<1>5. ASSUME NEW b \in Branchers, BranchCopies(b) PROVE Excused(r, i)'
  <2>1. PICK c \in ChatIds : c = branch[b].on
    BY <1>5 DEF BranchCopies, IInv, BranchInv
  <2>2. MadeBranch(b, c) /\ UNCHANGED chats
    BY <1>5, <2>1 DEF IInv, BranchInv, BranchCopies
  <2>3. CopyRows(b, c) /\ branch[b].pc = "copying"
    BY <1>2, <1>5, <2>1 DEF BranchCopies
  <2>4. database = "sqlite" /\ chats'[c].kind = "branch" /\ chats'[c].parent = branch[b].source
    BY <2>2, <2>3 DEF MadeBranch
  <2>5. messages'[i].of # 0
    BY <1>0, <2>3, <2>4, NewCopies
  <2> QED BY <1>1, <2>4, <2>5 DEF Excused
<1> QED BY <1>2, <1>3, <1>4, <1>5
        DEF Next, vars, CreateChat, ChatReads, ChatStreams, NameChecks, NameSaves,
            BranchChecks, BranchCreates, Crash

LEMMA ContextInvStep ==
  ASSUME TypeOK, IInv, CInv, [Next]_vars
  PROVE  ContextInv'
<1>0. messages \in Seq(Message) /\ Len(messages) \in Nat
  BY Types
<1>1. RowsStay /\ RequestsStay /\ RequestInv'
  BY RowsStayStep, RequestsStayStep, RequestInvStep
<1>2. messages' \in Seq(Message) /\ Len(messages') \in Nat
  BY <1>1 DEF RowsStay
<1> SUFFICES ASSUME NEW r \in Requests, NEW i \in Ids', messages'[i].chat = chat'[r].on,
                    chat'[r].pc = "read" \/ i < chat'[r].question, i \notin chat'[r].seen
             PROVE  Excused(r, i)'
  BY DEF ContextInv, IdsOf
<1>3. i \in Nat /\ i # 0
  BY <1>2 DEF Ids
<1>4. chat[r].pc # "new"
  <2> SUFFICES ASSUME chat[r].pc = "new" PROVE FALSE
    OBVIOUS
  <2>1. ASSUME NEW c \in ChatIds, ChatReads(r, c) PROVE FALSE
    BY <2>1, ReadEffect DEF IdsOf, Ids
  <2>2. CASE chat'[r] = chat[r]
    <3>1. chat'[r].pc = "new" /\ chat'[r].question = 0
      BY <2>2 DEF IInv, RequestInv
    <3> QED BY <1>3, <3>1
  <2> QED BY <2>1, <2>2, RequestMoves
<1>5. /\ chat'[r].on = chat[r].on /\ chat'[r].seen = chat[r].seen
      /\ chat[r].question # 0 => chat'[r].question = chat[r].question
  BY <1>1, <1>4 DEF RequestsStay
<1>6. ~ \E c \in ChatIds : ChatReads(r, c)
  BY <1>4, ReadEffect
<1>7. /\ chat'[r].pc = "read" => chat[r].pc = "read"
      /\ chat'[r].question # chat[r].question =>
           chat[r].pc = "read" /\ chat'[r].question = Len(messages) + 1
           /\ Len(messages') = Len(messages) + 1
  BY <1>6, RequestMoves
<1>8. CASE i \in Ids
  <2>1. messages[i].chat = chat[r].on
    BY <1>1, <1>5, <1>8 DEF RowsStay
  <2>2. chat[r].pc = "read" \/ i < chat[r].question
    BY <1>7
  <2>3. Excused(r, i)
    BY <1>5, <1>8, <2>1, <2>2 DEF CInv, ContextInv, IdsOf
  <2> QED BY <1>4, <1>8, <2>3, ExcusedStays
<1>9. CASE i \notin Ids
  <2>1. ~ (i < chat'[r].question)
    <3> SUFFICES ASSUME i < chat'[r].question PROVE FALSE
      OBVIOUS
    <3>1. CASE chat'[r].question = chat[r].question
      <4>1. chat[r].question \in Ids \/ chat[r].question = 0
        BY DEF IInv, RequestInv
      <4> QED BY <1>0, <1>3, <1>9, <3>1, <4>1 DEF Ids
    <3>2. CASE chat'[r].question # chat[r].question
      <4>1. chat'[r].question = Len(messages) + 1
        BY <1>7, <3>2
      <4> QED BY <1>0, <1>3, <1>9, <4>1 DEF Ids
    <3> QED BY <3>1, <3>2
  <2>2. chat[r].pc = "read" /\ chat'[r].pc = "read"
    BY <1>7, <2>1
  <2>3. messages'[i].of # 0 \/ messages'[i].by # r
    BY <1>9, <2>2, OwnRow
  <2> QED BY <1>5, <1>9, <2>2, <2>3, NewRowExcused DEF CInv, Open
<1> QED BY <1>8, <1>9

(***************************************************************************)
(* A question is sent with all that was said before it, except by requests *)
(* open at the same time and, on SQLite, copies still to come              *)
(* (service.go:104-151).                                                   *)
(***************************************************************************)
THEOREM QuestionsKnowTheirChat == Spec => []ContextComplete
<1>1. TypeOK /\ IInv /\ CInv /\ [Next]_vars => CInv'
  BY PeersInvStep, ContextInvStep DEF CInv
<1>2. CInv => ContextComplete
  BY DEF CInv, ContextInv, ContextComplete, Excused
<1> QED BY <1>1, <1>2, CInvInit, IInvAlways, PTL DEF Spec

-------------------------------------------------------------------------------
(* Requests that have a chat to themselves.                                *)

\* No other request was open on the chat at any time while this one was.
Alone(r) == chat[r].peers = {} /\ \A q \in Requests : r \notin chat[q].peers

AnswerOf(r, i) ==
  messages[i].of = 0 /\ messages[i].role = "assistant" /\ messages[i].by = r

\* What a request has seen was there before its question.
SeenInv ==
  \A r \in Requests :
    /\ chat[r].seen \subseteq IdsOf(chat[r].on)
    /\ chat[r].question # 0 => \A i \in chat[r].seen : i < chat[r].question

\* What comes after the question is excused, up to the answer or, while there
\* is none, the last row.
AfterInv ==
  \A r \in Requests : \A i \in IdsOf(chat[r].on) :
    /\ chat[r].question # 0 /\ chat[r].question < i
    /\ Open(r) \/ \E a \in Ids : i < a /\ AnswerOf(r, a)
    => Excused(r, i)

LEMMA SeenInvStep ==
  ASSUME TypeOK, IInv, SeenInv, [Next]_vars
  PROVE  SeenInv'
<1>0. messages \in Seq(Message) /\ Len(messages) \in Nat
  BY Types
<1>1. RowsStay /\ RequestsStay
  BY RowsStayStep, RequestsStayStep
<1> DEFINE SeenThere(s) == \A i \in chat'[s].seen : i \in Ids' /\ messages'[i].chat = chat'[s].on
           SeenBefore(s) == chat'[s].question # 0 => \A i \in chat'[s].seen : i < chat'[s].question
<1> SUFFICES ASSUME NEW r \in Requests
             PROVE  SeenThere(r) /\ SeenBefore(r)
  <2>1. ASSUME NEW s \in Requests, SeenThere(s) /\ SeenBefore(s)
        PROVE  /\ chat'[s].seen \subseteq {i \in Ids' : messages'[i].chat = chat'[s].on}
               /\ chat'[s].question # 0 => \A i \in chat'[s].seen : i < chat'[s].question
    BY <2>1
  <2> HIDE DEF SeenThere, SeenBefore
  <2> QED BY <2>1 DEF SeenInv, IdsOf
<1>2. ASSUME NEW c \in ChatIds, ChatReads(r, c)
      PROVE  SeenThere(r) /\ SeenBefore(r)
  BY <1>2, ReadEffect DEF IdsOf, Ids
<1>3. ASSUME chat'[r].on = chat[r].on, chat'[r].seen = chat[r].seen
      PROVE  SeenThere(r)
  BY <1>1, <1>3 DEF SeenInv, RowsStay, IdsOf
<1>4. CASE chat'[r] = chat[r]
  BY <1>3, <1>4 DEF SeenInv
<1>5. CASE chat'[r] # chat[r] /\ ~ \E c \in ChatIds : ChatReads(r, c)
  <2>1. /\ chat[r].pc # "new"
        /\ chat'[r].question # chat[r].question => chat'[r].question = Len(messages) + 1
    BY <1>5, RequestMoves
  <2>2. chat'[r].on = chat[r].on /\ chat'[r].seen = chat[r].seen
    BY <1>1, <2>1 DEF RequestsStay
  <2>3. \A i \in chat[r].seen : i \in Nat /\ i < Len(messages) + 1
    BY <1>0 DEF SeenInv, IdsOf, Ids
  <2>4. chat'[r].question # 0 => \A i \in chat'[r].seen : i < chat'[r].question
    <3>1. CASE chat'[r].question = chat[r].question
      BY <2>2, <3>1 DEF SeenInv
    <3>2. CASE chat'[r].question = Len(messages) + 1
      BY <2>2, <2>3, <3>2
    <3> QED BY <2>1, <3>1, <3>2
  <2> QED BY <1>3, <2>2, <2>4
<1> QED BY <1>2, <1>4, <1>5

LEMMA AfterInvStep ==
  ASSUME TypeOK, IInv, PeersInv, AfterInv, [Next]_vars
  PROVE  AfterInv'
<1>0. messages \in Seq(Message) /\ Len(messages) \in Nat
  BY Types
<1>1. RowsStay /\ RequestsStay /\ RequestInv'
  BY RowsStayStep, RequestsStayStep, RequestInvStep
<1> SUFFICES ASSUME NEW r \in Requests, NEW i \in Ids', messages'[i].chat = chat'[r].on,
                    chat'[r].question # 0, chat'[r].question < i,
                    Open(r)' \/ \E a \in Ids' : i < a /\ AnswerOf(r, a)'
             PROVE  Excused(r, i)'
  BY DEF AfterInv, IdsOf
<1>2. i \in Nat /\ i # 0 /\ messages' \in Seq(Message) /\ Len(messages') \in Nat
  BY <1>1 DEF RowsStay, Ids
<1>3. ~ \E c \in ChatIds : ChatReads(r, c)
  BY ReadEffect
<1>4. chat[r].pc # "new" /\ (Open(r)' => Open(r))
  <2>1. CASE chat'[r] = chat[r]
    BY <2>1 DEF IInv, RequestInv, Open
  <2>2. CASE chat'[r] # chat[r]
    BY <1>3, <2>2, RequestMoves
  <2> QED BY <2>1, <2>2
<1>5. chat'[r].on = chat[r].on
  BY <1>1, <1>4 DEF RequestsStay
<1>6. chat'[r].question # chat[r].question =>
           chat'[r].question = Len(messages) + 1 /\ Len(messages') = Len(messages) + 1
  BY <1>3, RequestMoves
<1>7. chat'[r].question = chat[r].question
  BY <1>2, <1>6 DEF Ids
<1>8. ASSUME NEW a \in Ids' \ Ids, AnswerOf(r, a)' PROVE chat[r].pc = "answered"
  <2>1. \/ chat'[r].pc = "asked" /\ chat'[r].question = a
        \/ chat[r].pc = "answered"
    BY <1>8, OwnRow DEF AnswerOf
  <2>2. chat'[r].question # a
    <3> SUFFICES ASSUME chat'[r].question = a PROVE FALSE
      OBVIOUS
    <3>1. chat[r].question = a
      BY <1>7
    <3>2. chat[r].question \in Ids
      BY <1>7 DEF IInv, RequestInv
    <3> QED BY <3>1, <3>2
  <2> QED BY <2>1, <2>2
<1>9. CASE i \in Ids
  <2>1. Open(r) \/ \E a \in Ids : i < a /\ AnswerOf(r, a)
    <3>1. ASSUME NEW a \in Ids', i < a, AnswerOf(r, a)', a \in Ids PROVE AnswerOf(r, a)
      BY <1>1, <3>1 DEF RowsStay, AnswerOf
    <3> QED BY <1>4, <1>8, <3>1 DEF Open
  <2>2. messages[i].chat = chat[r].on
    BY <1>1, <1>5, <1>9 DEF RowsStay
  <2>3. Excused(r, i)
    BY <1>7, <1>9, <2>1, <2>2 DEF AfterInv, IdsOf
  <2> QED BY <1>4, <1>9, <2>3, ExcusedStays
<1>10. CASE i \notin Ids
  <2>1. ASSUME NEW a \in Ids', i < a, AnswerOf(r, a)' PROVE FALSE
    <3>1. a \notin Ids
      BY <1>0, <1>2, <1>10, <2>1 DEF Ids
    <3>2. Len(messages') = Len(messages) + 1
      BY <1>0, <2>1, <3>1, OneOriginal DEF AnswerOf
    <3> QED BY <1>0, <1>2, <1>10, <2>1, <3>1, <3>2 DEF Ids
  <2>2. Open(r)' /\ Open(r)
    BY <1>4, <2>1
  <2>3. messages'[i].of # 0 \/ messages'[i].by # r
    <3> SUFFICES ASSUME messages'[i].of = 0, messages'[i].by = r PROVE FALSE
      OBVIOUS
    <3>1. chat'[r].question = i \/ chat'[r].pc = "done"
      BY <1>10, OwnRow
    <3> QED BY <1>2, <2>2, <3>1 DEF Open
  <2> QED BY <1>5, <1>10, <2>2, <2>3, NewRowExcused
<1> QED BY <1>9, <1>10

(***************************************************************************)
(* Requests that have a chat to themselves make a dialogue of it, through  *)
(* errors and crashes: each is sent with all that was said before its      *)
(* question, and with nothing else, and its answer is the next message     *)
(* after the question.  Only copies that reach a branch on SQLite after it *)
(* could be seen may be missed or come in between (service.go:104-226).    *)
(***************************************************************************)
LateCopy(i) == messages[i].of # 0 /\ database = "sqlite"

AloneIsDialogue ==
  \A r \in Requests : Alone(r) /\ chat[r].question # 0 =>
    /\ chat[r].seen \subseteq {i \in IdsOf(chat[r].on) : i < chat[r].question}
    /\ \A i \in IdsOf(chat[r].on) :
         /\ i < chat[r].question => i \in chat[r].seen \/ LateCopy(i)
         /\ \A a \in Ids : AnswerOf(r, a) /\ chat[r].question < i /\ i < a => LateCopy(i)

THEOREM OneAtATimeIsDialogue == Spec => []AloneIsDialogue
<1> DEFINE AInv == CInv /\ SeenInv /\ AfterInv
<1>1. Init => AInv
  BY CInvInit DEF Init, SeenInv, AfterInv, IdsOf, Ids
<1>2. TypeOK /\ IInv /\ AInv /\ [Next]_vars => AInv'
  BY PeersInvStep, ContextInvStep, SeenInvStep, AfterInvStep DEF CInv
<1>3. TypeOK /\ IInv /\ AInv => AloneIsDialogue
  <2> SUFFICES ASSUME TypeOK, IInv, AInv, NEW r \in Requests, Alone(r),
                      chat[r].question # 0
               PROVE  /\ chat[r].seen \subseteq
                           {i \in IdsOf(chat[r].on) : i < chat[r].question}
                      /\ \A i \in IdsOf(chat[r].on) :
                           /\ i < chat[r].question => i \in chat[r].seen \/ LateCopy(i)
                           /\ \A a \in Ids : AnswerOf(r, a) /\ chat[r].question < i /\ i < a
                                               => LateCopy(i)
    BY DEF AloneIsDialogue
  <2>1. ASSUME NEW i \in IdsOf(chat[r].on), Excused(r, i) PROVE LateCopy(i)
    <3>1. i \in Ids /\ (messages[i].of = 0 => messages[i].by \in Requests)
      BY DEF IdsOf, IInv, MessageInv, OriginalRow
    <3> QED BY <2>1, <3>1 DEF Excused, Alone, LateCopy
  <2>2. chat[r].seen \subseteq {i \in IdsOf(chat[r].on) : i < chat[r].question}
    BY DEF SeenInv
  <2>3. ASSUME NEW i \in IdsOf(chat[r].on), i < chat[r].question
        PROVE  i \in chat[r].seen \/ LateCopy(i)
    BY <2>1, <2>3 DEF CInv, ContextInv
  <2>4. ASSUME NEW i \in IdsOf(chat[r].on), NEW a \in Ids, AnswerOf(r, a),
               chat[r].question < i, i < a
        PROVE  LateCopy(i)
    BY <2>1, <2>4 DEF AfterInv
  <2> QED BY <2>2, <2>3, <2>4
<1> HIDE DEF AInv
<1> QED BY <1>1, <1>2, <1>3, IInvAlways, PTL DEF Spec
===============================================================================
