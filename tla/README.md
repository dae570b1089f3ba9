# A TLA+ verification of sortedchat

sortedchat is a self-hosted ChatGPT-like program: a Go backend
(`src/backend`) that keeps chats, projects and documents in SQLite or Postgres
and talks to a language model and an embedder, and a web client (`src/frontend`).
This directory holds TLA+ models of the parts where requests, goroutines,
callbacks, crashes and errors interact, TLC runs that check them on small
instances, and TLAPS proofs of all their safety properties for every instance.

Contents: [1 The system](#1-the-system) · [2 Modules](#2-modules) ·
[3 Runs](#3-runs-bounds-and-fairness) · [4 What the violation runs show](#4-what-the-violation-runs-show) ·
[5 Proofs](#5-proofs) · [6 What is only model-checked, and what is not modelled](#6-what-is-only-model-checked-and-what-is-not-modelled) ·
[7 Plan](#7-plan)

## 1 The system

```
 web client --gRPC-web--> api/api.go --> service/service.go --+--> dao/*  (SQLite | Postgres)
      |                                     |      |          +--> store/store.go (files)
      +-- HTTP /upload, /documents (api/http.go)   |          +--> language model (HTTP stream)
                                            |      |
             settings.changed, generate.embedding  |
                                            v      v
                       queue/queue.go (in memory, publish/subscribe)
                              |                        |
              settings/settings.go goroutine     EmbeddingSubscriber goroutine
              (reloads the cached settings)      (chunks, embeds, stores; rag/*, embedder)
```

| Component | State | Operations | What is hard | What makes it correct |
|---|---|---|---|---|
| Message queue (`queue/queue.go`) | map of subscriber channels, `closed`, message counter; one watcher goroutine per subscription | Publish, Subscribe, Close, cancellation | the watcher closes the channel outside the lock; Close closes it too; full channels are skipped; a done context races a send | never a send on a closed channel; order; a message is missed only for a stated reason; readers get out |
| Settings (`settings/settings.go`, `service/settings_service.go`, `mono/main.go`) | the row, the mark `is_first_boot`, the cached copy | boot, SetSetting, reload on event, two reads per Chat | the subscriber starts in its own goroutine; row and event are two steps; reload errors are ignored; crash during first boot | the copy follows the row and never goes back; defaults never replace a user's settings |
| Documents (`service/service.go`: UploadFile, EmbeddingSubscriber, SubmitGenerateEmbeddingsJob; `store/store.go`) | files, `project_docs.embedding_status`, chunk tables, the event queue | upload, index, retry | five steps per document without a transaction; events are lost; the job writes its status after its event; errors are printed and passed over | a row has its file; nothing is silently stuck; SUCCESS means searchable; no duplicates |
| Chats (`service/service.go`: CreateChat, Chat, GenerateChatName, BranchAChat) | `chat_list`, `chat_messages` | as named | nothing locks a chat; question and answer are stored minutes apart; SQLite branches in two statements | branches are complete copies of main chats; answers follow questions; context is complete; a name is kept |
| Upload limits (`api/http.go`, `service.go:459-489`, `store/store.go`) | `project_docs.file_size`, the files | compare, write, insert | check and insert are apart; the web client uploads a selection at once; kilobytes against bytes; a copy can break off | the overrun is bounded; the table counts what is stored; a listed file is whole |
| Chunker and retrieval (`rag/*`, `service.go:503-571`, `690-702`) | chunk and vector tables | chunk, store, search, slice the file | byte ranges of a normalised text applied to the original; a two-row search before the project filter; a search while the worker stores | the text found is the text embedded; nothing but the stated causes costs a question its context |
| Web client, chat view (`frontend/src/store/chat.ts`, `pages/*`) | the open chat, its messages, the bubble, calls under way | open, ask, ask in a new chat | answers arrive after the user has moved on, or in another order; a timer sends the first question | messages appear in their own chat, once; nothing loads for good |
| Reads (lists, history, search), projects | tables | SELECTs, one INSERT | little | – |
| Web client, lists and settings form | one atom each | calls, timed refreshes | an older answer replaces a newer one | – |
| Start-up, migrations, configuration | schema version | once per start | little | – |

Every request runs in a goroutine of its own as the hard-coded user 0. The only
lock besides `database/sql`'s is the queue's mutex and the mutex of the
settings copy.

## 2 Modules

| Module | Extends | Models |
|---|---|---|
| `LossyBroadcast` | – | what a user of the queue may rely on: the abstract specification |
| `MessageQueue` | – | `queue.go`, statement groups under the mutex as actions; implements `LossyBroadcast` |
| `SettingsSync` | – | settings, first boot, cache, the two reads of Chat; the queue as `MessageQueue` shows it |
| `DocumentPipeline` | – | upload, worker, retry job, crash and restart |
| `UploadQuota` | – | the limits of UploadFile, the file being written, the row with its size |
| `Chunker` | – | the loop of `EqualSizeChunker.Chunk` |
| `Retrieval` | `Chunker` | the worker's inserts, the vector search of both databases, the context of a question |
| `ChatConversation` | – | chats, messages, names, branches on both databases |
| `ChatStore` | – | the web client's chat view against a server that answers in any order |
| `Backend` | – (instances of `LossyBroadcast`, `SettingsSync`, `DocumentPipeline`) | the composition: settings and documents on the one queue that `main.go` makes |
| `MessageQueueProofs`, `SettingsSyncProofs`, `DocumentPipelineProofs`, `BackendProofs`, `UploadQuotaProofs`, `RetrievalProofs`, `ChatConversationProofs`, `ChatStoreProofs` | the module and TLAPS | theorems |
| `MC_*` | the module | sets of model values for TLC |

**MessageQueue.** `subscribers`, `closed`, `msgID` are the fields of
`InMemoryQueue`; `chan` and `buf` are the Go channels; `watcher` is the
goroutine of `queue.go:100-104` (waiting, between unsubscribe and close,
exited); `reader` is the consumer's `for msg := range ch`. `Publish`,
`Subscribe`, `Close` and `Unsubscribe` hold the mutex throughout and are one
action each; `CloseChannel`, `Receive`, `RangeEnds` and `Cancel` happen outside
it. Receives do run inside a Publish; they commute with it (the comment in the
module says how), the publisher's cancellation inside the loop does not and is
kept as the position `stop`. A panic ends the program: `Next` has `~panicked`.

**LossyBroadcast** has no locks, slices or goroutines: live subscriptions,
inboxes, and two kinds of Publish; one that is cancelled stopped at some live
subscription, so it never reached them all. The mapping (`Broadcast` in `MessageQueue`)
takes `live` to the listed channels and `sent` to `msgID`; watcher, reader and
channel states have no counterpart, and their steps are stutters.

**SettingsSync.** A settings value is a version with its author; an upsert makes
the next version. `boot` is the main goroutine (`main.go:85-94`): first load
before the first migration, migration, IsFirstBoot, defaults, mark. `reader` is
the subscriber goroutine; `LoadSettingsFromDB` is two steps (SELECT, assignment
under the mutex). `setter` is between upsert and Publish. Crash keeps `db` and
`marker` only. Two history variables: `lost`, why the copy may be stale, and
`skipped`, which parts of a first boot failed and were passed over.
Events carry nothing, so the channel is a counter.

**DocumentPipeline.** `upload[d]`, `job[j]`, `worker` are the positions of the
three programs; `queue` is the worker's channel. `Faults` lets every database and
file call fail; the embedder may always fail. `stored[d][p]` counts the
searchable copies of chunk p; the worker embeds all chunks first and then stores
those whose answer was a vector. Four history variables name the excuses: `lost`
(why a document may be in nobody's hands), `twice` (documents two overlapping
jobs fetched), `missed` (chunks whose insert failed or that had no usable
vector; the worker prints it), `unmarked` (documents whose QUEUED or IN_PROGRESS
could not be written). A crash keeps files and tables.

**UploadQuota.** A request is admitted, copying, stored, saved; the comparison is
the code's, kilobytes plus bytes. `used` is the SUM of the table, `bytes` what the
listed files really take, `file` what lies on disk. `AtOnce` bounds the requests of
a project between their SELECT and their INSERT, which the code does not bound:
`OverrunBounded` is stated in terms of it.

**Chunker, Retrieval.** A text is the positions of its words as `strings.Fields`
sees them. `JoinWord` and `EmitChunk` are the loop; `i`, `joined`
(`len(chunkText)`) and `byteIdx` are the code's. `Retrieval` continues with
SaveRAGChunk and SaveRAGChunkEmbedding, each of which may fail or be cut off by a
crash, while searches run. Distances are left to the databases: any vectors may be
the nearest. On SQLite the two nearest of *all* projects are taken before the
project filter; Postgres filters first and takes at most ten.

**ChatConversation.** The id of a message is its place in `messages`; text is
left out and a copied row names the row it came from (`of`). `database`, fixed
at the start, chooses `dao_postgres.go` (BranchChat is one transaction) or
`dao_sqlite.go` (two statements, the branch visible in between). `seen` and `peers` of a request
record what it read and who was open on the chat at that time.

**ChatStore.** One variable for each group of atoms (`current`, `view`, `bubble`),
one entry for each GetHistory call and each Chat stream; a JavaScript callback is
a step. The server appends a question, then perhaps an answer, to the chat's
`stored` messages, as in `ChatConversation`. `calm`, `alone`, `raced` and `left`
are history variables: whether anything was in flight when the chat was opened or
a question asked. They delimit when the view can be trusted; the code's callbacks
ignore which chat is open by the time they run (`chat.ts:59`, `187`).

**Backend.** `SettingsSync` has a counter for its channel and `DocumentPipeline` a
sequence of documents, as if each had a queue of its own. Here both are the
inboxes of two subscriptions of one `LossyBroadcast`: every Publish, Subscribe
and receive of the program is a step of the broadcast together with what its
caller does next (`SetterAnnounces`, `UploadPublishes`, `WorkerTakes`, ...); all
other steps are the components' own actions. `data` is what a message carries,
and `Events` reads the worker's inbox as the sequence `DocumentPipeline` has. The
order of `main.go:85-94` is in the guards: requests come while the servers run
(`Serving`), the worker goroutine starts after the first load. A crash makes a new
queue. The two refinements say that the components' private channels were no
simplification.

## 3 Runs, bounds and fairness

| Run | cfg | Result | Question |
|---|---|---|---|
| queue | `MC_MessageQueue.cfg` | pass | is the queue safe, ordered, a lossy broadcast, and does it let go of its readers |
| backend | `MC_Backend.cfg` | pass | do settings and documents on one queue behave as each does with a channel of its own |
| settings | `MC_SettingsSync.cfg` | pass | is a stale copy always explained, never older, and repaired; is the first boot done once, through crashes and errors |
| settings_fresh | `MC_SettingsSync_fresh.cfg` | violation | does the copy always reach the row |
| documents | `MC_DocumentPipeline.cfg` | pass | with faults and crashes everywhere: is a stuck document explained, SUCCESS searchable, a duplicate explained, a delivered event worked off |
| documents_late | `MC_DocumentPipeline_late.cfg` | violation | is a QUEUED document queued |
| quota | `MC_UploadQuota.cfg` | pass | how far do concurrent uploads exceed the limit, what does the table count, is a listed file whole |
| quota_bytes | `MC_UploadQuota_bytes.cfg` | violation | is the limit one in bytes |
| retrieval | `MC_Retrieval.cfg` | pass | are chunks a partition, when are their ranges right, what becomes of a question's context |
| chats | `MC_ChatConversation.cfg` | pass | on both databases, with errors and crashes: are branches complete, answers asked for, contexts complete |
| chats_name | `MC_ChatConversation_name.cfg` | violation | is a name kept |
| chatstore | `MC_ChatStore.cfg` | pass | does the client show what belongs to the open chat, once and in order |

**Bounds.**
- *Queue*: two subjects, two subscriptions (one cancellable), channels of two
  messages instead of 100, three messages (`MaxMsg`): a channel can be full,
  skipped, drained, and closed with messages in it, and a slice of two can lose
  either element.
- *Backend*: two uploads, a retry job, one user who stores settings and one who
  chats, channels of one message, two versions; about 840,000 states. Database and
  file errors are left to the runs of the components, whose actions do not touch
  the queue when they fail; the proofs of the refinements have them.
- *Settings*: a channel of one event (two in settings_fresh), two writers, one
  Chat request, four versions (`MaxVer`): the defaults twice and two users'
  writes, or a full channel with a writer behind it.
- *Documents*: two documents of two chunks, one retry job, a channel of one event:
  an event dropped, a document behind another, a retry that meets a first try, a
  chunk saved and the next not. Two jobs that fetch the same document need a larger
  state space than the run has; that case rests on the proof, which is for any
  number of jobs.
- *Quota*: a "kilobyte" of two bytes (`KB`), files up to four bytes and one that is
  larger (`MaxFile`), a project of four (`MaxProject`), five uploads of which three
  run at once (`AtOnce`): files that cost nothing, a rounded one, a project that
  three requests overrun and two more could overrun further. The uploads are
  symmetric.
- *Retrieval*: every division of a file of up to five bytes (`MaxSize`) into words
  and white space, files of four and five one-letter words (`MaxWords`) with one or
  two bytes between them, chunks of two words: up to three chunks, the last one
  full or not; up to two vectors of other projects, enough to take both places.
- *Chats*: three chats (main, branch, a second one), two requests, one call that
  names, two that branch; chats_name has two that name instead. Chats, requests and
  branchings are symmetric.
- *ChatStore*: an old chat and one that can be created, three openings
  (`MaxOpened`), two questions (`MaxAsked`): leave and come back, two histories and
  two streams in flight at once. About 950,000 states.

A request is used once, which bounds messages and files. Deadlock is checked except
in the queue's run, where everybody may be done, and in the client's, whose bounded
user may stop; the other models can always crash or search.

**Fairness** (only where a liveness property needs it). *Queue*: the watcher and
the reader of each subscription are weakly fair, since the Go scheduler runs
every runnable goroutine; nobody has to publish, close or cancel. *Settings*: the
main goroutine, the subscriber, and a SetSetting between its upsert and its
Publish. *Documents*: the worker; this assumes that the remote embedder answers
or fails, because its HTTP client has no timeout (`rag_indexing_impl.go:152`).
*ChatStore*: each GetHistory call and each stream ends, with an answer or an
error, and timers fire; nobody has to open a chat or ask. Requests of the server,
jobs and crashes are never fair.

**Properties of the passing runs**, beside one `TypeOK` per module (that of
`Backend` is proved):

- `SubscribedIsOpen`, `PanicOnlyAfterCloseAndCancel`: the close/cancel protocol of
  the channels. `InOrderOnce`, `ImplementsBroadcast`, `ReadersReleased`: delivery,
  the abstract specification, termination of readers.
- `StaleExplained`: whenever copy and row differ, somebody is on the way to
  reload, or the version was lost to a failed first load, an event before the
  subscription or a failed reload. That a *full channel* is not on the list is
  the point: an event still in the channel will cause a SELECT later than the
  dropped one's upsert. `UrlNotOlderThanKey`, `Converges`, `MarkedIsSeeded`,
  `UserSettingsSurvive`.
- `ImplementsSettings`, `ImplementsDocuments`: what is shown of the two components
  holds of the backend with its one queue.
- `RowHasObject`, `StuckExplained`, `EventuallyFinished`; `SuccessIsIndexed`: after
  SUCCESS a chunk can be found or is one whose failure was printed, also when an
  earlier attempt had died half-way; `DuplicateNeedsOverlap`: neither a crash nor
  one job alone stores a chunk twice.
- `OverrunBounded`: at most `MaxFile` (in kilobytes) for each concurrent request but
  one, however many follow; `AccountingExact`; `ListedIsWhole`.
- `WordsPartitioned`; `ExactIfNormalised`, an equivalence: a range is right exactly
  if no superfluous white space precedes its end; `ContextIsText`;
  `FewerOnlyIfCrowded`.
- `NoNestedBranch`, `BranchIsComplete` (whole, or on SQLite abandoned and empty),
  `AnswersFollowQuestions`, `ContextComplete`.
- `OwnMessagesIfCalm`, `ViewIsHistory` (client and server agree whenever nothing is
  in flight), `OnceUnlessRaced`, `SentAsMeant`, `Settles`.

Each has a mutant of the modelled code (operators marked "Mutant:" in the
modules, listed in `PROJECT.json`) under which TLC finds it violated. The
operators marked so are not part of the specifications.

## 4 What the violation runs show

1. **settings_fresh** – the subscriber goroutine may subscribe after the first
   boot has announced the defaults; nothing reloads them, although
   `settings.go:48-49` promises it.
2. **documents_late** – a retry job writes QUEUED after the worker has finished;
   the client shows "Currently in queue" for good, and no retry finds it.
3. **quota_bytes** – the table sums kilobytes, the limit is in bytes: a project may
   hold about 1024 times its "500MB", without any concurrency.
4. **chats_name** – two overlapping GenerateChatName requests; the second
   replaces the first name, which a single request refuses to do.

Other behaviour that the models contain and the properties excuse by name:
`Publish` with a done context and room in the channel picks a branch of its
`select` at random (the position `stop` in `MessageQueue`); Close together with a
cancellation closes a channel twice (`PanicOnlyAfterCloseAndCancel`; both
subscriptions of this program use `context.Background()` and nothing calls Close);
an unwritten mark of the first boot lets the next start put the defaults over the
user's settings (`UserSettingsSurvive`); a branch on SQLite whose second statement
never ran stays empty (`Abandoned`); the range of a chunk that superfluous white
space precedes, at the beginning of the file for instance, is not where the chunk is
(`ExactIfNormalised`); a history or the end of a stream that arrives
after the user has moved on appears in the wrong chat (`calm`, `raced`).

## 5 Proofs

All proofs are for arbitrary constants that satisfy the named `ASSUME`s: any
number of subscriptions, requests, documents, jobs, chats and messages, any
capacity, any file. The pattern is the usual one: `Init => IInv`,
`IInv /\ [Next]_vars => IInv'` with one step per action, `IInv => Inv`, combined
by PTL. Each component has its `TypeCorrect`.

*MessageQueueProofs.* `PublishSendsToOpenChannels`: the inductive
invariant ties the four places together that know about a channel: a listed
channel is open, listed once, and has a waiting watcher; a watcher that is
waiting while the queue is open has its channel listed; a channel not made has no
watcher. `SubscribedIsOpen` alone is not inductive: Unsubscribe of a channel listed
twice would leave it listed with its watcher gone, and Subscribe needs to know that
a new channel is not listed yet. `PanicNeedsCloseAndCancel`,
`ChannelsAreClosedByTheirOwner` and `BackgroundSubscribersNeverPanic` follow from
the same invariant.

`DeliveredInOrderOnce`: the ids in a channel ascend, lie
above the last one its reader took and not above the last one published, and a
channel is empty when it gets its subject (`OrderInv`). `QueueIsLossyBroadcast` is
the refinement, step by step: the loop of Publish reaches exactly the listed
channels with room if it ran to its end and a part of them if it was cancelled;
Close and Unsubscribe end subscriptions; everything else is a stutter.

*SettingsSyncProofs.* `CacheMovesForward` and
`KeyNeverOutrunsUrl` from the ordering invariant copy ≤ what the two loaders hold
≤ row (the loaders cannot overtake each other: the first load is over before any
event can exist in the channel that would make the subscriber read an older row);
`StaleIsExplained`; `DefaultsNeverReplaceUser` and `MarkedImpliesSeeded` from the
position of the boot relative to mark and row, each fact with its excuse in
`skipped`; `DefaultsBeforeUsers`, the unconditional form, under `~DBFails`. Under
the same condition `OnlyUnheardIsLost` leaves one way to lose a change for good: it
was announced before the subscriber goroutine, which nothing waits for, had
subscribed. For that no load may be given up, so wherever an event is, a row is
(`EventsHaveRow`).

*DocumentPipelineProofs.* `RowsHaveObjects` (with: an upload past
its first step has its file, and whatever is in anybody's hands has a row);
`StuckIsExplained` (every way to let go of a document finishes it or names the
reason); `SuccessMeansIndexed` (with: while the worker saves, the chunks before
`worker.part` are stored or missed, and a stored chunk stays stored);
`DuplicatesNeedOverlap`, the longest argument: `DInv` says of every document outside
`twice` and `unmarked` that there is one event for it at most, in the channel or
with the worker; that it is on the list of one job at most; that with ERROR shown
nobody has it but a job about to write QUEUED; and that a chunk is stored once at
most and, as long as an attempt is still to come, not at all.

Three theorems draw conclusions from these invariants. `FinishedStaysFinished` is a
step property: outside `twice` and `unmarked` no step takes SUCCESS from a document
but the late QUEUED of a job, because a finished document has no event on its way
(`SuccessRests`). `WorkerNeverGivesUp`: with `~Faults` the worker finds the row and
the file of all it takes, whatever the order of uploads, jobs and crashes, so a
document that stays queued or in progress is the work of its Publish, of a late
QUEUED or of a crash. `OneJobNoDuplicates`: with `~Faults`, in every behaviour
whose jobs do not overlap (`JobsApart`), every chunk is stored once at most.

*BackendProofs.* `BackendIsSettings` and `BackendIsDocuments`, the refinements. The
invariant is `Wired`: a goroutine that has subscribed has a live subscription of
its own subject and one that has not has none, so a message goes to at most one of
the two inboxes and each inbox holds messages of its own subject
(`DeliverTypes`). Lemmas translate the steps of the broadcast into what the
components see: a Publish appends to `Events` or leaves it (`EventArrives`), a Take
removes its head (`EventTaken`), `PublishChangedEffect` and `PublishEmbedEffect` match
each outcome of a Publish with the component's, its reason for a loss included.
`SettingsPromises`, `DocumentPromises`, `DocumentStepPromise` and `HealthyBackend`
then carry the components' theorems over, through instances of their proof modules.

*UploadQuotaProofs.* `OverrunIsBounded` needs more than the bound: all slots of the
requests in flight fit below it, and the one admitted last needs only its own size,
since that was in the comparison (`Bounded`). `TableCountsListedFiles` from
s - (KB-1) <= KB * (s div KB) <= s for each file; `ListedFilesAreWhole`.
`ProjectHoldsAtMost` adds them up to what a project may really hold in bytes: the
limit in *kilobytes*, the overrun, and a part for the rounding that grows with the
number of files and that nothing limits.

*RetrievalProofs.* `RangesStayInFile`, `ChunksCoverWords` and `ExactMeansNormalised`
compare `byteIdx` with the end of the word before the chunk (`Behind`): it is one
past it as long as the text is normal, and behind for good once it is not; likewise
for the end of the joined text (`EndBehind`). `RangeCheckNeverFires`,
`ContextIsEmbeddedText` and `OnlyOthersCrowdOut` follow, the last by counting the
two nearest vectors.

*ChatConversationProofs.* `RequestInv` (where a request is and which row is its
question), `MessageInv` (a row that is no copy is the question or the answer of its
request; a copy repeats a row of its branch's parent), `OneAnswer`, `BranchInv`
(which call made a branch and how far it got). From them `BranchesAreOfMainChats`
(a main chat stays one), `BranchesAreComplete` (ids ascend, so what is added later
is past the branch point) and `AnswersAreAsked`: each answer is given a question
before it in its chat, its request's own or the copy of that one; the assignment
is an injection into the questions, whence the cardinalities.

`QuestionsKnowTheirChat`: of two requests open on a chat the
later one counts the other among its `peers` (`PeersInv`); a row that appears
between the reading of the history and the question is therefore a peer's or, on
SQLite, a copy, since Postgres' transaction fills only a chat nobody can have open
yet (`ContextInv`). `OneAtATimeIsDialogue` is about requests that have a chat to
themselves: each is sent with exactly what was said before its question, and its
answer is the next message after it, through errors and crashes and whatever happens
in other chats and branches; only copies that come late on SQLite are excepted. It
needs the counterpart of `ContextInv` for the time between question and answer
(`AfterInv`) and that the history read lies before the question (`SeenInv`).

*ChatStoreProofs.* `StreamInv`, for `QuestionsGoWhereMeant`: a question whose timer
runs was typed for the open chat unless it is in `left`. The other three rest on
`Step`, what every step does as far as they tell steps apart, and on `OwnInv`: each
message stored, or on its way in a history, belongs to that chat, and no message
changes its chat. `OwnMessages`: while `calm` holds, every call and stream under way
is for the open chat (`CalmInv`). `ClientAgrees`: while `alone` holds, one call or
stream is under way at most, and the server is ahead of the view by exactly what
that stream has stored (`AloneInv`). `NeitherLostNorDoubled`: until a question that
met no GetHistory has ended, no view or history holds anything of it, and from then
on they hold all that is stored of it, once (`RacedInv`, with `StoredOnce` for the
server).

## 6 What is only model-checked, and what is not modelled

Only model-checked: liveness (`ReadersReleased`, `Converges`,
`EventuallyFinished`, `Settles`), which the prover does not handle.

Conversely, some theorems state more than any run has as a property:
`CacheMovesForward`, `RangesStayInFile`, `RangeCheckNeverFires`,
`ChannelsAreClosedByTheirOwner`, `BackgroundSubscribersNeverPanic`, `DefaultsBeforeUsers` and
the conditional and step theorems named in section 5. They say what several
invariants mean together, or what holds where a fault constant is FALSE, and rest on
the invariants the runs check.

Abstracted: the text of messages, chunks and documents, token counts, prompts,
JSON, distances between vectors, users (one hard-coded user), the names the user
may give. A statement of the database is atomic and takes effect before the call
returns; Postgres' sequence, which draws an id slightly before the row is visible
(`dao_postgres.go:408`), is taken as one step with the insert. `DocumentPipeline`
takes UploadFile's limits as a failure that may always happen; `UploadQuota` has
them. In `ChatStore` a chat of the server is the sequence of its messages, without
branches.

Not modelled, and why:
- the timed refreshes of the document list (`chat.ts:401`) and the client's other
  lists, search, toasts and settings form: each is one atom that an answer replaces
  as a whole, so the only thing to say is that an older answer may win;
- a timeout of the embedder (`rag_indexing_impl.go:152`): there is none, and
  `EventuallyFinished` assumes that it answers;
- reads for lists, history and search, projects: no state of their own;
- migrations and configuration: once per start, in order (the one interaction
  that matters, the first load before the first migration, is in `SettingsSync`);
- gRPC plumbing, desktop shell and build, generated and vendored code (which
  includes the SQLite headers, by far the longest C files of the tree): no logic of
  the program;
- `LoadSettingsFromProto`, `NewSettingsManagerWithSQLite`: called by nobody;
  `ParagraphChunker`: an empty stub.

## 7 Plan

Done, in this order: the queue, because the rest relies on it; settings; documents
(the longest unprotected sequence of steps); chats; then the upload limits, the
chunker with retrieval, and the web client's chat view; proofs of all safety
properties; the composition of settings and documents on one queue, and what the
theorems of the parts mean for it.

Left:

1. Ids drawn before commit on Postgres, as a variant of `Insert` in
   `ChatConversation`: a row below a branch point that becomes visible after the copy.
2. `ChatStore` against `ChatConversation` instead of its own sequence of messages for
   each chat.
