----------------------------- MODULE SettingsSync -----------------------------
(***************************************************************************)
(* The settings of chatservice: the row in the database, the copy the      *)
(* SettingsManager keeps in memory (settings/settings.go), the service     *)
(* that writes the row and announces the change (settings_service.go), the *)
(* start of the program (backend/mono/main.go:85-94) and the two reads of  *)
(* the copy a Chat request makes (service.go:83, 137).                     *)
(*                                                                         *)
(* Processes: the main goroutine (boot), the subscriber goroutine of the   *)
(* SettingsManager (reader), SetSetting requests (setter) and Chat         *)
(* requests (chat).  A database statement is atomic; LoadSettingsFromDB is *)
(* two steps, the SELECT and the assignment under cm.mu; SetSetting is two *)
(* steps, the upsert and the Publish.  The process can be killed at any    *)
(* step: the database survives, everything else is lost.                   *)
(*                                                                         *)
(* The queue is what MessageQueue shows it to be (a lossy broadcast), here *)
(* with one subject, one subscriber and messages without content, so the   *)
(* buffered messages are a number.  A settings value is a version: every   *)
(* successful upsert makes the next one, and remembers who wrote it.       *)
(***************************************************************************)
EXTENDS Naturals, FiniteSets

CONSTANTS Setters,    \* concurrent SetSetting requests
          Chats,      \* concurrent Chat requests
          Capacity,   \* buffered change events: 100 in queue.go:92
          DBFails,    \* whether database calls may return an error
          MaxVer      \* bound of the exploration: versions written

ASSUME SettingsAssumption ==
  /\ Capacity \in Nat \ {0}
  /\ DBFails \in BOOLEAN
  /\ MaxVer \in Nat

VARIABLES
  db,       \* the row "settings"
  marker,   \* whether the row "is_first_boot" holds "1"
  cache,    \* cm.settings
  pending,  \* change events in the subscriber's channel
  boot,     \* the main goroutine and what its first load read
  reader,   \* the subscriber goroutine and what it read
  setter,   \* each SetSetting request
  chat,     \* each Chat request and the versions its two reads saw
  lost,     \* why an announced or stored version may not reach the copy
  skipped   \* the parts of a first boot that failed and were passed over

vars == <<db, marker, cache, pending, boot, reader, setter, chat, lost, skipped>>

Version == [ver : 0..MaxVer, by : {"nobody", "default", "user"}]

\* No row in the database; &Settings{} in memory.
Nothing == [ver |-> 0, by |-> "nobody"]

BootPC == {"load", "assign", "check", "seed", "announce", "mark", "serving"}
ReaderPC == {"starting", "waiting", "select", "assign"}
ChatPC == {"new", "hasKey", "sent"}

TypeOK ==
  /\ db \in Version
  /\ marker \in BOOLEAN
  /\ cache \in Version
  /\ pending \in 0..Capacity
  /\ boot \in [pc : BootPC, got : Version]
  /\ reader \in [pc : ReaderPC, got : Version]
  /\ setter \in [Setters -> {"idle", "announce"}]
  /\ chat \in [Chats -> [pc : ChatPC, key : 0..MaxVer, url : 0..MaxVer]]
  /\ lost \subseteq {"load", "nobody", "reload"}
  /\ skipped \subseteq {"seed", "mark"}

Init ==
  /\ db = Nothing
  /\ marker = FALSE
  /\ cache = Nothing
  /\ pending = 0
  /\ boot = [pc |-> "load", got |-> Nothing]
  /\ reader = [pc |-> "starting", got |-> Nothing]
  /\ setter = [u \in Setters |-> "idle"]
  /\ chat = [c \in Chats |-> [pc |-> "new", key |-> 0, url |-> 0]]
  /\ lost = {}
  /\ skipped = {}

Serving == boot.pc = "serving"

-------------------------------------------------------------------------------
(* Publish on the settings.changed subject: dropped when nobody has        *)
(* subscribed yet, skipped when the channel is full.                       *)

\* Mutant: the channel has no limit.
AnnounceUnbounded ==
  IF reader.pc = "starting"
  THEN /\ lost' = lost \union {"nobody"}
       /\ UNCHANGED pending
  ELSE /\ pending' = pending + 1
       /\ UNCHANGED lost

Announce ==
  IF reader.pc = "starting"
  THEN /\ lost' = lost \union {"nobody"}
       /\ UNCHANGED pending
  ELSE /\ pending' = IF pending < Capacity THEN pending + 1 ELSE pending
       /\ UNCHANGED lost

\* The upsert of SetSettingValue("settings", ...).
Upsert(author) ==
  /\ db.ver < MaxVer
  /\ db' = [ver |-> db.ver + 1, by |-> author]

-------------------------------------------------------------------------------
(* The start of the program.                                               *)

\* LoadSettingsFromDB in api.NewChatService: before the first migration
\* there is no row to read, and the error is ignored.
BootLoad ==
  /\ boot.pc = "load"
  /\ \/ /\ db.ver > 0
        /\ boot' = [pc |-> "assign", got |-> db]
        /\ UNCHANGED lost
     \/ /\ db.ver = 0
        /\ boot' = [boot EXCEPT !.pc = "check"]
        /\ UNCHANGED lost
     \/ /\ DBFails
        /\ boot' = [boot EXCEPT !.pc = "check"]
        /\ lost' = lost \union {"load"}
  /\ UNCHANGED <<db, marker, cache, pending, reader, setter, chat, skipped>>

BootAssign ==
  /\ boot.pc = "assign"
  /\ cache' = boot.got
  /\ lost' = {}
  /\ boot' = [boot EXCEPT !.pc = "check"]
  /\ UNCHANGED <<db, marker, pending, reader, setter, chat, skipped>>

\* Mutant: the mark is written before the defaults.
CheckMarksFirst ==
  /\ boot.pc = "check"
  /\ boot' = [boot EXCEPT !.pc = IF marker THEN "mark" ELSE "seed"]
  /\ marker' = TRUE
  /\ UNCHANGED <<db, cache, pending, reader, setter, chat, lost, skipped>>

\* Mutant: every start is a first start.
CheckIgnoresMark ==
  /\ boot.pc = "check"
  /\ boot' = [boot EXCEPT !.pc = "seed"]
  /\ UNCHANGED <<db, marker, cache, pending, reader, setter, chat, lost, skipped>>

\* The process goes on to serve without the mark, unless it was there before.
Unmarked == skipped' = IF marker THEN skipped ELSE skipped \union {"mark"}

\* IsFirstBoot: a database error makes Init return before anything else.
CheckFirstBoot ==
  /\ boot.pc = "check"
  /\ \/ /\ boot' = [boot EXCEPT !.pc = IF marker THEN "mark" ELSE "seed"]
        /\ UNCHANGED skipped
     \/ /\ DBFails
        /\ boot' = [boot EXCEPT !.pc = "serving"]
        /\ Unmarked
  /\ UNCHANGED <<db, marker, cache, pending, reader, setter, chat, lost>>

\* SetSetting(DefaultSettings), whose error is ignored.
SeedDefaults ==
  /\ boot.pc = "seed"
  /\ \/ /\ Upsert("default")
        /\ boot' = [boot EXCEPT !.pc = "announce"]
        /\ UNCHANGED skipped
     \/ /\ DBFails
        /\ boot' = [boot EXCEPT !.pc = "mark"]
        /\ skipped' = skipped \union {"seed"}
        /\ UNCHANGED db
  /\ UNCHANGED <<marker, cache, pending, reader, setter, chat, lost>>

SeedAnnounce ==
  /\ boot.pc = "announce"
  /\ Announce
  /\ boot' = [boot EXCEPT !.pc = "mark"]
  /\ UNCHANGED <<db, marker, cache, reader, setter, chat, skipped>>

\* FirstBootComplete, on every start; an error is only logged.
MarkBooted ==
  /\ boot.pc = "mark"
  /\ \/ /\ marker' = TRUE
        /\ UNCHANGED skipped
     \/ /\ DBFails
        /\ Unmarked
        /\ UNCHANGED marker
  /\ boot' = [boot EXCEPT !.pc = "serving"]
  /\ UNCHANGED <<db, cache, pending, reader, setter, chat, lost>>

Boot == BootLoad \/ BootAssign \/ CheckFirstBoot \/ SeedDefaults
          \/ SeedAnnounce \/ MarkBooted

-------------------------------------------------------------------------------
(* StartSettingsChangedSubscriber.                                         *)

ReaderSubscribes ==
  /\ reader.pc = "starting"
  /\ reader' = [reader EXCEPT !.pc = "waiting"]
  /\ UNCHANGED <<db, marker, cache, pending, boot, setter, chat, lost, skipped>>

\* Mutant: the copy is emptied until the reload has succeeded.
ReaderTakesAndClears ==
  /\ reader.pc = "waiting"
  /\ pending > 0
  /\ pending' = pending - 1
  /\ cache' = Nothing
  /\ reader' = [reader EXCEPT !.pc = "select"]
  /\ UNCHANGED <<db, marker, boot, setter, chat, lost, skipped>>

ReaderTakes ==
  /\ reader.pc = "waiting"
  /\ pending > 0
  /\ pending' = pending - 1
  /\ reader' = [reader EXCEPT !.pc = "select"]
  /\ UNCHANGED <<db, marker, cache, boot, setter, chat, lost, skipped>>

\* The SELECT; after an error the event is spent and nothing was loaded.
ReaderSelects ==
  /\ reader.pc = "select"
  /\ \/ /\ db.ver > 0
        /\ reader' = [pc |-> "assign", got |-> db]
        /\ UNCHANGED lost
     \/ /\ DBFails \/ db.ver = 0
        /\ reader' = [reader EXCEPT !.pc = "waiting"]
        /\ lost' = lost \union {"reload"}
  /\ UNCHANGED <<db, marker, cache, pending, boot, setter, chat, skipped>>

\* Mutant: the goroutine ends after its first event.
ReaderAssignsOnce ==
  /\ reader.pc = "assign"
  /\ cache' = reader.got
  /\ lost' = {}
  /\ reader' = [reader EXCEPT !.pc = "stopped"]
  /\ UNCHANGED <<db, marker, pending, boot, setter, chat, skipped>>

ReaderAssigns ==
  /\ reader.pc = "assign"
  /\ cache' = reader.got
  /\ lost' = {}
  /\ reader' = [reader EXCEPT !.pc = "waiting"]
  /\ UNCHANGED <<db, marker, pending, boot, setter, chat, skipped>>

Reader == ReaderSubscribes \/ ReaderTakes \/ ReaderSelects \/ ReaderAssigns

-------------------------------------------------------------------------------
(* SetSetting requests.  One that fails in the database changes nothing.   *)

\* Mutant: the request returns after the upsert.
SetterStoresOnly(u) ==
  /\ Serving
  /\ setter[u] = "idle"
  /\ Upsert("user")
  /\ UNCHANGED <<marker, cache, pending, boot, reader, setter, chat, lost, skipped>>

SetterStores(u) ==
  /\ Serving
  /\ setter[u] = "idle"
  /\ Upsert("user")
  /\ setter' = [setter EXCEPT ![u] = "announce"]
  /\ UNCHANGED <<marker, cache, pending, boot, reader, chat, lost, skipped>>

SetterAnnounces(u) ==
  /\ setter[u] = "announce"
  /\ Announce
  /\ setter' = [setter EXCEPT ![u] = "idle"]
  /\ UNCHANGED <<db, marker, cache, boot, reader, chat, skipped>>

-------------------------------------------------------------------------------
(* The two GetSettings of a Chat request: the key first, the URL after the *)
(* history was read and the question stored.  Only a user's settings have  *)
(* a key; without one Chat returns an error.                               *)

ChatReadsKey(c) ==
  /\ Serving
  /\ chat[c].pc = "new"
  /\ cache.by = "user"
  /\ chat' = [chat EXCEPT ![c] = [pc |-> "hasKey", key |-> cache.ver, url |-> 0]]
  /\ UNCHANGED <<db, marker, cache, pending, boot, reader, setter, lost, skipped>>

ChatReadsUrl(c) ==
  /\ chat[c].pc = "hasKey"
  /\ chat' = [chat EXCEPT ![c] = [@ EXCEPT !.pc = "sent", !.url = cache.ver]]
  /\ UNCHANGED <<db, marker, cache, pending, boot, reader, setter, lost, skipped>>

-------------------------------------------------------------------------------
\* The process is killed and started again.
Crash ==
  /\ cache' = Nothing
  /\ pending' = 0
  /\ boot' = [pc |-> "load", got |-> Nothing]
  /\ reader' = [pc |-> "starting", got |-> Nothing]
  /\ setter' = [u \in Setters |-> "idle"]
  /\ chat' = [c \in Chats |-> [pc |-> "new", key |-> 0, url |-> 0]]
  /\ lost' = {}
  /\ UNCHANGED <<db, marker, skipped>>

Next ==
  \/ Boot
  \/ Reader
  \/ \E u \in Setters : SetterStores(u) \/ SetterAnnounces(u)
  \/ \E c \in Chats : ChatReadsKey(c) \/ ChatReadsUrl(c)
  \/ Crash

Spec == Init /\ [][Next]_vars

\* Goroutines that can run do run, the database answers, and a request that
\* was accepted finishes.  Nobody has to send a request; no crash has to come.
Fairness ==
  /\ WF_vars(Boot)
  /\ WF_vars(Reader)
  /\ \A u \in Setters : WF_vars(SetterAnnounces(u))

FairSpec == Spec /\ Fairness

-------------------------------------------------------------------------------
(* Properties.                                                             *)

(***************************************************************************)
(* Who still has to bring the copy up to date while it differs from the    *)
(* row: an event in the channel, somebody between upsert and Publish, the  *)
(* subscriber before its SELECT or holding the current version, or the     *)
(* first load of the process.                                              *)
(***************************************************************************)
WillPublish == boot.pc = "announce" \/ \E u \in Setters : setter[u] = "announce"

WillReload ==
  \/ pending > 0
  \/ reader.pc = "select"
  \/ (reader.pc = "assign" /\ reader.got = db)

WillLoad == boot.pc = "load" \/ (boot.pc = "assign" /\ boot.got = db)

(***************************************************************************)
(* The copy differs from the row only while somebody is on the way to      *)
(* reload it, or after one of three named losses: the first load failed,   *)
(* the event was published before anyone subscribed, the reload failed.    *)
(* A full channel is not among them (settings.go:48-49, queue.go:74-75).   *)
(***************************************************************************)
StaleExplained ==
  cache # db => WillPublish \/ WillReload \/ WillLoad \/ lost # {}

(***************************************************************************)
(* While the process lives the copy never goes back to an older version,   *)
(* although the first load and the subscriber both write it.               *)
(***************************************************************************)
CacheNeverRegresses == [][Crash \/ cache.ver <= cache'.ver]_vars

(***************************************************************************)
(* A Chat request reads the copy twice.  It may send an old key to a newer *)
(* URL, never a new key to an older URL.                                   *)
(***************************************************************************)
UrlNotOlderThanKey ==
  \A c \in Chats : chat[c].pc = "sent" => chat[c].key <= chat[c].url

(***************************************************************************)
(* What a user has stored is never replaced by the defaults, whatever the  *)
(* order of crashes and restarts, unless some process served users without *)
(* the mark of the first boot: its write had failed, or the check had      *)
(* (settings_service.go:34-36, 48-50, both only logged).                   *)
(***************************************************************************)
UserSettingsSurvive ==
  [][db.by = "user" => db'.by = "user" \/ "mark" \in skipped]_vars

(***************************************************************************)
(* settings_service.go:87: the defaults are for the first boot, so they    *)
(* never replace what a user has stored.  They do once the mark could not  *)
(* be written.                                                             *)
(***************************************************************************)
DefaultsOnFirstBootOnly == [][db.by = "user" => db'.by = "user"]_vars

(***************************************************************************)
(* A program marked as booted has settings, unless the upsert of the       *)
(* defaults failed (settings_service.go:40 ignores the error): a crash     *)
(* between the defaults and the mark repeats the defaults, never skips     *)
(* them.                                                                   *)
(***************************************************************************)
MarkedIsSeeded == marker => db.by # "nobody" \/ "seed" \in skipped

(***************************************************************************)
(* A serving process does not stay stale: again and again the copy is the  *)
(* row, unless a version was lost for one of the three reasons.            *)
(***************************************************************************)
Converges == []<>(Serving => cache = db \/ lost # {})

(***************************************************************************)
(* settings.go:48-49: "Application should use settings from here, not      *)
(* directly from the database / This monitors the database for changes and *)
(* reloads the settings".  An event published before the goroutine has     *)
(* subscribed is dropped, and then nothing reloads.                        *)
(***************************************************************************)
EventuallyFresh == []<>(Serving => cache = db)
===============================================================================
