-------------------------- MODULE SettingsSyncProofs --------------------------
(***************************************************************************)
(* Proofs about SettingsSync, for any number of requests, any capacity of  *)
(* the channel and any number of versions.                                 *)
(***************************************************************************)
EXTENDS SettingsSync, TLAPS

USE SettingsAssumption DEF SettingsAssumption

\* &Settings{} and the missing row are settings like any other.
LEMMA NothingIsVersion == Nothing \in Version
BY DEF Nothing, Version

(***************************************************************************)
(* What a Publish of the change event (settings_service.go:82) leaves: an  *)
(* event in the channel, or the note that nobody was listening.            *)
(***************************************************************************)
LEMMA AnnounceEffect ==
  ASSUME pending \in 0..Capacity, lost \subseteq {"load", "nobody", "reload"},
         Announce
  PROVE  /\ pending' \in 0..Capacity
         /\ lost' \subseteq {"load", "nobody", "reload"}
         /\ reader.pc # "starting" => pending' > 0 /\ lost' = lost
         /\ reader.pc = "starting" => lost' # {} /\ pending' = pending
<1>1. CASE reader.pc = "starting"
  <2>1. lost' = lost \union {"nobody"} /\ pending' = pending
    BY <1>1 DEF Announce
  <2>2. "nobody" \in lost'
    BY <2>1
  <2> QED BY <1>1, <2>1, <2>2
<1>2. CASE reader.pc # "starting"
  <2>1. lost' = lost /\ pending' = IF pending < Capacity THEN pending + 1 ELSE pending
    BY <1>2 DEF Announce
  <2>2. pending' \in 0..Capacity /\ pending' > 0
    BY <2>1
  <2> QED BY <1>2, <2>1, <2>2
<1> QED BY <1>1, <1>2

(***************************************************************************)
(* Every variable keeps its type: in particular the channel never holds    *)
(* more than Capacity events (the bounded channel of queue.go:92).         *)
(***************************************************************************)
THEOREM TypeCorrect == Spec => []TypeOK
<1>1. Init => TypeOK
  <2> SUFFICES ASSUME Init PROVE TypeOK
    OBVIOUS
  <2> USE NothingIsVersion DEF Init, BootPC, ReaderPC, ChatPC
  <2>1. db \in Version /\ cache \in Version /\ marker \in BOOLEAN
    OBVIOUS
  <2>2. pending \in 0..Capacity /\ lost \subseteq {"load", "nobody", "reload"}
         /\ skipped \subseteq {"seed", "mark"}
    OBVIOUS
  <2>3. boot \in [pc : BootPC, got : Version]
    OBVIOUS
  <2>4. reader \in [pc : ReaderPC, got : Version]
    OBVIOUS
  <2>5. setter \in [Setters -> {"idle", "announce"}]
    OBVIOUS
  <2>6. chat \in [Chats -> [pc : ChatPC, key : 0..MaxVer, url : 0..MaxVer]]
    OBVIOUS
  <2> QED BY <2>1, <2>2, <2>3, <2>4, <2>5, <2>6 DEF TypeOK
<1>2. TypeOK /\ [Next]_vars => TypeOK'
  <2> SUFFICES ASSUME TypeOK, [Next]_vars PROVE TypeOK'
    OBVIOUS
  <2> USE NothingIsVersion DEF TypeOK, BootPC, ReaderPC, ChatPC
  <2>1. CASE Boot
    <3>1. CASE BootLoad
      BY <3>1 DEF BootLoad
    <3>2. CASE BootAssign
      BY <3>2 DEF BootAssign
    <3>3. CASE CheckFirstBoot
      BY <3>3 DEF CheckFirstBoot, Unmarked
    <3>4. CASE SeedDefaults
      BY <3>4 DEF SeedDefaults, Upsert, Version
    <3>5. CASE SeedAnnounce
      BY <3>5 DEF SeedAnnounce, Announce
    <3>6. CASE MarkBooted
      BY <3>6 DEF MarkBooted, Unmarked
    <3> QED BY <2>1, <3>1, <3>2, <3>3, <3>4, <3>5, <3>6 DEF Boot
  <2>2. CASE Reader
    BY <2>2 DEF Reader, ReaderSubscribes, ReaderTakes, ReaderSelects,
                ReaderAssigns
  <2>3. ASSUME NEW u \in Setters, SetterStores(u) PROVE TypeOK'
    BY <2>3 DEF SetterStores, Upsert, Version
  <2>4. ASSUME NEW u \in Setters, SetterAnnounces(u) PROVE TypeOK'
    <3>1. setter' \in [Setters -> {"idle", "announce"}]
      BY <2>4 DEF SetterAnnounces
    <3>2. pending' \in 0..Capacity /\ lost' \subseteq {"load", "nobody", "reload"}
      BY <2>4, AnnounceEffect DEF SetterAnnounces
    <3> QED BY <2>4, <3>1, <3>2 DEF SetterAnnounces
  <2>5. ASSUME NEW c \in Chats, ChatReadsKey(c) PROVE TypeOK'
    BY <2>5 DEF ChatReadsKey, Version
  <2>6. ASSUME NEW c \in Chats, ChatReadsUrl(c) PROVE TypeOK'
    <3>1. chat[c] \in [pc : ChatPC, key : 0..MaxVer, url : 0..MaxVer]
      OBVIOUS
    <3>2. [chat[c] EXCEPT !.pc = "sent", !.url = cache.ver]
            \in [pc : ChatPC, key : 0..MaxVer, url : 0..MaxVer]
      BY <3>1 DEF Version
    <3>3. chat' \in [Chats -> [pc : ChatPC, key : 0..MaxVer, url : 0..MaxVer]]
      BY <2>6, <3>2 DEF ChatReadsUrl
    <3> QED BY <2>6, <3>3 DEF ChatReadsUrl
  <2>7. CASE Crash
    BY <2>7 DEF Crash
  <2>8. CASE UNCHANGED vars
    BY <2>8 DEF vars
  <2> QED
    BY <2>1, <2>2, <2>3, <2>4, <2>5, <2>6, <2>7, <2>8 DEF Next
<1> QED BY <1>1, <1>2, PTL DEF Spec

-------------------------------------------------------------------------------
(***************************************************************************)
(* The strengthening.  StaleExplained is not inductive: the subscriber may *)
(* be about to assign an old version, and then somebody else must have an  *)
(* event to send or to be taken (OldReloadIsFollowed); and the first load  *)
(* must be over before the subscriber or a request can interfere.          *)
(***************************************************************************)
RowNumbered == db.ver = 0 => db = Nothing

FirstLoadAlone ==
  boot.pc \in {"load", "assign"} =>
    /\ cache = Nothing
    /\ pending = 0
    /\ reader.pc \in {"starting", "waiting"}
    /\ boot.pc = "assign" => boot.got = db

RequestsAfterBoot == \A u \in Setters : setter[u] = "announce" => Serving

OldReloadIsFollowed ==
  reader.pc = "assign" /\ reader.got # db => WillPublish \/ pending > 0

VersionsOrdered ==
  /\ cache.ver <= db.ver
  /\ reader.pc = "assign" => cache.ver <= reader.got.ver
                             /\ reader.got.ver <= db.ver

IInv ==
  /\ RowNumbered
  /\ FirstLoadAlone
  /\ RequestsAfterBoot
  /\ OldReloadIsFollowed
  /\ VersionsOrdered
  /\ StaleExplained

\* IInv holds before the first boot.
LEMMA IInvInit == Init => IInv
BY DEF Init, IInv, RowNumbered, FirstLoadAlone, RequestsAfterBoot,
       OldReloadIsFollowed, VersionsOrdered, StaleExplained, WillLoad, Nothing

\* Every step of boot, requests, reader and crash keeps IInv.
LEMMA IInvStep == TypeOK /\ IInv /\ [Next]_vars => IInv'
<1> SUFFICES ASSUME TypeOK, IInv, [Next]_vars PROVE IInv'
  OBVIOUS
<1> USE DEF TypeOK, IInv, RowNumbered, FirstLoadAlone, RequestsAfterBoot,
            OldReloadIsFollowed, VersionsOrdered, StaleExplained,
            WillPublish, WillReload, WillLoad, Serving, Nothing, Version
<1>1. CASE BootLoad
  <2>1. CASE db.ver > 0
    BY <1>1, <2>1 DEF BootLoad
  <2>2. CASE db.ver = 0
    BY <1>1, <2>2 DEF BootLoad
  <2> QED BY <2>1, <2>2
<1>2. CASE BootAssign
  BY <1>2 DEF BootAssign
<1>3. CASE CheckFirstBoot
  BY <1>3 DEF CheckFirstBoot
<1>4. CASE SeedDefaults
  BY <1>4 DEF SeedDefaults, Upsert
<1>5. CASE SeedAnnounce
  BY <1>5 DEF SeedAnnounce, Announce
<1>6. CASE MarkBooted
  BY <1>6 DEF MarkBooted
<1>7. CASE ReaderSubscribes
  BY <1>7 DEF ReaderSubscribes
<1>8. CASE ReaderTakes
  BY <1>8 DEF ReaderTakes
<1>9. CASE ReaderSelects
  BY <1>9 DEF ReaderSelects
<1>10. CASE ReaderAssigns
  BY <1>10 DEF ReaderAssigns
<1>11. ASSUME NEW u \in Setters, SetterStores(u) PROVE IInv'
  BY <1>11 DEF SetterStores, Upsert
<1>12. ASSUME NEW u \in Setters, SetterAnnounces(u) PROVE IInv'
  <2>1. boot.pc = "serving" /\ UNCHANGED <<db, cache, boot, reader>>
    BY <1>12 DEF SetterAnnounces
  <2>2. RequestsAfterBoot'
    BY <1>12, <2>1 DEF SetterAnnounces
  <2>3. CASE reader.pc = "starting"
    BY <1>12, <2>1, <2>2, <2>3, AnnounceEffect DEF SetterAnnounces
  <2>4. CASE reader.pc # "starting"
    BY <1>12, <2>1, <2>2, <2>4, AnnounceEffect DEF SetterAnnounces
  <2> QED BY <2>3, <2>4
<1>13. ASSUME NEW c \in Chats, ChatReadsKey(c) PROVE IInv'
  BY <1>13 DEF ChatReadsKey
<1>14. ASSUME NEW c \in Chats, ChatReadsUrl(c) PROVE IInv'
  BY <1>14 DEF ChatReadsUrl
<1>15. CASE Crash
  BY <1>15 DEF Crash
<1>16. CASE UNCHANGED vars
  BY <1>16 DEF vars
<1> QED
  BY <1>1, <1>2, <1>3, <1>4, <1>5, <1>6, <1>7, <1>8, <1>9, <1>10, <1>11,
     <1>12, <1>13, <1>14, <1>15, <1>16 DEF Next, Boot, Reader

(***************************************************************************)
(* Whatever the number of requests, the size of the channel and the        *)
(* failures of the database: the copy is stale only while a reload is on   *)
(* its way, or after one of the three named losses.                        *)
(***************************************************************************)
THEOREM StaleIsExplained == Spec => []StaleExplained
<1>1. TypeOK /\ IInv => StaleExplained
  BY DEF IInv
<1> QED BY <1>1, IInvInit, IInvStep, TypeCorrect, PTL DEF Spec

\* No step puts an older version into the copy, except a restart.
LEMMA CacheStep == TypeOK /\ IInv /\ Next => Crash \/ cache.ver <= cache'.ver
<1> SUFFICES ASSUME TypeOK, IInv, Next PROVE Crash \/ cache.ver <= cache'.ver
  OBVIOUS
<1> USE DEF TypeOK, Version
<1>1. CASE BootAssign
  BY <1>1 DEF BootAssign, IInv, FirstLoadAlone, Nothing
<1>2. CASE ReaderAssigns
  BY <1>2 DEF ReaderAssigns, IInv, VersionsOrdered
<1>3. CASE UNCHANGED cache
  BY <1>3
<1> QED
  BY <1>1, <1>2, <1>3
  DEF Next, Boot, BootLoad, CheckFirstBoot, SeedDefaults, SeedAnnounce,
      MarkBooted, Reader, ReaderSubscribes, ReaderTakes, ReaderSelects,
      SetterStores, SetterAnnounces, ChatReadsKey, ChatReadsUrl

(***************************************************************************)
(* Within one life of the process no step puts an older version into the   *)
(* copy: the first load is over before the subscriber gets an event, and   *)
(* the subscriber's reloads are one after the other.                       *)
(***************************************************************************)
THEOREM CacheMovesForward == Spec => CacheNeverRegresses
<1>1. TypeOK /\ IInv /\ [Next]_vars => [Crash \/ cache.ver <= cache'.ver]_vars
  BY CacheStep
<1> QED BY <1>1, IInvInit, IInvStep, TypeCorrect, PTL DEF Spec, CacheNeverRegresses

\* The key a request holds is not newer than the copy, which the theorem
\* before keeps from going back.
KeyNotNewer ==
  \A c \in Chats : chat[c].pc = "hasKey" => chat[c].key <= cache.ver

(***************************************************************************)
(* A Chat request never sends a new key to an older URL (service.go:83,    *)
(* 137).  Inductive together with KeyNotNewer.                             *)
(***************************************************************************)
THEOREM KeyNeverOutrunsUrl == Spec => []UrlNotOlderThanKey
<1>1. Init => KeyNotNewer /\ UrlNotOlderThanKey
  BY DEF Init, KeyNotNewer, UrlNotOlderThanKey
<1>2. TypeOK /\ TypeOK' /\ IInv /\ KeyNotNewer /\ UrlNotOlderThanKey /\ [Next]_vars
        => (KeyNotNewer /\ UrlNotOlderThanKey)'
  <2> SUFFICES ASSUME TypeOK, TypeOK', IInv, KeyNotNewer, UrlNotOlderThanKey,
                      [Next]_vars
               PROVE  (KeyNotNewer /\ UrlNotOlderThanKey)'
    OBVIOUS
  <2>1. ASSUME NEW c \in Chats, ChatReadsKey(c)
        PROVE  (KeyNotNewer /\ UrlNotOlderThanKey)'
    BY <2>1 DEF ChatReadsKey, KeyNotNewer, UrlNotOlderThanKey, TypeOK, Version
  <2>2. ASSUME NEW c \in Chats, ChatReadsUrl(c)
        PROVE  (KeyNotNewer /\ UrlNotOlderThanKey)'
    <3>1. /\ chat'[c].pc = "sent" /\ chat'[c].key = chat[c].key
          /\ chat'[c].url = cache.ver /\ cache' = cache
          /\ \A d \in Chats \ {c} : chat'[d] = chat[d]
      BY <2>2 DEF ChatReadsUrl, TypeOK, ChatPC
    <3>2. chat[c].key <= cache.ver
      BY <2>2 DEF ChatReadsUrl, KeyNotNewer
    <3> QED BY <3>1, <3>2 DEF KeyNotNewer, UrlNotOlderThanKey
  <2>3. CASE Crash
    BY <2>3 DEF Crash, KeyNotNewer, UrlNotOlderThanKey
  <2>4. CASE UNCHANGED chat /\ cache.ver <= cache'.ver
    <3>1. cache.ver \in Nat /\ cache'.ver \in Nat
      BY DEF TypeOK, Version
    <3>2. \A c \in Chats : chat[c].key \in Nat
      BY DEF TypeOK
    <3>3. KeyNotNewer'
      BY <2>4, <3>1, <3>2 DEF KeyNotNewer
    <3> QED BY <2>4, <3>3 DEF UrlNotOlderThanKey
  <2>5. CASE UNCHANGED vars
    BY <2>5 DEF vars, KeyNotNewer, UrlNotOlderThanKey
  <2>6. Next => Crash \/ UNCHANGED chat
                  \/ \E c \in Chats : ChatReadsKey(c) \/ ChatReadsUrl(c)
    BY DEF Next, Boot, BootLoad, BootAssign, CheckFirstBoot, SeedDefaults,
           SeedAnnounce, MarkBooted, Reader, ReaderSubscribes, ReaderTakes,
           ReaderSelects, ReaderAssigns, SetterStores, SetterAnnounces
  <2> QED BY <2>1, <2>2, <2>3, <2>4, <2>5, <2>6, CacheStep
<1> QED BY <1>1, <1>2, IInvInit, IInvStep, TypeCorrect, PTL DEF Spec

-------------------------------------------------------------------------------
(***************************************************************************)
(* The first boot.  Each fact has its excuse in `skipped': without the     *)
(* mark a process serves only if the check or the write of it failed;      *)
(* behind the upsert there are settings unless the upsert failed.          *)
(***************************************************************************)
MarkExcused == marker \/ "mark" \in skipped
SeedExcused == db.by # "nobody" \/ "seed" \in skipped

BootOrder ==
  /\ boot.pc = "seed" /\ db.by = "user" => "mark" \in skipped
  /\ boot.pc \in {"announce", "mark"} => SeedExcused
  /\ Serving => MarkExcused
  /\ db.by = "user" => MarkExcused
  /\ MarkedIsSeeded
  /\ RequestsAfterBoot

\* Each step keeps BootOrder, and replaces a user's row only with an excuse.
LEMMA BootOrderStep ==
  ASSUME TypeOK, BootOrder, [Next]_vars
  PROVE  BootOrder' /\ (db.by = "user" => db'.by = "user" \/ "mark" \in skipped)
<1> DEFINE Goal ==
      BootOrder' /\ (db.by = "user" => db'.by = "user" \/ "mark" \in skipped)
<1> USE DEF TypeOK, BootOrder, MarkExcused, SeedExcused, MarkedIsSeeded,
            RequestsAfterBoot, Serving, Version
<1>1. CASE BootLoad
  BY <1>1 DEF BootLoad
<1>2. CASE BootAssign
  BY <1>2 DEF BootAssign
<1>3. CASE CheckFirstBoot
  BY <1>3 DEF CheckFirstBoot, Unmarked
<1>4. CASE SeedDefaults
  BY <1>4 DEF SeedDefaults, Upsert
<1>5. CASE SeedAnnounce
  BY <1>5 DEF SeedAnnounce
<1>6. CASE MarkBooted
  BY <1>6 DEF MarkBooted, Unmarked
<1>7. CASE Reader
  BY <1>7 DEF Reader, ReaderSubscribes, ReaderTakes, ReaderSelects, ReaderAssigns
<1>8. ASSUME NEW u \in Setters, SetterStores(u) PROVE Goal
  BY <1>8 DEF SetterStores, Upsert
<1>9. ASSUME NEW u \in Setters, SetterAnnounces(u) PROVE Goal
  BY <1>9 DEF SetterAnnounces
<1>10. ASSUME NEW c \in Chats, ChatReadsKey(c) \/ ChatReadsUrl(c) PROVE Goal
  BY <1>10 DEF ChatReadsKey, ChatReadsUrl
<1>11. CASE Crash
  BY <1>11 DEF Crash
<1>12. CASE UNCHANGED vars
  BY <1>12 DEF vars
<1> QED
  BY <1>1, <1>2, <1>3, <1>4, <1>5, <1>6, <1>7, <1>8, <1>9, <1>10, <1>11, <1>12
  DEF Next, Boot

\* BootOrder holds in every state of every execution.
LEMMA BootOrderInvariant == Spec => []BootOrder
<1>1. Init => BootOrder
  BY DEF Init, Nothing, BootOrder, Serving, MarkedIsSeeded, RequestsAfterBoot
<1>2. TypeOK /\ BootOrder /\ [Next]_vars => BootOrder'
  BY BootOrderStep
<1> QED BY <1>1, <1>2, TypeCorrect, PTL DEF Spec

(***************************************************************************)
(* No order of crashes and restarts lets the defaults replace what a user  *)
(* has stored, unless a process served users without the mark of the first *)
(* boot because its database call had failed (settings_service.go:31-51).  *)
(***************************************************************************)
THEOREM DefaultsNeverReplaceUser == Spec => UserSettingsSurvive
<1>1. TypeOK /\ BootOrder /\ [Next]_vars
        => [db.by = "user" => db'.by = "user" \/ "mark" \in skipped]_vars
  BY BootOrderStep
<1> QED BY <1>1, BootOrderInvariant, TypeCorrect, PTL DEF Spec, UserSettingsSurvive

(***************************************************************************)
(* A program marked as booted has settings, wherever a crash interrupted   *)
(* the earlier starts, unless the upsert of the defaults failed and was    *)
(* passed over (settings_service.go:40).                                   *)
(***************************************************************************)
THEOREM MarkedImpliesSeeded == Spec => []MarkedIsSeeded
<1>1. BootOrder => MarkedIsSeeded
  BY DEF BootOrder
<1> QED BY <1>1, BootOrderInvariant, PTL

NothingSkipped == skipped = {}

(***************************************************************************)
(* With a database that does not fail nothing is skipped, and the defaults *)
(* are for the first boot only (settings_service.go:87).                   *)
(***************************************************************************)
THEOREM DefaultsBeforeUsers == ~DBFails => (Spec => DefaultsOnFirstBootOnly)
<1> SUFFICES ASSUME ~DBFails PROVE Spec => DefaultsOnFirstBootOnly
  OBVIOUS
<1>1. Init => NothingSkipped
  BY DEF Init, NothingSkipped
<1>2. NothingSkipped /\ [Next]_vars => NothingSkipped'
  BY DEF NothingSkipped, Next, Boot, BootLoad, BootAssign, CheckFirstBoot, SeedDefaults,
         SeedAnnounce, MarkBooted, Reader, ReaderSubscribes, ReaderTakes,
         ReaderSelects, ReaderAssigns, SetterStores, SetterAnnounces,
         ChatReadsKey, ChatReadsUrl, Crash, vars
<1>3. TypeOK /\ BootOrder /\ NothingSkipped /\ [Next]_vars
        => [db.by = "user" => db'.by = "user"]_vars
  BY BootOrderStep DEF NothingSkipped
<1> QED BY <1>1, <1>2, <1>3, BootOrderInvariant, TypeCorrect, PTL
        DEF Spec, DefaultsOnFirstBootOnly

\* Whoever announces, and every event, comes after an upsert.
EventsHaveRow ==
  WillPublish \/ pending > 0 \/ reader.pc \in {"select", "assign"} => db.ver > 0

FailedLoads == {"load", "reload"}

\* Without errors of the database no load of the row fails.
LEMMA LoadsSucceed ==
  ASSUME ~DBFails, TypeOK, RequestsAfterBoot, EventsHaveRow,
         lost \cap FailedLoads = {}, [Next]_vars
  PROVE  EventsHaveRow' /\ lost' \cap FailedLoads = {}
<1> DEFINE Goal == EventsHaveRow' /\ lost' \cap FailedLoads = {}
<1> USE DEF TypeOK, EventsHaveRow, FailedLoads, WillPublish, RequestsAfterBoot,
            Serving, Version
<1>1. CASE BootLoad
  BY <1>1 DEF BootLoad
<1>2. CASE BootAssign
  BY <1>2 DEF BootAssign
<1>3. CASE CheckFirstBoot
  BY <1>3 DEF CheckFirstBoot
<1>4. CASE SeedDefaults
  BY <1>4 DEF SeedDefaults, Upsert
<1>5. CASE SeedAnnounce
  BY <1>5 DEF SeedAnnounce, Announce
<1>6. CASE MarkBooted
  BY <1>6 DEF MarkBooted
<1>7. CASE Reader
  BY <1>7 DEF Reader, ReaderSubscribes, ReaderTakes, ReaderSelects, ReaderAssigns
<1>8. ASSUME NEW u \in Setters, SetterStores(u) PROVE Goal
  BY <1>8 DEF SetterStores, Upsert
<1>9. ASSUME NEW u \in Setters, SetterAnnounces(u) PROVE Goal
  <2>1. db.ver > 0 /\ UNCHANGED <<db, boot, reader>>
    BY <1>9 DEF SetterAnnounces
  <2>2. EventsHaveRow'
    BY <2>1
  <2>3. lost' \cap FailedLoads = {}
    BY <1>9 DEF SetterAnnounces, Announce
  <2> QED BY <2>2, <2>3
<1>10. ASSUME NEW c \in Chats, ChatReadsKey(c) \/ ChatReadsUrl(c) PROVE Goal
  BY <1>10 DEF ChatReadsKey, ChatReadsUrl
<1>11. CASE Crash
  BY <1>11 DEF Crash
<1>12. CASE UNCHANGED vars
  BY <1>12 DEF vars
<1> QED
  BY <1>1, <1>2, <1>3, <1>4, <1>5, <1>6, <1>7, <1>8, <1>9, <1>10, <1>11, <1>12
  DEF Next, Boot

(***************************************************************************)
(* With a database that does not fail there is one way left to a copy that *)
(* stays stale: a change was announced before the subscriber goroutine,    *)
(* which nothing waits for, had subscribed (main.go:85-94).  No event      *)
(* finds the row missing, and no load is given up.                         *)
(***************************************************************************)
StaleOnlyUnheard ==
  cache # db => WillPublish \/ WillReload \/ WillLoad \/ "nobody" \in lost

THEOREM OnlyUnheardIsLost == ~DBFails => (Spec => []StaleOnlyUnheard)
<1> SUFFICES ASSUME ~DBFails PROVE Spec => []StaleOnlyUnheard
  OBVIOUS
<1> DEFINE HInv == EventsHaveRow /\ lost \cap FailedLoads = {}
<1>1. Init => HInv
  BY DEF Init, EventsHaveRow, WillPublish
<1>2. TypeOK /\ IInv /\ HInv /\ [Next]_vars => HInv'
  BY LoadsSucceed DEF IInv
<1>3. TypeOK /\ HInv /\ StaleExplained => StaleOnlyUnheard
  BY DEF TypeOK, StaleExplained, StaleOnlyUnheard, FailedLoads
<1> HIDE DEF HInv
<1>4. Spec => []StaleExplained
  BY StaleIsExplained
<1> QED BY <1>1, <1>2, <1>3, <1>4, IInvInit, IInvStep, TypeCorrect, PTL DEF Spec
===============================================================================
