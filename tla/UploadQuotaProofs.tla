--------------------------- MODULE UploadQuotaProofs ---------------------------
(***************************************************************************)
(* Proofs about UploadQuota: how far concurrent uploads can exceed the     *)
(* limit of a project, what the table counts, and that a listed document   *)
(* is whole, for any number of requests, projects and any sizes.           *)
(***************************************************************************)
EXTENDS UploadQuota, FiniteSetTheorems, TLAPS

-------------------------------------------------------------------------------
(* Arithmetic.                                                             *)

\* Rounding down to kilobytes.
LEMMA Rounding ==
  ASSUME NEW s \in Nat
  PROVE  /\ s \div KB \in Nat
         /\ KB * (s \div KB) <= s
         /\ s <= KB * (s \div KB) + (KB - 1)
BY QuotaAssumption

\* A factor more or less.
LEMMA Times ==
  ASSUME NEW m \in Nat, NEW n \in Nat
  PROVE  /\ m * n \in Nat
         /\ (n + 1) * m = n * m + m /\ m * (n + 1) = m * n + m
         /\ n # 0 => (n - 1) * m = n * m - m
OBVIOUS

\* Products are monotone.
LEMMA TimesMonotone ==
  ASSUME NEW k \in Nat, NEW a \in Nat, NEW b \in Nat, a <= b
  PROVE  k * a <= k * b
OBVIOUS

\* A smaller file has no more kilobytes.
LEMMA RoundingMonotone ==
  ASSUME NEW s \in Nat, NEW t \in Nat, s <= t
  PROVE  s \div KB <= t \div KB
<1> DEFINE a == s \div KB
           b == t \div KB
<1>1. a \in Nat /\ b \in Nat /\ KB \in Nat /\ KB > 0
  BY Rounding, QuotaAssumption
<1>2. KB * a <= s /\ t <= KB * b + (KB - 1)
  BY Rounding
<1> HIDE DEF a, b
<1>3. ASSUME a >= b + 1 PROVE FALSE
  <2>1. KB * (b + 1) <= KB * a
    BY <1>1, <1>3, TimesMonotone
  <2>2. KB * (b + 1) = KB * b + KB
    BY <1>1, Times
  <2>3. KB * a \in Nat /\ KB * b \in Nat
    BY <1>1, Times
  <2> QED BY <1>1, <1>2, <2>1, <2>2, <2>3
<1>4. a <= b
  BY <1>1, <1>3
<1> QED BY <1>4 DEF a, b

-------------------------------------------------------------------------------
(* Types.                                                                  *)

\* A request that has begun names a project; one that runs passed the first
\* limit.
Begun == \A u \in Uploads : pc[u] # "new" => project[u] \in Projects
PassedMaxFile == \A u \in Uploads : pc[u] \in Running => size[u] <= MaxFile

TInv == TypeOK /\ Begun /\ PassedMaxFile

\* The sum and the bytes after a row was added.
LEMMA SaveTypes ==
  ASSUME TInv, NEW u \in Uploads, SaveRow(u)
  PROVE  used' \in [Projects -> Nat] /\ bytes' \in [Projects -> Nat]
<1>1. /\ project[u] \in Projects /\ size[u] \in Nat
      /\ used \in [Projects -> Nat] /\ bytes \in [Projects -> Nat]
  BY DEF TInv, TypeOK, Begun, SaveRow
<1>2. used[project[u]] + (size[u] \div KB) \in Nat /\ bytes[project[u]] + size[u] \in Nat
  BY <1>1, Rounding
<1>3. CASE UNCHANGED <<used, bytes>>
  BY <1>1, <1>3
<1>4. CASE /\ used' = [used EXCEPT ![project[u]] = @ + (size[u] \div KB)]
           /\ bytes' = [bytes EXCEPT ![project[u]] = @ + size[u]]
  BY <1>1, <1>2, <1>4
<1> QED BY <1>3, <1>4 DEF SaveRow

\* A request moves; its project and size stay.
LEMMA MoveTypes ==
  ASSUME TInv, NEW u \in Uploads, pc[u] # "new", pc[u] \in Running,
         NEW to \in Running \union {"saved", "failed"}, Move(u, to),
         UNCHANGED <<project, size>>
  PROVE  /\ pc' \in [Uploads -> Running \union {"new", "too big", "over", "saved", "failed"}]
         /\ Begun' /\ PassedMaxFile'
BY DEF TInv, TypeOK, Begun, PassedMaxFile, Move

\* Every step keeps the types.
LEMMA TInvStep == TInv /\ [Next]_vars => TInv'
<1> SUFFICES ASSUME TInv, [Next]_vars PROVE TInv'
  OBVIOUS
<1>1. ASSUME NEW u \in Uploads, NEW p \in Projects, NEW s \in Sizes, CheckLimits(u, p, s)
      PROVE  TInv'
  <2>1. s \in Nat
    BY QuotaAssumption
  <2>2. /\ project' \in [Uploads -> Projects \union {NoProject}]
        /\ size' \in [Uploads -> Nat]
        /\ UNCHANGED <<file, used, bytes>>
    BY <1>1, <2>1 DEF CheckLimits, TInv, TypeOK
  <2>3. PICK to \in {"too big", "over", "admitted", "failed"} :
          Move(u, to) /\ (to = "admitted" => s <= MaxFile)
    BY <1>1 DEF CheckLimits
  <2>4. pc' \in [Uploads -> Running \union {"new", "too big", "over", "saved", "failed"}]
    BY <2>3 DEF Move, TInv, TypeOK, Running
  <2>5. /\ \A x \in Uploads \ {u} : pc'[x] = pc[x] /\ project'[x] = project[x] /\ size'[x] = size[x]
        /\ pc'[u] = to /\ project'[u] = p /\ size'[u] = s
    BY <1>1, <2>3 DEF CheckLimits, Move, TInv, TypeOK
  <2>6. Begun' /\ PassedMaxFile'
    BY <2>3, <2>5 DEF TInv, Begun, PassedMaxFile, Running
  <2> QED BY <2>2, <2>4, <2>6 DEF TInv, TypeOK
<1>2. ASSUME NEW u \in Uploads, CreateFile(u) \/ CopyFile(u)
      PROVE  TInv'
  <2>1. /\ file' \in [Uploads -> {"none", "part", "whole"}]
        /\ UNCHANGED <<project, size, used, bytes>>
        /\ pc[u] \in {"admitted", "copying"}
        /\ Move(u, "copying") \/ Move(u, "stored") \/ Move(u, "failed")
    BY <1>2 DEF CreateFile, CopyFile, TInv, TypeOK
  <2> QED BY <2>1, MoveTypes DEF TInv, TypeOK, Running
<1>3. ASSUME NEW u \in Uploads, SaveRow(u)
      PROVE  TInv'
  <2>1. /\ pc[u] = "stored" /\ (Move(u, "saved") \/ Move(u, "failed"))
        /\ UNCHANGED <<project, size, file>>
    BY <1>3 DEF SaveRow
  <2> QED BY <1>3, <2>1, MoveTypes, SaveTypes DEF TInv, TypeOK, Running
<1>4. CASE Crash
  BY <1>4 DEF Crash, TInv, TypeOK, Begun, PassedMaxFile, Running
<1>5. CASE UNCHANGED vars
  BY <1>5 DEF vars, TInv, TypeOK, Begun, PassedMaxFile
<1> QED BY <1>1, <1>2, <1>3, <1>4, <1>5 DEF Next

LEMMA TInvInit == Init => TInv
BY DEF Init, TInv, TypeOK, Begun, PassedMaxFile, Running

(***************************************************************************)
(* The state keeps its types; in particular the sums of the table never    *)
(* become negative and a request's project is one of the projects.         *)
(***************************************************************************)
THEOREM TypeCorrect == Spec => []TypeOK
<1>1. TInv => TypeOK
  BY DEF TInv
<1> QED BY <1>1, TInvInit, TInvStep, PTL DEF Spec

-------------------------------------------------------------------------------
(* The overrun.                                                            *)

(***************************************************************************)
(* Every request in flight may still add a largest file.  If the one that  *)
(* was admitted last is still in flight, what it may add is known exactly: *)
(* its size was in the comparison.                                         *)
(***************************************************************************)
Slot == MaxFile \div KB
KBs(u) == size[u] \div KB
Limit == MaxProject + AtOnce * Slot
Taken(p) == used[p] + Cardinality(InFlight(p)) * Slot

Bounded(p) ==
  \/ Taken(p) + Slot <= Limit
  \/ \E v \in InFlight(p) : Taken(p) + KBs(v) <= Limit

\* The numbers are natural, and a request adds no more than a slot.
LEMMA FlightFacts ==
  ASSUME TInv, NEW p \in Projects
  PROVE  /\ IsFiniteSet(InFlight(p)) /\ Cardinality(InFlight(p)) \in Nat
         /\ Slot \in Nat /\ Limit \in Nat /\ used[p] \in Nat
         /\ Cardinality(InFlight(p)) * Slot \in Nat
         /\ \A v \in InFlight(p) : KBs(v) \in Nat /\ KBs(v) <= Slot
<1>1. IsFiniteSet(InFlight(p))
  BY FS_Subset, QuotaAssumption DEF InFlight
<1>2. Cardinality(InFlight(p)) \in Nat
  BY <1>1, FS_CardinalityType
<1>3. Slot \in Nat
  BY Rounding, QuotaAssumption DEF Slot
<1>4. AtOnce * Slot \in Nat /\ Cardinality(InFlight(p)) * Slot \in Nat
  BY <1>2, <1>3, Times, QuotaAssumption
<1>5. Limit \in Nat
  BY <1>4, QuotaAssumption DEF Limit
<1>6. ASSUME NEW v \in InFlight(p) PROVE KBs(v) \in Nat /\ KBs(v) <= Slot
  <2>1. size[v] \in Nat /\ MaxFile \in Nat /\ size[v] <= MaxFile
    BY QuotaAssumption DEF InFlight, TInv, TypeOK, PassedMaxFile
  <2> QED BY <2>1, Rounding, RoundingMonotone DEF KBs, Slot
<1>7. used[p] \in Nat
  BY DEF TInv, TypeOK
<1> QED BY <1>1, <1>2, <1>3, <1>4, <1>5, <1>6, <1>7

\* The bound of OverrunBounded, with the term of the fewest requests.
LEMMA UsedBounded ==
  ASSUME TInv, NEW p \in Projects, Bounded(p)
  PROVE  used[p] + Slot <= Limit
<1> DEFINE n == Cardinality(InFlight(p))
<1>0. /\ n \in Nat /\ Slot \in Nat /\ Limit \in Nat /\ used[p] \in Nat
      /\ n * Slot \in Nat
  BY FlightFacts
<1>1. CASE Taken(p) + Slot <= Limit
  BY <1>0, <1>1 DEF Taken
<1>2. CASE \E v \in InFlight(p) : Taken(p) + KBs(v) <= Limit
  <2>1. PICK v \in InFlight(p) : Taken(p) + KBs(v) <= Limit
    BY <1>2
  <2>2. n # 0
    BY FlightFacts, FS_EmptySet
  <2>3. n * Slot = (n - 1) * Slot + Slot /\ (n - 1) * Slot \in Nat
    BY <1>0, <2>2, Times
  <2>4. KBs(v) \in Nat
    BY FlightFacts
  <2> QED BY <1>0, <2>1, <2>3, <2>4 DEF Taken
<1> QED BY <1>1, <1>2 DEF Bounded

\* A request leaves, with or without a row: it frees a slot and adds no more.
LEMMA BoundedLeave ==
  ASSUME TInv, NEW p \in Projects, Bounded(p), NEW u \in InFlight(p),
         InFlight(p)' = InFlight(p) \ {u}, UNCHANGED size,
         used'[p] \in Nat, used'[p] <= used[p] + KBs(u)
  PROVE  Bounded(p)'
<1> DEFINE n == Cardinality(InFlight(p))
<1>0. /\ IsFiniteSet(InFlight(p)) /\ n \in Nat /\ Slot \in Nat /\ Limit \in Nat
      /\ used[p] \in Nat /\ n * Slot \in Nat
      /\ \A v \in InFlight(p) : KBs(v) \in Nat /\ KBs(v) <= Slot
  BY FlightFacts
<1>1. Cardinality(InFlight(p))' = n - 1
  BY <1>0, FS_RemoveElement
<1>2. n # 0
  BY <1>0, FS_EmptySet
<1>3. (n - 1) * Slot = n * Slot - Slot
  BY <1>0, <1>2, Times
<1>4. Taken(p)' = used'[p] + n * Slot - Slot
  BY <1>0, <1>1, <1>3 DEF Taken, Slot
<1>5. Taken(p) = used[p] + n * Slot
  BY DEF Taken
<1>6. \A v \in Uploads : KBs(v)' = KBs(v)
  BY DEF KBs
<1>7. CASE Taken(p) + Slot <= Limit
  <2>1. Taken(p)' + Slot <= Limit
    BY <1>0, <1>4, <1>5, <1>7
  <2> QED BY <2>1 DEF Bounded, Slot, Limit
<1>8. ASSUME NEW v \in InFlight(p), Taken(p) + KBs(v) <= Limit PROVE Bounded(p)'
  <2>1. CASE v = u
    <3>1. Taken(p)' + Slot <= Limit
      BY <1>0, <1>4, <1>5, <1>8, <2>1
    <3> QED BY <3>1 DEF Bounded, Slot, Limit
  <2>2. CASE v # u
    <3>1. v \in InFlight(p)'
      BY <2>2
    <3>2. Taken(p)' + KBs(v) <= Limit
      BY <1>0, <1>4, <1>5, <1>8
    <3>3. KBs(v)' = KBs(v)
      BY <1>6 DEF InFlight
    <3> QED BY <3>1, <3>2, <3>3 DEF Bounded, Slot, Limit
  <2> QED BY <2>1, <2>2
<1> QED BY <1>7, <1>8 DEF Bounded

\* Nobody is in flight after a crash.
LEMMA BoundedCrash ==
  ASSUME TInv, NEW p \in Projects, Bounded(p), InFlight(p)' = {}, UNCHANGED used
  PROVE  Bounded(p)'
<1>1. Cardinality(InFlight(p))' = 0
  BY FS_EmptySet
<1>2. Slot \in Nat /\ used[p] \in Nat /\ used[p] + Slot <= Limit
  BY FlightFacts, UsedBounded
<1>3. Taken(p)' = used[p]
  BY <1>1, <1>2 DEF Taken, Slot
<1> QED BY <1>2, <1>3 DEF Bounded, Slot, Limit

\* A request is admitted only with its own size below the limit.
LEMMA BoundedAdmit ==
  ASSUME TInv, NEW p \in Projects, NEW u \in Uploads, NEW s \in Nat, s <= MaxFile,
         ~Exceeds(p, s), u \notin InFlight(p), Cardinality(InFlight(p)) < AtOnce,
         InFlight(p)' = InFlight(p) \union {u}, size'[u] = s, UNCHANGED used
  PROVE  Bounded(p)'
<1> DEFINE n == Cardinality(InFlight(p))
<1>0. /\ IsFiniteSet(InFlight(p)) /\ n \in Nat /\ Slot \in Nat /\ Limit \in Nat
      /\ used[p] \in Nat /\ n * Slot \in Nat
  BY FlightFacts
<1>1. Cardinality(InFlight(p))' = n + 1
  BY <1>0, FS_AddElement
<1>2. Taken(p)' = used[p] + (n + 1) * Slot
  BY <1>1 DEF Taken, Slot
<1>3. (n + 1) * Slot <= AtOnce * Slot
  <2>1. n + 1 <= AtOnce /\ AtOnce \in Nat
    BY <1>0, QuotaAssumption
  <2>2. Slot * (n + 1) <= Slot * AtOnce
    BY <1>0, <2>1, TimesMonotone
  <2> QED BY <1>0, <2>1, <2>2
<1>4. s \div KB \in Nat /\ s \div KB <= s
  <2>1. s \div KB \in Nat /\ KB * (s \div KB) <= s /\ KB \in Nat \ {0}
    BY Rounding, QuotaAssumption
  <2>2. s \div KB <= KB * (s \div KB)
    BY <2>1
  <2>3. KB * (s \div KB) \in Nat
    BY <2>1, Times
  <2> QED BY <2>1, <2>2, <2>3
<1>5. used[p] + s <= MaxProject
  BY <1>0, QuotaAssumption DEF Exceeds
<1>6. (n + 1) * Slot \in Nat /\ AtOnce * Slot \in Nat
  BY <1>0, Times, QuotaAssumption
<1>7. Taken(p)' + (s \div KB) <= Limit
  <2> DEFINE k == s \div KB
             m == (n + 1) * Slot
             all == AtOnce * Slot
  <2>1. /\ k \in Nat /\ m \in Nat /\ all \in Nat /\ MaxProject \in Nat
        /\ k <= s /\ m <= all
    BY <1>3, <1>4, <1>6, QuotaAssumption
  <2>2. Taken(p)' = used[p] + m /\ Limit = MaxProject + all
    BY <1>2 DEF Limit
  <2> HIDE DEF k, m, all
  <2>3. Taken(p)' + k <= Limit
    BY <1>0, <1>5, <2>1, <2>2
  <2> QED BY <2>3 DEF k
<1>8. KBs(u)' = s \div KB /\ u \in InFlight(p)'
  BY DEF KBs
<1> QED BY <1>7, <1>8 DEF Bounded, Limit, Slot

\* Who is in flight after a step.
LEMMA FlightAfterMove ==
  ASSUME TInv, NEW u \in Uploads, pc[u] \in Running, NEW to, Move(u, to),
         UNCHANGED project, NEW p \in Projects
  PROVE  /\ to \in Running => InFlight(p)' = InFlight(p)
         /\ to \notin Running => InFlight(p)' = InFlight(p) \ {u}
BY DEF TInv, TypeOK, Move, InFlight

LEMMA BoundedStep ==
  ASSUME TInv, [Next]_vars, NEW p \in Projects, Bounded(p)
  PROVE  Bounded(p)'
<1>0. used[p] \in Nat
  BY DEF TInv, TypeOK
<1>a. ASSUME InFlight(p)' = InFlight(p), UNCHANGED <<used, size>>
      PROVE  Bounded(p)'
  BY <1>a DEF Bounded, Taken, KBs, Slot, Limit
<1>1. ASSUME NEW u \in Uploads, NEW q \in Projects, NEW s \in Sizes, CheckLimits(u, q, s)
      PROVE  Bounded(p)'
  <2>1. /\ pc[u] = "new" /\ u \notin InFlight(p) /\ u \notin InFlight(q)
        /\ UNCHANGED used /\ size'[u] = s /\ s \in Nat
        /\ \A x \in Uploads \ {u} : /\ pc'[x] = pc[x] /\ project'[x] = project[x]
                                   /\ size'[x] = size[x]
    BY <1>1, QuotaAssumption DEF CheckLimits, Move, InFlight, Running, TInv, TypeOK
  <2>2. CASE Move(u, "admitted") /\ s <= MaxFile /\ ~Exceeds(q, s) /\ p = q
    <3>1. InFlight(p)' = InFlight(p) \union {u}
      BY <1>1, <2>1, <2>2 DEF CheckLimits, Move, InFlight, Running, TInv, TypeOK
    <3> QED BY <1>1, <2>1, <2>2, <3>1, BoundedAdmit DEF CheckLimits
  <2>3. CASE ~(Move(u, "admitted") /\ p = q)
    <3>1. pc'[u] \notin Running \/ project'[u] # p
      BY <1>1, <2>3 DEF CheckLimits, Move, Running, TInv, TypeOK
    <3>2. InFlight(p)' = InFlight(p)
      BY <2>1, <3>1 DEF InFlight
    <3>3. \A v \in InFlight(p) : KBs(v)' = KBs(v)
      BY <2>1 DEF InFlight, KBs
    <3> QED BY <2>1, <3>2, <3>3 DEF Bounded, Taken, Slot, Limit
  <2> QED BY <1>1, <2>2, <2>3 DEF CheckLimits, Move, TInv, TypeOK
<1>2. ASSUME NEW u \in Uploads, CreateFile(u) \/ CopyFile(u)
      PROVE  Bounded(p)'
  <2>1. /\ pc[u] \in Running /\ UNCHANGED <<project, size, used>>
        /\ Move(u, "copying") \/ Move(u, "stored") \/ Move(u, "failed")
    BY <1>2 DEF CreateFile, CopyFile, Running
  <2>2. CASE InFlight(p)' = InFlight(p)
    BY <1>a, <2>1, <2>2
  <2>3. CASE InFlight(p)' = InFlight(p) \ {u} /\ u \in InFlight(p)
    <3>1. KBs(u) \in Nat
      BY <2>3, FlightFacts
    <3> QED BY <1>0, <2>1, <2>3, <3>1, BoundedLeave
  <2> QED BY <2>1, <2>2, <2>3, FlightAfterMove DEF Running
<1>3. ASSUME NEW u \in Uploads, SaveRow(u)
      PROVE  Bounded(p)'
  <2>1. /\ pc[u] \in Running /\ UNCHANGED <<project, size>>
        /\ Move(u, "saved") \/ Move(u, "failed")
        /\ \/ UNCHANGED used
           \/ used' = [used EXCEPT ![project[u]] = @ + KBs(u)]
    BY <1>3 DEF SaveRow, Running, KBs
  <2>2. InFlight(p)' = InFlight(p) \ {u}
    BY <2>1, FlightAfterMove DEF Running
  <2>3. CASE u \in InFlight(p)
    <3>1. KBs(u) \in Nat /\ project[u] = p
      BY <2>3, FlightFacts DEF InFlight
    <3>2. used'[p] = used[p] \/ used'[p] = used[p] + KBs(u)
      BY <2>1, <3>1 DEF TInv, TypeOK
    <3> QED BY <1>0, <2>1, <2>2, <2>3, <3>1, <3>2, BoundedLeave
  <2>4. CASE u \notin InFlight(p)
    <3>1. project[u] # p /\ InFlight(p)' = InFlight(p)
      BY <2>1, <2>2, <2>4 DEF InFlight
    <3>2. used'[p] = used[p]
      BY <2>1, <3>1 DEF TInv, TypeOK
    <3> QED BY <2>1, <3>1, <3>2 DEF Bounded, Taken, KBs, Slot, Limit
  <2> QED BY <2>3, <2>4
<1>4. CASE Crash
  <2>1. InFlight(p)' = {} /\ UNCHANGED used
    BY <1>4 DEF Crash, InFlight, Running
  <2> QED BY <2>1, BoundedCrash
<1>5. CASE UNCHANGED vars
  BY <1>5 DEF vars, Bounded, Taken, KBs, Slot, Limit, InFlight
<1> QED BY <1>1, <1>2, <1>3, <1>4, <1>5 DEF Next

(***************************************************************************)
(* A project exceeds its limit by at most the largest file for each        *)
(* request but one of those that run at the same time (service.go:475-487).*)
(* Inductive with: all slots of the requests in flight fit below the limit *)
(* and AtOnce slots, and the request admitted last needs only its own size.*)
(***************************************************************************)
THEOREM OverrunIsBounded == Spec => []OverrunBounded
<1> DEFINE BInv == \A p \in Projects : Bounded(p)
<1>1. Init => BInv
  <2> SUFFICES ASSUME Init, NEW p \in Projects PROVE Bounded(p)
    OBVIOUS
  <2>1. InFlight(p) = {} /\ used[p] = 0
    BY DEF Init, InFlight, Running
  <2>2. Slot \in Nat /\ AtOnce \in Nat \ {0} /\ MaxProject \in Nat
    BY Rounding, QuotaAssumption DEF Slot
  <2>3. Taken(p) = 0
    BY <2>1, <2>2, FS_EmptySet DEF Taken
  <2>4. Slot <= AtOnce * Slot /\ AtOnce * Slot \in Nat
    <3>1. Slot * 1 <= Slot * AtOnce
      BY <2>2, TimesMonotone
    <3> QED BY <2>2, <3>1
  <2> QED BY <2>2, <2>3, <2>4 DEF Bounded, Limit
<1>2. TInv /\ BInv /\ [Next]_vars => BInv'
  BY BoundedStep
<1>3. TInv /\ BInv => OverrunBounded
  <2> SUFFICES ASSUME TInv, BInv, NEW p \in Projects
               PROVE  used[p] <= MaxProject + (AtOnce - 1) * Slot
    BY DEF OverrunBounded, Slot
  <2>1. used[p] + Slot <= Limit /\ used[p] \in Nat /\ Slot \in Nat
    BY UsedBounded, FlightFacts
  <2>2. (AtOnce - 1) * Slot = AtOnce * Slot - Slot
    BY <2>1, Times, QuotaAssumption
  <2>3. AtOnce * Slot \in Nat /\ MaxProject \in Nat
    BY <2>1, Times, QuotaAssumption
  <2> QED BY <2>1, <2>2, <2>3 DEF Limit
<1> HIDE DEF BInv
<1> QED BY <1>1, <1>2, <1>3, TInvInit, TInvStep, PTL DEF Spec

-------------------------------------------------------------------------------
(* What the table counts.                                                  *)

\* Rows are added one at a time, and each adds its size to both counts.
LEMMA ListedStep ==
  ASSUME TInv, [Next]_vars, NEW p \in Projects
  PROVE  \/ Listed(p)' = Listed(p) /\ used'[p] = used[p] /\ bytes'[p] = bytes[p]
         \/ \E u \in Uploads \ Listed(p) :
              /\ Listed(p)' = Listed(p) \union {u}
              /\ used'[p] = used[p] + (size[u] \div KB)
              /\ bytes'[p] = bytes[p] + size[u]
<1>1. ASSUME NEW u \in Uploads, NEW q \in Projects, NEW s \in Sizes, CheckLimits(u, q, s)
      PROVE  Listed(p)' = Listed(p) /\ used' = used /\ bytes' = bytes
  BY <1>1 DEF CheckLimits, Move, Listed, TInv, TypeOK
<1>2. ASSUME NEW u \in Uploads, CreateFile(u) \/ CopyFile(u)
      PROVE  Listed(p)' = Listed(p) /\ used' = used /\ bytes' = bytes
  BY <1>2 DEF CreateFile, CopyFile, Move, Listed, TInv, TypeOK
<1>3. ASSUME NEW u \in Uploads, SaveRow(u), Move(u, "failed"), UNCHANGED <<used, bytes>>
      PROVE  Listed(p)' = Listed(p) /\ used' = used /\ bytes' = bytes
  BY <1>3 DEF SaveRow, Move, Listed, TInv, TypeOK
<1>4. ASSUME NEW u \in Uploads, SaveRow(u), Move(u, "saved"),
             used' = [used EXCEPT ![project[u]] = @ + (size[u] \div KB)],
             bytes' = [bytes EXCEPT ![project[u]] = @ + size[u]]
      PROVE  \/ Listed(p)' = Listed(p) /\ used'[p] = used[p] /\ bytes'[p] = bytes[p]
             \/ /\ u \notin Listed(p) /\ Listed(p)' = Listed(p) \union {u}
                /\ used'[p] = used[p] + (size[u] \div KB)
                /\ bytes'[p] = bytes[p] + size[u]
  <2>1. pc[u] = "stored" /\ pc' = [pc EXCEPT ![u] = "saved"] /\ UNCHANGED project
    BY <1>4 DEF SaveRow, Move
  <2>2. CASE project[u] = p
    <3>1. u \notin Listed(p) /\ Listed(p)' = Listed(p) \union {u}
      BY <2>1, <2>2 DEF Listed, TInv, TypeOK
    <3>2. /\ used'[p] = used[p] + (size[u] \div KB)
          /\ bytes'[p] = bytes[p] + size[u]
      BY <1>4, <2>2 DEF TInv, TypeOK
    <3> QED BY <3>1, <3>2
  <2>3. CASE project[u] # p
    <3>1. Listed(p)' = Listed(p)
      BY <2>1, <2>3 DEF Listed, TInv, TypeOK
    <3>2. used'[p] = used[p] /\ bytes'[p] = bytes[p]
      BY <1>4, <2>3 DEF TInv, TypeOK
    <3> QED BY <3>1, <3>2
  <2> QED BY <2>2, <2>3
<1>5. CASE Crash
  BY <1>5 DEF Crash, Listed, Running, TInv, TypeOK
<1>6. CASE UNCHANGED vars
  BY <1>6 DEF vars, Listed
<1> QED BY <1>1, <1>2, <1>3, <1>4, <1>5, <1>6 DEF Next, SaveRow

(***************************************************************************)
(* The sum in the table is the size of the listed files, less what each of *)
(* them lost by rounding down (dao_sqlite.go:204).                         *)
(***************************************************************************)
THEOREM TableCountsListedFiles == Spec => []AccountingExact
<1>1. Init => AccountingExact
  <2> SUFFICES ASSUME Init, NEW p \in Projects
               PROVE  /\ KB * used[p] <= bytes[p]
                      /\ bytes[p] <= KB * used[p] + (KB - 1) * Cardinality(Listed(p))
    BY DEF AccountingExact
  <2>1. Listed(p) = {} /\ used[p] = 0 /\ bytes[p] = 0
    BY DEF Init, Listed
  <2> QED BY <2>1, FS_EmptySet, QuotaAssumption
<1>2. TInv /\ AccountingExact /\ [Next]_vars => AccountingExact'
  <2> SUFFICES ASSUME TInv, [Next]_vars, NEW p \in Projects,
                      KB * used[p] <= bytes[p],
                      bytes[p] <= KB * used[p] + (KB - 1) * Cardinality(Listed(p))
               PROVE  /\ KB * used'[p] <= bytes'[p]
                      /\ bytes'[p] <= KB * used'[p] + (KB - 1) * Cardinality(Listed(p))'
    BY DEF AccountingExact
  <2>1. CASE Listed(p)' = Listed(p) /\ used'[p] = used[p] /\ bytes'[p] = bytes[p]
    BY <2>1
  <2>2. ASSUME NEW u \in Uploads \ Listed(p),
               Listed(p)' = Listed(p) \union {u},
               used'[p] = used[p] + (size[u] \div KB),
               bytes'[p] = bytes[p] + size[u]
        PROVE  /\ KB * used'[p] <= bytes'[p]
               /\ bytes'[p] <= KB * used'[p] + (KB - 1) * Cardinality(Listed(p))'
    <3> DEFINE a == size[u] \div KB
               n == Cardinality(Listed(p))
               b == used[p]
               c == bytes[p]
               s == size[u]
               L == KB - 1
    <3>1. IsFiniteSet(Listed(p)) /\ n \in Nat
      BY FS_Subset, FS_CardinalityType, QuotaAssumption DEF Listed
    <3>2. Cardinality(Listed(p))' = n + 1
      BY <2>2, <3>1, FS_AddElement
    <3>3. b \in Nat /\ c \in Nat /\ s \in Nat /\ L \in Nat /\ KB \in Nat
      <4>1. u \in Uploads /\ b \in Nat /\ c \in Nat /\ s \in Nat
        BY DEF TInv, TypeOK
      <4>2. KB \in Nat \ {0}
        BY QuotaAssumption
      <4> QED BY <4>1, <4>2
    <3>4. a \in Nat /\ KB * a <= s /\ s <= KB * a + L
      BY <3>3, Rounding
    <3>5. KB * b <= c /\ c <= KB * b + L * n
      OBVIOUS
    <3>6. used'[p] = b + a /\ bytes'[p] = c + s
      BY <2>2
    <3> HIDE DEF a, n, b, c, s, L
    <3>7. KB * (b + a) = KB * b + KB * a /\ L * (n + 1) = L * n + L
      BY <3>1, <3>3, <3>4
    <3>8. KB * a \in Nat /\ KB * b \in Nat /\ L * n \in Nat
      BY <3>1, <3>3, <3>4, Times
    <3>9. KB * (b + a) <= c + s /\ c + s <= KB * (b + a) + L * (n + 1)
      BY <3>3, <3>4, <3>5, <3>7, <3>8
    <3> QED BY <3>2, <3>6, <3>9 DEF L
  <2> QED BY <2>1, <2>2, ListedStep
<1> QED BY <1>1, <1>2, TInvInit, TInvStep, PTL DEF Spec

(***************************************************************************)
(* A listed document is whole on disk: the row is written after the copy   *)
(* has succeeded, and files are never touched again (store/store.go:36-60).*)
(***************************************************************************)
THEOREM ListedFilesAreWhole == Spec => []ListedIsWhole
<1> DEFINE WInv == \A u \in Uploads : pc[u] \in {"stored", "saved"} => file[u] = "whole"
<1>1. Init => WInv
  BY DEF Init
<1>2. TInv /\ WInv /\ [Next]_vars => WInv'
  <2> SUFFICES ASSUME TInv, WInv, [Next]_vars, NEW x \in Uploads,
                      pc'[x] \in {"stored", "saved"}
               PROVE  file'[x] = "whole"
    OBVIOUS
  <2>1. CASE \E u \in Uploads, p \in Projects, s \in Sizes : CheckLimits(u, p, s)
    BY <2>1 DEF CheckLimits, Move, TInv, TypeOK
  <2>2. CASE \E u \in Uploads : CreateFile(u)
    BY <2>2 DEF CreateFile, Move, TInv, TypeOK
  <2>3. CASE \E u \in Uploads : CopyFile(u)
    BY <2>3 DEF CopyFile, Move, TInv, TypeOK
  <2>4. CASE \E u \in Uploads : SaveRow(u)
    BY <2>4 DEF SaveRow, Move, TInv, TypeOK
  <2>5. CASE Crash
    BY <2>5 DEF Crash, Running, TInv, TypeOK
  <2>6. CASE UNCHANGED vars
    BY <2>6 DEF vars
  <2> QED BY <2>1, <2>2, <2>3, <2>4, <2>5, <2>6 DEF Next
<1>3. WInv => ListedIsWhole
  BY DEF ListedIsWhole
<1> HIDE DEF WInv
<1> QED BY <1>1, <1>2, <1>3, TInvInit, TInvStep, PTL DEF Spec

(***************************************************************************)
(* What the limit really is.  A project may hold MaxProject kilobytes, as  *)
(* the sum is in kilobytes (http.go:13 and service.go:476 say bytes), one  *)
(* largest file more for each concurrent request but one, and less than a  *)
(* kilobyte for each listed file: that last part is not limited at all.    *)
(***************************************************************************)
TrueLimit ==
  \A p \in Projects :
    bytes[p] <= KB * (MaxProject + (AtOnce - 1) * (MaxFile \div KB))
                  + (KB - 1) * Cardinality(Listed(p))

THEOREM ProjectHoldsAtMost == Spec => []TrueLimit
<1>1. TInv /\ OverrunBounded /\ AccountingExact => TrueLimit
  <2> SUFFICES ASSUME TInv, NEW p \in Projects,
                      used[p] <= MaxProject + (AtOnce - 1) * Slot,
                      bytes[p] <= KB * used[p] + (KB - 1) * Cardinality(Listed(p))
               PROVE  bytes[p] <= KB * (MaxProject + (AtOnce - 1) * Slot)
                                    + (KB - 1) * Cardinality(Listed(p))
    BY DEF TrueLimit, OverrunBounded, AccountingExact, Slot
  <2> DEFINE b == used[p]
             m == MaxProject + (AtOnce - 1) * Slot
             r == (KB - 1) * Cardinality(Listed(p))
  <2>0. Slot \in Nat
    BY FlightFacts
  <2>1. AtOnce - 1 \in Nat /\ MaxProject \in Nat /\ KB \in Nat /\ KB - 1 \in Nat
    BY QuotaAssumption
  <2>2. (AtOnce - 1) * Slot \in Nat
    BY <2>0, <2>1, Times
  <2>a. b \in Nat /\ bytes[p] \in Nat
    BY DEF TInv, TypeOK
  <2>3. m \in Nat /\ b \in Nat /\ bytes[p] \in Nat
    BY <2>1, <2>2, <2>a
  <2>4. Cardinality(Listed(p)) \in Nat
    BY FS_Subset, FS_CardinalityType, QuotaAssumption DEF Listed
  <2>5. r \in Nat
    BY <2>1, <2>4, Times
  <2>6. b <= m /\ bytes[p] <= KB * b + r
    OBVIOUS
  <2> HIDE DEF b, m, r
  <2>7. KB * b <= KB * m /\ KB * b \in Nat /\ KB * m \in Nat
    BY <2>1, <2>3, <2>6, TimesMonotone, Times
  <2>8. bytes[p] <= KB * m + r
    BY <2>3, <2>5, <2>6, <2>7
  <2> QED BY <2>8 DEF m, r
<1> QED
  BY <1>1, OverrunIsBounded, TableCountsListedFiles, TInvInit, TInvStep, PTL DEF Spec
===============================================================================
