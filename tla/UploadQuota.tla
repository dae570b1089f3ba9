------------------------------ MODULE UploadQuota ------------------------------
(***************************************************************************)
(* The limits of UploadFile (service/service.go:459-489, with the numbers  *)
(* of api/http.go:11-14) under concurrent requests, and the file that the  *)
(* object store writes meanwhile (store/store.go).                         *)
(*                                                                         *)
(* A request reads the usage of its project, compares, writes its file and *)
(* inserts its row: four steps without a lock or a transaction, and the    *)
(* web client sends all files of a selection at once.  The table keeps     *)
(* kilobytes (rounded down), the limits and the file sizes are bytes, and  *)
(* the comparison adds the two.  The process may be killed at any step;    *)
(* files and rows stay.                                                    *)
(***************************************************************************)
EXTENDS Integers, FiniteSets

CONSTANTS Uploads,     \* the requests
          Projects,
          NoProject,   \* the project of a request not made yet
          Sizes,       \* the sizes of files, in bytes
          KB,          \* 1024
          MaxFile,     \* MaxFileSize
          MaxProject,  \* MaxProjectUploadSize
          AtOnce       \* requests of a project between their SELECT and INSERT

ASSUME QuotaAssumption ==
  /\ IsFiniteSet(Uploads)
  /\ NoProject \notin Projects
  /\ Sizes \subseteq Nat
  /\ KB \in Nat \ {0} /\ AtOnce \in Nat \ {0}
  /\ MaxFile \in Nat /\ MaxProject \in Nat

VARIABLES
  pc,      \* where each request is
  project, \* its form value project_id
  size,    \* its header.Size
  file,    \* its file under filestore/objects
  used,    \* for each project, SUM(file_size) of its rows in project_docs
  bytes    \* for each project, the bytes of the files that have a row

vars == <<pc, project, size, file, used, bytes>>

Running == {"admitted", "copying", "stored"}

TypeOK ==
  /\ pc \in [Uploads -> Running \union {"new", "too big", "over", "saved", "failed"}]
  /\ project \in [Uploads -> Projects \union {NoProject}]
  /\ size \in [Uploads -> Nat]
  /\ file \in [Uploads -> {"none", "part", "whole"}]
  /\ used \in [Projects -> Nat]
  /\ bytes \in [Projects -> Nat]

Init ==
  /\ pc = [u \in Uploads |-> "new"]
  /\ project = [u \in Uploads |-> NoProject]
  /\ size = [u \in Uploads |-> 0]
  /\ file = [u \in Uploads |-> "none"]
  /\ used = [p \in Projects |-> 0]
  /\ bytes = [p \in Projects |-> 0]

InFlight(p) == {u \in Uploads : pc[u] \in Running /\ project[u] = p}
Listed(p) == {u \in Uploads : pc[u] = "saved" /\ project[u] = p}

-------------------------------------------------------------------------------
Move(u, to) == pc' = [pc EXCEPT ![u] = to]

\* Mutant: the file's own size is left out of the comparison.
ExceedsAlready(p, s) == used[p] > MaxProject

\* totalUsed + fileSize > maxProjectSize: kilobytes plus bytes.
Exceeds(p, s) == used[p] + s > MaxProject

\* The request arrives; its size is compared, then the usage is read and
\* compared.  AtOnce bounds the requests that run at the same time.
CheckLimits(u, p, s) ==
  /\ pc[u] = "new"
  /\ Cardinality(InFlight(p)) < AtOnce
  /\ project' = [project EXCEPT ![u] = p]
  /\ size' = [size EXCEPT ![u] = s]
  /\ \/ s > MaxFile /\ Move(u, "too big")
     \/ s <= MaxFile /\ Exceeds(p, s) /\ Move(u, "over")
     \/ s <= MaxFile /\ ~Exceeds(p, s) /\ Move(u, "admitted")
     \/ s <= MaxFile /\ Move(u, "failed")           \* TotalUsedSize fails
  /\ UNCHANGED <<file, used, bytes>>

\* os.Create under a new object id.
CreateFile(u) ==
  /\ pc[u] = "admitted"
  /\ \/ Move(u, "copying") /\ file' = [file EXCEPT ![u] = "part"]
     \/ Move(u, "failed") /\ UNCHANGED file
  /\ UNCHANGED <<project, size, used, bytes>>

\* Mutant: an error of io.Copy is not returned.
CopyFileAnyway(u) ==
  /\ pc[u] = "copying"
  /\ \/ Move(u, "stored") /\ file' = [file EXCEPT ![u] = "whole"]
     \/ Move(u, "stored") /\ file' = [file EXCEPT ![u] = "none"]
  /\ UNCHANGED <<project, size, used, bytes>>

\* Mutant: a copy that failed gives back what it never took.
CopyFileRefunds(u) ==
  /\ pc[u] = "copying"
  /\ \/ Move(u, "stored") /\ file' = [file EXCEPT ![u] = "whole"] /\ UNCHANGED used
     \/ /\ Move(u, "failed") /\ file' = [file EXCEPT ![u] = "none"]
        /\ used' = [used EXCEPT ![project[u]] = @ - (size[u] \div KB)]
  /\ UNCHANGED <<project, size, bytes>>

\* io.Copy; what an error leaves behind is removed.
CopyFile(u) ==
  /\ pc[u] = "copying"
  /\ \/ Move(u, "stored") /\ file' = [file EXCEPT ![u] = "whole"]
     \/ Move(u, "failed") /\ file' = [file EXCEPT ![u] = "none"]
  /\ UNCHANGED <<project, size, used, bytes>>

\* Mutant: the size is stored in bytes.
SaveRowInBytes(u) ==
  /\ pc[u] = "stored"
  /\ Move(u, "saved")
  /\ used' = [used EXCEPT ![project[u]] = @ + size[u]]
  /\ bytes' = [bytes EXCEPT ![project[u]] = @ + size[u]]
  /\ UNCHANGED <<project, size, file>>

\* FileSave: file_size / 1024.  An error leaves the file where it is.
SaveRow(u) ==
  /\ pc[u] = "stored"
  /\ \/ /\ Move(u, "saved")
        /\ used' = [used EXCEPT ![project[u]] = @ + (size[u] \div KB)]
        /\ bytes' = [bytes EXCEPT ![project[u]] = @ + size[u]]
     \/ Move(u, "failed") /\ UNCHANGED <<used, bytes>>
  /\ UNCHANGED <<project, size, file>>

\* The process is killed: the requests end where they are.
Crash ==
  /\ pc' = [u \in Uploads |-> IF pc[u] \in Running THEN "failed" ELSE pc[u]]
  /\ UNCHANGED <<project, size, file, used, bytes>>

Next ==
  \/ \E u \in Uploads :
       \/ \E p \in Projects, s \in Sizes : CheckLimits(u, p, s)
       \/ CreateFile(u) \/ CopyFile(u) \/ SaveRow(u)
  \/ Crash

Spec == Init /\ [][Next]_vars

-------------------------------------------------------------------------------
(* Properties.                                                             *)

(***************************************************************************)
(* The check and the insert are apart, so a project can grow past its      *)
(* limit (service.go:475-487): the requests that were admitted together    *)
(* all get in.  It grows by no more than the largest file for each request *)
(* but one of those that run at the same time, however many uploads there  *)
(* are in all; requests that come one after the other never exceed it.     *)
(***************************************************************************)
OverrunBounded ==
  \A p \in Projects : used[p] <= MaxProject + (AtOnce - 1) * (MaxFile \div KB)

(***************************************************************************)
(* What the table counts is the size of the listed files, short by less    *)
(* than a kilobyte for each (dao_sqlite.go:204): the usage is never too    *)
(* high, and files below 1024 bytes cost nothing.                          *)
(***************************************************************************)
AccountingExact ==
  \A p \in Projects :
    /\ KB * used[p] <= bytes[p]
    /\ bytes[p] <= KB * used[p] + (KB - 1) * Cardinality(Listed(p))

(***************************************************************************)
(* A listed document can be downloaded in full (http.go:52-70 serves       *)
(* whatever lies under the object id): a copy that failed or was cut off   *)
(* by a crash never has a row.                                             *)
(***************************************************************************)
ListedIsWhole == \A u \in Uploads : pc[u] = "saved" => file[u] = "whole"

(***************************************************************************)
(* http.go:13 says of the limit "// 500MB", service.go:476 "project storage*)
(* exceeds %d MB": bytes.  The sum it is compared with is in kilobytes, so *)
(* a project may hold about 1024 times as much, without any concurrency.   *)
(***************************************************************************)
LimitIsInBytes == \A p \in Projects : bytes[p] <= MaxProject
===============================================================================
