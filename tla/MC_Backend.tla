------------------------------ MODULE MC_Backend ------------------------------
(***************************************************************************)
(* Two uploads and a retry job, a user who stores settings and one who     *)
(* chats, on channels of one message: an event that comes before the last  *)
(* one was taken finds its channel full.                                   *)
(***************************************************************************)
EXTENDS Backend

CONSTANTS u1, c1, d1, d2, j1
MC_Setters == {u1}
MC_Chats == {c1}
MC_Docs == {d1, d2}
MC_Jobs == {j1}
===============================================================================
