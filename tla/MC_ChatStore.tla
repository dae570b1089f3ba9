----------------------------- MODULE MC_ChatStore -----------------------------
(* An old chat and one that can be created.                                   *)
EXTENDS ChatStore

CONSTANTS c1, c2

MC_Chats == {c1, c2}
MC_OldChats == {c1}
===============================================================================
