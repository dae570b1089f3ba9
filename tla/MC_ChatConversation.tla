-------------------------- MODULE MC_ChatConversation --------------------------
(* Two or three chats, two requests of one kind and one of the others: two     *)
(* requests can overlap in one chat, a branch can be made while its source     *)
(* goes on, a second branch can be asked of the first one.                     *)
EXTENDS ChatConversation, TLC

CONSTANTS c1, c2, c3, r1, r2, n1, n2, b1, b2, none
MC_Chats == {c1, c2, c3}
MC_TwoChats == {c1, c2}
MC_Requests == {r1, r2}
MC_OneRequest == {r1}
MC_Namers == {n1, n2}
MC_OneNamer == {n1}
MC_Branchers == {b1, b2}
MC_OneBrancher == {b1}
MC_Both == {"sqlite", "postgres"}
Symmetric == Permutations(MC_Chats) \union Permutations(MC_Requests)
               \union Permutations(MC_Branchers)
================================================================================
