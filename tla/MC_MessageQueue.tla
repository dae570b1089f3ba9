---------------------------- MODULE MC_MessageQueue ----------------------------
(* Two subjects, two subscriptions, one of them with a context that can be    *)
(* cancelled, channels of two messages and three messages: a channel can be   *)
(* full, skipped, drained and closed with messages left in it.                *)
EXTENDS MessageQueue

CONSTANTS a, b, s1, s2, none
MC_Subjects == {a, b}
MC_Subs == {s1, s2}
MC_Cancelable == {s1}
================================================================================
