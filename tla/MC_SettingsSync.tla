---------------------------- MODULE MC_SettingsSync ----------------------------
(* Two requests that store settings, one that uses them, a channel of one or  *)
(* two events and four versions: two writers can overlap with the defaults    *)
(* and with each other, and the channel can be full.                          *)
EXTENDS SettingsSync

CONSTANTS u1, u2, c1
MC_Setters == {u1, u2}
MC_Chats == {c1}
================================================================================
