-------------------------- MODULE MC_DocumentPipeline --------------------------
(* One retry job, a channel of one event, and two documents of two chunks (the *)
(* documents run) or one of one chunk (documents_late): an event can be        *)
(* dropped, a document can be behind another, a retry can meet a first try.    *)
EXTENDS DocumentPipeline

CONSTANTS d1, d2, j1, none
MC_Docs == {d1, d2}
MC_OneDoc == {d1}
MC_OneJob == {j1}
================================================================================
