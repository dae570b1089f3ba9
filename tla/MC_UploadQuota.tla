---------------------------- MODULE MC_UploadQuota ----------------------------
(* A "kilobyte" of two bytes, files and projects of at most four: files that *)
(* cost nothing, that are rounded, that are too big, and a project that      *)
(* three requests at once overrun and five could overrun further.            *)
EXTENDS UploadQuota, TLC

CONSTANTS u1, u2, u3, u4, u5, p1, nothing
MC_Uploads == {u1, u2, u3, u4, u5}
MC_OneProject == {p1}
MC_Sizes == {1, 3, 4, 5}
MC_Symmetry == Permutations(MC_Uploads)
===============================================================================
