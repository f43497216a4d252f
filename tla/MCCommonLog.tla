---------------------------- MODULE MCCommonLog -----------------------------
(***************************************************************************)
(* Constants of the runs of CommonLog: a buffer of two entries, so that    *)
(* three messages can wrap around it and make it grow while its oldest     *)
(* entry is not at index 0.                                                *)
(***************************************************************************)
EXTENDS CommonLog

MCFlags == {"prefix"}
MCSinks == {"none", "file"}
=============================================================================
