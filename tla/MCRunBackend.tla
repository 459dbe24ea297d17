---------------------------- MODULE MCRunBackend ----------------------------
(***************************************************************************)
(* RunBackend for TLC. The configurations differ in what is concurrent:    *)
(* one request about a run at a time, or two.                              *)
(***************************************************************************)
EXTENDS RunBackend

CONSTANTS p1, p2
=============================================================================
