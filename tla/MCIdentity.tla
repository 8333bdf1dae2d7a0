----------------------------- MODULE MCIdentity -----------------------------
(***************************************************************************)
(* The instance of Identity for TLC.                                       *)
(***************************************************************************)
EXTENDS Identity

ThreeRecords == 1..3
FourRecords == 1..4
=============================================================================
