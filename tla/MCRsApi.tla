------------------------------ MODULE MCRsApi ------------------------------
(***************************************************************************)
(* Instances of RsApi for TLC.  Reports are interchangeable, and so are    *)
(* the slots of a kind: symmetry is used by the safety runs only.          *)
(***************************************************************************)
EXTENDS RsApi, TLC

ReportSymmetry == Permutations(Reports)
=============================================================================
