---------------------------- MODULE MCApprovals -----------------------------
(***************************************************************************)
(* Small instances of Approvals.  Runs are interchangeable, and so are     *)
(* requests: the safety runs use their permutations as symmetry, the run   *)
(* that checks liveness does not.                                          *)
(***************************************************************************)
EXTENDS Approvals, TLC

Symmetry == Permutations(Runs) \cup Permutations(Requests)
=============================================================================
