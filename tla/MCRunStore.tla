----------------------------- MODULE MCRunStore -----------------------------
(***************************************************************************)
(* Small instances of RunStore.  Mission processes are interchangeable, and*)
(* so are sweepers, so the safety runs use their permutations as symmetry. *)
(***************************************************************************)
EXTENDS RunStore, TLC

Symmetry == Permutations(Missions) \cup Permutations(Sweepers)
=============================================================================
