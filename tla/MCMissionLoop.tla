--------------------------- MODULE MCMissionLoop ----------------------------
(***************************************************************************)
(* Small instances of MissionLoop.  Both protocols, and a run with a step  *)
(* ceiling beside one without, are initial states of every run.            *)
(***************************************************************************)
EXTENDS MissionLoop
=============================================================================
