---------------------------- MODULE MCStagedTurn ----------------------------
(***************************************************************************)
(* Small instances of StagedTurn: plans of two and three steps, one after  *)
(* the other, side by side, and two of them joined by a third; redrawn     *)
(* plans under new names.                                                  *)
(***************************************************************************)
EXTENDS StagedTurn

Step(id, needs) == [id |-> id, needs |-> needs]

Chain == <<Step("s1", {}), Step("s2", {"s1"})>>
Join == <<Step("s1", {}), Step("s2", {}), Step("s3", {"s1"})>>
Fresh == <<Step("t1", {}), Step("t2", {"t1"})>>
Single == <<Step("s1", {})>>

AllPlans == {Chain, Join, Single}
FreshPlans == {Fresh, <<Step("u1", {})>>}
ChainOnly == {Chain}
\* The names a planner gives by default, used again.
SameNames == {<<Step("s2", {}), Step("s1", {})>>}
=============================================================================
