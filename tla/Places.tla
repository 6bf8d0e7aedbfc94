------------------------------- MODULE Places -------------------------------
(***************************************************************************)
(* What a filtered list is: the elements at some of its places, in their   *)
(* order.  The queue of a staged turn, the settled steps of a checkpoint   *)
(* (core/runtime/swarm.py, _work_through and _steps_done) and what an      *)
(* operator's commands leave waiting (core/runtime/control.py) are of this *)
(* kind.                                                                   *)
(***************************************************************************)
EXTENDS Naturals, FiniteSets

\* How many of these places come no later than i.
Upto(places, i) == Cardinality({j \in places : j <= i})

\* The n-th of them.
Nth(places, n) == CHOOSE i \in places : Upto(places, i) = n

Among(s, places) == [n \in 1..Cardinality(places) |-> s[Nth(places, n)]]
=============================================================================
