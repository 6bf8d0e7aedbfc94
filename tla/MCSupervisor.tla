---------------------------- MODULE MCSupervisor ----------------------------
(***************************************************************************)
(* Small instances of Supervisor: two calls and two results, and four      *)
(* patterns that bring nothing new - one call, two, three, and replies     *)
(* nobody can act on.                                                      *)
(***************************************************************************)
EXTENDS Supervisor

CONSTANTS a, b, c, x, y, z

A == [call |-> a, result |-> x]
B == [call |-> b, result |-> y]
C == [call |-> c, result |-> z]

\* The same call with another result, and another call with the same one.
FreeActs == {A, [call |-> a, result |-> y], [call |-> b, result |-> z]}

\* What a run owes does not change; it settles a contradiction or it does not.
Owing(n) == [frontier |-> "f", obligations |-> TRUE, contradictions |-> n,
             propositions |-> 0]

Patterns == {<< >>, << <<A>> >>, << <<A>>, <<B>> >>,
             << <<A>>, <<B>>, <<C>> >>, << << >> >>}
RepeatsOne == {<< <<A>> >>}
OffOrOwing == {NoReading, Owing(0)}
AlwaysOwing == {Owing(0)}
=============================================================================
