------------------------------ MODULE PlanLog -------------------------------
(***************************************************************************)
(* What the checkpoint of a staged turn promises a restart                 *)
(* (core/runtime/swarm.py, _checkpoint; core/runtime/resume.py,            *)
(* _checkpointed_plan): one plan at a time, and a list of what came of its *)
(* steps that is only ever added to, each step once under its plan and     *)
(* after the steps it needs.  Processes, waves and deaths are not here: a  *)
(* turn carried on by three processes looks like a turn that never died.   *)
(***************************************************************************)
EXTENDS Naturals, Sequences

CONSTANTS Plans, Redrawn, NoPlan

VARIABLES
    plan,       \* the plan in force, or NoPlan
    drawn,      \* how many plans it replaced
    entries     \* the settled steps: id, outcome, and the plan it was under

vars == <<plan, drawn, entries>>

SettledUnder(n) == {entries[i].id : i \in {j \in DOMAIN entries :
                                                entries[j].plan = n}}

Init == plan = NoPlan /\ drawn = 0 /\ entries = << >>

Draw ==
    /\ plan = NoPlan
    /\ plan' \in Plans
    /\ UNCHANGED <<drawn, entries>>

SettleOne ==
    /\ plan # NoPlan
    /\ \E i \in DOMAIN plan, outcome \in {"ok", "failed"} :
          /\ plan[i].id \notin SettledUnder(drawn)
          /\ plan[i].needs \subseteq SettledUnder(drawn)
          /\ entries' = Append(entries, [id |-> plan[i].id, plan |-> drawn,
                                         outcome |-> outcome])
    /\ UNCHANGED <<plan, drawn>>

\* Only around a failure.
Redraw ==
    /\ plan # NoPlan
    /\ \E i \in DOMAIN entries :
          entries[i].plan = drawn /\ entries[i].outcome = "failed"
    /\ plan' \in Redrawn
    /\ drawn' = drawn + 1
    /\ UNCHANGED entries

Next == Draw \/ SettleOne \/ Redraw

Spec == Init /\ [][Next]_vars
=============================================================================
