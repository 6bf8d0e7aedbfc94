------------------------------ MODULE Reviews -------------------------------
(***************************************************************************)
(* The words of core/runtime/supervisor.py: the signals, the verdicts, the *)
(* menu a review offers and how a reply is read against it.  Supervisor    *)
(* and StagedTurn share them, as the code shares one supervisor between    *)
(* the step boundary (look) and the gate of a plan step (review_gate).     *)
(***************************************************************************)
EXTENDS Naturals

Signals == {"repeated_call", "rejected_replies", "oscillation",
            "no_new_evidence", "failed_gate", "frozen_frontier"}

Verdicts == {"progressing", "nudge", "stuck", "replan"}

\* What a model may reply: one of the words, or nothing that can be read
\* (an unreachable endpoint, no object in the reply, an unknown word).
Replies == Verdicts \cup {"unreadable"}

\* Signals about an absence: a review that says progressing is given back.
RefundsOnProgressing == {"no_new_evidence", "frozen_frontier"}

\* Cognition's signal may never end a run.
NeverWindsUp == {"frozen_frontier"}

\* The menu `look` opens for a signal.
LookMenu(signal) ==
    {"progressing", "nudge"}
        \cup {w \in {"stuck"} : signal \notin NeverWindsUp}

\* The menu `review_gate` opens.
GateMenu == Verdicts

\* On the last review progressing is not offered, unless it would be given
\* back or the signal may not end the run in any case.
Allowed(signal, menu, left, refundable) ==
    {w \in menu : \/ w # "progressing"
                  \/ left > 0
                  \/ refundable
                  \/ signal \in NeverWindsUp}

\* A reply read against the menu: the verdict, and whether the model gave it.
\* A word that was not offered is read as the nearest one that was.
Read(reply, allowed) ==
    [verdict |-> IF reply \in allowed THEN reply
                 ELSE IF reply \notin Verdicts THEN "progressing"
                 ELSE IF "stuck" \in allowed THEN "stuck" ELSE "nudge",
     asked   |-> reply \in Verdicts]
=============================================================================
