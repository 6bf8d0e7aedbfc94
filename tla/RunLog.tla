------------------------------- MODULE RunLog -------------------------------
(***************************************************************************)
(* What a run directory promises to whoever reads it, with no files, locks *)
(* or processes in it.  A run's log is a numbered, append-only sequence of *)
(* records.  It grows in stretches: a stretch begins when a process claims *)
(* the run, and ends with the one ending that stretch writes, or with the  *)
(* death of its process.  A log whose last ending is a conclusion is never *)
(* extended again, and a log no stretch is left to end may be closed from  *)
(* outside, once.                                                          *)
(*                                                                         *)
(* RunStore implements this specification (RunStore!RefinesRunLog).        *)
(***************************************************************************)
EXTENDS Naturals, Sequences

CONSTANTS
  Body,        \* what a stretch may record before its ending
  Resumable,   \* outcomes a run may be picked up from again
  Concluded,   \* outcomes that are final
  Orphaned     \* the outcome written for a run nobody is left to end

VARIABLES
  entries,     \* the readable log: a sequence of [seq, rec]
  stretch      \* "open" while one process is working on the run

vars == <<entries, stretch>>

Endings == Resumable \cup Concluded

EndingsAt == {i \in DOMAIN entries : entries[i].rec \in Endings}

\* The last word of the log is a conclusion.
IsConcluded ==
  \E i \in EndingsAt : /\ \A j \in EndingsAt : j =< i
                       /\ entries[i].rec \in Concluded

Numbered(rec) == [seq |-> Len(entries) + 1, rec |-> rec]

Init == entries = <<>> /\ stretch = "closed"

Claim ==
  /\ stretch = "closed"
  /\ ~IsConcluded
  /\ stretch' = "open"
  /\ UNCHANGED entries

Emit(rec) ==
  /\ stretch = "open"
  /\ entries' = Append(entries, Numbered(rec))
  /\ UNCHANGED stretch

Finish(outcome) ==
  /\ stretch = "open"
  /\ entries' = Append(entries, Numbered(outcome))
  /\ stretch' = "closed"

\* The process working on the run is gone without having ended it.
Lapse ==
  /\ stretch = "open"
  /\ stretch' = "closed"
  /\ UNCHANGED entries

CloseOrphan ==
  /\ stretch = "closed"
  /\ EndingsAt = {}
  /\ entries' = Append(entries, Numbered(Orphaned))
  /\ UNCHANGED stretch

Next ==
  \/ Claim
  \/ \E rec \in Body : Emit(rec)
  \/ \E outcome \in Endings : Finish(outcome)
  \/ Lapse
  \/ CloseOrphan

Spec == Init /\ [][Next]_vars
=============================================================================
