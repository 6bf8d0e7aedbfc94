----------------------------- MODULE StagedTurn -----------------------------
(***************************************************************************)
(* A staged turn of core/runtime/swarm.py, and its resumption from the     *)
(* checkpoint (core/runtime/resume.py).  The turn is routed and planned;   *)
(* the steps of the plan run in waves of children gathered on one loop;    *)
(* each failed gate is put to the one supervisor of the turn; every        *)
(* settled step is checkpointed in meta.json; a step that cannot succeed   *)
(* has the plan redrawn around it; the answer is written from what         *)
(* settled.  The process may die between any two steps, and another may    *)
(* pick the run up from what is on the disk: the checkpoint, and the       *)
(* number of model turns the log holds.                                    *)
(*                                                                         *)
(* A child's mission is MissionLoop's; here it is the turns it spends and  *)
(* how it ends.  Everything the router, the planner, the gate's model and  *)
(* the synthesizer say is a free choice.                                   *)
(***************************************************************************)
EXTENDS Reviews, Places, Sequences, SequencesExt

CONSTANTS
    Plans,          \* what the planner may draw first: sequences of steps
    Redrawn,        \* what it may draw after a failure
    Parallel,       \* children of a wave
    MaxSteps,       \* the operator's ceiling on model turns; 0 for none
    MaxTurns,       \* bound: model turns of one child
    MaxReviews,     \* reviews of one process's supervisor; 0 has no supervisor
    MaxDeaths,      \* bound: processes that die
    MayStop,        \* whether the clock or the switch may stop the turn
    NamesAgain,     \* whether a redrawn plan may use a settled step's id
    NoPlan          \* no checkpoint

\* _read_plan: names of their own, and needs that name earlier steps.
Earlier(p, i) == {p[j].id : j \in 1..(i - 1)}
InOrder(p) ==
    /\ p \in Seq(Range(p))
    /\ \A i \in DOMAIN p : /\ p[i].id \notin Earlier(p, i)
                          /\ p[i].needs \subseteq Earlier(p, i)

ASSUME StagedAssumption ==
    /\ {Parallel, MaxTurns} \subseteq Nat \ {0}
    /\ {MaxSteps, MaxReviews, MaxDeaths} \subseteq Nat
    /\ {MayStop, NamesAgain} \subseteq BOOLEAN
    /\ \A p \in Plans \cup Redrawn : p # << >> /\ InOrder(p)

VARIABLES
    pc,         \* triage, direct, working, synthesis, closing, closed, dead
    plan,       \* the plan the answer is written from
    drawn,      \* history: how many plans were drawn before it
    queue,      \* the steps of it that have not been started
    results,    \* what came of each settled step, by id
    done,       \* the checkpoint's list of settled steps, oldest first
    left,       \* what the ceiling has left (unused when there is none)
    replanned,  \* whether the plan was redrawn
    wave,       \* the steps that were started together
    child,      \* per step of the wave: where its child is, what it spent
    settled,    \* how many members of the wave are written down; -1 unfolded
    reviews,    \* reviews the process's supervisor has spent
    stop,       \* what the clock or the switch says
    outcome,    \* the word on the transcript
    meta,       \* the checkpoint on the disk, or NoPlan
    turns,      \* model turns on the log
    closings,   \* mission_finished records of this process
    deaths

turn == <<plan, drawn, queue, results, done, left, replanned>>
gather == <<wave, child, settled>>
disk == <<meta, turns>>
vars == <<pc, turn, gather, reviews, stop, outcome, disk, closings, deaths>>

-----------------------------------------------------------------------------
Ids(steps) == {steps[i].id : i \in DOMAIN steps}
Ceiling == MaxSteps > 0
Lower_BelowZero(n, by) == n - by

Lower(n, by) == IF n > by THEN n - by ELSE 0

Joins_InAnyOrder(w, step) == Len(w) < Parallel

\* _wave: the head of the queue alone, or every queued step whose needs have
\* settled and name no other member, in the queue's order.
Joins(w, step) ==
    /\ Len(w) < Parallel
    /\ step.needs \subseteq DOMAIN results
    /\ step.needs \cap Ids(w) = {}
NextWave ==
    LET ready == FoldLeft(LAMBDA w, s : IF Joins(w, s) THEN Append(w, s) ELSE w,
                          << >>, queue)
    IN IF Parallel = 1 \/ Len(queue) = 1 \/ ready = << >>
       THEN <<Head(queue)>> ELSE ready

Without(steps, ids) ==
    Among(steps, {i \in DOMAIN steps : steps[i].id \notin ids})

\* The states a child can be in: running; running an attempt that was cancelled
\* when the turn had closed; stopped at a gate that said no and not reviewed
\* yet; back, with the outcome of the step or the exception that ended it.
Back(c, ok, replan, awaiting) ==
    [c EXCEPT !.at = "back", !.ok = ok, !.replan = replan,
              !.awaiting = awaiting]

\* _execute_step: no attempt is made under a ceiling already reached.
Started ==
    [at |-> IF Ceiling /\ left = 0 THEN "back" ELSE "running",
     spent |-> 0, ok |-> FALSE, replan |-> FALSE, awaiting |-> FALSE]
Allowance_PerAttempt(c) == left

Allowance(c) == left - c.spent

\* The turns an attempt may cost: none of a child asked to stop, and none
\* beyond the ceiling.
Costs(c) == {n \in 0..MaxTurns : /\ Ceiling => n <= Allowance(c)
                                 /\ stop # "none" => n = 0}

Entry(step, c) ==
    [id |-> step.id, plan |-> drawn,
     outcome |-> IF c.awaiting THEN "awaiting_approval"
                 ELSE IF c.ok THEN "ok" ELSE "failed"]

ResultsOf_PassedOnly(entries) ==
    LET passed == {i \in DOMAIN entries : entries[i].outcome = "ok"}
    IN [id \in {entries[i].id : i \in passed} |-> [ok |-> TRUE, plan |-> drawn]]

\* _steps_done and _resumed_outcome: the settled entries of a checkpoint, and
\* the results they stand for; the last entry about an id is the one kept.
Settled(entries) ==
    Among(entries, {i \in DOMAIN entries :
                        entries[i].outcome \in {"ok", "failed"}})
ResultsOf(entries) ==
    [id \in {entries[i].id : i \in DOMAIN entries} |->
        LET last == CHOOSE i \in DOMAIN entries :
                       /\ entries[i].id = id
                       /\ \A j \in DOMAIN entries :
                             entries[j].id = id => j <= i
        IN [ok |-> entries[last].outcome = "ok", plan |-> entries[last].plan]]

Failed_MissingOnly == ~(Ids(plan) \subseteq DOMAIN results)

\* _synthesize: a failure anywhere, or a step of the plan that has no result.
Failed ==
    \/ \E id \in DOMAIN results : ~results[id].ok
    \/ ~(Ids(plan) \subseteq DOMAIN results)

-----------------------------------------------------------------------------
Nothing == << >>    \* the empty function, and the empty sequence

Init ==
    /\ pc = "triage"
    /\ plan = << >> /\ drawn = 0 /\ queue = << >>
    /\ results = Nothing /\ done = << >>
    /\ left = MaxSteps /\ replanned = FALSE
    /\ wave = << >> /\ child = Nothing /\ settled = 0
    /\ reviews = 0
    /\ stop = "none"
    /\ outcome = "incomplete"
    /\ meta = NoPlan /\ turns = 0
    /\ closings = 0 /\ deaths = 0

\* _arun: the stop, the router, the planner.  A route or a plan that cannot
\* be read, and a plan of one step, are the direct path.
Stopped(pcs) ==
    /\ pc \in pcs
    /\ stop # "none"
    /\ outcome' = stop
    /\ pc' = "closing"
    /\ UNCHANGED <<turn, gather, reviews, stop, disk, closings, deaths>>

GoesDirect ==
    /\ pc = "triage" /\ stop = "none"
    /\ pc' = "direct"
    /\ UNCHANGED <<turn, gather, reviews, stop, outcome, disk, closings,
                   deaths>>

\* _staged: the checkpoint is written before the first step runs.
Checkpoint(p, d, r) == meta' = [plan |-> p, done |-> d, replanned |-> r,
                                drawn |-> IF meta = NoPlan THEN 0
                                          ELSE meta.drawn]

Begin(p) ==
    /\ plan' = p
    /\ queue' = p
    /\ Checkpoint(p, << >>, FALSE)
    /\ pc' = "working"
    /\ UNCHANGED <<drawn, results, done, left, replanned, gather, reviews,
                   stop, outcome, turns, closings, deaths>>

DrawsPlan ==
    /\ pc = "triage" /\ stop = "none"
    /\ \E p \in {q \in Plans : Len(q) > 1} : Begin(p)

\* The direct child writes the turn's ending itself.
DirectEnds ==
    /\ pc = "direct"
    /\ closings' = closings + 1
    /\ pc' = "closed"
    /\ outcome' \in {"answered", "incomplete", "awaiting_approval"}
    /\ UNCHANGED <<turn, gather, reviews, stop, disk, deaths>>

-----------------------------------------------------------------------------
(* _work_through: a wave, its children, the fold, the decision. *)

StartWaveOf(members) ==
    /\ pc = "working" /\ wave = << >> /\ queue # << >>
    /\ wave' = members
    /\ queue' = Without(queue, Ids(members))
    /\ child' = [id \in Ids(members) |-> Started]
    /\ settled' = -1
    /\ UNCHANGED <<pc, plan, drawn, results, done, left, replanned, reviews,
                   stop, outcome, disk, closings, deaths>>

StartWave == StartWaveOf(NextWave)

\* When a member raises the gather ends, and with it the turn; its siblings do
\* not.  asyncio.run cancels them once when the turn has closed and waits for
\* them, and Run.arun takes a cancellation for a stop and returns.
AtWork == pc \in {"working", "closing", "closed"}
Adrift == AtWork /\ pc # "working"
          /\ \E id \in DOMAIN child : child[id].at # "back"

\* A child's mission: the turns it spends, inside the ceiling, reach the log.
\* One that was asked to stop or cancelled brings no result.
ChildEnds(id) ==
    /\ AtWork /\ id \in DOMAIN child
    /\ child[id].at \in {"running", "cancelled"}
    /\ \E n \in Costs(child[id]) :
          /\ turns' = turns + n
          /\ LET c == [child[id] EXCEPT !.spent = @ + n]
             IN \/ /\ n > 0 /\ child[id].at = "running"
                   /\ \E ending \in {"passed", "awaiting"} :
                         child' = [child EXCEPT ![id] =
                            Back(c, ending = "passed", FALSE,
                                 ending = "awaiting")]
                \/ child' = [child EXCEPT ![id] =
                      IF MaxReviews = 0 THEN Back(c, FALSE, FALSE, FALSE)
                      ELSE [c EXCEPT !.at = "gate"]]
    /\ UNCHANGED <<pc, turn, wave, settled, reviews, stop, outcome, meta,
                   closings, deaths>>

\* A child's own step boundary spends a review of the turn's.
BoundaryReview ==
    /\ AtWork
    /\ \E id \in DOMAIN child : child[id].at = "running"
    /\ reviews < MaxReviews
    /\ reviews' = reviews + 1
    /\ UNCHANGED <<pc, turn, gather, stop, outcome, disk, closings, deaths>>

\* review_gate, and what _execute_step makes of its verdict: progressing
\* overrules the gate, a nudge is another attempt if the ceiling has room.
Verdict(c, verdict) ==
    CASE verdict = "progressing" -> Back(c, TRUE, FALSE, FALSE)
      [] verdict = "nudge" ->
            IF Ceiling /\ Allowance(c) <= 0 THEN Back(c, FALSE, FALSE, FALSE)
            ELSE [c EXCEPT !.at = "running"]
      [] OTHER -> Back(c, FALSE, verdict = "replan", FALSE)

GateReview_Free(id) ==
    /\ AtWork /\ id \in DOMAIN child /\ child[id].at = "gate"
    /\ \E reply \in Replies :
          LET got == Read(reply, Allowed("failed_gate", GateMenu, 1, FALSE))
          IN child' = [child EXCEPT ![id] = Verdict(@, got.verdict)]
    /\ UNCHANGED <<pc, turn, wave, settled, reviews, stop, outcome, disk,
                   closings, deaths>>

GateReview(id) ==
    /\ AtWork /\ id \in DOMAIN child /\ child[id].at = "gate"
    /\ IF reviews >= MaxReviews
       THEN /\ child' = [child EXCEPT ![id] = Verdict(@, "stuck")]
            /\ UNCHANGED reviews
       ELSE /\ \E reply \in Replies :
                  LET got == Read(reply, Allowed("failed_gate", GateMenu,
                                          MaxReviews - reviews - 1, FALSE))
                  IN child' = [child EXCEPT ![id] = Verdict(@, got.verdict)]
            /\ reviews' = reviews + 1
    /\ UNCHANGED <<pc, turn, wave, settled, stop, outcome, disk, closings,
                   deaths>>

\* A child that raises, after some turns, ends the gather and with it the turn;
\* what another one raises after that, nobody hears.
ChildRaises(id) ==
    /\ AtWork /\ id \in DOMAIN child /\ child[id].at = "running"
    /\ \E n \in Costs(child[id]) :
          /\ turns' = turns + n
          /\ LET c == [child[id] EXCEPT !.spent = @ + n]
             IN child' = [child EXCEPT ![id] = Back(c, FALSE, FALSE, FALSE)]
    /\ pc' = IF pc = "working" THEN "closing" ELSE pc
    /\ UNCHANGED <<turn, wave, settled, reviews, stop, outcome, meta, closings,
                   deaths>>

\* The gather returns when the last member is back, and what every member
\* spent is folded in before anything is decided.
SpentBy(w) == FoldLeft(LAMBDA sum, s : sum + child[s.id].spent, 0, w)

GatheredAs(brought) ==
    /\ pc = "working" /\ wave # << >> /\ settled = -1
    /\ \A id \in DOMAIN child : child[id].at = "back"
    /\ child' = brought
    /\ left' = Lower(left, SpentBy(wave))
    /\ settled' = 0
    /\ UNCHANGED <<pc, plan, drawn, queue, results, done, replanned, wave,
                   reviews, stop, outcome, disk, closings, deaths>>

Gathered == GatheredAs(child)

\* _settle: one member written down, and the checkpoint with it.
Settle ==
    /\ pc = "working" /\ settled >= 0 /\ settled < Len(wave)
    /\ LET step == wave[settled + 1]
           c == child[step.id]
       IN /\ done' = Append(done, Entry(step, c))
          /\ results' =
                IF c.awaiting THEN results
                ELSE [id \in DOMAIN results \cup {step.id} |->
                         IF id = step.id THEN [ok |-> c.ok, plan |-> drawn]
                         ELSE results[id]]
    /\ meta' = [meta EXCEPT !.done = done']
    /\ settled' = settled + 1
    /\ UNCHANGED <<pc, plan, drawn, queue, left, replanned, wave, child,
                   reviews, stop, outcome, turns, closings, deaths>>

WaveIsSettled == pc = "working" /\ wave # << >> /\ settled = Len(wave)
Awaits == \E id \in DOMAIN child : child[id].awaiting
Failures == {i \in DOMAIN wave : ~child[wave[i].id].ok}
WaveEnds == /\ wave' = << >> /\ child' = Nothing /\ settled' = 0

\* A person has to decide: the whole turn holds.
Holds ==
    /\ WaveIsSettled /\ Awaits
    /\ outcome' = "awaiting_approval"
    /\ pc' = "closing"
    /\ UNCHANGED <<turn, gather, reviews, stop, disk, closings, deaths>>

Carries ==
    /\ WaveIsSettled /\ ~Awaits /\ Failures = {}
    /\ WaveEnds
    /\ UNCHANGED <<pc, turn, reviews, stop, outcome, disk, closings, deaths>>

StoppedInWave ==
    /\ WaveIsSettled /\ ~Awaits /\ Failures # {}
    /\ Stopped({"working"})

\* _redraw: around the first failure, if its review said the plan is wrong and
\* the ceiling has room; the fresh plan replaces plan, queue and checkpoint.
Redraws ==
    /\ WaveIsSettled /\ ~Awaits /\ Failures # {} /\ stop = "none"
    /\ child[wave[Min(Failures)].id].replan
    /\ Ceiling => left > 0
    /\ \E p \in {q \in Redrawn : NamesAgain \/ Ids(q) \cap DOMAIN results = {}} :
          /\ plan' = p
          /\ queue' = p
          /\ drawn' = drawn + 1
          /\ meta' = [meta EXCEPT !.plan = p, !.replanned = TRUE,
                                  !.drawn = drawn + 1]
    /\ replanned' = TRUE
    /\ WaveEnds
    /\ UNCHANGED <<pc, results, done, left, reviews, stop, outcome, turns,
                   closings, deaths>>

\* Out of moves: the steps still queued are dropped, not run against a hole.
Drops ==
    /\ WaveIsSettled /\ ~Awaits /\ Failures # {} /\ stop = "none"
    /\ queue' = << >>
    /\ WaveEnds
    /\ UNCHANGED <<pc, plan, drawn, results, done, left, replanned, reviews,
                   stop, outcome, disk, closings, deaths>>

Synthesizes ==
    /\ pc = "working" /\ wave = << >> /\ queue = << >> /\ stop = "none"
    /\ \E caveat \in BOOLEAN :
          outcome' = IF Failed \/ caveat THEN "answered_with_caveat"
                     ELSE "answered"
    /\ pc' = "closing"
    /\ UNCHANGED <<turn, gather, reviews, stop, disk, closings, deaths>>

StoppedAtEnd == wave = << >> /\ queue = << >> /\ Stopped({"working"})

\* The one mission_finished of the turn, in the finally; then asyncio.run
\* cancels the tasks that are left.
Closes ==
    /\ pc = "closing"
    /\ closings' = closings + 1
    /\ pc' = "closed"
    /\ child' = [id \in DOMAIN child |->
                    IF child[id].at = "running"
                    THEN [child[id] EXCEPT !.at = "cancelled"] ELSE child[id]]
    /\ UNCHANGED <<turn, wave, settled, reviews, stop, outcome, disk, deaths>>

-----------------------------------------------------------------------------
(* The clock and the switch, death, and the process that picks the run up. *)

StopArrives ==
    /\ MayStop
    /\ pc \in {"triage", "working"} \/ Adrift
    /\ stop = "none"
    /\ stop' \in {"incomplete", "budget_exhausted"}
    /\ UNCHANGED <<pc, turn, gather, reviews, outcome, disk, closings, deaths>>

Dies ==
    /\ pc \notin {"closed", "dead"}
    /\ deaths < MaxDeaths
    /\ deaths' = deaths + 1
    /\ pc' = "dead"
    /\ UNCHANGED <<turn, gather, reviews, stop, outcome, disk, closings>>

\* What admits a resume: no ending on the log, or one that may be continued.
\* Whoever resumes, the process before is gone, and its children with it.
Resumable ==
    \/ pc = "dead"
    \/ /\ pc = "closed" /\ deaths < MaxDeaths
       /\ outcome \in {"incomplete", "awaiting_approval"}

\* _rebuild_staged and _work_through's restoration: the plan and the settled
\* steps from the checkpoint, what the ceiling has left from the log.
ResumesWith(p) ==
    /\ Resumable
    /\ meta # NoPlan
    /\ plan' = p
    /\ drawn' = meta.drawn
    /\ done' = Settled(meta.done)
    /\ results' = ResultsOf(done')
    /\ queue' = Without(p, DOMAIN results')
    /\ left' = Lower(MaxSteps, turns)
    /\ replanned' = meta.replanned
    /\ Checkpoint(p, done', meta.replanned)
    /\ WaveEnds
    /\ pc' = "working"
    /\ reviews' = 0
    /\ stop' = "none"
    /\ outcome' = "incomplete"
    /\ closings' = 0
    /\ deaths' = IF pc = "closed" THEN deaths + 1 ELSE deaths
    /\ UNCHANGED turns

Resumes == ResumesWith(meta.plan)

\* A run without a checkpoint is an ordinary mission to whoever resumes it.
ResumesDirect ==
    /\ Resumable
    /\ meta = NoPlan
    /\ pc' = "direct"
    /\ closings' = 0
    /\ deaths' = IF pc = "closed" THEN deaths + 1 ELSE deaths
    /\ reviews' = 0 /\ stop' = "none" /\ outcome' = "incomplete"
    /\ UNCHANGED <<turn, gather, disk>>

Works ==
    \/ \E id \in DOMAIN child : ChildEnds(id) \/ ChildRaises(id) \/ GateReview(id)
    \/ BoundaryReview \/ Settle
    \/ Holds \/ Carries \/ StoppedInWave \/ Drops
    \/ Synthesizes \/ StoppedAtEnd \/ Closes

Steps ==
    \/ Stopped({"triage"}) \/ GoesDirect \/ DrawsPlan \/ DirectEnds
    \/ StartWave \/ Gathered \/ Redraws \/ Works

Next == Steps \/ StopArrives \/ Dies \/ Resumes \/ ResumesDirect

Spec == Init /\ [][Next]_vars

\* The loop is scheduled and its models answer; a death, a stop and somebody
\* who resumes need never come.
FairSpec == Spec /\ WF_vars(Steps)

-----------------------------------------------------------------------------
(* Properties *)

TurnSteps == UNION {Range(p) : p \in Plans \cup Redrawn}

\* The type of a turn over these steps.
Typed(steps) ==
    /\ pc \in {"triage", "direct", "working", "closing", "closed", "dead"}
    /\ Range(plan) \cup Range(queue) \cup Range(wave) \subseteq steps
    /\ DOMAIN results \cup Ids(done) \subseteq {s.id : s \in steps}
    /\ DOMAIN child = Ids(wave)
    /\ left \in 0..MaxSteps
    /\ settled \in -1..Len(wave)
    /\ reviews \in 0..MaxReviews
    /\ stop \in {"none", "incomplete", "budget_exhausted"}
    /\ closings \in 0..1

\* One turn, one ceiling: what the loop believes is left is what the log
\* leaves, in every process that works on the turn; and a wave oversteps the
\* ceiling by what its members were already doing when it ran out, no more,
\* those included whose turn is over.
CeilingHolds ==
    Ceiling
        => LET running == settled = -1
               folded == IF running THEN turns - SpentBy(wave) ELSE turns
           IN /\ left = Lower(MaxSteps, folded)
              /\ running => \A id \in DOMAIN child : child[id].spent <= left

\* An answer without a caveat is an answer to the whole plan: every step of
\* the plan it was written from is on the checkpoint, under that plan, passed.
AnsweredIsTheWholePlan ==
    (pc \in {"closing", "closed"} /\ outcome = "answered" /\ plan # << >>)
        => \A id \in Ids(plan) : \E i \in DOMAIN done :
              done[i] = [id |-> id, plan |-> drawn, outcome |-> "ok"]

\* A step somebody already paid for is not run again: once its result is on
\* the checkpoint, no wave of the same plan has it, in this process or in the
\* one that resumes the run.
SettledStaysSettled ==
    [][\A i \in DOMAIN wave' :
          (wave = << >> /\ meta # NoPlan)
              => \A j \in DOMAIN meta.done :
                    (meta.done[j].id = wave'[i].id
                        /\ meta.done[j].plan = drawn)
                        => meta.done[j].outcome = "awaiting_approval"]_vars

\* No step is run against a hole: a child is started only when every step its
\* own step needs has passed.
NothingRunsAgainstAHole ==
    (pc = "working" /\ settled = -1)
        => \A i \in DOMAIN wave : \A need \in wave[i].needs :
              need \in DOMAIN results => results[need].ok

\* Nothing of a turn follows its ending: once a reader has mission_finished,
\* no child of the turn starts an attempt.
NothingFollowsTheEnding ==
    [][(pc = "closed" /\ pc' = "closed")
          => \A id \in DOMAIN child :
                child'[id].at = "running" => child[id].at = "running"]_vars

\* A turn nobody stops and nobody kills ends, says so, and leaves nobody at
\* work: nudges and redraws cost reviews, and a process has only so many.
WorkCloses ==
    (pc = "working") ~> (pc = "dead" \/ (pc = "closed" /\ ~Adrift))
=============================================================================
