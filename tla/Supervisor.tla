----------------------------- MODULE Supervisor -----------------------------
(***************************************************************************)
(* The watcher of core/runtime/supervisor.py: one object per turn, told of *)
(* every call and every rejected reply, asked at every step boundary, and  *)
(* asked by a staged turn when a gate says no.  A mission loop calls it    *)
(* without an await in between, so `look` and `review_gate` are one step;  *)
(* the children of a wave share one open step, so the calls that `look`    *)
(* closes may be several children's, and a boundary may find none.         *)
(*                                                                         *)
(* An act is a call and the bytes that came back, each a model value (the  *)
(* code compares digests).  A reading is what cognition believes at a      *)
(* boundary.  A run that has been given a pattern in Loops repeats it for  *)
(* ever, and believes the same at every boundary; the empty pattern is a   *)
(* run that does as it likes.                                              *)
(***************************************************************************)
EXTENDS Reviews, Sequences, FiniteSets

CONSTANTS
    Acts,           \* the acts of a run that does as it likes
    Readings,       \* cognition's readings at a boundary
    NoReading,      \* cognition off, stopped or unreadable
    Loops,          \* patterns: sequences of steps, a step a sequence of acts
    NoReview,       \* no review was made
    Repeats,        \* identical acts that are a repeated call
    RepeatWindow,   \* acts looked at, as a multiple of Repeats
    Rejections,     \* rejected replies in a row
    StaleSteps,     \* steps with nothing new
    FrozenSteps,    \* steps of belief that did not move
    Oscillates,     \* acts an alternation is read over
    MaxReviews,     \* reviews of one turn (REVIEWS)
    ReviewRefunds,  \* refunds of one signal
    MaxActs,        \* bound: acts in one open step of a free run
    MaxFree,        \* bound: closed steps of a free run
    MaxLooped,      \* bound: closed steps of a run in a pattern
    MaxGates        \* bound: gates that say no

ASSUME SupervisorAssumption ==
    /\ {Repeats, StaleSteps, FrozenSteps} \subseteq Nat \ {0, 1}
    /\ {RepeatWindow, Rejections, Oscillates} \subseteq Nat \ {0}
    /\ {MaxReviews, ReviewRefunds} \subseteq Nat
    /\ {MaxActs, MaxFree, MaxLooped, MaxGates} \subseteq Nat
    /\ \A p \in Loops : /\ p \in Seq({p[i] : i \in DOMAIN p})
                        /\ \A i \in DOMAIN p :
                              p[i] \in Seq({p[i][j] : j \in DOMAIN p[i]})

VARIABLES
    loop,       \* the pattern this run repeats, << >> for none
    acts,       \* every act of the turn, oldest first
    steps,      \* every closed step: its acts, its rejections, its reading
    open,       \* the step that is running
    floor,      \* how many steps and acts the last review had looked at
    spent,      \* reviews spent
    raised,     \* progressing verdicts, per signal
    refunded,   \* reviews given back, per signal
    review,     \* the last review, or NoReview
    answered,   \* how many steps and acts there were at the last review made
    asked,      \* model calls made for reviews
    gates,      \* gates that said no
    over        \* the mission was wound up

vars == <<loop, acts, steps, open, floor, spent, raised, refunded, review,
          answered, asked, gates, over>>

-----------------------------------------------------------------------------
(* The history since the floor, and its last n entries. *)

Since(seq, n) == SubSeq(seq, n + 1, Len(seq))
Last(seq, n) == SubSeq(seq, Len(seq) - n + 1, Len(seq))
Newest(seq, n) == IF Len(seq) > n THEN Last(seq, n) ELSE seq

Empty == [acts |-> << >>, rejections |-> 0]

\* _close: nothing is remembered before the first act or rejection.
Closed(reading) ==
    IF steps = << >> /\ open = Empty
    THEN steps
    ELSE Append(steps, [acts |-> open.acts, rejections |-> open.rejections,
                        reading |-> reading])

Threshold(signal, base) == base * (1 + raised[signal])

Repeated_ByCall(as, n) ==
    LET window == Newest(as, n * RepeatWindow)
        times(a) == Cardinality({i \in DOMAIN window : window[i].call = a.call})
    IN Len(as) >= n /\ \E i \in DOMAIN window : times(window[i]) >= n

\* The same act, call and bytes, among the newest acts.
Repeated(as, n) ==
    LET window == Newest(as, n * RepeatWindow)
        times(a) == Cardinality({i \in DOMAIN window : window[i] = a})
    IN Len(as) >= n /\ \E i \in DOMAIN window : times(window[i]) >= n

\* Steps that brought nothing but rejected replies.
Rejected(ss, n) ==
    /\ Len(ss) >= n
    /\ \A i \in DOMAIN Last(ss, n) :
          Last(ss, n)[i].rejections > 0 /\ Last(ss, n)[i].acts = << >>

\* Two calls, alternating; what they returned is not looked at.
Alternates(as, n) ==
    /\ Len(as) >= n
    /\ n % 2 = 0
    /\ LET tail == Last(as, n)
       IN /\ tail[1].call # tail[2].call
          /\ \A i \in DOMAIN tail :
                tail[i].call = tail[IF i % 2 = 1 THEN 1 ELSE 2].call

\* No act of the last n steps has a call or a result the run had not seen.
Stale(all, since, n) ==
    /\ since >= n
    /\ LET before == SubSeq(all, 1, Len(all) - n)
           seen == UNION {{a.call, a.result} :
                          a \in UNION {{before[i].acts[j] :
                                        j \in DOMAIN before[i].acts} :
                                       i \in DOMAIN before}}
       IN \A i \in DOMAIN Last(all, n) :
             \A j \in DOMAIN Last(all, n)[i].acts :
                {Last(all, n)[i].acts[j].call, Last(all, n)[i].acts[j].result}
                    \subseteq seen

\* Belief that did not move: the same obligations owed at every boundary, no
\* contradiction settled, fewer new propositions than steps of work.
Frozen(ss, n) ==
    /\ Len(ss) >= n
    /\ LET window == [i \in 1..n |-> Last(ss, n)[i].reading]
       IN /\ \A i \in 1..n : window[i] # NoReading
          /\ window[1].obligations
          /\ \A i \in 1..n : window[i].frontier = window[1].frontier
          /\ \A i \in 1..n - 1 :
                window[i + 1].contradictions >= window[i].contradictions
          /\ window[n].propositions < window[1].propositions + (n - 1)

\* The demonstrated repetitions in the history after a mark.
Repetition(signal, ss, mark) ==
    LET as == Since(acts, mark.acts)
        recent == Since(ss, mark.steps)
    IN CASE signal = "repeated_call" ->
              Repeated(as, Threshold(signal, Repeats))
         [] signal = "rejected_replies" ->
              Rejected(recent, Threshold(signal, Rejections))
         [] signal = "oscillation" ->
              Alternates(as, Threshold(signal, Oscillates))
         [] signal = "no_new_evidence" ->
              Stale(ss, Len(recent), Threshold(signal, StaleSteps))
         [] signal = "frozen_frontier" ->
              Frozen(recent, Threshold(signal, FrozenSteps))

\* _signal: the order is the order of specificity.
Order == <<"repeated_call", "rejected_replies", "oscillation",
           "no_new_evidence", "frozen_frontier">>

Fires(ss, i) ==
    /\ Repetition(Order[i], ss, floor)
    /\ \A j \in 1..i - 1 : ~Repetition(Order[j], ss, floor)

Quiet(ss) == \A i \in DOMAIN Order : ~Repetition(Order[i], ss, floor)

-----------------------------------------------------------------------------
ReviewsLeft == MaxReviews - spent

Refundable_Always(signal) == signal \in RefundsOnProgressing
Refundable_AnySignal(signal) == refunded[signal] < ReviewRefunds

Refundable(signal) ==
    signal \in RefundsOnProgressing /\ refunded[signal] < ReviewRefunds

Mark(ss) == [steps |-> Len(ss), acts |-> Len(acts)]

MoveFloor_Kept(ss) == UNCHANGED floor

\* _move_floor: everything reviewed once is not reviewed again.
MoveFloor(ss) == floor' = Mark(ss)

OutOfReviews_Quiet(signal, ss) ==
    /\ ReviewsLeft = 0
    /\ MoveFloor(ss)
    /\ UNCHANGED <<review, answered, spent, raised, refunded, asked>>

\* _review with the budget spent: the wind-up made by arithmetic, or nothing
\* at all for a signal that may not end a run.
OutOfReviews(signal, ss) ==
    /\ ReviewsLeft = 0
    /\ MoveFloor(ss)
    /\ IF signal \in NeverWindsUp
       THEN UNCHANGED <<review, answered>>
       ELSE /\ review' = [signal |-> signal, verdict |-> "stuck"]
            /\ answered' = Mark(ss)
    /\ UNCHANGED <<spent, raised, refunded, asked>>

\* _review with a review to spend: one model call, read against the menu.
Ask(signal, menu, ss) ==
    /\ ReviewsLeft > 0
    /\ \E reply \in Replies :
          LET allowed == Allowed(signal, menu, ReviewsLeft - 1,
                                 Refundable(signal))
              got == Read(reply, allowed)
              fine == got.verdict = "progressing" /\ got.asked
              back == fine /\ Refundable(signal)
          IN /\ review' = [signal |-> signal, verdict |-> got.verdict]
             /\ raised' = IF fine
                          THEN [raised EXCEPT ![signal] = @ + 1] ELSE raised
             /\ refunded' = IF back
                            THEN [refunded EXCEPT ![signal] = @ + 1]
                            ELSE refunded
             /\ spent' = IF back THEN spent ELSE spent + 1
    /\ asked' = asked + 1
    /\ MoveFloor(ss)
    /\ answered' = Mark(ss)

Reviewed(signal, menu, ss) ==
    OutOfReviews(signal, ss) \/ Ask(signal, menu, ss)

-----------------------------------------------------------------------------
Init ==
    /\ loop \in Loops
    /\ acts = << >>
    /\ steps = << >>
    /\ open = Empty
    /\ floor = [steps |-> 0, acts |-> 0]
    /\ spent = 0
    /\ raised = [s \in Signals |-> 0]
    /\ refunded = [s \in Signals |-> 0]
    /\ review = NoReview
    /\ answered = [steps |-> 0, acts |-> 0]
    /\ asked = 0
    /\ gates = 0
    /\ over = FALSE

Free == loop = << >>

\* saw_call: a call came back.
SawCall(a) ==
    /\ ~over
    /\ open' = [open EXCEPT !.acts = Append(@, a)]
    /\ acts' = Append(acts, a)
    /\ UNCHANGED <<loop, steps, floor, spent, raised, refunded, review,
                   answered, asked, gates, over>>

\* saw_rejection: a reply was not a decision the loop could act on.
SawRejection ==
    /\ ~over
    /\ open' = [open EXCEPT !.rejections = @ + 1]
    /\ UNCHANGED <<loop, acts, steps, floor, spent, raised, refunded, review,
                   answered, asked, gates, over>>

\* What a run in a pattern does next in its open step: the next act of the
\* step of the pattern, a rejection for a step without acts, or its boundary.
Turn == loop[(Len(steps) % Len(loop)) + 1]
TurnIsDone == Len(open.acts) = Len(Turn) /\ (Turn # << >> \/ open # Empty)

Works ==
    \/ /\ Free
       /\ Len(open.acts) + open.rejections < MaxActs
       /\ Len(steps) < MaxFree
       /\ SawRejection \/ \E a \in Acts : SawCall(a)
    \/ /\ ~Free
       /\ Len(steps) < MaxLooped
       /\ ~TurnIsDone
       /\ IF Turn = << >> THEN SawRejection
          ELSE SawCall(Turn[Len(open.acts) + 1])

\* look: close the step, and review it when a signal fires.  A review that
\* says stuck is the caller's order to wind the mission up.
Look(reading) ==
    /\ ~over
    /\ IF Free THEN Len(steps) < MaxFree
               ELSE /\ Len(steps) < MaxLooped
                    /\ TurnIsDone
                    /\ steps # << >> => reading = steps[1].reading
    /\ steps' = Closed(reading)
    /\ open' = Empty
    /\ \/ /\ Quiet(steps')
          /\ UNCHANGED <<floor, spent, raised, refunded, review, answered,
                         asked>>
       \/ \E i \in DOMAIN Order :
             /\ Fires(steps', i)
             /\ Reviewed(Order[i], LookMenu(Order[i]), steps')
    /\ over' = (answered' # answered /\ review'.verdict = "stuck")
    /\ UNCHANGED <<loop, acts, gates>>

\* review_gate: the gate of a plan step said no.  Its verdict settles the
\* step, not the turn.
ReviewGate ==
    /\ ~over
    /\ gates < MaxGates
    /\ gates' = gates + 1
    /\ steps' = Closed(NoReading)
    /\ open' = Empty
    /\ Reviewed("failed_gate", GateMenu, steps')
    /\ UNCHANGED <<loop, acts, over>>

\* The child that was wound up has ended; the plan goes on with the next one
\* under the same supervisor.
NextChild ==
    /\ over
    /\ gates < MaxGates
    /\ gates' = gates + 1
    /\ over' = FALSE
    /\ UNCHANGED <<loop, acts, steps, open, floor, spent, raised, refunded,
                   review, answered, asked>>

Next ==
    \/ Works
    \/ \E reading \in Readings : Look(reading)
    \/ ReviewGate
    \/ NextChild

Spec == Init /\ [][Next]_vars

-----------------------------------------------------------------------------
(* Properties *)

AtBoundary == open = Empty /\ steps # << >>

CognitionOff == \A i \in DOMAIN steps : steps[i].reading = NoReading

\* Every variable keeps its shape, and the marks never pass the history.
TypeOK ==
    /\ spent \in 0..MaxReviews
    /\ raised \in [Signals -> Nat]
    /\ refunded \in [Signals -> 0..ReviewRefunds]
    /\ asked \in Nat
    /\ review \in [signal : Signals, verdict : Verdicts] \cup {NoReview}
    /\ over \in BOOLEAN
    /\ floor.steps <= Len(steps) /\ floor.acts <= Len(acts)
    /\ answered.steps <= floor.steps /\ answered.acts <= floor.acts

\* "What bounds the bound": a review is a model call, and whatever the model
\* replies, and however many signals take turns and gates say no, a turn
\* makes no more of them than its budget and the refunds of the two signals
\* about an absence.
ReviewsAreBounded ==
    /\ asked = spent + refunded["no_new_evidence"]
                     + refunded["frozen_frontier"]
    /\ asked <= MaxReviews + 2 * ReviewRefunds

\* A run whose every step brings a result the run has not seen is going
\* somewhere, and with cognition off nothing but an alternation of its calls
\* (which does not look at results) gets it reviewed.
PollingIsLeftAlone ==
    LET busy == \A i \in DOMAIN steps : steps[i].acts # << >>
        new == \A i, j \in DOMAIN acts :
                  i # j => acts[i].result # acts[j].result
    IN (CognitionOff /\ busy /\ new /\ gates = 0 /\ review # NoReview)
          => review.signal = "oscillation"

\* With no review left, a repetition that has stood since the last review
\* anybody made has wound the run up: after the last review the next signal
\* ends it, and nothing else may use the evidence up.
SpentBudgetCatches ==
    (ReviewsLeft = 0 /\ AtBoundary /\ ~over)
        => \A i \in 1..4 : ~Repetition(Order[i], steps, answered)

\* Two reviews at step boundaries are never about the same steps: what fired
\* the second one happened after the first.
EvidenceIsUsedOnce ==
    [][(asked' # asked /\ gates' = gates)
          => \/ \E n \in {Rejections, StaleSteps, FrozenSteps} :
                    Len(steps') - answered.steps >= n
             \/ \E n \in {Repeats, Oscillates} :
                    Len(acts) - answered.acts >= n]_vars

\* How long a pattern can go on: once round, when it still brings something
\* new, and then the stale threshold, which rises with each of the reviews that
\* say progressing.
LoopBound ==
    LET rounds == MaxReviews + ReviewRefunds + 1
    IN Len(loop) + StaleSteps * ((rounds * (rounds + 1)) \div 2)

\* A run that goes round a pattern for ever, and brings nothing new, is wound
\* up whatever its reviews say.
LoopIsWoundUp ==
    (~Free /\ CognitionOff /\ gates = 0 /\ Len(steps) >= LoopBound) => over

=============================================================================
