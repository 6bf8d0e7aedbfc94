-------------------------- MODULE SupervisorProofs --------------------------
(***************************************************************************)
(* What the supervisor promises whatever it is told and whatever its       *)
(* reviews say, for every threshold and every budget of reviews and        *)
(* refunds: it stays inside the budget, no two of its reviews at a step    *)
(* boundary are about the same steps, a run that polls is left alone, and  *)
(* one that goes round a pattern is wound up after a bounded number of     *)
(* steps.                                                                  *)
(***************************************************************************)
EXTENDS Supervisor, FiniteSetTheorems, TLAPS

IsSeq(s) == \E S : s \in Seq(S)

LEMMA EmptyIsSeq == IsSeq(<< >>) /\ Len(<< >>) = 0
<1>1. << >> \in Seq({}) /\ Len(<< >>) = 0
  OBVIOUS
<1> QED
  BY <1>1 DEF IsSeq

LEMMA LenIsNat == ASSUME NEW s, IsSeq(s) PROVE Len(s) \in Nat
  BY DEF IsSeq

LEMMA AppendIsSeq ==
  ASSUME NEW s, IsSeq(s), NEW e
  PROVE  IsSeq(Append(s, e)) /\ Len(Append(s, e)) = Len(s) + 1
<1>1. PICK S : s \in Seq(S)
  BY DEF IsSeq
<1>2. s \in Seq(S \cup {e})
  BY <1>1
<1>3. Append(s, e) \in Seq(S \cup {e}) /\ Len(Append(s, e)) = Len(s) + 1
  BY <1>2
<1> QED
  BY <1>3 DEF IsSeq

\* What a mark leaves of a history is as long as the history is past the mark.
LEMMA SinceLength ==
  ASSUME NEW s, IsSeq(s), NEW n \in Nat, n <= Len(s)
  PROVE  IsSeq(Since(s, n)) /\ Len(Since(s, n)) = Len(s) - n
<1>1. PICK S : s \in Seq(S)
  BY DEF IsSeq
<1>2. \A i \in n + 1..Len(s) : s[i] \in S
  BY <1>1
<1>3. Since(s, n) \in Seq(S) /\ Len(Since(s, n)) = Len(s) - n
  BY <1>1, <1>2 DEF Since
<1> QED
  BY <1>3 DEF IsSeq

\* A threshold a verdict has raised is no lower than its base.
LEMMA ThresholdRises ==
  ASSUME NEW base \in Nat, NEW r \in Nat
  PROVE  base * (1 + r) \in Nat /\ base * (1 + r) >= base
<1>1. base * r \in Nat
  OBVIOUS
<1>2. base * (1 + r) = base + base * r
  OBVIOUS
<1> QED
  BY <1>1, <1>2

-----------------------------------------------------------------------------
\* The counters: a review that was made is either spent or given back, and it
\* is given back only where the signal has a refund left.
Counted ==
  /\ spent \in Nat /\ spent <= MaxReviews
  /\ raised \in [Signals -> Nat]
  /\ refunded \in [Signals -> Nat]
  /\ \A s \in Signals : refunded[s] <= ReviewRefunds
  /\ asked \in Nat /\ gates \in Nat
  /\ asked = spent + refunded["no_new_evidence"]
                   + refunded["frozen_frontier"]
  /\ review \in [signal : Signals, verdict : Verdicts] \cup {NoReview}
  /\ over \in BOOLEAN

\* The marks: the last review made is no further than the floor, and the floor
\* no further than the history.
Marked ==
  /\ IsSeq(acts) /\ IsSeq(steps)
  /\ floor \in [steps : Nat, acts : Nat]
  /\ answered \in [steps : Nat, acts : Nat]
  /\ answered.steps <= floor.steps /\ floor.steps <= Len(steps)
  /\ answered.acts <= floor.acts /\ floor.acts <= Len(acts)

LEMMA ReadIsAVerdict ==
  ASSUME NEW reply \in Replies, NEW allowed \in SUBSET Verdicts
  PROVE  Read(reply, allowed).verdict \in Verdicts
  BY DEF Read, Replies, Verdicts

LEMMA ClosedGrows ==
  ASSUME NEW reading, IsSeq(steps)
  PROVE  IsSeq(Closed(reading)) /\ Len(steps) <= Len(Closed(reading))
<1>1. Len(steps) \in Nat
  BY LenIsNat
<1> QED
  BY <1>1, AppendIsSeq DEF Closed

LEMMA ReviewIsCounted ==
  ASSUME Counted, NEW signal \in Signals, NEW menu \in SUBSET Verdicts, NEW ss,
         Reviewed(signal, menu, ss), gates' \in Nat, over' \in BOOLEAN
  PROVE  Counted'
<1>0. MaxReviews \in Nat /\ ReviewRefunds \in Nat
  BY SupervisorAssumption
<1>1. CASE OutOfReviews(signal, ss)
  <2>1. review' \in [signal : Signals, verdict : Verdicts] \cup {NoReview}
    BY <1>1 DEF OutOfReviews, Counted, Verdicts
  <2> QED
    BY <1>1, <2>1 DEF OutOfReviews, Counted
<1>2. CASE Ask(signal, menu, ss)
  <2> DEFINE allowed == Allowed(signal, menu, ReviewsLeft - 1,
                                Refundable(signal))
  <2>1. PICK reply \in Replies :
          LET got == Read(reply, allowed)
              fine == got.verdict = "progressing" /\ got.asked
              back == fine /\ Refundable(signal)
          IN /\ review' = [signal |-> signal, verdict |-> got.verdict]
             /\ raised' = IF fine
                          THEN [raised EXCEPT ![signal] = @ + 1] ELSE raised
             /\ refunded' = IF back
                            THEN [refunded EXCEPT ![signal] = @ + 1]
                            ELSE refunded
             /\ spent' = IF back THEN spent ELSE spent + 1
    BY <1>2 DEF Ask
  <2>2. review' \in [signal : Signals, verdict : Verdicts]
    <3>1. allowed \in SUBSET Verdicts
      BY DEF Allowed
    <3> QED
      BY <2>1, <3>1, ReadIsAVerdict
  <2>3. raised' \in [Signals -> Nat]
    BY <2>1 DEF Counted
  <2>4. spent < MaxReviews /\ asked' = asked + 1
    BY <1>0, <1>2 DEF Ask, ReviewsLeft, Counted
  <2>5. CASE /\ refunded' = [refunded EXCEPT ![signal] = @ + 1]
             /\ spent' = spent /\ Refundable(signal)
    <3>1. /\ signal \in {"no_new_evidence", "frozen_frontier"}
          /\ refunded[signal] < ReviewRefunds
      BY <2>5 DEF Refundable, RefundsOnProgressing
    <3>2. {"no_new_evidence", "frozen_frontier"} \subseteq Signals
      BY DEF Signals
    <3>3. /\ refunded' \in [Signals -> Nat]
          /\ \A s \in Signals : refunded'[s] <= ReviewRefunds
      BY <1>0, <2>5, <3>1 DEF Counted
    <3>4. asked' = spent' + refunded'["no_new_evidence"]
                          + refunded'["frozen_frontier"]
      BY <2>4, <2>5, <3>1, <3>2 DEF Counted
    <3> QED
      BY <2>2, <2>3, <2>4, <2>5, <3>3, <3>4 DEF Counted
  <2>6. CASE refunded' = refunded /\ spent' = spent + 1
    <3>1. {"no_new_evidence", "frozen_frontier"} \subseteq Signals
      BY DEF Signals
    <3>2. asked' = spent' + refunded'["no_new_evidence"]
                          + refunded'["frozen_frontier"]
      BY <2>4, <2>6, <3>1 DEF Counted
    <3> QED
      BY <1>0, <2>2, <2>3, <2>4, <2>6, <3>2 DEF Counted
  <2> QED
    BY <2>1, <2>5, <2>6
<1> QED
  BY <1>1, <1>2 DEF Reviewed

\* A review moves the floor to where the history is, and the mark of the last
\* review there or nowhere.
LEMMA ReviewIsMarked ==
  ASSUME Marked, NEW signal, NEW menu, NEW ss, IsSeq(ss), Len(steps) <= Len(ss),
         Reviewed(signal, menu, ss), steps' = ss, acts' = acts
  PROVE  Marked'
<1>1. floor' = Mark(ss) /\ answered' \in {answered, Mark(ss)}
  BY DEF Reviewed, OutOfReviews, Ask, MoveFloor
<1>2. Len(ss) \in Nat /\ Len(acts) \in Nat /\ Len(steps) \in Nat
  BY LenIsNat DEF Marked
<1>3. Mark(ss) \in [steps : Nat, acts : Nat]
  BY <1>2 DEF Mark
<1> QED
  BY <1>1, <1>2, <1>3 DEF Marked, Mark

-----------------------------------------------------------------------------
LEMMA SupervisorStart == Init => Counted /\ Marked
<1> SUFFICES ASSUME Init PROVE Counted /\ Marked
  OBVIOUS
<1>1. MaxReviews \in Nat /\ ReviewRefunds \in Nat
  BY SupervisorAssumption
<1>2. {"no_new_evidence", "frozen_frontier"} \subseteq Signals
  BY DEF Signals
<1> QED
  <2>1. Counted
    <3>1. /\ spent = 0 /\ asked = 0 /\ gates = 0 /\ review = NoReview
          /\ raised = [s \in Signals |-> 0]
          /\ refunded = [s \in Signals |-> 0]
      BY DEF Init
    <3>2. over \in BOOLEAN
      BY DEF Init
    <3>3. /\ raised \in [Signals -> Nat] /\ refunded \in [Signals -> Nat]
          /\ refunded["no_new_evidence"] = 0
          /\ refunded["frozen_frontier"] = 0
          /\ \A s \in Signals : refunded[s] <= ReviewRefunds
      BY <1>1, <1>2, <3>1
    <3> QED
      BY <1>1, <3>1, <3>2, <3>3 DEF Counted
  <2>2. Marked
    BY EmptyIsSeq DEF Init, Marked
  <2> QED
    BY <2>1, <2>2

LEMMA MenusAreVerdicts ==
  /\ GateMenu \in SUBSET Verdicts
  /\ \A signal : LookMenu(signal) \in SUBSET Verdicts
  BY DEF GateMenu, LookMenu, Verdicts

LEMMA OrderIsSignals ==
  \A i \in DOMAIN Order : Order[i] \in Signals \ {"failed_gate"}
  BY DEF Order, Signals

LEMMA SupervisorStep == Counted /\ Marked /\ [Next]_vars => Counted' /\ Marked'
<1> SUFFICES ASSUME Counted, Marked, [Next]_vars PROVE Counted' /\ Marked'
  OBVIOUS
<1>1. ASSUME NEW a, SawCall(a) PROVE Counted' /\ Marked'
  <2>1. IsSeq(acts') /\ Len(acts') = Len(acts) + 1 /\ Len(acts) \in Nat
    BY <1>1, AppendIsSeq, LenIsNat DEF SawCall, Marked
  <2> QED
    BY SMTT(30), <1>1, <2>1 DEF SawCall, Counted, Marked
<1>2. CASE SawRejection
  BY <1>2 DEF SawRejection, Counted, Marked
<1>3. CASE Works
  BY <1>1, <1>2, <1>3 DEF Works
<1>4. ASSUME NEW reading \in Readings, Look(reading)
      PROVE  Counted' /\ Marked'
  <2>1. /\ steps' = Closed(reading) /\ UNCHANGED <<acts, gates>>
        /\ over' \in BOOLEAN
    BY <1>4 DEF Look
  <2>2. IsSeq(steps') /\ Len(steps) <= Len(steps')
    BY <2>1, ClosedGrows DEF Marked
  <2>3. CASE UNCHANGED <<floor, spent, raised, refunded, review, answered,
                         asked>>
    <3>1. Len(steps) \in Nat /\ Len(steps') \in Nat
      BY <2>2, LenIsNat DEF Marked
    <3> QED
      BY SMTT(30), <2>1, <2>2, <2>3, <3>1 DEF Counted, Marked
  <2>4. ASSUME NEW i \in DOMAIN Order,
               Reviewed(Order[i], LookMenu(Order[i]), steps')
        PROVE  Counted' /\ Marked'
    <3>1. Order[i] \in Signals /\ LookMenu(Order[i]) \in SUBSET Verdicts
      BY OrderIsSignals, MenusAreVerdicts
    <3>2. gates' \in Nat
      BY <2>1 DEF Counted
    <3> QED
      BY <2>1, <2>2, <2>4, <3>1, <3>2, ReviewIsCounted, ReviewIsMarked
  <2> QED
    BY <1>4, <2>3, <2>4 DEF Look
<1>5. CASE ReviewGate
  <2>1. /\ steps' = Closed(NoReading) /\ UNCHANGED <<acts, over>>
        /\ gates' \in Nat /\ Reviewed("failed_gate", GateMenu, steps')
    BY <1>5 DEF ReviewGate, Counted
  <2>2. IsSeq(steps') /\ Len(steps) <= Len(steps')
    BY <2>1, ClosedGrows DEF Marked
  <2>3. "failed_gate" \in Signals /\ over' \in BOOLEAN
    BY <2>1 DEF Signals, Counted
  <2> QED
    BY <2>1, <2>2, <2>3, MenusAreVerdicts, ReviewIsCounted, ReviewIsMarked
<1>6. CASE NextChild
  <2>1. gates' \in Nat
    BY <1>6 DEF NextChild, Counted
  <2>2. Counted'
    <3>1. over' \in BOOLEAN
      BY <1>6 DEF NextChild
    <3> QED
      BY <1>6, <2>1, <3>1 DEF NextChild, Counted
  <2>3. Marked'
    BY <1>6 DEF NextChild, Marked
  <2> QED
    BY <2>2, <2>3
<1>7. CASE UNCHANGED vars
  BY <1>7 DEF vars, Counted, Marked
<1> QED
  BY <1>3, <1>4, <1>5, <1>6, <1>7 DEF Next

\* Every state of a supervisor is well typed, and no mark passes the history.
THEOREM SupervisorTypeCorrect == Spec => []TypeOK
<1>1. Counted /\ Marked => TypeOK
  <2> SUFFICES ASSUME Counted, Marked PROVE TypeOK
    OBVIOUS
  <2>1. /\ MaxReviews \in Nat /\ ReviewRefunds \in Nat
    BY SupervisorAssumption
  <2>2. spent \in 0..MaxReviews /\ refunded \in [Signals -> 0..ReviewRefunds]
    BY <2>1 DEF Counted
  <2> QED
    BY <2>2 DEF Counted, Marked, TypeOK
<1> QED
  BY <1>1, SupervisorStart, SupervisorStep, PTL DEF Spec

\* A turn makes no more reviews than its budget and the refunds of the two
\* signals about an absence, whatever is replied and whoever asks (look and
\* review_gate of supervisor.py spend from one budget).
THEOREM ReviewsBounded == Spec => []ReviewsAreBounded
<1>1. Counted => ReviewsAreBounded
  <2> SUFFICES ASSUME Counted PROVE ReviewsAreBounded
    OBVIOUS
  <2>1. /\ MaxReviews \in Nat /\ ReviewRefunds \in Nat
        /\ {"no_new_evidence", "frozen_frontier"} \subseteq Signals
    BY SupervisorAssumption DEF Signals
  <2>2. /\ refunded["no_new_evidence"] \in Nat
        /\ refunded["frozen_frontier"] \in Nat
        /\ refunded["no_new_evidence"] <= ReviewRefunds
        /\ refunded["frozen_frontier"] <= ReviewRefunds
    BY <2>1 DEF Counted
  <2> QED
    BY <2>1, <2>2 DEF Counted, ReviewsAreBounded
<1> QED
  BY <1>1, SupervisorStart, SupervisorStep, PTL DEF Spec

-----------------------------------------------------------------------------
\* Every signal is a run of something since the floor: of closed steps or of
\* acts, and at least as many as the signal's base.
Enough(ss) ==
  \/ \E n \in {Rejections, StaleSteps, FrozenSteps} :
        Len(ss) - floor.steps >= n
  \/ \E n \in {Repeats, Oscillates} : Len(acts) - floor.acts >= n

LEMMA RepetitionNeedsEnough ==
  ASSUME Counted, Marked, NEW ss, IsSeq(ss), Len(steps) <= Len(ss),
         NEW signal \in Signals \ {"failed_gate"},
         Repetition(signal, ss, floor)
  PROVE  Enough(ss)
<1>1. /\ Len(ss) \in Nat /\ Len(acts) \in Nat /\ Len(steps) \in Nat
      /\ floor.steps \in Nat /\ floor.acts \in Nat
      /\ floor.steps <= Len(ss) /\ floor.acts <= Len(acts)
  BY LenIsNat DEF Marked
<1>2. /\ Len(Since(ss, floor.steps)) = Len(ss) - floor.steps
      /\ Len(Since(acts, floor.acts)) = Len(acts) - floor.acts
  BY <1>1, SinceLength DEF Marked
<1>3. {Repeats, Rejections, StaleSteps, FrozenSteps, Oscillates} \subseteq Nat
  BY SupervisorAssumption
<1>4. ASSUME NEW base \in Nat
      PROVE  Threshold(signal, base) \in Nat /\ Threshold(signal, base) >= base
  <2>1. raised[signal] \in Nat
    BY DEF Counted
  <2> QED
    BY <2>1, ThresholdRises DEF Threshold
<1>5. CASE signal = "repeated_call"
  <2>1. Len(Since(acts, floor.acts)) >= Threshold(signal, Repeats)
    BY <1>5 DEF Repetition, Repeated
  <2>2. /\ Threshold(signal, Repeats) \in Nat /\ Repeats \in Nat
        /\ Threshold(signal, Repeats) >= Repeats
    BY <1>3, <1>4
  <2> QED
    BY <1>1, <1>2, <2>1, <2>2 DEF Enough
<1>6. CASE signal = "rejected_replies"
  <2>1. Len(Since(ss, floor.steps)) >= Threshold(signal, Rejections)
    BY <1>6 DEF Repetition, Rejected
  <2>2. /\ Threshold(signal, Rejections) \in Nat /\ Rejections \in Nat
        /\ Threshold(signal, Rejections) >= Rejections
    BY <1>3, <1>4
  <2> QED
    BY <1>1, <1>2, <2>1, <2>2 DEF Enough
<1>7. CASE signal = "oscillation"
  <2>1. Len(Since(acts, floor.acts)) >= Threshold(signal, Oscillates)
    BY <1>7 DEF Repetition, Alternates
  <2>2. /\ Threshold(signal, Oscillates) \in Nat /\ Oscillates \in Nat
        /\ Threshold(signal, Oscillates) >= Oscillates
    BY <1>3, <1>4
  <2> QED
    BY <1>1, <1>2, <2>1, <2>2 DEF Enough
<1>8. CASE signal = "no_new_evidence"
  <2>1. Len(Since(ss, floor.steps)) >= Threshold(signal, StaleSteps)
    BY <1>8 DEF Repetition, Stale
  <2>2. /\ Threshold(signal, StaleSteps) \in Nat /\ StaleSteps \in Nat
        /\ Threshold(signal, StaleSteps) >= StaleSteps
    BY <1>3, <1>4
  <2> QED
    BY <1>1, <1>2, <2>1, <2>2 DEF Enough
<1>9. CASE signal = "frozen_frontier"
  <2>1. Len(Since(ss, floor.steps)) >= Threshold(signal, FrozenSteps)
    BY <1>9 DEF Repetition, Frozen
  <2>2. /\ Threshold(signal, FrozenSteps) \in Nat /\ FrozenSteps \in Nat
        /\ Threshold(signal, FrozenSteps) >= FrozenSteps
    BY <1>3, <1>4
  <2> QED
    BY <1>1, <1>2, <2>1, <2>2 DEF Enough
<1> QED
  BY <1>5, <1>6, <1>7, <1>8, <1>9 DEF Signals

\* Two reviews at step boundaries are never about the same steps: between them
\* lie as many steps or acts as one of the signals needs (_signal and
\* _move_floor of supervisor.py), however the thresholds were raised.
THEOREM EvidenceUsedOnce == Spec => EvidenceIsUsedOnce
<1> DEFINE NewEvidence ==
      (asked' # asked /\ gates' = gates)
          => \/ \E n \in {Rejections, StaleSteps, FrozenSteps} :
                    Len(steps') - answered.steps >= n
             \/ \E n \in {Repeats, Oscillates} :
                    Len(acts) - answered.acts >= n
<1>1. Counted /\ Marked /\ [Next]_vars => [NewEvidence]_vars
  <2> SUFFICES ASSUME Counted, Marked, Next, asked' # asked, gates' = gates
               PROVE  NewEvidence
    OBVIOUS
  <2>1. ~Works /\ ~NextChild
    BY DEF Works, SawCall, SawRejection, NextChild
  <2>2. ~ReviewGate
    BY DEF ReviewGate, Counted
  <2>3. PICK reading \in Readings : Look(reading)
    BY <2>1, <2>2 DEF Next
  <2>4. PICK i \in DOMAIN Order : Fires(steps', i)
    BY <2>3 DEF Look
  <2>5. IsSeq(steps') /\ Len(steps) <= Len(steps')
    BY <2>3, ClosedGrows DEF Look, Marked
  <2>6. Enough(steps')
    BY <2>4, <2>5, OrderIsSignals, RepetitionNeedsEnough DEF Fires
  <2>7. /\ Len(steps') \in Nat /\ Len(acts) \in Nat
        /\ {Rejections, StaleSteps, FrozenSteps, Repeats, Oscillates}
              \subseteq Nat
    BY <2>5, LenIsNat, SupervisorAssumption DEF Marked
  <2> QED
    BY SMTT(30), <2>6, <2>7 DEF Enough, Marked
<1> QED
  BY <1>1, SupervisorStart, SupervisorStep, PTL DEF Spec, EvidenceIsUsedOnce

-----------------------------------------------------------------------------
(* A run that keeps bringing something new. *)

\* The acts of a step are acts of the turn, and the acts of two steps are
\* different acts of the turn, though they may look the same.
Kept(s) ==
  /\ IsSeq(s.acts)
  /\ \A j \in DOMAIN s.acts : \E k \in DOMAIN acts : acts[k] = s.acts[j]

Apart(s, t) ==
  \A j \in DOMAIN s.acts, m \in DOMAIN t.acts :
     \E k, l \in DOMAIN acts :
        k # l /\ acts[k] = s.acts[j] /\ acts[l] = t.acts[m]

Placed ==
  /\ open = [acts |-> open.acts, rejections |-> open.rejections]
  /\ Kept(open)
  /\ \A i \in DOMAIN steps : Kept(steps[i]) /\ Apart(steps[i], open)
  /\ \A i, k \in DOMAIN steps : i < k => Apart(steps[i], steps[k])

\* No result is the digest of a call that was made.
NoEcho == \A i, j \in DOMAIN acts : acts[i].result # acts[j].call

Busy == \A i \in DOMAIN steps : steps[i].acts # << >>
New == \A i, j \in DOMAIN acts : i # j => acts[i].result # acts[j].result

\* A run that polls: every step brings something new, and nobody has asked for
\* a review but the steps themselves.
Polls == CognitionOff /\ Busy /\ New /\ NoEcho /\ gates = 0

LEMMA SeqShape ==
  ASSUME NEW s, IsSeq(s)
  PROVE  DOMAIN s = 1..Len(s) /\ Len(s) \in Nat /\ (s = << >> <=> Len(s) = 0)
<1>1. PICK S : s \in Seq(S)
  BY DEF IsSeq
<1> QED BY <1>1

LEMMA AppendAt ==
  ASSUME NEW s, IsSeq(s), NEW e
  PROVE  /\ DOMAIN Append(s, e) = 1..Len(s) + 1
         /\ \A i \in 1..Len(s) : Append(s, e)[i] = s[i]
         /\ Append(s, e)[Len(s) + 1] = e
<1>1. PICK S : s \in Seq(S)
  BY DEF IsSeq
<1>2. s \in Seq(S \cup {e})
  BY <1>1
<1> QED BY <1>2

LEMMA ExtendedAt ==
  ASSUME NEW s, IsSeq(s), NEW t, t = s \/ \E e : t = Append(s, e)
  PROVE  DOMAIN s \subseteq DOMAIN t /\ \A i \in DOMAIN s : t[i] = s[i]
<1>1. CASE t = s
  BY <1>1
<1>2. ASSUME NEW e, t = Append(s, e)
      PROVE  DOMAIN s \subseteq DOMAIN t /\ \A i \in DOMAIN s : t[i] = s[i]
  <2>1. DOMAIN s = 1..Len(s) /\ Len(s) \in Nat
    BY SeqShape
  <2>2. DOMAIN t = 1..Len(s) + 1 /\ \A i \in 1..Len(s) : t[i] = s[i]
    BY <1>2, AppendAt
  <2> QED BY <2>1, <2>2
<1> QED BY <1>1, <1>2

LEMMA SinceAt ==
  ASSUME NEW s, IsSeq(s), NEW n \in Nat, n <= Len(s)
  PROVE  \A i \in 1..Len(s) - n : Since(s, n)[i] = s[n + i]
<1>1. PICK S : s \in Seq(S)
  BY DEF IsSeq
<1> QED BY <1>1 DEF Since

\* The last n entries.
LEMMA LastAt ==
  ASSUME NEW s, IsSeq(s), NEW n \in Nat, n <= Len(s)
  PROVE  /\ IsSeq(Last(s, n)) /\ Len(Last(s, n)) = n
         /\ \A i \in 1..n : Last(s, n)[i] = s[Len(s) - n + i]
<1>1. PICK S : s \in Seq(S)
  BY DEF IsSeq
<1>2. \A i \in Len(s) - n + 1..Len(s) : s[i] \in S
  BY <1>1
<1>3. Last(s, n) \in Seq(S) /\ Len(Last(s, n)) = n
  BY <1>1, <1>2 DEF Last
<1>4. \A i \in 1..n : Last(s, n)[i] = s[Len(s) - n + i]
  BY <1>1 DEF Last
<1> QED BY <1>3, <1>4 DEF IsSeq

-----------------------------------------------------------------------------
LEMMA PlacedStart == Init => Placed
  BY EmptyIsSeq, SeqShape DEF Init, Placed, Kept, Apart, Empty

LEMMA CallIsPlaced ==
  ASSUME Marked, Placed, NEW a, SawCall(a)
  PROVE  Placed'
<1>0. IsSeq(acts) /\ IsSeq(steps) /\ IsSeq(open.acts)
  BY DEF Marked, Placed, Kept
<1>1. acts' = Append(acts, a) /\ steps' = steps
  BY DEF SawCall
<1>2. /\ open' = [acts |-> Append(open.acts, a), rejections |-> open.rejections]
      /\ open'.acts = Append(open.acts, a)
  BY DEF SawCall, Placed
<1>3. /\ DOMAIN acts = 1..Len(acts) /\ Len(acts) \in Nat
      /\ DOMAIN acts' = 1..Len(acts) + 1 /\ acts'[Len(acts) + 1] = a
      /\ \A k \in DOMAIN acts : k \in DOMAIN acts' /\ acts'[k] = acts[k]
  BY <1>0, <1>1, AppendAt, SeqShape
<1>4. /\ IsSeq(open'.acts)
      /\ \A j \in DOMAIN open'.acts :
           \/ j \in DOMAIN open.acts /\ open'.acts[j] = open.acts[j]
           \/ open'.acts[j] = a
  <2>1. /\ DOMAIN open.acts = 1..Len(open.acts) /\ Len(open.acts) \in Nat
    BY <1>0, SeqShape
  <2> QED BY <1>0, <1>2, <2>1, AppendAt, AppendIsSeq
<1>5. Kept(open)'
  BY <1>3, <1>4 DEF Placed, Kept
<1>6. ASSUME NEW i \in DOMAIN steps PROVE Kept(steps[i])' /\ Apart(steps[i], open)'
  <2>1. Kept(steps[i])'
    BY <1>1, <1>3 DEF Placed, Kept
  <2>2. ASSUME NEW j \in DOMAIN steps[i].acts, NEW m \in DOMAIN open'.acts
        PROVE  \E k, l \in DOMAIN acts' :
                 k # l /\ acts'[k] = steps[i].acts[j] /\ acts'[l] = open'.acts[m]
    <3>1. CASE m \in DOMAIN open.acts /\ open'.acts[m] = open.acts[m]
      BY <1>3, <3>1 DEF Placed, Apart
    <3>2. CASE open'.acts[m] = a
      <4>1. PICK k \in DOMAIN acts : acts[k] = steps[i].acts[j]
        BY DEF Placed, Kept
      <4> QED BY <1>3, <3>2, <4>1
    <3> QED BY <1>4, <3>1, <3>2
  <2> QED BY <1>1, <2>1, <2>2 DEF Apart
<1>7. ASSUME NEW i \in DOMAIN steps, NEW k \in DOMAIN steps, i < k
      PROVE  Apart(steps[i], steps[k])'
  <2>1. Apart(steps[i], steps[k])
    BY <1>7 DEF Placed
  <2> QED BY <1>1, <1>3, <2>1 DEF Apart
<1>8. open' = [acts |-> open'.acts, rejections |-> open'.rejections]
  BY <1>2
<1> QED BY <1>1, <1>5, <1>6, <1>7, <1>8 DEF Placed

LEMMA SameActsPlaced ==
  ASSUME Placed, acts' = acts, steps' = steps, open'.acts = open.acts,
         open' = [acts |-> open'.acts, rejections |-> open'.rejections]
  PROVE  Placed'
  BY DEF Placed, Kept, Apart

\* Closing the step puts it behind the closed ones.
LEMMA CloseIsPlaced ==
  ASSUME Marked, Placed, NEW reading, steps' = Closed(reading), open' = Empty,
         acts' = acts
  PROVE  Placed'
<1> DEFINE s == [acts |-> open.acts, rejections |-> open.rejections,
                 reading |-> reading]
<1>1. IsSeq(steps) /\ Kept(s) /\ \A i \in DOMAIN steps : Apart(steps[i], s)
  BY DEF Marked, Placed, Kept, Apart
<1>2. CASE steps' = steps
  <2>1. open'.acts = << >> /\ IsSeq(<< >>) /\ DOMAIN << >> = {}
    BY EmptyIsSeq, SeqShape DEF Empty
  <2>2. Kept(open') /\ \A t : Apart(t, open')
    BY <2>1 DEF Kept, Apart
  <2> QED BY <1>2, <2>2 DEF Placed, Kept, Apart, Empty
<1>3. CASE steps' = Append(steps, s)
  <2> HIDE DEF s
  <2>1. open'.acts = << >> /\ IsSeq(<< >>) /\ DOMAIN << >> = {}
    BY EmptyIsSeq, SeqShape DEF Empty
  <2>2. Kept(open') /\ \A t : Apart(t, open')
    BY <2>1 DEF Kept, Apart
  <2>3. /\ DOMAIN steps = 1..Len(steps) /\ Len(steps) \in Nat
        /\ DOMAIN steps' = 1..Len(steps) + 1 /\ steps'[Len(steps) + 1] = s
        /\ \A i \in DOMAIN steps : steps'[i] = steps[i]
    BY <1>1, <1>3, AppendAt, SeqShape
  <2>4. \A i \in DOMAIN steps' : Kept(steps'[i])
    BY <1>1, <2>3 DEF Placed
  <2>5. \A i, k \in DOMAIN steps' : i < k => Apart(steps'[i], steps'[k])
    BY <1>1, <2>3 DEF Placed
  <2>6. open' = [acts |-> open'.acts, rejections |-> open'.rejections]
    BY DEF Empty
  <2>7. Kept(open)' /\ \A i \in DOMAIN steps' : Kept(steps[i])' /\ Apart(steps[i], open)'
    BY <2>2, <2>4 DEF Kept, Apart
  <2>8. \A i, k \in DOMAIN steps' : i < k => Apart(steps[i], steps[k])'
    BY <2>5 DEF Apart
  <2> QED BY <2>6, <2>7, <2>8 DEF Placed
<1> QED BY <1>2, <1>3 DEF Closed

LEMMA PlacedStep == Marked /\ Placed /\ [Next]_vars => Placed'
<1> SUFFICES ASSUME Marked, Placed, [Next]_vars PROVE Placed'
  OBVIOUS
<1>1. CASE SawRejection
  BY <1>1, SameActsPlaced DEF SawRejection, Placed
<1>2. CASE Works
  BY <1>1, <1>2, CallIsPlaced DEF Works
<1>3. ASSUME NEW reading \in Readings, Look(reading) PROVE Placed'
  BY <1>3, CloseIsPlaced DEF Look
<1>4. CASE ReviewGate
  BY <1>4, CloseIsPlaced DEF ReviewGate
<1>5. CASE NextChild
  BY <1>5, SameActsPlaced DEF NextChild, Placed
<1>6. CASE UNCHANGED vars
  BY <1>6, SameActsPlaced DEF vars, Placed
<1> QED BY <1>2, <1>3, <1>4, <1>5, <1>6 DEF Next

-----------------------------------------------------------------------------
\* No signal but an alternation can be raised by a run that polls.

LEMMA ThresholdAbove ==
  ASSUME Counted, NEW signal \in Signals, NEW base \in Nat
  PROVE  Threshold(signal, base) \in Nat /\ Threshold(signal, base) >= base
<1>1. raised[signal] \in Nat
  BY DEF Counted
<1> QED BY <1>1, ThresholdRises DEF Threshold

LEMMA NewestAreNew ==
  ASSUME NEW past, IsSeq(past), NEW m \in Nat,
         \A i, j \in 1..Len(past) : i # j => past[i].result # past[j].result
  PROVE  /\ DOMAIN Newest(past, m) \subseteq Nat
         /\ \A i, j \in DOMAIN Newest(past, m) :
              i # j => Newest(past, m)[i].result # Newest(past, m)[j].result
<1>1. Len(past) \in Nat /\ DOMAIN past = 1..Len(past)
  BY SeqShape
<1>2. CASE Len(past) > m
  <2>1. Newest(past, m) = Last(past, m) /\ DOMAIN Last(past, m) = 1..m
    BY <1>1, <1>2, LastAt, SeqShape DEF Newest
  <2>2. ASSUME NEW i \in 1..m, NEW j \in 1..m, i # j
        PROVE  Last(past, m)[i].result # Last(past, m)[j].result
    <3>1. Last(past, m)[i] = past[Len(past) - m + i] /\ Last(past, m)[j] = past[Len(past) - m + j]
      BY <1>1, <1>2, LastAt
    <3>2. /\ Len(past) - m + i \in 1..Len(past) /\ Len(past) - m + j \in 1..Len(past)
          /\ Len(past) - m + i # Len(past) - m + j
      BY <1>1, <1>2, <2>2
    <3> QED BY <3>1, <3>2
  <2> QED BY <2>1, <2>2
<1>3. CASE ~(Len(past) > m)
  BY <1>1, <1>3 DEF Newest
<1> QED BY <1>2, <1>3

\* Acts that differ in what came back are no repeated call.
LEMMA NewIsNotRepeated ==
  ASSUME NEW past, IsSeq(past), NEW n \in Nat, n > 1,
         \A i, j \in 1..Len(past) : i # j => past[i].result # past[j].result
  PROVE  ~Repeated(past, n)
<1> SUFFICES ASSUME Repeated(past, n) PROVE FALSE
  OBVIOUS
<1>1. n * RepeatWindow \in Nat
  BY SupervisorAssumption
<1>2. PICK window :
        /\ DOMAIN window \subseteq Nat
        /\ \A i, j \in DOMAIN window : i # j => window[i].result # window[j].result
        /\ \E i \in DOMAIN window :
             Cardinality({j \in DOMAIN window : window[j] = window[i]}) >= n
  <2>1. \E i \in DOMAIN Newest(past, n * RepeatWindow) :
          Cardinality({j \in DOMAIN Newest(past, n * RepeatWindow) :
            Newest(past, n * RepeatWindow)[j] = Newest(past, n * RepeatWindow)[i]}) >= n
    BY DEF Repeated
  <2> QED BY <1>1, <2>1, NewestAreNew
<1>3. PICK i \in DOMAIN window :
        Cardinality({j \in DOMAIN window : window[j] = window[i]}) >= n
  BY <1>2
<1>4. {j \in DOMAIN window : window[j] = window[i]} = {i}
  BY <1>2
<1>5. Cardinality({i}) = 1
  BY FS_Singleton
<1>6. Cardinality({j \in DOMAIN window : window[j] = window[i]}) = 1
  BY <1>4, <1>5, Zenon
<1> QED BY <1>3, <1>6

LEMMA NoRepeatedCall ==
  ASSUME Counted, Marked, New, NEW ss
  PROVE  ~Repetition("repeated_call", ss, floor)
<1> DEFINE past == Since(acts, floor.acts)
           n == Threshold("repeated_call", Repeats)
<1>1. n \in Nat /\ n > 1
  <2>1. Repeats \in Nat /\ Repeats > 1 /\ "repeated_call" \in Signals
    BY SupervisorAssumption DEF Signals
  <2> QED BY <2>1, ThresholdAbove
<1>2. /\ IsSeq(acts) /\ DOMAIN acts = 1..Len(acts) /\ Len(acts) \in Nat
      /\ floor.acts \in Nat /\ floor.acts <= Len(acts)
  BY SeqShape DEF Marked
<1>3. /\ IsSeq(past) /\ Len(past) = Len(acts) - floor.acts
      /\ \A i \in 1..Len(past) : past[i] = acts[floor.acts + i]
  <2>1. IsSeq(past) /\ Len(past) = Len(acts) - floor.acts
    BY <1>2, SinceLength
  <2>2. \A i \in 1..Len(acts) - floor.acts : past[i] = acts[floor.acts + i]
    BY <1>2, SinceAt
  <2> HIDE DEF past
  <2> QED BY <2>1, <2>2
<1> HIDE DEF past, n
<1>4. ASSUME NEW i \in 1..Len(past), NEW j \in 1..Len(past), i # j
      PROVE  past[i].result # past[j].result
  <2>1. /\ floor.acts + i \in DOMAIN acts /\ floor.acts + j \in DOMAIN acts
        /\ floor.acts + i # floor.acts + j
    BY <1>2, <1>3, <1>4
  <2> QED BY <1>3, <2>1 DEF New
<1>5. ~Repeated(past, n)
  BY <1>1, <1>3, <1>4, NewIsNotRepeated
<1> QED BY <1>5 DEF Repetition, past, n

\* The last entry of the last n is the last there is.
LEMMA LastOfSince ==
  ASSUME NEW ss, IsSeq(ss), NEW k \in Nat, k <= Len(ss), NEW n \in Nat, n > 0,
         Len(Since(ss, k)) >= n
  PROVE  /\ Len(ss) \in DOMAIN ss /\ DOMAIN Last(Since(ss, k), n) = 1..n
         /\ \A i \in 1..n : /\ Len(ss) - n + i \in DOMAIN ss
                            /\ Last(Since(ss, k), n)[i] = ss[Len(ss) - n + i]
<1> DEFINE recent == Since(ss, k)
<1>1. /\ Len(ss) \in Nat /\ DOMAIN ss = 1..Len(ss)
      /\ IsSeq(recent) /\ Len(recent) = Len(ss) - k
      /\ \A i \in 1..Len(recent) : recent[i] = ss[k + i]
  BY SeqShape, SinceLength, SinceAt
<1> HIDE DEF recent
<1>2. /\ IsSeq(Last(recent, n)) /\ Len(Last(recent, n)) = n
      /\ \A i \in 1..n : Last(recent, n)[i] = recent[Len(recent) - n + i]
  BY <1>1, LastAt DEF recent
<1>3. DOMAIN Last(recent, n) = 1..n
  BY <1>2, SeqShape
<1>4. ASSUME NEW i \in 1..n
      PROVE  /\ Len(ss) - n + i \in DOMAIN ss
             /\ Last(recent, n)[i] = ss[Len(ss) - n + i]
  <2>1. /\ Len(recent) - n + i \in 1..Len(recent)
        /\ k + (Len(recent) - n + i) = Len(ss) - n + i
        /\ Len(ss) - n + i \in 1..Len(ss)
    BY <1>1 DEF recent
  <2> QED BY <1>1, <1>2, <2>1
<1> QED BY <1>1, <1>3, <1>4 DEF recent

LEMMA NoRejectedReplies ==
  ASSUME Counted, Marked, NEW ss, IsSeq(ss), Len(steps) <= Len(ss),
         \A i \in DOMAIN ss : ss[i].acts # << >>
  PROVE  ~Repetition("rejected_replies", ss, floor)
<1> DEFINE n == Threshold("rejected_replies", Rejections)
           recent == Since(ss, floor.steps)
<1>1. n \in Nat /\ n > 0
  <2>1. Rejections \in Nat /\ Rejections > 0 /\ "rejected_replies" \in Signals
    BY SupervisorAssumption DEF Signals
  <2> QED BY <2>1, ThresholdAbove
<1>2. floor.steps \in Nat /\ floor.steps <= Len(ss)
  BY LenIsNat DEF Marked
<1> SUFFICES ASSUME Repetition("rejected_replies", ss, floor) PROVE FALSE
  OBVIOUS
<1>3. Rejected(recent, n)
  BY DEF Repetition
<1> HIDE DEF n
<1>4. Len(recent) >= n /\ n \in 1..n
  BY <1>1, <1>3 DEF Rejected
<1>5. /\ DOMAIN Last(recent, n) = 1..n
      /\ Len(ss) - n + n \in DOMAIN ss /\ Last(recent, n)[n] = ss[Len(ss) - n + n]
  BY <1>1, <1>2, <1>4, LastOfSince
<1>6. Last(recent, n)[n].acts = << >>
  BY <1>3, <1>4, <1>5 DEF Rejected
<1> QED BY <1>5, <1>6

LEMMA NoFrozenFrontier ==
  ASSUME Counted, Marked, NEW ss, IsSeq(ss), Len(steps) <= Len(ss),
         \A i \in DOMAIN ss : ss[i].reading = NoReading
  PROVE  ~Repetition("frozen_frontier", ss, floor)
<1> DEFINE n == Threshold("frozen_frontier", FrozenSteps)
           recent == Since(ss, floor.steps)
<1>1. n \in Nat /\ n > 0
  <2>1. FrozenSteps \in Nat /\ FrozenSteps > 0 /\ "frozen_frontier" \in Signals
    BY SupervisorAssumption DEF Signals
  <2> QED BY <2>1, ThresholdAbove
<1>2. floor.steps \in Nat /\ floor.steps <= Len(ss)
  BY LenIsNat DEF Marked
<1> SUFFICES ASSUME Repetition("frozen_frontier", ss, floor) PROVE FALSE
  OBVIOUS
<1>3. Frozen(recent, n)
  BY DEF Repetition
<1> HIDE DEF n
<1>4. Len(recent) >= n /\ n \in 1..n
  BY <1>1, <1>3 DEF Frozen
<1>5. Len(ss) - n + n \in DOMAIN ss /\ Last(recent, n)[n] = ss[Len(ss) - n + n]
  BY <1>1, <1>2, <1>4, LastOfSince
<1>6. Last(recent, n)[n].reading # NoReading
  BY <1>3, <1>4 DEF Frozen
<1> QED BY <1>5, <1>6

\* What the last act of a busy step brought is at another place of the history
\* than every act before its step.
LEMMA NoStaleEvidence ==
  ASSUME Counted, Marked, New, NoEcho, NEW ss, IsSeq(ss), Len(steps) <= Len(ss),
         \A i \in DOMAIN ss : ss[i].acts # << >> /\ Kept(ss[i]),
         \A i, k \in DOMAIN ss : i < k => Apart(ss[i], ss[k])
  PROVE  ~Repetition("no_new_evidence", ss, floor)
<1> DEFINE n == Threshold("no_new_evidence", StaleSteps)
           recent == Since(ss, floor.steps)
           before == SubSeq(ss, 1, Len(ss) - n)
<1>1. n \in Nat /\ n > 0
  <2>1. StaleSteps \in Nat /\ StaleSteps > 0 /\ "no_new_evidence" \in Signals
    BY SupervisorAssumption DEF Signals
  <2> QED BY <2>1, ThresholdAbove
<1>2. /\ floor.steps \in Nat /\ floor.steps <= Len(ss)
      /\ Len(ss) \in Nat /\ DOMAIN ss = 1..Len(ss)
  BY SeqShape, LenIsNat DEF Marked
<1> SUFFICES ASSUME Repetition("no_new_evidence", ss, floor) PROVE FALSE
  OBVIOUS
<1>3. Stale(ss, Len(recent), n)
  BY DEF Repetition
<1> HIDE DEF n
<1>4. Len(recent) >= n
  BY <1>3 DEF Stale
<1>5. n <= Len(ss) /\ Len(ss) \in DOMAIN ss
  <2>1. Len(recent) = Len(ss) - floor.steps
    BY <1>2, SinceLength
  <2> HIDE DEF recent
  <2>2. n <= Len(ss)
    BY <1>1, <1>2, <1>4, <2>1
  <2> QED BY <1>1, <1>2, <2>2
<1>6. DOMAIN Last(ss, n) = 1..n /\ Last(ss, n)[n] = ss[Len(ss)]
  BY <1>1, <1>2, <1>5, LastAt, SeqShape
<1>7. /\ DOMAIN before = 1..Len(ss) - n
      /\ \A i \in DOMAIN before : before[i] = ss[i] /\ i \in DOMAIN ss /\ i < Len(ss)
  <2>1. PICK S : ss \in Seq(S)
    BY DEF IsSeq
  <2> QED BY <1>1, <1>2, <1>5, <2>1
<1> HIDE DEF before
<1> DEFINE old == UNION {{before[i].acts[j] : j \in DOMAIN before[i].acts} :
                         i \in DOMAIN before}
<1>8. 1 \in DOMAIN ss[Len(ss)].acts
  <2>1. IsSeq(ss[Len(ss)].acts) /\ ss[Len(ss)].acts # << >>
    BY <1>5 DEF Kept
  <2> QED BY <2>1, SeqShape
<1>9. ss[Len(ss)].acts[1].result \in UNION {{a.call, a.result} : a \in old}
  <2>1. n \in DOMAIN Last(ss, n) /\ 1 \in DOMAIN Last(ss, n)[n].acts
    BY <1>1, <1>6, <1>8
  <2>2. {Last(ss, n)[n].acts[1].call, Last(ss, n)[n].acts[1].result}
          \subseteq UNION {{a.call, a.result} : a \in old}
    BY <1>3, <2>1 DEF Stale, before
  <2> QED BY <1>6, <2>2
<1>10. PICK i \in DOMAIN before : \E j \in DOMAIN before[i].acts :
          ss[Len(ss)].acts[1].result \in {before[i].acts[j].call, before[i].acts[j].result}
  BY <1>9
<1>13. PICK j \in DOMAIN before[i].acts :
          ss[Len(ss)].acts[1].result \in {before[i].acts[j].call, before[i].acts[j].result}
  BY <1>10
<1>11. Apart(ss[i], ss[Len(ss)]) /\ j \in DOMAIN ss[i].acts
  BY <1>5, <1>7, <1>13
<1>12. PICK k, l \in DOMAIN acts :
         k # l /\ acts[k] = ss[i].acts[j] /\ acts[l] = ss[Len(ss)].acts[1]
  BY <1>8, <1>11 DEF Apart
<1> QED BY <1>7, <1>12, <1>13 DEF New, NoEcho

-----------------------------------------------------------------------------
LEMMA OnlyAlternationFires ==
  ASSUME Counted, Marked, Placed', acts' = acts, IsSeq(steps'),
         Len(steps) <= Len(steps'), Polls', NEW i \in DOMAIN Order,
         Fires(steps', i)
  PROVE  Order[i] = "oscillation"
<1>1. New /\ NoEcho
  BY DEF Polls, New, NoEcho
<1>2. /\ \A k \in DOMAIN steps' : steps'[k].acts # << >> /\ Kept(steps'[k])
      /\ \A k \in DOMAIN steps' : steps'[k].reading = NoReading
  BY DEF Polls, Busy, CognitionOff, Placed, Kept
<1>3. \A k, l \in DOMAIN steps' : k < l => Apart(steps'[k], steps'[l])
  BY DEF Placed, Apart
<1>4. Repetition(Order[i], steps', floor)
  BY DEF Fires
<1>5. /\ Order[i] # "repeated_call" /\ Order[i] # "rejected_replies"
      /\ Order[i] # "frozen_frontier"
  BY <1>1, <1>2, <1>4, NoRepeatedCall, NoRejectedReplies, NoFrozenFrontier
<1>6. Order[i] # "no_new_evidence"
  BY <1>1, <1>2, <1>3, <1>4, NoStaleEvidence
<1> QED BY <1>5, <1>6 DEF Order

\* What a run that polls is now, it has been all along.
LEMMA PollsBefore ==
  ASSUME Counted, Marked, Polls', gates' \in {gates, gates + 1},
         \/ steps' = steps
         \/ \E e : steps' = Append(steps, e),
         \/ acts' = acts
         \/ \E a : acts' = Append(acts, a)
  PROVE  Polls
<1>1. /\ DOMAIN steps \subseteq DOMAIN steps'
      /\ \A i \in DOMAIN steps : steps'[i] = steps[i]
  BY ExtendedAt DEF Marked
<1>2. DOMAIN acts \subseteq DOMAIN acts' /\ \A i \in DOMAIN acts : acts'[i] = acts[i]
  BY ExtendedAt DEF Marked
<1>3. gates = 0
  BY DEF Polls, Counted
<1>4. CognitionOff /\ Busy
  BY <1>1 DEF Polls, CognitionOff, Busy
<1>5. New /\ NoEcho
  BY <1>2 DEF Polls, New, NoEcho
<1> QED BY <1>3, <1>4, <1>5 DEF Polls

LeftAlone == Polls /\ review # NoReview => review.signal = "oscillation"

LEMMA LeftAloneStep ==
  ASSUME Counted, Marked, Placed, LeftAlone, [Next]_vars
  PROVE  LeftAlone'
<1>0. Placed'
  BY PlacedStep
<1>1. ASSUME NEW a, SawCall(a) PROVE LeftAlone'
  <2>1. Polls' => Polls
    BY <1>1, PollsBefore DEF SawCall
  <2> QED BY <1>1, <2>1 DEF SawCall, LeftAlone
<1>2. CASE SawRejection
  <2>1. Polls' => Polls
    BY <1>2, PollsBefore DEF SawRejection
  <2> QED BY <1>2, <2>1 DEF SawRejection, LeftAlone
<1>3. CASE Works
  BY <1>1, <1>2, <1>3 DEF Works
<1>4. ASSUME NEW reading \in Readings, Look(reading), Polls', review' # NoReview
      PROVE  review'.signal = "oscillation"
  <2>1. /\ steps' = Closed(reading) /\ acts' = acts /\ gates' = gates
    BY <1>4 DEF Look
  <2>2. IsSeq(steps') /\ Len(steps) <= Len(steps')
    BY <2>1, ClosedGrows DEF Marked
  <2>3. Polls
    BY <1>4, <2>1, PollsBefore DEF Closed
  <2>4. CASE UNCHANGED review
    BY <1>4, <2>3, <2>4 DEF LeftAlone
  <2>5. ASSUME NEW i \in DOMAIN Order, Fires(steps', i),
               Reviewed(Order[i], LookMenu(Order[i]), steps')
        PROVE  review'.signal = "oscillation"
    <3>1. Order[i] = "oscillation"
      BY <1>0, <1>4, <2>1, <2>2, <2>5, OnlyAlternationFires
    <3>2. review' = review \/ review'.signal = Order[i]
      BY <2>5 DEF Reviewed, OutOfReviews, Ask
    <3> QED BY <1>4, <2>4, <3>1, <3>2
  <2> QED BY <1>4, <2>4, <2>5 DEF Look
<1>5. ASSUME gates' = gates + 1 PROVE LeftAlone'
  BY <1>5 DEF LeftAlone, Polls, Counted
<1>6. CASE UNCHANGED vars
  BY <1>6 DEF vars, LeftAlone, Polls, CognitionOff, Busy, New, NoEcho
<1> QED
  BY <1>3, <1>4, <1>5, <1>6 DEF Next, ReviewGate, NextChild, LeftAlone

\* A run whose every step brings a result it had not seen is going somewhere:
\* with cognition off it is reviewed for an alternation of its calls and for
\* nothing else (_signal of supervisor.py), whatever the thresholds, windows
\* and verdicts.  The code looks a result up among the digests of calls too,
\* so the results are taken not to be digests of calls.
THEOREM PollingLeftAlone == Spec => [](NoEcho => PollingIsLeftAlone)
<1>1. Init => LeftAlone
  BY DEF Init, LeftAlone
<1>2. Counted /\ Marked /\ Placed /\ LeftAlone /\ [Next]_vars => LeftAlone'
  BY LeftAloneStep
<1>3. LeftAlone => (NoEcho => PollingIsLeftAlone)
  BY DEF LeftAlone, Polls, PollingIsLeftAlone, Busy, New
<1> QED
  BY <1>1, <1>2, <1>3, SupervisorStart, SupervisorStep, PlacedStart, PlacedStep,
     PTL DEF Spec

-----------------------------------------------------------------------------
(* A run that goes round a pattern and brings nothing new. *)

LEMMA RestAndQuotient ==
  ASSUME NEW x \in Nat, NEW n \in Nat, n > 0
  PROVE  x % n \in 0..(n - 1) /\ (x < n => x % n = x)
  OBVIOUS

\* Of a number and the next one, one is even.
LEMMA HalfIsWhole ==
  ASSUME NEW m \in Nat
  PROVE  2 * ((m * (m + 1)) \div 2) = m * (m + 1)
<1>1. PICK q \in Nat : m = 2 * q \/ m = 2 * q + 1
  <2>1. m \div 2 \in Nat /\ (m = 2 * (m \div 2) \/ m = 2 * (m \div 2) + 1)
    OBVIOUS
  <2> QED BY <2>1
<1>2. PICK h \in Nat : m * (m + 1) = 2 * h
  <2>1. CASE m = 2 * q
    <3>1. /\ m * (m + 1) = 2 * (q * (2 * q + 1))
          /\ q * (2 * q + 1) \in Nat
      BY <2>1
    <3> QED BY <3>1
  <2>2. CASE m = 2 * q + 1
    <3>1. /\ m * (m + 1) = 2 * ((2 * q + 1) * (q + 1))
          /\ (2 * q + 1) * (q + 1) \in Nat
      BY <2>2
    <3> QED BY <3>1
  <2> QED BY <1>1, <2>1, <2>2
<1>3. (2 * h) \div 2 = h
  OBVIOUS
<1> QED BY <1>2, <1>3

\* Two steps with the same acts.
Alike(s, t) == DOMAIN s = DOMAIN t /\ \A m \in DOMAIN s : s[m] = t[m]

\* What a run in a pattern has done, whatever its reviews said: the open step
\* is the beginning of its turn in the pattern, a closed step is one of the
\* pattern's, and the first of them are the pattern once.
InPattern ==
  /\ loop \in Loops
  /\ (~Free /\ gates = 0) =>
        /\ Len(open.acts) <= Len(Turn)
        /\ \A j \in DOMAIN open.acts : open.acts[j] = Turn[j]
        /\ \A k \in DOMAIN steps :
              /\ \E j \in DOMAIN loop : Alike(steps[k].acts, loop[j])
              /\ k <= Len(loop) => Alike(steps[k].acts, loop[k])

\* The turn a pattern is at is one of its steps, and in its first round they
\* come in order.
LEMMA TurnIsOfLoop ==
  ASSUME loop \in Loops, ~Free, IsSeq(steps)
  PROVE  /\ IsSeq(loop) /\ Len(loop) \in Nat /\ Len(loop) > 0
         /\ DOMAIN loop = 1..Len(loop) /\ Len(steps) \in Nat
         /\ (Len(steps) % Len(loop)) + 1 \in DOMAIN loop
         /\ Len(steps) < Len(loop)
               => (Len(steps) % Len(loop)) + 1 = Len(steps) + 1
         /\ IsSeq(Turn) /\ Len(Turn) \in Nat
<1>1. IsSeq(loop) /\ \A i \in DOMAIN loop : IsSeq(loop[i])
  BY SupervisorAssumption DEF IsSeq
<1>2. /\ Len(loop) \in Nat /\ Len(loop) > 0 /\ DOMAIN loop = 1..Len(loop)
      /\ Len(steps) \in Nat
  BY <1>1, SeqShape DEF Free
<1> DEFINE r == Len(steps) % Len(loop)
<1>3. r \in 0..(Len(loop) - 1) /\ (Len(steps) < Len(loop) => r = Len(steps))
  BY <1>2, RestAndQuotient
<1>4. Turn = loop[r + 1]
  BY DEF Turn
<1> HIDE DEF r
<1>5. r + 1 \in DOMAIN loop
  BY <1>2, <1>3
<1>6. IsSeq(Turn) /\ Len(Turn) \in Nat
  BY <1>1, <1>4, <1>5, LenIsNat
<1> QED BY <1>1, <1>2, <1>3, <1>5, <1>6 DEF r

LEMMA InPatternStart == Init => InPattern
<1> SUFFICES ASSUME Init PROVE InPattern
  OBVIOUS
<1>1. /\ loop \in Loops /\ open.acts = << >> /\ steps = << >>
  BY DEF Init, Empty
<1>2. ~Free => Len(Turn) \in Nat
  BY <1>1, EmptyIsSeq, TurnIsOfLoop
<1> QED BY <1>1, <1>2, EmptyIsSeq DEF InPattern

\* A boundary of such a run closes a step: the turn it is at is done.
LEMMA LookAppends ==
  ASSUME Marked, Placed, InPattern, ~Free, NEW reading, Look(reading)
  PROVE  Closed(reading) = Append(steps, [acts |-> open.acts,
                              rejections |-> open.rejections,
                              reading |-> reading])
<1>1. TurnIsDone /\ IsSeq(open.acts)
  BY DEF Look, Placed, Kept
<1>2. open # Empty
  <2>1. CASE Turn = << >>
    BY <1>1, <2>1 DEF TurnIsDone
  <2>2. CASE Turn # << >>
    <3>1. Len(open.acts) = Len(Turn) /\ IsSeq(Turn)
      BY <1>1, TurnIsOfLoop DEF TurnIsDone, InPattern, Marked
    <3>2. Len(open.acts) # 0
      BY <2>2, <3>1, SeqShape
    <3> QED BY <3>2, EmptyIsSeq DEF Empty
  <2> QED BY <2>1, <2>2
<1> QED BY <1>2 DEF Closed

\* Every step keeps to the pattern.
LEMMA InPatternStep ==
  ASSUME Counted, Marked, Placed, InPattern, [Next]_vars
  PROVE  InPattern'
<1>0. /\ IsSeq(steps) /\ IsSeq(open.acts) /\ gates \in Nat
      /\ DOMAIN open.acts = 1..Len(open.acts) /\ Len(open.acts) \in Nat
  BY SeqShape DEF Counted, Marked, Placed, Kept
<1>1. CASE Works /\ ~Free
  <2>1. CASE SawRejection
    <3>1. UNCHANGED <<loop, steps, gates>> /\ open'.acts = open.acts
      BY <2>1 DEF SawRejection, Placed
    <3> QED BY <3>1 DEF InPattern, Free, Turn
  <2>2. CASE SawCall(Turn[Len(open.acts) + 1]) /\ ~TurnIsDone /\ Turn # << >>
    <3>1. /\ UNCHANGED <<loop, steps, gates>>
          /\ open'.acts = Append(open.acts, Turn[Len(open.acts) + 1])
      BY <2>2 DEF SawCall, Placed
    <3>2. /\ DOMAIN open'.acts = 1..Len(open.acts) + 1
          /\ \A j \in DOMAIN open.acts : open'.acts[j] = open.acts[j]
          /\ open'.acts[Len(open.acts) + 1] = Turn[Len(open.acts) + 1]
          /\ Len(open'.acts) = Len(open.acts) + 1
      BY <1>0, <3>1, AppendAt, AppendIsSeq
    <3>3. ASSUME gates = 0
          PROVE  Len(open.acts) + 1 <= Len(Turn)
      <4>1. Len(open.acts) # Len(Turn)
        BY <2>2 DEF TurnIsDone
      <4>2. Len(Turn) \in Nat
        BY <1>0, <1>1, TurnIsOfLoop DEF InPattern
      <4> QED BY <1>0, <1>1, <3>3, <4>1, <4>2 DEF InPattern
    <3>4. \A j \in DOMAIN open'.acts :
             j \in DOMAIN open.acts \/ j = Len(open.acts) + 1
      BY <1>0, <3>2
    <3>5. Turn' = Turn /\ (Free' <=> Free)
      BY <3>1 DEF Turn, Free
    <3> QED BY <3>1, <3>2, <3>3, <3>4, <3>5 DEF InPattern
  <2> QED BY <1>1, <2>1, <2>2 DEF Works
<1>2. CASE Works /\ Free
  BY <1>2 DEF Works, SawCall, SawRejection, Free, InPattern
<1>3. ASSUME NEW reading \in Readings, Look(reading)
      PROVE  InPattern'
  <2>1. /\ UNCHANGED <<loop, gates>> /\ steps' = Closed(reading)
        /\ open' = Empty
    BY <1>3 DEF Look
  <2> SUFFICES ASSUME ~Free, gates = 0
               PROVE  /\ Len(open'.acts) <= Len(Turn')
                      /\ \A j \in DOMAIN open'.acts : open'.acts[j] = Turn'[j]
                      /\ \A k \in DOMAIN steps' :
                            /\ \E j \in DOMAIN loop :
                                  Alike(steps'[k].acts, loop[j])
                            /\ k <= Len(loop) => Alike(steps'[k].acts, loop[k])
    BY <2>1 DEF InPattern, Free
  <2>2. open'.acts = << >> /\ Len(open'.acts) = 0 /\ DOMAIN open'.acts = {}
    BY <2>1, EmptyIsSeq DEF Empty
  <2>3. Len(Turn') \in Nat
    <3>1. IsSeq(steps')
      BY <1>0, <2>1, ClosedGrows
    <3>2. loop' \in Loops /\ ~Free'
      BY <2>1 DEF InPattern, Free
    <3>3. IsSeq(loop') /\ \A i \in DOMAIN loop' : IsSeq(loop'[i])
      BY <3>2, SupervisorAssumption DEF IsSeq
    <3>4. Len(loop') \in Nat /\ Len(loop') > 0 /\ DOMAIN loop' = 1..Len(loop')
      BY <3>2, <3>3, SeqShape DEF Free
    <3>5. Len(steps') \in Nat
      BY <3>1, LenIsNat
    <3>6. (Len(steps') % Len(loop')) + 1 \in DOMAIN loop'
      <4>1. Len(steps') % Len(loop') \in 0..(Len(loop') - 1)
        BY <3>4, <3>5, RestAndQuotient
      <4> QED BY <3>4, <4>1
    <3> QED BY <3>3, <3>6, LenIsNat DEF Turn
  <2>4. TurnIsDone
    BY <1>3 DEF Look
  <2>5. Closed(reading) = Append(steps, [acts |-> open.acts,
                             rejections |-> open.rejections, reading |-> reading])
    BY <1>3, LookAppends
  <2> DEFINE n == Len(steps) + 1
             j == (Len(steps) % Len(loop)) + 1
  <2>6. /\ DOMAIN steps = 1..Len(steps) /\ DOMAIN steps' = 1..Len(steps) + 1
        /\ \A k \in DOMAIN steps : steps'[k] = steps[k]
        /\ steps'[n].acts = open.acts
    BY <1>0, <2>1, <2>5, AppendAt, SeqShape
  <2>7. /\ Len(loop) \in Nat /\ DOMAIN loop = 1..Len(loop)
        /\ Len(steps) \in Nat /\ j \in DOMAIN loop
        /\ Len(steps) < Len(loop) => j = n
        /\ IsSeq(Turn) /\ Turn = loop[j]
    BY <1>0, TurnIsOfLoop DEF InPattern, Turn
  <2>8. Alike(open.acts, loop[j])
    <3>1. Len(open.acts) = Len(Turn)
      BY <2>4 DEF TurnIsDone
    <3>2. DOMAIN open.acts = DOMAIN Turn
      BY <1>0, <2>7, <3>1, SeqShape
    <3>3. \A m \in DOMAIN open.acts : open.acts[m] = Turn[m]
      BY DEF InPattern
    <3> QED BY <2>7, <3>2, <3>3 DEF Alike
  <2> HIDE DEF j, n
  <2>9. ASSUME NEW k \in DOMAIN steps'
        PROVE  /\ \E i \in DOMAIN loop : Alike(steps'[k].acts, loop[i])
               /\ k <= Len(loop) => Alike(steps'[k].acts, loop[k])
    <3>1. k \in DOMAIN steps \/ k = n
      BY <2>6, <2>7 DEF n
    <3>2. CASE k \in DOMAIN steps
      BY <2>6, <3>2 DEF InPattern
    <3>3. CASE k = n
      <4>1. n <= Len(loop) => j = n
        BY <2>7 DEF n
      <4> QED BY <2>6, <2>7, <2>8, <3>3, <4>1
    <3> QED BY <3>1, <3>2, <3>3
  <2> QED BY <2>2, <2>3, <2>9
<1>4. CASE ReviewGate \/ NextChild
  <2>1. UNCHANGED loop /\ gates' # 0
    BY <1>0, <1>4 DEF ReviewGate, NextChild
  <2> QED BY <2>1 DEF InPattern
<1>5. CASE UNCHANGED vars
  BY <1>5 DEF vars, InPattern, Free, Turn
<1> QED BY <1>1, <1>2, <1>3, <1>4, <1>5 DEF Next

\* Once the pattern has been gone round, every act of it has been seen, and
\* as many steps as the threshold are stale.
LEMMA PatternGoesStale ==
  ASSUME loop \in Loops, ~Free, NEW ss, IsSeq(ss), NEW n \in Nat, n > 0,
         NEW since, since >= n, Len(ss) >= Len(loop) + n,
         \A k \in DOMAIN ss :
            /\ \E j \in DOMAIN loop : Alike(ss[k].acts, loop[j])
            /\ k <= Len(loop) => Alike(ss[k].acts, loop[k])
  PROVE  Stale(ss, since, n)
<1> DEFINE before == SubSeq(ss, 1, Len(ss) - n)
           old == UNION {{before[i].acts[j] : j \in DOMAIN before[i].acts} :
                         i \in DOMAIN before}
           seen == UNION {{a.call, a.result} : a \in old}
<1>1. /\ Len(loop) \in Nat /\ DOMAIN loop = 1..Len(loop)
  BY EmptyIsSeq, SupervisorAssumption, SeqShape DEF IsSeq
<1>2. Len(ss) \in Nat /\ DOMAIN ss = 1..Len(ss) /\ n <= Len(ss)
  BY <1>1, SeqShape
<1>3. /\ DOMAIN before = 1..Len(ss) - n
      /\ \A i \in DOMAIN before : before[i] = ss[i] /\ i \in DOMAIN ss
  <2>1. PICK S : ss \in Seq(S)
    BY DEF IsSeq
  <2> QED BY <1>2, <2>1
<1>4. /\ DOMAIN Last(ss, n) = 1..n
      /\ \A i \in 1..n : Last(ss, n)[i] = ss[Len(ss) - n + i]
  BY <1>2, LastAt, SeqShape
<1> HIDE DEF before
<1>5. ASSUME NEW i \in DOMAIN Last(ss, n), NEW j \in DOMAIN Last(ss, n)[i].acts
      PROVE  Last(ss, n)[i].acts[j] \in old
  <2>1. PICK k \in DOMAIN ss : Last(ss, n)[i] = ss[k]
    <3>1. Len(ss) - n + i \in DOMAIN ss
      BY <1>2, <1>4
    <3> QED BY <1>4, <3>1
  <2>2. PICK q \in DOMAIN loop : Alike(ss[k].acts, loop[q])
    OBVIOUS
  <2>3. q \in DOMAIN before /\ q <= Len(loop)
    BY <1>1, <1>2, <1>3
  <2>4. Alike(ss[q].acts, loop[q]) /\ before[q] = ss[q]
    BY <1>3, <2>3
  <2>5. j \in DOMAIN before[q].acts
        /\ before[q].acts[j] = Last(ss, n)[i].acts[j]
    BY <2>1, <2>2, <2>4 DEF Alike
  <2> QED BY <2>3, <2>5
<1>6. \A i \in DOMAIN Last(ss, n) : \A j \in DOMAIN Last(ss, n)[i].acts :
         {Last(ss, n)[i].acts[j].call, Last(ss, n)[i].acts[j].result}
            \subseteq seen
  BY <1>5
<1> QED BY <1>6 DEF Stale, before

\* How far the steps have got: the last review, or the end of the first round.
Furthest == IF floor.steps > Len(loop) THEN floor.steps ELSE Len(loop)

\* How long the run has been left to go on, with so many reviews behind it and
\* the threshold raised so often.
Rising ==
  (~Free /\ CognitionOff /\ gates = 0 /\ ~over) =>
     /\ refunded["frozen_frontier"] = 0
     /\ raised["no_new_evidence"] <= asked
     /\ Len(steps) < Furthest + Threshold("no_new_evidence", StaleSteps)
     /\ 2 * Furthest <= 2 * Len(loop) + StaleSteps * (asked * (asked + 1))

\* One more threshold, raised no more often than there were reviews.
LEMMA OneMoreRound ==
  ASSUME NEW l \in Nat, NEW s \in Nat, NEW r \in Nat, NEW a \in Nat,
         NEW f \in Nat, NEW g \in Nat, r <= a,
         2 * f <= 2 * l + s * (a * (a + 1)), g <= f + s * (1 + r)
  PROVE  2 * g <= 2 * l + s * ((a + 1) * (a + 2))
<1>1. PICK d \in Nat : a = r + d
  <2>1. a - r \in Nat /\ a = r + (a - r)
    OBVIOUS
  <2> QED BY <2>1
<1>2. s * (1 + a) = s * (1 + r) + s * d /\ s * d \in Nat
  BY <1>1
<1>3. s * ((a + 1) * (a + 2)) = s * (a * (a + 1)) + 2 * (s * (1 + a))
  OBVIOUS
<1> DEFINE x == s * (1 + r)
           y == s * (1 + a)
           v == s * (a * (a + 1))
           z == s * ((a + 1) * (a + 2))
<1>4. x \in Nat /\ y \in Nat /\ v \in Nat /\ z \in Nat
  OBVIOUS
<1>5. x <= y
  BY <1>2, <1>4
<1> HIDE DEF x, y, v, z
<1>6. 2 * g <= 2 * l + z
  BY <1>3, <1>4, <1>5 DEF x, y, v, z
<1> QED BY <1>6 DEF z

LEMMA RisingStart == Init => Rising
<1> SUFFICES ASSUME Init, ~Free PROVE Rising
  BY DEF Rising
<1>1. loop \in Loops /\ steps = << >> /\ asked = 0 /\ floor.steps = 0
  BY DEF Init
<1>2. IsSeq(loop) /\ Len(loop) \in Nat /\ Len(loop) > 0 /\ Len(steps) = 0
  BY <1>1, EmptyIsSeq, TurnIsOfLoop
<1>3. Furthest = Len(loop)
  BY <1>1, <1>2 DEF Furthest
<1>4. /\ refunded["frozen_frontier"] = 0 /\ raised["no_new_evidence"] = 0
  BY DEF Init, Signals
<1>5. StaleSteps \in Nat /\ StaleSteps * 1 = StaleSteps
      /\ StaleSteps * (0 * (0 + 1)) = 0
  BY SupervisorAssumption
<1>6. Threshold("no_new_evidence", StaleSteps) = StaleSteps
  BY <1>4, <1>5 DEF Threshold
<1> QED BY <1>1, <1>2, <1>3, <1>4, <1>5, <1>6 DEF Rising

LEMMA RisingLook ==
  ASSUME Counted, Marked, Placed, InPattern, InPattern', Rising,
         NEW reading \in Readings, Look(reading)
  PROVE  Rising'
<1>1. /\ UNCHANGED <<loop, gates, acts>> /\ steps' = Closed(reading) /\ ~over
  BY DEF Look
<1> SUFFICES ASSUME ~Free, CognitionOff', gates = 0, ~over'
             PROVE  /\ refunded'["frozen_frontier"] = 0
                    /\ raised'["no_new_evidence"] <= asked'
                    /\ Len(steps')
                         < Furthest' + Threshold("no_new_evidence", StaleSteps)'
                    /\ 2 * Furthest' <= 2 * Len(loop)
                                        + StaleSteps * (asked' * (asked' + 1))
  BY <1>1 DEF Rising, Free
<1> DEFINE n == Threshold("no_new_evidence", StaleSteps)
           r == raised["no_new_evidence"]
<1>2. /\ IsSeq(steps') /\ Len(steps') = Len(steps) + 1
      /\ DOMAIN steps \subseteq DOMAIN steps'
      /\ \A i \in DOMAIN steps : steps'[i] = steps[i]
      /\ Len(steps) \in Nat /\ Len(steps') \in Nat
  <2>1. IsSeq(steps) /\ \E e : steps' = Append(steps, e)
    BY <1>1, LookAppends DEF Marked
  <2> QED BY <2>1, AppendIsSeq, ExtendedAt, LenIsNat
<1>3. CognitionOff
  BY <1>2 DEF CognitionOff
<1>4. /\ refunded["frozen_frontier"] = 0 /\ r <= asked
      /\ Len(steps) < Furthest + n
      /\ 2 * Furthest <= 2 * Len(loop) + StaleSteps * (asked * (asked + 1))
  BY <1>1, <1>3 DEF Rising
<1>5. /\ StaleSteps \in Nat /\ StaleSteps > 0 /\ r \in Nat /\ asked \in Nat
      /\ n \in Nat /\ n >= StaleSteps /\ n = StaleSteps * (1 + r)
  <2>1. "no_new_evidence" \in Signals /\ StaleSteps \in Nat /\ StaleSteps > 0
    BY SupervisorAssumption DEF Signals
  <2> QED BY <2>1, ThresholdAbove DEF Counted, Threshold
<1>6. /\ Len(loop) \in Nat /\ floor.steps \in Nat
      /\ Furthest \in Nat /\ floor.steps <= Furthest /\ Len(loop) <= Furthest
      /\ Furthest \in {floor.steps, Len(loop)}
      /\ floor.steps <= Len(steps) /\ answered.steps <= Len(steps)
      /\ answered.steps \in Nat
  BY <1>2, TurnIsOfLoop DEF InPattern, Marked, Furthest
<1> HIDE DEF n, r
<1>7. Len(steps') <= Furthest + n
  BY <1>2, <1>4, <1>5, <1>6
<1>8. CASE Quiet(steps') /\ UNCHANGED <<floor, raised, refunded, asked>>
  <2>1. ~Stale(steps', Len(Since(steps', floor.steps)), n)
    <3>1. 4 \in DOMAIN Order /\ Order[4] = "no_new_evidence"
      BY DEF Order
    <3>2. ~Repetition("no_new_evidence", steps', floor)
      BY <1>8, <3>1 DEF Quiet
    <3> QED BY <3>2 DEF Repetition, n
  <2>2. Len(Since(steps', floor.steps)) = Len(steps') - floor.steps
    <3>1. floor.steps \in Nat /\ floor.steps <= Len(steps') /\ IsSeq(steps')
      BY <1>2, <1>6
    <3> DEFINE s == steps'
    <3>2. floor.steps \in Nat /\ floor.steps <= Len(s) /\ IsSeq(s)
      BY <3>1
    <3> HIDE DEF s
    <3>3. Len(Since(s, floor.steps)) = Len(s) - floor.steps
      BY <3>2, SinceLength
    <3> QED BY <3>3 DEF s
  <2>3. \A k \in DOMAIN steps' :
           /\ \E j \in DOMAIN loop : Alike(steps'[k].acts, loop[j])
           /\ k <= Len(loop) => Alike(steps'[k].acts, loop[k])
    BY <1>1 DEF InPattern, Free
  <2>4. Len(steps') # Furthest + n
    <3>1. SUFFICES ASSUME Len(steps') = Furthest + n
                   PROVE  FALSE
      OBVIOUS
    <3>2. /\ Len(steps') - floor.steps >= n /\ n > 0
          /\ Len(steps') >= Len(loop) + n
      BY <1>2, <1>5, <1>6, <3>1
    <3> QED BY <1>2, <1>5, <2>1, <2>2, <2>3, <3>2, PatternGoesStale
            DEF InPattern
  <2>5. Len(steps') < Furthest + n
    BY <1>2, <1>5, <1>6, <1>7, <2>4
  <2>6. Furthest' = Furthest /\ Threshold("no_new_evidence", StaleSteps)' = n
    BY <1>1, <1>8 DEF Furthest, Threshold, n
  <2> QED BY <1>4, <1>8, <2>5, <2>6 DEF r
<1>9. ASSUME NEW i \in DOMAIN Order, Fires(steps', i),
             Reviewed(Order[i], LookMenu(Order[i]), steps')
      PROVE  /\ refunded'["frozen_frontier"] = 0
             /\ raised'["no_new_evidence"] <= asked'
             /\ Len(steps')
                  < Furthest' + Threshold("no_new_evidence", StaleSteps)'
             /\ 2 * Furthest' <= 2 * Len(loop)
                                 + StaleSteps * (asked' * (asked' + 1))
  <2>1. Order[i] \in Signals \ {"frozen_frontier"}
    <3>1. \A k \in DOMAIN steps' : steps'[k].reading = NoReading
      BY DEF CognitionOff
    <3>2. ~Repetition("frozen_frontier", steps', floor)
      BY <1>2, <3>1, NoFrozenFrontier
    <3> QED BY <1>9, <3>2, OrderIsSignals DEF Fires
  <2>2. ~OutOfReviews(Order[i], steps')
    <3>1. SUFFICES ASSUME OutOfReviews(Order[i], steps')
                   PROVE  FALSE
      OBVIOUS
    <3>2. /\ review' = [signal |-> Order[i], verdict |-> "stuck"]
          /\ answered' = Mark(steps')
      BY <2>1, <3>1 DEF OutOfReviews, NeverWindsUp
    <3>3. answered'.steps = Len(steps')
      BY <3>2 DEF Mark
    <3>4. answered' # answered
      BY <1>2, <1>6, <3>3
    <3> QED BY <3>2, <3>4 DEF Look
  <2>3. Ask(Order[i], LookMenu(Order[i]), steps')
    BY <1>9, <2>2 DEF Reviewed
  <2>4. /\ asked' = asked + 1 /\ floor'.steps = Len(steps')
        /\ \/ raised' = raised
           \/ raised' = [raised EXCEPT ![Order[i]] = @ + 1]
        /\ \/ refunded' = refunded
           \/ refunded' = [refunded EXCEPT ![Order[i]] = @ + 1]
    BY <2>3 DEF Ask, MoveFloor, Mark
  <2>5. /\ raised'["no_new_evidence"] \in {r, r + 1}
        /\ refunded'["frozen_frontier"] = 0
    <3>1. {"no_new_evidence", "frozen_frontier"} \subseteq Signals
      BY DEF Signals
    <3> QED BY <1>4, <2>1, <2>4, <3>1 DEF Counted, r
  <2>6. raised'["no_new_evidence"] \in Nat
        /\ raised'["no_new_evidence"] <= asked'
    BY <1>4, <1>5, <2>4, <2>5
  <2>7. Threshold("no_new_evidence", StaleSteps)' >= StaleSteps
        /\ Threshold("no_new_evidence", StaleSteps)' \in Nat
    BY <1>5, <2>6, ThresholdRises DEF Threshold
  <2>8. /\ Furthest' \in Nat /\ Len(steps') <= Furthest'
        /\ Furthest' \in {Len(steps'), Len(loop)}
    BY <1>1, <1>2, <1>6, <2>4 DEF Furthest
  <2>9. Furthest' <= Furthest + StaleSteps * (1 + r)
    BY <1>5, <1>6, <1>7, <2>8
  <2>10. 2 * Furthest' <= 2 * Len(loop)
                          + StaleSteps * ((asked + 1) * (asked + 2))
    BY <1>4, <1>5, <1>6, <2>8, <2>9, OneMoreRound
  <2>11. asked' * (asked' + 1) = (asked + 1) * (asked + 2)
    <3>1. asked' + 1 = asked + 2
      BY <1>5, <2>4
    <3> QED BY <2>4, <3>1
  <2>12. Len(steps') < Furthest' + Threshold("no_new_evidence", StaleSteps)'
    BY <1>2, <1>5, <2>7, <2>8
  <2> QED BY <2>5, <2>6, <2>10, <2>11, <2>12
<1> QED BY <1>8, <1>9 DEF Look

LEMMA RisingStep ==
  ASSUME Counted, Marked, Placed, InPattern, Rising, [Next]_vars
  PROVE  Rising'
<1>1. ASSUME \/ \E a : SawCall(a)
             \/ SawRejection
             \/ UNCHANGED vars
      PROVE  Rising'
  <2>1. UNCHANGED <<loop, steps, gates, over, refunded, raised, asked, floor>>
    BY <1>1 DEF SawCall, SawRejection, vars
  <2> QED BY <2>1 DEF Rising, Free, CognitionOff, Furthest, Threshold
<1>2. CASE Works
  BY <1>1, <1>2 DEF Works
<1>3. ASSUME NEW reading \in Readings, Look(reading)
      PROVE  Rising'
  BY <1>3, InPatternStep, RisingLook
<1>4. CASE ReviewGate \/ NextChild
  <2>1. gates' # 0
    BY <1>4 DEF ReviewGate, NextChild, Counted
  <2> QED BY <2>1 DEF Rising
<1> QED BY <1>1, <1>2, <1>3, <1>4 DEF Next

\* A run that goes round a pattern for ever and brings nothing new is wound up
\* whatever its reviews say, once the pattern has been gone round and the
\* reviews that may say progressing have each had their threshold (_signal,
\* _review and the refunds of supervisor.py): for every pattern and every
\* threshold and budget.
THEOREM LoopsAreWoundUp == Spec => []LoopIsWoundUp
<1>1. Counted /\ Marked /\ InPattern /\ Rising => LoopIsWoundUp
  <2> SUFFICES ASSUME Counted, Marked, InPattern, Rising,
                      ~Free, CognitionOff, gates = 0, ~over,
                      Len(steps) >= LoopBound
               PROVE  FALSE
    BY DEF LoopIsWoundUp, Counted
  <2> DEFINE most == MaxReviews + ReviewRefunds
             r == raised["no_new_evidence"]
             g == Furthest + StaleSteps * (1 + r)
  <2>1. /\ refunded["frozen_frontier"] = 0 /\ r <= asked
        /\ Len(steps) < g
        /\ 2 * Furthest <= 2 * Len(loop) + StaleSteps * (asked * (asked + 1))
    BY DEF Rising, Threshold
  <2>2. /\ MaxReviews \in Nat /\ ReviewRefunds \in Nat /\ StaleSteps \in Nat
        /\ most \in Nat
    BY SupervisorAssumption
  <2>3. asked \in Nat /\ r \in Nat /\ asked <= most
    <3>1. {"no_new_evidence", "frozen_frontier"} \subseteq Signals
      BY DEF Signals
    <3>2. /\ refunded["no_new_evidence"] \in Nat
          /\ refunded["no_new_evidence"] <= ReviewRefunds
          /\ spent \in Nat /\ spent <= MaxReviews
          /\ asked = spent + refunded["no_new_evidence"] + 0
      BY <2>1, <3>1 DEF Counted
    <3> QED BY <2>2, <3>1, <3>2 DEF Counted
  <2>4. Len(loop) \in Nat /\ Furthest \in Nat /\ Len(steps) \in Nat
    BY TurnIsOfLoop DEF InPattern, Marked, Furthest
  <2>5. g \in Nat
    BY <2>2, <2>3, <2>4
  <2> HIDE DEF most, r, g
  <2>6. 2 * g <= 2 * Len(loop) + StaleSteps * ((asked + 1) * (asked + 2))
    <3>1. g <= Furthest + StaleSteps * (1 + r)
      BY <2>5 DEF g
    <3> QED BY <2>1, <2>2, <2>3, <2>4, <2>5, <3>1, OneMoreRound
  <2> DEFINE x == (asked + 1) * (asked + 2)
             y == (most + 1) * (most + 2)
  <2>7. x \in Nat /\ y \in Nat /\ x <= y
    <3>1. PICK d \in Nat : most = asked + d
      <4>1. most - asked \in Nat /\ most = asked + (most - asked)
        BY <2>2, <2>3
      <4> QED BY <4>1
    <3>2. /\ (asked + d + 1) * (asked + d + 2)
               = (asked + 1) * (asked + 2) + d * (asked + asked + d + 3)
          /\ d * (asked + asked + d + 3) \in Nat
          /\ (asked + 1) * (asked + 2) \in Nat
      BY <2>3
    <3> QED BY <2>3, <3>1, <3>2
  <2>8. 2 * LoopBound = 2 * Len(loop) + StaleSteps * y
    <3> DEFINE half == ((most + 1) * ((most + 1) + 1)) \div 2
    <3>1. LoopBound = Len(loop) + StaleSteps * half
      BY DEF LoopBound, most
    <3>2. 2 * half = (most + 1) * ((most + 1) + 1) /\ half \in Nat
      <4> DEFINE m == most + 1
                 p == m * (m + 1)
      <4>1. m \in Nat
        BY <2>2
      <4> HIDE DEF m
      <4>2. p \in Nat
        BY <4>1
      <4>3. 2 * (p \div 2) = p
        BY <4>1, HalfIsWhole
      <4> HIDE DEF p
      <4>4. p \div 2 \in Nat
        BY <4>2
      <4> QED BY <4>3, <4>4 DEF m, p
    <3>3. (most + 1) + 1 = most + 2
      BY <2>2
    <3>4. 2 * half = y
      BY <3>2, <3>3
    <3> HIDE DEF half, y
    <3>5. StaleSteps * y = 2 * (StaleSteps * half)
      BY <2>2, <3>2, <3>4
    <3>6. StaleSteps * half \in Nat
      BY <2>2, <3>2
    <3> QED BY <2>4, <3>1, <3>5, <3>6
  <2>9. StaleSteps * x <= StaleSteps * y
        /\ StaleSteps * x \in Nat /\ StaleSteps * y \in Nat
    <3> HIDE DEF x, y
    <3>1. PICK d \in Nat : y = x + d
      <4>1. y - x \in Nat /\ y = x + (y - x)
        BY <2>7
      <4> QED BY <4>1
    <3>2. /\ StaleSteps * (x + d) = StaleSteps * x + StaleSteps * d
          /\ StaleSteps * d \in Nat /\ StaleSteps * x \in Nat
      BY <2>2, <2>7
    <3> QED BY <3>1, <3>2
  <2>10. 2 * g <= 2 * Len(loop) + StaleSteps * x
    BY <2>6
  <2> DEFINE u == StaleSteps * x
             v == StaleSteps * y
  <2> HIDE DEF x, y, u, v
  <2>11. u <= v /\ u \in Nat /\ v \in Nat /\ 2 * g <= 2 * Len(loop) + u
         /\ 2 * LoopBound = 2 * Len(loop) + v
    BY <2>8, <2>9, <2>10 DEF u, v
  <2>12. LoopBound \in Int
    <3>1. most + 1 \in Nat /\ StaleSteps \in Nat
      BY <2>2
    <3> QED BY <2>4, <3>1 DEF LoopBound, most
  <2> QED BY <2>1, <2>4, <2>5, <2>11, <2>12
<1> QED
  BY <1>1, SupervisorStart, SupervisorStep, PlacedStart, PlacedStep,
     InPatternStart, InPatternStep, RisingStart, RisingStep, PTL DEF Spec
=============================================================================
