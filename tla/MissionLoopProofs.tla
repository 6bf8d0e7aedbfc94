---------------------- MODULE MissionLoopProofs ----------------------
(***************************************************************************)
(* Six safety properties of MissionLoop, for every number of steps,       *)
(* repairs, calls, gates and commands.  Each has an inductive invariant of *)
(* its own, about the few variables it needs.  The two about the control   *)
(* channel rest on facts about the places of a list, which come before     *)
(* them.                                                                   *)
(***************************************************************************)
EXTENDS MissionLoop, FiniteSetTheorems, WellFoundedInduction, TLAPS

RunShape ==
  run \in [repairs: Nat, repairing: BOOLEAN, winding_up: BOOLEAN,
           draft: BOOLEAN, continuing: BOOLEAN, attempts: Nat,
           empties: Nat, retried: BOOLEAN]

-----------------------------------------------------------------------------
\* The wind-up.  Every request since "stuck" but the first was bought with a
\* repair, so wound is at most one more than the repairs; and at a boundary
\* that lets a wind-up through, the repair that does it is not yet spent.
WindInv ==
  /\ RunShape /\ wound \in Nat /\ run.repairs <= MaxRepairs
  /\ ~run.winding_up => wound = 0
  /\ wound <= 1 + run.repairs
  /\ run.repairing => pc \in {"top", "finish", "over"}
  /\ pc = "top" /\ run.repairing => wound <= run.repairs
  /\ pc = "steer" => wound <= run.repairs

LEMMA WindInvStart == Init => WindInv
<1> SUFFICES ASSUME Init PROVE WindInv
  OBVIOUS
<1>1. run = FreshRun /\ wound = 0
  BY DEF Init
<1>2. RunShape /\ run.repairs = 0 /\ run.winding_up = FALSE /\ run.repairing = FALSE
  BY <1>1 DEF FreshRun, RunShape
<1> QED
  BY <1>1, <1>2, LoopAssumption DEF WindInv

\* A step that leaves what the invariant reads of run as it was.
Kept == /\ RunShape' /\ run'.repairs = run.repairs
        /\ run'.repairing = run.repairing /\ run'.winding_up = run.winding_up

LEMMA WindInvStep == WindInv /\ [Next]_vars => WindInv'
<1> SUFFICES ASSUME WindInv, [Next]_vars PROVE WindInv'
  OBVIOUS
<1>0. /\ RunShape /\ MaxRepairs \in Nat
      /\ run.repairs \in Nat /\ run.attempts + 1 \in Nat
  BY LoopAssumption DEF WindInv, RunShape
<1>1. ASSUME UNCHANGED <<pc, run, wound>> PROVE WindInv'
  BY <1>1 DEF WindInv, RunShape
<1>2. ASSUME Kept, UNCHANGED wound, pc \notin {"top", "finish", "over"}, pc' # "steer"
      PROVE  WindInv'
  BY <1>2 DEF WindInv, Kept
<1>3. ASSUME UNCHANGED <<run, wound>>, pc' \in {"finish", "over"} PROVE WindInv'
  BY <1>3 DEF WindInv, RunShape
<1>4. UNCHANGED run => Kept
  BY <1>0 DEF Kept, RunShape
<1>5. CASE Operator
  BY <1>1, <1>5 DEF Operator, mission, history
<1>6. CASE CriticAnswers \/ ClockRunsOut \/ WindowOver \/ Over \/ UNCHANGED vars
  BY <1>1, <1>6 DEF CriticAnswers, ClockRunsOut, WindowOver, Over, vars, history
<1>7. CASE Interrupted
  BY <1>3, <1>7 DEF Interrupted, history
<1>8. CASE Loop
  <2>1. CASE OutOfSteps \/ WindUpIsOver \/ StopHeard
    BY <1>3, <2>1 DEF OutOfSteps, WindUpIsOver, StopHeard, End
  <2>2. CASE Boundary
    <3>1. /\ RunShape' /\ run'.repairing = FALSE
          /\ run'.repairs = run.repairs /\ run'.winding_up = run.winding_up
      BY <1>0, <2>2 DEF Boundary, RunShape
    <3>2. pc = "top" /\ pc' = "steer" /\ UNCHANGED wound /\ ~WoundUp
      BY <2>2 DEF Boundary, AtTop, Goto
    <3> QED
      BY <1>0, <3>1, <3>2 DEF WindInv, WoundUp
  <2>3. ASSUME NEW stuck \in BOOLEAN, Steer(stuck) PROVE WindInv'
    <3>1. /\ RunShape' /\ run'.repairing = run.repairing
          /\ run'.repairs = run.repairs
          /\ run'.winding_up = (run.winding_up \/ stuck)
      BY <1>0, <2>3 DEF Steer, RunShape
    <3>2. /\ pc = "steer" /\ pc' = "model"
          /\ wound' = IF run'.winding_up THEN wound + 1 ELSE wound
      BY <2>3 DEF Steer
    <3> QED
      <4>1. CASE run'.winding_up
        BY <1>0, <3>1, <3>2, <4>1 DEF WindInv
      <4>2. CASE ~run'.winding_up
        BY <1>0, <3>1, <3>2, <4>2 DEF WindInv
      <4> QED
        BY <4>1, <4>2
  <2>4. CASE ModelRaises \/ ContinuationStalls
    BY <1>3, <2>4 DEF ModelRaises, ContinuationStalls, End, history
  <2>5. ASSUME NEW b \in BOOLEAN, ModelIsCutOff(b) PROVE WindInv'
    <3>1. Kept
      BY <1>0, <2>5 DEF ModelIsCutOff, Kept, RunShape
    <3> QED
      BY <1>2, <2>5, <3>1 DEF ModelIsCutOff, End, Goto
  <2>6. CASE ModelSaysNothing
    <3>1. Kept
      BY <1>0, <2>6 DEF ModelSaysNothing, Kept, RunShape
    <3> QED
      BY <1>2, <2>6, <3>1 DEF ModelSaysNothing, End, Goto
  <2>7. ASSUME NEW b \in BOOLEAN, ModelRunsOut(b) PROVE WindInv'
    <3>1. Kept
      BY <1>0, <2>7 DEF ModelRunsOut, Kept, RunShape
    <3> QED
      BY <1>2, <2>7, <3>1 DEF ModelRunsOut, End, Goto
  <2>8. ASSUME NEW b \in BOOLEAN, ModelAnswers(b) PROVE WindInv'
    <3>1. Kept
      BY <1>0, <2>8 DEF ModelAnswers, Kept, RunShape
    <3> QED
      BY <1>2, <2>8, <3>1 DEF ModelAnswers, Goto
  <2>9. ASSUME NEW calls \in Replies, NEW alongside \in BOOLEAN,
               ModelCalls(calls, alongside)
        PROVE  WindInv'
    BY <1>2, <1>4, <2>9 DEF ModelCalls, Goto
  <2>10. CASE SkipCall \/ CheckCall
    <3>1. UNCHANGED <<run, wound>> /\ pc = "call" /\ pc' \in {"top", "call", "propose", "stopcheck"}
      <4>1. CASE SkipCall
        BY <4>1 DEF SkipCall, Passed, Goto
      <4>2. CASE CheckCall
        BY <4>2 DEF CheckCall, Passed, Goto
      <4> QED
        BY <2>10, <4>1, <4>2
    <3> QED
      BY <1>2, <1>4, <3>1
  <2>11. CASE Propose \/ NobodyToWaitFor
    BY <1>2, <1>4, <2>11 DEF Propose, NobodyToWaitFor, Goto, End
  <2>12. CASE NothingYet \/ GateNaps
    BY <1>2, <1>4, <2>12 DEF NothingYet, GateNaps, Goto, End
  <2>13. ASSUME NEW recorded \in BOOLEAN, GateAnswered(recorded) PROVE WindInv'
    BY <1>2, <1>4, <2>13 DEF GateAnswered, Passed, Goto, End
  <2>14. CASE StopCheck \/ LastCheck
    BY <1>2, <1>4, <2>14 DEF StopCheck, LastCheck, Passed, Goto, End
  <2>15. CASE Dispatch \/ ToolReturns
    BY <1>2, <1>4, <2>15 DEF Dispatch, ToolReturns, Passed, Goto
  <2>16. CASE ToolRaises
    BY <1>3, <2>16 DEF ToolRaises, history
  <2>17. CASE Repair
    <3>1. /\ RunShape' /\ run'.repairing = TRUE
          /\ run'.repairs = run.repairs + 1 /\ run'.winding_up = run.winding_up
      <4>1. run.repairs + 1 \in Nat
        BY <1>0 DEF RunShape
      <4> QED
        BY <1>0, <2>17, <4>1 DEF Repair, RunShape
    <3>2. /\ pc' = "top" /\ UNCHANGED wound /\ run.repairs < MaxRepairs
      BY <2>17 DEF Repair, MayRepair, Goto
    <3> QED
      BY <1>0, <3>1, <3>2 DEF WindInv, RunShape
  <2>18. ASSUME NEW caveat \in BOOLEAN, Judged(caveat) PROVE WindInv'
    BY <1>2, <1>4, <2>18 DEF Judged, history
  <2>19. CASE Unchecked \/ VerdictGiven
    BY <1>2, <1>4, <2>19 DEF Unchecked, VerdictGiven, AnswerOut
  <2>20. CASE Reflected
    BY <1>2, <1>4, <2>20 DEF Reflected, Goto
  <2>21. CASE Finish
    BY <1>3, <2>21 DEF Finish, history
  <2> QED
    BY <1>8, <2>1, <2>2, <2>3, <2>4, <2>5, <2>6, <2>7, <2>8, <2>9, <2>10, <2>11,
       <2>12, <2>13, <2>14, <2>15, <2>16, <2>17, <2>18, <2>19, <2>20, <2>21 DEF Loop
<1> QED
  BY <1>5, <1>6, <1>7, <1>8 DEF Next

\* However many repairs a deployment allows, a run judged stuck sends the
\* model one more request and one more for each of them.
THEOREM WindUpCorrect == Spec => []WindUpIsShort
<1>1. WindInv => WindUpIsShort
  BY LoopAssumption DEF WindInv, RunShape, WindUpIsShort
<1> QED
  BY WindInvStart, WindInvStep, <1>1, PTL DEF Spec

-----------------------------------------------------------------------------
\* The last call.  A call passes its last check only while nobody has asked
\* for a stop, so one that begins after the asking had passed it before; from
\* then on no check lets a second one through, and what a gate lets through
\* somebody approved.
StopInv ==
  /\ late \in {0, 1}
  /\ late = 1 => cancel \/ expired
  /\ pc \in {"propose", "gate", "nap"} => turn.calls[turn.at] = "gated"
  /\ pc = "lastcheck" => late = 0
  /\ pc = "dispatch" /\ turn.calls[turn.at] = "plain" => late = 0

LEMMA StopInvStep == StopInv /\ [Next]_vars => StopInv'
<1> SUFFICES ASSUME StopInv, [Next]_vars PROVE StopInv'
  OBVIOUS
<1> DEFINE OnItsWay == {"propose", "gate", "nap", "lastcheck", "dispatch"}
<1>1. ASSUME UNCHANGED <<late, cancel, expired>>, pc' \notin OnItsWay PROVE StopInv'
  BY <1>1 DEF StopInv
<1>2. ASSUME UNCHANGED <<late, pc, turn>>, cancel => cancel', expired => expired'
      PROVE  StopInv'
  BY <1>2 DEF StopInv
<1>3. CASE Operator
  BY <1>2, <1>3 DEF Operator, mission, clock, history, OfferInject, OfferCancelStep,
     OfferDecision, Offer, Throw, WriterGoes
<1>4. CASE CriticAnswers \/ ClockRunsOut \/ WindowOver
  BY <1>2, <1>4 DEF CriticAnswers, ClockRunsOut, WindowOver, operator, clock, history
<1>5. CASE Over \/ UNCHANGED vars
  BY <1>2, <1>5 DEF Over, vars, operator, clock, history
<1>6. CASE Interrupted
  BY <1>1, <1>6 DEF Interrupted, operator, clock, history
<1>7. CASE Loop
  <2> USE DEF End, Goto, Passed, operator, clock, history
  <2>1. CASE OutOfSteps \/ WindUpIsOver \/ StopHeard \/ Boundary
    BY <1>1, <2>1 DEF OutOfSteps, WindUpIsOver, StopHeard, Boundary
  <2>2. ASSUME NEW stuck \in BOOLEAN, Steer(stuck) PROVE StopInv'
    BY <1>1, <2>2 DEF Steer
  <2>3. CASE ModelRaises \/ ContinuationStalls \/ ModelSaysNothing
    BY <1>1, <2>3 DEF ModelRaises, ContinuationStalls, ModelSaysNothing
  <2>4. ASSUME NEW b \in BOOLEAN, ModelIsCutOff(b) \/ ModelRunsOut(b) \/ ModelAnswers(b)
        PROVE  StopInv'
    BY <1>1, <2>4 DEF ModelIsCutOff, ModelRunsOut, ModelAnswers
  <2>5. ASSUME NEW calls \in Replies, NEW alongside \in BOOLEAN,
               ModelCalls(calls, alongside)
        PROVE  StopInv'
    BY <1>1, <2>5 DEF ModelCalls
  <2>6. CASE SkipCall
    BY <1>1, <2>6 DEF SkipCall
  <2>7. CASE CheckCall
    <3>1. CASE turn.calls[turn.at] = "gated" /\ pc' = "propose" /\ UNCHANGED turn
      BY <2>7, <3>1 DEF CheckCall, StopInv
    <3>2. CASE pc' \notin OnItsWay
      BY <1>1, <2>7, <3>2 DEF CheckCall
    <3> QED
      BY <2>7, <3>1, <3>2 DEF CheckCall
  <2>8. CASE Propose
    BY <2>8 DEF Propose, StopInv
  <2>9. CASE NobodyToWaitFor
    BY <1>1, <2>9 DEF NobodyToWaitFor
  <2>10. CASE NothingYet \/ GateNaps
    BY <2>10 DEF NothingYet, GateNaps, StopInv
  <2>11. ASSUME NEW recorded \in BOOLEAN, GateAnswered(recorded) PROVE StopInv'
    <3>1. CASE pc' = "dispatch" /\ UNCHANGED turn
      BY <2>11, <3>1 DEF GateAnswered, StopInv
    <3>2. CASE pc' \notin OnItsWay
      BY <1>1, <2>11, <3>2 DEF GateAnswered
    <3> QED
      BY <2>11, <3>1, <3>2 DEF GateAnswered
  <2>12. CASE StopCheck
    <3>1. Stop = "none" => late = 0
      BY DEF Stop, StopInv
    <3>2. CASE Stop # "none"
      BY <1>1, <2>12, <3>2 DEF StopCheck, StopBeforeCall
    <3>3. CASE Stop = "none"
      BY <2>12, <3>1, <3>3 DEF StopCheck, StopBeforeCall, StopInv
    <3> QED
      BY <3>2, <3>3
  <2>13. CASE LastCheck
    BY <2>13 DEF LastCheck, StopInv
  <2>14. CASE Dispatch
    BY <2>14 DEF Dispatch, Stop, StopInv
  <2>15. CASE ToolReturns \/ ToolRaises
    BY <1>1, <2>15 DEF ToolReturns, ToolRaises
  <2>16. CASE Repair \/ Unchecked \/ VerdictGiven
    BY <1>1, <2>16 DEF Repair, Unchecked, VerdictGiven, AnswerOut
  <2>17. ASSUME NEW caveat \in BOOLEAN, Judged(caveat) PROVE StopInv'
    BY <1>1, <2>17 DEF Judged
  <2>18. CASE Reflected \/ Finish
    BY <1>1, <2>18 DEF Reflected, Finish
  <2> QED
    BY <1>7, <2>1, <2>2, <2>3, <2>4, <2>5, <2>6, <2>7, <2>8, <2>9, <2>10, <2>11,
       <2>12, <2>13, <2>14, <2>15, <2>16, <2>17, <2>18 DEF Loop
<1> QED
  BY <1>3, <1>4, <1>5, <1>6, <1>7 DEF Next

\* However many calls a reply carries, one at most that nobody approved begins
\* after a person or a clock has asked the run to stop.
THEOREM StopCorrect == Spec => []OneCallAfterStop
<1>1. Init => StopInv
  <2>1. Init => pc = "top" /\ late = 0
    BY DEF Init
  <2> QED
    BY <2>1 DEF StopInv
<1>2. StopInv => OneCallAfterStop
  BY DEF StopInv, OneCallAfterStop
<1> QED
  BY <1>1, StopInvStep, <1>2, PTL DEF Spec

-----------------------------------------------------------------------------
\* The calls of a reply.  While one is being worked through, those still owed
\* a message are this one and later ones, the answer alongside the last of all.
TurnShape ==
  turn \in [calls: Seq(Kinds), at: Nat, skip: BOOLEAN, alongside: BOOLEAN]

InTurn == {"call", "propose", "gate", "nap", "stopcheck", "lastcheck",
           "dispatch", "tool"}

CallsInv ==
  /\ TurnShape
  /\ pc \in InTurn => /\ turn.at \in 1..Len(turn.calls)
                      /\ owed \subseteq turn.at..(Len(turn.calls) + 1)
  /\ pc \in {"top", "steer", "model"} => owed = {}

\* Passing a call leaves owed what comes after it.
LEMMA PassedSettles ==
  ASSUME CallsInv, pc \in InTurn, NEW skip \in BOOLEAN, Passed(skip)
  PROVE  CallsInv'
<1>1. /\ TurnShape /\ turn.at \in 1..Len(turn.calls) /\ turn.at + 1 \in Nat
      /\ Len(turn.calls) \in Nat
      /\ owed \subseteq turn.at..(Len(turn.calls) + 1)
  BY DEF CallsInv, TurnShape
<1>2. CASE LastCall
  <2>1. owed' = {}
    BY <1>1, <1>2 DEF Passed, Settled, LastCall
  <2>2. turn' = NoTurn /\ pc' = "top"
    BY <1>2 DEF Passed, Goto
  <2>3. TurnShape'
    BY <2>2 DEF TurnShape, NoTurn
  <2> QED
    BY <2>1, <2>2, <2>3 DEF CallsInv, InTurn
<1>3. CASE ~LastCall
  <2>1. /\ turn' = [turn EXCEPT !.at = turn.at + 1, !.skip = skip]
        /\ pc' = "call" /\ owed' = owed \ {turn.at}
    BY <1>3 DEF Passed, Goto, Settled
  <2>2. TurnShape' /\ turn'.at = turn.at + 1 /\ turn'.calls = turn.calls
    BY <1>1, <2>1 DEF TurnShape
  <2>3. turn.at + 1 \in 1..Len(turn.calls)
    BY <1>1, <1>3 DEF LastCall
  <2>4. owed' \subseteq (turn.at + 1)..(Len(turn.calls) + 1)
    BY <1>1, <2>1
  <2> QED
    BY <2>1, <2>2, <2>3, <2>4 DEF CallsInv, InTurn
<1> QED
  BY <1>2, <1>3
LEMMA CallsInvStart == Init => CallsInv
<1>1. Init => pc = "top" /\ owed = {} /\ turn = NoTurn
  BY DEF Init
<1>2. turn = NoTurn => TurnShape
  BY DEF NoTurn, TurnShape
<1> QED
  BY <1>1, <1>2 DEF CallsInv, InTurn

LEMMA CallsInvStep == CallsInv /\ [Next]_vars => CallsInv'
<1> SUFFICES ASSUME CallsInv, [Next]_vars PROVE CallsInv'
  OBVIOUS
<1>1. ASSUME UNCHANGED <<turn, owed>>, pc' \in InTurn => pc \in InTurn,
             pc' \in {"top", "steer", "model"} => pc \in {"top", "steer", "model"}
      PROVE  CallsInv'
  BY <1>1 DEF CallsInv, TurnShape
<1>2. ASSUME UNCHANGED turn, pc' \in {"top", "judge"}, pc' = "top" => owed' = {}
      PROVE  CallsInv'
  BY <1>2 DEF CallsInv, TurnShape, InTurn
<1>3. CASE Operator
  BY <1>1, <1>3 DEF Operator, mission
<1>4. CASE CriticAnswers \/ ClockRunsOut \/ WindowOver \/ Over \/ UNCHANGED vars
  BY <1>1, <1>4 DEF CriticAnswers, ClockRunsOut, WindowOver, Over, vars
<1>5. CASE Interrupted
  BY <1>1, <1>5 DEF Interrupted, InTurn
<1>6. CASE Loop
  <2> USE DEF End, Goto, InTurn
  <2>1. CASE OutOfSteps \/ WindUpIsOver \/ StopHeard \/ Boundary
    BY <1>1, <2>1 DEF OutOfSteps, WindUpIsOver, StopHeard, Boundary, AtTop
  <2>2. ASSUME NEW stuck \in BOOLEAN, Steer(stuck) PROVE CallsInv'
    BY <1>1, <2>2 DEF Steer
  <2>3. CASE ModelRaises \/ ContinuationStalls \/ ModelSaysNothing
    BY <1>1, <2>3 DEF ModelRaises, ContinuationStalls, ModelSaysNothing
  <2>4. ASSUME NEW b \in BOOLEAN, ModelIsCutOff(b) \/ ModelRunsOut(b) PROVE CallsInv'
    BY <1>1, <2>4 DEF ModelIsCutOff, ModelRunsOut
  <2>5. ASSUME NEW b \in BOOLEAN, ModelAnswers(b) PROVE CallsInv'
    BY <1>2, <2>5 DEF ModelAnswers
  <2>6. ASSUME NEW calls \in Replies, NEW alongside \in BOOLEAN,
               ModelCalls(calls, alongside)
        PROVE  CallsInv'
    <3>1. calls \in Seq(Kinds) /\ Len(calls) \in Nat /\ Len(calls) >= 1
      BY LoopAssumption DEF Replies
    <3>2. /\ turn' = [calls |-> calls, at |-> 1, skip |-> FALSE, alongside |-> alongside]
          /\ pc' = "call" /\ owed' \subseteq 1..(Len(calls) + 1)
      BY <2>6, <3>1 DEF ModelCalls
    <3>3. TurnShape' /\ turn'.at = 1 /\ turn'.calls = calls
      BY <3>1, <3>2 DEF TurnShape
    <3> QED
      BY <3>1, <3>2, <3>3 DEF CallsInv
  <2>7. CASE SkipCall
    BY <2>7, PassedSettles DEF SkipCall
  <2>8. CASE CheckCall
    <3>1. CASE Passed(FALSE)
      BY <2>8, <3>1, PassedSettles DEF CheckCall
    <3>2. CASE UNCHANGED <<turn, owed>> /\ pc' \in {"propose", "stopcheck"}
      BY <1>1, <2>8, <3>2 DEF CheckCall
    <3> QED
      BY <2>8, <3>1, <3>2 DEF CheckCall
  <2>9. CASE Propose \/ NobodyToWaitFor \/ NothingYet \/ GateNaps
    BY <1>1, <2>9 DEF Propose, NobodyToWaitFor, NothingYet, GateNaps
  <2>10. ASSUME NEW recorded \in BOOLEAN, GateAnswered(recorded) PROVE CallsInv'
    <3>1. CASE Passed(turn.skip)
      <4>1. turn.skip \in BOOLEAN
        BY DEF CallsInv, TurnShape
      <4> QED
        BY <2>10, <3>1, <4>1, PassedSettles DEF GateAnswered
    <3>2. CASE UNCHANGED <<turn, owed>> /\ pc' \in {"dispatch", "finish"}
      BY <1>1, <2>10, <3>2 DEF GateAnswered
    <3> QED
      BY <2>10, <3>1, <3>2 DEF GateAnswered
  <2>11. CASE StopCheck
    BY <1>1, <2>11 DEF StopCheck
  <2>12. CASE LastCheck
    <3>1. CASE Passed(FALSE)
      BY <2>12, <3>1, PassedSettles DEF LastCheck
    <3>2. CASE UNCHANGED <<turn, owed>> /\ pc' = "dispatch"
      BY <1>1, <2>12, <3>2 DEF LastCheck
    <3> QED
      BY <2>12, <3>1, <3>2 DEF LastCheck
  <2>13. CASE Dispatch \/ ToolRaises
    BY <1>1, <2>13 DEF Dispatch, ToolRaises
  <2>14. CASE ToolReturns
    <3>1. turn.skip \in BOOLEAN
      BY DEF CallsInv, TurnShape
    <3> QED
      BY <2>14, <3>1, PassedSettles DEF ToolReturns
  <2>15. CASE Repair
    BY <1>2, <2>15 DEF Repair
  <2>16. CASE Unchecked \/ VerdictGiven \/ Reflected \/ Finish
    BY <1>1, <2>16 DEF Unchecked, VerdictGiven, AnswerOut, Reflected, Finish
  <2>17. ASSUME NEW caveat \in BOOLEAN, Judged(caveat) PROVE CallsInv'
    BY <1>1, <2>17 DEF Judged
  <2> QED
    BY <1>6, <2>1, <2>2, <2>3, <2>4, <2>5, <2>6, <2>7, <2>8, <2>9, <2>10, <2>11,
       <2>12, <2>13, <2>14, <2>15, <2>16, <2>17 DEF Loop
<1> QED
  BY <1>3, <1>4, <1>5, <1>6 DEF Next

\* Whatever becomes of the calls of a reply, and however many they are, none
\* is left without its message when the next request goes out.
THEOREM CallsCorrect == Spec => []EveryCallIsAnswered
<1>1. CallsInv => EveryCallIsAnswered
  BY DEF CallsInv, EveryCallIsAnswered
<1> QED
  BY CallsInvStart, CallsInvStep, <1>1, PTL DEF Spec

-----------------------------------------------------------------------------
\* The draft.  As long as the loop works nothing has ended it: no answer is on
\* the transcript, no budget and no stop; and past the model there is no
\* continuation open, so a stop heard there has no partial answer to hand over.
\* Every exit settles the draft, and nothing later touches it.
Working == {"top", "steer", "model"} \cup InTurn \cup {"judge"}

TranscriptShape ==
  transcript \in [outcome: Outcomes, reason: {"", "cancelled", "stuck"},
                  budget: {"none", "steps", "seconds"},
                  answer: {"none", "own", "draft"}]

Delivered ==
  /\ ~raising /\ run.draft
  /\ transcript.outcome \in {"incomplete", "budget_exhausted"}
  /\ transcript.reason # "cancelled"
  /\ transcript.budget = "seconds" => run.continuing
  => transcript.answer = "draft"

DraftInv ==
  /\ RunShape /\ TranscriptShape
  /\ pc \in Working => /\ transcript.answer = "none" /\ transcript.budget = "none"
                       /\ transcript.reason # "cancelled"
  /\ pc \in InTurn \cup {"judge"} => ~run.continuing
  /\ pc = "reflect" => transcript.outcome \in {"answered", "answered_with_caveat"}
  /\ pc \in {"finish", "over"} => Delivered
  /\ finished => pc = "over"

LEMMA DraftInvStart == Init => DraftInv
<1> SUFFICES ASSUME Init PROVE DraftInv
  OBVIOUS
<1>1. /\ run = FreshRun /\ pc = "top" /\ finished = FALSE
      /\ transcript = [outcome |-> "incomplete", reason |-> "", budget |-> "none",
                       answer |-> "none"]
  BY DEF Init
<1>2. RunShape /\ TranscriptShape
  BY <1>1 DEF FreshRun, RunShape, TranscriptShape, Outcomes
<1> QED
  BY <1>1, <1>2 DEF DraftInv, Working, InTurn

\* The transcripts the loop ends with.
LEMMA Endings ==
  ASSUME DraftInv, pc \in Working, NEW draft \in BOOLEAN, NEW stop \in {"cancelled", "seconds"}
  PROVE  /\ \A t \in {Incomplete, EndOfSteps_Empty, Stopped(stop), AwaitingApproval} :
              /\ t \in [outcome: Outcomes, reason: {"", "cancelled", "stuck"},
                        budget: {"none", "steps", "seconds"},
                        answer: {"none", "own", "draft"}]
              /\ WithDraft(t, draft) \in
                   [outcome: Outcomes, reason: {"", "cancelled", "stuck"},
                    budget: {"none", "steps", "seconds"},
                    answer: {"none", "own", "draft"}]
              /\ draft => WithDraft(t, draft).answer = "draft"
         /\ AwaitingApproval.outcome = "awaiting_approval"
         /\ stop = "cancelled" => Stopped(stop).reason = "cancelled"
         /\ stop = "seconds" => Stopped(stop).budget = "seconds"
<1>1. TranscriptShape /\ transcript.answer = "none"
  BY DEF DraftInv
<1>2. \A t \in {Incomplete, EndOfSteps_Empty, Stopped(stop), AwaitingApproval} :
        /\ t \in [outcome: Outcomes, reason: {"", "cancelled", "stuck"},
                  budget: {"none", "steps", "seconds"}, answer: {"none", "own", "draft"}]
        /\ t.answer = "none"
  BY <1>1 DEF TranscriptShape, Outcomes, Incomplete, EndOfSteps_Empty, Stopped,
     AwaitingApproval
<1>3. /\ AwaitingApproval.outcome = "awaiting_approval"
      /\ stop = "cancelled" => Stopped(stop).reason = "cancelled"
      /\ stop = "seconds" => Stopped(stop).budget = "seconds"
  BY <1>1 DEF TranscriptShape, Stopped, AwaitingApproval
<1>4. \A t \in [outcome: Outcomes, reason: {"", "cancelled", "stuck"},
                budget: {"none", "steps", "seconds"}, answer: {"none", "own", "draft"}] :
        t.answer = "none" =>
          /\ WithDraft(t, draft) \in
               [outcome: Outcomes, reason: {"", "cancelled", "stuck"},
                budget: {"none", "steps", "seconds"},
                answer: {"none", "own", "draft"}]
          /\ draft => WithDraft(t, draft).answer = "draft"
  BY DEF WithDraft
<1> QED
  BY <1>2, <1>3, <1>4

LEMMA DraftInvStep == DraftInv /\ [Next]_vars => DraftInv'
<1> SUFFICES ASSUME DraftInv, [Next]_vars PROVE DraftInv'
  OBVIOUS
<1>0. /\ RunShape /\ TranscriptShape /\ run.draft \in BOOLEAN /\ run.attempts + 1 \in Nat
      /\ run.repairs + 1 \in Nat /\ run.empties + 1 \in Nat
  BY DEF DraftInv, RunShape
\* Nothing the invariant reads is touched.
<1>1. ASSUME UNCHANGED <<run, transcript, pc, finished, raising>> PROVE DraftInv'
  <2>1. RunShape' = RunShape /\ TranscriptShape' = TranscriptShape
    BY <1>1 DEF RunShape, TranscriptShape
  <2>2. Delivered' = Delivered
    BY <1>1 DEF Delivered
  <2> QED
    BY <1>1, <2>1, <2>2 DEF DraftInv
\* The loop goes on to another of its labels.
<1>2. ASSUME pc \in Working, pc' \in Working, UNCHANGED <<transcript, finished>>, RunShape',
             pc' \in InTurn \cup {"judge"} => ~run'.continuing
      PROVE  DraftInv'
  BY <1>2 DEF DraftInv, TranscriptShape, Working, InTurn
\* The loop ends.
<1>3. ASSUME pc \in Working, pc' = "finish", UNCHANGED finished, RunShape', TranscriptShape',
             Delivered'
      PROVE  DraftInv'
  BY <1>3 DEF DraftInv, Working, InTurn
<1>4. CASE Operator \/ CriticAnswers \/ ClockRunsOut \/ WindowOver \/ Over \/ UNCHANGED vars
  BY <1>1, <1>4 DEF Operator, mission, ending, CriticAnswers, ClockRunsOut, WindowOver,
     Over, vars
<1>5. CASE Interrupted
  <2>1. transcript' = Stopped("cancelled") /\ pc' = "finish" /\ pc # "over"
        /\ UNCHANGED <<run, finished, raising>>
    BY <1>5 DEF Interrupted
  <2>2. TranscriptShape' /\ transcript'.reason = "cancelled"
    BY <1>0, <2>1 DEF Stopped, TranscriptShape, Outcomes
  <2> QED
    BY <2>1, <2>2 DEF DraftInv, RunShape, Delivered, Working, InTurn
<1>6. CASE Loop
  <2> USE DEF Goto, InTurn, Working, ending
  <2>1. CASE OutOfSteps
    <3>1. transcript' = WithDraft(EndOfSteps_Empty, run.draft) /\ pc = "top" /\ pc' = "finish"
          /\ UNCHANGED <<run, finished, raising>>
      BY <2>1 DEF OutOfSteps, AtTop, End, EndOfSteps, EndOfSteps_Empty
    <3>2. TranscriptShape' /\ Delivered'
      BY ZenonT(40), <1>0, <3>1, Endings DEF TranscriptShape, Delivered
    <3> QED
      BY <1>0, <1>3, <3>1, <3>2 DEF RunShape
  <2>2. CASE WindUpIsOver \/ ContinuationStalls
    <3>1. transcript' = WithDraft(Incomplete, run.draft) /\ pc \in Working /\ pc' = "finish"
          /\ UNCHANGED <<run, finished, raising>>
      BY <2>2 DEF WindUpIsOver, ContinuationStalls, AtTop, End
    <3>2. TranscriptShape' /\ Delivered'
      BY ZenonT(40), <1>0, <3>1, Endings DEF TranscriptShape, Delivered
    <3> QED
      BY <1>0, <1>3, <3>1, <3>2 DEF RunShape
  <2>3. CASE StopHeard
    <3>1. /\ transcript' = IF run.continuing /\ Stop # "cancelled"
                           THEN WithDraft(Stopped(Stop), run.draft) ELSE Stopped(Stop)
          /\ pc = "top" /\ pc' = "finish" /\ Stop \in {"cancelled", "seconds"}
          /\ UNCHANGED <<run, finished, raising>>
      BY <2>3 DEF StopHeard, AtTop, End, Stop
    <3>2. TranscriptShape' /\ Delivered'
      <4>1. CASE run.continuing /\ Stop # "cancelled"
        <5>1. transcript' = WithDraft(Stopped(Stop), run.draft)
          BY <3>1, <4>1
        <5>2. pc \in Working /\ run' = run
          BY <3>1
        <5>3. /\ WithDraft(Stopped(Stop), run.draft) \in
                   [outcome: Outcomes, reason: {"", "cancelled", "stuck"},
                    budget: {"none", "steps", "seconds"},
                    answer: {"none", "own", "draft"}]
              /\ run.draft => WithDraft(Stopped(Stop), run.draft).answer = "draft"
          <6>1. /\ Stopped(Stop) \in
                     [outcome: Outcomes, reason: {"", "cancelled", "stuck"},
                      budget: {"none", "steps", "seconds"},
                      answer: {"none", "own", "draft"}]
                /\ Stopped(Stop).answer = "none"
            BY <1>0, <5>2 DEF DraftInv, TranscriptShape, Stopped, Outcomes
          <6> HIDE DEF Goto, InTurn, Working, ending
          <6> QED
            BY <6>1 DEF WithDraft
        <5>4. TranscriptShape'
          BY <5>1, <5>3 DEF TranscriptShape
        <5>5. Delivered'
          BY <5>1, <5>2, <5>3 DEF Delivered
        <5> QED
          BY <5>4, <5>5
      <4>2. CASE ~(run.continuing /\ Stop # "cancelled")
        BY ZenonT(40), <1>0, <3>1, <4>2, Endings DEF TranscriptShape, Delivered
      <4> QED
        BY <4>1, <4>2
    <3> QED
      BY <1>0, <1>3, <3>1, <3>2 DEF RunShape
  <2>4. CASE Boundary
    BY <1>0, <1>2, <2>4 DEF Boundary, AtTop, RunShape
  <2>5. ASSUME NEW stuck \in BOOLEAN, Steer(stuck) PROVE DraftInv'
    <3>1. /\ pc = "steer" /\ pc' = "model" /\ UNCHANGED <<finished, raising>>
          /\ run' = [run EXCEPT !.winding_up = run.winding_up \/ stuck]
          /\ transcript' = IF stuck THEN [transcript EXCEPT !.reason = "stuck"] ELSE transcript
      BY <2>5 DEF Steer
    <3>2. RunShape'
      BY <1>0, <3>1 DEF RunShape
    <3>3. /\ TranscriptShape' /\ transcript'.answer = transcript.answer
          /\ transcript'.budget = transcript.budget
          /\ transcript'.reason \in {"stuck", transcript.reason}
      BY <1>0, <3>1 DEF TranscriptShape
    <3> QED
      BY <3>1, <3>2, <3>3 DEF DraftInv
  <2>6. CASE ModelRaises
    <3>1. CASE run.continuing
      <4>1. transcript' = WithDraft(Incomplete, run.draft) /\ pc \in Working /\ pc' = "finish"
            /\ UNCHANGED <<run, finished, raising>>
        BY <2>6, <3>1 DEF ModelRaises, End
      <4>2. TranscriptShape' /\ Delivered'
        BY ZenonT(40), <1>0, <4>1, Endings DEF TranscriptShape, Delivered
      <4> QED
        BY <1>0, <1>3, <4>1, <4>2 DEF RunShape
    <3>2. CASE ~run.continuing
      BY <1>0, <1>3, <2>6, <3>2 DEF ModelRaises, RunShape, TranscriptShape, Delivered
    <3> QED
      BY <3>1, <3>2
  <2>7. ASSUME NEW b \in BOOLEAN, ModelRunsOut(b) PROVE DraftInv'
    <3>1. /\ pc \in Working /\ UNCHANGED <<finished, raising>>
          /\ run' = [run EXCEPT !.retried = run.retried \/ b]
          /\ \/ pc' = "top" /\ UNCHANGED transcript
             \/ pc' = "finish" /\ transcript' = WithDraft(Incomplete, run.draft)
      BY <2>7 DEF ModelRunsOut, End
    <3>2. RunShape' /\ run'.draft = run.draft
      BY <1>0, <3>1 DEF RunShape
    <3>3. CASE pc' = "top" /\ UNCHANGED transcript
      BY <1>2, <3>1, <3>2, <3>3
    <3>4. CASE pc' = "finish" /\ transcript' = WithDraft(Incomplete, run.draft)
      <4>1. TranscriptShape' /\ Delivered'
        BY ZenonT(40), <1>0, <3>1, <3>2, <3>4, Endings DEF TranscriptShape, Delivered
      <4> QED
        BY <1>3, <3>1, <3>2, <3>4, <4>1
    <3> QED
      BY <3>1, <3>3, <3>4
  <2>8. ASSUME NEW b \in BOOLEAN, ModelIsCutOff(b) PROVE DraftInv'
    <3>1. /\ pc \in Working /\ UNCHANGED <<finished, raising>>
          /\ \/ /\ pc' = "top" /\ UNCHANGED transcript
                /\ run' = [run EXCEPT !.draft = TRUE, !.continuing = TRUE,
                                      !.attempts = run.attempts + 1,
                                      !.retried = run.retried \/ b]
             \/ /\ pc' = "finish" /\ transcript' = WithDraft(Incomplete, TRUE)
                /\ run' = [run EXCEPT !.draft = TRUE, !.continuing = TRUE]
      BY <2>8 DEF ModelIsCutOff, End
    <3>2. RunShape'
      BY <1>0, <3>1 DEF RunShape
    <3>3. CASE pc' = "top" /\ UNCHANGED transcript
      BY <1>2, <3>1, <3>2, <3>3
    <3>4. CASE pc' = "finish" /\ transcript' = WithDraft(Incomplete, TRUE)
      <4>1. TranscriptShape' /\ Delivered'
        BY <1>0, <3>1, <3>4, Endings DEF TranscriptShape, Delivered
      <4> QED
        BY <1>3, <3>1, <3>2, <3>4, <4>1
    <3> QED
      BY <3>1, <3>3, <3>4
  <2>9. CASE ModelSaysNothing
    <3>1. /\ pc \in Working /\ UNCHANGED <<finished, raising>>
          /\ run' = IF native THEN run ELSE [run EXCEPT !.empties = run.empties + 1]
          /\ \/ pc' = "top" /\ UNCHANGED transcript
             \/ pc' = "finish" /\ transcript' = WithDraft(Incomplete, run.draft)
      BY <2>9 DEF ModelSaysNothing, End
    <3>2. RunShape' /\ run'.draft = run.draft
      BY <1>0, <3>1 DEF RunShape
    <3>3. CASE pc' = "top" /\ UNCHANGED transcript
      BY <1>2, <3>1, <3>2, <3>3
    <3>4. CASE pc' = "finish" /\ transcript' = WithDraft(Incomplete, run.draft)
      <4>1. TranscriptShape' /\ Delivered'
        BY ZenonT(40), <1>0, <3>1, <3>2, <3>4, Endings DEF TranscriptShape, Delivered
      <4> QED
        BY <1>3, <3>1, <3>2, <3>4, <4>1
    <3> QED
      BY <3>1, <3>3, <3>4
  <2>10. ASSUME NEW b \in BOOLEAN, ModelAnswers(b) PROVE DraftInv'
    <3>1. RunShape' /\ ~run'.continuing
      BY <1>0, <2>10 DEF ModelAnswers, RunShape
    <3> QED
      BY <1>2, <2>10, <3>1 DEF ModelAnswers
  <2>11. ASSUME NEW calls \in Replies, NEW alongside \in BOOLEAN,
                ModelCalls(calls, alongside)
         PROVE  DraftInv'
    BY <1>0, <1>2, <2>11 DEF ModelCalls, RunShape
  <2>12. ASSUME pc \in InTurn, NEW skip, Passed(skip) PROVE DraftInv'
    BY <1>0, <1>2, <2>12 DEF Passed, RunShape, DraftInv
  \* On to the next place of the same call.
  <2>13. ASSUME pc \in InTurn, pc' \in InTurn, UNCHANGED <<run, transcript, finished>>
         PROVE  DraftInv'
    BY <1>0, <1>2, <2>13 DEF RunShape, DraftInv
  \* Nobody can answer the gate.
  <2>14. ASSUME pc \in InTurn, End(AwaitingApproval), UNCHANGED run PROVE DraftInv'
    <3>1. /\ transcript' = AwaitingApproval /\ pc' = "finish" /\ UNCHANGED <<finished, raising>>
      BY <2>14 DEF End
    <3>2. TranscriptShape' /\ Delivered'
      BY <1>0, <2>14, <3>1, Endings DEF TranscriptShape, Delivered
    <3> QED
      BY <1>0, <1>3, <2>14, <3>1, <3>2 DEF RunShape
  <2>15. CASE SkipCall \/ ToolReturns
    BY <2>12, <2>15 DEF SkipCall, ToolReturns
  <2>16. CASE CheckCall
    BY <2>12, <2>13, <2>16 DEF CheckCall
  <2>17. CASE Propose \/ NothingYet \/ Dispatch
    BY <2>13, <2>17 DEF Propose, NothingYet, Dispatch
  <2>18. CASE NobodyToWaitFor \/ GateNaps
    BY <2>13, <2>14, <2>18 DEF NobodyToWaitFor, GateNaps
  <2>19. ASSUME NEW recorded \in BOOLEAN, GateAnswered(recorded) PROVE DraftInv'
    BY <2>12, <2>13, <2>14, <2>19 DEF GateAnswered
  <2>20. CASE StopCheck
    <3>1. CASE Stop = "none"
      BY <2>13, <2>20, <3>1 DEF StopCheck, StopBeforeCall
    <3>2. CASE Stop # "none"
      <4>1. /\ transcript' = Stopped(Stop) /\ pc = "stopcheck" /\ pc' = "finish"
            /\ Stop \in {"cancelled", "seconds"} /\ UNCHANGED <<run, finished, raising>>
        BY <2>20, <3>2 DEF StopCheck, StopBeforeCall, End, Stop
      <4>2. ~run.continuing
        BY <4>1 DEF DraftInv
      <4>3. /\ transcript' \in [outcome: Outcomes, reason: {"", "cancelled", "stuck"},
                               budget: {"none", "steps", "seconds"},
                               answer: {"none", "own", "draft"}]
            /\ transcript'.reason = "cancelled" \/ transcript'.budget = "seconds"
        BY ZenonT(40), <1>0, <4>1, Endings
      <4>4. TranscriptShape' /\ Delivered'
        BY <4>1, <4>2, <4>3 DEF TranscriptShape, Delivered
      <4> QED
        BY <1>0, <1>3, <4>1, <4>4 DEF RunShape
    <3> QED
      BY <3>1, <3>2
  <2>21. CASE LastCheck
    BY <2>12, <2>13, <2>21 DEF LastCheck
  <2>22. CASE ToolRaises
    BY <1>0, <1>3, <2>22 DEF ToolRaises, RunShape, TranscriptShape, Delivered
  <2>23. CASE Repair
    <3>1. RunShape'
      BY <1>0, <2>23 DEF Repair, RunShape
    <3> QED
      BY <1>2, <2>23, <3>1 DEF Repair
  <2>24. ASSUME NEW caveat \in BOOLEAN, Judged(caveat) PROVE DraftInv'
    <3>1. TranscriptShape'
      BY <1>0, <2>24 DEF Judged, TranscriptShape, Outcomes
    <3> QED
      BY <1>0, <2>24, <3>1 DEF Judged, DraftInv, RunShape
  <2>25. ASSUME NEW outcome \in {"answered", "answered_with_caveat"}, AnswerOut(outcome),
                pc # "over"
         PROVE  DraftInv'
    <3>1. TranscriptShape' /\ transcript'.outcome = outcome
      BY <1>0, <2>25 DEF AnswerOut, TranscriptShape, Outcomes
    <3> QED
      BY <1>0, <2>25, <3>1 DEF AnswerOut, DraftInv, RunShape
  <2>26. CASE Unchecked \/ VerdictGiven
    BY <2>25, <2>26 DEF Unchecked, VerdictGiven
  <2>27. CASE Reflected
    BY ZenonT(40), <1>0, <2>27 DEF Reflected, DraftInv, RunShape, TranscriptShape, Delivered
  <2>28. CASE Finish
    BY ZenonT(40), <1>0, <2>28 DEF Finish, DraftInv, RunShape, TranscriptShape, Delivered
  <2> QED
    BY <1>6, <2>1, <2>2, <2>3, <2>4, <2>5, <2>6, <2>7, <2>8, <2>9, <2>10, <2>11,
       <2>15, <2>16, <2>17, <2>18, <2>19, <2>20, <2>21, <2>22, <2>23, <2>24,
       <2>26, <2>27, <2>28 DEF Loop
<1> QED
  BY <1>4, <1>5, <1>6 DEF Next

\* Whichever of its exits a run takes, and however many repairs and
\* continuations it had, what it wrote and never returned is handed over.
THEOREM DraftHandedOver == Spec => []DraftIsDelivered
<1>1. DraftInv => DraftIsDelivered
  BY DEF DraftInv, Delivered, DraftIsDelivered
<1> QED
  BY DraftInvStart, DraftInvStep, <1>1, PTL DEF Spec

-----------------------------------------------------------------------------
(* Places and counting. *)

\* A set of numbers has a least one.
LEMMA LeastNatural ==
    ASSUME NEW S \in SUBSET Nat, S # {}
    PROVE  \E m \in S : \A n \in S : m =< n
<1>1. PICK m \in S : \A n \in S : ~ (<<n, m>> \in OpToRel(<, Nat))
  BY WFMin, NatLessThanWellFounded
<1>2. \A n \in S : ~ (n < m)
  BY <1>1 DEF OpToRel
<1>. QED  BY <1>2

\* Counting the places of a list.
LEMMA UptoCounts ==
    ASSUME NEW m \in Nat, NEW P \in SUBSET (1..m)
    PROVE  /\ IsFiniteSet(P) /\ Cardinality(P) \in Nat
           /\ \A i \in Nat : Upto(P, i) \in 0..Cardinality(P)
           /\ Upto(P, 0) = 0 /\ Upto(P, m) = Cardinality(P)
           /\ \A i \in Nat : Upto(P, i + 1) = IF i + 1 \in P THEN Upto(P, i) + 1
                                              ELSE Upto(P, i)
<1>0. \A j \in P : j \in Nat /\ 1 <= j /\ j <= m
  OBVIOUS
<1>1. IsFiniteSet(P) /\ Cardinality(P) \in Nat
  <2>1. IsFiniteSet(1..m)
    BY FS_Interval
  <2>. QED  BY <2>1, FS_Subset, FS_CardinalityType
<1>2. ASSUME NEW i \in Nat
      PROVE  Upto(P, i) \in 0..Cardinality(P)
  <2>1. {j \in P : j <= i} \in SUBSET P
    OBVIOUS
  <2>. QED  BY <1>1, <2>1, FS_Subset, FS_CardinalityType DEF Upto
<1>3. Upto(P, 0) = 0
  <2>1. ~ \E j \in P : j <= 0
    BY <1>0
  <2>2. {j \in P : j <= 0} = {}
    BY <2>1
  <2>. QED  BY <2>2, FS_EmptySet DEF Upto
<1>4. Upto(P, m) = Cardinality(P)
  <2>1. {j \in P : j <= m} = P
    BY <1>0
  <2>. QED  BY <2>1 DEF Upto
<1>5. ASSUME NEW i \in Nat
      PROVE  Upto(P, i + 1) = IF i + 1 \in P THEN Upto(P, i) + 1
                                              ELSE Upto(P, i)
  <2>. DEFINE T == {j \in P : j <= i}
  <2>1. IsFiniteSet(T) /\ i + 1 \notin T
    BY <1>1, FS_Subset
  <2>2. {j \in P : j <= i + 1} = IF i + 1 \in P THEN T \cup {i + 1} ELSE T
    <3>1. \A j \in P : j \in Nat /\ (j <= i + 1 <=> j <= i \/ j = i + 1)
      OBVIOUS
    <3>. QED  BY <3>1
  <2>3. Cardinality(T \cup {i + 1}) = Cardinality(T) + 1
    BY <2>1, FS_AddElement
  <2>. QED  BY <2>2, <2>3 DEF Upto
<1>. QED  BY <1>1, <1>2, <1>3, <1>4, <1>5

\* A later place has more of them before it.
LEMMA UptoGrows ==
    ASSUME NEW m \in Nat, NEW P \in SUBSET (1..m),
           NEW j \in P, NEW i \in Nat, i < j
    PROVE  Upto(P, i) < Upto(P, j)
<1>. DEFINE S == {k \in P : k <= i}
            T == {k \in P : k <= j}
<1>1. IsFiniteSet(T) /\ S \in SUBSET T /\ S # T
  <2>1. T \in SUBSET P /\ S \in SUBSET T
    <3>1. \A k \in P : k \in Nat
      OBVIOUS
    <3>2. j \in Nat
      OBVIOUS
    <3>3. \A k \in P : k <= i => k <= j
      BY <3>1, <3>2
    <3>. QED  BY <3>3
  <2>2. j \in T /\ j \notin S
    OBVIOUS
  <2>. QED  BY <2>1, <2>2, UptoCounts, FS_Subset
<1>2. Cardinality(S) \in Nat /\ Cardinality(T) \in Nat
      /\ Cardinality(S) <= Cardinality(T) /\ Cardinality(S) # Cardinality(T)
  BY <1>1, FS_Subset, FS_CardinalityType
<1>. QED  BY <1>2 DEF Upto

\* The n-th of them is one of them, and the n-th.
LEMMA NthIsThere ==
    ASSUME NEW m \in Nat, NEW P \in SUBSET (1..m),
           NEW n \in 1..Cardinality(P)
    PROVE  Nth(P, n) \in P /\ Upto(P, Nth(P, n)) = n
<1>. DEFINE Far == {i \in Nat : Upto(P, i) >= n}
<1>0. /\ Cardinality(P) \in Nat
      /\ \A i \in Nat : Upto(P, i) \in Nat
      /\ Upto(P, 0) = 0 /\ Upto(P, m) = Cardinality(P)
      /\ \A i \in Nat : Upto(P, i + 1) = IF i + 1 \in P THEN Upto(P, i) + 1
                                         ELSE Upto(P, i)
  BY UptoCounts
<1>1. m \in Far
  BY <1>0
<1>2. \E k \in Far : \A i \in Far : k <= i
  BY <1>1, LeastNatural, Far \subseteq Nat
<1>3. PICK k \in Nat : Upto(P, k) >= n /\ \A i \in Far : k <= i
  BY <1>2
<1>4. k # 0
  BY <1>0, <1>3
<1>5. PICK i \in Nat : k = i + 1
  BY <1>4
<1>6. i \notin Far
  BY <1>3, <1>5
<1>7. Upto(P, i) < n /\ Upto(P, i) \in Nat /\ n \in Nat
  BY <1>0, <1>6
<1>8. Upto(P, k) = IF k \in P THEN Upto(P, i) + 1 ELSE Upto(P, i)
  BY <1>0, <1>5
<1>9. k \in P /\ Upto(P, k) = n
  BY <1>3, <1>7, <1>8
<1>. QED  BY <1>9 DEF Nth

\* A filtered list: its elements are those at the places, each once, in order.
LEMMA AmongThese ==
    ASSUME NEW T, NEW s \in Seq(T), NEW P \in SUBSET (DOMAIN s)
    PROVE  /\ Among(s, P) \in Seq(T)
           /\ Len(Among(s, P)) = Cardinality(P) /\ Cardinality(P) \in Nat
           /\ \A n \in DOMAIN Among(s, P) :
                 /\ Nth(P, n) \in P /\ Upto(P, Nth(P, n)) = n
                 /\ Among(s, P)[n] = s[Nth(P, n)]
           /\ \A i \in P : /\ Upto(P, i) \in DOMAIN Among(s, P)
                           /\ Nth(P, Upto(P, i)) = i
                           /\ Among(s, P)[Upto(P, i)] = s[i]
           /\ \A a, b \in DOMAIN Among(s, P) : a < b => Nth(P, a) < Nth(P, b)
<1>1. Len(s) \in Nat /\ DOMAIN s = 1..Len(s) /\ P \in SUBSET (1..Len(s))
  OBVIOUS
<1>2. Cardinality(P) \in Nat
  BY <1>1, UptoCounts
<1>3. \A n \in 1..Cardinality(P) : Nth(P, n) \in P /\ Upto(P, Nth(P, n)) = n
  BY <1>1, NthIsThere
<1>4. Among(s, P) \in Seq(T) /\ Len(Among(s, P)) = Cardinality(P)
      /\ DOMAIN Among(s, P) = 1..Cardinality(P)
      /\ \A n \in 1..Cardinality(P) : Among(s, P)[n] = s[Nth(P, n)]
  BY <1>1, <1>2, <1>3 DEF Among
<1>7. /\ \A i \in Nat : Upto(P, i) \in 0..Cardinality(P)
      /\ Upto(P, 0) = 0
  BY <1>1, UptoCounts
<1>8. \A j \in P, i \in Nat : i < j => Upto(P, i) < Upto(P, j)
  BY <1>1, UptoGrows
<1>5. ASSUME NEW i \in P
      PROVE  Upto(P, i) \in 1..Cardinality(P) /\ Nth(P, Upto(P, i)) = i
  <2>1. i \in Nat /\ i >= 1
    BY <1>1
  <2>2. Upto(P, i) \in 0..Cardinality(P) /\ 0 < Upto(P, i)
    BY <1>7, <1>8, <2>1
  <2>3. Upto(P, i) \in 1..Cardinality(P)
    BY <1>2, <2>2
  <2>. DEFINE j == Nth(P, Upto(P, i))
  <2>4. j \in P /\ Upto(P, j) = Upto(P, i)
    BY <1>3, <2>3
  <2>5. j \in Nat /\ ~(j < i) /\ ~(i < j)
    BY <1>1, <1>8, <2>1, <2>2, <2>4
  <2>. QED  BY <2>1, <2>3, <2>5
<1>6. ASSUME NEW a \in 1..Cardinality(P), NEW b \in 1..Cardinality(P), a < b
      PROVE  Nth(P, a) < Nth(P, b)
  <2>. DEFINE i == Nth(P, a)
              j == Nth(P, b)
  <2>1. i \in P /\ j \in P /\ Upto(P, i) = a /\ Upto(P, j) = b
    BY <1>3
  <2>2. i \in Nat /\ j \in Nat
    BY <1>1, <2>1
  <2>3. ~(j < i) /\ i # j
    BY <1>2, <1>6, <1>8, <2>1, <2>2
  <2>. QED  BY <2>2, <2>3
<1>. QED  BY <1>2, <1>3, <1>4, <1>5, <1>6

\* What holds of nothing, and of one more whenever it holds, holds up to m.
LEMMA CountUp ==
    ASSUME NEW A, NEW m \in Nat, 0 \in A,
           \A k \in Nat : (k < m /\ k \in A) => k + 1 \in A
    PROVE  \A k \in 0..m : k \in A
<1>. SUFFICES ASSUME NEW n \in 0..m, n \notin A
              PROVE  FALSE
  OBVIOUS
<1>. DEFINE Out == {k \in 0..m : k \notin A}
<1>1. Out \in SUBSET Nat /\ Out # {}
  OBVIOUS
<1>2. PICK k \in Out : \A j \in Out : k <= j
  BY <1>1, LeastNatural
<1>3. k \in Nat /\ k <= m /\ k # 0 /\ k \notin A
  BY <1>2
<1>4. k - 1 \in Nat /\ k - 1 < m /\ (k - 1) + 1 = k
  BY <1>3
<1>5. k - 1 \notin Out
  BY <1>2, <1>4
<1>6. k - 1 \in A
  BY <1>4, <1>5
<1>. QED  BY <1>3, <1>4, <1>6

-----------------------------------------------------------------------------
\* The channel.  What waits is what the operator said, less what was taken.
Said == [control: {"inject", "cancel_step", "gate_decision"}, about: Nat,
         approve: BOOLEAN]

Channel == held \in Seq(Said) /\ queue \in Seq(Said)

\* The instructions of a list are those after n up to m, each once, in order.
Numbered(d, n, m) ==
  /\ \A i \in DOMAIN d : d[i].control = "inject" => d[i].about \in (n + 1)..m
  /\ \A i, j \in DOMAIN d :
        (i < j /\ d[i].control = "inject" /\ d[j].control = "inject")
            => d[i].about < d[j].about
  /\ \A x \in (n + 1)..m :
        \E i \in DOMAIN d : d[i].control = "inject" /\ d[i].about = x

\* A growing list of c numbers that has each of those after n up to m, and no
\* others, counts them.
Growing(I, c, n, m) ==
  /\ \A k \in 1..c : I[k] \in (n + 1)..m
  /\ \A a, b \in 1..c : a < b => I[a] < I[b]
  /\ \A x \in (n + 1)..m : \E k \in 1..c : I[k] = x

LEMMA Counts ==
  ASSUME NEW c \in Nat, NEW n \in Nat, NEW m \in Nat, n <= m,
         NEW I, Growing(I, c, n, m)
  PROVE  c = m - n /\ \A k \in 1..c : I[k] = n + k
<1> USE DEF Growing
<1> DEFINE A == {k \in 0..c : \A j \in 1..k : I[j] = n + j}
<1>1. 0 \in A
  OBVIOUS
<1>2. ASSUME NEW k \in Nat, k < c, k \in A
      PROVE  k + 1 \in A
  <2>1. k + 1 \in 1..c /\ I[k + 1] \in (n + 1)..m /\ \A j \in 1..k : I[j] = n + j
    BY <1>2
  <2>2. I[k + 1] >= n + k + 1
    <3>1. CASE k = 0
      BY <2>1, <3>1
    <3>2. CASE k > 0
      <4>1. k \in 1..c /\ I[k] = n + k /\ I[k] < I[k + 1]
        BY <2>1, <3>2, <1>2
      <4> QED
        BY <2>1, <4>1
    <3> QED
      BY <3>1, <3>2
  <2>3. n + k + 1 \in (n + 1)..m
    BY <2>1, <2>2
  <2>4. PICK j \in 1..c : I[j] = n + k + 1
    BY <2>3
  <2>5. ~(j <= k)
    BY <2>1, <2>4
  <2>6. ~(k + 1 < j)
    BY <2>1, <2>2, <2>4
  <2>7. j = k + 1
    BY <2>5, <2>6
  <2>8. \A i \in 1..(k + 1) : i \in 1..k \/ i = k + 1
    OBVIOUS
  <2> QED
    BY <2>1, <2>4, <2>7, <2>8
<1>3. \A k \in 0..c : k \in A
  <2> HIDE DEF A
  <2> QED
    BY <1>1, <1>2, CountUp
<1>4. \A k \in 1..c : I[k] = n + k
  <2>1. c \in 0..c
    OBVIOUS
  <2>2. c \in A
    BY <1>3, <2>1
  <2> QED
    BY <2>2
<1>5. m > n => m - n <= c
  <2> SUFFICES ASSUME m > n PROVE m - n <= c
    OBVIOUS
  <2>1. PICK k \in 1..c : I[k] = m
    OBVIOUS
  <2> QED
    BY <1>4, <2>1
<1>6. c > 0 => n + c <= m
  <2> SUFFICES ASSUME c > 0 PROVE n + c <= m
    OBVIOUS
  <2>1. c \in 1..c /\ I[c] \in (n + 1)..m
    OBVIOUS
  <2> QED
    BY <1>4, <2>1
<1>7. c = m - n
  BY <1>5, <1>6
<1> QED
  BY <1>4, <1>7

\* The instructions of such a list.
LEMMA InstructionsCount ==
  ASSUME NEW d \in Seq(Said), NEW n \in Nat, NEW m \in Nat, n <= m,
         Numbered(d, n, m)
  PROVE  Instructions(d) = [k \in 1..(m - n) |-> n + k]
<1> DEFINE P == {i \in DOMAIN d : d[i].control = "inject"}
           J == Among(d, P)
           I == Instructions(d)
<1>0. P \in SUBSET (DOMAIN d)
  OBVIOUS
<1>1. /\ J \in Seq(Said) /\ Len(J) = Cardinality(P) /\ Cardinality(P) \in Nat
      /\ \A k \in DOMAIN J : Nth(P, k) \in P /\ J[k] = d[Nth(P, k)]
      /\ \A i \in P : Upto(P, i) \in DOMAIN J /\ J[Upto(P, i)] = d[i]
      /\ \A a, b \in DOMAIN J : a < b => Nth(P, a) < Nth(P, b)
  <2> HIDE DEF P
  <2> QED
    BY <1>0, AmongThese
<1>2. I = [k \in DOMAIN J |-> J[k].about]
  BY DEF Instructions
<1>3. DOMAIN J = 1..Cardinality(P)
  BY <1>1
<1>4. \A i \in P : i \in DOMAIN d /\ d[i].control = "inject"
  OBVIOUS
<1>5. \A i \in DOMAIN d : d[i].control = "inject" => i \in P
  OBVIOUS
<1> DEFINE c == Cardinality(P)
<1>6. c \in Nat
  BY <1>1
<1> HIDE DEF P, J, c
<1>7. \A k \in 1..c : I[k] \in (n + 1)..m
  BY <1>1, <1>2, <1>3, <1>4 DEF Numbered, c
<1>8. \A a, b \in 1..c : a < b => I[a] < I[b]
  <2> SUFFICES ASSUME NEW a \in 1..c, NEW b \in 1..c, a < b
               PROVE  I[a] < I[b]
    OBVIOUS
  <2>0. a \in DOMAIN J /\ b \in DOMAIN J
    BY <1>3 DEF c
  <2>1. /\ a \in DOMAIN J /\ b \in DOMAIN J
        /\ I[a] = d[Nth(P, a)].about /\ I[b] = d[Nth(P, b)].about
    BY <1>1, <1>2, <2>0
  <2>2. Nth(P, a) \in P /\ Nth(P, b) \in P /\ Nth(P, a) < Nth(P, b)
    BY <1>1, <2>1
  <2> QED
    BY <1>4, <2>1, <2>2 DEF Numbered
<1>9. \A x \in (n + 1)..m : \E k \in 1..c : I[k] = x
  <2> SUFFICES ASSUME NEW x \in (n + 1)..m PROVE \E k \in 1..c : I[k] = x
    OBVIOUS
  <2>1. PICK i \in DOMAIN d : d[i].control = "inject" /\ d[i].about = x
    BY DEF Numbered
  <2>2. Upto(P, i) \in DOMAIN J /\ J[Upto(P, i)] = d[i]
    BY <1>1, <1>5, <2>1
  <2> QED
    BY <1>2, <1>3, <2>1, <2>2 DEF c
<1>10. Growing(I, c, n, m)
  <2> HIDE DEF I
  <2> QED
    BY <1>7, <1>8, <1>9 DEF Growing
<1>11. c = m - n /\ \A k \in 1..c : I[k] = n + k
  <2> HIDE DEF I
  <2> QED
    BY <1>6, <1>10, Counts
<1>12. I = [k \in DOMAIN J |-> I[k]]
  BY <1>2
<1> QED
  BY <1>3, <1>11, <1>12 DEF c

\* Taking commands that are no instructions takes none.
LEMMA NumberedAmong ==
  ASSUME NEW d \in Seq(Said), NEW n \in Nat, NEW m \in Nat, Numbered(d, n, m),
         NEW P \in SUBSET (DOMAIN d),
         \A i \in DOMAIN d : d[i].control = "inject" => i \in P
  PROVE  Numbered(Among(d, P), n, m)
<1> DEFINE J == Among(d, P)
<1>1. /\ \A k \in DOMAIN J : Nth(P, k) \in P /\ J[k] = d[Nth(P, k)]
      /\ \A i \in P : Upto(P, i) \in DOMAIN J /\ J[Upto(P, i)] = d[i]
      /\ \A a, b \in DOMAIN J : a < b => Nth(P, a) < Nth(P, b)
  BY AmongThese
<1> HIDE DEF J
<1>2. \A k \in DOMAIN J : J[k].control = "inject" => J[k].about \in (n + 1)..m
  BY <1>1 DEF Numbered
<1>3. ASSUME NEW a \in DOMAIN J, NEW b \in DOMAIN J, a < b,
             J[a].control = "inject", J[b].control = "inject"
      PROVE  J[a].about < J[b].about
  <2>1. /\ Nth(P, a) \in DOMAIN d /\ Nth(P, b) \in DOMAIN d
        /\ Nth(P, a) < Nth(P, b)
        /\ J[a] = d[Nth(P, a)] /\ J[b] = d[Nth(P, b)]
    BY <1>1, <1>3
  <2> QED
    BY <1>3, <2>1 DEF Numbered
<1>4. ASSUME NEW x \in (n + 1)..m
      PROVE  \E k \in DOMAIN J : J[k].control = "inject" /\ J[k].about = x
  <2>1. PICK i \in DOMAIN d : d[i].control = "inject" /\ d[i].about = x
    BY DEF Numbered
  <2>2. Upto(P, i) \in DOMAIN J /\ J[Upto(P, i)] = d[i]
    BY <1>1, <2>1
  <2> QED
    BY <2>1, <2>2
<1> QED
  BY <1>2, <1>3, <1>4 DEF Numbered, J

\* What is said last comes last.
LEMMA NumberedAppend ==
  ASSUME NEW d \in Seq(Said), NEW n \in Nat, NEW m \in Nat, n <= m,
         Numbered(d, n, m), NEW e \in Said,
         e.control = "inject" => e.about = m + 1
  PROVE  Numbered(Append(d, e), n, IF e.control = "inject" THEN m + 1 ELSE m)
<1> DEFINE D == Append(d, e)
           M == IF e.control = "inject" THEN m + 1 ELSE m
<1>1. /\ Len(d) \in Nat /\ DOMAIN d = 1..Len(d) /\ DOMAIN D = 1..(Len(d) + 1)
      /\ \A i \in DOMAIN d : D[i] = d[i]
      /\ D[Len(d) + 1] = e
  OBVIOUS
<1>2. \A i \in DOMAIN D : i \in DOMAIN d \/ i = Len(d) + 1
  BY <1>1
<1> HIDE DEF D
<1>3. \A i \in DOMAIN D : D[i].control = "inject" => D[i].about \in (n + 1)..M
  BY <1>1, <1>2 DEF Numbered
<1>4. ASSUME NEW i \in DOMAIN D, NEW j \in DOMAIN D, i < j,
             D[i].control = "inject", D[j].control = "inject"
      PROVE  D[i].about < D[j].about
  <2>1. i \in DOMAIN d /\ D[i] = d[i]
    BY <1>1, <1>2, <1>4
  <2>2. CASE j \in DOMAIN d
    BY <1>1, <1>4, <2>1, <2>2 DEF Numbered
  <2>3. CASE j = Len(d) + 1
    BY <1>1, <1>4, <2>1, <2>3 DEF Numbered
  <2> QED
    BY <1>2, <2>2, <2>3
<1>5. ASSUME NEW x \in (n + 1)..M
      PROVE  \E i \in DOMAIN D : D[i].control = "inject" /\ D[i].about = x
  <2>1. CASE x \in (n + 1)..m
    <3>1. PICK i \in DOMAIN d : d[i].control = "inject" /\ d[i].about = x
      BY <2>1 DEF Numbered
    <3> QED
      BY <1>1, <3>1
  <2>2. CASE x \notin (n + 1)..m
    <3>1. e.control = "inject" /\ x = m + 1
      BY <2>2
    <3>2. Len(d) + 1 \in DOMAIN D
      BY <1>1
    <3> QED
      BY <1>1, <3>1, <3>2
  <2> QED
    BY <2>1, <2>2
<1> QED
  BY <1>3, <1>4, <1>5 DEF Numbered, D

-----------------------------------------------------------------------------
\* What a step of the loop does to what waits: nothing, all of it is taken, a
\* part is taken that holds no instruction, or one more comes in.
Untouched == Channel' /\ Drained' = Drained

LEMMA ChannelFacts ==
  ASSUME Channel
  PROVE  /\ Drained \in Seq(Said) /\ Len(Drained) \in Nat
         /\ DOMAIN Drained = 1..Len(Drained)
         /\ UNCHANGED channel => Untouched
         /\ Keep(Drained) => Untouched
         /\ \A c \in Seq(Said) : Keep(c) => Channel' /\ Drained' = c
         /\ Poll => Channel' /\ Drained' = <<>>
<1>1. Drained \in Seq(Said)
  BY DEF Channel, Drained
<1>2. ASSUME NEW c \in Seq(Said), Keep(c)
      PROVE  Channel' /\ Drained' = c
  <2>1. held' = c /\ queue' = <<>>
    BY <1>2 DEF Keep
  <2>2. c \o <<>> = c
    OBVIOUS
  <2> QED
    BY <2>1, <2>2 DEF Channel, Drained
<1>3. UNCHANGED channel => Untouched
  BY DEF channel, Untouched, Channel, Drained
<1>4. Keep(Drained) => Untouched
  BY <1>1, <1>2 DEF Untouched
<1>5. Poll => Channel' /\ Drained' = <<>>
  <2>1. <<>> \in Seq(Said)
    OBVIOUS
  <2> QED
    BY <1>2, <2>1 DEF Poll
<1> QED
  BY <1>1, <1>2, <1>3, <1>4, <1>5

\* Whoever asks for cancel_step takes nothing else.
LEMMA CancelStepTakes ==
  ASSUME Channel, PollCancelStep
  PROVE  \E P \in SUBSET (DOMAIN Drained) :
            /\ Channel' /\ Drained' = Among(Drained, P)
            /\ \A i \in DOMAIN Drained : Drained[i].control # "cancel_step" => i \in P
<1> DEFINE P == {i \in DOMAIN Drained : ~IsCancelStep(Drained[i])}
<1>1. Drained \in Seq(Said) /\ P \in SUBSET (DOMAIN Drained)
  BY ChannelFacts
<1>2. Among(Drained, P) \in Seq(Said)
  BY <1>1, AmongThese
<1>3. Keep(Among(Drained, P))
  BY DEF PollCancelStep
<1>4. \A i \in DOMAIN Drained : Drained[i].control # "cancel_step" => i \in P
  BY DEF IsCancelStep
<1> HIDE DEF P
<1>5. Channel' /\ Drained' = Among(Drained, P)
  BY <1>2, <1>3, ChannelFacts
<1> QED
  BY <1>1, <1>4, <1>5

\* The first answer to a gate.
FirstAnswer(d, g, i) ==
  /\ i \in DOMAIN d /\ Answers(d[i], g)
  /\ \A j \in DOMAIN d : j < i => ~Answers(d[j], g)

LEMMA SeekFinds ==
  ASSUME Channel, NEW g, Seek(g) > 0
  PROVE  FirstAnswer(Drained, g, Seek(g))
<1> DEFINE S == {i \in 1..Len(Drained) : Answers(Drained[i], g)}
<1>1. Drained \in Seq(Said) /\ Len(Drained) \in Nat /\ DOMAIN Drained = 1..Len(Drained)
  BY ChannelFacts
<1>2. Seek(g) = IF S # {} THEN Min(S) ELSE 0
  BY DEF Seek, SelectInSeq
<1>3. S # {}
  BY <1>2
<1>4. S \in SUBSET Nat
  OBVIOUS
<1> DEFINE k == Min(S)
<1>5. k \in S /\ \A j \in S : k <= j
  <2>1. \E m \in S : \A j \in S : m =< j
    <3> HIDE DEF S
    <3> QED
      BY <1>3, <1>4, LeastNatural
  <2> HIDE DEF S
  <2> QED
    BY <2>1 DEF Min
<1>6. Seek(g) = k
  BY <1>2, <1>3
<1> HIDE DEF k
<1>7. k \in DOMAIN Drained /\ Answers(Drained[k], g)
  BY <1>1, <1>5
<1>8. ASSUME NEW j \in DOMAIN Drained, j < k
      PROVE  ~Answers(Drained[j], g)
  <2>1. j \in Nat /\ k \in Nat
    BY <1>1, <1>7, <1>8
  <2> QED
    BY <1>1, <1>5, <1>8, <2>1
<1> QED
  BY <1>6, <1>7, <1>8 DEF FirstAnswer

\* Whoever takes an answer takes nothing else.
LEMMA TakeTakes ==
  ASSUME Channel, NEW i, Take(i)
  PROVE  \E P \in SUBSET (DOMAIN Drained) :
            /\ Channel' /\ Drained' = Among(Drained, P)
            /\ \A j \in DOMAIN Drained : j # i => j \in P
<1> DEFINE P == DOMAIN Drained \ {i}
<1>1. Drained \in Seq(Said) /\ P \in SUBSET (DOMAIN Drained)
  BY ChannelFacts
<1>2. Among(Drained, P) \in Seq(Said)
  BY <1>1, AmongThese
<1>3. Keep(Among(Drained, P))
  BY DEF Take
<1>4. \A j \in DOMAIN Drained : j # i => j \in P
  OBVIOUS
<1> HIDE DEF P
<1>5. Channel' /\ Drained' = Among(Drained, P)
  BY <1>2, <1>3, ChannelFacts
<1> QED
  BY <1>1, <1>4, <1>5

\* What is offered comes last.
LEMMA OfferAppends ==
  ASSUME Channel, NEW e \in Said, Offer(e)
  PROVE  Channel' /\ Drained' = Append(Drained, e)
<1>1. held' = held /\ queue' = Append(queue, e)
  BY DEF Offer
<1>2. held \in Seq(Said) /\ queue \in Seq(Said)
  BY DEF Channel
<1>3. held \o Append(queue, e) = Append(held \o queue, e)
  BY <1>2
<1> QED
  BY <1>1, <1>2, <1>3 DEF Channel, Drained

-----------------------------------------------------------------------------
\* The model was shown the first of the operator's instructions, and the rest
\* are waiting, in order.
InjectInv ==
  /\ Channel /\ gates \in Nat /\ injected \in Nat
  /\ Len(shown) \in Nat /\ shown = [k \in 1..Len(shown) |-> k]
  /\ Len(shown) <= injected
  /\ Numbered(Drained, Len(shown), injected)

LEMMA InjectInvStart == Init => InjectInv
<1> SUFFICES ASSUME Init PROVE InjectInv
  OBVIOUS
<1>1. held = <<>> /\ queue = <<>> /\ injected = 0 /\ shown = <<>> /\ gates = 0
  BY DEF Init, ChannelInit
<1>2. Drained = <<>> /\ <<>> \in Seq(Said)
  BY <1>1 DEF Drained
<1>3. Len(shown) = 0 /\ shown = [k \in 1..Len(shown) |-> k]
  BY <1>1
<1>4. Numbered(Drained, 0, 0)
  BY <1>2 DEF Numbered
<1> QED
  BY <1>1, <1>2, <1>3, <1>4 DEF InjectInv, Channel

\* A part is taken that holds no instruction.
LEMMA InjectTaken ==
  ASSUME InjectInv, UNCHANGED <<injected, shown>>, gates' \in Nat,
         NEW P \in SUBSET (DOMAIN Drained), Channel', Drained' = Among(Drained, P),
         \A i \in DOMAIN Drained : Drained[i].control = "inject" => i \in P
  PROVE  InjectInv'
<1>1. Drained \in Seq(Said)
  BY ChannelFacts DEF InjectInv
<1>2. Numbered(Among(Drained, P), Len(shown), injected)
  BY <1>1, NumberedAmong DEF InjectInv
<1> QED
  BY <1>2 DEF InjectInv

LEMMA InjectCancelStep ==
  ASSUME InjectInv, UNCHANGED <<injected, shown>>, gates' \in Nat, PollCancelStep
  PROVE  InjectInv'
<1>1. PICK P \in SUBSET (DOMAIN Drained) :
         /\ Channel' /\ Drained' = Among(Drained, P)
         /\ \A i \in DOMAIN Drained : Drained[i].control # "cancel_step" => i \in P
  BY CancelStepTakes DEF InjectInv
<1>2. \A i \in DOMAIN Drained : Drained[i].control = "inject" => i \in P
  BY <1>1
<1> QED
  BY <1>1, <1>2, InjectTaken

LEMMA InjectOffer ==
  ASSUME InjectInv, UNCHANGED <<gates, shown>>, NEW e \in Said, Offer(e),
         e.control = "inject" => e.about = injected + 1,
         injected' = IF e.control = "inject" THEN injected + 1 ELSE injected
  PROVE  InjectInv'
<1>1. Drained \in Seq(Said) /\ Channel' /\ Drained' = Append(Drained, e)
  BY ChannelFacts, OfferAppends DEF InjectInv
<1>2. Numbered(Append(Drained, e), Len(shown), injected')
  <2>1. Numbered(Append(Drained, e), Len(shown),
                 IF e.control = "inject" THEN injected + 1 ELSE injected)
    BY <1>1, NumberedAppend DEF InjectInv
  <2> QED
    BY <2>1
<1>3. injected' \in Nat /\ injected' >= injected
  BY DEF InjectInv
<1> QED
  BY <1>1, <1>2, <1>3 DEF InjectInv

\* All that waits is taken, and its instructions are shown.
LEMMA InjectShown ==
  ASSUME InjectInv, NEW stuck \in BOOLEAN, Steer(stuck)
  PROVE  InjectInv'
<1> DEFINE n == Len(shown)
           m == injected
<1>1. /\ n \in Nat /\ m \in Nat /\ n <= m /\ shown = [k \in 1..n |-> k]
      /\ Drained \in Seq(Said) /\ Numbered(Drained, n, m)
  BY ChannelFacts DEF InjectInv
<1>2. shown' = shown \o Instructions(Drained) /\ UNCHANGED <<injected, gates>> /\ Poll
  BY DEF Steer, operator
<1>3. Instructions(Drained) = [k \in 1..(m - n) |-> n + k]
  BY <1>1, InstructionsCount
<1> DEFINE I == [k \in 1..(m - n) |-> n + k]
<1>4. shown' = shown \o I
  BY <1>2, <1>3
<1>5. /\ shown \in Seq(Nat) /\ Len(shown) = n
      /\ I \in Seq(Nat) /\ Len(I) = m - n
      /\ \A k \in 1..n : shown[k] = k
  BY <1>1
<1> HIDE DEF n, m
<1>6. /\ Len(shown \o I) = m /\ DOMAIN (shown \o I) = 1..m
      /\ shown \o I = [k \in 1..m |-> (shown \o I)[k]]
  BY <1>1, <1>5
<1>7. \A k \in 1..m : (shown \o I)[k] = k
  <2> SUFFICES ASSUME NEW k \in 1..m PROVE (shown \o I)[k] = k
    OBVIOUS
  <2>1. CASE k <= n
    <3>1. (shown \o I)[k] = shown[k]
      BY <1>1, <1>5, <2>1
    <3> QED
      BY <1>1, <1>5, <2>1, <3>1
  <2>2. CASE k > n
    <3>1. k - n \in 1..(m - n)
      BY <1>1, <2>2
    <3>2. (shown \o I)[k] = I[k - n]
      BY <1>1, <1>5, <2>2
    <3> QED
      BY <1>1, <3>1, <3>2
  <2> QED
    BY <1>1, <2>1, <2>2
<1>8. shown' = [k \in 1..m |-> k] /\ Len(shown') = m
  BY <1>4, <1>6, <1>7
<1>9. Channel' /\ Drained' = <<>>
  BY <1>2, ChannelFacts DEF InjectInv
<1>10. Numbered(<<>>, m, m)
  <2>1. (m + 1)..m = {}
    BY <1>1
  <2> QED
    BY <2>1 DEF Numbered
<1> QED
  BY <1>1, <1>2, <1>8, <1>9, <1>10 DEF InjectInv, m

LEMMA InjectInvStep == InjectInv /\ [Next]_vars => InjectInv'
<1> SUFFICES ASSUME InjectInv, [Next]_vars PROVE InjectInv'
  OBVIOUS
<1>0. gates \in Nat
  BY DEF InjectInv
<1>1. ASSUME UNCHANGED <<injected, shown, channel>>, gates' \in Nat PROVE InjectInv'
  <2>1. Untouched
    BY <1>1, ChannelFacts DEF InjectInv
  <2> QED
    BY <1>1, <2>1 DEF InjectInv, Untouched
<1>2. ASSUME UNCHANGED <<injected, shown>>, gates' \in Nat, Keep(Drained)
      PROVE  InjectInv'
  <2>1. Untouched
    BY <1>2, ChannelFacts DEF InjectInv
  <2> QED
    BY <1>2, <2>1 DEF InjectInv, Untouched
<1>3. CASE Operator
  <2>0. UNCHANGED <<gates, shown>>
    BY <1>3 DEF Operator, mission, history
  <2>1. CASE OfferInject
    <3>1. injected + 1 \in Nat
      BY DEF InjectInv
    <3>2. /\ Inject(injected + 1) \in Said
          /\ Inject(injected + 1).control = "inject"
          /\ Inject(injected + 1).about = injected + 1
      BY <3>1 DEF Inject, Said
    <3> QED
      BY <2>0, <2>1, <3>2, InjectOffer DEF OfferInject
  <2>2. CASE OfferCancelStep
    <3>1. CancelStep \in Said /\ CancelStep.control # "inject"
      BY DEF CancelStep, Said
    <3> QED
      BY <2>0, <2>2, <3>1, InjectOffer DEF OfferCancelStep
  <2>3. ASSUME NEW g \in 1..gates, NEW yes \in BOOLEAN, OfferDecision(g, yes)
        PROVE  InjectInv'
    <3>1. Decision(g, yes) \in Said /\ Decision(g, yes).control # "inject"
      BY <1>0 DEF Decision, Said
    <3> QED
      BY <2>0, <2>3, <3>1, InjectOffer DEF OfferDecision
  <2>4. CASE Throw \/ WriterGoes
    BY <1>0, <1>1, <2>0, <2>4 DEF Throw, WriterGoes
  <2> QED
    BY <1>3, <2>1, <2>2, <2>3, <2>4 DEF Operator
<1>4. CASE CriticAnswers \/ ClockRunsOut \/ WindowOver \/ Over \/ UNCHANGED vars
  BY <1>0, <1>1, <1>4 DEF CriticAnswers, ClockRunsOut, WindowOver, Over, vars,
     operator, history
<1>5. CASE Interrupted
  BY <1>0, <1>1, <1>5 DEF Interrupted, operator, history
<1>6. CASE Loop
  <2> USE DEF End, Goto, operator, history
  <2>1. CASE OutOfSteps \/ WindUpIsOver \/ StopHeard \/ Boundary
    BY <1>0, <1>1, <2>1 DEF OutOfSteps, WindUpIsOver, StopHeard, Boundary
  <2>2. ASSUME NEW stuck \in BOOLEAN, Steer(stuck) PROVE InjectInv'
    BY <2>2, InjectShown
  <2>3. CASE ModelRaises \/ ContinuationStalls \/ ModelSaysNothing
    BY <1>0, <1>1, <2>3 DEF ModelRaises, ContinuationStalls, ModelSaysNothing
  <2>4. ASSUME NEW b \in BOOLEAN, ModelIsCutOff(b) \/ ModelRunsOut(b) \/ ModelAnswers(b)
        PROVE  InjectInv'
    BY <1>0, <1>1, <2>4 DEF ModelIsCutOff, ModelRunsOut, ModelAnswers
  <2>5. ASSUME NEW calls \in Replies, NEW alongside \in BOOLEAN,
               ModelCalls(calls, alongside)
        PROVE  InjectInv'
    BY <1>0, <1>1, <2>5 DEF ModelCalls
  <2>6. CASE SkipCall \/ CheckCall
    <3>1. UNCHANGED <<injected, shown, gates>> /\ (UNCHANGED channel \/ PollCancelStep)
      BY <2>6 DEF SkipCall, CheckCall, Passed
    <3> QED
      BY <1>0, <1>1, <3>1, InjectCancelStep
  <2>7. CASE Propose \/ NobodyToWaitFor \/ GateNaps
    <3>1. UNCHANGED <<injected, shown, channel>> /\ gates' \in {gates, gates + 1}
      BY <2>7 DEF Propose, NobodyToWaitFor, GateNaps
    <3> QED
      BY <1>0, <1>1, <3>1
  <2>8. CASE NothingYet
    BY <1>0, <1>2, <2>8 DEF NothingYet
  <2>9. ASSUME NEW recorded \in BOOLEAN, GateAnswered(recorded) PROVE InjectInv'
    <3> DEFINE i == Seek(gates)
    <3>1. UNCHANGED <<injected, shown, gates>> /\ i > 0 /\ Take(i)
      BY <2>9 DEF GateAnswered, Passed
    <3>2. FirstAnswer(Drained, gates, i)
      BY <3>1, SeekFinds DEF InjectInv
    <3>3. PICK P \in SUBSET (DOMAIN Drained) :
             /\ Channel' /\ Drained' = Among(Drained, P)
             /\ \A j \in DOMAIN Drained : j # i => j \in P
      BY <3>1, TakeTakes DEF InjectInv
    <3>4. \A j \in DOMAIN Drained : Drained[j].control = "inject" => j \in P
      BY <3>2, <3>3 DEF FirstAnswer, Answers
    <3> QED
      BY <1>0, <3>1, <3>3, <3>4, InjectTaken
  <2>10. CASE StopCheck \/ Dispatch
    BY <1>0, <1>1, <2>10 DEF StopCheck, Dispatch
  <2>11. CASE LastCheck
    <3>1. UNCHANGED <<injected, shown, gates>> /\ PollCancelStep
      BY <2>11 DEF LastCheck, Passed
    <3> QED
      BY <1>0, <3>1, InjectCancelStep
  <2>12. CASE ToolReturns \/ ToolRaises
    BY <1>0, <1>1, <2>12 DEF ToolReturns, ToolRaises, Passed
  <2>13. CASE Repair \/ Unchecked \/ VerdictGiven
    BY <1>0, <1>1, <2>13 DEF Repair, Unchecked, VerdictGiven, AnswerOut
  <2>14. ASSUME NEW caveat \in BOOLEAN, Judged(caveat) PROVE InjectInv'
    BY <1>0, <1>1, <2>14 DEF Judged
  <2>15. CASE Reflected \/ Finish
    BY <1>0, <1>1, <2>15 DEF Reflected, Finish
  <2> QED
    BY <1>6, <2>1, <2>2, <2>3, <2>4, <2>5, <2>6, <2>7, <2>8, <2>9, <2>10, <2>11,
       <2>12, <2>13, <2>14, <2>15 DEF Loop
<1> QED
  BY <1>3, <1>4, <1>5, <1>6 DEF Next

\* However many instructions an operator sends, and whatever the loop was
\* looking for whenever it drained the channel, what the model was shown and
\* what still waits are all of them, once each, in the order they were sent.
THEOREM InstructionsInOrder == Spec => []InjectionsInOrder
<1>1. InjectInv => InjectionsInOrder
  <2> SUFFICES ASSUME InjectInv PROVE InjectionsInOrder
    OBVIOUS
  <2> DEFINE n == Len(shown)
             m == injected
             I == [k \in 1..(m - n) |-> n + k]
  <2>1. /\ n \in Nat /\ m \in Nat /\ n <= m /\ shown = [k \in 1..n |-> k]
        /\ Drained \in Seq(Said) /\ Numbered(Drained, n, m)
    BY ChannelFacts DEF InjectInv
  <2>2. Instructions(Drained) = I
    BY <2>1, InstructionsCount
  <2>3. /\ shown \in Seq(Nat) /\ Len(shown) = n
        /\ I \in Seq(Nat) /\ Len(I) = m - n
    BY <2>1
  <2> HIDE DEF n, m
  <2>4. shown \o I = [k \in 1..m |-> k]
    BY <2>1, <2>3
  <2> QED
    BY <2>2, <2>4 DEF InjectionsInOrder, m
<1> QED
  BY InjectInvStart, InjectInvStep, <1>1, PTL DEF Spec

-----------------------------------------------------------------------------
\* The gates.  Nobody has spoken about one that is not open yet; and while the
\* run stands at one, what waits says what was decided about it first.
Standing == {"gate", "nap"}

Decided(d, g, word) ==
  /\ word = "none" => \A i \in DOMAIN d : ~Answers(d[i], g)
  /\ word # "none" => \E i \in DOMAIN d : Answers(d[i], g)
  /\ \A i \in DOMAIN d :
        FirstAnswer(d, g, i) => word = IF d[i].approve THEN "yes" ELSE "no"

OpenInv ==
  /\ Channel /\ gates \in 0..MaxGates
  /\ decided \in [1..MaxGates -> {"none", "yes", "no"}]
  /\ opened \subseteq 1..MaxGates
  /\ \A g \in opened : decided[g] = "yes"
  /\ \A i \in DOMAIN Drained :
        Drained[i].control = "gate_decision" => Drained[i].about <= gates
  /\ \A g \in 1..MaxGates : g > gates => decided[g] = "none"
  /\ pc \in Standing => gates >= 1 /\ Decided(Drained, gates, decided[gates])

LEMMA OpenInvStart == Init => OpenInv
<1> SUFFICES ASSUME Init PROVE OpenInv
  OBVIOUS
<1>1. /\ held = <<>> /\ queue = <<>> /\ gates = 0 /\ opened = {} /\ pc = "top"
      /\ decided = [g \in 1..MaxGates |-> "none"]
  BY DEF Init, ChannelInit
<1>2. Drained = <<>> /\ <<>> \in Seq(Said) /\ DOMAIN Drained = {}
  BY <1>1 DEF Drained
<1>3. decided \in [1..MaxGates -> {"none", "yes", "no"}]
      /\ \A g \in 1..MaxGates : decided[g] = "none"
  BY <1>1
<1> QED
  BY <1>1, <1>2, <1>3, ChannelAssumption DEF OpenInv, Channel, Standing

\* Some of what waits is taken, away from any gate.
LEMMA OpenTaken ==
  ASSUME OpenInv, UNCHANGED <<gates, decided>>, pc' \notin Standing, Channel',
         opened' \subseteq 1..MaxGates, \A g \in opened' : decided[g] = "yes",
         \A i \in DOMAIN Drained' : \E j \in DOMAIN Drained : Drained'[i] = Drained[j]
  PROVE  OpenInv'
  BY DEF OpenInv

LEMMA OpenAmong ==
  ASSUME OpenInv, UNCHANGED <<gates, decided>>, pc' \notin Standing, Channel',
         opened' \subseteq 1..MaxGates, \A g \in opened' : decided[g] = "yes",
         NEW P \in SUBSET (DOMAIN Drained), Drained' = Among(Drained, P)
  PROVE  OpenInv'
<1>1. Drained \in Seq(Said)
  BY ChannelFacts DEF OpenInv
<1>2. \A i \in DOMAIN Drained' : \E j \in DOMAIN Drained : Drained'[i] = Drained[j]
  BY <1>1, AmongThese
<1> QED
  BY <1>2, OpenTaken

LEMMA OpenCancelStep ==
  ASSUME OpenInv, UNCHANGED <<gates, decided, opened>>, pc' \notin Standing,
         PollCancelStep
  PROVE  OpenInv'
<1>1. PICK P \in SUBSET (DOMAIN Drained) : Channel' /\ Drained' = Among(Drained, P)
  BY CancelStepTakes DEF OpenInv
<1> QED
  BY <1>1, OpenAmong DEF OpenInv

LEMMA OpenKept ==
  ASSUME OpenInv, UNCHANGED <<gates, decided, opened>>,
         UNCHANGED channel \/ Keep(Drained),
         pc' \in Standing => pc \in Standing
  PROVE  OpenInv'
<1>1. Channel' /\ Drained' = Drained
  BY ChannelFacts DEF OpenInv, Untouched
<1> QED
  BY <1>1 DEF OpenInv

\* Somebody speaks, of a gate that is open or of something else.
LEMMA OpenOffer ==
  ASSUME OpenInv, UNCHANGED <<gates, opened, pc>>, NEW e \in Said, Offer(e),
         NEW g \in 0..gates, e.control = "gate_decision" <=> g # 0,
         g # 0 => e.about = g,
         decided' = IF g # 0 /\ decided[g] = "none"
                    THEN [decided EXCEPT ![g] = IF e.approve THEN "yes" ELSE "no"]
                    ELSE decided
  PROVE  OpenInv'
<1> DEFINE d == Drained
           D == Append(d, e)
<1>1. /\ d \in Seq(Said) /\ Channel' /\ Drained' = D
      /\ Len(d) \in Nat /\ DOMAIN d = 1..Len(d)
  BY ChannelFacts, OfferAppends DEF OpenInv
<1>2. /\ DOMAIN D = 1..(Len(d) + 1)
      /\ \A i \in DOMAIN d : D[i] = d[i] /\ i \in DOMAIN D
      /\ D[Len(d) + 1] = e /\ Len(d) + 1 \in DOMAIN D
      /\ \A i \in DOMAIN D : i \in DOMAIN d \/ i = Len(d) + 1
      /\ \A i \in DOMAIN d : i < Len(d) + 1
  BY <1>1
<1>3. gates \in Nat /\ gates <= MaxGates /\ g \in Nat /\ g <= gates
  BY ChannelAssumption DEF OpenInv
<1>4. decided' \in [1..MaxGates -> {"none", "yes", "no"}]
  BY <1>3 DEF OpenInv
<1>5. \A h \in 1..MaxGates : h # g \/ decided[h] # "none" => decided'[h] = decided[h]
  BY <1>3 DEF OpenInv
<1>6. \A h \in opened : decided'[h] = "yes"
  BY <1>5 DEF OpenInv
<1>7. \A i \in DOMAIN D : D[i].control = "gate_decision" => D[i].about <= gates
  <2>1. \A i \in DOMAIN d : d[i].control = "gate_decision" => d[i].about <= gates
    BY DEF OpenInv
  <2> QED
    BY <1>2, <1>3, <2>1
<1>8. \A h \in 1..MaxGates : h > gates => decided'[h] = "none"
  BY <1>3, <1>5 DEF OpenInv
<1>9. ASSUME pc \in Standing
      PROVE  gates >= 1 /\ Decided(D, gates, decided'[gates])
  <2>1. gates >= 1 /\ gates \in 1..MaxGates /\ Decided(d, gates, decided[gates])
    BY <1>3, <1>9 DEF OpenInv
  <2> HIDE DEF D, d
  <2>2. CASE g = gates /\ decided[gates] = "none"
    <3>1. decided'[gates] = IF e.approve THEN "yes" ELSE "no"
      BY <1>3, <2>1, <2>2 DEF OpenInv
    <3>2. \A i \in DOMAIN d : ~Answers(d[i], gates)
      BY <2>1, <2>2 DEF Decided
    <3>3. Answers(e, gates)
      BY <2>1, <2>2 DEF Answers
    <3>4. \A i \in DOMAIN D : FirstAnswer(D, gates, i) => D[i] = e
      BY <1>2, <3>2 DEF FirstAnswer
    <3>5. decided'[gates] # "none"
      BY <3>1
    <3> QED
      BY <1>2, <2>1, <3>1, <3>3, <3>4, <3>5 DEF Decided
  <2>3. CASE g # gates
    <3>1. decided'[gates] = decided[gates]
      BY <1>5, <2>1, <2>3
    <3>2. ~Answers(e, gates)
      BY <2>1, <2>3 DEF Answers
    <3>3. \A i \in DOMAIN D : Answers(D[i], gates) => i \in DOMAIN d /\ D[i] = d[i]
      BY <1>2, <3>2
    <3>4. \A i \in DOMAIN D : FirstAnswer(D, gates, i) => FirstAnswer(d, gates, i)
      BY <1>2, <3>3 DEF FirstAnswer
    <3> QED
      BY <1>2, <2>1, <3>1, <3>3, <3>4 DEF Decided, FirstAnswer
  <2>4. CASE g = gates /\ decided[gates] # "none"
    <3>1. decided'[gates] = decided[gates]
      BY <1>5, <2>1, <2>4
    <3>2. PICK k \in DOMAIN d : Answers(d[k], gates)
      BY <2>1, <2>4 DEF Decided
    <3>3. \A i \in DOMAIN D : FirstAnswer(D, gates, i) => i \in DOMAIN d /\ D[i] = d[i]
      <4>1. k \in DOMAIN D /\ D[k] = d[k] /\ k < Len(d) + 1
        BY <1>2
      <4> QED
        BY <1>2, <3>2, <4>1 DEF FirstAnswer
    <3>4. \A i \in DOMAIN D : FirstAnswer(D, gates, i) => FirstAnswer(d, gates, i)
      BY <1>2, <3>3 DEF FirstAnswer
    <3> QED
      BY <1>2, <2>1, <2>4, <3>1, <3>2, <3>3, <3>4 DEF Decided
  <2> QED
    BY <2>2, <2>3, <2>4
<1>10. opened' \subseteq 1..MaxGates
  BY DEF OpenInv
<1>11. gates' \in 0..MaxGates
  BY DEF OpenInv
<1> QED
  BY <1>1, <1>4, <1>6, <1>7, <1>8, <1>9, <1>10, <1>11 DEF OpenInv

\* A gate is opened.
LEMMA OpenPropose ==
  ASSUME OpenInv, Propose
  PROVE  OpenInv'
<1>1. /\ gates' = gates + 1 /\ gates < MaxGates /\ UNCHANGED <<decided, opened, channel>>
  BY DEF Propose, Goto, operator
<1>2. Channel' /\ Drained' = Drained
  BY <1>1, ChannelFacts DEF OpenInv, Untouched
<1>3. gates \in Nat /\ gates' \in 1..MaxGates /\ gates' > gates
  BY <1>1, ChannelAssumption DEF OpenInv
<1>4. \A i \in DOMAIN Drained : Drained[i].control = "gate_decision"
                                   => Drained[i].about \in Nat /\ Drained[i].about <= gates
  <2>1. Drained \in Seq(Said)
    BY ChannelFacts DEF OpenInv
  <2>2. \A i \in DOMAIN Drained : Drained[i] \in Said
    BY <2>1
  <2>3. \A i \in DOMAIN Drained : Drained[i].about \in Nat
    BY <2>2 DEF Said
  <2>4. \A i \in DOMAIN Drained :
           Drained[i].control = "gate_decision" => Drained[i].about <= gates
    BY DEF OpenInv
  <2> QED
    BY <2>3, <2>4
<1>5. \A i \in DOMAIN Drained : ~Answers(Drained[i], gates')
  BY <1>3, <1>4 DEF Answers
<1>6. decided'[gates'] = "none"
  BY <1>1, <1>3 DEF OpenInv
<1>7. Decided(Drained', gates', decided'[gates'])
  BY <1>2, <1>5, <1>6 DEF Decided, FirstAnswer
<1>8. \A g \in 1..MaxGates : g > gates' => decided'[g] = "none"
  BY <1>1, <1>3 DEF OpenInv
<1>9. \A i \in DOMAIN Drained' :
         Drained'[i].control = "gate_decision" => Drained'[i].about <= gates'
  BY <1>2, <1>3, <1>4
<1>10. /\ decided' \in [1..MaxGates -> {"none", "yes", "no"}]
       /\ opened' \subseteq 1..MaxGates /\ \A g \in opened' : decided'[g] = "yes"
       /\ gates' \in 0..MaxGates /\ gates' >= 1
  BY <1>1, <1>3 DEF OpenInv
<1> QED
  BY <1>2, <1>7, <1>8, <1>9, <1>10 DEF OpenInv

\* A gate is answered, with the first answer there was.
LEMMA OpenAnswered ==
  ASSUME OpenInv, NEW recorded \in BOOLEAN, GateAnswered(recorded)
  PROVE  OpenInv'
<1> DEFINE i == Seek(gates)
<1>1. /\ pc = "gate" /\ i > 0 /\ Take(i) /\ UNCHANGED <<gates, decided>>
      /\ pc' \notin Standing
      /\ opened' = opened \/ (Drained[i].approve /\ opened' = opened \cup {gates})
  BY DEF GateAnswered, Passed, End, Goto, operator, Standing
<1>2. FirstAnswer(Drained, gates, i)
  BY <1>1, SeekFinds DEF OpenInv
<1>3. /\ gates \in 1..MaxGates
      /\ decided[gates] = IF Drained[i].approve THEN "yes" ELSE "no"
  <2>1. gates >= 1 /\ Decided(Drained, gates, decided[gates])
    BY <1>1 DEF OpenInv, Standing
  <2>2. i \in DOMAIN Drained
    BY <1>2 DEF FirstAnswer
  <2>3. gates \in 1..MaxGates
    BY <2>1, ChannelAssumption DEF OpenInv
  <2> QED
    BY <1>2, <2>1, <2>2, <2>3 DEF Decided
<1>4. PICK P \in SUBSET (DOMAIN Drained) : Channel' /\ Drained' = Among(Drained, P)
  BY <1>1, TakeTakes DEF OpenInv
<1> HIDE DEF i
<1>5. opened' \subseteq 1..MaxGates /\ \A g \in opened' : decided[g] = "yes"
  BY <1>1, <1>3 DEF OpenInv
<1> QED
  BY <1>1, <1>4, <1>5, OpenAmong

LEMMA OpenInvStep == OpenInv /\ InjectInv /\ [Next]_vars => OpenInv'
<1> SUFFICES ASSUME OpenInv, InjectInv, [Next]_vars PROVE OpenInv'
  OBVIOUS
<1>0. gates \in Nat
  BY ChannelAssumption DEF OpenInv
<1>3. CASE Operator
  <2>0. UNCHANGED <<gates, opened, pc>> /\ 0 \in 0..gates
    BY <1>0, <1>3 DEF Operator, mission, history
  <2>1. CASE OfferInject
    <3>1. Inject(injected + 1) \in Said
      <4>1. injected + 1 \in Nat
        BY DEF InjectInv
      <4> QED
        BY <4>1 DEF Inject, Said
    <3>2. Inject(injected + 1).control # "gate_decision"
      BY DEF Inject
    <3> QED
      BY <2>0, <2>1, <3>1, <3>2, OpenOffer DEF OfferInject
  <2>2. CASE OfferCancelStep
    <3>1. CancelStep \in Said /\ CancelStep.control # "gate_decision"
      BY DEF CancelStep, Said
    <3> QED
      BY <2>0, <2>2, <3>1, OpenOffer DEF OfferCancelStep
  <2>3. ASSUME NEW g \in 1..gates, NEW yes \in BOOLEAN, OfferDecision(g, yes)
        PROVE  OpenInv'
    <3>1. /\ Decision(g, yes) \in Said /\ Decision(g, yes).control = "gate_decision"
          /\ Decision(g, yes).about = g /\ Decision(g, yes).approve = yes
      BY <1>0 DEF Decision, Said
    <3>2. g \in 0..gates /\ g # 0
      BY <1>0
    <3>3. decided' = IF decided[g] = "none"
                     THEN [decided EXCEPT ![g] = IF yes THEN "yes" ELSE "no"]
                     ELSE decided
      BY <2>3 DEF OfferDecision
    <3>4. Offer(Decision(g, yes))
      BY <2>3 DEF OfferDecision
    <3> QED
      BY <2>0, <3>1, <3>2, <3>3, <3>4, OpenOffer
  <2>4. CASE Throw \/ WriterGoes
    BY <2>0, <2>4, OpenKept DEF Throw, WriterGoes
  <2> QED
    BY <1>3, <2>1, <2>2, <2>3, <2>4 DEF Operator
<1>4. CASE CriticAnswers \/ ClockRunsOut \/ WindowOver \/ Over \/ UNCHANGED vars
  BY <1>4, OpenKept DEF CriticAnswers, ClockRunsOut, WindowOver, Over, vars,
     operator, history
<1>5. CASE Interrupted
  BY <1>5, OpenKept DEF Interrupted, operator, history, Standing
<1>6. CASE Loop
  <2> USE DEF End, Goto, operator, history, Standing
  <2>1. CASE OutOfSteps \/ WindUpIsOver \/ StopHeard \/ Boundary
    BY <2>1, OpenKept DEF OutOfSteps, WindUpIsOver, StopHeard, Boundary
  <2>2. ASSUME NEW stuck \in BOOLEAN, Steer(stuck) PROVE OpenInv'
    <3>1. UNCHANGED <<gates, decided, opened>> /\ pc' \notin Standing /\ Poll
      BY <2>2 DEF Steer
    <3>2. Channel' /\ Drained' = <<>>
      BY <3>1, ChannelFacts DEF OpenInv
    <3> QED
      BY <3>1, <3>2, OpenTaken DEF OpenInv
  <2>3. CASE ModelRaises \/ ContinuationStalls \/ ModelSaysNothing
    BY <2>3, OpenKept DEF ModelRaises, ContinuationStalls, ModelSaysNothing
  <2>4. ASSUME NEW b \in BOOLEAN, ModelIsCutOff(b) \/ ModelRunsOut(b) \/ ModelAnswers(b)
        PROVE  OpenInv'
    BY <2>4, OpenKept DEF ModelIsCutOff, ModelRunsOut, ModelAnswers
  <2>5. ASSUME NEW calls \in Replies, NEW alongside \in BOOLEAN,
               ModelCalls(calls, alongside)
        PROVE  OpenInv'
    BY <2>5, OpenKept DEF ModelCalls
  <2>6. CASE SkipCall \/ CheckCall
    <3>1. /\ UNCHANGED <<decided, opened, gates>> /\ (UNCHANGED channel \/ PollCancelStep)
          /\ pc' \notin Standing
      BY <2>6 DEF SkipCall, CheckCall, Passed
    <3> QED
      BY <3>1, OpenKept, OpenCancelStep
  <2>7. CASE Propose
    BY <2>7, OpenPropose
  <2>8. CASE NobodyToWaitFor \/ GateNaps \/ NothingYet
    BY <2>8, OpenKept DEF NobodyToWaitFor, GateNaps, NothingYet
  <2>9. ASSUME NEW recorded \in BOOLEAN, GateAnswered(recorded) PROVE OpenInv'
    BY <2>9, OpenAnswered
  <2>10. CASE StopCheck \/ Dispatch
    BY <2>10, OpenKept DEF StopCheck, Dispatch
  <2>11. CASE LastCheck
    <3>1. /\ UNCHANGED <<decided, opened, gates>> /\ PollCancelStep
          /\ pc' \notin Standing
      BY <2>11 DEF LastCheck, Passed
    <3> QED
      BY <3>1, OpenCancelStep
  <2>12. CASE ToolReturns \/ ToolRaises
    BY <2>12, OpenKept DEF ToolReturns, ToolRaises, Passed
  <2>13. CASE Repair \/ Unchecked \/ VerdictGiven
    BY <2>13, OpenKept DEF Repair, Unchecked, VerdictGiven, AnswerOut
  <2>14. ASSUME NEW caveat \in BOOLEAN, Judged(caveat) PROVE OpenInv'
    BY <2>14, OpenKept DEF Judged
  <2>15. CASE Reflected \/ Finish
    BY <2>15, OpenKept DEF Reflected, Finish
  <2> QED
    BY <1>6, <2>1, <2>2, <2>3, <2>4, <2>5, <2>6, <2>7, <2>8, <2>9, <2>10, <2>11,
       <2>12, <2>13, <2>14, <2>15 DEF Loop
<1> QED
  BY <1>3, <1>4, <1>5, <1>6 DEF Next

\* However many gates a run opens, and however often, late or about whichever
\* of them somebody decides: a gated call is made only where the first thing
\* said about its own gate was yes.
THEOREM FirstDecisionOpens == Spec => []FirstDecisionStands
<1>1. OpenInv => FirstDecisionStands
  BY DEF OpenInv, FirstDecisionStands
<1> QED
  BY OpenInvStart, OpenInvStep, InjectInvStart, InjectInvStep, <1>1, PTL DEF Spec

=============================================================================
