---------------------------- MODULE MissionLoop -----------------------------
(***************************************************************************)
(* One mission: the plan/act loop (core/runtime/run.py, _arun and _loop)    *)
(* with everybody who speaks to it while it works: the operator on the     *)
(* control channel (ControlChannel), the wall clock, the supervisor, the   *)
(* model, the tools, and whoever holds the task and may cancel it at an    *)
(* await.                                                                  *)
(*                                                                         *)
(* A label of pc is a place where another of them can get in between:      *)
(*   top, steer   the boundary between two steps                           *)
(*   model        the request is out                                       *)
(*   call         the next call of the reply                               *)
(*   propose, gate, nap    a gated call, proposed; standing at the gate    *)
(*   stopcheck, lastcheck, dispatch, tool    any other call, on its way    *)
(*   judge, verdict        an answer, and what it is worth                 *)
(*   reflect, finish, over the way out                                     *)
(*                                                                         *)
(* Both protocols are here: json, one decision a reply, and native, where  *)
(* a reply may carry several calls and each must be answered before the    *)
(* next request.  A call is "plain", "gated", or "bad" (its arguments have *)
(* the wrong shape or break the schema, or no such tool is offered).       *)
(*                                                                         *)
(* X_Variant, here and in ControlChannel, is a slip of X that no action    *)
(* uses: what a property must be able to tell from X.                      *)
(***************************************************************************)
EXTENDS ControlChannel, FiniteSets

CONSTANTS
  MaxSteps,      \* an operator's ceiling on model turns; a run has it or none
  MaxRepairs,    \* grounding.max_repairs
  MaxAttempts,   \* AnswerContinuation.maximum
  MaxCalls       \* bound: the calls of one native reply

ASSUME LoopAssumption ==
  /\ MaxSteps \in Nat \ {0} /\ MaxRepairs \in Nat
  /\ MaxAttempts \in Nat /\ MaxCalls \in Nat \ {0}

Kinds == {"plain", "gated", "bad"}
Outcomes == {"incomplete", "answered", "answered_with_caveat",
             "budget_exhausted", "awaiting_approval"}
Labels == {"top", "steer", "model", "call", "propose", "gate", "nap",
           "stopcheck", "lastcheck", "dispatch", "tool", "judge", "verdict",
           "reflect", "finish", "over"}

VARIABLES
  native, ceiling,  \* the protocol, and max_steps (0 is no ceiling)
  pc, index,        \* the label, and the steps begun (counted up to a ceiling)
  run,              \* what the loop carries from step to step
  turn,             \* the reply being worked through, call by call
  gates,            \* the gates opened; the newest is the one stood at
  expired, window,  \* the deadline is past; the gate's window is over
  verdict,          \* the worker thread that judges the answer
  transcript,       \* how the run ends
  finished,         \* mission_finished is on the stream
  raising,          \* an exception is on its way out of the run
  owed,             \* the calls of the last reply with no tool message yet
  shown,            \* history: the instructions the model was shown
  opened,           \* history: the gates whose call was made
  late,             \* history: the ungated calls begun after a stop was asked
  wound,            \* history: the requests sent since the verdict "stuck"
  answer_said       \* history: the outcome on the run's answer record

setting == <<native, ceiling>>
clock == <<expired, window>>
history == <<shown, opened, late, wound, answer_said>>
ending == <<transcript, finished, raising, verdict>>

vars == <<channel, operator, setting, pc, index, run, turn, gates, clock,
          ending, owed, history>>

FreshRun == [repairs |-> 0, repairing |-> FALSE, winding_up |-> FALSE,
             draft |-> FALSE, continuing |-> FALSE, attempts |-> 0,
             empties |-> 0, retried |-> FALSE]

NoTurn == [calls |-> <<>>, at |-> 1, skip |-> FALSE, alongside |-> FALSE]

Replies == UNION {[1..n -> Kinds] : n \in 1..MaxCalls}

TypeOK ==
  /\ ChannelTypeOK
  /\ native \in BOOLEAN /\ ceiling \in {0, MaxSteps}
  /\ pc \in Labels /\ index \in 0..ceiling
  /\ run \in [repairs: 0..MaxRepairs, repairing: BOOLEAN, winding_up: BOOLEAN,
              draft: BOOLEAN, continuing: BOOLEAN, attempts: 0..MaxAttempts,
              empties: 0..2, retried: BOOLEAN]
  /\ turn \in [calls: {<<>>} \cup Replies, at: 1..MaxCalls, skip: BOOLEAN,
               alongside: BOOLEAN]
  /\ pc \in {"call", "propose", "gate", "nap", "stopcheck", "lastcheck",
             "dispatch", "tool"} => turn.at \in DOMAIN turn.calls
  /\ gates \in 0..MaxGates /\ (pc \in {"gate", "nap"} => gates > 0)
  /\ expired \in BOOLEAN /\ window \in BOOLEAN
  /\ verdict \in {"none", "thinking", "given"}
  /\ transcript \in [outcome: Outcomes, reason: {"", "cancelled", "stuck"},
                     budget: {"none", "steps", "seconds"},
                     answer: {"none", "own", "draft"}]
  /\ finished \in BOOLEAN /\ raising \in BOOLEAN
  /\ owed \subseteq 1..(MaxCalls + 1)
  /\ shown \in Seq(Nat) /\ opened \subseteq 1..MaxGates
  /\ late \in Nat /\ wound \in Nat
  /\ answer_said \in {"none"} \cup Outcomes

Init ==
  /\ ChannelInit
  /\ native \in BOOLEAN /\ ceiling \in {0, MaxSteps}
  /\ pc = "top" /\ index = 0
  /\ run = FreshRun /\ turn = NoTurn
  /\ gates = 0 /\ expired = FALSE /\ window = FALSE
  /\ verdict = "none"
  /\ transcript = [outcome |-> "incomplete", reason |-> "", budget |-> "none",
                   answer |-> "none"]
  /\ finished = FALSE /\ raising = FALSE
  /\ owed = {} /\ shown = <<>> /\ opened = {}
  /\ late = 0 /\ wound = 0 /\ answer_said = "none"

-----------------------------------------------------------------------------
\* Ending

\* Bounds.stop: a person is heard before a clock.
Stop_NoClock == IF cancel THEN "cancelled" ELSE "none"
Stop == IF cancel THEN "cancelled" ELSE IF expired THEN "seconds" ELSE "none"

\* _stopped: the verdict overwrites what the transcript said.
Stopped(stop) ==
  [transcript EXCEPT
     !.outcome = IF stop = "cancelled" THEN "incomplete" ELSE "budget_exhausted",
     !.budget = IF stop = "cancelled" THEN "none" ELSE "seconds",
     !.reason = IF stop = "cancelled" THEN "cancelled" ELSE ""]

\* _with_draft: an answer written and never returned is handed over.
WithDraft(t, draft) ==
  IF draft /\ t.answer = "none" THEN [t EXCEPT !.answer = "draft"] ELSE t

Incomplete == [transcript EXCEPT !.outcome = "incomplete"]

\* _loop returns t, which no answer of its own is in.
End(t) ==
  /\ pc' = "finish" /\ transcript' = t
  /\ answer_said' = IF t.answer = "draft" THEN t.outcome ELSE answer_said
  /\ UNCHANGED <<operator, setting, index, gates, clock, finished, raising,
                 verdict, shown, opened, late, wound>>

\* The loop goes on.
Goto(label) ==
  /\ pc' = label
  /\ UNCHANGED <<operator, setting, ending, answer_said>>

-----------------------------------------------------------------------------
\* The boundary between two steps

AtTop(condition) == pc = "top" /\ condition

StepsSpent == ceiling > 0 /\ index = ceiling
WoundUp == run.winding_up /\ ~run.repairing

EndOfSteps_Empty ==
  [transcript EXCEPT !.outcome = "budget_exhausted", !.budget = "steps"]
EndOfSteps ==
  WithDraft([transcript EXCEPT !.outcome = "budget_exhausted", !.budget = "steps"],
            run.draft)

OutOfSteps ==
  /\ AtTop(StepsSpent)
  /\ End(EndOfSteps)
  /\ UNCHANGED <<channel, run, turn, owed>>

\* The wind-up turn was asked and did not answer.
WindUpIsOver ==
  /\ AtTop(~StepsSpent /\ WoundUp)
  /\ End(WithDraft(Incomplete, run.draft))
  /\ UNCHANGED <<channel, run, turn, owed>>

\* A clock that runs out during a continuation hands over what there is; a
\* person's stop hands over nothing.
StopHeard ==
  /\ AtTop(~StepsSpent /\ ~WoundUp /\ Stop # "none")
  /\ End(IF run.continuing /\ Stop # "cancelled"
         THEN WithDraft(Stopped(Stop), run.draft) ELSE Stopped(Stop))
  /\ UNCHANGED <<channel, run, turn, owed>>

Boundary_StillRepairing ==
  /\ AtTop(~StepsSpent /\ ~WoundUp /\ Stop = "none")
  /\ Goto("steer")
  /\ UNCHANGED <<channel, run, index, turn, gates, clock, owed, shown, opened,
                 late, wound>>

Boundary ==
  /\ AtTop(~StepsSpent /\ ~WoundUp /\ Stop = "none")
  /\ run' = [run EXCEPT !.repairing = FALSE]
  /\ Goto("steer")
  /\ UNCHANGED <<channel, index, turn, gates, clock, owed, shown, opened,
                 late, wound>>

\* _steer takes everything: instructions become user turns, a late cancel_step
\* a sentence, a decision nobody waits for a line on stderr.  Then _supervise:
\* "stuck" makes the request that follows the last one.
Steer(stuck) ==
  /\ pc = "steer"
  /\ Poll
  /\ shown' = shown \o Instructions(Drained)
  /\ run' = [run EXCEPT !.winding_up = @ \/ stuck]
  /\ transcript' = IF stuck THEN [transcript EXCEPT !.reason = "stuck"] ELSE transcript
  /\ wound' = IF run'.winding_up THEN wound + 1 ELSE wound
  /\ index' = IF ceiling = 0 THEN 0 ELSE index + 1
  /\ pc' = "model"
  /\ UNCHANGED <<operator, setting, turn, gates, clock, finished, raising,
                 verdict, owed, opened, late, answer_said>>

-----------------------------------------------------------------------------
\* The reply

\* _model_reply raises.  In a continuation that is the end of the run, with
\* the partial answer; otherwise the exception leaves the run.
ModelRaises ==
  /\ pc = "model"
  /\ IF run.continuing
     THEN End(WithDraft(Incomplete, run.draft))
     ELSE /\ pc' = "finish" /\ raising' = TRUE
          /\ UNCHANGED <<operator, setting, index, gates, clock, transcript,
                         finished, verdict, history>>
  /\ UNCHANGED <<channel, run, turn, owed>>

\* The output budget was spent before a word of answer: once more with a
\* larger one, if there is a larger one.
ModelRunsOut(raised) ==
  /\ pc = "model" /\ ~run.continuing
  /\ raised => ~run.retried
  /\ run' = [run EXCEPT !.retried = @ \/ raised]
  /\ IF raised
     THEN /\ Goto("top")
          /\ UNCHANGED <<index, gates, clock, shown, opened, late, wound>>
     ELSE End(WithDraft(Incomplete, run.draft))
  /\ UNCHANGED <<channel, turn, owed>>

\* The answer was cut off.  What came is kept, and the model is asked for the
\* rest, perhaps with the larger budget; nothing is dispatched to regenerate it.
ModelIsCutOff(raised) ==
  /\ pc = "model"
  /\ raised => ~run.retried /\ run.attempts < MaxAttempts
  /\ IF run.attempts < MaxAttempts
     THEN /\ run' = [run EXCEPT !.draft = TRUE, !.continuing = TRUE,
                                !.attempts = @ + 1, !.retried = @ \/ raised]
          /\ Goto("top")
          /\ UNCHANGED <<index, gates, clock, shown, opened, late, wound>>
     ELSE /\ run' = [run EXCEPT !.draft = TRUE, !.continuing = TRUE]
          /\ End(WithDraft(Incomplete, TRUE))
  /\ UNCHANGED <<channel, turn, owed>>

\* Cut off, or asked to continue, and nothing new to read.
ContinuationStalls ==
  /\ pc = "model"
  /\ End(WithDraft(Incomplete, run.draft))
  /\ UNCHANGED <<channel, run, turn, owed>>

\* No decision in the reply.  The json protocol asks a second time and no
\* third; the native one says what is wrong, on each call it refuses.
ModelSaysNothing ==
  /\ pc = "model" /\ ~run.continuing
  /\ run' = IF native THEN run ELSE [run EXCEPT !.empties = @ + 1]
  /\ IF native \/ run.empties = 0
     THEN /\ Goto("top")
          /\ UNCHANGED <<index, gates, clock, shown, opened, late, wound>>
     ELSE End(WithDraft(Incomplete, run.draft))
  /\ UNCHANGED <<channel, turn, owed>>

\* An answer, alone; a native one usually through the answer tool, a call
\* like any other.  It completes a continuation.
ModelAnswers(called) ==
  /\ pc = "model" /\ (called => native)
  /\ run' = [run EXCEPT !.draft = @ \/ run.continuing, !.continuing = FALSE,
                        !.attempts = 0]
  /\ owed' = IF called THEN {1} ELSE {}
  /\ Goto("judge")
  /\ UNCHANGED <<channel, index, turn, gates, clock, shown, opened, late, wound>>

\* Tools to call; alongside them, perhaps, an answer that will be ignored.
ModelCalls(calls, alongside) ==
  /\ pc = "model" /\ ~run.continuing
  /\ ~native => Len(calls) = 1 /\ ~alongside
  /\ turn' = [calls |-> calls, at |-> 1, skip |-> FALSE, alongside |-> alongside]
  /\ owed' = IF native THEN 1..(Len(calls) + IF alongside THEN 1 ELSE 0) ELSE {}
  /\ Goto("call")
  /\ UNCHANGED <<channel, run, index, gates, clock, shown, opened, late, wound>>

-----------------------------------------------------------------------------
\* One call of the reply

LastCall == turn.at = Len(turn.calls)

\* What is said to the model about this call quotes its id (_say); after the
\* last one, so does the note that the answer alongside was ignored.
Settled_NoneIgnored == {turn.at}
Settled == {turn.at} \cup (IF LastCall THEN {turn.at + 1} ELSE {})

\* On to the next call, or back to the boundary.
Passed(skip) ==
  /\ owed' = owed \ Settled
  /\ turn' = IF LastCall THEN NoTurn
             ELSE [turn EXCEPT !.at = @ + 1, !.skip = skip]
  /\ Goto(IF LastCall THEN "top" ELSE "call")
  /\ UNCHANGED <<run, index, gates, clock, shown, wound>>

\* Native: cancel_step drops what is left of the turn, and is not asked for
\* again once it was seen.
SkipCall ==
  /\ pc = "call" /\ native
  /\ \/ turn.skip /\ UNCHANGED channel
     \/ ~turn.skip /\ CancelStepWaits /\ PollCancelStep
  /\ Passed(TRUE)
  /\ UNCHANGED <<opened, late>>

CheckCall ==
  /\ pc = "call" /\ ~turn.skip
  /\ IF native THEN ~CancelStepWaits /\ PollCancelStep ELSE UNCHANGED channel
  /\ \/ turn.calls[turn.at] = "bad" /\ Passed(FALSE)
     \/ /\ \/ turn.calls[turn.at] = "gated" /\ Goto("propose")
           \/ turn.calls[turn.at] = "plain" /\ Goto("stopcheck")
        /\ UNCHANGED <<run, index, turn, gates, clock, owed, shown, wound>>
  /\ UNCHANGED <<opened, late>>

AwaitingApproval == [transcript EXCEPT !.outcome = "awaiting_approval"]

\* The request is written down and shown; the run stands at the gate for as
\* long as the window and the deadline allow.  Nowhere to wait (no store, or
\* it cannot be written, or no window): the mission ends with the proposal.
Propose ==
  /\ pc = "propose" /\ gates < MaxGates
  /\ gates' = gates + 1
  /\ window' = expired
  /\ Goto("gate")
  /\ UNCHANGED <<channel, run, index, turn, expired, owed, shown, opened, late, wound>>

NobodyToWaitFor ==
  /\ pc = "propose"
  /\ End(AwaitingApproval)
  /\ UNCHANGED <<channel, run, turn, owed>>

\* await_for: _seek, and while there is nothing, _nap.
NothingYet ==
  /\ pc = "gate" /\ Seek(gates) = 0
  /\ Keep(Drained)
  /\ Goto("nap")
  /\ UNCHANGED <<run, index, turn, gates, clock, owed, shown, opened, late, wound>>

\* Cancelled, or over, or nobody left to write: what it would have done with
\* no channel at all.
GaveUp == cancel \/ window \/ Finished

GateNaps ==
  /\ pc = "nap"
  /\ IF GaveUp
     THEN End(AwaitingApproval)
     ELSE /\ Goto("gate")
          /\ UNCHANGED <<index, gates, clock, shown, opened, late, wound>>
  /\ UNCHANGED <<channel, run, turn, owed>>

\* A decision for this gate: recorded, and a yes spent, or it is trouble and
\* the mission ends.  A yes makes the call, exactly as proposed.
GateAnswered(recorded) ==
  LET i == Seek(gates)
  IN  /\ pc = "gate" /\ i > 0
      /\ Take(i)
      /\ IF ~recorded
         THEN End(AwaitingApproval) /\ UNCHANGED <<run, turn, owed>>
         ELSE /\ UNCHANGED late
              /\ IF Drained[i].approve
                 THEN /\ Goto("dispatch")
                      /\ opened' = opened \cup {gates}
                      /\ UNCHANGED <<run, index, turn, gates, clock, owed, shown, wound>>
                 ELSE Passed(turn.skip) /\ UNCHANGED opened

\* Asked once more, after the model call this step spent.
StopBeforeCall_JsonOnly == IF native THEN "none" ELSE Stop
StopBeforeCall == Stop

StopCheck ==
  /\ pc = "stopcheck"
  /\ IF StopBeforeCall # "none"
     THEN End(Stopped(StopBeforeCall))
     ELSE /\ Goto(IF native THEN "dispatch" ELSE "lastcheck")
          /\ UNCHANGED <<index, gates, clock, shown, opened, late, wound>>
  /\ UNCHANGED <<channel, run, turn, owed>>

\* json: the only place where cancel_step can act.
LastCheck ==
  /\ pc = "lastcheck"
  /\ PollCancelStep
  /\ IF CancelStepWaits
     THEN Passed(FALSE)
     ELSE Goto("dispatch") /\ UNCHANGED <<run, index, turn, gates, clock, owed, shown, wound>>
  /\ UNCHANGED <<opened, late>>

\* tool_call goes out, then the call.
Dispatch ==
  /\ pc = "dispatch"
  /\ late' = IF Stop # "none" /\ turn.calls[turn.at] = "plain" THEN late + 1 ELSE late
  /\ Goto("tool")
  /\ UNCHANGED <<channel, run, index, turn, gates, clock, owed, shown, opened, wound>>

ToolReturns ==
  /\ pc = "tool"
  /\ Passed(turn.skip)
  /\ UNCHANGED <<channel, opened, late>>

\* A ticket already spent, a bus or a checkpoint that fails.
ToolRaises ==
  /\ pc = "tool"
  /\ pc' = "finish" /\ raising' = TRUE
  /\ UNCHANGED <<channel, operator, setting, index, run, turn, gates, clock,
                 transcript, finished, verdict, owed, history>>

-----------------------------------------------------------------------------
\* The answer

MayRepair_Always == TRUE
MayRepair == run.repairs < MaxRepairs

\* Unsupported, with repairs left: kept as a draft and sent back.
Repair ==
  /\ pc = "judge" /\ MayRepair
  /\ run' = [run EXCEPT !.repairs = @ + 1, !.draft = TRUE, !.repairing = TRUE]
  /\ owed' = {}
  /\ Goto("top")
  /\ UNCHANGED <<channel, index, turn, gates, clock, shown, opened, late, wound>>

\* Supported, or unsupported with none left: the verdict goes on the stream
\* before the answer.  A caveat is on the transcript before the critic is asked.
Judged(caveat) ==
  /\ pc = "judge"
  /\ caveat => ~MayRepair
  /\ pc' = "verdict" /\ verdict' = "thinking"
  /\ transcript' = IF caveat
                   THEN [transcript EXCEPT !.outcome = "answered_with_caveat", !.answer = "own"]
                   ELSE transcript
  /\ UNCHANGED <<channel, operator, setting, index, run, turn, gates, clock,
                 finished, raising, owed, history>>

\* The answer record, and out of the loop.
AnswerOut(outcome) ==
  /\ transcript' = [transcript EXCEPT !.outcome = outcome, !.answer = "own"]
  /\ answer_said' = outcome
  /\ pc' = "reflect"
  /\ UNCHANGED <<channel, operator, setting, index, run, turn, gates, clock,
                 finished, raising, verdict, owed, shown, opened, late, wound>>

\* Nothing checks answers on this deployment.
Unchecked == pc = "judge" /\ AnswerOut("answered")

VerdictGiven ==
  /\ pc = "verdict" /\ verdict = "given"
  /\ AnswerOut(IF transcript.answer = "own" THEN "answered_with_caveat" ELSE "answered")

\* The thread that asks the critic writes the grounding record; nothing stops
\* it once it has started.
CriticAnswers ==
  /\ verdict = "thinking"
  /\ verdict' = "given"
  /\ UNCHANGED <<channel, operator, setting, pc, index, run, turn, gates,
                 clock, transcript, finished, raising, owed, history>>

-----------------------------------------------------------------------------
\* The way out

\* _reflect cannot fail the run: what it raises is caught.
Reflected ==
  /\ pc = "reflect"
  /\ Goto("finish")
  /\ UNCHANGED <<channel, run, index, turn, gates, clock, owed, shown, opened, late, wound>>

\* The task is cancelled, and the await it was sitting on raises.  A run that
\* was wound up is not reflected on.
Interrupted ==
  /\ pc \in {"model", "nap", "tool", "verdict", "reflect"}
  /\ pc = "reflect" => transcript.reason # "stuck"
  /\ pc' = "finish"
  /\ transcript' = Stopped("cancelled")
  /\ UNCHANGED <<channel, operator, setting, index, run, turn, gates, clock,
                 finished, raising, verdict, owed, history>>

\* mission_finished, from the finally.
Finish ==
  /\ pc = "finish"
  /\ pc' = "over" /\ finished' = TRUE
  /\ UNCHANGED <<channel, operator, setting, index, run, turn, gates, clock,
                 transcript, raising, verdict, owed, history>>

-----------------------------------------------------------------------------
\* The clocks

ClockRunsOut ==
  /\ ~expired
  /\ expired' = TRUE
  /\ window' = (window \/ pc \in {"gate", "nap"})
  /\ UNCHANGED <<channel, operator, setting, pc, index, run, turn, gates,
                 ending, owed, history>>

WindowOver ==
  /\ pc \in {"gate", "nap"} /\ ~window
  /\ window' = TRUE
  /\ UNCHANGED <<channel, operator, setting, pc, index, run, turn, gates,
                 expired, ending, owed, history>>

-----------------------------------------------------------------------------
mission == <<setting, pc, index, run, turn, gates, clock, ending, owed, history>>

\* What is sent once the loop has returned is read by nobody.
Operator ==
  /\ pc \notin {"finish", "over"}
  /\ \/ OfferInject \/ OfferCancelStep
     \/ \E g \in 1..gates, yes \in BOOLEAN : OfferDecision(g, yes)
     \/ Throw \/ WriterGoes
  /\ UNCHANGED mission

Loop ==
  \/ OutOfSteps \/ WindUpIsOver \/ StopHeard \/ Boundary
  \/ \E stuck \in BOOLEAN : Steer(stuck)
  \/ ModelRaises \/ ContinuationStalls \/ ModelSaysNothing
  \/ \E b \in BOOLEAN : ModelIsCutOff(b) \/ ModelRunsOut(b) \/ ModelAnswers(b)
  \/ \E calls \in Replies, alongside \in BOOLEAN : ModelCalls(calls, alongside)
  \/ SkipCall \/ CheckCall
  \/ Propose \/ NobodyToWaitFor \/ NothingYet \/ GateNaps
  \/ \E recorded \in BOOLEAN : GateAnswered(recorded)
  \/ StopCheck \/ LastCheck \/ Dispatch \/ ToolReturns \/ ToolRaises
  \/ Repair \/ Unchecked \/ VerdictGiven
  \/ \E caveat \in BOOLEAN : Judged(caveat)
  \/ Reflected \/ Finish

\* The stream is closed; nothing of this run moves again.
Over == finished /\ verdict # "thinking" /\ UNCHANGED vars

Next ==
  \/ Operator \/ Loop \/ Interrupted
  \/ CriticAnswers \/ ClockRunsOut \/ WindowOver \/ Over

Spec == Init /\ [][Next]_vars

\* Every await comes back (each call out has a timeout, or raises), the loop's
\* own thread is scheduled, and a window that was opened passes.  Nobody has
\* to speak, the clock of the run need not exist, and the model may go on
\* calling tools for ever.
FairSpec ==
  /\ Spec
  /\ WF_vars(Loop) /\ WF_vars(CriticAnswers) /\ WF_vars(WindowOver)

-----------------------------------------------------------------------------
\* Properties

\* No instruction is lost, repeated or overtaken: those the model was shown,
\* followed by those still held and those still queued, are the operator's,
\* in the order they were sent, whatever the loop was looking for when it
\* drained the channel (control.py, poll and _seek).
InjectionsInOrder ==
  shown \o Instructions(Drained) = [k \in 1..injected |-> k]

\* A gate is opened by the first decision somebody sent about that very gate,
\* and only if it was a yes: not by a decision about another gate, a late one,
\* or a change of mind (run.py, _gate).
FirstDecisionStands == \A g \in opened : decided[g] = "yes"

\* When the next request goes out, every call of the last reply has had its
\* tool message, whichever way it went: an unanswered one is a 400 from the
\* server and the end of the mission (run.py, _say and _native_turn).
EveryCallIsAnswered == pc = "model" => owed = {}

\* At most one call nobody approved begins after a stop was asked: the one
\* that had already passed its last check (run.py, Bounds.stop).
OneCallAfterStop == late <= 1

\* The supervisor's "stuck" leaves one request, and one more for each repair
\* of what it brings (run.py, _supervise and the top of _loop).
WindUpIsShort == wound <= 1 + MaxRepairs

\* A run that wrote an answer and ended without returning one hands it over,
\* whichever of its exits it took; not when a person or an exception ended it,
\* and on a deadline only what a continuation had (run.py, _with_draft).
DraftIsDelivered ==
  /\ finished /\ ~raising /\ run.draft
  /\ transcript.outcome \in {"incomplete", "budget_exhausted"}
  /\ transcript.reason # "cancelled"
  /\ transcript.budget = "seconds" => run.continuing
  => transcript.answer = "draft"

\* A stop is heard: a thrown switch, a deadline or a "stuck" verdict always
\* ends in mission_finished, standing at a gate or not, even for a run with no
\* ceiling whose model never stops calling tools.
StopIsHeard == (cancel \/ expired \/ run.winding_up) ~> finished

\* The outcome the answer record announced is the outcome of the run: "It
\* cannot fail the run" (run.py, _reflect).
AnswerKeepsItsWord ==
  finished /\ answer_said # "none" => transcript.outcome = answer_said
=============================================================================
