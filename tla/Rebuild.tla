------------------------------ MODULE Rebuild ------------------------------
(***************************************************************************)
(* A direct mission that dies and is picked up from its log: what the loop *)
(* of core/runtime/run.py writes on the stream of a run, and how           *)
(* core/runtime/resume.py admits the run and reads the stream back into    *)
(* the step number, the ceiling, the repair turns, the result store and    *)
(* the conversation the next process starts from.                          *)
(*                                                                         *)
(* The store of the log itself is RunStore's, and the loop's steering,     *)
(* supervision and clock are MissionLoop's; here a step is the records it  *)
(* writes and the messages it appends.  The conversation is what follows   *)
(* the seed, which every process writes anew.                              *)
(***************************************************************************)
EXTENDS Integers, Places, Sequences, SequencesExt

CONSTANTS
    Protocols,      \* the protocols a run may be recorded under
    Ceilings,       \* the ceilings a run may be started with; 0 for none
    Further,        \* what --mission-steps of a resume may say
    Unsaid,         \* ... and a resume that says nothing
    MaxRepairs,     \* grounding repair turns of a run
    MaxCalls,       \* bound: calls of one native reply
    MaxMade,        \* bound: calls of the run
    MaxIndex,       \* bound: step numbers
    MaxInjected,    \* bound: steps with an operator's instruction
    MaxResumes      \* bound: resumes

ASSUME RebuildAssumption ==
    /\ Protocols \subseteq {"json", "native"}
    /\ Ceilings \cup Further \subseteq Nat
    /\ Unsaid \notin Nat
    /\ {MaxRepairs, MaxCalls, MaxMade, MaxIndex, MaxInjected, MaxResumes}
        \subseteq Nat

VARIABLES
    protocol,   \* of the run, off its mission_started
    ceiling,    \* max_steps of the same record
    log,        \* the records after mission_started
    pc,         \* boundary, asked, calls, calling, gate, answered, over, dead
    next,       \* the number of the next step
    total,      \* the ceiling of this process; 0 for none
    repairs,    \* repair turns spent
    store,      \* the result store: the call each handle r1, r2 ... is about
    messages,   \* the conversation; a dead process's stays, for comparison
    todo,       \* calls of the last reply that have not been looked at
    made,       \* history: calls the model has asked for
    resumes,    \* history: how often the run was picked up
    granted,    \* history: further steps operators have given it
    lifted      \* history: whether one took the ceiling off

run == <<protocol, ceiling>>
carried == <<next, total, repairs>>
history == <<made, resumes, granted, lifted>>
vars == <<run, log, pc, carried, store, messages, todo, history>>

-----------------------------------------------------------------------------
(* The records, as the loop emits them.                                    *)

Step(i, said) == [event |-> "step_started", index |-> i, injected |-> said]
Rejection == [event |-> "reply_rejected"]
Call(c) == [event |-> "tool_call", call |-> c]
Result(c, handle) == [event |-> "tool_result", call |-> c, handle |-> handle]
Gate(c) == [event |-> "gate_requested", call |-> c]
Repair(n) == [event |-> "grounding", repairs |-> n]
Answer == [event |-> "answer"]
Finished(outcome) == [event |-> "mission_finished", outcome |-> outcome]

Of(event, l) == Among(l, {i \in DOMAIN l : l[i].event = event})

(* The messages: the model's turn with the calls it declares, and what is  *)
(* said to it.  A native call is answered by a tool message that quotes    *)
(* its id; under the JSON protocol a user turn follows the turn it is      *)
(* about.  about is the call the text speaks of, 0 for none.               *)

Turn(calls) == [role |-> "assistant", calls |-> calls]
Declares(id, c) == [id |-> id, call |-> c]
Id(step, n) == <<step, n>>
Tool(id, c, what) == [role |-> "tool", to |-> id, about |-> c, what |-> what]
Said(c, what) == [role |-> "user", about |-> c, what |-> what]

\* Run._say: a tool message where there is an id to quote, a user turn if not.
Reply(declared, what) ==
    IF protocol = "native" THEN Tool(declared.id, declared.call, what)
    ELSE Said(declared.call, what)

-----------------------------------------------------------------------------
(* Admission: the door's reading of the log.                               *)

Resumable == {"", "incomplete", "awaiting_approval"}
RecordedOutcome(l) ==
    LET ends == Of("mission_finished", l)
    IN IF ends = << >> THEN "" ELSE Last(ends).outcome

\* The steps that came back, instead of the highest number asked.
SpentSteps_Answered(l) == Len(Of("tool_result", l))

SpentSteps(l) ==
    LET started == Of("step_started", l)
    IN Max({-1} \cup {started[i].index : i \in DOMAIN started}) + 1

\* The ceiling of the whole run: the recorded one, unless the operator
\* states that many further steps, or 0 for none.
TotalSteps(l, more) ==
    LET spent == SpentSteps(l)
    IN IF more = Unsaid
       THEN IF ceiling = 0 THEN 0 ELSE Max({ceiling, spent})
       ELSE IF more = 0 THEN 0 ELSE spent + more

-----------------------------------------------------------------------------
(* rebuild: the stream read back.  One fold per protocol.                  *)

Blank == [index |-> 0, repairs |-> 0, store |-> << >>, messages |-> << >>,
          calls |-> << >>, answers |-> << >>, notes |-> 0]

Says(r, new) == [r EXCEPT !.messages = @ \o new]
Stores(r, c) == [r EXCEPT !.store = Append(@, c)]
Repaired(r, n) == [r EXCEPT !.repairs = Max({@, n})]

ReadJson(r, e) ==
    CASE e.event = "step_started" -> [r EXCEPT !.index = e.index]
      [] e.event = "reply_rejected" -> Says(r, <<Turn(<< >>), Said(0, "note")>>)
      [] e.event = "tool_call" ->
            Says(r, <<Turn(<<Declares(Id(r.index, 1), e.call)>>)>>)
      [] e.event = "tool_result" ->
            Says(Stores(r, e.call), <<Said(e.call, "result")>>)
      [] e.event = "gate_requested" ->
            Says(r, <<Turn(<<Declares(Id(r.index, 1), e.call)>>),
                      Said(e.call, "reason")>>)
      [] e.event = "grounding" -> Repaired(r, e.repairs)
      [] OTHER -> r

\* flush: one native turn, the answers paired with its calls in order, and
\* the corrections whose call did not come back.
Paired(calls, answers) ==
    [k \in 1 .. Min({Len(calls), Len(answers)}) |->
        Tool(calls[k].id, answers[k].about, answers[k].what)]
Notes(n) == [k \in 1 .. n |-> Said(0, "note")]
EmptyTurns(n) ==
    [k \in 1 .. 2 * n |-> IF k % 2 = 1 THEN Turn(<< >>) ELSE Said(0, "note")]
Flushed(r) ==
    LET said == IF r.calls = << >> THEN EmptyTurns(r.notes)
                ELSE <<Turn(r.calls)>> \o Paired(r.calls, r.answers)
                                      \o Notes(r.notes)
    IN [Says(r, said) EXCEPT !.calls = << >>, !.answers = << >>, !.notes = 0]

Buffers(r, c) ==
    [r EXCEPT !.calls = Append(@, Declares(Id(r.index, Len(@)), c))]
Answers(r, c, what) ==
    [r EXCEPT !.answers = Append(@, [about |-> c, what |-> what])]

\* Without the flush at a step_started: the turns of the run as one turn.
ReadNative_OneTurn(r, e) ==
    CASE e.event = "step_started" -> [r EXCEPT !.index = e.index]
      [] e.event = "tool_call" -> Buffers(r, e.call)
      [] e.event = "tool_result" ->
            Answers(Stores(r, e.call), e.call, "result")
      [] e.event = "gate_requested" ->
            Answers(Buffers(r, e.call), e.call, "reason")
      [] e.event = "grounding" -> Repaired(r, e.repairs)
      [] OTHER -> r

ReadNative(r, e) ==
    CASE e.event = "step_started" -> [Flushed(r) EXCEPT !.index = e.index]
      [] e.event = "reply_rejected" -> [r EXCEPT !.notes = @ + 1]
      [] e.event = "tool_call" -> Buffers(r, e.call)
      [] e.event = "tool_result" /\ r.calls # << >> ->
            Answers(Stores(r, e.call), e.call, "result")
      [] e.event = "gate_requested" ->
            Answers(Buffers(r, e.call), e.call, "reason")
      [] e.event = "grounding" -> Repaired(r, e.repairs)
      [] OTHER -> r

Read(r, e) == IF protocol = "native" THEN ReadNative(r, e) ELSE ReadJson(r, e)

\* Nothing but the last process's stretch is read.
Rebuilt_LastStretch(l) ==
    LET ends == {i \in DOMAIN l : l[i].event = "mission_finished"}
        read == FoldLeft(Read, Blank, SubSeq(l, Max({0} \cup ends) + 1, Len(l)))
    IN IF protocol = "native" THEN Flushed(read) ELSE read

Rebuilt(l) ==
    LET read == FoldLeft(Read, Blank, l)
    IN IF protocol = "native" THEN Flushed(read) ELSE read

-----------------------------------------------------------------------------
(* The process.                                                            *)

Working == {"boundary", "asked", "calls", "calling", "gate", "answered"}
Emits(records) == log' = log \o records
Hears(new) == messages' = messages \o new

Init ==
    /\ protocol \in Protocols
    /\ ceiling \in Ceilings
    /\ log = << >>
    /\ pc = "boundary"
    /\ next = 0 /\ total = ceiling /\ repairs = 0
    /\ store = << >> /\ messages = << >> /\ todo = << >>
    /\ made = 0 /\ resumes = 0 /\ granted = 0 /\ lifted = FALSE

\* A step is announced and asked, with what an operator said at the boundary.
Asks(said) ==
    /\ pc = "boundary"
    /\ next < MaxIndex
    /\ total = 0 \/ next < total
    /\ said => Cardinality({i \in DOMAIN log : log[i].event = "step_started"
                                               /\ log[i].injected}) < MaxInjected
    /\ Emits(<<Step(next, said)>>)
    /\ Hears(IF said THEN <<Said(0, "instruction")>> ELSE << >>)
    /\ next' = next + 1
    /\ pc' = "asked"
    /\ UNCHANGED <<run, total, repairs, store, todo, history>>

\* A reply with nothing in it, or with no call that can be read.
RejectsReply ==
    /\ pc = "asked"
    /\ Emits(<<Rejection>>)
    /\ Hears(<<Turn(<< >>), Said(0, "note")>>)
    /\ pc' = "boundary"
    /\ UNCHANGED <<run, carried, store, todo, history>>

\* The model's turn, with n calls.
Decides(n) ==
    LET calls == [k \in 1 .. n |-> Declares(Id(next - 1, k), made + k)]
    IN /\ pc = "asked"
       /\ protocol = "json" => n = 1
       /\ made + n <= MaxMade
       /\ Hears(<<Turn(calls)>>)
       /\ todo' = calls
       /\ made' = made + n
       /\ pc' = "calls"
       /\ UNCHANGED <<run, log, carried, store, resumes, granted, lifted>>

Goes_On(rest) == pc' = "calls"

\* After a call: the next one of the reply, or the boundary.
Goes(rest) == pc' = IF rest = << >> THEN "boundary" ELSE "calls"
NextCall ==
    /\ todo' = Tail(todo)
    /\ Goes(Tail(todo))

\* A call that is not an object, names no tool or breaks the tool's schema.
RejectsCall ==
    /\ pc = "calls"
    /\ Emits(<<Rejection>>)
    /\ Hears(<<Reply(Head(todo), "note")>>)
    /\ NextCall
    /\ UNCHANGED <<run, carried, store, history>>

\* cancel_step: the rest of the reply is answered and written nowhere.
CancelsStep ==
    /\ pc = "calls"
    /\ Hears([k \in DOMAIN todo |-> Reply(todo[k], "note")])
    /\ todo' = << >>
    /\ pc' = "boundary"
    /\ UNCHANGED <<run, log, carried, store, history>>

\* tool_call is written before the ticket is spent and the tool is called.
Dispatches(at) ==
    /\ pc = at
    /\ Emits(<<Call(Head(todo).call)>>)
    /\ pc' = "calling"
    /\ UNCHANGED <<run, carried, store, messages, todo, history>>

\* A handle of its own for every result.
Returns ==
    LET c == Head(todo).call
    IN /\ pc = "calling"
       /\ store' = Append(store, c)
       /\ Emits(<<Result(c, Len(store'))>>)
       /\ Hears(<<Reply(Head(todo), "result")>>)
       /\ NextCall
       /\ UNCHANGED <<run, carried, history>>

\* The gate is on the stream before anybody waits at it.
Gates ==
    /\ pc = "calls"
    /\ Emits(<<Gate(Head(todo).call)>>)
    /\ pc' = "gate"
    /\ UNCHANGED <<run, carried, store, messages, todo, history>>

\* A refusal is said to the model and is on no record of the stream.
GateRefused ==
    /\ pc = "gate"
    /\ Hears(<<Reply(Head(todo), "note")>>)
    /\ NextCall
    /\ UNCHANGED <<run, log, carried, store, history>>

\* An answer the evidence does not carry, sent back once more.
RepairsAnswer ==
    /\ pc = "asked"
    /\ repairs < MaxRepairs
    /\ repairs' = repairs + 1
    /\ Emits(<<Repair(repairs')>>)
    /\ Hears(<<Turn(<< >>), Said(0, "note")>>)
    /\ pc' = "boundary"
    /\ UNCHANGED <<run, next, total, store, todo, history>>

\* The answer goes out, and a reflection on the run may still follow it.
Concludes ==
    /\ pc = "asked"
    /\ Emits(<<Answer>>)
    /\ pc' = "answered"
    /\ UNCHANGED <<run, carried, store, messages, todo, history>>

Finishes(outcome) ==
    /\ Emits(<<Finished(outcome)>>)
    /\ pc' = "over"
    /\ UNCHANGED <<run, carried, store, messages, todo, history>>

\* The words a process writes last: somebody stopped it or it gave up, a
\* budget ran out, nobody decided, it answered.
Ends ==
    \/ pc \in Working /\ Finishes("incomplete")
    \/ pc \in {"boundary", "calls"} /\ Finishes("budget_exhausted")
    \/ pc = "gate" /\ Finishes("awaiting_approval")
    \/ pc = "answered" /\ Finishes("answered")

\* Killed: nothing is written, and no coroutine runs its finally.
Dies ==
    /\ pc \in Working
    /\ pc' = "dead"
    /\ UNCHANGED <<run, log, carried, store, messages, todo, history>>

\* open_for_resume, total_steps and rebuild, and the loop's first lines.
Resumes(more) ==
    LET was == Rebuilt(log)
    IN /\ pc \in {"over", "dead"}
       /\ resumes < MaxResumes
       /\ RecordedOutcome(log) \in Resumable
       /\ next' = SpentSteps(log)
       /\ total' = TotalSteps(log, more)
       /\ repairs' = was.repairs
       /\ store' = was.store
       /\ messages' = was.messages
       /\ todo' = << >>
       /\ pc' = "boundary"
       /\ resumes' = resumes + 1
       /\ granted' = granted + IF more = Unsaid THEN 0 ELSE more
       /\ lifted' = (lifted \/ more = 0)
       /\ UNCHANGED <<run, log, made>>

Next ==
    \/ \E said \in BOOLEAN : Asks(said)
    \/ RejectsReply
    \/ \E n \in 1 .. MaxCalls : Decides(n)
    \/ RejectsCall
    \/ CancelsStep
    \/ Dispatches("calls")
    \/ Returns
    \/ Gates
    \/ Dispatches("gate")
    \/ GateRefused
    \/ RepairsAnswer
    \/ Concludes
    \/ Ends
    \/ Dies
    \/ \E more \in Further \cup {Unsaid} : Resumes(more)

Spec == Init /\ [][Next]_vars
-----------------------------------------------------------------------------
(* What a resume must keep.                                                *)

Indices == [i \in DOMAIN Of("step_started", log) |-> Of("step_started", log)[i].index]
Declared(ms) ==
    UNION {Range(ms[i].calls) : i \in {j \in DOMAIN ms : ms[j].role = "assistant"}}

\* The state is of the declared shape: the log and the conversation speak only
\* of calls the model made, and what is left to do was declared by its last turn.
TypeOK ==
    /\ protocol \in Protocols /\ ceiling \in Ceilings
    /\ pc \in Working \cup {"over", "dead"}
    /\ next \in 0 .. MaxIndex /\ total \in Nat /\ repairs \in 0 .. MaxRepairs
    /\ made \in Nat /\ resumes \in 0 .. MaxResumes
    /\ granted \in Nat /\ lifted \in BOOLEAN
    /\ Range(store) \subseteq 1 .. made
    /\ {d.call : d \in Declared(messages)} \subseteq 1 .. made
    /\ Range(todo) \subseteq Declared(messages)
    /\ pc \in {"calls", "calling", "gate"} => todo # << >>

\* A budget bounds the run and not a process of it: however often the run dies
\* and is picked up, its steps are numbered 0, 1, 2 ... with no number used
\* twice, they are no more than the recorded ceiling and what operators added
\* to it, and its repair turns are those of one run.
OneRunOneBudget ==
    /\ \A i \in DOMAIN Indices : Indices[i] = i - 1
    /\ (ceiling > 0 /\ ~lifted) => Len(Indices) <= ceiling + granted
    /\ Len(Of("grounding", log)) <= MaxRepairs

\* The turn a message of the conversation answers: the last one before it with
\* nothing but tool messages in between; under JSON, the one right before it.
Answered(ms, i) ==
    LET before == {j \in 1 .. i - 1 :
                     /\ ms[j].role = "assistant"
                     /\ \A k \in j + 1 .. i - 1 : ms[k].role = "tool"}
    IN UNION {Range(ms[j].calls) : j \in before}

\* Whatever process holds the conversation, the text about a call answers the
\* turn that made it, a tool message quotes the id of the very call it speaks
\* of, and no id is answered twice: zip pairs each answer with its own call
\* although calls that died, were dropped or were refused left gaps.
AnswersAreTheirCalls ==
    \A i \in DOMAIN messages :
        LET m == messages[i]
            calls == Answered(messages, i)
        IN /\ m.role = "tool" =>
                /\ Declares(m.to, m.about) \in calls
                /\ \A j \in 1 .. i - 1 :
                     messages[j].role = "tool" => messages[j].to # m.to
           /\ (m.role = "user" /\ m.about # 0) =>
                m.about \in {d.call : d \in calls}

Reports(ms) ==
    LET said == Among(ms, {i \in DOMAIN ms : ms[i].role # "assistant"
                                             /\ ms[i].what = "result"})
    IN [i \in DOMAIN said |-> said[i].about]

\* A handle the model was given addresses the same result for the rest of the
\* run, and the results it was shown are in the conversation in the order it
\* was shown them: over a death and a resume both only grow.
ResultsStay ==
    [][ /\ IsPrefix(store, store')
        /\ IsPrefix(Reports(messages), Reports(messages')) ]_<<store, messages>>

(* What the code does not keep; see the README.                            *)

\* Every call a turn declares is answered when the model is asked.
EveryDeclaredCallIsAnswered ==
    pc = "asked" =>
        \A i \in DOMAIN messages : messages[i].role = "assistant" =>
            \A d \in Range(messages[i].calls) :
                \E j \in i + 1 .. Len(messages) :
                    /\ messages[j].role \in {"tool", "user"}
                    /\ messages[j].about = d.call
                    /\ d \in Answered(messages, j)

\* An operator's instruction stays in the conversation.
InstructionsAreKept ==
    [][ LET heard(ms) == Cardinality({i \in DOMAIN ms :
                            ms[i].role = "user" /\ ms[i].what = "instruction"})
        IN heard(messages') >= heard(messages) ]_messages

\* A run answers once.
OneAnswer == Len(Of("answer", log)) <= 1
=============================================================================
