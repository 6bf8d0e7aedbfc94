--------------------------- MODULE AguiTranslator ---------------------------
(***************************************************************************)
(* The records of a run, spoken as AG-UI (core/runtime/agui.py,            *)
(* Translator): what a record becomes, and the four things the translator  *)
(* remembers to say it: the step, the tool calls and the message that are  *)
(* open, and the last verdict.  A frame is its type, the number of what it *)
(* is about, and whether a verdict rides on it; the rest of a record       *)
(* travels along unread.                                                   *)
(***************************************************************************)
EXTENDS Integers, Sequences, SequencesExt

None == -1

\* call numbers the calls of a run, as <<index, call>> does; flag is the
\* repairing of a grounding, and of an ending that it said no reason.
Record(event, index, call, flag) ==
    [event |-> event, index |-> index, call |-> call, flag |-> flag]

Frame(type, about, verdict) ==
    [type |-> type, about |-> about, verdict |-> verdict]
F(type, about) == Frame(type, about, FALSE)

Fresh == [opened |-> FALSE, step |-> 0, step_open |-> FALSE, calls |-> << >>,
          message |-> None, verdict |-> FALSE]

-----------------------------------------------------------------------------
\* RUN_STARTED once, whichever record comes first: a stream may join midway.
Opening(t) == IF t.opened THEN << >> ELSE <<F("RUN_STARTED", 0)>>

EndStep(t) == IF t.step_open THEN <<F("STEP_FINISHED", t.step)>> ELSE << >>
EndCalls(t) == [k \in DOMAIN t.calls |-> F("TOOL_CALL_END", t.calls[k])]
EndMessage(t) == IF t.message = None THEN << >>
                 ELSE <<F("TEXT_MESSAGE_END", t.message)>>

\* The answer of the step that is open, or the message that already is.
Message(t) == IF t.message = None THEN t.step ELSE t.message

IsOpen(t, call) == \E k \in DOMAIN t.calls : t.calls[k] = call
WithCall(t, call) == IF IsOpen(t, call) THEN t.calls ELSE Append(t.calls, call)
WithoutCall(t, call) ==
    IF IsOpen(t, call)
    THEN RemoveAt(t.calls, CHOOSE k \in DOMAIN t.calls : t.calls[k] = call)
    ELSE t.calls

\* What one record becomes.
Becomes(t, frames) == [state |-> [t EXCEPT !.opened = TRUE], frames |-> frames]

OnStep(t, r) ==
    Becomes([t EXCEPT !.step = r.index, !.step_open = TRUE],
            Opening(t) \o EndStep(t) \o <<F("STEP_STARTED", r.index)>>)

OnCall(t, r) ==
    Becomes([t EXCEPT !.calls = WithCall(t, r.call)],
            Opening(t) \o <<F("TOOL_CALL_START", r.call), F("TOOL_CALL_ARGS", r.call)>>)

\* A result whose call this stream never carried opens and closes it here.
OnResult(t, r) ==
    Becomes([t EXCEPT !.calls = WithoutCall(t, r.call)],
            Opening(t)
              \o (IF IsOpen(t, r.call) THEN << >> ELSE <<F("TOOL_CALL_START", r.call)>>)
              \o <<F("TOOL_CALL_END", r.call), F("TOOL_CALL_RESULT", r.call)>>)

\* An interim report is shown and is not the verdict.
OnGrounding(t, r) ==
    Becomes([t EXCEPT !.verdict = @ \/ ~r.flag],
            Opening(t) \o <<Frame("GROUNDING", Message(t), ~r.flag)>>)

\* A piece of another message ends the one before.
OnDelta_OverTheLast(t, r) ==
    Becomes([t EXCEPT !.message = r.index],
            Opening(t)
              \o (IF t.message = r.index THEN << >>
                  ELSE <<F("TEXT_MESSAGE_START", r.index)>>)
              \o <<F("TEXT_MESSAGE_CONTENT", r.index)>>)

OnDelta(t, r) ==
    Becomes([t EXCEPT !.message = r.index],
            Opening(t)
              \o (IF t.message = r.index THEN << >>
                  ELSE EndMessage(t) \o <<F("TEXT_MESSAGE_START", r.index)>>)
              \o <<F("TEXT_MESSAGE_CONTENT", r.index)>>)

\* Pieces were seen: the message ends.  None was: the text is fanned out here,
\* the verdict on every piece.  Either way the whole text follows.
OnAnswer(t, r) ==
    LET id == Message(t)
        whole == <<F("TEXT_MESSAGE_START", id),
                   Frame("TEXT_MESSAGE_CONTENT", id, t.verdict),
                   F("TEXT_MESSAGE_END", id)>>
    IN Becomes([t EXCEPT !.message = None],
               Opening(t)
                 \o (IF t.message = None THEN whole ELSE EndMessage(t))
                 \o <<Frame("ANSWER", id, t.verdict)>>)

\* Whatever is open ends, and the run with it; ended without a reason, it
\* ended by raising.
OnFinished(t, r) ==
    Becomes([t EXCEPT !.calls = << >>, !.message = None, !.step_open = FALSE],
            Opening(t) \o EndCalls(t) \o EndMessage(t) \o EndStep(t)
              \o <<F(IF r.flag THEN "RUN_ERROR" ELSE "RUN_FINISHED", 0)>>)

\* mission_started, reply_rejected, gate_requested, model_state.
OnOther(t, r) == Becomes(t, Opening(t) \o <<F("CUSTOM", 0)>>)

Feed(t, r) ==
    CASE r.event = "step_started" -> OnStep(t, r)
      [] r.event = "tool_call" -> OnCall(t, r)
      [] r.event = "tool_result" -> OnResult(t, r)
      [] r.event = "grounding" -> OnGrounding(t, r)
      [] r.event = "answer_delta" -> OnDelta(t, r)
      [] r.event = "answer" -> OnAnswer(t, r)
      [] r.event = "mission_finished" -> OnFinished(t, r)
      [] OTHER -> OnOther(t, r)

-----------------------------------------------------------------------------
\* The consumer's side of the protocol, by which the frames are judged: what
\* is open on the pane, whether the run has ended, and whether every frame so
\* far was one the protocol allows where it came.
Pane == [started |-> FALSE, over |-> FALSE, steps |-> {}, calls |-> {},
         messages |-> {}, conforms |-> TRUE, bare |-> FALSE]

Allowed(p, f) ==
    IF f.type = "RUN_STARTED" THEN ~p.started
    ELSE /\ p.started /\ ~p.over
         /\ f.type = "STEP_STARTED" => p.steps = {}
         /\ f.type = "STEP_FINISHED" => f.about \in p.steps
         /\ f.type = "TOOL_CALL_START" => f.about \notin p.calls
         /\ f.type \in {"TOOL_CALL_ARGS", "TOOL_CALL_END"} => f.about \in p.calls
         /\ f.type = "TOOL_CALL_RESULT" => f.about \notin p.calls
         /\ f.type = "TEXT_MESSAGE_START" => p.messages = {}
         /\ f.type \in {"TEXT_MESSAGE_CONTENT", "TEXT_MESSAGE_END"}
                => f.about \in p.messages
         /\ f.type \in {"RUN_FINISHED", "RUN_ERROR"}
                => p.steps \cup p.calls \cup p.messages = {}

With(set, f, starts, ends) ==
    IF f.type = starts THEN set \cup {f.about}
    ELSE IF f.type = ends THEN set \ {f.about} ELSE set

\* judged: the log has a verdict on the answer this frame is about.
Drawn(p, f, judged) ==
    [started |-> p.started \/ f.type = "RUN_STARTED",
     over |-> p.over \/ f.type \in {"RUN_FINISHED", "RUN_ERROR"},
     steps |-> With(p.steps, f, "STEP_STARTED", "STEP_FINISHED"),
     calls |-> With(p.calls, f, "TOOL_CALL_START", "TOOL_CALL_END"),
     messages |-> With(p.messages, f, "TEXT_MESSAGE_START", "TEXT_MESSAGE_END"),
     conforms |-> p.conforms /\ Allowed(p, f),
     bare |-> p.bare \/ (f.type = "ANSWER" /\ judged /\ ~f.verdict)]
=============================================================================
