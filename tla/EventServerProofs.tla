------------------------- MODULE EventServerProofs --------------------------
(***************************************************************************)
(* What EventServer keeps for any clients, addresses, slots and runs: its  *)
(* slots are the connections that are open, a client's last id means that  *)
(* it has every record up to it, and what a connection is sent is a        *)
(* conforming AG-UI stream.                                                *)
(***************************************************************************)
EXTENDS EventServer, FiniteSetTheorems, SequenceTheorems, TLAPS

Events == {"mission_started", "step_started", "reply_rejected", "tool_call", "tool_result",
           "gate_requested", "answer_delta", "answer", "grounding", "mission_finished",
           "model_state"}
Records == [event : Events, index : Int, call : Int, flag : BOOLEAN]
FrameTypes == {"RUN_STARTED", "RUN_FINISHED", "RUN_ERROR", "STEP_STARTED", "STEP_FINISHED",
               "TOOL_CALL_START", "TOOL_CALL_ARGS", "TOOL_CALL_END", "TOOL_CALL_RESULT",
               "TEXT_MESSAGE_START", "TEXT_MESSAGE_CONTENT", "TEXT_MESSAGE_END",
               "GROUNDING", "ANSWER", "CUSTOM"}
Frames == [type : FrameTypes, about : Int, verdict : BOOLEAN]
Translators == [opened : BOOLEAN, step : Int, step_open : BOOLEAN, calls : Seq(Int),
                message : Int, verdict : BOOLEAN]
Panes == [started : BOOLEAN, over : BOOLEAN, steps : SUBSET Int, calls : SUBSET Int,
          messages : SUBSET Int, conforms : BOOLEAN, bare : BOOLEAN]
Connections == [pc : {"away", "asked", "streaming", "closing"}, cursor : Nat,
                upto : Nat, translator : Translators, pending : Seq(Frames),
                finished : BOOLEAN, pane : Panes]
Memories == [since : Nat \cup {None}, last : Nat, have : SUBSET Nat]

Open == {c \in Clients : conn[c].pc # "away"}

\* The records, and what numbers them.
LogOK ==
    /\ log \in Seq(Records) /\ stamped \in 0 .. Len(log)
    /\ mission \in {"opening", "between", "step", "judged", "answered", "over", "dead"}
    /\ step \in Nat /\ running \subseteq Nat /\ called \in Nat /\ resumed \in Nat

SlotsOK == IsFiniteSet(Open) /\ slots = Cardinality(Open)

\* What client c has is on the log, and is all there is up to its last id and
\* up to where its connection stands, but for the record still on its way.
Holds(k, w) ==
    /\ \A n \in 1 .. w.last : n > w.since => n \in w.have
    /\ \A n \in 1 .. k.cursor :
          (n > w.since /\ (n = k.cursor => k.pending = << >>)) => n \in w.have
    /\ k.pending # << >> => k.cursor > 0

Within(k, w, length) == k.cursor <= length /\ w.last <= length /\ w.have \subseteq 1 .. length

ServerInv ==
    /\ LogOK
    /\ conn \in [Clients -> Connections] /\ client \in [Clients -> Memories]
    /\ SlotsOK
    /\ \A c \in Clients : Holds(conn[c], client[c]) /\ Within(conn[c], client[c], Len(log))

-----------------------------------------------------------------------------
\* The translator

LEMMA Joined ==
    ASSUME NEW S, NEW s \in Seq(S), NEW u \in Seq(S)
    PROVE  s \o u \in Seq(S) /\ (u # << >> => s \o u # << >>)
<1>1. s \o u \in Seq(S) /\ Len(s \o u) = Len(s) + Len(u)
  OBVIOUS
<1>2. Len(s) \in Nat /\ Len(u) \in Nat /\ (u # << >> => Len(u) # 0)
  BY EmptySeq
<1> QED BY <1>1, <1>2

LEMMA PartsAreFrames ==
    ASSUME NEW t \in Translators
    PROVE  /\ Opening(t) \in Seq(Frames) /\ EndStep(t) \in Seq(Frames)
           /\ EndCalls(t) \in Seq(Frames) /\ EndMessage(t) \in Seq(Frames)
           /\ Message(t) \in Int
<1>0. t.step \in Int /\ t.message \in Int /\ t.calls \in Seq(Int)
  BY DEF Translators
<1>1. EndCalls(t) \in Seq(Frames)
  <2>1. DOMAIN t.calls = 1 .. Len(t.calls) /\ Len(t.calls) \in Nat
    BY <1>0
  <2>2. \A k \in 1 .. Len(t.calls) : F("TOOL_CALL_END", t.calls[k]) \in Frames
    <3>1. TAKE k \in 1 .. Len(t.calls)
    <3>2. t.calls[k] \in Int
      BY <1>0, <2>1
    <3>3. \A n \in Int : F("TOOL_CALL_END", n) \in Frames
      BY DEF F, Frame, Frames, FrameTypes
    <3> QED BY <3>2, <3>3, Zenon
  <2>3. EndCalls(t) = [k \in 1 .. Len(t.calls) |-> F("TOOL_CALL_END", t.calls[k])]
    BY <2>1 DEF EndCalls
  <2>4. EndCalls(t) \in [1 .. Len(t.calls) -> Frames]
    BY <2>2, <2>3
  <2> QED BY <2>1, <2>4
<1>2. Opening(t) \in Seq(Frames)
  <2>1. F("RUN_STARTED", 0) \in Frames
    BY DEF F, Frame, Frames, FrameTypes
  <2> QED BY <2>1 DEF Opening
<1>3. EndStep(t) \in Seq(Frames)
  <2>0. \A n \in Int : F("STEP_FINISHED", n) \in Frames
    BY DEF F, Frame, Frames, FrameTypes
  <2>1. F("STEP_FINISHED", t.step) \in Frames
    BY <1>0, <2>0, Zenon
  <2> QED BY <2>1 DEF EndStep
<1>4. EndMessage(t) \in Seq(Frames)
  <2>0. \A n \in Int : F("TEXT_MESSAGE_END", n) \in Frames
    BY DEF F, Frame, Frames, FrameTypes
  <2>1. F("TEXT_MESSAGE_END", t.message) \in Frames
    BY <1>0, <2>0, Zenon
  <2> QED BY <2>1 DEF EndMessage
<1>5. Message(t) \in Int
  BY <1>0 DEF Message
<1> QED BY <1>1, <1>2, <1>3, <1>4, <1>5

LEMMA CallsStaySequence ==
    ASSUME NEW t \in Translators, NEW call \in Int
    PROVE  WithCall(t, call) \in Seq(Int) /\ WithoutCall(t, call) \in Seq(Int)
<1>1. t.calls \in Seq(Int)
  BY DEF Translators
<1>2. WithCall(t, call) \in Seq(Int)
  BY <1>1 DEF WithCall
<1>3. ASSUME NEW k \in DOMAIN t.calls
      PROVE  RemoveAt(t.calls, k) \in Seq(Int)
  <2>1. k \in 1 .. Len(t.calls) /\ Len(t.calls) \in Nat
    BY <1>1
  <2>2. SubSeq(t.calls, 1, k - 1) \in Seq(Int) /\ SubSeq(t.calls, k + 1, Len(t.calls)) \in Seq(Int)
    BY <1>1, <2>1
  <2> QED BY <2>2 DEF RemoveAt
<1>4. WithoutCall(t, call) \in Seq(Int)
  <2>1. CASE IsOpen(t, call)
    <3>1. (CHOOSE k \in DOMAIN t.calls : t.calls[k] = call) \in DOMAIN t.calls
      BY <2>1 DEF IsOpen
    <3> QED BY <1>3, <2>1, <3>1 DEF WithoutCall
  <2>2. CASE ~IsOpen(t, call)
    BY <1>1, <2>2 DEF WithoutCall
  <2> QED BY <2>1, <2>2
<1> QED BY <1>2, <1>4

\* What a handler hands back, and that it hands back something.
Speaks(fed) ==
    fed.state \in Translators /\ fed.frames \in Seq(Frames) /\ fed.frames # << >>

LEMMA Spoken ==
    ASSUME NEW t \in Translators, NEW before \in Seq(Frames),
           NEW after \in Seq(Frames), after # << >>
    PROVE  Speaks(Becomes(t, before \o after))
<1>1. [t EXCEPT !.opened = TRUE] \in Translators
  BY DEF Translators
<1>2. before \o after \in Seq(Frames) /\ before \o after # << >>
  BY Joined
<1> QED BY <1>1, <1>2 DEF Speaks, Becomes

LEMMA FeedSpeaks ==
    ASSUME NEW t \in Translators, NEW r \in Records
    PROVE  Speaks(Feed(t, r))
<1>1. /\ Opening(t) \in Seq(Frames) /\ EndStep(t) \in Seq(Frames)
      /\ EndCalls(t) \in Seq(Frames) /\ EndMessage(t) \in Seq(Frames)
      /\ Message(t) \in Int
  BY PartsAreFrames
<1>2. r.index \in Int /\ r.call \in Int /\ r.flag \in BOOLEAN
  BY DEF Records
<1>3. /\ t.opened \in BOOLEAN /\ t.step \in Int /\ t.step_open \in BOOLEAN
      /\ t.calls \in Seq(Int) /\ t.message \in Int /\ t.verdict \in BOOLEAN
  BY DEF Translators
<1>4. \A n \in Int : \A b \in BOOLEAN :
         /\ F("STEP_STARTED", n) \in Frames /\ F("TOOL_CALL_START", n) \in Frames
         /\ F("TOOL_CALL_ARGS", n) \in Frames /\ F("TOOL_CALL_END", n) \in Frames
         /\ F("TOOL_CALL_RESULT", n) \in Frames /\ F("TEXT_MESSAGE_START", n) \in Frames
         /\ F("TEXT_MESSAGE_CONTENT", n) \in Frames /\ F("TEXT_MESSAGE_END", n) \in Frames
         /\ F("CUSTOM", n) \in Frames /\ F("RUN_ERROR", n) \in Frames
         /\ F("RUN_FINISHED", n) \in Frames /\ Frame("GROUNDING", n, b) \in Frames
         /\ Frame("TEXT_MESSAGE_CONTENT", n, b) \in Frames /\ Frame("ANSWER", n, b) \in Frames
  BY DEF F, Frame, Frames, FrameTypes
<1>5. Speaks(OnStep(t, r))
  <2>1. [t EXCEPT !.step = r.index, !.step_open = TRUE] \in Translators
    BY <1>2 DEF Translators
  <2>2. Opening(t) \o EndStep(t) \in Seq(Frames)
    BY <1>1
  <2>3. <<F("STEP_STARTED", r.index)>> \in Seq(Frames)
    BY <1>2, <1>4
  <2> QED BY <2>1, <2>2, <2>3, Spoken DEF OnStep
<1>6. Speaks(OnCall(t, r))
  <2>1. [t EXCEPT !.calls = WithCall(t, r.call)] \in Translators
    BY <1>2, CallsStaySequence DEF Translators
  <2>2. <<F("TOOL_CALL_START", r.call), F("TOOL_CALL_ARGS", r.call)>> \in Seq(Frames)
    BY <1>2, <1>4
  <2> QED BY <1>1, <2>1, <2>2, Spoken DEF OnCall
<1>7. Speaks(OnResult(t, r))
  <2>1. [t EXCEPT !.calls = WithoutCall(t, r.call)] \in Translators
    BY <1>2, CallsStaySequence DEF Translators
  <2>2. <<F("TOOL_CALL_END", r.call), F("TOOL_CALL_RESULT", r.call)>> \in Seq(Frames)
    BY <1>2, <1>4
  <2>3. <<F("TOOL_CALL_START", r.call)>> \in Seq(Frames)
    BY <1>2, <1>4
  <2>4. Opening(t) \o (IF IsOpen(t, r.call) THEN << >> ELSE <<F("TOOL_CALL_START", r.call)>>)
          \in Seq(Frames)
    BY <1>1, <2>3
  <2> QED BY <2>1, <2>2, <2>4, Spoken DEF OnResult
<1>8. Speaks(OnGrounding(t, r))
  <2>1. [t EXCEPT !.verdict = @ \/ ~r.flag] \in Translators
    BY <1>2, <1>3 DEF Translators
  <2>2. Frame("GROUNDING", Message(t), ~r.flag) \in Frames
    BY <1>1, <1>2 DEF Frame, Frames, FrameTypes
  <2>3. <<Frame("GROUNDING", Message(t), ~r.flag)>> \in Seq(Frames)
    BY <2>2
  <2> QED BY <1>1, <2>1, <2>3, Spoken DEF OnGrounding
<1>9. Speaks(OnDelta(t, r))
  <2>1. [t EXCEPT !.message = r.index] \in Translators
    BY <1>2 DEF Translators
  <2>2. <<F("TEXT_MESSAGE_CONTENT", r.index)>> \in Seq(Frames)
    BY SMTT(30), <1>2, <1>4
  <2>3. <<F("TEXT_MESSAGE_START", r.index)>> \in Seq(Frames)
    BY <1>2, <1>4
  <2>4. Opening(t) \o (IF t.message = r.index THEN << >>
                        ELSE EndMessage(t) \o <<F("TEXT_MESSAGE_START", r.index)>>)
          \in Seq(Frames)
    BY <1>1, <2>3
  <2> QED BY <2>1, <2>2, <2>4, Spoken DEF OnDelta
<1>10. Speaks(OnAnswer(t, r))
  <2> DEFINE id == Message(t)
             whole == <<F("TEXT_MESSAGE_START", id),
                        Frame("TEXT_MESSAGE_CONTENT", id, t.verdict),
                        F("TEXT_MESSAGE_END", id)>>
  <2>1. [t EXCEPT !.message = None] \in Translators
    BY DEF Translators, None
  <2>2. <<Frame("ANSWER", id, t.verdict)>> \in Seq(Frames)
    <3>1. Frame("ANSWER", id, t.verdict) \in Frames
      BY <1>1, <1>3 DEF Frame, Frames, FrameTypes
    <3> QED BY <3>1
  <2>3. whole \in Seq(Frames)
    <3>1. Frame("TEXT_MESSAGE_CONTENT", id, t.verdict) \in Frames
      BY <1>1, <1>3 DEF Frame, Frames, FrameTypes
    <3>2. F("TEXT_MESSAGE_START", id) \in Frames /\ F("TEXT_MESSAGE_END", id) \in Frames
      BY <1>1, <1>4
    <3> QED BY <3>1, <3>2
  <2>4. Opening(t) \o (IF t.message = None THEN whole ELSE EndMessage(t)) \in Seq(Frames)
    BY <1>1, <2>3
  <2> QED BY <2>1, <2>2, <2>4, Spoken DEF OnAnswer
<1>11. Speaks(OnFinished(t, r))
  <2>1. [t EXCEPT !.calls = << >>, !.message = None, !.step_open = FALSE] \in Translators
    <3>1. << >> \in Seq(Int) /\ None \in Int
      BY EmptySeq DEF None
    <3>2. ASSUME NEW calls \in Seq(Int), NEW message \in Int
          PROVE  [t EXCEPT !.calls = calls, !.message = message, !.step_open = FALSE]
                   \in Translators
      BY DEF Translators
    <3> QED BY <3>1, <3>2
  <2>2. <<F(IF r.flag THEN "RUN_ERROR" ELSE "RUN_FINISHED", 0)>> \in Seq(Frames)
    <3>1. F(IF r.flag THEN "RUN_ERROR" ELSE "RUN_FINISHED", 0) \in Frames
      BY DEF F, Frame, Frames, FrameTypes
    <3> QED BY <3>1
  <2>3. Opening(t) \o EndCalls(t) \o EndMessage(t) \o EndStep(t) \in Seq(Frames)
    BY <1>1
  <2> QED BY <2>1, <2>2, <2>3, Spoken DEF OnFinished
<1>12. Speaks(OnOther(t, r))
  <2>1. <<F("CUSTOM", 0)>> \in Seq(Frames)
    <3>1. F("CUSTOM", 0) \in Frames
      BY DEF F, Frame, Frames, FrameTypes
    <3> QED BY <3>1
  <2> QED BY <1>1, <2>1, Spoken DEF OnOther
<1> QED BY <1>5, <1>6, <1>7, <1>8, <1>9, <1>10, <1>11, <1>12 DEF Feed, Records, Events

-----------------------------------------------------------------------------
\* Well-typed parts

LEMMA AwayIsConnection == Away \in Connections /\ Away.pc = "away" /\ Away.cursor = 0
                            /\ Away.pending = << >>
<1>1. Fresh \in Translators
  <2>1. << >> \in Seq(Int) /\ None \in Int
    BY EmptySeq DEF None
  <2> QED BY <2>1 DEF Fresh, Translators
<1>2. Pane \in Panes
  BY DEF Pane, Panes
<1>3. << >> \in Seq(Frames)
  BY EmptySeq
<1> QED BY <1>1, <1>2, <1>3 DEF Away, Connections

LEMMA DrawnIsPane ==
    ASSUME NEW p \in Panes, NEW f \in Frames, NEW judged
    PROVE  Drawn(p, f, judged) \in Panes
<1>1. f.about \in Int
  BY DEF Frames
<1>2. ASSUME NEW set \in SUBSET Int, NEW starts, NEW ends
      PROVE  With(set, f, starts, ends) \in SUBSET Int
  BY <1>1 DEF With
<1>3. p.steps \in SUBSET Int /\ p.calls \in SUBSET Int /\ p.messages \in SUBSET Int
  BY DEF Panes
<1>4. /\ With(p.steps, f, "STEP_STARTED", "STEP_FINISHED") \in SUBSET Int
      /\ With(p.calls, f, "TOOL_CALL_START", "TOOL_CALL_END") \in SUBSET Int
      /\ With(p.messages, f, "TEXT_MESSAGE_START", "TEXT_MESSAGE_END") \in SUBSET Int
  BY <1>2, <1>3
<1> QED BY <1>4 DEF Drawn, Panes

-----------------------------------------------------------------------------
\* The mission only adds to the log

LEMMA EmitsOne ==
    ASSUME LogOK, NEW r \in Records, Emits(r)
    PROVE  /\ log' \in Seq(Records) /\ stamped' \in 0 .. Len(log')
           /\ Len(log) <= Len(log') /\ UNCHANGED <<slots, conn, client>>
BY DEF LogOK, Emits

LEMMA MissionKeepsLog ==
    ASSUME LogOK, Mission
    PROVE  LogOK' /\ Len(log) <= Len(log') /\ UNCHANGED <<slots, conn, client>>
<1> USE DEF LogOK
<1>0. Len(log) \in Nat
  OBVIOUS
<1>1. CASE Stamps
  BY <1>0, <1>1 DEF Stamps, producer
<1>2. CASE Opens
  <2>1. Record("mission_started", 0, 0, FALSE) \in Records
    BY DEF Record, Records, Events
  <2> QED BY <1>2, <2>1, EmitsOne DEF Opens, Says
<1>3. CASE BeginsStep
  <2>1. Record("step_started", step + 1, 0, FALSE) \in Records
    BY DEF Record, Records, Events
  <2>2. step' \in Nat /\ mission' = "step" /\ UNCHANGED <<running, called, resumed>>
    BY <1>3 DEF BeginsStep
  <2> QED BY <1>3, <2>1, <2>2, EmitsOne DEF BeginsStep, Says
<1>4. CASE Writes
  <2>1. Record("answer_delta", step, 0, FALSE) \in Records
    BY DEF Record, Records, Events
  <2> QED BY <1>4, <2>1, EmitsOne DEF Writes, Says, producer
<1>5. CASE Calls
  <2>1. Record("tool_call", step, called + 1, FALSE) \in Records
    BY DEF Record, Records, Events
  <2>2. called' \in Nat /\ running' \subseteq Nat /\ UNCHANGED <<mission, step, resumed>>
    BY <1>5 DEF Calls
  <2> QED BY <1>5, <2>1, <2>2, EmitsOne DEF Calls, Says
<1>6. CASE Answers
  <2>1. Record("answer", step, 0, FALSE) \in Records
    BY DEF Record, Records, Events
  <2> QED BY <1>6, <2>1, EmitsOne DEF Answers, Says
<1>7. CASE ReportsLate
  <2>1. Record("grounding", step, 0, FALSE) \in Records
    BY DEF Record, Records, Events
  <2> QED BY <1>7, <2>1, EmitsOne DEF ReportsLate, Says, producer
<1>8. CASE Dies
  BY <1>0, <1>8 DEF Dies
<1>9. CASE Resumes
  BY <1>0, <1>9 DEF Resumes
<1>10. ASSUME NEW note \in Notes, Remarks(note)
       PROVE  LogOK' /\ Len(log) <= Len(log') /\ UNCHANGED <<slots, conn, client>>
  <2>1. Record(note, step, 0, FALSE) \in Records
    BY ServerAssumption DEF Record, Records, Events
  <2> QED BY <1>10, <2>1, EmitsOne DEF Remarks, Says, producer
<1>11. ASSUME NEW call \in running, Returns(call)
       PROVE  LogOK' /\ Len(log) <= Len(log') /\ UNCHANGED <<slots, conn, client>>
  <2>1. Record("tool_result", step, call, FALSE) \in Records
    BY DEF Record, Records, Events
  <2> QED BY <1>11, <2>1, EmitsOne DEF Returns, Says
<1>12. ASSUME NEW b \in BOOLEAN, Judges(b)
       PROVE  LogOK' /\ Len(log) <= Len(log') /\ UNCHANGED <<slots, conn, client>>
  <2>1. Record("grounding", step, 0, b) \in Records
    BY DEF Record, Records, Events
  <2>2. mission' \in {"between", "judged"}
    BY <1>12 DEF Judges
  <2> QED BY <1>12, <2>1, <2>2, EmitsOne DEF Judges, Says
<1>13. ASSUME NEW b \in BOOLEAN, Finishes(b)
       PROVE  LogOK' /\ Len(log) <= Len(log') /\ UNCHANGED <<slots, conn, client>>
  <2>1. Record("mission_finished", 0, 0, b) \in Records
    BY DEF Record, Records, Events
  <2> QED BY <1>13, <2>1, EmitsOne DEF Finishes
<1> QED BY <1>1, <1>2, <1>3, <1>4, <1>5, <1>6, <1>7, <1>8, <1>9, <1>10, <1>11, <1>12, <1>13
        DEF Mission

-----------------------------------------------------------------------------
\* A step of one client leaves the others where they are

LEMMA OthersStay ==
    ASSUME ServerInv, NEW c \in Clients, NEW k \in Connections, NEW w \in Memories,
           conn' = [conn EXCEPT ![c] = k], client' = [client EXCEPT ![c] = w],
           LogOK', Len(log) <= Len(log'), SlotsOK',
           Holds(k, w), Within(k, w, Len(log))
    PROVE  ServerInv'
<1>1. Len(log) \in Nat /\ Len(log') \in Nat
  BY DEF ServerInv, LogOK
<1>2. conn' \in [Clients -> Connections] /\ client' \in [Clients -> Memories]
  BY DEF ServerInv
<1>3. ASSUME NEW d \in Clients
      PROVE  Holds(conn'[d], client'[d]) /\ Within(conn'[d], client'[d], Len(log))
  BY DEF ServerInv
<1>4. ASSUME NEW x \in Connections, NEW y \in Memories, Within(x, y, Len(log))
      PROVE  Within(x, y, Len(log'))
  BY <1>1, <1>4 DEF Within, Connections, Memories
<1> QED BY <1>2, <1>3, <1>4 DEF ServerInv

LEMMA SlotsStay ==
    ASSUME ServerInv, NEW c \in Clients, NEW k \in Connections,
           conn' = [conn EXCEPT ![c] = k], slots' = slots,
           k.pc = "away" <=> conn[c].pc = "away"
    PROVE  SlotsOK'
<1>1. Open' = Open
  BY DEF Open, ServerInv
<1> QED BY <1>1 DEF SlotsOK, ServerInv

LEMMA NewSlot ==
    ASSUME ServerInv, NEW c \in Clients, NEW k \in Connections,
           conn' = [conn EXCEPT ![c] = k], slots' = slots + 1,
           conn[c].pc = "away", k.pc # "away"
    PROVE  SlotsOK'
<1>1. Open' = Open \cup {c} /\ c \notin Open
  BY DEF Open, ServerInv
<1> QED BY <1>1, FS_AddElement DEF SlotsOK, ServerInv

LEMMA SlotBack ==
    ASSUME ServerInv, NEW c \in Clients, conn[c].pc # "away", GivesBack(c)
    PROVE  ServerInv'
<1>1. conn' = [conn EXCEPT ![c] = Away] /\ Away \in Connections /\ Away.pc = "away"
  BY AwayIsConnection DEF GivesBack
<1>2. SlotsOK'
  <2>1. Open' = Open \ {c} /\ c \in Open
    BY <1>1 DEF Open, ServerInv
  <2> QED BY <2>1, FS_RemoveElement DEF SlotsOK, ServerInv, GivesBack
<1>3. client' = [client EXCEPT ![c] = client[c]] /\ client[c] \in Memories
  BY DEF GivesBack, ServerInv
<1>4. LogOK' /\ Len(log) <= Len(log')
  BY DEF GivesBack, ServerInv, LogOK, producer
<1>5. Holds(Away, client[c]) /\ Within(Away, client[c], Len(log))
  BY AwayIsConnection DEF ServerInv, Holds, Within, LogOK
<1> QED BY <1>1, <1>2, <1>3, <1>4, <1>5, OthersStay

LEMMA RequestsKeeps ==
    ASSUME ServerInv, NEW c \in Clients, Requests(c)
    PROVE  ServerInv'
<1> DEFINE k == [Away EXCEPT !.pc = "asked", !.upto = stamped,
                             !.cursor = Lower(Asked(c), stamped)]
<1>1. conn' = [conn EXCEPT ![c] = k]
  BY DEF Requests
<1>2. /\ client[c] \in Memories /\ Len(log) \in Nat /\ stamped \in 0 .. Len(log)
      /\ Holds(conn[c], client[c]) /\ Within(conn[c], client[c], Len(log))
  BY DEF ServerInv, LogOK
<1>3. Asked(c) \in Nat /\ (client[c].since = None => Asked(c) = client[c].last)
                      /\ (client[c].since # None => Asked(c) = client[c].since)
  BY <1>2 DEF Asked, Memories
<1>4. Lower(Asked(c), stamped) \in 0 .. Len(log) /\ Lower(Asked(c), stamped) <= Asked(c)
  BY <1>2, <1>3 DEF Lower
<1>5. k \in Connections /\ k.pc = "asked" /\ k.pending = << >>
      /\ k.cursor = Lower(Asked(c), stamped)
  <2>1. stamped \in Nat /\ Lower(Asked(c), stamped) \in Nat
    BY <1>2, <1>4
  <2>2. ASSUME NEW n \in Nat, NEW u \in Nat
        PROVE  /\ [Away EXCEPT !.pc = "asked", !.upto = u, !.cursor = n] \in Connections
               /\ [Away EXCEPT !.pc = "asked", !.upto = u, !.cursor = n].pc = "asked"
               /\ [Away EXCEPT !.pc = "asked", !.upto = u, !.cursor = n].pending = << >>
               /\ [Away EXCEPT !.pc = "asked", !.upto = u, !.cursor = n].cursor = n
    BY AwayIsConnection DEF Connections
  <2> QED BY <2>1, <2>2
<1>6. SlotsOK'
  BY <1>1, <1>5, NewSlot DEF Requests
<1>7. client' = [client EXCEPT ![c] = client[c]]
  BY DEF Requests, ServerInv
<1>8. LogOK' /\ Len(log) <= Len(log')
  BY DEF Requests, ServerInv, LogOK, producer
<1>9. Holds(k, client[c])
  <2> HIDE DEF k
  <2> QED BY <1>2, <1>3, <1>4, <1>5 DEF Holds, Memories
<1>10. Within(k, client[c], Len(log))
  <2> HIDE DEF k
  <2> QED BY <1>2, <1>4, <1>5 DEF Within
<1> HIDE DEF k
<1> QED BY <1>1, <1>2, <1>5, <1>6, <1>7, <1>8, <1>9, <1>10, OthersStay

LEMMA DecidesKeeps ==
    ASSUME ServerInv, NEW c \in Clients, Decides(c)
    PROVE  ServerInv'
<1>0. conn[c] \in Connections /\ client[c] \in Memories
      /\ Holds(conn[c], client[c]) /\ Within(conn[c], client[c], Len(log))
  BY DEF ServerInv
<1>1. PICK pc \in {"closing", "streaming"} : conn' = [conn EXCEPT ![c].upto = 0, ![c].pc = pc]
  BY DEF Decides
<1> DEFINE k == [conn[c] EXCEPT !.upto = 0, !.pc = pc]
<1>2. conn' = [conn EXCEPT ![c] = k]
  BY <1>1 DEF ServerInv
<1>3. k \in Connections /\ k.pc # "away" /\ k.cursor = conn[c].cursor
      /\ k.pending = conn[c].pending
  BY <1>0 DEF Connections
<1> HIDE DEF k
<1>4. SlotsOK'
  BY <1>2, <1>3, SlotsStay DEF Decides
<1>5. client' = [client EXCEPT ![c] = client[c]]
  BY DEF Decides, ServerInv
<1>6. LogOK' /\ Len(log) <= Len(log')
  BY DEF Decides, ServerInv, LogOK, producer
<1>7. Holds(k, client[c]) /\ Within(k, client[c], Len(log))
  BY <1>0, <1>3 DEF Holds, Within
<1> QED BY <1>0, <1>2, <1>3, <1>4, <1>5, <1>6, <1>7, OthersStay

\* The record it takes is still on its way: only what was there before is had.
LEMMA FeedsKeeps ==
    ASSUME ServerInv, NEW c \in Clients, Feeds(c)
    PROVE  ServerInv'
<1> DEFINE r == log[conn[c].cursor + 1]
           fed == Feed(conn[c].translator, r)
           k == [conn[c] EXCEPT !.cursor = @ + 1, !.translator = fed.state,
                                !.pending = fed.frames, !.finished = IsEnding(r)]
<1>0. /\ conn[c] \in Connections /\ client[c] \in Memories
      /\ Holds(conn[c], client[c]) /\ Within(conn[c], client[c], Len(log))
      /\ Len(log) \in Nat /\ log \in Seq(Records)
  BY DEF ServerInv, LogOK
<1>1. conn[c].cursor \in Nat /\ conn[c].cursor < Len(log)
      /\ conn[c].pc = "streaming" /\ conn[c].pending = << >>
      /\ conn[c].translator \in Translators
  BY <1>0 DEF Feeds, Quiet, Connections
<1>2. Speaks(fed)
  <2>1. r \in Records
    BY <1>0, <1>1
  <2> QED BY <1>1, <2>1, FeedSpeaks
<1>3. conn' = [conn EXCEPT ![c] = k]
  BY DEF Feeds, ServerInv
<1> HIDE DEF fed
<1>4. k \in Connections /\ k.pc = "streaming" /\ k.cursor = conn[c].cursor + 1
      /\ k.pending # << >>
  <2>1. PICK t \in Translators, f \in Seq(Frames) :
          t = fed.state /\ f = fed.frames /\ f # << >>
    BY <1>2 DEF Speaks
  <2>2. PICK b \in BOOLEAN : b = IsEnding(r)
    BY DEF IsEnding
  <2>3. PICK m \in Nat : m = conn[c].cursor + 1
    BY <1>1
  <2>4. k = [conn[c] EXCEPT !.cursor = m, !.translator = t, !.pending = f, !.finished = b]
    BY <2>1, <2>2, <2>3
  <2>5. conn[c] \in Connections
    BY <1>0
  <2> HIDE DEF k, r
  <2>6. k \in Connections /\ k.pc = conn[c].pc /\ k.cursor = m /\ k.pending = f
    BY <2>4, <2>5 DEF Connections
  <2> QED BY <1>1, <2>1, <2>3, <2>6
<1> HIDE DEF k
<1>5. SlotsOK'
  BY <1>1, <1>3, <1>4, SlotsStay DEF Feeds
<1>6. client' = [client EXCEPT ![c] = client[c]]
  BY DEF Feeds, ServerInv
<1>7. LogOK' /\ Len(log) <= Len(log')
  BY DEF Feeds, ServerInv, LogOK, producer
<1>8. Holds(k, client[c]) /\ Within(k, client[c], Len(log))
  BY <1>0, <1>1, <1>4 DEF Holds, Within
<1> QED BY <1>0, <1>3, <1>4, <1>5, <1>6, <1>7, <1>8, OthersStay

\* The last frame of a record goes out with its id, and no other does.
LEMMA SendsKeeps ==
    ASSUME ServerInv, NEW c \in Clients, Sends(c)
    PROVE  ServerInv'
<1> DEFINE n == conn[c].cursor
           frames == conn[c].pending
           pane == Drawn(conn[c].pane, Head(frames), Judged(n))
           k == [conn[c] EXCEPT !.pending = Tail(frames), !.pane = pane]
           have == IF Len(frames) = 1 THEN client[c].have \cup {n} ELSE client[c].have
           last == IF Len(frames) = 1 THEN n ELSE client[c].last
           w == [client[c] EXCEPT !.have = have, !.last = last]
<1>0. /\ conn[c] \in Connections /\ client[c] \in Memories
      /\ Holds(conn[c], client[c]) /\ Within(conn[c], client[c], Len(log))
      /\ Len(log) \in Nat
  BY DEF ServerInv, LogOK
<1>1. /\ conn[c].pc = "streaming" /\ frames # << >> /\ frames \in Seq(Frames)
      /\ n \in 1 .. Len(log) /\ conn[c].pane \in Panes
  BY <1>0 DEF Sends, Connections, Holds, Within
<1>2. /\ Tail(frames) \in Seq(Frames) /\ Head(frames) \in Frames /\ Len(frames) \in Nat
      /\ (Len(frames) = 1 => Tail(frames) = << >>)
      /\ (Len(frames) # 1 => Tail(frames) # << >>)
  <2>1. Tail(frames) \in Seq(Frames) /\ Head(frames) \in Frames /\ Len(frames) \in Nat \ {0}
    BY <1>1, EmptySeq
  <2>2. Len(Tail(frames)) = Len(frames) - 1
    BY <1>1
  <2>0. Tail(frames) # << >> => Len(Tail(frames)) \in Nat \ {0}
    BY <2>1, EmptySeq
  <2>3. Len(frames) = 1 => Tail(frames) = << >>
    BY <2>0, <2>1, <2>2
  <2>4. Len(frames) # 1 => Len(Tail(frames)) # 0
    BY <2>1, <2>2
  <2>5. Len(frames) # 1 => Tail(frames) # << >>
    BY <2>4
  <2> QED BY <2>1, <2>3, <2>5
<1>3. pane \in Panes
  BY <1>1, <1>2, DrawnIsPane
<1>4. conn' = [conn EXCEPT ![c] = k]
  BY DEF Sends, ServerInv
<1>5. client' = [client EXCEPT ![c] = w]
  BY DEF Sends, ServerInv, HasId
<1> HIDE DEF pane
<1>6. k \in Connections /\ k.pc = "streaming" /\ k.cursor = n /\ k.pending = Tail(frames)
  BY <1>0, <1>1, <1>2, <1>3 DEF Connections
<1>7. /\ w \in Memories /\ w.since = client[c].since /\ w.have = have /\ w.last = last
  <2>1. ASSUME NEW h \in SUBSET Nat, NEW l \in Nat
        PROVE  /\ [client[c] EXCEPT !.have = h, !.last = l] \in Memories
               /\ [client[c] EXCEPT !.have = h, !.last = l].since = client[c].since
               /\ [client[c] EXCEPT !.have = h, !.last = l].have = h
               /\ [client[c] EXCEPT !.have = h, !.last = l].last = l
    BY <1>0 DEF Memories
  <2>2. client[c].have \in SUBSET Nat /\ client[c].last \in Nat /\ n \in Nat
    BY <1>0, <1>1 DEF Memories
  <2>3. have \in SUBSET Nat /\ last \in Nat
    BY <2>2
  <2> HIDE DEF have, last
  <2> QED BY <2>1, <2>3
<1> HIDE DEF k, w
<1>8. SlotsOK'
  BY <1>1, <1>4, <1>6, SlotsStay DEF Sends
<1>9. LogOK' /\ Len(log) <= Len(log')
  BY DEF Sends, ServerInv, LogOK, producer
<1>10. Holds(k, w)
  <2>1. CASE Len(frames) = 1
    BY <1>0, <1>1, <1>2, <1>6, <1>7, <2>1 DEF Holds
  <2>2. CASE Len(frames) # 1
    BY <1>0, <1>1, <1>2, <1>6, <1>7, <2>2 DEF Holds
  <2> QED BY <2>1, <2>2
<1>11. Within(k, w, Len(log))
  BY <1>0, <1>1, <1>6, <1>7 DEF Within
<1> QED BY <1>4, <1>5, <1>6, <1>7, <1>8, <1>9, <1>10, <1>11, OthersStay

LEMMA ReadFailsKeeps ==
    ASSUME ServerInv, NEW c \in Clients, ReadFails(c)
    PROVE  ServerInv'
<1> DEFINE k == [conn[c] EXCEPT !.pc = "closing"]
<1>0. conn[c] \in Connections /\ client[c] \in Memories /\ conn[c].pc = "streaming"
      /\ Holds(conn[c], client[c]) /\ Within(conn[c], client[c], Len(log))
  BY DEF ServerInv, ReadFails, Quiet
<1>1. conn' = [conn EXCEPT ![c] = k]
  BY DEF ReadFails, ServerInv
<1>2. k \in Connections /\ k.pc # "away" /\ k.cursor = conn[c].cursor
      /\ k.pending = conn[c].pending
  BY <1>0 DEF Connections
<1> HIDE DEF k
<1>3. SlotsOK'
  BY <1>0, <1>1, <1>2, SlotsStay DEF ReadFails
<1>4. client' = [client EXCEPT ![c] = client[c]]
  BY DEF ReadFails, ServerInv
<1>5. LogOK' /\ Len(log) <= Len(log')
  BY DEF ReadFails, ServerInv, LogOK, producer
<1>6. Holds(k, client[c]) /\ Within(k, client[c], Len(log))
  BY <1>0, <1>2 DEF Holds, Within
<1> QED BY <1>0, <1>1, <1>2, <1>3, <1>4, <1>5, <1>6, OthersStay

\* Only the log grew.
LEMMA LogGrowsKeeps ==
    ASSUME ServerInv, LogOK', Len(log) <= Len(log'), UNCHANGED <<slots, conn, client>>
    PROVE  ServerInv'
<1>1. Len(log) \in Nat /\ Len(log') \in Nat
  BY DEF ServerInv, LogOK
<1>2. SlotsOK'
  BY DEF ServerInv, SlotsOK, Open
<1>3. ASSUME NEW d \in Clients
      PROVE  Holds(conn[d], client[d]) /\ Within(conn[d], client[d], Len(log'))
  BY <1>1 DEF ServerInv, Within, Connections, Memories
<1> QED BY <1>2, <1>3 DEF ServerInv

LEMMA IdlesKeeps ==
    ASSUME ServerInv, NEW c \in Clients, Idles(c)
    PROVE  ServerInv'
<1>1. Record("mission_finished", 0, 0, TRUE) \in Records
  BY DEF Record, Records, Events
<1>2. log \in Seq(Records) /\ Len(log) \in Nat
  BY DEF ServerInv, LogOK
<1>3. log' \in Seq(Records) /\ Len(log') = Len(log) + 1 /\ stamped' = Len(log')
  <2>1. log' = Append(log, Record("mission_finished", 0, 0, TRUE)) /\ stamped' = Len(log')
    BY DEF Idles
  <2>2. ASSUME NEW r \in Records
        PROVE  Append(log, r) \in Seq(Records) /\ Len(Append(log, r)) = Len(log) + 1
    BY <1>2
  <2> QED BY <1>1, <2>1, <2>2, Zenon
<1>4. mission' = "over" /\ UNCHANGED <<step, running, called, resumed, slots, conn, client>>
  BY DEF Idles
<1>5. LogOK' /\ Len(log) <= Len(log')
  BY <1>2, <1>3, <1>4 DEF ServerInv, LogOK
<1> QED BY <1>4, <1>5, LogGrowsKeeps

-----------------------------------------------------------------------------

LEMMA ServerStarts == ASSUME Init PROVE ServerInv
<1>1. LogOK
  BY EmptySeq DEF Init, LogOK
<1>2. conn \in [Clients -> Connections] /\ client \in [Clients -> Memories]
  <2>1. ASSUME NEW m \in [since : Since, last : {0}, have : {{}}]
        PROVE  m \in Memories
    <3>1. m = [since |-> m.since, last |-> 0, have |-> {}] /\ m.since \in Nat \cup {None}
      BY ServerAssumption
    <3> QED BY <3>1 DEF Memories
  <2>2. client \in [Clients -> [since : Since, last : {0}, have : {{}}]]
    BY DEF Init
  <2>3. client \in [Clients -> Memories]
    BY <2>1, <2>2
  <2> QED BY <2>3, AwayIsConnection DEF Init
<1>3. SlotsOK
  <2>1. Open = {}
    BY AwayIsConnection DEF Init, Open
  <2> QED BY <2>1, FS_EmptySet DEF Init, SlotsOK
<1>4. ASSUME NEW c \in Clients
      PROVE  Holds(conn[c], client[c]) /\ Within(conn[c], client[c], Len(log))
  <2>1. conn[c] = Away /\ client[c].last = 0 /\ client[c].have = {} /\ Len(log) = 0
    BY EmptySeq DEF Init
  <2> QED BY <2>1, AwayIsConnection DEF Holds, Within
<1> QED BY <1>1, <1>2, <1>3, <1>4 DEF ServerInv

LEMMA ServerSteps == ASSUME ServerInv, [Next]_vars PROVE ServerInv'
<1>1. CASE Mission
  BY <1>1, MissionKeepsLog, LogGrowsKeeps DEF ServerInv
<1>2. ASSUME NEW c \in Clients, Requests(c) \/ Serves(c) \/ ReadFails(c) \/ Cut(c)
      PROVE  ServerInv'
  <2>1. CASE Requests(c)
    BY <2>1, RequestsKeeps
  <2>2. CASE Decides(c)
    BY <2>2, DecidesKeeps
  <2>3. CASE Feeds(c)
    BY <2>3, FeedsKeeps
  <2>4. CASE Sends(c)
    BY <2>4, SendsKeeps
  <2>5. CASE Idles(c)
    BY <2>5, IdlesKeeps
  <2>6. CASE ReadFails(c)
    BY <2>6, ReadFailsKeeps
  <2>7. CASE Closes(c) \/ Cut(c)
    <3>1. conn[c].pc # "away" /\ GivesBack(c)
      BY <2>7 DEF Closes, Cut, Quiet
    <3> QED BY <3>1, SlotBack
  <2> QED BY <1>2, <2>1, <2>2, <2>3, <2>4, <2>5, <2>6, <2>7 DEF Serves
<1>3. CASE UNCHANGED vars
  BY <1>3, LogGrowsKeeps DEF vars, producer, ServerInv, LogOK
<1> QED BY <1>1, <1>2, <1>3 DEF Next

LEMMA ServerInvariant == Spec => []ServerInv
<1>1. Init => ServerInv
  BY ServerStarts
<1>2. ServerInv /\ [Next]_vars => ServerInv'
  BY ServerSteps
<1> QED BY <1>1, <1>2, PTL DEF Spec

\* Every state of the server is well typed, and the slots counted open are the
\* connections that are: none is lost to a client that went away and none is
\* given back twice (sse.py, StreamSlots; server, _EventStream).
THEOREM ServerTypeCorrect == Spec => []TypeOK
<1>1. ServerInv => TypeOK
  <2> SUFFICES ASSUME ServerInv PROVE TypeOK
    OBVIOUS
  <2>1. ASSUME NEW c \in Clients
        PROVE  /\ conn[c].pc \in {"away", "asked", "streaming", "closing"}
               /\ conn[c].cursor \in 0 .. Len(log) /\ client[c].have \subseteq 1 .. Len(log)
    BY DEF ServerInv, Connections, Within
  <2> QED BY <2>1 DEF ServerInv, LogOK, SlotsOK, Open, TypeOK
<1> QED BY <1>1, ServerInvariant, PTL

\* However often a client is cut off, and wherever, it has been handed the
\* whole of every record up to the last id it was given (sse.py, Agui.feed).
THEOREM ClientHasAllOfIt == Spec => []HasAllOfIt
<1>1. ServerInv => HasAllOfIt
  BY DEF ServerInv, Holds, HasAllOfIt
<1> QED BY <1>1, ServerInvariant, PTL

-----------------------------------------------------------------------------
(* A conforming stream.  What is drawn of the frames on their way is what  *)
(* the translator remembers, however far the frames have come.             *)

Shown(started, over, steps, calls, messages) ==
    [started |-> started, over |-> over, steps |-> steps, calls |-> calls,
     messages |-> messages, conforms |-> TRUE, bare |-> FALSE]

CallsOf(t) == {t.calls[k] : k \in DOMAIN t.calls}
StepsOf(t) == IF t.step_open THEN {t.step} ELSE {}
MessagesOf(t) == IF t.message = None THEN {} ELSE {t.message}

\* The pane of a stream that has sent all its translator said.
PaneOf(t, over) == Shown(t.opened, over, StepsOf(t), CallsOf(t), MessagesOf(t))

\* A frame that may come, and what it makes of the pane.
Draws(p, f, q) == Allowed(p, f) /\ q = Drawn(p, f, FALSE)

\* The frames may come one after the other, and lead from one pane to another.
Leads(p, fs, q) ==
    \E ps \in [1 .. Len(fs) + 1 -> Panes] :
        /\ ps[1] = p /\ ps[Len(fs) + 1] = q
        /\ \A i \in 1 .. Len(fs) : Draws(ps[i], fs[i], ps[i + 1])

LEMMA LeadsNowhere ==
    ASSUME NEW p \in Panes
    PROVE  Leads(p, << >>, p)
<1> DEFINE ps == [i \in 1 .. 1 |-> p]
<1>1. Len(<< >>) = 0 /\ ps \in [1 .. 0 + 1 -> Panes] /\ ps[1] = p
  OBVIOUS
<1> HIDE DEF ps
<1>2. \A i \in 1 .. 0 : FALSE
  OBVIOUS
<1> QED BY <1>1, <1>2 DEF Leads

LEMMA LeadsOne ==
    ASSUME NEW p \in Panes, NEW q \in Panes, NEW f, Draws(p, f, q)
    PROVE  Leads(p, <<f>>, q)
<1> DEFINE ps == [i \in 1 .. 2 |-> IF i = 1 THEN p ELSE q]
<1>1. Len(<<f>>) = 1 /\ <<f>>[1] = f
  OBVIOUS
<1>2. ps \in [1 .. 1 + 1 -> Panes] /\ ps[1] = p /\ ps[1 + 1] = q
  OBVIOUS
<1> HIDE DEF ps
<1>3. \A i \in 1 .. 1 : Draws(ps[i], <<f>>[i], ps[i + 1])
  BY <1>1, <1>2
<1> QED BY <1>1, <1>2, <1>3 DEF Leads

LEMMA LeadsOn ==
    ASSUME NEW fs \in Seq(Frames), NEW gs \in Seq(Frames), NEW p, NEW q, NEW r,
           Leads(p, fs, q), Leads(q, gs, r)
    PROVE  Leads(p, fs \o gs, r)
<1> DEFINE m == Len(fs)
           n == Len(gs)
<1>1. m \in Nat /\ n \in Nat
  OBVIOUS
<1>2. /\ Len(fs \o gs) = m + n
      /\ \A i \in 1 .. m : (fs \o gs)[i] = fs[i]
      /\ \A i \in m + 1 .. m + n : (fs \o gs)[i] = gs[i - m]
  OBVIOUS
<1>3. PICK ps \in [1 .. m + 1 -> Panes] :
        /\ ps[1] = p /\ ps[m + 1] = q
        /\ \A i \in 1 .. m : Draws(ps[i], fs[i], ps[i + 1])
  BY DEF Leads
<1>4. PICK qs \in [1 .. n + 1 -> Panes] :
        /\ qs[1] = q /\ qs[n + 1] = r
        /\ \A i \in 1 .. n : Draws(qs[i], gs[i], qs[i + 1])
  BY DEF Leads
<1> DEFINE rs == [i \in 1 .. (m + n) + 1 |-> IF i <= m + 1 THEN ps[i] ELSE qs[i - m]]
<1> HIDE DEF m, n
<1>5. rs \in [1 .. (m + n) + 1 -> Panes]
  <2>1. ASSUME NEW i \in 1 .. (m + n) + 1
        PROVE  (IF i <= m + 1 THEN ps[i] ELSE qs[i - m]) \in Panes
    <3>1. CASE i <= m + 1
      <4>1. i \in 1 .. m + 1
        BY <1>1, <3>1
      <4> QED BY <1>3, <3>1, <4>1
    <3>2. CASE ~(i <= m + 1)
      <4>1. i - m \in 1 .. n + 1
        BY <1>1, <3>2
      <4> QED BY <1>4, <3>2, <4>1
    <3> QED BY <3>1, <3>2
  <2> QED BY <2>1
<1>6. /\ \A i \in 1 .. m + 1 : rs[i] = ps[i]
      /\ \A i \in m + 1 .. (m + n) + 1 : rs[i] = qs[i - m]
  <2>1. \A i \in 1 .. m + 1 : i \in 1 .. (m + n) + 1 /\ i <= m + 1
    BY <1>1
  <2>2. ASSUME NEW i \in m + 1 .. (m + n) + 1
        PROVE  rs[i] = qs[i - m]
    <3>1. i \in 1 .. (m + n) + 1 /\ (i <= m + 1 => i = m + 1) /\ (m + 1) - m = 1
      BY <1>1
    <3>2. CASE i = m + 1
      <4>1. rs[i] = ps[m + 1]
        BY <3>1, <3>2
      <4> QED BY <1>3, <1>4, <3>1, <3>2, <4>1
    <3>3. CASE ~(i <= m + 1)
      BY <3>1, <3>3
    <3> QED BY <3>1, <3>2, <3>3
  <2> QED BY <2>1, <2>2
<1> HIDE DEF rs
<1>7. rs[1] = p /\ rs[(m + n) + 1] = r
  <2>1. /\ 1 \in 1 .. m + 1 /\ (m + n) + 1 \in m + 1 .. (m + n) + 1
        /\ ((m + n) + 1) - m = n + 1
    BY <1>1
  <2> QED BY <1>3, <1>4, <1>6, <2>1
<1>8. ASSUME NEW i \in 1 .. m + n
      PROVE  Draws(rs[i], (fs \o gs)[i], rs[i + 1])
  <2>1. CASE i <= m
    <3>1. i \in 1 .. m /\ i \in 1 .. m + 1 /\ i + 1 \in 1 .. m + 1
      BY <1>1, <2>1
    <3> QED BY <1>2, <1>3, <1>6, <3>1
  <2>2. CASE ~(i <= m)
    <3>1. /\ i \in m + 1 .. m + n /\ i \in m + 1 .. (m + n) + 1
          /\ i + 1 \in m + 1 .. (m + n) + 1 /\ i - m \in 1 .. n
          /\ (i + 1) - m = (i - m) + 1
      BY <1>1, <2>2
    <3> QED BY <1>2, <1>4, <1>6, <3>1
  <2> QED BY <2>1, <2>2
<1> QED BY <1>2, <1>5, <1>7, <1>8 DEF Leads

LEMMA LeadsTail ==
    ASSUME NEW fs \in Seq(Frames), fs # << >>, NEW p, NEW q, Leads(p, fs, q)
    PROVE  /\ Allowed(p, Head(fs))
           /\ Leads(Drawn(p, Head(fs), FALSE), Tail(fs), q)
<1> DEFINE m == Len(fs)
<1>1. m \in Nat /\ m # 0 /\ Head(fs) = fs[1]
  BY EmptySeq
<1>2. Len(Tail(fs)) = m - 1 /\ \A i \in 1 .. m - 1 : Tail(fs)[i] = fs[i + 1]
  BY <1>1
<1>3. PICK ps \in [1 .. m + 1 -> Panes] :
        /\ ps[1] = p /\ ps[m + 1] = q
        /\ \A i \in 1 .. m : Draws(ps[i], fs[i], ps[i + 1])
  BY DEF Leads
<1> DEFINE qs == [i \in 1 .. (m - 1) + 1 |-> ps[i + 1]]
<1> HIDE DEF m
<1>4. qs \in [1 .. (m - 1) + 1 -> Panes]
  <2>1. \A i \in 1 .. (m - 1) + 1 : i + 1 \in 1 .. m + 1
    BY <1>1
  <2> QED BY <1>3, <2>1
<1>5. \A i \in 1 .. m : qs[i] = ps[i + 1]
  <2>1. \A i \in 1 .. m : i \in 1 .. (m - 1) + 1
    BY <1>1
  <2> QED BY <2>1
<1> HIDE DEF qs
<1>6. Draws(p, Head(fs), ps[2])
  <2>1. 1 \in 1 .. m /\ 1 + 1 = 2
    BY <1>1
  <2> QED BY <1>1, <1>3, <2>1
<1>7. qs[1] = Drawn(p, Head(fs), FALSE) /\ qs[(m - 1) + 1] = q
  <2>1. 1 \in 1 .. m /\ m \in 1 .. m /\ (m - 1) + 1 = m /\ 1 + 1 = 2
    BY <1>1
  <2>2. qs[1] = ps[2] /\ qs[m] = ps[m + 1]
    BY <1>5, <2>1
  <2>3. ps[2] = Drawn(p, Head(fs), FALSE)
    BY <1>6 DEF Draws
  <2> QED BY <1>3, <2>1, <2>2, <2>3
<1>8. ASSUME NEW i \in 1 .. m - 1
      PROVE  Draws(qs[i], Tail(fs)[i], qs[i + 1])
  <2>1. i \in 1 .. m /\ i + 1 \in 1 .. m
    BY <1>1
  <2> QED BY <1>2, <1>3, <1>5, <2>1
<1>9. Leads(Drawn(p, Head(fs), FALSE), Tail(fs), q)
  BY <1>2, <1>4, <1>7, <1>8 DEF Leads
<1> QED BY <1>6, <1>9 DEF Draws

-----------------------------------------------------------------------------
\* The frames, each where it may come

LEMMA ShownIsPane ==
    ASSUME NEW b \in BOOLEAN, NEW o \in BOOLEAN, NEW S \in SUBSET Int,
           NEW C \in SUBSET Int, NEW M \in SUBSET Int
    PROVE  Shown(b, o, S, C, M) \in Panes
BY DEF Shown, Panes

LEMMA RunStarts ==
    ASSUME NEW S, NEW C, NEW M, NEW n
    PROVE  Draws(Shown(FALSE, FALSE, S, C, M), F("RUN_STARTED", n),
                 Shown(TRUE, FALSE, S, C, M))
BY DEF Draws, Shown, Drawn, Allowed, With, F, Frame

LEMMA RunEnds ==
    ASSUME NEW type \in {"RUN_FINISHED", "RUN_ERROR"}, NEW n
    PROVE  Draws(Shown(TRUE, FALSE, {}, {}, {}), F(type, n), Shown(TRUE, TRUE, {}, {}, {}))
BY DEF Draws, Shown, Drawn, Allowed, With, F, Frame

LEMMA StepStarts ==
    ASSUME NEW C, NEW M, NEW n
    PROVE  Draws(Shown(TRUE, FALSE, {}, C, M), F("STEP_STARTED", n),
                 Shown(TRUE, FALSE, {n}, C, M))
BY DEF Draws, Shown, Drawn, Allowed, With, F, Frame

LEMMA StepFinishes ==
    ASSUME NEW C, NEW M, NEW n
    PROVE  Draws(Shown(TRUE, FALSE, {n}, C, M), F("STEP_FINISHED", n),
                 Shown(TRUE, FALSE, {}, C, M))
BY DEF Draws, Shown, Drawn, Allowed, With, F, Frame

LEMMA CallStarts ==
    ASSUME NEW S, NEW C, NEW M, NEW n, n \notin C
    PROVE  Draws(Shown(TRUE, FALSE, S, C, M), F("TOOL_CALL_START", n),
                 Shown(TRUE, FALSE, S, C \cup {n}, M))
BY DEF Draws, Shown, Drawn, Allowed, With, F, Frame

LEMMA CallArguments ==
    ASSUME NEW S, NEW C, NEW M, NEW n \in C
    PROVE  Draws(Shown(TRUE, FALSE, S, C, M), F("TOOL_CALL_ARGS", n),
                 Shown(TRUE, FALSE, S, C, M))
BY DEF Draws, Shown, Drawn, Allowed, With, F, Frame

LEMMA CallEnds ==
    ASSUME NEW S, NEW C, NEW M, NEW n \in C
    PROVE  Draws(Shown(TRUE, FALSE, S, C, M), F("TOOL_CALL_END", n),
                 Shown(TRUE, FALSE, S, C \ {n}, M))
BY DEF Draws, Shown, Drawn, Allowed, With, F, Frame

LEMMA CallResults ==
    ASSUME NEW S, NEW C, NEW M, NEW n, n \notin C
    PROVE  Draws(Shown(TRUE, FALSE, S, C, M), F("TOOL_CALL_RESULT", n),
                 Shown(TRUE, FALSE, S, C, M))
BY DEF Draws, Shown, Drawn, Allowed, With, F, Frame

LEMMA MessageStarts ==
    ASSUME NEW S, NEW C, NEW n
    PROVE  Draws(Shown(TRUE, FALSE, S, C, {}), F("TEXT_MESSAGE_START", n),
                 Shown(TRUE, FALSE, S, C, {n}))
BY DEF Draws, Shown, Drawn, Allowed, With, F, Frame

LEMMA MessageGoesOn ==
    ASSUME NEW S, NEW C, NEW n, NEW verdict
    PROVE  Draws(Shown(TRUE, FALSE, S, C, {n}), Frame("TEXT_MESSAGE_CONTENT", n, verdict),
                 Shown(TRUE, FALSE, S, C, {n}))
BY DEF Draws, Shown, Drawn, Allowed, With, Frame

LEMMA MessageEnds ==
    ASSUME NEW S, NEW C, NEW n
    PROVE  Draws(Shown(TRUE, FALSE, S, C, {n}), F("TEXT_MESSAGE_END", n),
                 Shown(TRUE, FALSE, S, C, {}))
BY DEF Draws, Shown, Drawn, Allowed, With, F, Frame

LEMMA OthersMayCome ==
    ASSUME NEW S, NEW C, NEW M, NEW n, NEW verdict,
           NEW type \in {"CUSTOM", "GROUNDING", "ANSWER"}
    PROVE  Draws(Shown(TRUE, FALSE, S, C, M), Frame(type, n, verdict),
                 Shown(TRUE, FALSE, S, C, M))
BY DEF Draws, Shown, Drawn, Allowed, With, Frame

-----------------------------------------------------------------------------
\* What each record becomes may come, and shows what the translator remembers.

Goes(p, fs, q) == fs \in Seq(Frames) /\ Leads(p, fs, q)

LEMMA GoesNowhere == ASSUME NEW p \in Panes PROVE Goes(p, << >>, p)
  BY LeadsNowhere, EmptySeq DEF Goes

LEMMA GoesOne ==
    ASSUME NEW p \in Panes, NEW q \in Panes, NEW f \in Frames, Draws(p, f, q)
    PROVE  Goes(p, <<f>>, q)
  BY LeadsOne DEF Goes

LEMMA GoesOn ==
    ASSUME NEW p, NEW q, NEW r, NEW fs, NEW gs, Goes(p, fs, q), Goes(q, gs, r)
    PROVE  Goes(p, fs \o gs, r)
<1>1. fs \in Seq(Frames) /\ gs \in Seq(Frames) /\ Leads(p, fs, q) /\ Leads(q, gs, r)
  BY DEF Goes
<1>2. fs \o gs \in Seq(Frames)
  BY <1>1
<1> QED BY <1>1, <1>2, LeadsOn DEF Goes

LEMMA GoesFarther ==
    ASSUME NEW o, NEW p, NEW q, NEW r, NEW es, NEW fs, NEW gs,
           Goes(o, es, p), Goes(p, fs, q), Goes(q, gs, r)
    PROVE  Goes(o, es \o fs \o gs, r)
<1>1. Goes(o, es \o fs, q)
  BY GoesOn, Zenon
<1> QED BY <1>1, GoesOn, Zenon

LEMMA GoesTwo ==
    ASSUME NEW p \in Panes, NEW q \in Panes, NEW r \in Panes, NEW f \in Frames, NEW g \in Frames,
           Draws(p, f, q), Draws(q, g, r)
    PROVE  Goes(p, <<f, g>>, r)
<1> DEFINE ps == [i \in 1 .. 3 |-> IF i = 1 THEN p ELSE IF i = 2 THEN q ELSE r]
<1>1. Len(<<f, g>>) = 2 /\ <<f, g>>[1] = f /\ <<f, g>>[2] = g /\ <<f, g>> \in Seq(Frames)
  OBVIOUS
<1>2. ps \in [1 .. 2 + 1 -> Panes] /\ ps[1] = p /\ ps[2] = q /\ ps[2 + 1] = r
  OBVIOUS
<1> HIDE DEF ps
<1>3. \A i \in 1 .. 2 : Draws(ps[i], <<f, g>>[i], ps[i + 1])
  <2>1. \A i \in 1 .. 2 : (i = 1 /\ i + 1 = 2) \/ (i = 2 /\ i + 1 = 2 + 1)
    OBVIOUS
  <2> QED BY <1>1, <1>2, <2>1, Zenon
<1> QED BY <1>1, <1>2, <1>3 DEF Goes, Leads

LEMMA GoesThree ==
    ASSUME NEW o \in Panes, NEW p \in Panes, NEW q \in Panes, NEW r \in Panes,
           NEW f \in Frames, NEW g \in Frames, NEW h \in Frames,
           Draws(o, f, p), Draws(p, g, q), Draws(q, h, r)
    PROVE  Goes(o, <<f, g, h>>, r)
<1> DEFINE ps == [i \in 1 .. 4 |-> IF i = 1 THEN o ELSE IF i = 2 THEN p
                                   ELSE IF i = 3 THEN q ELSE r]
<1>1. /\ Len(<<f, g, h>>) = 3 /\ <<f, g, h>>[1] = f /\ <<f, g, h>>[2] = g
      /\ <<f, g, h>>[3] = h /\ <<f, g, h>> \in Seq(Frames)
  OBVIOUS
<1>2. ps \in [1 .. 3 + 1 -> Panes] /\ ps[1] = o /\ ps[2] = p /\ ps[3] = q /\ ps[3 + 1] = r
  OBVIOUS
<1> HIDE DEF ps
<1>3. \A i \in 1 .. 3 : Draws(ps[i], <<f, g, h>>[i], ps[i + 1])
  <2>1. \A i \in 1 .. 3 : (i = 1 /\ i + 1 = 2) \/ (i = 2 /\ i + 1 = 3) \/ (i = 3 /\ i + 1 = 3 + 1)
    OBVIOUS
  <2> QED BY <1>1, <1>2, <2>1, Zenon
<1> QED BY <1>1, <1>2, <1>3 DEF Goes, Leads

LEMMA FramesAreFrames ==
    ASSUME NEW n \in Int, NEW verdict \in BOOLEAN, NEW type \in FrameTypes
    PROVE  F(type, n) \in Frames /\ Frame(type, n, verdict) \in Frames
  BY DEF F, Frame, Frames

\* No call is open twice.
Distinct(t) == \A j, k \in DOMAIN t.calls : j # k => t.calls[j] # t.calls[k]

LEMMA TranslatorShape ==
    ASSUME NEW t \in Translators
    PROVE  /\ t.opened \in BOOLEAN /\ t.step \in Int /\ t.message \in Int
           /\ t.step_open \in BOOLEAN /\ t.verdict \in BOOLEAN
           /\ t.calls \in Seq(Int) /\ DOMAIN t.calls = 1 .. Len(t.calls)
           /\ Len(t.calls) \in Nat
           /\ StepsOf(t) \in SUBSET Int /\ CallsOf(t) \in SUBSET Int
           /\ MessagesOf(t) \in SUBSET Int
<1>1. /\ t.opened \in BOOLEAN /\ t.step \in Int /\ t.message \in Int
      /\ t.step_open \in BOOLEAN /\ t.verdict \in BOOLEAN /\ t.calls \in Seq(Int)
  BY DEF Translators
<1> QED BY <1>1 DEF StepsOf, CallsOf, MessagesOf

LEMMA OpeningGoes ==
    ASSUME NEW t \in Translators
    PROVE  Goes(PaneOf(t, FALSE), Opening(t),
                Shown(TRUE, FALSE, StepsOf(t), CallsOf(t), MessagesOf(t)))
<1> DEFINE p == PaneOf(t, FALSE)
           q == Shown(TRUE, FALSE, StepsOf(t), CallsOf(t), MessagesOf(t))
<1>1. p \in Panes /\ q \in Panes
  BY TranslatorShape, ShownIsPane DEF PaneOf
<1>2. CASE t.opened
  <2>1. Opening(t) = << >> /\ p = q
    BY <1>2, TranslatorShape DEF Opening, PaneOf
  <2> QED BY <1>1, <2>1, GoesNowhere
<1>3. CASE ~t.opened
  <2>1. Opening(t) = <<F("RUN_STARTED", 0)>> /\ t.opened = FALSE
    BY <1>3, TranslatorShape DEF Opening
  <2>2. Draws(p, F("RUN_STARTED", 0), q)
    BY <2>1, RunStarts DEF PaneOf
  <2>3. F("RUN_STARTED", 0) \in Frames
    BY DEF F, Frame, Frames, FrameTypes
  <2> QED BY <1>1, <2>1, <2>2, <2>3, GoesOne
<1> QED BY <1>2, <1>3

LEMMA EndStepGoes ==
    ASSUME NEW t \in Translators, NEW C \in SUBSET Int, NEW M \in SUBSET Int
    PROVE  Goes(Shown(TRUE, FALSE, StepsOf(t), C, M), EndStep(t),
                Shown(TRUE, FALSE, {}, C, M))
<1>1. /\ Shown(TRUE, FALSE, StepsOf(t), C, M) \in Panes
      /\ Shown(TRUE, FALSE, {}, C, M) \in Panes
  BY TranslatorShape, ShownIsPane
<1>2. CASE t.step_open
  <2>1. EndStep(t) = <<F("STEP_FINISHED", t.step)>> /\ StepsOf(t) = {t.step}
    BY <1>2 DEF EndStep, StepsOf
  <2>2. F("STEP_FINISHED", t.step) \in Frames
    BY TranslatorShape, FramesAreFrames DEF FrameTypes
  <2> QED BY <1>1, <2>1, <2>2, StepFinishes, GoesOne
<1>3. CASE ~t.step_open
  <2>1. EndStep(t) = << >> /\ StepsOf(t) = {}
    BY <1>3 DEF EndStep, StepsOf
  <2> QED BY <1>1, <2>1, GoesNowhere
<1> QED BY <1>2, <1>3

LEMMA EndMessageGoes ==
    ASSUME NEW t \in Translators, NEW S \in SUBSET Int, NEW C \in SUBSET Int
    PROVE  Goes(Shown(TRUE, FALSE, S, C, MessagesOf(t)), EndMessage(t),
                Shown(TRUE, FALSE, S, C, {}))
<1>1. /\ Shown(TRUE, FALSE, S, C, MessagesOf(t)) \in Panes
      /\ Shown(TRUE, FALSE, S, C, {}) \in Panes
  BY TranslatorShape, ShownIsPane
<1>2. CASE t.message # None
  <2>1. EndMessage(t) = <<F("TEXT_MESSAGE_END", t.message)>> /\ MessagesOf(t) = {t.message}
    BY <1>2 DEF EndMessage, MessagesOf
  <2>2. F("TEXT_MESSAGE_END", t.message) \in Frames
    BY TranslatorShape, FramesAreFrames DEF FrameTypes
  <2> QED BY <1>1, <2>1, <2>2, MessageEnds, GoesOne
<1>3. CASE t.message = None
  <2>1. EndMessage(t) = << >> /\ MessagesOf(t) = {}
    BY <1>3 DEF EndMessage, MessagesOf
  <2> QED BY <1>1, <2>1, GoesNowhere
<1> QED BY <1>2, <1>3

\* The open calls end one after the other; the rest are still open.
LEMMA EndCallsGoes ==
    ASSUME NEW t \in Translators, Distinct(t), NEW S \in SUBSET Int, NEW M \in SUBSET Int
    PROVE  Goes(Shown(TRUE, FALSE, S, CallsOf(t), M), EndCalls(t),
                Shown(TRUE, FALSE, S, {}, M))
<1> DEFINE n == Len(t.calls)
           left(i) == {t.calls[k] : k \in i .. n}
           ps == [i \in 1 .. n + 1 |-> Shown(TRUE, FALSE, S, left(i), M)]
<1>1. /\ n \in Nat /\ DOMAIN t.calls = 1 .. n /\ \A k \in 1 .. n : t.calls[k] \in Int
      /\ EndCalls(t) \in Seq(Frames)
  BY TranslatorShape, PartsAreFrames
<1>2. Len(EndCalls(t)) = n /\ \A i \in 1 .. n : EndCalls(t)[i] = F("TOOL_CALL_END", t.calls[i])
  BY <1>1 DEF EndCalls
<1> HIDE DEF n
<1>3. \A i \in 1 .. n + 1 : left(i) \in SUBSET Int
  BY <1>1
<1>4. left(1) = CallsOf(t) /\ left(n + 1) = {}
  BY <1>1 DEF CallsOf
<1>5. ASSUME NEW i \in 1 .. n
      PROVE  t.calls[i] \in left(i) /\ left(i) \ {t.calls[i]} = left(i + 1)
  <2>1. i \in i .. n /\ i + 1 .. n \subseteq i .. n /\ i .. n \subseteq 1 .. n
    BY <1>1
  <2>2. \A k \in i .. n : k = i \/ k \in i + 1 .. n
    BY <1>1
  <2>3. \A k \in i + 1 .. n : k # i
    BY <1>1
  <2>4. \A k \in i + 1 .. n : t.calls[k] # t.calls[i]
    BY <1>1, <2>1, <2>3 DEF Distinct
  <2> QED BY <2>1, <2>2, <2>4
<1> HIDE DEF left
<1>6. ps \in [1 .. n + 1 -> Panes]
  BY <1>3, ShownIsPane
<1>7. \A i \in 1 .. n + 1 : ps[i] = Shown(TRUE, FALSE, S, left(i), M)
  OBVIOUS
<1> HIDE DEF ps
<1>8. ASSUME NEW i \in 1 .. n
      PROVE  Draws(ps[i], EndCalls(t)[i], ps[i + 1])
  <2>1. i \in 1 .. n + 1 /\ i + 1 \in 1 .. n + 1
    BY <1>1
  <2>2. /\ ps[i] = Shown(TRUE, FALSE, S, left(i), M)
        /\ ps[i + 1] = Shown(TRUE, FALSE, S, left(i) \ {t.calls[i]}, M)
    BY <1>5, <1>7, <2>1
  <2>3. Draws(Shown(TRUE, FALSE, S, left(i), M), F("TOOL_CALL_END", t.calls[i]),
              Shown(TRUE, FALSE, S, left(i) \ {t.calls[i]}, M))
    BY <1>5, CallEnds
  <2>4. EndCalls(t)[i] = F("TOOL_CALL_END", t.calls[i])
    BY <1>2
  <2> QED BY <2>2, <2>3, <2>4
<1>9. /\ ps[1] = Shown(TRUE, FALSE, S, CallsOf(t), M)
      /\ ps[n + 1] = Shown(TRUE, FALSE, S, {}, M)
  <2>1. 1 \in 1 .. n + 1 /\ n + 1 \in 1 .. n + 1
    BY <1>1
  <2> QED BY <1>4, <1>7, <2>1
<1> QED BY <1>1, <1>2, <1>6, <1>8, <1>9 DEF Goes, Leads

\* Taking the k-th entry out of a sequence leaves the others, in their order.
LEMMA RemovedAt ==
    ASSUME NEW s \in Seq(Int), NEW k \in 1 .. Len(s)
    PROVE  /\ RemoveAt(s, k) \in Seq(Int) /\ Len(RemoveAt(s, k)) = Len(s) - 1
           /\ \A i \in 1 .. Len(s) - 1 : RemoveAt(s, k)[i] = s[IF i < k THEN i ELSE i + 1]
<1> DEFINE n == Len(s)
           a == SubSeq(s, 1, k - 1)
           b == SubSeq(s, k + 1, n)
<1>1. n \in Nat /\ k \in Nat /\ k >= 1 /\ k <= n
  OBVIOUS
<1>2. a \in Seq(Int) /\ Len(a) = k - 1 /\ \A i \in 1 .. k - 1 : a[i] = s[i]
  OBVIOUS
<1>3. b \in Seq(Int) /\ Len(b) = n - k /\ \A i \in 1 .. n - k : b[i] = s[k + i]
  BY <1>1
<1>4. RemoveAt(s, k) = a \o b
  BY DEF RemoveAt
<1> HIDE DEF a, b, n
<1>5. /\ a \o b \in Seq(Int) /\ Len(a \o b) = Len(a) + Len(b)
      /\ \A i \in 1 .. Len(a) : (a \o b)[i] = a[i]
      /\ \A i \in Len(a) + 1 .. Len(a) + Len(b) : (a \o b)[i] = b[i - Len(a)]
  <2>1. ASSUME NEW u \in Seq(Int), NEW v \in Seq(Int)
        PROVE  /\ u \o v \in Seq(Int) /\ Len(u \o v) = Len(u) + Len(v)
               /\ \A i \in 1 .. Len(u) : (u \o v)[i] = u[i]
               /\ \A i \in Len(u) + 1 .. Len(u) + Len(v) : (u \o v)[i] = v[i - Len(u)]
    OBVIOUS
  <2> QED BY <1>2, <1>3, <2>1
<1>6. Len(a) + Len(b) = n - 1
  BY <1>1, <1>2, <1>3
<1>7. ASSUME NEW i \in 1 .. n - 1
      PROVE  (a \o b)[i] = s[IF i < k THEN i ELSE i + 1]
  <2>1. CASE i < k
    <3>1. i \in 1 .. k - 1
      BY <1>1, <2>1
    <3>2. (a \o b)[i] = a[i]
      BY <1>2, <1>5, <3>1
    <3> QED BY <1>2, <2>1, <3>1, <3>2
  <2>2. CASE ~(i < k)
    <3>1. /\ i - (k - 1) \in 1 .. n - k /\ k + (i - (k - 1)) = i + 1
          /\ i \in Len(a) + 1 .. Len(a) + Len(b) /\ i - Len(a) = i - (k - 1)
      BY <1>1, <1>2, <1>6, <2>2
    <3>2. (a \o b)[i] = b[i - (k - 1)]
      BY <1>5, <3>1
    <3> QED BY <1>3, <2>2, <3>1, <3>2
  <2> QED BY <2>1, <2>2
<1> QED BY <1>4, <1>5, <1>6, <1>7 DEF n

LEMMA CallTaken ==
    ASSUME NEW t \in Translators, Distinct(t), NEW call \in Int, NEW u,
           u.calls = WithoutCall(t, call)
    PROVE  Distinct(u) /\ CallsOf(u) = CallsOf(t) \ {call}
<1>1. CASE ~IsOpen(t, call)
  BY <1>1 DEF WithoutCall, IsOpen, Distinct, CallsOf
<1>2. CASE IsOpen(t, call)
  <2> DEFINE n == Len(t.calls)
  <2>1. t.calls \in Seq(Int) /\ DOMAIN t.calls = 1 .. n /\ n \in Nat
    BY TranslatorShape
  <2>2. PICK k \in 1 .. n : t.calls[k] = call /\ u.calls = RemoveAt(t.calls, k)
    <3>1. (CHOOSE k \in DOMAIN t.calls : t.calls[k] = call) \in DOMAIN t.calls
          /\ t.calls[CHOOSE k \in DOMAIN t.calls : t.calls[k] = call] = call
      BY <1>2 DEF IsOpen
    <3>2. u.calls = RemoveAt(t.calls, CHOOSE k \in DOMAIN t.calls : t.calls[k] = call)
      BY <1>2 DEF WithoutCall
    <3> QED BY <2>1, <3>1, <3>2
  <2>3. /\ DOMAIN u.calls = 1 .. n - 1
        /\ \A i \in 1 .. n - 1 : u.calls[i] = t.calls[IF i < k THEN i ELSE i + 1]
    <3>1. /\ RemoveAt(t.calls, k) \in Seq(Int) /\ Len(RemoveAt(t.calls, k)) = n - 1
          /\ \A i \in 1 .. n - 1 : RemoveAt(t.calls, k)[i] = t.calls[IF i < k THEN i ELSE i + 1]
      BY <2>1, RemovedAt
    <3> HIDE DEF n
    <3>2. u.calls \in Seq(Int) /\ Len(u.calls) = n - 1
      BY <2>2, <3>1
    <3>3. DOMAIN u.calls = 1 .. n - 1
      BY <3>2
    <3> QED BY <2>2, <3>1, <3>3
  <2> HIDE DEF n
  <2>4. ASSUME NEW i \in 1 .. n - 1
        PROVE  /\ (IF i < k THEN i ELSE i + 1) \in 1 .. n
               /\ (IF i < k THEN i ELSE i + 1) # k
    BY <2>1
  <2>5. Distinct(u)
    <3> SUFFICES ASSUME NEW i \in 1 .. n - 1, NEW j \in 1 .. n - 1, i # j
                 PROVE  u.calls[i] # u.calls[j]
      BY <2>3 DEF Distinct
    <3>1. (IF i < k THEN i ELSE i + 1) # (IF j < k THEN j ELSE j + 1)
      BY <2>1
    <3> QED BY <2>1, <2>3, <2>4, <3>1 DEF Distinct
  <2>6. CallsOf(u) \subseteq CallsOf(t) \ {call}
    <3> SUFFICES ASSUME NEW i \in 1 .. n - 1
                 PROVE  u.calls[i] \in CallsOf(t) /\ u.calls[i] # call
      BY <2>3 DEF CallsOf
    <3> QED BY <2>1, <2>2, <2>3, <2>4 DEF CallsOf, Distinct
  <2>7. CallsOf(t) \ {call} \subseteq CallsOf(u)
    <3>0. CallsOf(u) = {u.calls[i] : i \in 1 .. n - 1} /\ CallsOf(t) = {t.calls[j] : j \in 1 .. n}
      BY <2>1, <2>3 DEF CallsOf
    <3> SUFFICES ASSUME NEW j \in 1 .. n, t.calls[j] # call
                 PROVE  \E i \in 1 .. n - 1 : u.calls[i] = t.calls[j]
      BY <3>0
    <3>1. j # k
      BY <2>2
    <3>2. CASE j < k
      <4>1. j \in 1 .. n - 1
        BY <2>1, <3>2
      <4> QED BY <2>3, <3>2, <4>1
    <3>3. CASE ~(j < k)
      <4>1. j - 1 \in 1 .. n - 1 /\ ~(j - 1 < k) /\ (j - 1) + 1 = j
        BY <2>1, <3>1, <3>3
      <4> QED BY <2>3, <4>1
    <3> QED BY <3>2, <3>3
  <2> QED BY <2>5, <2>6, <2>7
<1> QED BY <1>1, <1>2

LEMMA CallGiven ==
    ASSUME NEW t \in Translators, Distinct(t), NEW call \in Int, NEW u,
           u.calls = WithCall(t, call)
    PROVE  Distinct(u) /\ CallsOf(u) = CallsOf(t) \cup {call}
<1>1. CASE IsOpen(t, call)
  BY <1>1 DEF WithCall, IsOpen, Distinct, CallsOf
<1>2. CASE ~IsOpen(t, call)
  <2> DEFINE n == Len(t.calls)
  <2>1. t.calls \in Seq(Int) /\ DOMAIN t.calls = 1 .. n /\ n \in Nat
    BY TranslatorShape
  <2>2. u.calls = Append(t.calls, call)
    BY <1>2 DEF WithCall
  <2>3. /\ DOMAIN u.calls = 1 .. n + 1 /\ u.calls[n + 1] = call
        /\ \A i \in 1 .. n : u.calls[i] = t.calls[i]
    BY <2>1, <2>2
  <2>4. \A i \in 1 .. n : t.calls[i] # call
    BY <1>2, <2>1 DEF IsOpen
  <2> HIDE DEF n
  <2>5. \A i \in 1 .. n + 1 : i \in 1 .. n \/ i = n + 1
    BY <2>1
  <2>6. Distinct(u)
    BY <2>1, <2>3, <2>4, <2>5 DEF Distinct
  <2>7. \A i \in 1 .. n : i \in 1 .. n + 1
    BY <2>1
  <2>8. n + 1 \in 1 .. n + 1
    BY <2>1
  <2>9. CallsOf(u) = CallsOf(t) \cup {call}
    BY <2>1, <2>3, <2>5, <2>7, <2>8 DEF CallsOf
  <2> QED BY <2>6, <2>9
<1> QED BY <1>1, <1>2

-----------------------------------------------------------------------------
(* One record: its frames may come, and afterwards the pane shows what the *)
(* translator remembers.                                                   *)

Tells(t, fed, over) ==
    /\ Goes(PaneOf(t, FALSE), fed.frames, PaneOf(fed.state, over))
    /\ Distinct(fed.state)

\* What is remembered next is u, but that the stream is opened.
LEMMA Remembered ==
    ASSUME NEW t \in Translators, NEW u \in Translators, Distinct(u), NEW frames,
           NEW over \in BOOLEAN,
           Goes(PaneOf(t, FALSE), frames,
                Shown(TRUE, over, StepsOf(u), CallsOf(u), MessagesOf(u)))
    PROVE  Tells(t, Becomes(u, frames), over) /\ CallsOf(Becomes(u, frames).state) = CallsOf(u)
<1> DEFINE v == [u EXCEPT !.opened = TRUE]
<1>1. /\ v.opened = TRUE /\ v.step = u.step /\ v.step_open = u.step_open
      /\ v.calls = u.calls /\ v.message = u.message
  BY DEF Translators
<1>2. Becomes(u, frames).state = v /\ Becomes(u, frames).frames = frames
  BY DEF Becomes
<1> HIDE DEF v
<1>3. StepsOf(v) = StepsOf(u) /\ CallsOf(v) = CallsOf(u) /\ MessagesOf(v) = MessagesOf(u)
  BY <1>1 DEF StepsOf, CallsOf, MessagesOf
<1>4. Distinct(v)
  BY <1>1 DEF Distinct
<1>5. PaneOf(v, over) = Shown(TRUE, over, StepsOf(u), CallsOf(u), MessagesOf(u))
  BY <1>1, <1>3, Zenon DEF PaneOf
<1> QED BY <1>2, <1>3, <1>4, <1>5, Zenon DEF Tells

LEMMA RecordShape ==
    ASSUME NEW r \in Records
    PROVE  r.index \in Int /\ r.call \in Int /\ r.flag \in BOOLEAN
  BY DEF Records

LEMMA StepTells ==
    ASSUME NEW t \in Translators, Distinct(t), NEW r \in Records
    PROVE  Tells(t, OnStep(t, r), FALSE) /\ CallsOf(OnStep(t, r).state) = CallsOf(t)
<1> DEFINE C == CallsOf(t)
           M == MessagesOf(t)
<1>0. PICK n \in Int : n = r.index
  BY RecordShape
<1>1. C \in SUBSET Int /\ M \in SUBSET Int
  BY TranslatorShape
<1> DEFINE u == [t EXCEPT !.step = n, !.step_open = TRUE]
           frames == Opening(t) \o EndStep(t) \o <<F("STEP_STARTED", n)>>
<1>2. u \in Translators /\ u.calls = t.calls /\ u.step = n /\ u.step_open = TRUE
      /\ u.message = t.message
  BY DEF Translators
<1>3. OnStep(t, r) = Becomes(u, frames)
  BY <1>0 DEF OnStep
<1> HIDE DEF u
<1>4. StepsOf(u) = {n} /\ CallsOf(u) = C /\ MessagesOf(u) = M /\ Distinct(u)
  BY <1>2 DEF StepsOf, CallsOf, MessagesOf, Distinct
<1>5. Goes(PaneOf(t, FALSE), Opening(t) \o EndStep(t), Shown(TRUE, FALSE, {}, C, M))
  BY <1>1, OpeningGoes, EndStepGoes, GoesOn
<1>6. Goes(Shown(TRUE, FALSE, {}, C, M), <<F("STEP_STARTED", n)>>, Shown(TRUE, FALSE, {n}, C, M))
  <2>1. /\ Shown(TRUE, FALSE, {}, C, M) \in Panes /\ Shown(TRUE, FALSE, {n}, C, M) \in Panes
    BY <1>1, ShownIsPane
  <2>2. F("STEP_STARTED", n) \in Frames
    BY FramesAreFrames DEF FrameTypes
  <2> QED BY <2>1, <2>2, StepStarts, GoesOne
<1>7. Goes(PaneOf(t, FALSE), frames, Shown(TRUE, FALSE, {n}, C, M))
  BY <1>5, <1>6, GoesOn, Zenon
<1> HIDE DEF frames
<1>8. Goes(PaneOf(t, FALSE), frames, Shown(TRUE, FALSE, StepsOf(u), CallsOf(u), MessagesOf(u)))
  BY <1>4, <1>7, Zenon
<1>9. Tells(t, Becomes(u, frames), FALSE) /\ CallsOf(Becomes(u, frames).state) = CallsOf(u)
  BY <1>2, <1>4, <1>8, Remembered, Zenon
<1> QED BY <1>3, <1>4, <1>9

LEMMA CallTells ==
    ASSUME NEW t \in Translators, Distinct(t), NEW r \in Records, r.call \notin CallsOf(t)
    PROVE  /\ Tells(t, OnCall(t, r), FALSE)
           /\ CallsOf(OnCall(t, r).state) = CallsOf(t) \cup {r.call}
<1> DEFINE S == StepsOf(t)
           C == CallsOf(t)
           M == MessagesOf(t)
<1>0. PICK n \in Int : n = r.call
  BY RecordShape
<1>1. S \in SUBSET Int /\ C \in SUBSET Int /\ M \in SUBSET Int /\ n \notin C
  BY <1>0, TranslatorShape
<1> DEFINE u == [t EXCEPT !.calls = WithCall(t, n)]
           frames == Opening(t) \o <<F("TOOL_CALL_START", n), F("TOOL_CALL_ARGS", n)>>
<1>2. u \in Translators /\ u.calls = WithCall(t, n) /\ u.step = t.step
      /\ u.step_open = t.step_open /\ u.message = t.message
  BY CallsStaySequence DEF Translators
<1>3. OnCall(t, r) = Becomes(u, frames)
  BY <1>0 DEF OnCall
<1> HIDE DEF u
<1>4. StepsOf(u) = S /\ CallsOf(u) = C \cup {n} /\ MessagesOf(u) = M /\ Distinct(u)
  BY <1>2, CallGiven DEF StepsOf, MessagesOf
<1>5. /\ Shown(TRUE, FALSE, S, C, M) \in Panes
      /\ Shown(TRUE, FALSE, S, C \cup {n}, M) \in Panes
  BY <1>1, ShownIsPane
<1>6. Goes(Shown(TRUE, FALSE, S, C, M),
           <<F("TOOL_CALL_START", n), F("TOOL_CALL_ARGS", n)>>,
           Shown(TRUE, FALSE, S, C \cup {n}, M))
  <2>1. F("TOOL_CALL_START", n) \in Frames /\ F("TOOL_CALL_ARGS", n) \in Frames
        /\ n \in C \cup {n}
    BY FramesAreFrames DEF FrameTypes
  <2> QED BY <1>1, <1>5, <2>1, CallStarts, CallArguments, GoesTwo
<1>7. Goes(PaneOf(t, FALSE), Opening(t), Shown(TRUE, FALSE, S, C, M))
  BY OpeningGoes
<1>8. Goes(PaneOf(t, FALSE), frames, Shown(TRUE, FALSE, S, C \cup {n}, M))
  BY <1>6, <1>7, GoesOn, Zenon
<1> HIDE DEF frames
<1>9. Goes(PaneOf(t, FALSE), frames, Shown(TRUE, FALSE, StepsOf(u), CallsOf(u), MessagesOf(u)))
  BY <1>4, <1>8, Zenon
<1>10. Tells(t, Becomes(u, frames), FALSE) /\ CallsOf(Becomes(u, frames).state) = CallsOf(u)
  BY <1>2, <1>4, <1>9, Remembered, Zenon
<1> QED BY <1>0, <1>3, <1>4, <1>10

LEMMA ResultTells ==
    ASSUME NEW t \in Translators, Distinct(t), NEW r \in Records
    PROVE  /\ Tells(t, OnResult(t, r), FALSE)
           /\ CallsOf(OnResult(t, r).state) = CallsOf(t) \ {r.call}
<1> DEFINE S == StepsOf(t)
           C == CallsOf(t)
           M == MessagesOf(t)
<1>0. PICK n \in Int : n = r.call
  BY RecordShape
<1>1. S \in SUBSET Int /\ C \in SUBSET Int /\ M \in SUBSET Int
  BY TranslatorShape
<1> DEFINE u == [t EXCEPT !.calls = WithoutCall(t, n)]
           start == IF IsOpen(t, n) THEN << >> ELSE <<F("TOOL_CALL_START", n)>>
           frames == Opening(t) \o start
                       \o <<F("TOOL_CALL_END", n), F("TOOL_CALL_RESULT", n)>>
<1>2. u \in Translators /\ u.calls = WithoutCall(t, n) /\ u.step = t.step
      /\ u.step_open = t.step_open /\ u.message = t.message
  BY CallsStaySequence DEF Translators
<1>3. OnResult(t, r) = Becomes(u, frames)
  BY <1>0 DEF OnResult
<1> HIDE DEF u
<1>4. StepsOf(u) = S /\ CallsOf(u) = C \ {n} /\ MessagesOf(u) = M /\ Distinct(u)
  BY <1>2, CallTaken DEF StepsOf, MessagesOf
<1>5. /\ Shown(TRUE, FALSE, S, C, M) \in Panes
      /\ Shown(TRUE, FALSE, S, C \cup {n}, M) \in Panes
      /\ Shown(TRUE, FALSE, S, C \ {n}, M) \in Panes
  BY <1>1, ShownIsPane
<1>6. Goes(Shown(TRUE, FALSE, S, C, M), start, Shown(TRUE, FALSE, S, C \cup {n}, M))
  <2>1. IsOpen(t, n) <=> n \in C
    BY DEF IsOpen, CallsOf
  <2>2. CASE n \in C
    <3>1. start = << >> /\ C \cup {n} = C
      BY <2>1, <2>2
    <3> QED BY <1>5, <3>1, GoesNowhere
  <2>3. CASE n \notin C
    <3>1. start = <<F("TOOL_CALL_START", n)>> /\ F("TOOL_CALL_START", n) \in Frames
      BY <2>1, <2>3, FramesAreFrames DEF FrameTypes
    <3> HIDE DEF start
    <3> QED BY <1>5, <2>3, <3>1, CallStarts, GoesOne
  <2> QED BY <2>2, <2>3
<1>7. Goes(Shown(TRUE, FALSE, S, C \cup {n}, M),
           <<F("TOOL_CALL_END", n), F("TOOL_CALL_RESULT", n)>>,
           Shown(TRUE, FALSE, S, C \ {n}, M))
  <2>1. /\ F("TOOL_CALL_END", n) \in Frames /\ F("TOOL_CALL_RESULT", n) \in Frames
        /\ n \in C \cup {n} /\ (C \cup {n}) \ {n} = C \ {n} /\ n \notin C \ {n}
    BY FramesAreFrames DEF FrameTypes
  <2>2. Draws(Shown(TRUE, FALSE, S, C \cup {n}, M), F("TOOL_CALL_END", n),
              Shown(TRUE, FALSE, S, (C \cup {n}) \ {n}, M))
    BY <2>1, CallEnds
  <2>3. Draws(Shown(TRUE, FALSE, S, C \cup {n}, M), F("TOOL_CALL_END", n),
              Shown(TRUE, FALSE, S, C \ {n}, M))
    BY <2>1, <2>2, Zenon
  <2>4. Draws(Shown(TRUE, FALSE, S, C \ {n}, M), F("TOOL_CALL_RESULT", n),
              Shown(TRUE, FALSE, S, C \ {n}, M))
    BY <2>1, CallResults
  <2> QED BY <1>5, <2>1, <2>3, <2>4, GoesTwo
<1>8. Goes(PaneOf(t, FALSE), Opening(t), Shown(TRUE, FALSE, S, C, M))
  BY OpeningGoes
<1>9. Goes(PaneOf(t, FALSE), frames, Shown(TRUE, FALSE, S, C \ {n}, M))
  BY <1>6, <1>7, <1>8, GoesFarther, Zenon
<1> HIDE DEF frames
<1>10. Goes(PaneOf(t, FALSE), frames, Shown(TRUE, FALSE, StepsOf(u), CallsOf(u), MessagesOf(u)))
  BY <1>4, <1>9, Zenon
<1>11. Tells(t, Becomes(u, frames), FALSE) /\ CallsOf(Becomes(u, frames).state) = CallsOf(u)
  BY <1>2, <1>4, <1>10, Remembered, Zenon
<1> QED BY <1>0, <1>3, <1>4, <1>11

LEMMA MessageIsInt == ASSUME NEW t \in Translators PROVE Message(t) \in Int
  BY TranslatorShape DEF Message

LEMMA GroundingTells ==
    ASSUME NEW t \in Translators, Distinct(t), NEW r \in Records
    PROVE  Tells(t, OnGrounding(t, r), FALSE) /\ CallsOf(OnGrounding(t, r).state) = CallsOf(t)
<1> DEFINE S == StepsOf(t)
           C == CallsOf(t)
           M == MessagesOf(t)
<1>0. PICK id \in Int, b \in BOOLEAN : id = Message(t) /\ b = ~r.flag
  BY MessageIsInt
<1>1. S \in SUBSET Int /\ C \in SUBSET Int /\ M \in SUBSET Int
  BY TranslatorShape
<1> DEFINE u == [t EXCEPT !.verdict = @ \/ b]
           frames == Opening(t) \o <<Frame("GROUNDING", id, b)>>
<1>2. u \in Translators /\ u.calls = t.calls /\ u.step = t.step
      /\ u.step_open = t.step_open /\ u.message = t.message
  BY DEF Translators
<1>3. OnGrounding(t, r) = Becomes(u, frames)
  BY <1>0 DEF OnGrounding
<1> HIDE DEF u
<1>4. StepsOf(u) = S /\ CallsOf(u) = C /\ MessagesOf(u) = M /\ Distinct(u)
  BY <1>2 DEF StepsOf, CallsOf, MessagesOf, Distinct
<1>5. Goes(Shown(TRUE, FALSE, S, C, M), <<Frame("GROUNDING", id, b)>>,
           Shown(TRUE, FALSE, S, C, M))
  <2>1. Frame("GROUNDING", id, b) \in Frames /\ Shown(TRUE, FALSE, S, C, M) \in Panes
    BY <1>1, FramesAreFrames, ShownIsPane DEF FrameTypes
  <2> QED BY <2>1, OthersMayCome, GoesOne
<1>6. Goes(PaneOf(t, FALSE), Opening(t), Shown(TRUE, FALSE, S, C, M))
  BY OpeningGoes
<1>7. Goes(PaneOf(t, FALSE), frames, Shown(TRUE, FALSE, S, C, M))
  BY <1>5, <1>6, GoesOn, Zenon
<1> HIDE DEF frames
<1>8. Goes(PaneOf(t, FALSE), frames, Shown(TRUE, FALSE, StepsOf(u), CallsOf(u), MessagesOf(u)))
  BY <1>4, <1>7, Zenon
<1>9. Tells(t, Becomes(u, frames), FALSE) /\ CallsOf(Becomes(u, frames).state) = CallsOf(u)
  BY <1>2, <1>4, <1>8, Remembered, Zenon
<1> QED BY <1>3, <1>4, <1>9

\* A message is known by its number, which a step has.
LEMMA DeltaTells ==
    ASSUME NEW t \in Translators, Distinct(t), NEW r \in Records, r.index # None
    PROVE  Tells(t, OnDelta(t, r), FALSE) /\ CallsOf(OnDelta(t, r).state) = CallsOf(t)
<1> DEFINE S == StepsOf(t)
           C == CallsOf(t)
           M == MessagesOf(t)
<1>0. PICK n \in Int : n = r.index /\ n # None
  BY RecordShape
<1>1. S \in SUBSET Int /\ C \in SUBSET Int /\ M \in SUBSET Int
  BY TranslatorShape
<1> DEFINE u == [t EXCEPT !.message = n]
           start == IF t.message = n THEN << >>
                    ELSE EndMessage(t) \o <<F("TEXT_MESSAGE_START", n)>>
           frames == Opening(t) \o start \o <<F("TEXT_MESSAGE_CONTENT", n)>>
<1>2. u \in Translators /\ u.calls = t.calls /\ u.step = t.step
      /\ u.step_open = t.step_open /\ u.message = n
  BY DEF Translators
<1>3. OnDelta(t, r) = Becomes(u, frames)
  BY <1>0 DEF OnDelta
<1> HIDE DEF u
<1>4. StepsOf(u) = S /\ CallsOf(u) = C /\ MessagesOf(u) = {n} /\ Distinct(u)
  BY <1>0, <1>2 DEF StepsOf, CallsOf, MessagesOf, Distinct
<1>5. /\ Shown(TRUE, FALSE, S, C, M) \in Panes /\ Shown(TRUE, FALSE, S, C, {}) \in Panes
      /\ Shown(TRUE, FALSE, S, C, {n}) \in Panes
      /\ F("TEXT_MESSAGE_START", n) \in Frames /\ F("TEXT_MESSAGE_CONTENT", n) \in Frames
  BY <1>1, ShownIsPane, FramesAreFrames DEF FrameTypes
<1>6. Goes(Shown(TRUE, FALSE, S, C, M), start, Shown(TRUE, FALSE, S, C, {n}))
  <2>1. CASE t.message = n
    <3>1. start = << >> /\ M = {n}
      BY <1>0, <2>1 DEF MessagesOf
    <3> QED BY <1>5, <3>1, GoesNowhere
  <2>2. CASE t.message # n
    <3>1. start = EndMessage(t) \o <<F("TEXT_MESSAGE_START", n)>>
      BY <2>2
    <3>2. Goes(Shown(TRUE, FALSE, S, C, M), EndMessage(t), Shown(TRUE, FALSE, S, C, {}))
      BY <1>1, EndMessageGoes
    <3>3. Goes(Shown(TRUE, FALSE, S, C, {}), <<F("TEXT_MESSAGE_START", n)>>,
               Shown(TRUE, FALSE, S, C, {n}))
      BY <1>5, MessageStarts, GoesOne
    <3>4. Goes(Shown(TRUE, FALSE, S, C, M), EndMessage(t) \o <<F("TEXT_MESSAGE_START", n)>>,
               Shown(TRUE, FALSE, S, C, {n}))
      BY <3>2, <3>3, GoesOn, Zenon
    <3> QED BY <3>1, <3>4, Zenon
  <2> QED BY <2>1, <2>2
<1>7. Goes(Shown(TRUE, FALSE, S, C, {n}), <<F("TEXT_MESSAGE_CONTENT", n)>>,
           Shown(TRUE, FALSE, S, C, {n}))
  <2>1. Draws(Shown(TRUE, FALSE, S, C, {n}), F("TEXT_MESSAGE_CONTENT", n),
              Shown(TRUE, FALSE, S, C, {n}))
    BY MessageGoesOn DEF F
  <2> QED BY <1>5, <2>1, GoesOne
<1>8. Goes(PaneOf(t, FALSE), Opening(t), Shown(TRUE, FALSE, S, C, M))
  BY OpeningGoes
<1>9. Goes(PaneOf(t, FALSE), frames, Shown(TRUE, FALSE, S, C, {n}))
  <2>1. Goes(PaneOf(t, FALSE), Opening(t) \o start, Shown(TRUE, FALSE, S, C, {n}))
    BY <1>6, <1>8, GoesOn, Zenon
  <2> QED BY <1>7, <2>1, GoesOn, Zenon
<1> HIDE DEF frames
<1>10. Goes(PaneOf(t, FALSE), frames, Shown(TRUE, FALSE, StepsOf(u), CallsOf(u), MessagesOf(u)))
  BY <1>4, <1>9, Zenon
<1>11. Tells(t, Becomes(u, frames), FALSE) /\ CallsOf(Becomes(u, frames).state) = CallsOf(u)
  BY <1>2, <1>4, <1>10, Remembered, Zenon
<1> QED BY <1>3, <1>4, <1>11

LEMMA AnswerTells ==
    ASSUME NEW t \in Translators, Distinct(t), NEW r \in Records
    PROVE  Tells(t, OnAnswer(t, r), FALSE) /\ CallsOf(OnAnswer(t, r).state) = CallsOf(t)
<1> DEFINE S == StepsOf(t)
           C == CallsOf(t)
           M == MessagesOf(t)
<1>0. PICK id \in Int, b \in BOOLEAN : id = Message(t) /\ b = t.verdict
  BY MessageIsInt, TranslatorShape
<1>1. S \in SUBSET Int /\ C \in SUBSET Int /\ M \in SUBSET Int
  BY TranslatorShape
<1> DEFINE u == [t EXCEPT !.message = None]
           whole == <<F("TEXT_MESSAGE_START", id), Frame("TEXT_MESSAGE_CONTENT", id, b),
                      F("TEXT_MESSAGE_END", id)>>
           text == IF t.message = None THEN whole ELSE EndMessage(t)
           frames == Opening(t) \o text \o <<Frame("ANSWER", id, b)>>
<1>2. u \in Translators /\ u.calls = t.calls /\ u.step = t.step
      /\ u.step_open = t.step_open /\ u.message = None
  BY DEF Translators, None
<1>3. OnAnswer(t, r) = Becomes(u, frames)
  BY <1>0 DEF OnAnswer
<1> HIDE DEF u
<1>4. StepsOf(u) = S /\ CallsOf(u) = C /\ MessagesOf(u) = {} /\ Distinct(u)
  BY <1>2 DEF StepsOf, CallsOf, MessagesOf, Distinct
<1>5. /\ Shown(TRUE, FALSE, S, C, M) \in Panes /\ Shown(TRUE, FALSE, S, C, {}) \in Panes
      /\ Shown(TRUE, FALSE, S, C, {id}) \in Panes
      /\ F("TEXT_MESSAGE_START", id) \in Frames
      /\ Frame("TEXT_MESSAGE_CONTENT", id, b) \in Frames
      /\ F("TEXT_MESSAGE_END", id) \in Frames /\ Frame("ANSWER", id, b) \in Frames
  BY <1>1, ShownIsPane, FramesAreFrames DEF FrameTypes
<1>6. Goes(Shown(TRUE, FALSE, S, C, M), text, Shown(TRUE, FALSE, S, C, {}))
  <2>1. CASE t.message = None
    <3>1. text = whole /\ M = {}
      BY <2>1 DEF MessagesOf
    <3>2. Goes(Shown(TRUE, FALSE, S, C, {}), whole, Shown(TRUE, FALSE, S, C, {}))
      BY <1>5, MessageStarts, MessageGoesOn, MessageEnds, GoesThree
    <3> QED BY <3>1, <3>2, Zenon
  <2>2. CASE t.message # None
    <3>1. text = EndMessage(t)
      BY <2>2
    <3>2. Goes(Shown(TRUE, FALSE, S, C, M), EndMessage(t), Shown(TRUE, FALSE, S, C, {}))
      BY <1>1, EndMessageGoes
    <3> QED BY <3>1, <3>2, Zenon
  <2> QED BY <2>1, <2>2
<1>7. Goes(Shown(TRUE, FALSE, S, C, {}), <<Frame("ANSWER", id, b)>>,
           Shown(TRUE, FALSE, S, C, {}))
  BY <1>5, OthersMayCome, GoesOne
<1>8. Goes(PaneOf(t, FALSE), Opening(t), Shown(TRUE, FALSE, S, C, M))
  BY OpeningGoes
<1>9. Goes(PaneOf(t, FALSE), frames, Shown(TRUE, FALSE, S, C, {}))
  <2>1. Goes(PaneOf(t, FALSE), Opening(t) \o text, Shown(TRUE, FALSE, S, C, {}))
    BY <1>6, <1>8, GoesOn, Zenon
  <2> QED BY <1>7, <2>1, GoesOn, Zenon
<1> HIDE DEF frames
<1>10. Goes(PaneOf(t, FALSE), frames, Shown(TRUE, FALSE, StepsOf(u), CallsOf(u), MessagesOf(u)))
  BY <1>4, <1>9, Zenon
<1>11. Tells(t, Becomes(u, frames), FALSE) /\ CallsOf(Becomes(u, frames).state) = CallsOf(u)
  BY <1>2, <1>4, <1>10, Remembered, Zenon
<1> QED BY <1>3, <1>4, <1>11

LEMMA FinishedTells ==
    ASSUME NEW t \in Translators, Distinct(t), NEW r \in Records
    PROVE  Tells(t, OnFinished(t, r), TRUE) /\ CallsOf(OnFinished(t, r).state) = {}
<1> DEFINE S == StepsOf(t)
           C == CallsOf(t)
           M == MessagesOf(t)
<1>0. PICK type \in {"RUN_FINISHED", "RUN_ERROR"} :
        type = IF r.flag THEN "RUN_ERROR" ELSE "RUN_FINISHED"
  OBVIOUS
<1>1. S \in SUBSET Int /\ C \in SUBSET Int /\ M \in SUBSET Int
  BY TranslatorShape
<1> DEFINE u == [t EXCEPT !.calls = << >>, !.message = None, !.step_open = FALSE]
           frames == Opening(t) \o EndCalls(t) \o EndMessage(t) \o EndStep(t)
                       \o <<F(type, 0)>>
<1>2. u \in Translators /\ u.calls = << >> /\ u.step_open = FALSE /\ u.message = None
  <2>1. << >> \in Seq(Int) /\ None \in Int
    BY EmptySeq DEF None
  <2>2. ASSUME NEW calls \in Seq(Int), NEW message \in Int
        PROVE  /\ [t EXCEPT !.calls = calls, !.message = message, !.step_open = FALSE]
                     \in Translators
               /\ [t EXCEPT !.calls = calls, !.message = message, !.step_open = FALSE].calls = calls
               /\ [t EXCEPT !.calls = calls, !.message = message, !.step_open = FALSE].step_open = FALSE
               /\ [t EXCEPT !.calls = calls, !.message = message, !.step_open = FALSE].message = message
    BY DEF Translators
  <2> QED BY ZenonT(40), <2>1, <2>2
<1>3. OnFinished(t, r) = Becomes(u, frames)
  BY <1>0 DEF OnFinished
<1> HIDE DEF u
<1>4. StepsOf(u) = {} /\ CallsOf(u) = {} /\ MessagesOf(u) = {} /\ Distinct(u)
  <2>1. DOMAIN u.calls = {}
    BY <1>2
  <2> QED BY <1>2, <2>1 DEF StepsOf, CallsOf, MessagesOf, Distinct
<1>5. Goes(PaneOf(t, FALSE), Opening(t), Shown(TRUE, FALSE, S, C, M))
  BY OpeningGoes
<1>6. Goes(Shown(TRUE, FALSE, S, C, M), EndCalls(t), Shown(TRUE, FALSE, S, {}, M))
  BY <1>1, EndCallsGoes
<1>7. Goes(Shown(TRUE, FALSE, S, {}, M), EndMessage(t), Shown(TRUE, FALSE, S, {}, {}))
  BY <1>1, EndMessageGoes
<1>8. Goes(Shown(TRUE, FALSE, S, {}, {}), EndStep(t), Shown(TRUE, FALSE, {}, {}, {}))
  BY EndStepGoes
<1>9. Goes(Shown(TRUE, FALSE, {}, {}, {}), <<F(type, 0)>>, Shown(TRUE, TRUE, {}, {}, {}))
  <2>1. type \in FrameTypes /\ 0 \in Int /\ FALSE \in BOOLEAN
    BY DEF FrameTypes
  <2>3. F(type, 0) \in Frames
    BY <2>1, FramesAreFrames, Zenon
  <2>2. Shown(TRUE, FALSE, {}, {}, {}) \in Panes /\ Shown(TRUE, TRUE, {}, {}, {}) \in Panes
    BY ShownIsPane
  <2>4. Draws(Shown(TRUE, FALSE, {}, {}, {}), F(type, 0), Shown(TRUE, TRUE, {}, {}, {}))
    BY RunEnds
  <2> QED BY <2>2, <2>3, <2>4, GoesOne, Zenon
<1>10. Goes(PaneOf(t, FALSE), frames, Shown(TRUE, TRUE, {}, {}, {}))
  <2>1. Goes(PaneOf(t, FALSE), Opening(t) \o EndCalls(t) \o EndMessage(t),
             Shown(TRUE, FALSE, S, {}, {}))
    BY <1>5, <1>6, <1>7, GoesFarther, Zenon
  <2> QED BY <1>8, <1>9, <2>1, GoesFarther, Zenon
<1> HIDE DEF frames
<1>11. Goes(PaneOf(t, FALSE), frames, Shown(TRUE, TRUE, StepsOf(u), CallsOf(u), MessagesOf(u)))
  BY <1>4, <1>10, Zenon
<1>12. Tells(t, Becomes(u, frames), TRUE) /\ CallsOf(Becomes(u, frames).state) = CallsOf(u)
  <2>1. TRUE \in BOOLEAN
    OBVIOUS
  <2> QED BY <1>2, <1>4, <1>11, <2>1, Remembered, Zenon
<1> QED BY <1>3, <1>4, <1>12

LEMMA OtherTells ==
    ASSUME NEW t \in Translators, Distinct(t), NEW r \in Records
    PROVE  Tells(t, OnOther(t, r), FALSE) /\ CallsOf(OnOther(t, r).state) = CallsOf(t)
<1> DEFINE p == Shown(TRUE, FALSE, StepsOf(t), CallsOf(t), MessagesOf(t))
<1>1. p \in Panes /\ F("CUSTOM", 0) \in Frames
  <2>1. "CUSTOM" \in FrameTypes /\ 0 \in Int /\ FALSE \in BOOLEAN
    BY DEF FrameTypes
  <2>2. F("CUSTOM", 0) \in Frames
    BY <2>1, FramesAreFrames, Zenon
  <2> QED BY <2>2, TranslatorShape, ShownIsPane
<1>2. Draws(p, F("CUSTOM", 0), p)
  BY OthersMayCome DEF F
<1>3. Goes(p, <<F("CUSTOM", 0)>>, p)
  BY <1>1, <1>2, GoesOne
<1>4. Goes(PaneOf(t, FALSE), Opening(t), p)
  BY OpeningGoes
<1>5. Goes(PaneOf(t, FALSE), Opening(t) \o <<F("CUSTOM", 0)>>, p)
  BY <1>3, <1>4, GoesOn, Zenon
<1> QED BY <1>5, Remembered, Zenon DEF OnOther

LEMMA FeedTells ==
    ASSUME NEW t \in Translators, Distinct(t), NEW r \in Records, r.index # None,
           r.event = "tool_call" => r.call \notin CallsOf(t)
    PROVE  /\ Tells(t, Feed(t, r), IsEnding(r))
           /\ \A call \in CallsOf(Feed(t, r).state) :
                 call \in CallsOf(t) \/ (r.event = "tool_call" /\ call = r.call)
<1>1. CASE r.event = "step_started"
  <2>1. Feed(t, r) = OnStep(t, r) /\ IsEnding(r) = FALSE
    BY <1>1 DEF Feed, IsEnding
  <2> QED BY <2>1, StepTells
<1>2. CASE r.event = "tool_call"
  <2>1. Feed(t, r) = OnCall(t, r) /\ IsEnding(r) = FALSE
    BY <1>2 DEF Feed, IsEnding
  <2>2. /\ Tells(t, OnCall(t, r), FALSE)
        /\ CallsOf(OnCall(t, r).state) = CallsOf(t) \cup {r.call}
    <3>1. r.call \notin CallsOf(t)
      BY <1>2
    <3> QED BY <3>1, CallTells
  <2>3. Tells(t, Feed(t, r), IsEnding(r))
    BY <2>1, <2>2
  <2>4. CallsOf(Feed(t, r).state) = CallsOf(t) \cup {r.call}
    BY <2>1, <2>2
  <2> QED BY <1>2, <2>3, <2>4
<1>3. CASE r.event = "tool_result"
  <2>1. Feed(t, r) = OnResult(t, r) /\ IsEnding(r) = FALSE
    BY <1>3 DEF Feed, IsEnding
  <2> QED BY <2>1, ResultTells
<1>4. CASE r.event = "grounding"
  <2>1. Feed(t, r) = OnGrounding(t, r) /\ IsEnding(r) = FALSE
    BY <1>4 DEF Feed, IsEnding
  <2> QED BY <2>1, GroundingTells
<1>5. CASE r.event = "answer_delta"
  <2>1. Feed(t, r) = OnDelta(t, r) /\ IsEnding(r) = FALSE
    BY <1>5 DEF Feed, IsEnding
  <2> QED BY <2>1, DeltaTells
<1>6. CASE r.event = "answer"
  <2>1. Feed(t, r) = OnAnswer(t, r) /\ IsEnding(r) = FALSE
    BY <1>6 DEF Feed, IsEnding
  <2> QED BY <2>1, AnswerTells
<1>7. CASE r.event = "mission_finished"
  <2>1. Feed(t, r) = OnFinished(t, r) /\ IsEnding(r) = TRUE
    BY <1>7 DEF Feed, IsEnding
  <2> QED BY <2>1, FinishedTells
<1>8. CASE r.event \notin {"step_started", "tool_call", "tool_result", "grounding",
                           "answer_delta", "answer", "mission_finished"}
  <2>1. Feed(t, r) = OnOther(t, r) /\ IsEnding(r) = FALSE
    BY <1>8 DEF Feed, IsEnding
  <2> QED BY <2>1, OtherTells
<1> QED BY <1>1, <1>2, <1>3, <1>4, <1>5, <1>6, <1>7, <1>8

-----------------------------------------------------------------------------
(* The calls of a run are numbered from 1, each number is given to one     *)
(* call, and what is open on a stream is a call the stream has carried.    *)

CallLog ==
    /\ \A i \in 1 .. Len(log) : log[i].index \in Nat
    /\ \A i \in 1 .. Len(log) : log[i].event = "tool_call" => log[i].call <= called
    /\ \A i, j \in 1 .. Len(log) :
          (log[i].event = "tool_call" /\ log[j].event = "tool_call" /\ log[i].call = log[j].call)
             => i = j

\* The pane, but for what it says of answers without their verdict.
Plain(p) == [p EXCEPT !.bare = FALSE]

Carried(call, n, records) ==
    \E i \in 1 .. n : records[i].event = "tool_call" /\ records[i].call = call

Follows(k, records) ==
    /\ Distinct(k.translator) /\ k.pane.conforms
    /\ \A call \in CallsOf(k.translator) : Carried(call, k.cursor, records)
    /\ Leads(Plain(k.pane), k.pending, PaneOf(k.translator, k.finished))

StreamInv == CallLog /\ \A c \in Clients : Follows(conn[c], log)

Grows == Len(log) <= Len(log') /\ \A i \in 1 .. Len(log) : log'[i] = log[i]

LEMMA Written ==
    ASSUME LogOK, CallLog, NEW r \in Records, r.index \in Nat, log' = Append(log, r),
           called' \in Nat, called <= called',
           r.event = "tool_call" => (r.call = called + 1 /\ called' = called + 1)
    PROVE  CallLog' /\ Grows
<1> DEFINE n == Len(log)
<1>1. n \in Nat /\ log \in Seq(Records) /\ called \in Nat
  BY DEF LogOK
<1>2. Len(log') = n + 1 /\ log'[n + 1] = r /\ \A i \in 1 .. n : log'[i] = log[i]
  BY <1>1
<1>3. \A i \in 1 .. n : log[i] \in Records
  BY <1>1
<1> HIDE DEF n
<1>4. \A i \in 1 .. n + 1 : i \in 1 .. n \/ i = n + 1
  BY <1>1
<1>5. \A i \in 1 .. n : log[i].call \in Int
  BY <1>3, RecordShape
<1>6. CallLog'
  <2>1. \A i \in 1 .. n + 1 : log'[i].index \in Nat
    BY <1>2, <1>4 DEF CallLog, n
  <2>2. \A i \in 1 .. n : log[i].event = "tool_call" => log[i].call <= called
    BY DEF CallLog, n
  <2>3. \A i \in 1 .. n + 1 : log'[i].event = "tool_call" => log'[i].call <= called'
    BY <1>1, <1>2, <1>4, <1>5, <2>2
  <2>4. \A i \in 1 .. n : ~(log[i].event = "tool_call" /\ r.event = "tool_call" /\ log[i].call = r.call)
    BY <1>1, <1>5, <2>2
  <2>5. \A i, j \in 1 .. n :
          (log[i].event = "tool_call" /\ log[j].event = "tool_call" /\ log[i].call = log[j].call)
             => i = j
    BY DEF CallLog, n
  <2>6. ASSUME NEW i \in 1 .. n + 1, NEW j \in 1 .. n + 1, log'[i].event = "tool_call",
               log'[j].event = "tool_call", log'[i].call = log'[j].call
        PROVE  i = j
    <3>1. CASE i \in 1 .. n /\ j \in 1 .. n
      BY <1>2, <2>5, <2>6, <3>1
    <3>2. CASE i \in 1 .. n /\ j = n + 1
      BY <1>2, <2>4, <2>6, <3>2
    <3>3. CASE i = n + 1 /\ j \in 1 .. n
      BY <1>2, <2>4, <2>6, <3>3
    <3> QED BY <1>4, <3>1, <3>2, <3>3
  <2> QED BY <1>2, <2>1, <2>3, <2>6 DEF CallLog
<1> QED BY <1>1, <1>2, <1>6 DEF Grows, n

LEMMA Remarked ==
    ASSUME LogOK, CallLog, NEW event \in Events \ {"tool_call"}, NEW index \in Nat,
           NEW call \in Int, NEW flag \in BOOLEAN,
           log' = Append(log, Record(event, index, call, flag)), called' = called
    PROVE  CallLog' /\ Grows
<1>1. PICK r \in Records :
        /\ r = Record(event, index, call, flag) /\ r.event # "tool_call" /\ r.index \in Nat
  BY DEF Record, Records
<1>2. called' \in Nat /\ called <= called'
  BY DEF LogOK
<1> QED BY <1>1, <1>2, Written

LEMMA Unwritten ==
    ASSUME LogOK, CallLog, UNCHANGED <<log, called>>
    PROVE  CallLog' /\ Grows
BY DEF LogOK, CallLog, Grows

LEMMA MissionNumbersCalls ==
    ASSUME LogOK, CallLog, Mission
    PROVE  CallLog' /\ Grows
<1>0. step \in Nat /\ called \in Nat /\ running \subseteq Nat
  BY DEF LogOK
<1>events. 0 \in Nat /\ 0 \in Int /\ FALSE \in BOOLEAN
      /\ "mission_started" \in Events \ {"tool_call"} /\ "step_started" \in Events \ {"tool_call"}
      /\ "answer_delta" \in Events \ {"tool_call"} /\ "tool_result" \in Events \ {"tool_call"}
      /\ "grounding" \in Events \ {"tool_call"} /\ "answer" \in Events \ {"tool_call"}
      /\ "mission_finished" \in Events \ {"tool_call"}
  BY DEF Events
<1>1. CASE Stamps \/ Dies \/ Resumes
  BY <1>1, Unwritten DEF Stamps, Dies, Resumes, producer
<1>2. CASE Opens
  <2>1. log' = Append(log, Record("mission_started", 0, 0, FALSE)) /\ called' = called
    BY <1>2 DEF Opens, Says, Emits
  <2> QED BY <1>events, <2>1, Remarked, Zenon
<1>3. CASE BeginsStep
  <2>1. log' = Append(log, Record("step_started", step + 1, 0, FALSE)) /\ called' = called
        /\ step + 1 \in Nat
    BY <1>0, <1>3 DEF BeginsStep, Says, Emits
  <2> QED BY <1>events, <2>1, Remarked, Zenon
<1>4. CASE Writes
  <2>1. log' = Append(log, Record("answer_delta", step, 0, FALSE)) /\ called' = called
    BY <1>4 DEF Writes, Says, Emits, producer
  <2> QED BY <1>0, <1>events, <2>1, Remarked, Zenon
<1>5. CASE Calls
  <2>1. log' = Append(log, Record("tool_call", step, called + 1, FALSE))
        /\ called' = called + 1
    BY <1>5 DEF Calls, Says, Emits
  <2>0. called + 1 \in Int
    BY <1>0
  <2>2. PICK r \in Records :
          /\ r = Record("tool_call", step, called + 1, FALSE)
          /\ r.index \in Nat /\ r.call = called + 1
    <3>1. ASSUME NEW n \in Int
          PROVE  /\ Record("tool_call", step, n, FALSE) \in Records
                 /\ Record("tool_call", step, n, FALSE).index \in Nat
                 /\ Record("tool_call", step, n, FALSE).call = n
      BY <1>0 DEF Record, Records, Events
    <3> QED BY <2>0, <3>1
  <2>3. called' \in Nat /\ called <= called'
    BY <1>0, <2>1
  <2> QED BY <2>1, <2>2, <2>3, Written
<1>6. CASE Answers
  <2>1. log' = Append(log, Record("answer", step, 0, FALSE)) /\ called' = called
    BY <1>6 DEF Answers, Says, Emits
  <2> QED BY <1>0, <1>events, <2>1, Remarked, Zenon
<1>7. CASE ReportsLate
  <2>1. log' = Append(log, Record("grounding", step, 0, FALSE)) /\ called' = called
    BY <1>7 DEF ReportsLate, Says, Emits, producer
  <2> QED BY <1>0, <1>events, <2>1, Remarked, Zenon
<1>8. ASSUME NEW note \in Notes, Remarks(note)
      PROVE  CallLog' /\ Grows
  <2>1. log' = Append(log, Record(note, step, 0, FALSE)) /\ called' = called
    BY <1>8 DEF Remarks, Says, Emits, producer
  <2>2. note \in Events \ {"tool_call"}
    BY ServerAssumption DEF Events
  <2> QED BY <1>0, <1>events, <2>1, <2>2, Remarked, Zenon
<1>9. ASSUME NEW call \in running, Returns(call)
      PROVE  CallLog' /\ Grows
  <2>1. log' = Append(log, Record("tool_result", step, call, FALSE)) /\ called' = called
    BY <1>9 DEF Returns, Says, Emits
  <2>2. call \in Int
    BY <1>0
  <2> QED BY <1>0, <1>events, <2>1, <2>2, Remarked, Zenon
<1>10. ASSUME NEW b \in BOOLEAN, Judges(b)
       PROVE  CallLog' /\ Grows
  <2>1. log' = Append(log, Record("grounding", step, 0, b)) /\ called' = called
    BY <1>10 DEF Judges, Says, Emits
  <2> QED BY <1>0, <1>events, <2>1, Remarked, Zenon
<1>11. ASSUME NEW b \in BOOLEAN, Finishes(b)
       PROVE  CallLog' /\ Grows
  <2>1. log' = Append(log, Record("mission_finished", 0, 0, b)) /\ called' = called
    BY <1>11 DEF Finishes, Emits
  <2> QED BY <1>events, <2>1, Remarked, Zenon
<1> QED BY <1>1, <1>2, <1>3, <1>4, <1>5, <1>6, <1>7, <1>8, <1>9, <1>10, <1>11 DEF Mission

-----------------------------------------------------------------------------
\* A step of one client, or of the mission, leaves the other streams conforming

LEMMA FollowsLonger ==
    ASSUME NEW k \in Connections, k.cursor <= Len(log), Len(log) \in Nat, Follows(k, log), Grows
    PROVE  Follows(k, log')
<1>1. k.cursor \in Nat
  BY DEF Connections
<1>2. \A i \in 1 .. k.cursor : log'[i] = log[i]
  BY <1>1 DEF Grows
<1>3. \A call : Carried(call, k.cursor, log) => Carried(call, k.cursor, log')
  BY <1>2 DEF Carried
<1> QED BY <1>3 DEF Follows

LEMMA OthersFollow ==
    ASSUME ServerInv, StreamInv, NEW c \in Clients, NEW k,
           conn' = [conn EXCEPT ![c] = k], Follows(k, log'), CallLog', Grows
    PROVE  StreamInv'
<1>1. conn \in [Clients -> Connections] /\ Len(log) \in Nat
  BY DEF ServerInv, LogOK
<1>2. ASSUME NEW d \in Clients
      PROVE  Follows(conn[d], log')
  BY <1>1, FollowsLonger DEF ServerInv, StreamInv, Within
<1>3. ASSUME NEW d \in Clients
      PROVE  Follows(conn'[d], log')
  <2>1. conn'[d] = k \/ conn'[d] = conn[d]
    BY <1>1
  <2> QED BY <1>2, <2>1
<1> QED BY <1>3 DEF StreamInv

LEMMA AllFollow ==
    ASSUME ServerInv, StreamInv, CallLog', Grows, UNCHANGED conn
    PROVE  StreamInv'
<1>1. ASSUME NEW d \in Clients
      PROVE  Follows(conn[d], log')
  BY FollowsLonger DEF ServerInv, StreamInv, Within, LogOK
<1> QED BY <1>1 DEF StreamInv

LEMMA MadePlain ==
    ASSUME NEW started, NEW over, NEW steps, NEW calls, NEW messages, NEW conforms, NEW bare
    PROVE  Plain([started |-> started, over |-> over, steps |-> steps, calls |-> calls,
                  messages |-> messages, conforms |-> conforms, bare |-> bare])
             = [started |-> started, over |-> over, steps |-> steps, calls |-> calls,
                messages |-> messages, conforms |-> conforms, bare |-> FALSE]
<1>1. ASSUME NEW no, NEW q,
             q = [started |-> started, over |-> over, steps |-> steps, calls |-> calls,
                  messages |-> messages, conforms |-> conforms, bare |-> bare]
      PROVE  [q EXCEPT !.bare = no]
               = [started |-> started, over |-> over, steps |-> steps, calls |-> calls,
                  messages |-> messages, conforms |-> conforms, bare |-> no]
  BY <1>1
<1> QED BY <1>1, Zenon DEF Plain

LEMMA FreshFollows ==
    ASSUME NEW k, NEW records, k.translator = Fresh, k.pending = << >>, k.pane = Pane,
           k.finished = FALSE
    PROVE  Follows(k, records)
<1>1. Fresh.calls = << >> /\ DOMAIN Fresh.calls = {} /\ Fresh.opened = FALSE
      /\ Fresh.step_open = FALSE /\ Fresh.message = None
  BY DEF Fresh
<1>2. Distinct(Fresh) /\ CallsOf(Fresh) = {} /\ StepsOf(Fresh) = {} /\ MessagesOf(Fresh) = {}
  BY <1>1 DEF Distinct, CallsOf, StepsOf, MessagesOf
<1>3. Pane.conforms /\ Plain(Pane) = Shown(FALSE, FALSE, {}, {}, {})
  <2>1. Pane = Shown(FALSE, FALSE, {}, {}, {})
    BY DEF Pane, Shown
  <2>2. ASSUME NEW p, p = Shown(FALSE, FALSE, {}, {}, {})
        PROVE  p.conforms
    BY <2>2 DEF Shown
  <2>3. Plain(Shown(FALSE, FALSE, {}, {}, {})) = Shown(FALSE, FALSE, {}, {}, {})
    <3>1. PICK started, over, steps, calls, messages, yes, bare :
            /\ started = FALSE /\ over = FALSE /\ steps = {} /\ calls = {} /\ messages = {}
            /\ yes = TRUE /\ bare = FALSE
      OBVIOUS
    <3>2. Shown(FALSE, FALSE, {}, {}, {})
            = [started |-> started, over |-> over, steps |-> steps, calls |-> calls,
               messages |-> messages, conforms |-> yes, bare |-> bare]
      BY <3>1, Zenon DEF Shown
    <3>3. Plain([started |-> started, over |-> over, steps |-> steps, calls |-> calls,
                 messages |-> messages, conforms |-> yes, bare |-> bare])
            = [started |-> started, over |-> over, steps |-> steps, calls |-> calls,
               messages |-> messages, conforms |-> yes, bare |-> FALSE]
      BY MadePlain
    <3>4. [started |-> started, over |-> over, steps |-> steps, calls |-> calls,
           messages |-> messages, conforms |-> yes, bare |-> FALSE]
            = Shown(FALSE, FALSE, {}, {}, {})
      BY <3>1 DEF Shown
    <3> QED BY <3>2, <3>3, <3>4, Zenon
  <2> QED BY <2>1, <2>2, <2>3, Zenon
<1>4. PaneOf(Fresh, FALSE) = Shown(FALSE, FALSE, {}, {}, {})
  BY <1>1, <1>2, Zenon DEF PaneOf
<1>5. Leads(Shown(FALSE, FALSE, {}, {}, {}), << >>, Shown(FALSE, FALSE, {}, {}, {}))
  BY ShownIsPane, LeadsNowhere
<1>6. Leads(Plain(Pane), << >>, PaneOf(Fresh, FALSE))
  BY <1>3, <1>4, <1>5, Zenon
<1> QED BY <1>2, <1>3, <1>6 DEF Follows

LEMMA AwayFollows == ASSUME NEW records PROVE Follows(Away, records)
<1>1. Away.translator = Fresh /\ Away.pending = << >> /\ Away.pane = Pane /\ Away.finished = FALSE
  BY DEF Away
<1> QED BY <1>1, FreshFollows

LEMMA SameFollows ==
    ASSUME NEW j, NEW k, NEW records, Follows(j, records),
           k.translator = j.translator, k.pending = j.pending, k.pane = j.pane,
           k.finished = j.finished, k.cursor = j.cursor
    PROVE  Follows(k, records)
BY DEF Follows

LEMMA GivenBackFollows ==
    ASSUME ServerInv, StreamInv, NEW c \in Clients, GivesBack(c)
    PROVE  StreamInv'
<1>1. conn' = [conn EXCEPT ![c] = Away] /\ UNCHANGED <<log, called>>
  BY DEF GivesBack, producer
<1>2. Follows(Away, log')
  BY AwayFollows
<1>3. CallLog' /\ Grows
  BY <1>1, Unwritten DEF ServerInv, StreamInv
<1> QED BY <1>1, <1>2, <1>3, OthersFollow

LEMMA RequestsFollows ==
    ASSUME ServerInv, StreamInv, NEW c \in Clients, Requests(c)
    PROVE  StreamInv'
<1> DEFINE k == [Away EXCEPT !.pc = "asked", !.upto = stamped,
                             !.cursor = Lower(Asked(c), stamped)]
<1>1. conn' = [conn EXCEPT ![c] = k] /\ UNCHANGED <<log, called>>
  BY DEF Requests, producer
<1>2. k.translator = Fresh /\ k.pending = << >> /\ k.pane = Pane /\ k.finished = FALSE
  BY DEF Away
<1>3. Follows(k, log')
  BY <1>2, FreshFollows
<1>4. CallLog' /\ Grows
  BY <1>1, Unwritten DEF ServerInv, StreamInv
<1> HIDE DEF k
<1> QED BY <1>1, <1>3, <1>4, OthersFollow

\* The stream is decided on, or ends early: what was sent of it stays sent.
LEMMA StandsFollows ==
    ASSUME ServerInv, StreamInv, NEW c \in Clients, Decides(c) \/ ReadFails(c)
    PROVE  StreamInv'
<1>0. conn[c] \in Connections /\ Follows(conn[c], log)
  BY DEF ServerInv, StreamInv
<1>1. PICK pc \in {"closing", "streaming"}, upto \in Nat :
        conn' = [conn EXCEPT ![c] = [conn[c] EXCEPT !.pc = pc, !.upto = upto]]
  <2>1. CASE Decides(c)
    <3>1. PICK pc \in {"closing", "streaming"} : conn' = [conn EXCEPT ![c].upto = 0, ![c].pc = pc]
      BY <2>1 DEF Decides
    <3>2. [[conn[c] EXCEPT !.upto = 0] EXCEPT !.pc = pc] = [conn[c] EXCEPT !.pc = pc, !.upto = 0]
      BY <1>0 DEF Connections
    <3>3. conn' = [conn EXCEPT ![c] = [conn[c] EXCEPT !.pc = pc, !.upto = 0]]
      BY <3>1, <3>2 DEF ServerInv
    <3>4. 0 \in Nat
      OBVIOUS
    <3> QED BY <3>3, <3>4, Zenon
  <2>2. CASE ReadFails(c)
    <3>1. [conn[c] EXCEPT !.pc = "closing"]
            = [conn[c] EXCEPT !.pc = "closing", !.upto = conn[c].upto]
          /\ conn[c].upto \in Nat
      BY <1>0 DEF Connections
    <3>2. conn' = [conn EXCEPT ![c] = [conn[c] EXCEPT !.pc = "closing"]]
      BY <2>2 DEF ReadFails, ServerInv
    <3>3. "closing" \in {"closing", "streaming"}
      OBVIOUS
    <3> QED BY <3>1, <3>2, <3>3, Zenon
  <2> QED BY <2>1, <2>2
<1> DEFINE k == [conn[c] EXCEPT !.pc = pc, !.upto = upto]
<1>2. /\ k.translator = conn[c].translator /\ k.pending = conn[c].pending
      /\ k.pane = conn[c].pane /\ k.finished = conn[c].finished /\ k.cursor = conn[c].cursor
  BY <1>0 DEF Connections
<1>3. UNCHANGED <<log, called>>
  BY DEF Decides, ReadFails, producer
<1> HIDE DEF k
<1>4. Follows(k, log')
  BY <1>0, <1>2, <1>3, SameFollows
<1>5. CallLog' /\ Grows
  BY <1>3, Unwritten DEF ServerInv, StreamInv
<1> QED BY <1>1, <1>4, <1>5, OthersFollow DEF k

\* A pane nothing is on its way to shows what the translator remembers.
LEMMA AllSent ==
    ASSUME NEW p, NEW q, Leads(p, << >>, q)
    PROVE  p = q
<1>1. PICK ps : ps[1] = p /\ ps[0 + 1] = q
  <2>1. Len(<< >>) = 0
    OBVIOUS
  <2> QED BY <2>1 DEF Leads
<1>2. 0 + 1 = 1
  OBVIOUS
<1> QED BY <1>1, <1>2, Zenon

LEMMA FeedsFollows ==
    ASSUME ServerInv, StreamInv, NEW c \in Clients, Feeds(c)
    PROVE  StreamInv'
<1>0. /\ conn[c] \in Connections /\ Follows(conn[c], log) /\ Within(conn[c], client[c], Len(log))
      /\ Len(log) \in Nat /\ log \in Seq(Records)
  BY DEF ServerInv, StreamInv, LogOK
<1>1. PICK t \in Translators, n \in Nat, p \in Panes, r \in Records :
        /\ t = conn[c].translator /\ n = conn[c].cursor /\ p = conn[c].pane /\ r = log[n + 1]
        /\ n + 1 \in 1 .. Len(log) /\ conn[c].pending = << >> /\ conn[c].finished = FALSE
  <2>1. /\ conn[c].translator \in Translators /\ conn[c].cursor \in Nat
        /\ conn[c].pane \in Panes /\ conn[c].finished \in BOOLEAN
    BY <1>0 DEF Connections
  <2>2. conn[c].cursor + 1 \in 1 .. Len(log) /\ conn[c].pending = << >> /\ ~conn[c].finished
    BY <1>0, <2>1 DEF Feeds, Quiet
  <2>3. log[conn[c].cursor + 1] \in Records
    BY <1>0, <2>2
  <2> QED BY <2>1, <2>2, <2>3
<1>fed. PICK u, fs, b : u = Feed(t, r).state /\ fs = Feed(t, r).frames /\ b = IsEnding(r)
  BY Zenon
<1> DEFINE k == [conn[c] EXCEPT !.cursor = n + 1, !.translator = u, !.pending = fs, !.finished = b]
<1>2. conn' = [conn EXCEPT ![c] = k] /\ UNCHANGED <<log, called>>
  BY <1>1, <1>fed DEF Feeds, ServerInv, producer
<1>3. /\ Distinct(t) /\ p.conforms /\ Leads(Plain(p), << >>, PaneOf(t, FALSE))
      /\ \A call \in CallsOf(t) : Carried(call, n, log)
  BY <1>0, <1>1 DEF Follows
<1>4. r.index \in Nat /\ r.index # None
  <2>1. r.index \in Nat
    BY <1>1 DEF StreamInv, CallLog
  <2> QED BY <2>1 DEF None
<1>5. r.event = "tool_call" => r.call \notin CallsOf(t)
  <2> SUFFICES ASSUME r.event = "tool_call", r.call \in CallsOf(t)
               PROVE  FALSE
    OBVIOUS
  <2>1. PICK i \in 1 .. n : log[i].event = "tool_call" /\ log[i].call = r.call
    BY <1>3 DEF Carried
  <2>2. i \in 1 .. Len(log) /\ i # n + 1
    BY <1>0, <1>1
  <2> QED BY <1>1, <2>1, <2>2 DEF StreamInv, CallLog
<1>6. /\ Tells(t, Feed(t, r), IsEnding(r))
      /\ \A call \in CallsOf(Feed(t, r).state) :
            call \in CallsOf(t) \/ (r.event = "tool_call" /\ call = r.call)
  BY <1>3, <1>4, <1>5, FeedTells
<1>7. Leads(Plain(p), Feed(t, r).frames, PaneOf(Feed(t, r).state, IsEnding(r)))
  <2>1. Plain(p) = PaneOf(t, FALSE)
    BY <1>3, AllSent
  <2> QED BY <1>6, <2>1, Zenon DEF Tells, Goes
<1>8. \A call \in CallsOf(Feed(t, r).state) : Carried(call, n + 1, log)
  <2>1. 1 .. n \subseteq 1 .. n + 1 /\ n + 1 \in 1 .. n + 1
    BY <1>1
  <2>2. \A call : Carried(call, n, log) => Carried(call, n + 1, log)
    BY <2>1 DEF Carried
  <2>3. r.event = "tool_call" => Carried(r.call, n + 1, log)
    BY <1>1, <2>1 DEF Carried
  <2> QED BY <1>3, <1>6, <2>2, <2>3, Zenon
<1>9. /\ k.translator = Feed(t, r).state /\ k.pending = Feed(t, r).frames /\ k.pane = p
      /\ k.finished = IsEnding(r) /\ k.cursor = n + 1
  <2>1. /\ k.translator = u /\ k.pending = fs /\ k.pane = conn[c].pane
        /\ k.finished = b /\ k.cursor = n + 1
    BY <1>0 DEF Connections
  <2> HIDE DEF k
  <2> QED BY <1>1, <1>fed, <2>1, Zenon
<1> HIDE DEF k
<1>10. Follows(k, log)
  BY <1>3, <1>6, <1>7, <1>8, <1>9, Zenon DEF Follows, Tells
<1>11. Follows(k, log')
  BY <1>2, <1>10
<1>12. CallLog' /\ Grows
  BY <1>2, Unwritten DEF ServerInv, StreamInv
<1> QED BY <1>2, <1>11, <1>12, OthersFollow

LEMMA PlainDrawn ==
    ASSUME NEW p \in Panes, NEW f, NEW b, p.conforms, Allowed(p, f)
    PROVE  Plain(Drawn(p, f, b)) = Drawn(Plain(p), f, FALSE)
<1>1. /\ Plain(p).started = p.started /\ Plain(p).over = p.over /\ Plain(p).steps = p.steps
      /\ Plain(p).calls = p.calls /\ Plain(p).messages = p.messages
      /\ Plain(p).conforms = p.conforms /\ Plain(p).bare = FALSE
  BY DEF Plain, Panes
<1>2. PICK started, over, steps, calls, messages, bare :
        /\ started = (p.started \/ f.type = "RUN_STARTED")
        /\ over = (p.over \/ f.type \in {"RUN_FINISHED", "RUN_ERROR"})
        /\ steps = With(p.steps, f, "STEP_STARTED", "STEP_FINISHED")
        /\ calls = With(p.calls, f, "TOOL_CALL_START", "TOOL_CALL_END")
        /\ messages = With(p.messages, f, "TEXT_MESSAGE_START", "TEXT_MESSAGE_END")
        /\ bare = (p.bare \/ (f.type = "ANSWER" /\ b /\ ~f.verdict))
  OBVIOUS
<1>3. Allowed(Plain(p), f)
  BY <1>1 DEF Allowed
<1>4. /\ (p.conforms /\ Allowed(p, f)) = TRUE
      /\ (Plain(p).conforms /\ Allowed(Plain(p), f)) = TRUE
      /\ (Plain(p).bare \/ (f.type = "ANSWER" /\ FALSE /\ ~f.verdict)) = FALSE
  <2>1. (p.conforms /\ Allowed(p, f)) = TRUE
    BY Zenon
  <2>2. Plain(p).conforms
    BY <1>1, Zenon
  <2>3. (Plain(p).conforms /\ Allowed(Plain(p), f)) = TRUE
    BY <1>3, <2>2, Zenon
  <2>4. ~Plain(p).bare
    BY <1>1, Zenon
  <2>5. (Plain(p).bare \/ (f.type = "ANSWER" /\ FALSE /\ ~f.verdict)) = FALSE
    BY <2>4, Zenon
  <2> QED BY <2>1, <2>3, <2>5, Zenon
<1>5. PICK yes : yes = TRUE
  OBVIOUS
<1>6. Drawn(p, f, b) = [started |-> started, over |-> over, steps |-> steps, calls |-> calls,
                        messages |-> messages, conforms |-> yes, bare |-> bare]
  BY <1>2, <1>4, <1>5, Zenon DEF Drawn
<1>7. Drawn(Plain(p), f, FALSE)
        = [started |-> started, over |-> over, steps |-> steps, calls |-> calls,
           messages |-> messages, conforms |-> yes, bare |-> FALSE]
  BY <1>1, <1>2, <1>4, <1>5, Zenon DEF Drawn
<1>8. Plain([started |-> started, over |-> over, steps |-> steps, calls |-> calls,
             messages |-> messages, conforms |-> yes, bare |-> bare])
        = [started |-> started, over |-> over, steps |-> steps, calls |-> calls,
           messages |-> messages, conforms |-> yes, bare |-> FALSE]
  BY MadePlain
<1> QED BY <1>6, <1>7, <1>8, Zenon

LEMMA SendsFollows ==
    ASSUME ServerInv, StreamInv, NEW c \in Clients, Sends(c)
    PROVE  StreamInv'
<1>0. conn[c] \in Connections /\ Follows(conn[c], log)
  BY DEF ServerInv, StreamInv
<1>1. PICK fs \in Seq(Frames), p \in Panes, b \in BOOLEAN :
        /\ fs = conn[c].pending /\ p = conn[c].pane /\ fs # << >>
        /\ conn' = [conn EXCEPT ![c].pending = Tail(fs), ![c].pane = Drawn(p, Head(fs), b)]
  <2>1. conn[c].pending \in Seq(Frames) /\ conn[c].pane \in Panes
    BY <1>0 DEF Connections
  <2>2. Judged(conn[c].cursor) \in BOOLEAN
    BY DEF Judged
  <2>3. /\ conn[c].pending # << >>
        /\ conn' = [conn EXCEPT ![c].pending = Tail(conn[c].pending),
                     ![c].pane = Drawn(conn[c].pane, Head(conn[c].pending), Judged(conn[c].cursor))]
    BY DEF Sends, ServerInv
  <2> QED BY <2>1, <2>2, <2>3
<1> DEFINE q == Drawn(p, Head(fs), b)
           k == [conn[c] EXCEPT !.pending = Tail(fs), !.pane = q]
<1>2. conn' = [conn EXCEPT ![c] = k] /\ UNCHANGED <<log, called>>
  BY <1>1 DEF Sends, ServerInv, producer
<1>3. /\ p.conforms /\ Leads(Plain(p), fs, PaneOf(conn[c].translator, conn[c].finished))
  BY <1>0, <1>1 DEF Follows
<1>4. /\ Allowed(Plain(p), Head(fs))
      /\ Leads(Drawn(Plain(p), Head(fs), FALSE), Tail(fs),
               PaneOf(conn[c].translator, conn[c].finished))
  BY <1>1, <1>3, LeadsTail
<1>5. /\ Plain(p).started = p.started /\ Plain(p).over = p.over /\ Plain(p).steps = p.steps
      /\ Plain(p).calls = p.calls /\ Plain(p).messages = p.messages
      /\ Plain(p).conforms = p.conforms /\ Plain(p).bare = FALSE
  BY DEF Plain, Panes
<1>6. Allowed(p, Head(fs))
  BY <1>4, <1>5 DEF Allowed
<1>7. q.conforms
  BY <1>3, <1>6 DEF Drawn
<1>8. Plain(q) = Drawn(Plain(p), Head(fs), FALSE)
  BY <1>3, <1>6, PlainDrawn
<1>9. /\ k.translator = conn[c].translator /\ k.pending = Tail(fs) /\ k.pane = q
      /\ k.finished = conn[c].finished /\ k.cursor = conn[c].cursor
  <2> HIDE DEF q
  <2> QED BY <1>0 DEF Connections
<1> HIDE DEF k, q
<1>10. Leads(Plain(q), Tail(fs), PaneOf(conn[c].translator, conn[c].finished))
  BY <1>4, <1>8, Zenon
<1>11. Follows(k, log)
  BY <1>0, <1>7, <1>9, <1>10 DEF Follows
<1>12. Follows(k, log')
  BY <1>2, <1>11
<1>13. CallLog' /\ Grows
  BY <1>2, Unwritten DEF ServerInv, StreamInv
<1> QED BY <1>2, <1>12, <1>13, OthersFollow

LEMMA IdlesFollows ==
    ASSUME ServerInv, StreamInv, NEW c \in Clients, Idles(c)
    PROVE  StreamInv'
<1>1. /\ log' = Append(log, Record("mission_finished", 0, 0, TRUE)) /\ called' = called
      /\ UNCHANGED conn
  BY DEF Idles
<1>2. "mission_finished" \in Events \ {"tool_call"} /\ 0 \in Nat /\ 0 \in Int /\ TRUE \in BOOLEAN
  BY DEF Events
<1>3. CallLog' /\ Grows
  <2>1. LogOK /\ CallLog
    BY DEF ServerInv, StreamInv
  <2> QED BY <1>1, <1>2, <2>1, Remarked, Zenon
<1> QED BY <1>1, <1>3, AllFollow

-----------------------------------------------------------------------------

LEMMA StreamStarts == ASSUME Init PROVE StreamInv
<1>1. CallLog
  <2>1. Len(log) = 0
    BY DEF Init
  <2> QED BY <2>1 DEF CallLog
<1>2. ASSUME NEW c \in Clients
      PROVE  Follows(conn[c], log)
  <2>1. conn[c] = Away
    BY DEF Init
  <2>2. Follows(Away, log)
    BY AwayFollows
  <2> QED BY <2>1, <2>2
<1> QED BY <1>1, <1>2 DEF StreamInv

LEMMA StreamSteps == ASSUME ServerInv, StreamInv, [Next]_vars PROVE StreamInv'
<1>1. CASE Mission
  <2>1. LogOK /\ CallLog
    BY DEF ServerInv, StreamInv
  <2>2. CallLog' /\ Grows /\ UNCHANGED conn
    BY <1>1, <2>1, MissionNumbersCalls, MissionKeepsLog
  <2> QED BY <2>2, AllFollow
<1>2. ASSUME NEW c \in Clients, Requests(c) \/ Serves(c) \/ ReadFails(c) \/ Cut(c)
      PROVE  StreamInv'
  <2>1. CASE Requests(c)
    BY <2>1, RequestsFollows
  <2>2. CASE Decides(c) \/ ReadFails(c)
    BY <2>2, StandsFollows
  <2>3. CASE Feeds(c)
    BY <2>3, FeedsFollows
  <2>4. CASE Sends(c)
    BY <2>4, SendsFollows
  <2>5. CASE Idles(c)
    BY <2>5, IdlesFollows
  <2>6. CASE Closes(c) \/ Cut(c)
    BY <2>6, GivenBackFollows DEF Closes, Cut
  <2> QED BY <1>2, <2>1, <2>2, <2>3, <2>4, <2>5, <2>6 DEF Serves
<1>3. CASE UNCHANGED vars
  <2>1. UNCHANGED <<log, called, conn>>
    BY <1>3 DEF vars, producer
  <2>2. CallLog' /\ Grows
    BY <2>1, Unwritten DEF ServerInv, StreamInv
  <2> QED BY <2>1, <2>2, AllFollow
<1> QED BY <1>1, <1>2, <1>3 DEF Next

\* Whatever the log holds, wherever a stream joins it and however often it is
\* cut, the frames of one connection are a conforming AG-UI stream, and one the
\* server ends says that the run has ended (agui.py, Translator; sse.py, stream).
THEOREM StreamsConform == Spec => []Conforms
<1>1. Init => StreamInv
  BY StreamStarts
<1>2. ServerInv /\ StreamInv /\ [Next]_vars => StreamInv'
  BY StreamSteps
<1>3. ServerInv /\ StreamInv => Conforms
  <2> SUFFICES ASSUME ServerInv, StreamInv, NEW c \in Clients
               PROVE  /\ conn[c].pane.conforms
                      /\ Quiet(c) /\ conn[c].finished => conn[c].pane.over
    BY DEF Conforms
  <2>1. conn[c] \in Connections /\ Follows(conn[c], log)
    BY DEF ServerInv, StreamInv
  <2>2. conn[c].pane.conforms
    BY <2>1 DEF Follows
  <2>3. ASSUME Quiet(c), conn[c].finished
        PROVE  conn[c].pane.over
    <3>1. Leads(Plain(conn[c].pane), << >>, PaneOf(conn[c].translator, conn[c].finished))
      BY <2>1, <2>3 DEF Follows, Quiet
    <3>2. Plain(conn[c].pane) = PaneOf(conn[c].translator, conn[c].finished)
      BY <3>1, AllSent
    <3>3. PaneOf(conn[c].translator, conn[c].finished).over = conn[c].finished
      BY DEF PaneOf, Shown
    <3>4. conn[c].pane \in Panes
      BY <2>1 DEF Connections
    <3>5. Plain(conn[c].pane).over = conn[c].pane.over
      BY <3>4 DEF Plain, Panes
    <3> QED BY <2>3, <3>2, <3>3, <3>5
  <2> QED BY <2>2, <2>3
<1> QED BY <1>1, <1>2, <1>3, ServerInvariant, PTL DEF Spec
=============================================================================
