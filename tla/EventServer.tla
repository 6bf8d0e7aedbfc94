---------------------------- MODULE EventServer -----------------------------
(***************************************************************************)
(* A run, watched over HTTP (core/server): a mission that writes its log,  *)
(* may die and be resumed, and clients that ask for what comes after a     *)
(* record, are cut off between any two frames, and ask again.  What a      *)
(* connection is served is RunStore.follow put through one AguiTranslator. *)
(*                                                                         *)
(* The log is numbered from 1 without holes, as RunStore shows where no    *)
(* process dies between a line and its stamp; stamped is last_seq of       *)
(* meta.json, which may lag behind it.                                     *)
(***************************************************************************)
EXTENDS AguiTranslator, FiniteSets

CONSTANTS
    Clients,        \* who watches
    Since,          \* the ?since= a client's address may carry, None for none
    MaxStreams,     \* streams this process holds open at once
    Reconciles,     \* --reconcile: a quiet stream closes the log of a dead run
    Late,           \* a report may be written after the end, by the thread of
                    \* a critic whose mission was cancelled
    Notes,          \* the records that change nothing on a pane
    MaxLog,         \* bound: records, endings aside
    MaxSteps,       \* bound: steps
    MaxCalls,       \* bound: tool calls
    MaxResumes      \* bound: resumes

ASSUME ServerAssumption ==
    /\ Since \subseteq Nat \cup {None}
    /\ MaxStreams \in Nat \ {0}
    /\ {Reconciles, Late} \subseteq BOOLEAN
    /\ Notes \subseteq {"reply_rejected", "gate_requested", "model_state"}
    /\ {MaxLog, MaxSteps, MaxCalls, MaxResumes} \subseteq Nat

VARIABLES
    log, stamped,       \* the run's records; last_seq of its meta.json
    mission,            \* opening, between, step, judged, answered, over, dead
    step, running,      \* the number of the step; the calls not yet returned
    called, resumed,    \* history: calls made, resumes
    slots,              \* StreamSlots: the streams counted open
    conn,               \* each client's connection, and what it shows of it
    client              \* what each client remembers from one to the next

producer == <<mission, step, running, called, resumed>>
vars == <<log, stamped, producer, slots, conn, client>>

Away == [pc |-> "away", cursor |-> 0, upto |-> 0, translator |-> Fresh,
         pending |-> << >>, finished |-> FALSE, pane |-> Pane]

Init ==
    /\ log = << >> /\ stamped = 0
    /\ mission = "opening" /\ step = 0 /\ running = {}
    /\ called = 0 /\ resumed = 0
    /\ slots = 0
    /\ conn = [c \in Clients |-> Away]
    /\ client \in [Clients -> [since: Since, last: {0}, have: {{}}]]

IsEnding(r) == r.event = "mission_finished"
HasEnding == \E i \in DOMAIN log : IsEnding(log[i])

-----------------------------------------------------------------------------
\* The mission, as far as its records go

\* The line; then the stamp.
Emits(r) ==
    /\ stamped = Len(log)
    /\ log' = Append(log, r)
    /\ UNCHANGED <<stamped, slots, conn, client>>

Says(r) == Len(log) < MaxLog /\ Emits(r)

Stamps ==
    /\ stamped < Len(log)
    /\ stamped' = Len(log)
    /\ UNCHANGED <<log, producer, slots, conn, client>>

Opens ==
    /\ mission = "opening"
    /\ Says(Record("mission_started", 0, 0, FALSE))
    /\ mission' = "between"
    /\ UNCHANGED <<step, running, called, resumed>>

BeginsStep ==
    /\ mission \in {"between", "step"} /\ step < MaxSteps
    /\ Says(Record("step_started", step + 1, 0, FALSE))
    /\ mission' = "step" /\ step' = step + 1
    /\ UNCHANGED <<running, called, resumed>>

Remarks(note) ==
    /\ mission = "step"
    /\ Says(Record(note, step, 0, FALSE))
    /\ UNCHANGED producer

\* A piece of an answer, which may yet turn out not to be the answer.
Writes ==
    /\ mission = "step"
    /\ Says(Record("answer_delta", step, 0, FALSE))
    /\ UNCHANGED producer

\* Two calls may be out at once: the children of a staged turn write on the
\* stream of one run.
Calls ==
    /\ mission = "step" /\ called < MaxCalls
    /\ Says(Record("tool_call", step, called + 1, FALSE))
    /\ called' = called + 1 /\ running' = running \cup {called + 1}
    /\ UNCHANGED <<mission, step, resumed>>

Returns(call) ==
    /\ mission = "step" /\ call \in running
    /\ Says(Record("tool_result", step, call, FALSE))
    /\ running' = running \ {call}
    /\ UNCHANGED <<mission, step, called, resumed>>

Judges(repairing) ==
    /\ mission = "step" /\ running = {}
    /\ Says(Record("grounding", step, 0, repairing))
    /\ mission' = IF repairing THEN "between" ELSE "judged"
    /\ UNCHANGED <<step, running, called, resumed>>

Answers ==
    /\ mission \in {"step", "judged"} /\ running = {}
    /\ Says(Record("answer", step, 0, FALSE))
    /\ mission' = "answered"
    /\ UNCHANGED <<step, running, called, resumed>>

\* From the finally, whatever is still open; raised: no reason is given.
Finishes(raised) ==
    /\ mission \in {"between", "step", "judged", "answered"}
    /\ mission = "answered" => ~raised
    /\ Emits(Record("mission_finished", 0, 0, raised))
    /\ mission' = "over"
    /\ UNCHANGED <<step, running, called, resumed>>

ReportsLate ==
    /\ Late /\ mission = "over" /\ IsEnding(Last(log))
    /\ Says(Record("grounding", step, 0, FALSE))
    /\ UNCHANGED producer

Dies ==
    /\ mission \notin {"opening", "over", "dead"}
    /\ stamped = Len(log)
    /\ mission' = "dead"
    /\ UNCHANGED <<log, stamped, step, running, called, resumed, slots, conn, client>>

HasAnswer == \E i \in DOMAIN log : log[i].event = "answer"

Resumes ==
    /\ mission \in {"over", "dead"} /\ ~HasAnswer /\ resumed < MaxResumes
    /\ stamped = Len(log)
    /\ mission' = "between" /\ running' = {} /\ resumed' = resumed + 1
    /\ UNCHANGED <<log, stamped, step, called, slots, conn, client>>

Mission ==
    \/ Stamps \/ Opens \/ BeginsStep \/ Writes \/ Calls \/ Answers
    \/ ReportsLate \/ Dies \/ Resumes
    \/ \E note \in Notes : Remarks(note)
    \/ \E call \in running : Returns(call)
    \/ \E b \in BOOLEAN : Judges(b) \/ Finishes(b)

-----------------------------------------------------------------------------
\* A request

Lower(a, b) == IF a < b THEN a ELSE b

\* What the address says wins over what the last connection reached.
Asked(c) == IF client[c].since = None THEN client[c].last ELSE client[c].since

\* Refused at the cap, before anything was sent; otherwise a slot, a cursor
\* that is no further than meta.json says the log is.
Requests(c) ==
    /\ conn[c].pc = "away"
    /\ slots < MaxStreams
    /\ slots' = slots + 1
    /\ conn' = [conn EXCEPT ![c] = [Away EXCEPT !.pc = "asked", !.upto = stamped,
                                                !.cursor = Lower(Asked(c), stamped)]]
    /\ UNCHANGED <<log, stamped, producer, client>>

\* The number of the ending, if the log's last record is one; the tail is
\* read after meta.json was.
EndedAt_Unread(upto) == 0
EndedAt(upto) ==
    IF upto > 0 /\ Len(log) >= upto /\ IsEnding(Last(log)) THEN Len(log) ELSE 0

\* A client that has the ending is given an empty body instead of a follow.
Decides(c) ==
    LET ended == EndedAt(conn[c].upto)
    IN /\ conn[c].pc = "asked"
       /\ conn' = [conn EXCEPT ![c].upto = 0,
                               ![c].pc = IF ended > 0 /\ conn[c].cursor >= ended
                                         THEN "closing" ELSE "streaming"]
       /\ UNCHANGED <<log, stamped, producer, slots, client>>

-----------------------------------------------------------------------------
\* A stream

Quiet(c) == conn[c].pc = "streaming" /\ conn[c].pending = << >>

\* follow yields the next record, and the renderer makes frames of it.
Feeds(c) ==
    LET r == log[conn[c].cursor + 1]
        fed == Feed(conn[c].translator, r)
    IN /\ Quiet(c) /\ ~conn[c].finished
       /\ conn[c].cursor < Len(log)
       /\ conn' = [conn EXCEPT ![c].cursor = @ + 1,
                               ![c].translator = fed.state,
                               ![c].pending = fed.frames,
                               ![c].finished = IsEnding(r)]
       /\ UNCHANGED <<log, stamped, producer, slots, client>>

\* The id line is on the last frame of a record and on no other.
HasId_First(c) == conn[c].finished \/ Len(conn[c].pending) > 1
HasId(c) == Len(conn[c].pending) = 1

\* An answer right behind a report that is final.
Judged(n) ==
    /\ log[n].event = "answer" /\ n > 1
    /\ log[n - 1].event = "grounding" /\ ~log[n - 1].flag

Sends(c) ==
    LET n == conn[c].cursor
        frames == conn[c].pending
    IN /\ conn[c].pc = "streaming" /\ frames # << >>
       /\ conn' = [conn EXCEPT ![c].pending = Tail(frames),
                               ![c].pane = Drawn(@, Head(frames), Judged(n))]
       /\ client' = [client EXCEPT
              ![c].have = IF Len(frames) = 1 THEN @ \cup {n} ELSE @,
              ![c].last = IF HasId(c) THEN n ELSE @]
       /\ UNCHANGED <<log, stamped, producer, slots>>

\* Nothing new: the sweep, where the operator asked for it, ends the log of a
\* run nobody is running, unless it has an ending already.
Idles(c) ==
    /\ Quiet(c) /\ ~conn[c].finished /\ conn[c].cursor = Len(log)
    /\ Reconciles /\ mission = "dead" /\ ~HasEnding
    /\ log' = Append(log, Record("mission_finished", 0, 0, TRUE))
    /\ stamped' = Len(log')
    /\ mission' = "over"
    /\ UNCHANGED <<step, running, called, resumed, slots, conn, client>>

\* The store cannot be read: the stream ends with a frame of its own, which
\* carries no id and is not the translator's.
ReadFails(c) ==
    /\ Quiet(c) /\ ~conn[c].finished
    /\ conn' = [conn EXCEPT ![c].pc = "closing"]
    /\ UNCHANGED <<log, stamped, producer, slots, client>>

GivesBack(c) ==
    /\ slots' = slots - 1
    /\ conn' = [conn EXCEPT ![c] = Away]
    /\ UNCHANGED <<log, stamped, producer, client>>

\* The terminal record was served, the body was empty, or the store failed.
Closes(c) ==
    /\ conn[c].pc = "closing" \/ (Quiet(c) /\ conn[c].finished)
    /\ GivesBack(c)

\* The client goes away, whatever was on its way to it.
Cut(c) ==
    /\ conn[c].pc \in {"streaming", "closing"}
    /\ GivesBack(c)

Serves(c) == Decides(c) \/ Feeds(c) \/ Sends(c) \/ Idles(c) \/ Closes(c)

Next ==
    \/ Mission
    \/ \E c \in Clients : Requests(c) \/ Serves(c) \/ ReadFails(c) \/ Cut(c)

Spec == Init /\ [][Next]_vars

\* A handler runs to its end, the thread behind a body is scheduled, and a
\* client that is there takes what it is sent.  No mission has to go on, no
\* client to come back.
FairSpec == Spec /\ \A c \in Clients : WF_vars(Serves(c))

-----------------------------------------------------------------------------
\* Properties

TypeOK ==
    /\ stamped \in 0 .. Len(log)
    /\ mission \in {"opening", "between", "step", "judged", "answered", "over", "dead"}
    /\ slots = Cardinality({c \in Clients : conn[c].pc # "away"})
    /\ \A c \in Clients :
          /\ conn[c].pc \in {"away", "asked", "streaming", "closing"}
          /\ conn[c].cursor \in 0 .. Len(log)
          /\ client[c].have \subseteq 1 .. Len(log)

\* Whatever the log holds, wherever the stream joins it and however often the
\* run was picked up, the frames of one connection are a conforming AG-UI
\* stream: everything that is closed was open, everything is closed before the
\* run is, and a stream the server ends at the terminal record says the run
\* has ended (agui.py, Translator; sse.py, stream).
Conforms ==
    \A c \in Clients :
        /\ conn[c].pane.conforms
        /\ Quiet(c) /\ conn[c].finished => conn[c].pane.over

\* "Last-Event-ID means: I have all of this seq" (sse.py, Agui).  A client
\* that was cut off between frames and came back, as often as you like, has
\* been handed every frame of every record up to the last id it was given.
HasAllOfIt ==
    \A c \in Clients : \A n \in 1 .. client[c].last :
        n > client[c].since => n \in client[c].have

\* Nobody is left watching a run that is over: a stream of a run whose log ends
\* with its ending, or that has died and may be swept for the first time, is
\* closed, or the run goes on (server, _ended_at and reconcile_hook).
Sweepable == mission = "dead" /\ Reconciles /\ ~HasEnding
Terminal == (mission = "over" /\ IsEnding(Last(log))) \/ Sweepable
Released(c) == conn[c].pc # "streaming" \/ mission \notin {"over", "dead"}
StreamsClose ==
    \A c \in Clients : (conn[c].pc = "streaming" /\ Terminal) ~> Released(c)

\* The same of every run that is over, whatever was written after its ending.
LateStreamsClose ==
    \A c \in Clients :
        (conn[c].pc = "streaming" /\ mission = "over") ~> Released(c)

\* The verdict rides the answer's own frames, "so a reconnect resuming from a
\* cursor between two frames cannot separate an ungrounded answer from the
\* fact that it is one" (agui.py, _on_answer).
NoBareAnswer == \A c \in Clients : ~conn[c].pane.bare
=============================================================================
