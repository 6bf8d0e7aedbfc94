--------------------------- MODULE ControlChannel ---------------------------
(***************************************************************************)
(* --control: the channel a platform steers a running mission by           *)
(* (core/runtime/control.py).  One daemon thread reads the operator's       *)
(* lines.  A cancel it applies itself, on the mission's switch; everything *)
(* else it queues, and the loop takes it off at points the loop chooses:   *)
(* all of it, or one kind, or the first command that answers a gate, and   *)
(* what was not asked for is held, in order, for whoever asks next.        *)
(*                                                                         *)
(* The operator's k-th instruction is the number k, so an order, a loss or *)
(* a repetition shows.  MissionLoop is the other end.                      *)
(***************************************************************************)
EXTENDS Naturals, Places, Sequences, SequencesExt

CONSTANTS
  MaxCommands,   \* bound: the commands an operator sends
  MaxGates       \* bound: the gates a run opens

ASSUME ChannelAssumption == MaxCommands \in Nat /\ MaxGates \in Nat

VARIABLES
  queue,      \* _queue: read by the thread, not yet drained
  held,       \* _held: drained, and not wanted by whoever drained it
  cancel,     \* the switch (core/budgets.py, Cancellation) has been thrown
  writer,     \* the writer is still there, so the reader thread is alive
  sent,       \* how many commands the operator has sent
  injected,   \* how many of them were instructions
  decided     \* history: the first decision sent about each gate

channel == <<queue, held>>
operator == <<cancel, writer, sent, injected, decided>>

Inject(k) == [control |-> "inject", about |-> k, approve |-> FALSE]
CancelStep == [control |-> "cancel_step", about |-> 0, approve |-> FALSE]
Decision(g, yes) == [control |-> "gate_decision", about |-> g, approve |-> yes]

Command == [control: {"inject", "cancel_step", "gate_decision"},
            about: 0..(MaxCommands + MaxGates), approve: BOOLEAN]

ChannelTypeOK ==
  /\ queue \in Seq(Command) /\ held \in Seq(Command)
  /\ cancel \in BOOLEAN /\ writer \in BOOLEAN
  /\ sent \in 0..MaxCommands /\ injected \in 0..sent
  /\ decided \in [1..MaxGates -> {"none", "yes", "no"}]

ChannelInit ==
  /\ queue = <<>> /\ held = <<>>
  /\ cancel = FALSE /\ writer = TRUE
  /\ sent = 0 /\ injected = 0
  /\ decided = [g \in 1..MaxGates |-> "none"]

-----------------------------------------------------------------------------
\* The reader thread

Offer(command) ==
  /\ writer /\ sent < MaxCommands
  /\ sent' = sent + 1
  /\ queue' = Append(queue, command)
  /\ UNCHANGED <<held, cancel, writer>>

OfferInject ==
  /\ Offer(Inject(injected + 1))
  /\ injected' = injected + 1
  /\ UNCHANGED decided

OfferCancelStep == Offer(CancelStep) /\ UNCHANGED <<injected, decided>>

\* A platform quotes an approval_id it was shown, so only of a gate that has
\* been opened; it may come too late, or twice, or change its mind.
OfferDecision(g, yes) ==
  /\ Offer(Decision(g, yes))
  /\ decided' = IF decided[g] = "none"
                THEN [decided EXCEPT ![g] = IF yes THEN "yes" ELSE "no"]
                ELSE decided
  /\ UNCHANGED injected

\* A cancel is not queued: it overtakes whatever is waiting.  The same switch
\* is thrown by SIGTERM and by a caller that holds it.
Throw ==
  /\ ~cancel
  /\ cancel' = TRUE
  /\ UNCHANGED <<channel, writer, sent, injected, decided>>

WriterGoes ==
  /\ writer
  /\ writer' = FALSE
  /\ UNCHANGED <<channel, cancel, sent, injected, decided>>

-----------------------------------------------------------------------------
\* What the loop asks

Drained == held \o queue

\* Leave exactly these waiting.
Keep(commands) == held' = commands /\ queue' = <<>>

\* poll()
Poll == Keep(<<>>)

IsCancelStep(command) == command.control = "cancel_step"

\* poll(only=(CANCEL_STEP,)): several asks are one answer, and what is not
\* one of them stays where it was.
CancelStepWaits == \E i \in DOMAIN Drained : IsCancelStep(Drained[i])

PollCancelStep_Swallow == Keep(<<>>)
PollCancelStep ==
  Keep(Among(Drained, {i \in DOMAIN Drained : ~IsCancelStep(Drained[i])}))

\* _seek: the first command that answers this gate, or 0; taking it keeps
\* the rest.
Answers(command, g) == command.control = "gate_decision" /\ command.about = g

Seek_AnyGate(g) ==
  LET IsDecision(command) == command.control = "gate_decision"
  IN  SelectInSeq(Drained, IsDecision)

Seek(g) ==
  LET Mine(command) == Answers(command, g)
  IN  SelectInSeq(Drained, Mine)

Take(i) == Keep(Among(Drained, DOMAIN Drained \ {i}))

\* The instructions in a list of commands, in its order.
Instructions(commands) ==
  LET injects == Among(commands, {i \in DOMAIN commands :
                                    commands[i].control = "inject"})
  IN  [i \in DOMAIN injects |-> injects[i].about]

\* finished: the reader is dead and nothing is queued.
Finished == ~writer /\ queue = <<>>
=============================================================================
