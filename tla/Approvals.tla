------------------------------ MODULE Approvals -----------------------------
(***************************************************************************)
(* The gate: core/runtime/approvals.py and everybody who writes there.     *)
(*                                                                         *)
(* One tool is gated.  A run that proposes it records a request and stops, *)
(* or stands at the gate for a decision on its control channel (run.py,    *)
(* _gate); a person answers there or from a process of their own (cli.py,  *)
(* _decide_approval); a later run carries the answer in as a ticket        *)
(* (resolve, ApprovalTicket); and a process starting another mission       *)
(* abandons what a dead run asked (cli.py, _reconcile_approvals).          *)
(*                                                                         *)
(* A store operation reads the record, checks its state and writes it      *)
(* back.  The RLock around the three belongs to one process's store, so    *)
(* between two processes the read and the write are two steps.  Three      *)
(* switches say which accidents a run of the model contains:               *)
(*   Overlap      two operations of different processes overlap            *)
(*   Parallel     children of one turn share a ticket (swarm.py, a wave)   *)
(*   SweeperDies  a process dies between closing an orphan's log and       *)
(*                abandoning what the orphan asked                         *)
(***************************************************************************)
EXTENDS Naturals, FiniteSets

CONSTANTS
  Requests,      \* approval ids
  Runs,          \* processes running a mission, each with a run id
  Deciders,      \* processes answering a request: --approve, --refuse
  Sweepers,      \* processes starting some other mission
  None,
  Overlap, Parallel, SweeperDies

ASSUME ActorsAssumption ==
  /\ Runs \cap Deciders = {} /\ Runs \cap Sweepers = {} /\ Deciders \cap Sweepers = {}
  /\ None \notin Requests \cup Runs
  /\ Overlap \in BOOLEAN /\ Parallel \in BOOLEAN /\ SweeperDies \in BOOLEAN

Actors == Runs \cup Deciders \cup Sweepers

States == {"none", "pending", "approved", "refused", "spent", "abandoned"}
Resolved == {"approved", "refused", "spent", "abandoned"}

\* A run is over ("ended") with its mission_finished, dead without it, and
\* closed once somebody has written it one.  "decided" and "dispatch" are the
\* two gaps of a gated call: yes recorded and not spent, spent and not called.
RunPC == {"unborn", "work", "gate", "decided", "dispatch", "failing",
          "ended", "dead", "closed"}

VARIABLES
  state, asker,  \* each record: its state, and the run_id that asked
  op,            \* the store operation each process has checked, not written
  pc,            \* where each run is
  at,            \* the request each run carries: asked at the gate, or a ticket
  ticketed,      \* the runs whose request is a ticket, resolved at the door
  flagged,       \* the tickets that say they are spent (ApprovalTicket._spent)
  orphan, todo,  \* each sweeper: the run it has just closed, then what it asked
  yes,           \* history: the requests somebody said yes to
  ran            \* history: <<run, request>> of every gated call made

record == <<state, asker>>
run == <<pc, at, ticketed, flagged>>
sweep == <<orphan, todo>>
vars == <<record, op, run, sweep, yes, ran>>

NoOp == [kind |-> "none", id |-> None]
Ops == [kind : {"approve", "refuse", "consume", "abandon"}, id : Requests] \cup {NoOp}

TypeOK ==
  /\ state \in [Requests -> States]
  /\ asker \in [Requests -> Runs \cup {None}]
  /\ op \in [Actors -> Ops]
  /\ pc \in [Runs -> RunPC]
  /\ at \in [Runs -> Requests \cup {None}]
  /\ ticketed \in SUBSET Runs /\ flagged \in SUBSET Runs
  /\ orphan \in [Sweepers -> Runs \cup {None}]
  /\ todo \in [Sweepers -> SUBSET Requests]
  /\ yes \in SUBSET Requests
  /\ ran \in SUBSET (Runs \X Requests)

Init ==
  /\ state = [a \in Requests |-> "none"] /\ asker = [a \in Requests |-> None]
  /\ op = [x \in Actors |-> NoOp]
  /\ pc = [r \in Runs |-> "unborn"] /\ at = [r \in Runs |-> None]
  /\ ticketed = {} /\ flagged = {}
  /\ orphan = [s \in Sweepers |-> None] /\ todo = [s \in Sweepers |-> {}]
  /\ yes = {} /\ ran = {}

-----------------------------------------------------------------------------
\* The store.  A definition X_Variant is X as a plausible bug would have it; no
\* action uses one, they are what the properties are tried against.

\* What each operation checks of the state it read, and what it writes.
MayDecide(s) == s \notin Resolved

MayConsume_Spent(s) == s \in {"approved", "spent"}
MayConsume(s) == s = "approved"

MayAbandon_Undispatched(s) == s # "spent"
MayAbandon(s) == s \notin Resolved

Written_Unspent(kind) ==
  CASE kind = "approve" -> "approved"
    [] kind = "refuse"  -> "refused"
    [] kind = "consume" -> "approved"
    [] kind = "abandon" -> "abandoned"

Written(kind) ==
  CASE kind = "approve" -> "approved"
    [] kind = "refuse"  -> "refused"
    [] kind = "consume" -> "spent"
    [] kind = "abandon" -> "abandoned"

Checks(kind, s) ==
  CASE kind \in {"approve", "refuse"} -> MayDecide(s)
    [] kind = "consume" -> MayConsume(s)
    [] kind = "abandon" -> MayAbandon(s)

Idle(x) == op[x] = NoOp

\* Process x reads request a and passes the check.
Begin(x, kind, a) ==
  /\ Idle(x)
  /\ Overlap \/ \A y \in Actors : Idle(y)
  /\ state[a] # "none" /\ Checks(kind, state[a])
  /\ op' = [op EXCEPT ![x] = [kind |-> kind, id |-> a]]

\* Process x reads request a and is refused.
Denied(x, kind, a) ==
  /\ Idle(x)
  /\ Overlap \/ \A y \in Actors : Idle(y)
  /\ ~Checks(kind, state[a])

\* Process x replaces the file.
Commit(x) ==
  /\ state' = [state EXCEPT ![op[x].id] = Written(op[x].kind)]
  /\ op' = [op EXCEPT ![x] = NoOp]
  /\ yes' = IF op[x].kind = "approve" THEN yes \cup {op[x].id} ELSE yes
  /\ UNCHANGED asker

Goto(r, label) == pc' = [pc EXCEPT ![r] = label]

-----------------------------------------------------------------------------
\* A run

Start(r) ==
  /\ pc[r] = "unborn"
  /\ Goto(r, "work")
  /\ UNCHANGED <<record, op, at, ticketed, flagged, sweep, yes, ran>>

\* --approval: only an approved record becomes a ticket.
StartWith(r, a) ==
  /\ pc[r] = "unborn" /\ MayConsume(state[a])
  /\ at' = [at EXCEPT ![r] = a] /\ ticketed' = ticketed \cup {r}
  /\ Goto(r, "work")
  /\ UNCHANGED <<record, op, flagged, sweep, yes, ran>>

\* The gated tool is proposed: the request is written down, under a fresh id,
\* before anybody is told.  With a control channel the run stands at the gate;
\* without one it ends awaiting_approval.
Ask(r, a) ==
  /\ pc[r] = "work" /\ r \notin ticketed
  /\ state[a] = "none"
  /\ state' = [state EXCEPT ![a] = "pending"]
  /\ asker' = [asker EXCEPT ![a] = r]
  /\ at' = [at EXCEPT ![r] = a]
  /\ Goto(r, "gate") \/ Goto(r, "ended")
  /\ UNCHANGED <<op, ticketed, flagged, sweep, yes, ran>>

\* A decision for this request arrives on the channel, and goes through
\* decide.  A decision that cannot be recorded is trouble: the run ends.
Answer(r, kind) ==
  /\ pc[r] = "gate"
  /\ \/ Begin(r, kind, at[r]) /\ UNCHANGED pc
     \/ Denied(r, kind, at[r]) /\ Goto(r, "ended") /\ UNCHANGED op
  /\ UNCHANGED <<record, at, ticketed, flagged, sweep, yes, ran>>

\* The answer is on the disk: a no is told to the model, a yes is spent next.
Answered(r) ==
  /\ pc[r] = "gate" /\ ~Idle(r)
  /\ Commit(r)
  /\ Goto(r, IF op[r].kind = "approve" THEN "decided" ELSE "work")
  /\ UNCHANGED <<at, ticketed, flagged, sweep, ran>>

\* The window runs out.
WhenNobodyAnswers_Yes == "dispatch"
WhenNobodyAnswers == "ended"

GiveUp(r) ==
  /\ pc[r] = "gate" /\ Idle(r)
  /\ Goto(r, WhenNobodyAnswers)
  /\ UNCHANGED <<record, op, at, ticketed, flagged, sweep, yes, ran>>

SpendAnswer(r) ==
  /\ pc[r] = "decided"
  /\ \/ Begin(r, "consume", at[r]) /\ UNCHANGED pc
     \/ Denied(r, "consume", at[r]) /\ Goto(r, "ended") /\ UNCHANGED op
  /\ UNCHANGED <<record, at, ticketed, flagged, sweep, yes, ran>>

\* ApprovalTicket.spend, on the way to a call: the flag is set first, and a
\* store that refuses ends the mission.
SpendTicket(r) ==
  /\ pc[r] = "work" /\ r \in ticketed \ flagged
  /\ flagged' = flagged \cup {r}
  /\ \/ Begin(r, "consume", at[r]) /\ UNCHANGED pc
     \/ Denied(r, "consume", at[r]) /\ Goto(r, "failing") /\ UNCHANGED op
  /\ UNCHANGED <<record, at, ticketed, sweep, yes, ran>>

Spent(r) ==
  /\ ~Idle(r) /\ op[r].kind = "consume"
  /\ Commit(r)
  /\ Goto(r, "dispatch")
  /\ UNCHANGED <<at, ticketed, flagged, sweep, ran>>

Dispatch(r) ==
  /\ pc[r] = "dispatch"
  /\ ran' = ran \cup {<<r, at[r]>>}
  /\ Goto(r, "work")
  /\ UNCHANGED <<record, op, at, ticketed, flagged, sweep, yes>>

\* A second call of the ticket's tool spends nothing.  It may be a sibling's,
\* on its way while the child whose spending was refused unwinds.
CallAgain(r) ==
  /\ pc[r] = "work" \/ (Parallel /\ pc[r] = "failing")
  /\ r \in ticketed \cap flagged /\ Idle(r)
  /\ ran' = ran \cup {<<r, at[r]>>}
  /\ UNCHANGED <<record, op, run, sweep, yes>>

Finish(r) ==
  /\ pc[r] \in {"work", "failing"} /\ Idle(r)
  /\ Goto(r, "ended")
  /\ UNCHANGED <<record, op, at, ticketed, flagged, sweep, yes, ran>>

Die(r) ==
  /\ pc[r] \notin {"unborn", "ended", "dead", "closed"}
  /\ op' = [op EXCEPT ![r] = NoOp]
  /\ Goto(r, "dead")
  /\ UNCHANGED <<record, at, ticketed, flagged, sweep, yes, ran>>

-----------------------------------------------------------------------------
\* A person, in a process of their own

Decide(d, kind, a) ==
  /\ Begin(d, kind, a)
  /\ UNCHANGED <<record, run, sweep, yes, ran>>

Decided(d) ==
  /\ ~Idle(d)
  /\ Commit(d)
  /\ UNCHANGED <<run, sweep, ran>>

-----------------------------------------------------------------------------
\* A process starting another mission: it closes the log of a dead run, lists
\* the pending requests of that run, and only then abandons them one by one.

CloseOrphan(s, r) ==
  /\ orphan[s] = None /\ todo[s] = {} /\ pc[r] = "dead"
  /\ orphan' = [orphan EXCEPT ![s] = r]
  /\ Goto(r, "closed")
  /\ UNCHANGED <<record, op, at, ticketed, flagged, todo, yes, ran>>

\* _reconcile_approvals: the pending requests of the run just closed.
Withdrawable_Others(s) ==
  {a \in Requests : state[a] = "pending" /\ asker[a] # orphan[s]}
Withdrawable(s) ==
  {a \in Requests : state[a] = "pending" /\ asker[a] = orphan[s]}

List(s) ==
  /\ orphan[s] # None
  /\ todo' = [todo EXCEPT ![s] = Withdrawable(s)]
  /\ orphan' = [orphan EXCEPT ![s] = None]
  /\ UNCHANGED <<record, op, run, yes, ran>>

\* A request answered since the listing is left as it is.
Withdraw(s, a) ==
  /\ a \in todo[s]
  /\ \/ Begin(s, "abandon", a) /\ UNCHANGED todo
     \/ /\ Denied(s, "abandon", a) /\ UNCHANGED op
        /\ todo' = [todo EXCEPT ![s] = @ \ {a}]
  /\ UNCHANGED <<record, run, orphan, yes, ran>>

Withdrawn(s) ==
  /\ ~Idle(s)
  /\ Commit(s)
  /\ todo' = [todo EXCEPT ![s] = @ \ {op[s].id}]
  /\ UNCHANGED <<run, orphan, ran>>

SweeperDeath(s) ==
  /\ SweeperDies /\ (orphan[s] # None \/ todo[s] # {})
  /\ orphan' = [orphan EXCEPT ![s] = None] /\ todo' = [todo EXCEPT ![s] = {}]
  /\ op' = [op EXCEPT ![s] = NoOp]
  /\ UNCHANGED <<record, run, yes, ran>>

-----------------------------------------------------------------------------
RunStep(r) ==
  \/ Start(r)
  \/ \E a \in Requests : StartWith(r, a) \/ Ask(r, a)
  \/ \E kind \in {"approve", "refuse"} : Answer(r, kind)
  \/ Answered(r) \/ GiveUp(r) \/ SpendAnswer(r)
  \/ SpendTicket(r) \/ Spent(r) \/ Dispatch(r) \/ CallAgain(r)
  \/ Finish(r) \/ Die(r)

DeciderStep(d) ==
  \/ \E kind \in {"approve", "refuse"}, a \in Requests : Decide(d, kind, a)
  \/ Decided(d)

SweeperStep(s) ==
  \/ \E r \in Runs : CloseOrphan(s, r)
  \/ \E a \in Requests : Withdraw(s, a)
  \/ List(s) \/ Withdrawn(s) \/ SweeperDeath(s)

Next ==
  \/ \E r \in Runs : RunStep(r)
  \/ \E d \in Deciders : DeciderStep(d)
  \/ \E s \in Sweepers : SweeperStep(s)

Spec == Init /\ [][Next]_vars

\* Missions keep being started and each finishes its sweep; a process that has
\* begun a store operation writes.  Nobody has to answer, ask or start a run.
Fairness ==
  /\ \A s \in Sweepers :
       /\ WF_vars(\E a \in Requests : Withdraw(s, a))
       /\ WF_vars(Withdrawn(s) \/ List(s) \/ \E r \in Runs : CloseOrphan(s, r))
  /\ \A d \in Deciders : WF_vars(Decided(d))
  /\ \A r \in Runs : WF_vars(Answered(r) \/ Spent(r))

FairSpec == Spec /\ Fairness

-----------------------------------------------------------------------------
\* Properties

\* No gated call is made, by any run, in any order of events, unless somebody
\* said yes to the very request it was made under: nothing times out into a
\* yes, and neither a refused nor an abandoned nor an undecided request opens.
NothingRunsWithoutYes == \A c \in ran : c[2] \in yes

\* A yes opens the tool for one run: two runs never call it under one request.
OneRunPerYes == \A c, d \in ran : c[2] = d[2] => c[1] = d[1]

\* Every call made is accounted for: its request says spent, and no other
\* answer comes to stand over a call that was made.
CallsAreSpent == \A c \in ran : state[c[2]] = "spent"

\* What a person answered stands: it is never answered again, and a restart
\* that notices the asker is gone does not overwrite it.
PersonStands ==
  [][\A a \in Requests :
       state[a] \in {"approved", "refused"} =>
         \/ state'[a] = state[a]
         \/ state[a] = "approved" /\ state'[a] = "spent"]_vars

\* A request whose asker is gone does not stay open to a yes for ever.
DeadQuestion(a) == state[a] = "pending" /\ asker[a] # None /\ pc[asker[a]] \in {"dead", "closed"}

DeadQuestionsClose == \A a \in Requests : DeadQuestion(a) ~> ~DeadQuestion(a)
=============================================================================
