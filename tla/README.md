# judais-lobi: a verification development

judais-lobi is a mission runtime for LLM agents: a plan/act loop over governed
tools, with a durable log that can be resumed, approvals a person answers, a
control channel a platform steers by, budgets, a supervisor and a grounding
check. This directory holds TLA+ models of the parts whose correctness depends
on the order in which several actors act, the TLC runs that check them on small
instances, and TLAPS proofs for instances of any size.

Every definition is translated from the code under `src/`; `PROJECT.json` names,
for each one, the file and the lines. Names are the source's where TLA+ allows.

To repeat a check: `tlc -config RunStoreSerial.cfg MCRunStore.tla`. To repeat a
proof: `tlapm RunStoreProofs.tla`.

## 1. Inventory

### The parts that keep state, and who else touches it

**Run store** (`core/durable.py`). One directory per run: `events.jsonl`, an
append-only file of numbered envelopes; `meta.json`, with `last_seq` and
`updated_at`; a lock file for `flock`. Operations: `create`, `hold`/`release`
(`RunHold`, with a heartbeat thread that touches `meta.json`), `append`,
`touch`, `save`, `update_meta`, `since`, `follow`, `held`. A `threading.RLock`
protects one store object, that is, the threads of one process; between
processes there is only the flock, which is taken best effort. Hard: a process
may die between any two file accesses; the heartbeat rewrites the file that
numbers the log; two missions may run the same run. Correct when: numbers are
consecutive and never reused, a stretch writes one ending, a reader with a
cursor is handed everything, and a reader of an abandoned run is not left
waiting.

**Resume and orphan reconciliation** (`core/runtime/resume.py`). `open_for_resume`
admits a run whose last ending is resumable. `reconcile_orphans` is run by every
mission that starts: it looks at every *other* run and writes an ending for
those that are quiet, not held, and have none. The rest of the file rebuilds the
step number, the ceiling, the repairs spent, the result store and the
conversation from the log. That is a function, but it is applied to what a
process that died anywhere has written. Correct when: a run resumed any number
of times is one run with one budget, a result keeps its handle, and an answer
stands under the call it answers.

**Approvals** (`core/runtime/approvals.py`, callers in `run.py`, `mission.py`,
`cli.py`). One JSON file per request: pending, then approved, refused or
abandoned, and an approved one spent. Written by the run that asks and, at its
gate, answers and spends; by a person's process (`--approve`, `--refuse`); by a
later run that carries the yes as a ticket; by the sweep of a starting mission,
which abandons what a dead run asked. Hard: the read-check-write of an operation
is atomic inside a process only; a ticket is shared by the children of a staged
turn. Correct when: nothing is called without a yes, a yes is used by one run,
a call that was made is on record as spent, a person's answer is not overwritten,
and a dead run's question is closed.

**Control channel** (`core/runtime/control.py`). A daemon thread reads lines
from an operator; `cancel` throws the mission's switch from that thread, all
else is queued. The loop drains: everything (`poll()`), one kind
(`poll(only=...)`), or the first command that answers a gate (`await_for`); what
it does not want is held, in order. Correct when: no instruction is lost or
reordered whatever the loop was looking for, and a gate is answered by the
first decision about that very gate.

**Mission loop** (`core/runtime/run.py`: `_arun`, `_loop`, `_dispatch`, `_gate`,
`_answered_gate`, `_answered` and their helpers; `mission.py`, `completion.py`,
`budgets.py`).
State carried from step to step: repairs, continuation text and attempts, the
draft, whether the run is winding up, the transcript. Interacts with the model,
the tools (worker threads), the channel, the clock, the supervisor, the critic
(a worker thread), and the task that awaits it, which may be cancelled at any
await. Correct when: every stop is heard, every exit says `mission_finished`
once, every declared call is answered before the next request, work that was
written is handed over, and a wind-up ends.

**Staged turns and campaigns** (`swarm.py`, `runtime/campaign.py`,
`core/campaign/`). A plan of steps, run in waves with `asyncio.gather`, each a
child of the same run with its own branch; gates, redraws, checkpoints in the
run's metadata, synthesis. A campaign is one whose plan a person wrote, with
files handed from step to step and scopes per step. Hard: a wave ends by
failure, ceiling, stop or death at any member; what a restart knows is the
checkpoint and the number of turns on the log; two files say what kind of run it
is, written one after the other. Correct when: a settled step is not run again,
the answer covers the whole plan in force, what runs is what a person approved,
inputs arrive, the ceiling holds across processes and a turn ends.

**Supervisor** (`supervisor.py`). Acts and steps since the last review, six
signals, a threshold per signal, a budget of reviews with refunds. Correct when
a run that repeats itself is wound up after boundedly many reviews, one that
polls something that changes is left alone, and evidence is reviewed once.

**Tool bus and capabilities** (`tools/bus.py`, `tools/capability.py`,
`tools/sandbox.py`). A registry, grants (session, timed, one invocation), scopes
narrowed per task through a context variable. **MCP client and bridge**
(`tools/mcp_client.py`): a session thread that re-lists when notified, and a
loop that re-lists at a step boundary, over the same registry. Hard: neither
takes a lock; a registration is two dictionaries, a check of a grant is a look
and a consumption. Correct when: the registry is the sum of its owners and
catches up with the servers, and a grant for one call is one call.

**Kernel orchestrator, sessions, patches** (`kernel/`, `sessions/`, `patch/`). A
sequential phase machine with budgets, a checkpoint of the artifacts around
PATCH, and a git worktree remembered in a state file. Hard: a long sequence of
failed phases, each of which may go back, roll the artifacts back or halt.
Correct when: a session ends, completes only on a tree that was tested as it
is, and reports only artifacts that are there.

**Event server and AG-UI** (`core/server/`, `runtime/agui.py`, `runtime/sse.py`).
A bounded number of streams, each a follow of one run's log through a
translator with a memory of its own; a client is cut off anywhere and comes
back with the last id it saw. Correct when: the frames of a connection are well
bracketed, an id means its whole record, slots are given back, and nobody is
left watching a run that is over.

**Readers and pure parts.** Receipts, replay, history, context window, grounding,
critic, cognition, memory bank, backends, evaluation, skills, command line, the
two pure stream readers (`answer_stream.py`, `mission_stream.py`). `PROJECT.json`
lists each with the reason it is not modelled.

### How they interact

    operator --lines--> control channel --commands--> mission loop --calls--> tools
    person ---answers--> approvals <---ask/spend----- mission loop --asks--> model
    mission loop --records--> run store <--endings--- a starting mission's sweep
    run store --envelopes--> followers (SSE, AG-UI)    sweep --abandons--> approvals
    swarm, campaign --waves of children--> mission loop --asks--> supervisor
    swarm, campaign --checkpoint, turns--> run store --rebuild--> the next process
    MCP sessions --register, unregister--> bus <--dispatch, grants-- mission loop

The couplings that are modelled:

- the loop with the channel: `MissionLoop` extends `ControlChannel`;
- what waits on the channel, the queue of a wave and the checkpoint's list are all
  filtered lists: `Places` says what that is;
- missions, sweeps and followers on one run directory: `RunStore`, which
  implements `RunLog`;
- runs, people and sweeps on one approvals directory: `Approvals`;
- one supervisor for the step boundary and the gate of a plan step: `Supervisor`
  and `StagedTurn` share `Reviews`;
- a campaign is a staged turn with parts exchanged: `Campaign` extends
  `StagedTurn`, and either may pick up what the other left on the disk; both
  implement `PlanLog` through the checkpoint;
- bridges, the loop and dispatches over one registry: `McpPlane` extends
  `ToolBus`;
- a run and the process that carries it on: `Rebuild`, over the records the loop
  writes;
- a run, its log, the server and a client: `EventServer`, through
  `AguiTranslator`.

## 2. Plan

| order | module | models | composes | status |
|---|---|---|---|---|
| 1 | `RunLog` | what a run directory promises | - | done |
| 2 | `RunStore` | the directory, its files and processes | implements `RunLog` | done |
| 3 | `Approvals` | the approvals directory and its writers | - | done |
| 4 | `ControlChannel` | the channel | - | done |
| 5 | `MissionLoop` | one mission | extends `ControlChannel` | done |
| 6 | `Reviews`, `Supervisor` | signals, thresholds, review budget | - | done |
| 7 | `PlanLog`, `StagedTurn` | waves, gates, redraws, checkpoints, resume | `Reviews`; implements `PlanLog` | done |
| 8 | `Campaign` | approval of a plan, waves of equal scopes, files handed on | extends `StagedTurn`; implements `PlanLog` | done |
| 9 | `Rebuild` | what the loop writes, and the fold from a log to a resumption | - | done |
| 10 | `ToolBus`, `McpPlane` | registry, grants, dispatch; fleet, sessions, bridges | `McpPlane` extends `ToolBus` | done |
| 11 | `Kernel` | the phase machine with checkpoint, rollback and patches | - | done |
| 12 | `AguiTranslator`, `EventServer` | a run watched over HTTP | `EventServer` extends `AguiTranslator` | done |
| 13 | `Branches` | children's step numbers and records on one stream | with 7 | left |
| 14 | `Worktree` | the git worktree and the state file that remembers it | with 11 | left |

The abstract specifications are `RunLog` and `PlanLog`: the two things written
down for a process that comes later. What an approval promises is short enough
to be stated as properties.

`Branches` and `Worktree` are left: the first would show that records of a wave
may reach the stream out of the order of their numbers (`run.py:1155` allocates
under a lock and emits outside it), where the comment promises a number of its
own for each step and no order; the second is one process and one file, whose
one hazard (a crash between `git worktree add` and the state file,
`patch/worktree.py:98`) leaves a directory behind that nobody removes.

## 3. The modules

### RunLog: what a run directory promises

A sequence of numbered records in stretches: `Claim` opens one, `Emit` adds to
it, `Finish` ends it, `Lapse` is a process that is gone without an ending, and
`CloseOrphan` ends from outside a log without any. Nothing follows a conclusion.

### RunStore: the directory, file access by file access

Variables: the files (`log`, `torn`, `lastSeq`, `quiet`), the kernel's lock, the
claims (`mark`), and for each process a place `pc`, the record it is appending
and the `last_seq` it has read. One run directory, any number of *missions*
(processes that create or resume this run) and *sweepers* (processes starting
another mission).

| action | code |
|---|---|
| `Create`, `Admit` | `RunStore.create`; `open_for_resume` |
| `Watermark`, `TakeLock`, `Release` | `RunHold.__init__`, `_take`, `release` |
| `Emit`, `Check`, `Number`, `Write`, `Stamp` | `append`: `_refuse_second_ending`, the read of `last_seq`, `fsync_append`, the rewrite of `meta.json` |
| `TouchRead`, `TouchWrite` | `touch` by the heartbeat, and every other rewrite of `meta.json` |
| `Sweep`, `Probe`, `Scan`, `MergeRead`, `MergeWrite` | `reconcile_orphans` |
| `WindowPasses`, `Die` | the clock; a kill |
| `Follow` | one turn of `follow` (`since` and the cursor) |

A record is abstracted to what anybody reads of it: the opening frame, a step,
an ending that can be resumed, an ending that cannot. `StoreFree` is the RLock.
A death that tears a line leaves `torn`; the next line is glued to it and
neither parses. The switches `Overlap`, `DiesInAppend` and `TornWrites` are the
accidents; a run says which it admits.

### Approvals

A store operation is `Begin` (read and check) and `Commit` (write); with
`Overlap` operations of different processes interleave. `Ask`, `Answer`,
`Answered`, `GiveUp`, `SpendAnswer`, `Spent`, `Dispatch` follow a gated call
through `_gate` and `_record_decision`; `StartWith`, `SpendTicket`, `CallAgain`
follow a ticket; `Decide`, `Decided` the person; `CloseOrphan`, `List`,
`Withdraw`, `Withdrawn` the sweep of `cli.py`. `CallAgain` under `Parallel` is a
sibling of a wave that finds the shared ticket flagged. Names of tools,
arguments and notes are left out: one gated tool. Note that `List` carries only
the runs this sweep has just closed, as `_reconcile_approvals` does.

### Places

What a Python comprehension with an `if`, or a `pop(i)`, leaves of a list: the
elements at some of its places (`Among`), with how many of them come up to a place
(`Upto`) and which is the n-th (`Nth`). `ControlChannel`, `StagedTurn`,
`Campaign` and `Rebuild` filter with it. It says the same as `SelectSeq`, by counting where that
recurses, and a fact about it can then be proved for lists of any length.

### ControlChannel and MissionLoop

`queue` and `held` are the channel's two lists; `Poll`, `PollCancelStep`, `Seek`
and `Take` its three ways of draining. The operator's k-th instruction is the
number k, so an order, a loss or a repetition shows in `shown`.

In `MissionLoop` a label of `pc` is a place where another actor can act: the
step boundary (`top`, `steer`), the request (`model`), each call of the reply
(`call`), the gate (`propose`, `gate`, `nap`), the last checks and the tool
(`stopcheck`, `lastcheck`, `dispatch`, `tool`), the answer (`judge`, `verdict`)
and the way out (`reflect`, `finish`, `over`). `run` holds what the loop carries
between steps. What the model replies, what the supervisor and the critic say,
and whether a tool or a store fails are choices. Both protocols are modelled
(`native`), and a run with a step ceiling as well as one without.
`Interrupted` is the cancellation of the task at an await; `CriticAnswers` is
the worker thread, which nothing stops once it has started.

Left out of the loop: children of a staged turn, compaction of the prompt,
relearning the tool plane, cognition, the texts.

### Reviews and Supervisor

An act is a call and its result, each a model value, as the code compares
digests. A run in `Loops` repeats a pattern for ever; the free run does as it
likes. `EvidenceIsUsedOnce` reads the history variables `asked` and `answered`.

| action | code (`supervisor.py`) |
|---|---|
| `SawCall`, `SawRejection` | `saw_call`, `saw_rejection` |
| `Look`, with `Turn` and `TurnIsDone` | `look` at a step boundary, and the words it returns to the loop |
| `ReviewGate`, `NextChild` | `review_gate`, called by a staged turn for a failed gate, and the step that is run after it |
| `OutOfReviews`, `Ask`, `Reviewed`, `MoveFloor` | `_review`: no review left, the request, the reply with its refund and raised threshold, the floor below which evidence is spent |
| `Repeated`, `Rejected`, `Alternates`, `Stale`, `Frozen` | the five signals of `_signal`; `failed_gate` is the sixth |

### PlanLog, StagedTurn and Campaign

`PlanLog` is what the checkpoint promises a restart: one plan at a time, a list
of settled steps that only grows, each step once under its plan and after what
it needs. `StagedTurn` is `swarm.py` with a child reduced to the turns it spends
and how it ends (`MissionLoop` is about what goes on inside). What the router,
the planner, the gate's model and the synthesizer say is a choice.

| action | code |
|---|---|
| `GoesDirect`, `DrawsPlan`, `DirectEnds` | `_arun`, `_staged`, `_direct` |
| `StartWave`, `ChildEnds`, `ChildRaises`, `Gathered` | `_work_through` and `_execute_step`: the wave, its members, `gather` and what it propagates |
| `BoundaryReview`, `GateReview` | the one supervisor, asked by a child's loop and by a step's gate |
| `Settle` | `_settle` with its checkpoint |
| `Redraws`, `Drops` | `_redraw`; the steps dropped because what they need failed |
| `Synthesizes`, `Closes` | `_synthesize`; the `finally` of `_arun`, and the cancellation of the tasks that are left when `asyncio.run` returns |
| `StopArrives`, `Dies`, `Resumes`, `ResumesDirect` | clock and switch; a kill; `resume.py`: from the checkpoint, or without one |

A member of a wave that raises ends the gather and the turn, not its siblings:
they are `Adrift`. They go on while the turn closes; `asyncio.run` then cancels
each once and waits for it (`run.py:1578`), `Run.arun` takes the cancellation for a
stop and returns (`run.py:3063`), and `_execute_step` goes on to the gate with it,
whose reviewer may nudge it into another attempt, which nobody cancels. A death
lets go of the run's lock and ends them with their process; nobody resumes while
they hold it.

`Campaign` takes the router, the planner and the redraw out and puts in:

| action | code |
|---|---|
| `SaysYes`, `DeclinesToAsk`, `SpendsTicket`, `TicketIsSpent`, `EditsPlan`, `AwaitsApproval`, `StoppedUnasked` | `_approve`, `_reviewed`, `_ticket_matches` and the early returns of `arun` |
| `Remembers`, `Begins` | `campaign_meta` and the adoption of the plan, which are two writes |
| `CampaignWave`, `StartCampaignWave`, `CampaignGathered` | `_wave` (steps of equal scopes), `_execute_step`, `_handoff_out` |
| `HandsIn`, `WritesExport`, `HandsOut` | `campaign/handoff.py`; a child's tool writing an export; the export gate |
| `ResumesCampaign`, `ResumesHalfWritten`, `ResumesOther` | `resumed_campaign` and the choice of runner in `cli.py`, `_mission` |
| `Valid`, `Acyclic`, `Toposort`, `AsPlanSteps` | `campaign/validator.py`, `_as_plan_steps` |

Left out: templates, personas, vocabulary, safe file names and lengths, how a
plan is drafted (any proposal may be), the intersection of scopes (a step simply
has a set), `StepSessionManager`, files an earlier campaign left behind. An
approval that cannot be read is `AwaitsApproval`, which may always happen. A
tool writes only its own step's exports and files are never removed.
`LosesWrites` is the failed write of `campaign_meta` and nothing else. That the
steps of a wave have the same scopes is how `CampaignWave` picks them, so it is
not stated as a property.

### ToolBus and McpPlane

No lock protects the two dictionaries of the bus, a bridge or the grants, so a
step is one read or one write of something shared.

| action | code |
|---|---|
| `Dispatch`, `Bind`, `Execute` | `dispatch` on a worker thread: descriptor, executor, the scopes checked and the call |
| `Collect`, `Find`, `Consume` | `capability.py`: lapsed grants dropped, a grant looked for, and the grant for one invocation taken |
| `Describe`, `Wire`, `Undescribe`, `Unwire` | the two writes of `register` and of `unregister` |
| `Notified`, `Answered`, `Fails`, `Adopted` | `tools/list` after a notification: asked on the session's thread, answered, failed or adopted into the cache |
| `Enters`, `FirstWrite`, `SecondWrite`, `Compares`, `Records` | `McpToolBridge.sync` |
| `Connects`, `Serves`, `Stops`, `Withdraws`, `Disconnects`, `Stopped` | the fleet's start and stop, each client's session, `withdraw` |
| `Boundary` | `resync` at a step boundary |
| `Changes`, `TimePasses` | a server that offers something else; the time of a timed grant |

Abstractions: one re-list by notification at a time for a client; the timeout of
the join on stop is ignored; the read of a descriptor and the `in` that precedes
it are one. With `Overlap` two threads may be inside one bridge, as the code
allows; the run has one at a time.

### Kernel

One round of `Orchestrator.run` is `RunsOut` or `Begins` (the budgets, the
checkpoint before PATCH, the scopes of the phase), `Dispatched` (the role, with
`Patches` of `patch/engine.py`, `Tests` and `Scores` of `kernel/roles.py`),
`Records` (`_validate_and_record`), and `Settles` (`_select_next_phase`,
`Restored` being the rollback, `Checkpoint` its counterpart in
`sessions/manager.py`). The tree is a count of the changes made to it, an
artifact a phase and its number. Left out: the external critic, who reads and
warns; the text matching of patches; the worktree; a success without output in a
phase that has a schema.

### Rebuild

The records a direct mission writes, under either protocol, and what
`open_for_resume` makes of them. `Asks`, `RejectsReply`, `Decides`,
`RejectsCall`, `CancelsStep`, `Dispatches`, `Returns`, `Gates`, `GateRefused`,
`RepairsAnswer`, `Concludes`, `Ends` are the loop's steps with the records and
messages each appends; `Dies` may fall anywhere between them; `Resumes` is
`open_for_resume` with `TotalSteps` and `SpentSteps` for the numbers, `ReadJson`
or `ReadNative` with `Flushed` for the conversation. The properties compare the
process that was resumed with the one that died.

Left out: notes of the supervisor, news of the tool plane, compaction, an answer
given as a tool call beside others, grounding records that ask for no repair, the
sentences put in for what was lost, private receipts, and the seed of the
conversation, which each process writes afresh. A reply rejected twice as a
whole is `Ends("incomplete")`.

### AguiTranslator and EventServer

A frame is its type, what it is about, and whether a verdict rides on it. The
translator's handlers (`OnStep`, `OnCall`, `OnResult`, `OnGrounding`, `OnDelta`,
`OnAnswer`, `OnFinished`, `OnOther`) are `agui.py`'s. In `EventServer` the
mission is the records it emits (`Opens`, `BeginsStep`, `Remarks`, `Writes`,
`Calls`, `Returns`, `Judges`, `Answers`, `Finishes`, `ReportsLate`, `Dies`,
`Resumes`), of which `meta.json` is told by `Stamps`. A connection is

| action | code |
|---|---|
| `Requests` | `_events`: the slot taken, or a refusal; `Asked` is `parse_cursor` |
| `Decides` | an empty stream for a client that has the ending of a finished run, else a follow; `EndedAt` is `_ended_at` |
| `Feeds`, `Idles` | `RunStore.follow` handing over a batch, or finding nothing and, with `--reconcile`, sweeping |
| `Sends` | `Agui.feed`: the frames of a record, the id on the last of them |
| `ReadFails`, `Closes` | the `except` of `stream`; `Agui.close` |
| `Cut`, `GivesBack` | a client that goes away between two frames; `_EventStream` giving the slot back |

Heartbeat comments, the plain renderer (one frame for each record) and the
endpoints that list runs are left out. A piece of text is one record; a death
between a line and its stamp is `RunStore`'s.

Definitions named `X_Variant` are plausible slips of `X`. No action uses them;
each property is tried against one, to see that it can tell the difference.

## 4. The runs

| run | question |
|---|---|
| `runstore_serial` | Does the directory implement `RunLog`, hand a follower everything, and get an abandoned run closed, when the missions of a run come one after the other and may die anywhere but between a line and its number? |
| `runstore_races` | What is left when everything overlaps, claims fail and a death may fall between a line and its number? No hole in the numbers, no acknowledged record lost. |
| `approvals_serial` | Is a yes used by one run, every call accounted for, a person's answer kept and a dead run's question closed, when operations do not overlap? |
| `approvals_accidents` | With overlap, shared tickets and dying sweepers: is anything called without a yes? |
| `mission_steered` | An operator with two commands, two gates and replies of two calls: order of instructions, the right decision, every call answered, one call after a stop. |
| `mission_ends` | All ways a run can end: the wind-up is short, a draft is handed over, a stop always ends in `mission_finished`. |
| `supervisor` | Runs that do as they like and runs in a pattern, every reply a reviewer may give, gates that say no: are reviews bounded, is a loop wound up and a poll left alone, is evidence used once? |
| `staged_turn` | Staged turns and campaigns in waves of two, under a ceiling, with redraws, members that raise, tickets, edits, files, a stop at any moment, one death and a resume: does the checkpoint implement `PlanLog`, does a settled step stay settled, is the answer about the whole plan, is what runs what was approved, do inputs arrive, does the ceiling hold across processes and for children whose turn is over, does the turn end with nobody at work? |
| `plane` | A server whose tool has a compiled-in tool's name and which changes its list twice: is the registry the sum of its owners, does it catch up, is a grant for one call one call? |
| `kernel` | Both built-in workflows, with and without a session manager, every phase failing or not: does a session end, complete only on a tree tested as it is, and report only artifacts that are there? |
| `rebuild` | Runs under both protocols that die or stop anywhere, twice, and are resumed with or without a new ceiling: one numbering and one budget, answers under their calls, results that stay? |
| `event_server` | A mission with two calls out, repairs, a death and a resume, watched by a client cut off anywhere: do each connection's frames conform, does an id mean the whole record, is nobody left watching a run that is over? |

### Bounds, and why they are enough

**Run store.** Three missions and one sweeper (`runstore_serial`) give a run, a
resume and a resume of the resume, with both deaths in either; two deaths are
needed for a stretch to be abandoned twice. `MaxLog` bounds the steps recorded,
endings come on top: at 3 an opening frame, a step and an ending of each stretch
fit. Two missions and two sweepers (`runstore_races`) are the smallest instance
in which each kind of process races one of its own kind and one of the other;
one death suffices for a number to be left unstamped.

**Approvals.** Two requests and three runs are the smallest instance with an
asker, two carriers of the same answer and a request that is not involved.

**Mission loop.** Two commands suffice to reverse an order or to let one hide the
other; two gates for a decision to reach the wrong one; two calls in a reply for
the second to be skipped. `MissionEnds` has a ceiling of two steps beside no
ceiling at all (the step count is then not kept, so the loop is unbounded), one
repair and two continuations, so a repair can come before, between and after
continuations.

**Supervisor.** The thresholds are the smallest at which every signal differs
from the others (`Oscillates` must be even and hold two periods). A run in a
pattern is followed for 34 steps, more than `LoopBound` for the longest of the four:
once round, and then what two reviews and one refund, with their raised
thresholds, can last. A free run has
four steps and one gate that says no.

**Staged turns and campaigns.** Plans of one step, of a chain of two and of three
with a join; waves of two, so that a wave can be full, short and mixed; a ceiling
of three turns with children of up to two, so that a wave, a redraw and a resume
each can meet it; two reviews, so that a nudge is followed by a last review; one
death, which with a resume makes two processes. A proposal written out of order,
one whose first two steps may not share a wave, an edit that keeps the plan and
one that makes a cycle of it. A wave of two has a sibling to outlive a member
that raised, and two reviews send it round again after the ending.

**Plane.** One server and one dispatching thread, with three threads that may
enter the bridge; two changes, so that the second can fall inside the re-list of
the first; one timeout; a grant for one call before one that lapses. A second
server shares nothing with the first but the two dictionaries.

**Kernel.** The templates and the retries are the code's; 16 iterations leave
room for every phase to run out of its retries.

**Rebuild.** Two resumes (a stretch between two deaths), replies of two calls, two
calls a run, step numbers up to three, one repair; ceilings of none and one, and
resumes that restate none, zero or one.

**Event server.** One client and one slot: clients share nothing but the slots,
and the theorems hold for any number. Five records beside the endings, two steps,
two calls and one resume fit an opening, a step, a verdict or a piece of text with
a call beside it, and an answer, with a cut anywhere. The client has no `since`
of its own (`Since <- NoSince`): one with a `since` begins where one that was cut
off there begins, so it adds nothing to `Conforms` and `StreamsClose`, which are
about one connection, and `HasAllOfIt` is proved for every `Since`.

Symmetry is used in safety runs only, over processes (and requests) that no
definition distinguishes. Deadlock is checked in the mission runs, where a
finished run repeats `Over`. It is not checked in the others, where processes,
turns, sessions and streams really stop: once all have come and gone, or once a
turn, a session or a run is over, nothing is left to do.

### Fairness, and why the code justifies it

`RunStore`: a process that is between two file accesses goes on unless it dies,
the orphan window passes, and missions of other runs keep being started. Nobody
has to emit, resume or follow. `Approvals`: a process that began a store
operation writes, and a starting mission finishes its sweep; nobody has to ask
or answer. `MissionLoop`: the loop's own steps, the critic's thread and a gate's
window. An await comes back because each call out has a timeout or raises.
Nothing is assumed of the operator, of the deadline (a run need not have one)
or of what the model says: it may call tools for ever. `Supervisor` and `Rebuild`
have no liveness property.

`StagedTurn` and `Campaign`: the turn's own steps, taken together, go on; each is
an await that comes back or a piece of code between two, and those of a child
whose turn is over are among them, since `asyncio.run` waits for it. A stop, a death, a
person's yes and a tool that writes an export need never come. `McpPlane`: the
thread that starts and stops the fleet, the delivery of a notification, and a
thread inside a bridge go on; the loop comes to a boundary again and again
(strong fairness, since a re-list by notification may be under way whenever it
looks). Servers need not change, and nobody need call a tool. `Kernel`: one
process in a loop, which goes on. `EventServer`: a connection that is open is
served, polled or given back (`Serves`), by a worker thread of its own. The
mission need not go on, no client need come back, and a connection may be cut at
any frame.

## 5. What is proved

TLAPS proves the following for every value of the constants (any number of
processes, requests, calls, repairs, commands, and every bound).

**RunStoreProofs.** `TypeCorrect`: `Spec => []TypeOK`, under all accidents.
`LogCorrect`: if no line is torn, `NoGap`, `StampNotAhead` and `AckedIsReadable`
hold, with overlap and with deaths between line and stamp. None of the three is
inductive. `LogInv` adds that a number any process has read off `meta.json` is
on the log (so the one it is about to write follows one that is there), that the
line of a process that has still to stamp is on the log, and where a process
that is rewriting `meta.json` can be. Since the log only grows, these survive
everybody else's steps; `Write` is the one step that has to be argued.
`AppendIsDurable` states the third by itself. The assumption on torn lines is
needed: section 6 has the counterexample.

`FollowerSeesAll` and `ImplementsRunLog` are about serial use (`Serial`: a resume
or a sweep begins when no other is half way, nobody dies between a line and its
stamp, no line is torn; section 6 has a counterexample without each), for any
number of missions, sweepers and stretches, with deaths everywhere else. Both rest
on `SerialInv`, which adds four things to `LogInv`. `OneAtATime`: who can be near
the run together; a sweeper past the age of the log is with a mission only while
it probes the lock, or with one that is leaving. `LockTellsWhoWorks`: the flock is
held exactly while a mission may still write its ending, so a sweeper that finds
it free finds either nobody or a mission whose ending is written.
`LogIsNumbered`: line n is number n, `meta.json` lags by one between a line and its
stamp and never else, and a half-done rewrite of `meta.json` (a heartbeat, a merge)
holds today's number. `EndingsInPlace`: who may rely on the log having an ending,
and who on its having none. The follower then misses nothing because its cursor
only moves to a line that is already there and numbers are never handed out twice.
For the refinement each action is shown to be one step of `RunLog` or a stutter
(`RefinesStep`, a case per action); an append of a mission is `Emit` or `Finish`
when the line is written, not when it is stamped. That the last ending decides
whether a log is concluded needs the greatest element of a set of numbers, which
is had from well-foundedness (`LeastNatural`), not from induction.

**ApprovalsProofs.** `ApprovalsTypeCorrect`. `YesBeforeCall`: nothing runs
without a yes, under all accidents; `YesInv` says that all that can still turn
into a call (an approved or spent record, a consume half done, a ticket, a run
about to call) has had its yes. `OneCallerPerYes`, `EveryCallIsSpent` and
`AnswersStand` hold where operations do not overlap and tickets are not shared
(section 6 has an instance without each). `SpendInv` is built on
`Right(r, a)`, that run r has spent, or has called under, request a: at most one
run has the right to a request, and the request then says spent.

**MissionLoopProofs.** Six properties with an invariant each. `WindUpCorrect`:
`WindInv` counts the requests since "stuck" against the repairs, and says at
which boundary a repair that lets one through is still unspent. `StopCorrect`:
`StopInv` says a call passes its last check only while nobody has asked for a
stop: a call counted as late leaves the stop asked for, so the next check hears
it, and a call not gated reaches dispatch with none counted. `CallsCorrect`:
`CallsInv` says that what is owed are the calls from the current one on, so the last one settles them all, with the
note about an ignored answer. `DraftHandedOver`: `DraftInv` says that nothing has
ended while the loop works, that a continuation never outlives the request it is
for, and that every exit settles the draft.
`InstructionsInOrder`: `InjectInv` says that the model was shown instructions 1 to
n and that what waits is `Numbered` from n + 1 to the last, each once, in order.
Whoever drains the channel for something else (`PollCancelStep`, `Take`) keeps a
list at places that hold every instruction (`NumberedAmong`); a growing list of the
numbers after n that has them all counts them (`Counts`), so what `_steer` then shows
is exactly those. `FirstDecisionOpens`: the loop reads its answer off the list of
what waits, the property off what was first decided, so `OpenInv` says that while
a run stands at a gate the two agree (`Decided`), and that nobody has spoken of a
gate that is not open yet; `SeekFinds` is that the loop takes the first answer to
that very gate.

**SupervisorProofs.** `SupervisorTypeCorrect`. `ReviewsBounded`: the reviews made
are at most the budget and the refunds, because what is left and what was given
back are counted on one account. `EvidenceUsedOnce`: the marks of a review are on
the history, and what a signal needs lies after the last mark, however often the
thresholds were raised. `PollingLeftAlone`: `Placed` says that the acts of a step
are acts of the turn, and of different steps at different places of it. Where no
result came twice, a repetition would need one result at two places, a rejection or
a frozen frontier a step without an act, and a stale one a result seen before, so
what is left is the alternation of calls. `NoEcho`, that no result is the digest of
a call that was made, is a hypothesis because the code keeps both in one set of
digests: a result that equals a call would count as seen before.
`LoopsAreWoundUp` bounds the run that goes round a pattern with no state read and no
gate reviewed, for every pattern, by its length, `StaleSteps`, the budget and the
refunds. `InPattern` says that what the run
has done is its pattern, so after the first round, and `StaleSteps` times the raises
after the last review, a step boundary finds the signal stale (`PatternGoesStale`);
nothing but a review or the end follows. `Rising` counts these
stretches: there is no refund for a frontier nobody reads, a threshold is raised no
more often than there were reviews, and so n reviews last n(n + 1)/2 times
`StaleSteps` at most. No review left, the same boundary ends the run.

**PlaneProofs.** `PlaneTypeCorrect`. `PlaneHasNoStrays`, where two threads are not
inside one bridge: `Settled(s)` is the account of one bridge as the thread inside
it sees it, with the write it has half done; outside a sync it says that bus and
bridge agree, which is the property. `PlaneOneCall`, with one dispatching thread:
`Spent` says that a grant that was called under is gone and no dispatch holds it
any more.

**RecoveryProofs** is about two parts that go back to something written down: a
kernel session to its checkpoint, and a run to its log. `KernelTypeCorrect`, which includes that no budget is overrun.
`KernelCompletedIsTested`: `TestedInv` follows the report and the tree from RUN to
the end. It holds for every template that satisfies `TemplateAssumption`: where
one tests at all, the way to COMPLETED is PATCH, CRITIQUE, RUN, FINALIZE, each
recorded. `KernelFinalReportIsOnDisk`: a rollback takes artifacts away that the
state still names, so `DiskInv` says that the checkpoint holds all that is named
except by PATCH, CRITIQUE and RUN, and that each of these has its artifact back
before the next begins.

The part about `Rebuild` proves what a resumed run keeps, for any number of
deaths, resumes, calls, repairs and restated ceilings: `RebuildOneRunOneBudget`,
`RebuildAnswersAreTheirCalls` and `RebuildResultsStay`. None is inductive by itself,
since a resume throws the process away and makes another one from the log; what
has to be known at a death is what the log says. So the invariant `Kept` is about
`told`, the log read as `rebuild` reads it, with the turn it is in the middle of not
yet flushed. `ToldGrows` makes that a quantity one can follow: the reading of a
log that is one record longer is the reading of the log, and that record read. Beside
it `Kept` has four parts. `Counted`: the steps on record are numbered from 0 to the
process's step, and the repairs on record are those it has spent; the ceiling is what
the records say. `Spoken`: the conversation of the process is well paired, what it
has left to do is declared there, and nothing of it is answered yet. `Retold`: so is
the reading (`Ready`), which stands at the step and the repairs of the process
and has, for the open turn, an answer to every call but the one being made. `Shown`:
the store, the results in the conversation, the store of the reading and the results it
would tell are the same list. Each kind of record keeps a reading `Ready`
(`ReadyStep`, `ReadyCall`, ...), a flush puts the answers under their calls
(`FlushKeeps`), and so what a resume reads back (`BackReady`, `RebuiltIs`) is what the
process that died had. That a call was dropped, refused or cut off in the middle is
what `Retold` is needed for: the stream has gaps there, and an answer is told from its
place in the turn.

**CampaignProofs.** `CampaignPlanWasRead`, where the record can be written:
`ReadInv` says there is no checkpoint and no wave without the plan on record, and
no plan on record without a yes to that plan.

The other five hold of staged turns and campaigns alike, for any plans and
proposals, waves of any width and any number of deaths, and rest on one invariant
of the turn, `CampInv`. `OnDisk`: the checkpoint holds the plan, the settled list
and the redraw the process works from, whichever process wrote it. `Written`: the results in hand
are what the settled list says. `Gather`: the wave and where its children are; plan,
queue and wave name no step twice. `Fresh`: what is queued is neither under way nor
settled under the plan in force. `Recorded`: the plan of a campaign is the
approved proposal, sorted. Beneath it are facts about the model's lists, none of
which the induction theorems give here (see below):

- a filtered list is a list of the chosen elements, each once (`AmongThese`,
  `AmongOnce`, `WithoutList`), by counting places;
- a fold over a list exists and has the value of its last step
  (`FoldExists`, with `CountUp`: a set of numbers that holds 0 and with each number
  its successor holds all up to a bound, from the least number that is not in it);
- `toposort` returns every step at most once, and of a valid plan that names no
  dependency twice every step, after those it needs (`ToposortLine`): what is placed
  or ready to be owes nothing, and paying one off puts a step in line when it owed
  one. A step owes what it needs less what is placed (`Kahn`), so were steps left at
  the end, one that needs none of the others would owe nothing and be in line
  (`AllPlaced`). What runs is then the proposal's steps, each once (`SortedIsList`),
  in an order they can run in (`SortedInOrder`);
- what a wave of children spends, counted over any list of them, changes by one
  child's spending (`SpentRuns`, `SpentMore`, `SpentNone`).

`SettledIsNotRunAgain` follows from `Fresh`, since what starts came off the queue.
`OneCeiling`: `Accounted` says that between waves what is left is what the log
leaves of the ceiling, and that in a wave the turns on the log are those before it
and what its children have spent, none more than was left when it began; it holds
after the turn has closed too (`ClosesOver`: who is cancelled keeps what it spent),
so the ceiling bounds children that are adrift. `AnswerIsWhole`: `UnderPlan` says that what is settled of the plan in
force was settled under it, so a result found by name is a result of this plan. `InputsAreThere`: `Delivered` says that a step
that passed has left all it owes in the directory of the session that is open, and
`_handoff_in` looks there.

`CheckpointKeepsItsPromise` is the refinement: what every step of a campaign, in
whichever process, does to the checkpoint is a step of `PlanLog` or none
(`PromiseStep`, by what happens to `meta.json`: `BeginKeepsPromise`,
`SettleKeepsPromise`, `RedrawsKeepsPromise`, `ResumesKeepsPromise`; every other action
leaves it alone). `PlanLog` settles a step after those it needs,
which neither the checkpoint nor `OnDisk` shows, so `InTurn` follows the order through
the queue: `Ordered` says that a queued step's needs have a result, are out, or are
queued before it, and that no two steps of a wave need one another (`ReadyIsChosen`);
`Folded`, that what a wave has handed back is among the results as its child ended;
`Pending`, that what it has not is not settled yet.

The hypotheses: `NoPlanIsNone`, that the value for "no checkpoint" is not a
checkpoint; `~NamesAgain` for `AnswerIsWhole`, that a redrawn plan takes no settled
step's name; `EditsKeepIds` for `InputsAreThere`, that a legal edit has the id of
the proposals there are; for `CheckpointKeepsItsPromise` also `~NamesAgain`,
`OnceNamed`, that no step of a legal proposal names a dependency twice, and
`NoPlanIsNoList`, that the value for "no plan" is not a list. Section 6 has the
counterexample where a name is taken again, where an edit changes the id and where a
dependency is named twice, as it has for `PlanWasRead` where the record can be lost.

**EventServerProofs.** `ServerTypeCorrect`, which includes that the slots counted
are the connections that are open. `ClientHasAllOfIt`: `ServerInv` says that a
client has the whole of every record from where it started up to its last id, and
up to its connection's cursor but for the one that is still on its way; `FeedSpeaks`, that
every record becomes at least one frame, is what makes the id of a record
reach a client at all. `StreamsConform`: one says of a list of frames that it leads
from one pane (the run open, the step, the text and the calls that are open) to
another, each frame where it may come. `StreamInv` says that what a connection has
sent leads to the pane that is drawn, and that what is on its way leads on from
there to the pane of what the translator remembers. `FeedTells` has a case for each
kind of record; it needs of the log only that a call's number is used once and that
what returns was called (`CallLog`), and that a log only grows.

Assumptions on constants are the named ASSUMEs of the modules
(`SwitchesAssumption`, `ActorsAssumption`, `ChannelAssumption`,
`LoopAssumption`, `SupervisorAssumption`, `StagedAssumption`,
`CampaignAssumption`, `BusAssumption`, `PlaneAssumption`, `KernelAssumption`,
`TemplateAssumption`, `RebuildAssumption`, `ServerAssumption`): sets of processes
are disjoint, bounds are natural numbers, a template's edges lead to its phases.
TLC evaluates them in every run.

### Only model-checked

- The liveness properties (`OrphanIsClosed`, `DeadQuestionsClose`,
  `StopIsHeard`, `WorkCloses`, `CatchesUp`, `SessionEnds`, `StreamsClose`):
  liveness under fairness and ENABLED are outside the prover.
- The type invariants of `MissionLoop`, `StagedTurn`, `Campaign` and `Rebuild`, which
  are found true on the instances of the runs; no run is kept for them. Every other
  safety property that a run checks is a theorem.
- Induction over data is out of reach as such: the library's theorems about it take
  an operator as a parameter, which the installed provers cannot instantiate.
  Filters and folds over lists are proved about without it, by counting places from
  the least number on.

The type invariants of `RunStore`, `Approvals`, `Supervisor`, `McpPlane`, `Kernel`
and `EventServer` are proved rather than run.

## 6. Disagreements found while modelling

Each is a property that is defined beside the others and false of the code as it
is. The runs assume the accident away, by the constant named, or leave the
property out; with the constants given here TLC shows the counterexample. What
the code says of itself is cited after "against".

**`RunStore`**, with `Missions = {m1, m2}`, `Sweepers = {s1}`, `MaxLog = 3`,
`MaxDeaths = 1`, `Overlap = FALSE`:

- `FollowerMissesNothing`, `DiesInAppend = TRUE`, `Followed = TRUE`: a death
  between line and stamp lets the number be handed out again, and a follower past
  it skips a record (`durable.py:742` against 39 and 441).
- `AckedIsReadable`, `TornWrites = TRUE`: the first line after a torn one is glued
  to it and lost, though its append returned (`durable.py:259` against 31-33).
- `EveryStretchCloses` under `FairSpec`: a run that was resumed and died again is
  never closed; the sweep sees the ending of the earlier stretch
  (`resume.py:1231` against 1148-1150).

**`Approvals`**, with two requests, two runs, one decider, one sweeper:

- `OneRunPerYes`, `Overlap = TRUE`: two processes with the same approval both call
  (`approvals.py:389` against 43-44).
- `OneRunPerYes`, `Parallel = TRUE`: a ticket flagged before the store agreed lets
  a sibling of the wave call under a yes another run used (`approvals.py:527`
  against `run.py:3845-3849`).

**`MissionLoop`**, with one command, gate, step and call, no repair and no
continuation: `AnswerKeepsItsWord`. A task cancelled during reflection ends
incomplete after its answer record said answered (`run.py:3310` against 3277).

**`Supervisor`**, with `Acts <- FreeActs`, `Readings <- AlwaysOwing`,
`Loops <- RepeatsOne`, `Repeats = 3`, `RepeatWindow = 2`, `Rejections = 3`,
`StaleSteps = 4`, `FrozenSteps = 5`, `Oscillates = 4`, `MaxReviews = 3`,
`ReviewRefunds = 2`, `MaxActs = 1`, `MaxFree = 4`, `MaxLooped = 90`,
`MaxGates = 0`: `SpentBudgetCatches`. With the budget spent, a frozen frontier
says nothing but still moves the floor, so it uses up the evidence of a
repetition that would have ended the run (`supervisor.py:1039-1042` against
56-63).

**`StagedTurn`**, `MCStagedTurn` with `Plans <- ChainOnly`, `Parallel = 2`,
`MaxSteps = 0`, `MaxTurns = 1`, `MaxReviews = 2`, `MaxDeaths = 1`,
`MayStop = FALSE`:

- `NothingRunsAgainstAHole`, `Redrawn <- FreshPlans`: a step whose dependency
  failed is dropped in the process that saw it fail; one that resumes from the
  checkpoint runs it (`swarm.py:1602` against 1682-1685).
- `NothingFollowsTheEnding`, `Plans <- AllPlans`: a member raises, the turn ends,
  and its sibling, cancelled once and failed at its gate, is nudged into a whole new
  attempt after `mission_finished` (`swarm.py:1623` and 1924-1931 against
  `contract.py:459-461`, "A log whose last record is `mission_finished` is a run
  that closed").
- `AnsweredIsTheWholePlan`, `Redrawn <- SameNames`, `NamesAgain = TRUE`: a redrawn
  plan that reuses the id of a settled step has that step taken for done
  (`swarm.py:1602` against 1082-1083).

**`Campaign`**, with `StagedTurn.cfg` and `Plans <- ChainOnly`:

- `CheckpointIsAPlanLog`, `Proposals <- OnlyDoubled`, `Parallel = 1`,
  `MaxDeaths = 0`: a dependency named twice is counted twice and paid off once, so
  neither its step nor one behind it is sorted, and a step comes before what it
  needs (`validator.py:152-169` against
  `validator.py:136` and `campaign.py:328-330`).
- `InputsArrive`, `Edited <- ARename`: a plan renamed in the editor runs in the
  directory opened under the old name; the process that resumes it looks for the
  files under the new one.
- `PlanWasRead`, `LosesWrites = TRUE`: the record of the approved plan is a
  best-effort write, and who resumes without it goes on as a staged turn (against
  `campaign.py:293-295` and `cli.py:2610-2617`).
- `RecordedIsResumable`: a death between the record and the first checkpoint leaves
  a plan no one carries on (against `campaign.py:584-586`).

**`McpPlane`**, with `Granted <- JustOnce`:

- `GrantBuysACall`: a grant for one call is consumed by the check of a call that
  is then not made (`bus.py:296-302`, `capability.py:117-120`, against
  `ROADMAP.md:1777`).
- `CallsAreAnswered`: a dispatch that has read the one dictionary finds the name
  gone from the other and raises through (`bus.py:253`); with two threads so does
  the second removal of a lapsed grant (`capability.py:216-227`).
- `NothingOutlivesFleet`: a re-list under way when a bridge is withdrawn puts the
  names back (`mcp_client.py:1243` and 1248-1257, 1610).
- `OneCallPerGrant` with `Threads = {t1, t2}`: look and consumption are two steps.
- `NoStrayTool` with `Overlap = TRUE`: two syncs of one bridge
  (`mcp_client.py:1163-1165`).

**`Kernel`**, with `Kernel.cfg`:

- `NothingHalfApplied`: a patch set whose second file does not match leaves the
  first one written, and the retry may complete on top of it
  (`engine.py:132-137` against `roles.py:867`, "Both halves, or neither.").
- `ScoredWithItsOwnReport`: CRITIQUE precedes RUN, so it reads the report of the
  round before (`roles.py:1120`, 1241).

**`Rebuild`**, with `Rebuild.cfg` and `MaxInjected = 1`:

- `EveryDeclaredCallIsAnswered`: a call that died unanswered is zipped away, but
  its turn still declares it (`resume.py:1013` against 971-975).
- `InstructionsAreKept`: an operator's instruction is on the record of its step, is
  not read back from it, and is not among what is said to be lost (against
  `resume.py:43-44`, "What cannot come back is written down").
- `OneAnswer`: a run that died between its answer record and its ending answers
  again when resumed (against the comment at `resume.py:826`, which takes this
  for a gated run only).

**`EventServer`**, with `EventServer.cfg`:

- `NoBareAnswer`: a client cut off between the grounding and the answer meets a
  new translator, which has no verdict to put on the answer (against
  `agui.py`, `_on_answer`).
- `LateStreamsClose`: a grounding record written after `mission_finished` hides
  the ending from `_ended_at`, and the client that comes back is left watching
  (`server/__init__.py:302-325`). `StreamsClose`, which the run checks, is about
  logs that end with their ending.

## 7. Not modelled, and what the models do not say

- Parts without an entry in the table of section 3: see `components` in
  `PROJECT.json` for each and why.
- Where `flock` does not exist, `held` falls back to the clock. The models have
  the lock; `Held_ByClock` is the variant the refinement is tried against.
- With overlapping sweeps a log can get two endings. `runstore_races` claims
  only what survives that; the refinement is checked without it.
- A starting process that dies between closing an orphan's log and abandoning
  its questions leaves them open for ever: no later sweep sees an orphan.
  `approvals_accidents` contains the death; `DeadQuestionsClose` is checked
  without it.
- A yes that lands after the last look at the gate's queue is lost, and the run
  ends awaiting approval. The loop fails closed, which is what is checked.
- A grounding record may follow `mission_finished` when the task was cancelled
  while the critic's thread was at work. The model has it; the tests accept it.
- Time is abstracted to "the window has passed" and "the deadline is past".
- Text (prompts, rendering, redaction) and numbers in answers are not modelled:
  receipts, grounding, cognition, the memory bank, the backends, the prompts,
  evaluation and skills are functions of text, or clients of something remote, with
  no state a second actor of this program changes. What they say to the parts that
  are modelled is a choice there.
- A writer that closes without a newline has its last bytes dropped
  (`control.py:418`). Bytes are not modelled.
- Releasing a hold does not wait for the heartbeat's thread (`durable.py:418`), so
  a rewrite under way may end after the lock is let go. In `RunStore` a process
  finishes its rewrite first.
- A timed-out MCP call stays in flight on its session (`mcp_client.py:1049`). What
  becomes of a late answer is the transport's, which is external.
- Rollback is a removal of the directory and a copy of the checkpoint; a kill
  between the two is not modelled. The scopes of a phase are cleared outside a
  `finally` (`orchestrator.py:135`), so an exception the loop does not catch
  leaves the bus narrowed; in `Kernel` a role that fails is a result.
- Read from the code and not reproduced in a model: a campaign that awaits its
  approval, or was killed before it was recorded, is resumed as a direct mission
  (`cli.py:2618-2622`), and a yes spent before that death is lost with it; a file
  left in `handoff_out` by an earlier attempt passes the export gate; a step may
  name a producer it does not depend on; an edited objective is ignored; a gate
  approved inside a turn is rebuilt as the call declared twice; a ceiling restated
  on a resume is not recorded, so the next resume returns to the opening one;
  `since` wins over the last id on every reconnect; a stream whose read fails ends
  with a `TRANSPORT_ERROR` frame (`sse.py:436`) and without the translator's
  `RUN_ERROR`.
