------------------------------ MODULE Campaign ------------------------------
(***************************************************************************)
(* A campaign (core/runtime/campaign.py): a staged turn whose plan a       *)
(* person wrote and approves before any of it runs.  It is StagedTurn with *)
(* the router and the planner taken out, a person put in their place, no   *)
(* redraw, and files handed from step to step.  A run is one or the other, *)
(* and whoever resumes it finds out which from what is on the disk: the    *)
(* approved plan (campaign_meta) and the checkpoint, written one after the *)
(* other.                                                                  *)
(*                                                                         *)
(* A proposal keeps what the parent loop drops: what a step takes from     *)
(* which other step, what it owes, and the scopes it may use.  Its digest  *)
(* is the proposal itself; its id is only the name of a directory.         *)
(***************************************************************************)
EXTENDS StagedTurn

CONSTANTS
    Proposals,      \* what may be proposed: an id, and steps in any order
    Edited,         \* what a person may leave behind in the editor
    LosesWrites     \* whether writing the approved plan down may fail

ASSUME CampaignAssumption ==
    /\ LosesWrites \in BOOLEAN
    /\ NoPlan \notin Proposals \cup Edited
    /\ \A p \in Proposals \cup Edited :
          /\ p.steps \in Seq(Range(p.steps))
          /\ \A task \in Range(p.steps) : task.inputs \in Seq(Range(task.inputs))

VARIABLES
    runner,     \* what carries the run: staged or campaign
    proposal,   \* the campaign's plan, or NoPlan
    where,      \* the id its session directory was opened under, or NoPlan
    ticket,     \* the proposal an approval carried by this run is about
    said,       \* unasked, approved, or remembered: written to the record
    yes,        \* history: the proposals somebody said yes to for this run
    record,     \* the approved plan in the run's metadata, or NoPlan
    files,      \* what is in the handoff_out directories
    arrived     \* what each step of the wave found in its handoff_in

approval == <<proposal, where, ticket, said, yes, record>>
campaign == <<runner, approval, files, arrived>>
cvars == <<vars, campaign>>

-----------------------------------------------------------------------------
(* The plan: what makes one legal, and the order it runs in. *)

Needs(task) == Range(task.inputs)
Task(p, id) == CHOOSE task \in Range(p.steps) : task.id = id
Mission(id) == Task(proposal, id)

\* validate_campaign_plan.  Vocabulary, safe names and lengths are left out.
Acyclic(tasks) ==
    \A group \in (SUBSET tasks) \ {{}} :
        \E task \in group : Needs(task) \cap {t.id : t \in group} = {}

Valid(p) ==
    LET tasks == Range(p.steps)
    IN /\ Cardinality(Ids(p.steps)) = Len(p.steps)
       /\ \A task \in tasks :
             /\ Needs(task) \subseteq Ids(p.steps)
             /\ \A ref \in task.takes :
                   /\ ref.from \in Ids(p.steps)
                   /\ LET exports == Task(p, ref.from).exports
                      IN exports = {} \/ ref.name \in exports
       /\ Acyclic(tasks)

\* toposort: Kahn's algorithm with a queue.  A dependency named twice is
\* counted twice and paid off once.
Pays(paid, node, tasks) ==
    FoldLeft(LAMBDA kahn, task :
                IF node \notin Needs(task) THEN kahn
                ELSE [kahn EXCEPT
                        !.owes[task.id] = @ - 1,
                        !.ready = IF kahn.owes[task.id] = 1
                                  THEN Append(@, task.id) ELSE @],
             paid, tasks)

Toposort(tasks) ==
    LET start == [ready |-> << >>, order |-> << >>,
                  owes |-> [id \in Ids(tasks) |->
                     Len(Task([steps |-> tasks], id).inputs)]]
        roots == Among(tasks, {i \in DOMAIN tasks : tasks[i].inputs = << >>})
        begun == [start EXCEPT !.ready = [i \in DOMAIN roots |-> roots[i].id]]
        pop(kahn, any) ==
                  IF kahn.ready = << >> THEN kahn
                  ELSE Pays([kahn EXCEPT !.ready = Tail(@),
                                         !.order = Append(@, Head(kahn.ready))],
                            Head(kahn.ready), tasks)
    IN FoldLeft(pop, begun, tasks).order

\* _as_plan_steps: what the sort placed, then what it could not, in the plan's
\* own order; and of each step what the parent loop reads.
AsPlanSteps(p) ==
    LET placed == Toposort(p.steps)
        others == Without(p.steps, Range(placed))
        order == placed \o [i \in DOMAIN others |-> others[i].id]
    IN [i \in DOMAIN order |-> [id |-> order[i],
                                needs |-> Needs(Task(p, order[i]))]]

-----------------------------------------------------------------------------
CampaignInit ==
    /\ Init
    /\ runner \in {"staged", "campaign"}
    /\ IF runner = "staged" THEN proposal = NoPlan /\ ticket = NoPlan
       ELSE /\ proposal \in {p \in Proposals : Valid(p)}
            /\ ticket \in Proposals \cup {NoPlan}
    /\ where = IF runner = "staged" THEN NoPlan ELSE proposal.id
    /\ said = "unasked"
    /\ yes = {}
    /\ record = NoPlan
    /\ files = {}
    /\ arrived = Nothing

-----------------------------------------------------------------------------
(* _approve: nobody asked, a ticket, the editor, or a request on record. *)

Unasked == runner = "campaign" /\ pc = "triage" /\ said = "unasked"

SaysYes(p) ==
    /\ Unasked /\ stop = "none"
    /\ said' = "approved"
    /\ proposal' = p
    /\ yes' = yes \cup {p}
    /\ UNCHANGED <<vars, runner, where, ticket, record, files, arrived>>

DeclinesToAsk == Unasked /\ SaysYes(proposal)
TicketMatches_ById == ticket # NoPlan /\ ticket.id = proposal.id

\* _ticket_matches: by digest.
TicketMatches == ticket # NoPlan /\ ticket = proposal

\* What was said yes to is what the approval holds.
SpendsTicket ==
    /\ Unasked /\ stop = "none" /\ TicketMatches
    /\ said' = "approved"
    /\ yes' = yes \cup {ticket}
    /\ UNCHANGED <<vars, runner, proposal, where, ticket, record, files,
                   arrived>>

\* consume raises when another run used the approval first; the finally closes.
TicketIsSpent ==
    /\ Unasked /\ stop = "none" /\ TicketMatches
    /\ pc' = "closing"
    /\ UNCHANGED <<turn, gather, reviews, stop, outcome, disk, closings,
                   deaths, campaign>>

\* _reviewed: only a plan that is still legal is adopted.  The session keeps
\* the directory it was opened under.
EditsPlan ==
    \E p \in {q \in Edited : Valid(q)} : SaysYes(p)

\* No ticket, a yes to something else, an approval that cannot be read, an
\* editor that brought nothing usable: the turn holds the plan.
AwaitsApproval ==
    /\ Unasked /\ stop = "none"
    /\ outcome' = "awaiting_approval"
    /\ pc' = "closing"
    /\ UNCHANGED <<turn, gather, reviews, stop, disk, closings, deaths,
                   campaign>>

StoppedUnasked ==
    Unasked /\ Stopped({"triage"}) /\ UNCHANGED campaign

\* campaign_meta, before the first step; a checkpoint swallows its failures.
Remembers ==
    /\ pc = "triage" /\ said = "approved"
    /\ said' = "remembered"
    /\ \/ record' = proposal
       \/ LosesWrites /\ record' = record
    /\ UNCHANGED <<vars, runner, proposal, where, ticket, yes, files, arrived>>

\* _staged, on the steps of the plan as approved.
Begins ==
    /\ pc = "triage" /\ said = "remembered"
    /\ Begin(AsPlanSteps(proposal))
    /\ UNCHANGED campaign

-----------------------------------------------------------------------------
(* The steps, with their artifacts around them. *)

\* _wave: of those that may run together, those with the first one's scopes.
CampaignWave ==
    LET w == NextWave
    IN Among(w, {i \in DOMAIN w :
                     Mission(w[i].id).scopes = Mission(w[1].id).scopes})

\* _handoff_in: what the producing steps have left in their directories.
HandsIn(id) ==
    {ref \in Mission(id).takes : <<where, ref.from, ref.name>> \in files}

StartCampaignWave ==
    /\ queue # << >>
    /\ StartWaveOf(CampaignWave)
    /\ arrived' = [id \in Ids(CampaignWave) |-> HandsIn(id)]
    /\ UNCHANGED <<runner, approval, files>>

\* The child's tools write what the step owes, any of it and at any time.
WritesExport(id) ==
    /\ runner = "campaign" /\ AtWork
    /\ child[id].at \in {"running", "cancelled"}
    /\ \E name \in Mission(id).exports :
          /\ <<where, id, name>> \notin files
          /\ files' = files \cup {<<where, id, name>>}
    /\ UNCHANGED <<vars, runner, approval, arrived>>
HandsOut_OnItsWord(id, c) == c

\* _handoff_out: a step that passed and did not leave what it owes failed.
HandsOut(id, c) ==
    LET missing == {name \in Mission(id).exports :
                       <<where, id, name>> \notin files}
    IN IF c.ok /\ missing # {} THEN Back(c, FALSE, FALSE, FALSE) ELSE c

\* Nobody but the child writes there, so its files are looked at here.
CampaignGathered ==
    /\ GatheredAs([id \in DOMAIN child |-> HandsOut(id, child[id])])
    /\ arrived' = Nothing
    /\ UNCHANGED <<runner, approval, files>>

-----------------------------------------------------------------------------
(* Who carries a recorded run on is the run's fact: cli.py, _mission. *)

ResumesCampaign ==
    /\ record # NoPlan
    /\ ResumesWith(AsPlanSteps(record))
    /\ runner' = "campaign"
    /\ proposal' = record
    /\ where' = record.id
    /\ said' = "remembered"
    /\ arrived' = Nothing
    /\ UNCHANGED <<ticket, yes, record, files>>

\* The plan is on record and the checkpoint is not: the log is read back as a
\* direct run's, which is not what a campaign resumes from, and arun raises.
ResumesHalfWritten ==
    /\ Resumable
    /\ record # NoPlan /\ meta = NoPlan
    /\ pc' = "closing"
    /\ deaths' = IF pc = "closed" THEN deaths + 1 ELSE deaths
    /\ outcome' = "incomplete" /\ closings' = 0
    /\ reviews' = 0 /\ stop' = "none"
    /\ UNCHANGED <<turn, gather, disk, campaign>>

\* Everything else is a staged turn's or an ordinary mission's.
ResumesOther ==
    /\ record = NoPlan
    /\ Resumes \/ ResumesDirect
    /\ runner' = "staged"
    /\ proposal' = NoPlan /\ where' = NoPlan /\ arrived' = Nothing
    /\ UNCHANGED <<ticket, said, yes, record, files>>

CampaignSteps ==
    /\ runner = "campaign"
    /\ \/ DeclinesToAsk \/ SpendsTicket \/ TicketIsSpent \/ EditsPlan
       \/ AwaitsApproval \/ StoppedUnasked \/ Remembers \/ Begins
       \/ StartCampaignWave \/ CampaignGathered
       \/ Works /\ UNCHANGED campaign

StagedSteps == runner = "staged" /\ Steps /\ UNCHANGED campaign

CampaignNext ==
    \/ StagedSteps \/ CampaignSteps
    \/ \E id \in DOMAIN child : WritesExport(id)
    \/ (StopArrives \/ Dies) /\ UNCHANGED campaign
    \/ ResumesCampaign \/ ResumesHalfWritten \/ ResumesOther

CampaignSpec == CampaignInit /\ [][CampaignNext]_cvars

\* As for the staged turn; no child need write what it owes.
CampaignFairSpec == CampaignSpec /\ WF_cvars(StagedSteps \/ CampaignSteps)

-----------------------------------------------------------------------------
(* Properties *)

Legal == {p \in Proposals \cup Edited : Valid(p)}
Tasks == UNION {Range(AsPlanSteps(p)) : p \in Legal}

TypeOK ==
    /\ Typed(TurnSteps \cup Tasks)
    /\ runner \in {"staged", "campaign"}
    /\ {proposal, record} \subseteq Legal \cup {NoPlan}
    /\ ticket \in Proposals \cup {NoPlan}
    /\ said \in {"unasked", "approved", "remembered"}
    /\ yes \subseteq Legal
    /\ DOMAIN arrived \subseteq DOMAIN child

\* What a person reads is what runs.  No step of a campaign starts unless the
\* very plan it is of has had a yes for this run, in the process that asked
\* and in one that resumes it; and a run that got its yes as a campaign goes
\* on as one.
PlanWasRead ==
    (wave # << >> /\ (runner = "campaign" \/ yes # {}))
        => /\ runner = "campaign"
           /\ proposal \in yes /\ plan = AsPlanSteps(proposal)

\* A run that has its approved plan on record can be carried on from it.
RecordedIsResumable == (Resumable /\ record # NoPlan) => meta # NoPlan

\* A step is not left to invent its inputs: what it takes from a step that has
\* passed, and that declared it, was there when it started, whichever process
\* ran the one and the other.
InputsArrive ==
    (runner = "campaign" /\ pc = "working" /\ settled = -1)
        => \A i \in DOMAIN wave : \A ref \in Mission(wave[i].id).takes :
              (/\ ref.from \in DOMAIN results /\ results[ref.from].ok
               /\ ref.name \in Mission(ref.from).exports)
                  => ref \in arrived[wave[i].id]

\* The checkpoint keeps PlanLog's promise: seen from the disk, a turn or a
\* campaign whose processes die and whose waves run side by side settles one
\* plan's steps once each, after the steps they need, and loses none of them.
Promise == INSTANCE PlanLog WITH
    Plans   <- Plans \cup {AsPlanSteps(p) : p \in Legal},
    plan    <- IF meta = NoPlan THEN NoPlan ELSE meta.plan,
    drawn   <- IF meta = NoPlan THEN 0 ELSE meta.drawn,
    entries <- IF meta = NoPlan THEN << >> ELSE Settled(meta.done)
CheckpointIsAPlanLog == Promise!Spec
=============================================================================
