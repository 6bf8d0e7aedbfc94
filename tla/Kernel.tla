------------------------------- MODULE Kernel --------------------------------
(***************************************************************************)
(* A kernel session: the workflow-driven loop of                           *)
(* core/kernel/orchestrator.py, with the budgets it checks, the artifacts  *)
(* and checkpoints of its session (core/sessions/manager.py), and what the *)
(* roles do that a later phase depends on (core/kernel/roles.py): PATCH    *)
(* changes the tree through the patch engine, RUN tests it, CRITIQUE       *)
(* scores it.  Everything a model or a tool says is a free choice.         *)
(*                                                                         *)
(* The tree is a count of the changes made to it; an artifact is a phase   *)
(* and its sequence number.  The external critic reads and warns and       *)
(* changes nothing the loop looks at, and is left out.                     *)
(***************************************************************************)
EXTENDS Naturals, Sequences, FiniteSets

CONSTANTS
    Workflows,          \* the templates a session may be given
    MaxPhaseRetries,    \* BudgetConfig
    MaxTotalIterations

ASSUME KernelAssumption ==
    {MaxPhaseRetries, MaxTotalIterations} \subseteq Nat

VARIABLES
    workflow,
    managed,        \* whether the session has a session manager
    phase,          \* current_phase
    at,             \* where the round is: check, dispatch, record, settle
    result,         \* the PhaseResult: whether it is a success
    iterations,     \* total_iterations
    retries,        \* phase_retries
    reason,         \* why it halted
    tree,           \* the changes made to the repository
    half,           \* whether one of them is the first part of a patch set
    report,         \* _run_report: the tree it is about, and whether it passed
    scored,         \* CRITIQUE: the tree it scored, and the report it read
    artifacts,      \* the artifacts directory
    checkpoints,    \* label -> what the directory was
    label,          \* _last_patch_checkpoint, or NoLabel
    produced,       \* state.artifacts: phase -> file
    sequence,       \* _artifact_sequence
    scopes          \* the phase the bus is narrowed to, or "" for none

outcome == <<phase, at, result, iterations, retries, reason, scopes>>
repository == <<tree, half, report, scored>>
session == <<artifacts, checkpoints, label, produced, sequence>>
kvars == <<workflow, managed, outcome, repository, session>>

-----------------------------------------------------------------------------
(* The two built-in templates (core/kernel/workflows.py): the phases in      *)
(* order, where a phase with a rule goes, what may follow what, and the       *)
(* phases whose output has a schema.                                         *)

Coding ==
    [order |-> <<"INTAKE", "CONTRACT", "REPO_MAP", "PLAN", "RETRIEVE",
                 "PATCH", "CRITIQUE", "RUN">>,
     rules |-> [RUN      |-> [ok |-> "FINALIZE", failed |-> "FIX"],
                FIX      |-> [ok |-> "PATCH", failed |-> "PATCH"],
                FINALIZE |-> [ok |-> "COMPLETED", failed |-> "COMPLETED"]],
     follows |-> {<<"INTAKE", "CONTRACT">>, <<"CONTRACT", "REPO_MAP">>,
                  <<"REPO_MAP", "PLAN">>, <<"PLAN", "RETRIEVE">>,
                  <<"RETRIEVE", "PATCH">>, <<"PATCH", "CRITIQUE">>,
                  <<"CRITIQUE", "RUN">>, <<"RUN", "FIX">>,
                  <<"RUN", "FINALIZE">>, <<"FIX", "PATCH">>,
                  <<"FINALIZE", "COMPLETED">>},
     schemas |-> {"INTAKE", "CONTRACT", "REPO_MAP", "PLAN", "RETRIEVE",
                  "PATCH", "CRITIQUE", "RUN", "FINALIZE"}]

Generic ==
    [order |-> <<"INTAKE", "PLAN", "EXECUTE", "EVALUATE">>,
     rules |-> [EVALUATE |-> [ok |-> "FINALIZE", failed |-> "PLAN"],
                FINALIZE |-> [ok |-> "COMPLETED", failed |-> "COMPLETED"]],
     follows |-> {<<"INTAKE", "PLAN">>, <<"PLAN", "EXECUTE">>,
                  <<"EXECUTE", "EVALUATE">>, <<"EVALUATE", "PLAN">>,
                  <<"EVALUATE", "EXECUTE">>, <<"EVALUATE", "FINALIZE">>,
                  <<"FINALIZE", "COMPLETED">>},
     schemas |-> {"INTAKE", "PLAN", "FINALIZE"}]

Terminal == {"HALTED", "COMPLETED"}
PhasesOf(w) == {w.order[i] : i \in DOMAIN w.order} \cup DOMAIN w.rules
               \cup Terminal
Phases == UNION {PhasesOf(w) : w \in Workflows}

\* What the templates have in common: their edges stay among their phases and
\* none of them leads to HALTED, which is a halt's; and in one that tests, the
\* way to COMPLETED is PATCH, CRITIQUE, RUN, FINALIZE, each recorded, where a
\* RUN that failed goes somewhere else.
ASSUME TemplateAssumption ==
    \A w \in Workflows :
        /\ w.order \in Seq(STRING) /\ w.order # << >>
        /\ Head(w.order) \notin Terminal
        /\ \A e \in w.follows : e[1] \in PhasesOf(w)
                               /\ e[2] \in PhasesOf(w) \ {"HALTED"}
        /\ "RUN" \in PhasesOf(w) =>
              /\ Head(w.order) \notin {"CRITIQUE", "RUN", "FINALIZE"}
              /\ \A e \in w.follows :
                    /\ e[2] = "CRITIQUE" => e[1] = "PATCH"
                    /\ e[2] = "RUN" => e[1] = "CRITIQUE"
                    /\ e[2] = "FINALIZE" => e[1] = "RUN"
                    /\ e[2] = "COMPLETED" => e[1] = "FINALIZE"
              /\ {"PATCH", "CRITIQUE", "RUN"} \subseteq w.schemas
              /\ DOMAIN w.rules \cap {"PATCH", "CRITIQUE"} = {}
              /\ "RUN" \in DOMAIN w.rules
              /\ w.rules["RUN"].failed \notin {"RUN", "FINALIZE"}

Retried(p) == IF p \in DOMAIN retries THEN retries[p] ELSE 0
RetryRecorded_Never == UNCHANGED retries

RetryRecorded == retries' = [p \in DOMAIN retries \cup {phase} |->
                                Retried(p) + (IF p = phase THEN 1 ELSE 0)]

-----------------------------------------------------------------------------
NoLabel == << >>
NoReport == [tree |-> 0, passed |-> TRUE]

KernelInit ==
    /\ workflow \in Workflows
    /\ managed \in BOOLEAN
    /\ phase = Head(workflow.order)
    /\ at = "check" /\ result = FALSE
    /\ iterations = 0 /\ retries = << >> /\ reason = "" /\ scopes = ""
    /\ tree = 0 /\ half = FALSE
    /\ report = NoReport /\ scored = [tree |-> 0, read |-> 0]
    /\ artifacts = {} /\ checkpoints = << >> /\ label = NoLabel
    /\ produced = << >> /\ sequence = 0

\* halt, and the scopes cleared on the way out.
Halt(why) ==
    /\ phase' = "HALTED" /\ reason' = why
    /\ at' = "check" /\ scopes' = ""
    /\ UNCHANGED <<result, iterations, retries>>

Exhausted_OneMore(why) ==
    CASE why = "steps"   -> iterations > MaxTotalIterations
      [] why = "retries" -> Retried(phase) > MaxPhaseRetries
      [] why = "seconds" -> iterations > 0

\* check_all_budgets.  A phase has a clock once it has been entered.
Exhausted(why) ==
    CASE why = "steps"   -> iterations >= MaxTotalIterations
      [] why = "retries" -> Retried(phase) >= MaxPhaseRetries
      [] why = "seconds" -> iterations > 0

RunsOut ==
    /\ phase \notin Terminal /\ at = "check"
    /\ \E why \in {"steps", "retries", "seconds"} :
          Exhausted(why) /\ Halt(why)
    /\ UNCHANGED <<workflow, managed, repository, session>>

\* A round begins: the bus is narrowed to the phase, and the artifacts are put
\* by before a PATCH, under a label of the iteration.
Checkpoint(name) ==
    /\ checkpoints' = [l \in DOMAIN checkpoints \cup {name} |->
                          IF l = name THEN artifacts ELSE checkpoints[l]]
    /\ label' = name
    /\ UNCHANGED <<artifacts, produced, sequence>>

Begins ==
    /\ phase \notin Terminal /\ at = "check"
    /\ ~Exhausted("steps") /\ ~Exhausted("retries")
    /\ scopes' = phase
    /\ IF phase = "PATCH" /\ managed THEN Checkpoint(<<"pre_PATCH", iterations>>)
                                     ELSE UNCHANGED session
    /\ at' = "dispatch"
    /\ UNCHANGED <<workflow, managed, phase, result, iterations, retries,
                   reason, repository>>

-----------------------------------------------------------------------------
(* _execute_phase: what the role did, and a retry for a failure. *)

Dispatched(ok) ==
    /\ at = "dispatch"
    /\ result' = ok
    /\ IF ok THEN UNCHANGED retries ELSE RetryRecorded
    /\ at' = IF ok /\ managed THEN "record" ELSE "settle"
    /\ UNCHANGED <<workflow, managed, phase, iterations, reason, scopes,
                   session>>

\* PATCH: the patch set is applied file by file, in the tree; it stops at the
\* first that does not match, and what is written stays.
Patches ==
    /\ phase = "PATCH"
    /\ \/ /\ Dispatched(TRUE)
          /\ tree' = tree + 1
          /\ UNCHANGED half
       \/ /\ Dispatched(FALSE)
          /\ \/ tree' = tree + 1 /\ half' = TRUE
             \/ UNCHANGED <<tree, half>>
    /\ UNCHANGED <<report, scored>>

\* RUN: the tests' exit code decides, and the report is kept for CRITIQUE.
Tests ==
    /\ phase = "RUN"
    /\ \/ \E passed \in BOOLEAN :
             /\ report' = [tree |-> tree, passed |-> passed]
             /\ Dispatched(passed)
       \/ Dispatched(FALSE) /\ UNCHANGED report
    /\ UNCHANGED <<tree, half, scored>>

\* CRITIQUE: the change, scored with the last report there is.
Scores ==
    /\ phase = "CRITIQUE"
    /\ \/ /\ Dispatched(TRUE)
          /\ scored' = [tree |-> tree, read |-> report.tree]
       \/ Dispatched(FALSE) /\ UNCHANGED scored
    /\ UNCHANGED <<tree, half, report>>

Works ==
    /\ phase \notin {"PATCH", "RUN", "CRITIQUE"}
    /\ \E ok \in BOOLEAN : Dispatched(ok)
    /\ UNCHANGED repository

-----------------------------------------------------------------------------
\* _validate_and_record: an output that does not validate burns a retry, and
\* that of a phase with no schema is not kept.
Records ==
    /\ at = "record"
    /\ \/ /\ phase \notin workflow.schemas
          /\ UNCHANGED <<result, retries, artifacts, produced, sequence>>
       \/ /\ phase \in workflow.schemas
          /\ artifacts' = artifacts \cup {<<sequence, phase>>}
          /\ produced' = [p \in DOMAIN produced \cup {phase} |->
                             IF p = phase THEN <<sequence, phase>>
                             ELSE produced[p]]
          /\ sequence' = sequence + 1
          /\ UNCHANGED <<result, retries>>
       \/ /\ phase \in workflow.schemas
          /\ result' = FALSE
          /\ RetryRecorded
          /\ UNCHANGED <<artifacts, produced, sequence>>
    /\ at' = "settle"
    /\ UNCHANGED <<workflow, managed, phase, iterations, reason, scopes,
                   repository, checkpoints, label>>

Restored_AfterAnyRun ==
    IF phase = "RUN" /\ managed /\ label \in DOMAIN checkpoints
    THEN checkpoints[label] ELSE artifacts

\* A RUN that failed takes the artifacts back to before its PATCH.
Restored ==
    IF phase = "RUN" /\ ~result /\ managed /\ label \in DOMAIN checkpoints
    THEN checkpoints[label] ELSE artifacts

\* _select_next_phase: a rule, or the order; the same phase again on failure.
After(p) ==
    LET i == CHOOSE j \in DOMAIN workflow.order : workflow.order[j] = p
    IN workflow.order[i + 1]

Selected_WhateverTheResult ==
    IF phase \in DOMAIN workflow.rules THEN workflow.rules[phase].ok
    ELSE IF result THEN After(phase) ELSE phase

Selected ==
    IF phase \in DOMAIN workflow.rules
    THEN IF result THEN workflow.rules[phase].ok
         ELSE workflow.rules[phase].failed
    ELSE IF result THEN After(phase) ELSE phase

\* enter_phase, for a transition the table has.
Settles ==
    /\ at = "settle"
    /\ artifacts' = Restored
    /\ IF Selected = phase
       THEN /\ at' = "check"
            /\ UNCHANGED <<phase, result, iterations, retries, reason, scopes>>
       ELSE IF <<phase, Selected>> \in workflow.follows
       THEN /\ phase' = Selected
            /\ iterations' = iterations + 1
            /\ at' = "check"
            /\ scopes' = IF Selected \in Terminal THEN "" ELSE scopes
            /\ UNCHANGED <<result, retries, reason>>
       ELSE Halt("transition")
    /\ UNCHANGED <<workflow, managed, repository, checkpoints, label, produced,
                   sequence>>

KernelNext ==
    \/ RunsOut \/ Begins
    \/ Patches \/ Tests \/ Scores \/ Works
    \/ Records \/ Settles

KernelSpec == KernelInit /\ [][KernelNext]_kvars

\* The loop is one thread, and its models and tools answer or time out.
KernelFairSpec == KernelSpec /\ WF_kvars(KernelNext)

-----------------------------------------------------------------------------
(* Properties *)

KernelTypeOK ==
    /\ phase \in PhasesOf(workflow)
    /\ at \in {"check", "dispatch", "record", "settle"}
    /\ iterations \in 0..MaxTotalIterations
    /\ \A p \in DOMAIN retries : retries[p] \in 1..MaxPhaseRetries
    /\ reason \in {"", "steps", "retries", "seconds", "transition"}
    /\ (reason = "") = (phase # "HALTED")
    /\ \A p \in DOMAIN produced : produced[p] \in (0..sequence - 1) \X {p}
    /\ label = NoLabel \/ label \in DOMAIN checkpoints
    /\ at # "check" => scopes = phase
    /\ phase \in Terminal => scopes = ""

\* "Count what is on disk": whatever was rolled back on the way, when FINALIZE
\* reports, every artifact it names is in the directory.
FinalReportIsOnDisk ==
    phase = "FINALIZE" => \A p \in DOMAIN produced : produced[p] \in artifacts

\* A coding session that completes has tested the tree it leaves behind, and
\* the tests passed: nothing was written after them.
CompletedIsTested ==
    (phase = "COMPLETED" /\ "RUN" \in PhasesOf(workflow))
        => report = [tree |-> tree, passed |-> TRUE] /\ tree > 0

\* Half a patch set is never what a session calls complete.
NothingHalfApplied == phase = "COMPLETED" => ~half

\* CRITIQUE's score is about the change it scores.
ScoredWithItsOwnReport == scored.read = scored.tree

\* Whatever the roles do, a session ends.
SessionEnds == <>(phase \in Terminal)
=============================================================================
