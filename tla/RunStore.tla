------------------------------ MODULE RunStore ------------------------------
(***************************************************************************)
(* One run directory of core/durable.py and every process that touches it: *)
(* the mission that is recorded in it, the later missions that --resume    *)
(* it, and the missions of OTHER runs, which sweep it for an orphan as     *)
(* they start (core/runtime/resume.py, reconcile_orphans).                 *)
(*                                                                         *)
(* The directory holds events.jsonl (log, torn), meta.json (lastSeq,       *)
(* quiet) and the flock file (lock).  A RunStore object's RLock serialises *)
(* the threads of ONE process; nothing but the flock relates two           *)
(* processes.  So a store method is one step per file access, and steps of *)
(* different processes interleave, while the mission thread and the        *)
(* heartbeat thread of one process exclude each other.                     *)
(*                                                                         *)
(* Three switches say which accidents a run of the model contains:         *)
(*   Overlap       a run is resumed, or swept, while another process is    *)
(*                 between two file accesses of a resume or of a sweep     *)
(*   DiesInAppend  a process dies after its line is on the disk and before *)
(*                 meta.json says so                                       *)
(*   TornWrites    a death in the middle of a line leaves part of it       *)
(***************************************************************************)
EXTENDS Naturals, Sequences, FiniteSets

CONSTANTS
  Missions,      \* processes that run this run, first or as a --resume
  Sweepers,      \* processes starting a mission of another run
  None,          \* no holder of the lock
  MaxLog,        \* bound: no step is recorded at this length of the log
  MaxDeaths,     \* bound: processes that die without cleaning up
  Followed,      \* a follower is attached to the run
  Overlap, DiesInAppend, TornWrites

ASSUME SwitchesAssumption ==
  /\ Missions \cap Sweepers = {}
  /\ None \notin Missions \cup Sweepers
  /\ MaxLog \in Nat /\ MaxDeaths \in Nat /\ Followed \in BOOLEAN
  /\ Overlap \in BOOLEAN /\ DiesInAppend \in BOOLEAN /\ TornWrites \in BOOLEAN

Procs == Missions \cup Sweepers

\* mission_finished is abstracted to its outcome: one the run can be picked
\* up from (incomplete, awaiting_approval) or a conclusion.
Resumable == {"incomplete"}
Concluded == {"answered"}
Endings == Resumable \cup Concluded
Records == {"started", "step"} \cup Endings

MissionPC == {"unborn", "claim", "lock", "run", "check", "number", "write",
              "stamp", "over", "leaving", "gone"}
SweeperPC == {"idle", "probe", "scan", "number", "write", "stamp", "merge",
              "mergeWrite"}

VARIABLES
  created,   \* the directory exists
  log,       \* the lines of events.jsonl that parse, in order
  torn,      \* the file ends in part of a line, with no newline
  lastSeq,   \* last_seq in meta.json
  quiet,     \* updated_at is older than the orphan window
  lock,      \* who the kernel says holds the flock
  mark,      \* RunStore._claimed: the watermark of each claim
  pc, rec,   \* where each process is, and the record it is appending
  num,       \* the last_seq each process has read off meta.json
  touching,  \* missions between the two halves of a meta.json rewrite
  deaths,    \* how many processes have died
  acked,     \* the envelopes an append has returned
  cursor, seen \* RunStore.follow: its cursor, and the lines it has yielded

disk == <<created, log, torn, lastSeq, quiet>>
follower == <<cursor, seen>>
vars == <<disk, lock, mark, pc, rec, num, touching, deaths, acked, follower>>

Envelopes == [seq : Nat, rec : Records]

PlacesOK ==
  /\ pc \in [Procs -> MissionPC \cup SweeperPC]
  /\ \A p \in Missions : pc[p] \in MissionPC
  /\ \A q \in Sweepers : pc[q] \in SweeperPC

TypeOK ==
  /\ created \in BOOLEAN /\ torn \in BOOLEAN /\ quiet \in BOOLEAN
  /\ log \in Seq(Envelopes)
  /\ lastSeq \in Nat
  /\ lock \in Missions \cup {None}
  /\ mark \in [Missions -> Nat]
  /\ PlacesOK
  /\ rec \in [Procs -> Records]
  /\ num \in [Procs -> Nat]
  /\ touching \in SUBSET Missions
  /\ deaths \in Nat
  /\ acked \in SUBSET Envelopes
  /\ cursor \in Nat
  /\ seen \in SUBSET Nat

Init ==
  /\ created = FALSE /\ log = <<>> /\ torn = FALSE /\ lastSeq = 0 /\ quiet = FALSE
  /\ lock = None
  /\ mark = [p \in Missions |-> 0]
  /\ pc = [p \in Procs |-> IF p \in Missions THEN "unborn" ELSE "idle"]
  /\ rec = [p \in Procs |-> "step"]
  /\ num = [p \in Procs |-> 0]
  /\ touching = {} /\ deaths = 0 /\ acked = {}
  /\ cursor = 0 /\ seen = {}

-----------------------------------------------------------------------------
\* Reading the log
\*
\* A definition X_Variant, here and below, is X as a plausible bug would have
\* it.  No action uses one: they are what the properties are tried against.

Holds(r) == \E i \in DOMAIN log : log[i].rec = r

EndingsAt == {i \in DOMAIN log : log[i].rec \in Endings}

\* recorded_outcome: the outcome of the last mission_finished, "none" (the
\* code's empty string) if there is none.
RecordedOutcome ==
  IF EndingsAt = {} THEN "none"
  ELSE log[CHOOSE i \in EndingsAt : \A j \in EndingsAt : j =< i].rec

EndedSince(watermark) ==
  \E i \in EndingsAt : log[i].seq > watermark

Goto(p, label) == pc' = [pc EXCEPT ![p] = label]

\* A local variable is forgotten when the method that used it returns.
Forget(p) ==
  /\ rec' = [rec EXCEPT ![p] = "step"]
  /\ num' = [num EXCEPT ![p] = 0]

\* The RLock of p's store object is free: no rewrite of meta.json is half done.
StoreFree_HalfRewrite(p) == TRUE
StoreFree(p) == p \notin touching

\* RunStore.held, asked of the kernel.
Held_ByClock == FALSE
Held == lock # None

\* What is left of p's claim once p has let go of it, or is dead.
LockWithout_Kept(p) == lock
LockWithout(p) == IF lock = p THEN None ELSE lock

MarkWithout(p) == [x \in Missions |-> IF x = p THEN 0 ELSE mark[x]]

\* The envelope p is writing, and what fsync_append makes of the file.  A line
\* written after part of a line is glued to it: neither parses, and `since`
\* skips both.
Envelope(p) == [seq |-> num[p] + 1, rec |-> rec[p]]

LogWith_Truncated(p) == <<Envelope(p)>>
LogWith(p) == IF torn THEN log ELSE Append(log, Envelope(p))

\* last_seq is stamped from the envelope that was written.
Stamped_Increment(p) == lastSeq + 1
Stamped(p) == Envelope(p).seq

-----------------------------------------------------------------------------
\* A mission comes to the run

NobodyElse(p) ==
  \A q \in Procs \ {p} : pc[q] \in {"unborn", "gone", "idle"}

\* RunStore.create, for the process that mints the run id.
Create(p) ==
  /\ pc[p] = "unborn" /\ ~created
  /\ created' = TRUE /\ quiet' = FALSE
  /\ Goto(p, "claim")
  /\ UNCHANGED <<log, torn, lastSeq, lock, mark, rec, num, touching, deaths,
                 acked, follower>>

\* open_for_resume admits the run.  It does not ask who holds it.
Admit(p) ==
  /\ pc[p] = "unborn" /\ created
  /\ Holds("started")
  /\ RecordedOutcome \in Resumable \cup {"none"}
  /\ Overlap \/ NobodyElse(p)
  /\ Goto(p, "claim")
  /\ UNCHANGED <<disk, lock, mark, rec, num, touching, deaths, acked, follower>>

\* RunHold.__init__ reads its watermark off the metadata...
Watermark(p) ==
  /\ pc[p] = "claim"
  /\ num' = [num EXCEPT ![p] = lastSeq]
  /\ Goto(p, "lock")
  /\ UNCHANGED <<disk, lock, mark, rec, touching, deaths, acked, follower>>

\* ...and only then tries the lock, best effort: a lock somebody else holds
\* leaves the claim unlocked, and the mission runs all the same.
TakeLock(p) ==
  /\ pc[p] = "lock"
  /\ lock' = IF lock = None THEN p ELSE lock
  /\ mark' = [mark EXCEPT ![p] = num[p]]
  /\ Goto(p, "run") /\ Forget(p)
  /\ UNCHANGED <<disk, touching, deaths, acked, follower>>

-----------------------------------------------------------------------------
\* RunStore.append, one step per file access

\* The mission hands the store its next record.  The opening frame goes out
\* once per run; after it come steps, and an ending out of a finally.
Emit(p, r) ==
  /\ pc[p] = "run" /\ StoreFree(p)
  /\ (r = "started") <=> ~Holds("started")
  /\ r = "step" => Len(log) < MaxLog
  /\ rec' = [rec EXCEPT ![p] = r]
  /\ Goto(p, "check")
  /\ UNCHANGED <<disk, lock, mark, num, touching, deaths, acked, follower>>

\* _refuse_second_ending.  RunClosed is caught by persist_record: the mission
\* finishes with its ending in memory and not on the disk.
Check(p) ==
  /\ pc[p] = "check"
  /\ \/ /\ rec[p] \in Endings /\ EndedSince(mark[p])
        /\ Goto(p, "over") /\ Forget(p)
     \/ /\ ~(rec[p] \in Endings /\ EndedSince(mark[p]))
        /\ Goto(p, "number") /\ UNCHANGED <<rec, num>>
  /\ UNCHANGED <<disk, lock, mark, touching, deaths, acked, follower>>

Number(p) ==
  /\ pc[p] = "number"
  /\ num' = [num EXCEPT ![p] = lastSeq]
  /\ Goto(p, "write")
  /\ UNCHANGED <<disk, lock, mark, rec, touching, deaths, acked, follower>>

\* fsync_append
Write(p) ==
  /\ pc[p] = "write"
  /\ log' = LogWith(p)
  /\ torn' = FALSE
  /\ Goto(p, "stamp")
  /\ UNCHANGED <<created, lastSeq, quiet, lock, mark, rec, num, touching, deaths,
                 acked, follower>>

\* The number goes into meta.json and the append returns.
Stamp(p) ==
  /\ pc[p] = "stamp"
  /\ lastSeq' = Stamped(p) /\ quiet' = FALSE
  /\ acked' = acked \cup {Envelope(p)}
  /\ Goto(p, IF p \in Sweepers THEN "merge"
             ELSE IF rec[p] \in Endings THEN "over" ELSE "run")
  /\ Forget(p)
  /\ UNCHANGED <<created, log, torn, lock, mark, touching, deaths, follower>>

-----------------------------------------------------------------------------
\* The heartbeat, and every other rewrite of meta.json by the same process
\* (touch, save, update_meta): read the record, write it back.

TouchRead(p) ==
  /\ pc[p] \in {"run", "over", "leaving"} /\ StoreFree(p)
  /\ touching' = touching \cup {p}
  /\ num' = [num EXCEPT ![p] = lastSeq]
  /\ UNCHANGED <<disk, lock, mark, pc, rec, deaths, acked, follower>>

TouchWrite(p) ==
  /\ p \in touching
  /\ lastSeq' = num[p] /\ quiet' = FALSE
  /\ touching' = touching \ {p}
  /\ Forget(p)
  /\ UNCHANGED <<created, log, torn, lock, mark, pc, deaths, acked, follower>>

\* RunHold.release, then the end of the process.  The heartbeat thread is
\* told to stop and not waited for, so one more touch may follow the release.
Release(p) ==
  /\ pc[p] = "over" /\ StoreFree(p)
  /\ lock' = LockWithout(p)
  /\ mark' = MarkWithout(p)
  /\ Goto(p, "leaving")
  /\ UNCHANGED <<disk, rec, num, touching, deaths, acked, follower>>

Exit(p) ==
  /\ pc[p] = "leaving" /\ StoreFree(p)
  /\ Goto(p, "gone")
  /\ UNCHANGED <<disk, lock, mark, rec, num, touching, deaths, acked, follower>>

-----------------------------------------------------------------------------
\* reconcile_orphans, run by a process that is starting some other mission

\* The clock filter: a run whose metadata moved inside the window is skipped.
Sweep(q) ==
  /\ pc[q] = "idle" /\ created /\ quiet
  /\ Overlap \/ (/\ \A p \in Missions : pc[p] \notin {"claim", "lock"}
                 /\ \A r \in Sweepers : pc[r] = "idle")
  /\ Goto(q, "probe")
  /\ UNCHANGED <<disk, lock, mark, rec, num, touching, deaths, acked, follower>>

\* RunStore.held: a held run is left alone.
Probe(q) ==
  /\ pc[q] = "probe"
  /\ Goto(q, IF Held THEN "idle" ELSE "scan")
  /\ UNCHANGED <<disk, lock, mark, rec, num, touching, deaths, acked, follower>>

\* A run with any ending on its log is not an orphan.  Otherwise the sweeper
\* appends one; it has claimed nothing, so no watermark refuses it.
Scan(q) ==
  /\ pc[q] = "scan"
  /\ \/ /\ RecordedOutcome # "none"
        /\ Goto(q, "idle") /\ UNCHANGED rec
     \/ /\ RecordedOutcome = "none"
        /\ Goto(q, "number") /\ rec' = [rec EXCEPT ![q] = "incomplete"]
  /\ UNCHANGED <<disk, lock, mark, num, touching, deaths, acked, follower>>

\* update_meta(orphaned_at=...)
MergeRead(q) ==
  /\ pc[q] = "merge"
  /\ num' = [num EXCEPT ![q] = lastSeq]
  /\ Goto(q, "mergeWrite")
  /\ UNCHANGED <<disk, lock, mark, rec, touching, deaths, acked, follower>>

MergeWrite(q) ==
  /\ pc[q] = "mergeWrite"
  /\ lastSeq' = num[q] /\ quiet' = FALSE
  /\ Goto(q, "idle") /\ Forget(q)
  /\ UNCHANGED <<created, log, torn, lock, mark, touching, deaths, acked, follower>>

-----------------------------------------------------------------------------
\* The environment

\* The orphan window (a minute at least) passes with no write to meta.json.
\* The few file accesses between creating a run and holding it do not last
\* that long.
WindowPasses ==
  /\ created /\ ~quiet
  /\ \A p \in Missions : pc[p] \notin {"claim", "lock"}
  /\ quiet' = TRUE
  /\ UNCHANGED <<created, log, torn, lastSeq, lock, mark, pc, rec, num, touching,
                 deaths, acked, follower>>

\* A process is killed: the kernel drops its lock, its memory is gone.  Killed
\* while it writes a line, it may leave part of the line.
Die(p) ==
  /\ pc[p] \notin {"unborn", "gone", "idle"}
  /\ pc[p] = "stamp" => DiesInAppend
  /\ deaths < MaxDeaths
  /\ deaths' = deaths + 1
  /\ lock' = LockWithout(p)
  /\ mark' = MarkWithout(p)
  /\ touching' = touching \ {p}
  /\ torn' \in {torn} \cup (IF TornWrites /\ pc[p] = "write" THEN {TRUE} ELSE {})
  /\ Goto(p, IF p \in Missions THEN "gone" ELSE "idle") /\ Forget(p)
  /\ UNCHANGED <<created, log, lastSeq, quiet, acked, follower>>

\* One turn of RunStore.follow: every line numbered above the cursor, and the
\* cursor at the highest of them.
Unread == {i \in DOMAIN log : log[i].seq > cursor}

Follow ==
  /\ Followed
  /\ seen' = seen \cup Unread
  /\ \E i \in Unread :
       /\ \A j \in Unread : log[j].seq =< log[i].seq
       /\ cursor' = log[i].seq
  /\ UNCHANGED <<disk, lock, mark, pc, rec, num, touching, deaths, acked>>

AppendStep(p) == Number(p) \/ Write(p) \/ Stamp(p)

MissionStep(p) ==
  \/ Watermark(p) \/ TakeLock(p)
  \/ \E r \in Records : Emit(p, r)
  \/ Check(p) \/ AppendStep(p)
  \/ TouchRead(p) \/ TouchWrite(p) \/ Release(p) \/ Exit(p)

SweeperStep(q) ==
  Sweep(q) \/ Probe(q) \/ Scan(q) \/ AppendStep(q) \/ MergeRead(q) \/ MergeWrite(q)

Next ==
  \/ \E p \in Missions : Create(p) \/ Admit(p) \/ MissionStep(p)
  \/ \E q \in Sweepers : SweeperStep(q)
  \/ \E p \in Procs : Die(p)
  \/ WindowPasses
  \/ Follow

Spec == Init /\ [][Next]_vars

\* Processes run, the window passes, and missions of other runs keep being
\* started, so that somebody sweeps.  A mission need not emit, nobody need
\* resume, and nothing need die.
Fairness ==
  /\ WF_vars(WindowPasses)
  /\ \A q \in Sweepers : WF_vars(SweeperStep(q))
  /\ \A p \in Missions :
       WF_vars(Watermark(p) \/ TakeLock(p) \/ Check(p) \/ AppendStep(p)
               \/ TouchWrite(p) \/ Release(p) \/ Exit(p))

FairSpec == Spec /\ Fairness

-----------------------------------------------------------------------------
\* Properties

\* A stretch: claimed, and its ending not written yet.
Working(p) ==
  \/ pc[p] \in {"run", "check", "number", "write"}
  \/ pc[p] = "stamp" /\ rec[p] \notin Endings

RunLogOf == INSTANCE RunLog WITH
  Body <- {"started", "step"},
  Orphaned <- "incomplete",
  entries <- log,
  stretch <- IF \E p \in Missions : Working(p) THEN "open" ELSE "closed"

\* The directory keeps the promise of RunLog: consecutive numbers, one ending
\* per stretch, nothing after a conclusion, and an orphan closed only while
\* nobody is working on the run.
RefinesRunLog == RunLogOf!Spec

\* A follower that was handed a record was handed every earlier one: no record
\* is passed over because its number had been given out before.
FollowerMissesNothing == \A i \in seen : 1..i \subseteq seen

\* A run whose process died without an ending is closed by somebody's sweep,
\* or picked up again: no follower waits for ever on a first stretch.
Abandoned ==
  /\ created /\ EndingsAt = {}
  /\ \A p \in Missions : pc[p] \in {"unborn", "gone"}

OrphanIsClosed == Abandoned ~> ~Abandoned

\* The same promise, made to the follower of a stretch that was resumed: the
\* last record of a log nobody is working on is an ending, sooner or later.
EndsInAnEnding == log # <<>> /\ log[Len(log)].rec \in Endings

EveryStretchCloses ==
  (created /\ \A p \in Missions : pc[p] \in {"unborn", "gone"})
    ~> (EndsInAnEnding \/ \E p \in Missions : pc[p] \notin {"unborn", "gone"})

\* Whatever processes race and wherever they die, the numbers on the log have
\* no hole: a reader at any cursor is never waiting for a number that will
\* not come.
NumbersOnLog == {log[i].seq : i \in DOMAIN log}

NoGap == \A n \in NumbersOnLog : n = 1 \/ n - 1 \in NumbersOnLog

\* meta.json never runs ahead of the log: the line is on the disk before its
\* number is.
StampNotAhead == lastSeq = 0 \/ lastSeq \in NumbersOnLog

\* An append that returned is on the log for every later reader.
AckedIsReadable == \A e \in acked : \E i \in DOMAIN log : log[i] = e
=============================================================================
