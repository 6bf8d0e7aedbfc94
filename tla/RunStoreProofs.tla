--------------------------- MODULE RunStoreProofs ---------------------------
(***************************************************************************)
(* What RunStore keeps for every set of missions and sweepers.  However    *)
(* they interleave and wherever they die, as long as no line is torn, the  *)
(* numbers have no hole and what was acknowledged stays readable.  In      *)
(* serial use the directory implements RunLog, and a follower misses       *)
(* nothing.                                                                *)
(***************************************************************************)
EXTENDS RunStore, WellFoundedInduction, TLAPS

OnLog(e) == \E i \in DOMAIN log : log[i] = e

\* Every number a process has read off meta.json is on the log, so the number
\* it is about to write is the successor of one that is; and the line of a
\* process that has still to stamp meta.json is on the log already.
NumbersFollowTheLog ==
  /\ \A p \in Procs : num[p] = 0 \/ num[p] \in NumbersOnLog
  /\ \A p \in Procs : pc[p] = "stamp" => OnLog(Envelope(p))

LogInv ==
  /\ TypeOK
  /\ torn = FALSE
  /\ \A p \in touching : pc[p] \in {"run", "over", "leaving"}
  /\ NumbersFollowTheLog
  /\ NoGap /\ StampNotAhead /\ AckedIsReadable

-----------------------------------------------------------------------------
\* Append keeps every line where it was and adds one at the end.
LEMMA AppendAdds ==
  ASSUME NEW S, NEW s \in Seq(S), NEW e \in S
  PROVE  /\ Append(s, e) \in Seq(S)
         /\ DOMAIN Append(s, e) = DOMAIN s \cup {Len(s) + 1}
         /\ \A i \in DOMAIN s : Append(s, e)[i] = s[i]
         /\ Append(s, e)[Len(s) + 1] = e
  OBVIOUS

\* The envelope a process writes has the type of one.
LEMMA EnvelopeType ==
  ASSUME TypeOK, NEW p \in Procs
  PROVE  Envelope(p) \in Envelopes
  BY DEF TypeOK, Envelope, Envelopes

\* A process that lets go of its claim, or dies, leaves a lock and watermarks
\* of the right type.
LEMMA WithoutType ==
  ASSUME TypeOK, NEW p \in Procs
  PROVE  /\ LockWithout(p) \in Missions \cup {None}
         /\ MarkWithout(p) \in [Missions -> Nat]
  BY DEF TypeOK, LockWithout, MarkWithout

-----------------------------------------------------------------------------
\* Where a process goes is a place of its own kind.
LEMMA MissionGoes ==
  ASSUME TypeOK, NEW p \in Missions, NEW label \in MissionPC, Goto(p, label)
  PROVE  PlacesOK'
  BY SwitchesAssumption DEF TypeOK, PlacesOK, Goto, Procs

LEMMA SweeperGoes ==
  ASSUME TypeOK, NEW q \in Sweepers, NEW label \in SweeperPC, Goto(q, label)
  PROVE  PlacesOK'
  BY SwitchesAssumption DEF TypeOK, PlacesOK, Goto, Procs

LEMMA ForgetType ==
  ASSUME TypeOK, NEW p \in Procs, Forget(p)
  PROVE  rec' \in [Procs -> Records] /\ num' \in [Procs -> Nat]
  BY DEF TypeOK, Forget, Records

-----------------------------------------------------------------------------
\* Type correctness, one lemma for the missions and one for the sweepers.

LEMMA AppendType ==
  ASSUME TypeOK, NEW p \in Procs, AppendStep(p)
  PROVE  TypeOK'
<1>1. CASE Number(p)
  <2>1. PlacesOK'
    BY <1>1, MissionGoes, SweeperGoes DEF Number, Procs, MissionPC, SweeperPC
  <2> QED BY <1>1, <2>1 DEF TypeOK, Number, follower, disk
<1>2. CASE Write(p)
  <2>1. PlacesOK'
    BY <1>2, MissionGoes, SweeperGoes DEF Write, Procs, MissionPC, SweeperPC
  <2>2. LogWith(p) \in Seq(Envelopes)
    BY EnvelopeType DEF TypeOK, LogWith
  <2> QED BY <1>2, <2>1, <2>2 DEF TypeOK, Write, follower
<1>3. CASE Stamp(p)
  <2>1. PlacesOK'
    BY <1>3, MissionGoes, SweeperGoes, SwitchesAssumption
    DEF Stamp, Procs, MissionPC, SweeperPC
  <2>2. Envelope(p) \in Envelopes /\ Stamped(p) \in Nat
    BY EnvelopeType DEF Envelopes, Stamped
  <2>3. rec' \in [Procs -> Records] /\ num' \in [Procs -> Nat]
    BY <1>3, ForgetType DEF Stamp
  <2> QED BY <1>3, <2>1, <2>2, <2>3 DEF TypeOK, Stamp, follower
<1> QED BY <1>1, <1>2, <1>3 DEF AppendStep

LEMMA MissionType ==
  ASSUME TypeOK, NEW p \in Missions, Create(p) \/ Admit(p) \/ MissionStep(p)
  PROVE  TypeOK'
<1>0. p \in Procs
  BY DEF Procs
<1>1. CASE Create(p)
  <2>1. PlacesOK' BY <1>1, MissionGoes DEF Create, MissionPC
  <2> QED BY <1>1, <2>1 DEF TypeOK, Create, follower
<1>2. CASE Admit(p)
  <2>1. PlacesOK' BY <1>2, MissionGoes DEF Admit, MissionPC
  <2> QED BY <1>2, <2>1 DEF TypeOK, Admit, follower, disk
<1>3. CASE Watermark(p)
  <2>1. PlacesOK' BY <1>3, MissionGoes DEF Watermark, MissionPC
  <2> QED BY <1>3, <2>1 DEF TypeOK, Watermark, follower, disk
<1>4. CASE TakeLock(p)
  <2>1. PlacesOK' BY <1>4, MissionGoes DEF TakeLock, MissionPC
  <2>2. rec' \in [Procs -> Records] /\ num' \in [Procs -> Nat]
    BY <1>0, <1>4, ForgetType DEF TakeLock
  <2>3. lock' \in Missions \cup {None} /\ mark' \in [Missions -> Nat]
    BY <1>0, <1>4 DEF TypeOK, TakeLock
  <2> QED BY <1>4, <2>1, <2>2, <2>3 DEF TypeOK, TakeLock, follower, disk
<1>5. ASSUME NEW r \in Records, Emit(p, r)
      PROVE  TypeOK'
  <2>1. PlacesOK' BY <1>5, MissionGoes DEF Emit, MissionPC
  <2> QED BY <1>5, <2>1 DEF TypeOK, Emit, follower, disk
<1>6. CASE Check(p)
  <2>1. PlacesOK' BY <1>6, MissionGoes DEF Check, MissionPC
  <2>2. rec' \in [Procs -> Records] /\ num' \in [Procs -> Nat]
    BY <1>0, <1>6, ForgetType DEF TypeOK, Check
  <2> QED BY <1>6, <2>1, <2>2 DEF TypeOK, Check, follower, disk
<1>7. CASE AppendStep(p)
  BY <1>0, <1>7, AppendType
<1>8. CASE TouchRead(p)
  BY <1>0, <1>8 DEF TypeOK, PlacesOK, TouchRead, follower, disk
<1>9. CASE TouchWrite(p)
  <2>1. rec' \in [Procs -> Records] /\ num' \in [Procs -> Nat]
    BY <1>0, <1>9, ForgetType DEF TouchWrite
  <2> QED BY <1>0, <1>9, <2>1 DEF TypeOK, PlacesOK, TouchWrite, follower
<1>10. CASE Release(p)
  <2>1. PlacesOK' BY <1>10, MissionGoes DEF Release, MissionPC
  <2> QED BY <1>0, <1>10, <2>1, WithoutType DEF TypeOK, Release, follower, disk
<1>11. CASE Exit(p)
  <2>1. PlacesOK' BY <1>11, MissionGoes DEF Exit, MissionPC
  <2> QED BY <1>11, <2>1 DEF TypeOK, Exit, follower, disk
<1> QED
  BY <1>1, <1>2, <1>3, <1>4, <1>5, <1>6, <1>7, <1>8, <1>9, <1>10, <1>11 DEF MissionStep

LEMMA SweeperType ==
  ASSUME TypeOK, NEW q \in Sweepers, SweeperStep(q)
  PROVE  TypeOK'
<1>0. q \in Procs
  BY DEF Procs
<1>1. CASE Sweep(q)
  <2>1. PlacesOK' BY <1>1, SweeperGoes DEF Sweep, SweeperPC
  <2> QED BY <1>1, <2>1 DEF TypeOK, Sweep, follower, disk
<1>2. CASE Probe(q)
  <2>1. PlacesOK' BY <1>2, SweeperGoes DEF Probe, SweeperPC
  <2> QED BY <1>2, <2>1 DEF TypeOK, Probe, follower, disk
<1>3. CASE Scan(q)
  <2>1. PlacesOK' BY <1>3, SweeperGoes DEF Scan, SweeperPC
  <2>2. rec' \in [Procs -> Records]
    BY <1>0, <1>3 DEF TypeOK, Scan, Records, Endings, Resumable
  <2> QED BY <1>3, <2>1, <2>2 DEF TypeOK, Scan, follower, disk
<1>4. CASE AppendStep(q)
  BY <1>0, <1>4, AppendType
<1>5. CASE MergeRead(q)
  <2>1. PlacesOK' BY <1>5, SweeperGoes DEF MergeRead, SweeperPC
  <2> QED BY <1>5, <2>1 DEF TypeOK, MergeRead, follower, disk
<1>6. CASE MergeWrite(q)
  <2>1. PlacesOK' BY <1>6, SweeperGoes DEF MergeWrite, SweeperPC
  <2>2. rec' \in [Procs -> Records] /\ num' \in [Procs -> Nat]
    BY <1>0, <1>6, ForgetType DEF MergeWrite
  <2> QED BY <1>0, <1>6, <2>1, <2>2 DEF TypeOK, MergeWrite, follower
<1> QED
  BY <1>1, <1>2, <1>3, <1>4, <1>5, <1>6 DEF SweeperStep

LEMMA DieType ==
  ASSUME TypeOK, NEW p \in Procs, Die(p)
  PROVE  TypeOK'
<1>1. PlacesOK'
  <2>1. CASE p \in Missions
    BY <2>1, MissionGoes DEF Die, MissionPC
  <2>2. CASE p \in Sweepers
    <3>1. p \notin Missions
      BY <2>2, SwitchesAssumption
    <3> QED BY <2>2, <3>1, SweeperGoes DEF Die, SweeperPC
  <2> QED BY <2>1, <2>2 DEF Procs
<1>2. rec' \in [Procs -> Records] /\ num' \in [Procs -> Nat]
  BY ForgetType DEF Die
<1>3. torn' \in BOOLEAN
  <2>1. torn' = torn \/ torn' = TRUE
    BY Zenon DEF Die
  <2> QED BY <2>1 DEF TypeOK
<1>5. deaths' \in Nat /\ touching' \in SUBSET Missions
  BY DEF TypeOK, Die
<1>4. lock' \in Missions \cup {None} /\ mark' \in [Missions -> Nat]
  BY WithoutType DEF Die
<1> QED BY <1>4, <1>1, <1>2, <1>3, <1>5 DEF TypeOK, Die, follower

LEMMA FollowType ==
  ASSUME TypeOK, Follow
  PROVE  TypeOK'
<1>1. cursor' \in Nat
  <2>1. PICK i \in Unread : cursor' = log[i].seq
    BY DEF Follow
  <2>2. log[i] \in Envelopes
    BY <2>1 DEF TypeOK, Unread
  <2> QED BY <2>1, <2>2 DEF Envelopes
<1>2. seen' \in SUBSET Nat
  <2>1. DOMAIN log = 1..Len(log) /\ Len(log) \in Nat
    BY DEF TypeOK
  <2>2. Unread \subseteq Nat
    BY <2>1 DEF Unread
  <2>3. seen' = seen \cup Unread /\ seen \subseteq Nat
    BY DEF TypeOK, Follow
  <2> QED BY <2>2, <2>3
<1> QED BY <1>1, <1>2 DEF TypeOK, PlacesOK, Follow, disk

LEMMA TypeStep ==
  ASSUME TypeOK, [Next]_vars
  PROVE  TypeOK'
<1>1. ASSUME NEW p \in Missions, Create(p) \/ Admit(p) \/ MissionStep(p)
      PROVE  TypeOK'
  BY <1>1, MissionType
<1>2. ASSUME NEW q \in Sweepers, SweeperStep(q)
      PROVE  TypeOK'
  BY <1>2, SweeperType
<1>3. ASSUME NEW p \in Procs, Die(p)
      PROVE  TypeOK'
  BY <1>3, DieType
<1>4. CASE WindowPasses
  BY <1>4 DEF TypeOK, PlacesOK, WindowPasses, follower
<1>5. CASE Follow
  BY <1>5, FollowType
<1>6. CASE UNCHANGED vars
  BY <1>6 DEF TypeOK, PlacesOK, vars, disk, follower
<1> QED BY <1>1, <1>2, <1>3, <1>4, <1>5, <1>6 DEF Next

LEMMA InitType ==
  ASSUME Init
  PROVE  TypeOK
<1>1. PlacesOK
  BY SwitchesAssumption DEF Init, PlacesOK, Procs, MissionPC, SweeperPC
<1>2. log \in Seq(Envelopes)
  BY DEF Init
<1> QED BY <1>1, <1>2 DEF Init, TypeOK, Records

\* Every variable has its type in every reachable state: in particular no
\* mission is ever at a sweeper's step, a lock is held by a mission or by
\* nobody, and a watermark is a number, whatever is claimed, let go or killed.
THEOREM TypeCorrect == Spec => []TypeOK
<1>1. Init => TypeOK
  BY InitType
<1>2. TypeOK /\ [Next]_vars => TypeOK'
  BY TypeStep
<1> QED BY <1>1, <1>2, PTL DEF Spec

-----------------------------------------------------------------------------
\* The numbers on the log.

\* A step that leaves the log alone, writes into meta.json a number the log
\* has, acknowledges only lines the log has, and leaves alone what a process
\* between its write and its stamp remembers.
LEMMA KeepsLog ==
  ASSUME LogInv, TypeOK', log' = log, torn' = torn,
         lastSeq' = 0 \/ lastSeq' \in NumbersOnLog,
         \A e \in acked' : OnLog(e),
         \A p \in Procs : num'[p] = 0 \/ num'[p] \in NumbersOnLog,
         \A p \in Procs : pc'[p] = "stamp" =>
           pc[p] = "stamp" /\ num'[p] = num[p] /\ rec'[p] = rec[p],
         \A p \in touching' : pc'[p] \in {"run", "over", "leaving"}
  PROVE  LogInv'
<1>1. NumbersOnLog' = NumbersOnLog /\ \A e : OnLog(e)' <=> OnLog(e)
  BY DEF NumbersOnLog, OnLog
<1>2. \A p \in Procs : pc'[p] = "stamp" => OnLog(Envelope(p))'
  BY <1>1 DEF LogInv, NumbersFollowTheLog, Envelope, OnLog
<1>3. NumbersFollowTheLog'
  BY <1>1, <1>2 DEF NumbersFollowTheLog
<1>4. NoGap' /\ StampNotAhead'
  BY <1>1 DEF LogInv, NoGap, StampNotAhead
<1>5. AckedIsReadable'
  BY DEF AckedIsReadable, OnLog
<1> QED BY <1>3, <1>4, <1>5 DEF LogInv

\* What KeepsLog asks for, of the state a step starts in.
LEMMA LogInvFacts ==
  ASSUME LogInv
  PROVE  /\ lastSeq = 0 \/ lastSeq \in NumbersOnLog
         /\ \A e \in acked : OnLog(e)
         /\ \A p \in Procs : num[p] = 0 \/ num[p] \in NumbersOnLog
         /\ \A p \in Procs : pc[p] = "stamp" =>
              OnLog(Envelope(p)) /\ Envelope(p).seq \in NumbersOnLog
         /\ \A p \in touching : pc[p] \in {"run", "over", "leaving"}
         /\ num \in [Procs -> Nat] /\ rec \in [Procs -> Records]
         /\ pc \in [Procs -> MissionPC \cup SweeperPC]
         /\ touching \subseteq Missions /\ Missions \subseteq Procs
<1>1. \A p \in Procs : pc[p] = "stamp" => Envelope(p).seq \in NumbersOnLog
  BY DEF LogInv, NumbersFollowTheLog, OnLog, NumbersOnLog
<1>2. /\ num \in [Procs -> Nat] /\ rec \in [Procs -> Records]
      /\ pc \in [Procs -> MissionPC \cup SweeperPC]
      /\ touching \subseteq Missions /\ Missions \subseteq Procs
  BY DEF LogInv, TypeOK, PlacesOK, Procs
<1> QED
  BY <1>1, <1>2 DEF LogInv, StampNotAhead, AckedIsReadable, NumbersFollowTheLog, OnLog

\* The line a process writes carries the successor of a number on the log, so
\* it leaves no gap; and it is the line the process will stamp.
LEMMA WriteLog ==
  ASSUME LogInv, NEW p \in Procs, Write(p)
  PROVE  LogInv'
<1>1. /\ log' = Append(log, Envelope(p)) /\ log \in Seq(Envelopes)
      /\ Envelope(p) \in Envelopes
  BY EnvelopeType DEF LogInv, Write, LogWith, TypeOK
<1>2. NumbersOnLog' = NumbersOnLog \cup {num[p] + 1}
  BY <1>1, AppendAdds DEF NumbersOnLog, Envelope
<1>3. \A e : OnLog(e) => OnLog(e)'
  BY <1>1, AppendAdds DEF OnLog
<1>4. OnLog(Envelope(p))'
  <2>1. Envelope(p)' = Envelope(p)
    BY DEF Write, Envelope
  <2> QED BY <1>1, <2>1, AppendAdds DEF OnLog
<1>5. NoGap'
  <2>1. num[p] = 0 \/ num[p] \in NumbersOnLog
    BY LogInvFacts
  <2>2. num[p] \in Nat
    BY LogInvFacts
  <2> QED BY <1>2, <2>1, <2>2 DEF LogInv, NoGap
<1>6. StampNotAhead'
  BY <1>2 DEF LogInv, StampNotAhead, Write
<1>7. AckedIsReadable'
  BY <1>3 DEF LogInv, AckedIsReadable, OnLog, Write
<1>8. NumbersFollowTheLog'
  <2>1. ASSUME NEW r \in Procs, pc'[r] = "stamp"
        PROVE  OnLog(Envelope(r))'
    <3>1. CASE r = p
      BY <1>4, <3>1
    <3>2. CASE r # p
      <4>1. pc[r] = "stamp" /\ Envelope(r)' = Envelope(r)
        BY <2>1, <3>2, LogInvFacts DEF Write, Goto, Envelope
      <4> QED BY <1>3, <4>1, LogInvFacts
    <3> QED BY <3>1, <3>2
  <2>2. \A r \in Procs : num'[r] = 0 \/ num'[r] \in NumbersOnLog'
    BY <1>2, LogInvFacts DEF Write
  <2> QED BY <2>1, <2>2 DEF NumbersFollowTheLog
<1>9. torn' = FALSE /\ TypeOK'
  BY AppendType DEF LogInv, Write, AppendStep
<1>10. \A r \in touching' : pc'[r] \in {"run", "over", "leaving"}
  BY LogInvFacts DEF Write, Goto
<1> QED BY <1>5, <1>6, <1>7, <1>8, <1>9, <1>10 DEF LogInv

LEMMA AppendLog ==
  ASSUME LogInv, NEW p \in Procs, AppendStep(p)
  PROVE  LogInv'
<1>0. TypeOK'
  BY AppendType DEF LogInv
<1>1. CASE Number(p)
  BY <1>0, <1>1, LogInvFacts, KeepsLog DEF Number, Goto, disk
<1>2. CASE Write(p)
  BY <1>2, WriteLog
<1>3. CASE Stamp(p)
  <2>1. lastSeq' \in NumbersOnLog
    BY <1>3, LogInvFacts DEF Stamp, Stamped
  <2>2. \A e \in acked' : OnLog(e)
    BY <1>3, LogInvFacts DEF Stamp
  <2>3. \A r \in Procs : r # p => pc'[r] = pc[r] /\ num'[r] = num[r] /\ rec'[r] = rec[r]
    BY <1>3, LogInvFacts DEF Stamp, Goto, Forget
  <2>4. num'[p] = 0 /\ pc'[p] # "stamp"
    BY <1>3, LogInvFacts DEF Stamp, Goto, Forget
  <2>5. p \notin touching
    BY <1>3, LogInvFacts DEF Stamp
  <2> QED BY <1>0, <1>3, <2>1, <2>2, <2>3, <2>4, <2>5, LogInvFacts, KeepsLog DEF Stamp
<1> QED BY <1>1, <1>2, <1>3 DEF AppendStep

LEMMA MissionLog ==
  ASSUME LogInv, NEW p \in Missions, Create(p) \/ Admit(p) \/ MissionStep(p)
  PROVE  LogInv'
<1>0. p \in Procs /\ TypeOK'
  BY MissionType DEF LogInv, Procs
<1>1. CASE Create(p)
  BY <1>0, <1>1, LogInvFacts, KeepsLog DEF Create, Goto
<1>2. CASE Admit(p)
  BY <1>0, <1>2, LogInvFacts, KeepsLog DEF Admit, Goto, disk
<1>3. CASE Watermark(p)
  BY <1>0, <1>3, LogInvFacts, KeepsLog DEF Watermark, Goto, disk
<1>4. CASE TakeLock(p)
  BY <1>0, <1>4, LogInvFacts, KeepsLog DEF TakeLock, Goto, Forget, disk
<1>5. ASSUME NEW r \in Records, Emit(p, r)
      PROVE  LogInv'
  BY <1>0, <1>5, LogInvFacts, KeepsLog DEF Emit, Goto, StoreFree, disk
<1>6. CASE Check(p)
  <2>1. \A r \in Procs : num'[r] = num[r] \/ num'[r] = 0
    BY <1>6, LogInvFacts DEF Check, Forget
  <2>2. \A r \in Procs : pc'[r] = "stamp" => r # p
    BY <1>0, <1>6, LogInvFacts DEF Check, Goto
  <2>3. \A r \in Procs : r # p => num'[r] = num[r] /\ rec'[r] = rec[r] /\ pc'[r] = pc[r]
    BY <1>6, LogInvFacts DEF Check, Goto, Forget
  <2>4. p \notin touching
    BY <1>6, LogInvFacts DEF Check
  <2> QED
    BY <1>0, <1>6, <2>1, <2>2, <2>3, <2>4, LogInvFacts, KeepsLog DEF Check, disk
<1>7. CASE AppendStep(p)
  BY <1>0, <1>7, AppendLog
<1>8. CASE TouchRead(p)
  BY <1>0, <1>8, LogInvFacts, KeepsLog DEF TouchRead, disk
<1>9. CASE TouchWrite(p)
  BY <1>0, <1>9, LogInvFacts, KeepsLog DEF TouchWrite, Forget
<1>10. CASE Release(p)
  BY <1>0, <1>10, LogInvFacts, KeepsLog DEF Release, Goto, StoreFree, disk
<1>11. CASE Exit(p)
  BY <1>0, <1>11, LogInvFacts, KeepsLog DEF Exit, Goto, StoreFree, disk
<1> QED
  BY <1>1, <1>2, <1>3, <1>4, <1>5, <1>6, <1>7, <1>8, <1>9, <1>10, <1>11 DEF MissionStep

LEMMA SweeperLog ==
  ASSUME LogInv, NEW q \in Sweepers, SweeperStep(q)
  PROVE  LogInv'
<1>0. q \in Procs /\ q \notin touching /\ TypeOK'
  BY SweeperType, SwitchesAssumption, LogInvFacts DEF LogInv, Procs
<1>1. CASE Sweep(q)
  BY <1>0, <1>1, LogInvFacts, KeepsLog DEF Sweep, Goto, disk
<1>2. CASE Probe(q)
  BY <1>0, <1>2, LogInvFacts, KeepsLog DEF Probe, Goto, disk
<1>3. CASE Scan(q)
  <2>1. \A r \in Procs : pc'[r] = "stamp" => r # q
    BY <1>0, <1>3, LogInvFacts DEF Scan, Goto
  <2>2. \A r \in Procs : r # q => rec'[r] = rec[r] /\ pc'[r] = pc[r]
    BY <1>3, LogInvFacts DEF Scan, Goto
  <2> QED BY <1>0, <1>3, <2>1, <2>2, LogInvFacts, KeepsLog DEF Scan, disk
<1>4. CASE AppendStep(q)
  BY <1>0, <1>4, AppendLog
<1>5. CASE MergeRead(q)
  BY <1>0, <1>5, LogInvFacts, KeepsLog DEF MergeRead, Goto, disk
<1>6. CASE MergeWrite(q)
  BY <1>0, <1>6, LogInvFacts, KeepsLog DEF MergeWrite, Goto, Forget
<1> QED
  BY <1>1, <1>2, <1>3, <1>4, <1>5, <1>6 DEF SweeperStep

LEMMA DieLog ==
  ASSUME LogInv, TornWrites = FALSE, NEW p \in Procs, Die(p)
  PROVE  LogInv'
<1>1. torn' = torn
  <2>1. torn' \in {torn} \cup {}
    BY Zenon DEF Die
  <2> QED BY <2>1
<1>2. \A r \in Procs : num'[r] = num[r] \/ num'[r] = 0
  BY LogInvFacts DEF Die, Forget
<1>3. \A r \in Procs : r # p => num'[r] = num[r] /\ rec'[r] = rec[r] /\ pc'[r] = pc[r]
  BY LogInvFacts DEF Die, Goto, Forget
<1>4. pc'[p] # "stamp" /\ p \notin touching'
  BY LogInvFacts DEF Die, Goto
<1>5. TypeOK'
  BY DieType DEF LogInv
<1>6. log' = log /\ lastSeq' = lastSeq /\ acked' = acked /\ touching' \subseteq touching
  BY DEF Die
<1> QED BY <1>1, <1>2, <1>3, <1>4, <1>5, <1>6, LogInvFacts, KeepsLog

LEMMA LogStep ==
  ASSUME LogInv, TornWrites = FALSE, [Next]_vars
  PROVE  LogInv'
<1>0. TypeOK'
  BY TypeStep DEF LogInv
<1>1. ASSUME NEW p \in Missions, Create(p) \/ Admit(p) \/ MissionStep(p)
      PROVE  LogInv'
  BY <1>1, MissionLog
<1>2. ASSUME NEW q \in Sweepers, SweeperStep(q)
      PROVE  LogInv'
  BY <1>2, SweeperLog
<1>3. ASSUME NEW p \in Procs, Die(p)
      PROVE  LogInv'
  BY <1>3, DieLog
<1>4. CASE WindowPasses
  BY <1>0, <1>4, LogInvFacts, KeepsLog DEF WindowPasses
<1>5. CASE Follow
  BY <1>0, <1>5, LogInvFacts, KeepsLog DEF Follow, disk
<1>6. CASE UNCHANGED vars
  BY <1>0, <1>6, LogInvFacts, KeepsLog DEF vars, disk
<1> QED BY <1>1, <1>2, <1>3, <1>4, <1>5, <1>6 DEF Next

LEMMA InitLog ==
  ASSUME Init
  PROVE  LogInv
<1>1. TypeOK
  BY InitType
<1>2. NumbersOnLog = {}
  BY DEF Init, NumbersOnLog
<1>3. pc \in [Procs -> {"unborn", "idle"}] /\ num = [p \in Procs |-> 0]
  BY DEF Init
<1> QED
  BY <1>1, <1>2, <1>3
  DEF Init, LogInv, NumbersFollowTheLog, NoGap, StampNotAhead, AckedIsReadable

\* Where no line is torn, any number of missions and sweepers may race and die
\* between any two file accesses: the numbers on the log have no hole,
\* meta.json never names a number the log does not have, and every append that
\* returned stays readable.
THEOREM LogCorrect ==
  ASSUME TornWrites = FALSE
  PROVE  Spec => [](NoGap /\ StampNotAhead /\ AckedIsReadable)
<1>1. Init => LogInv
  BY InitLog
<1>2. LogInv /\ [Next]_vars => LogInv'
  BY LogStep
<1>3. LogInv => NoGap /\ StampNotAhead /\ AckedIsReadable
  BY DEF LogInv
<1> QED BY <1>1, <1>2, <1>3, PTL DEF Spec

\* What append acknowledged is there for every later reader, whoever races it.
THEOREM AppendIsDurable ==
  ASSUME TornWrites = FALSE
  PROVE  Spec => []AckedIsReadable
<1>1. Spec => [](NoGap /\ StampNotAhead /\ AckedIsReadable)
  BY LogCorrect
<1> QED BY <1>1, PTL

-----------------------------------------------------------------------------
\* Serial use: a resume or a sweep begins only when no other is half way, and
\* nobody dies between a line and its number.

Serial == Overlap = FALSE /\ DiesInAppend = FALSE /\ TornWrites = FALSE

Away(p) == pc[p] \in {"unborn", "gone", "idle"}

\* No two missions are at the run, nor two sweepers; and a sweeper that got as
\* far as the log shares the directory with no mission, or with one that has
\* let go of its claim and has nothing left to write but its heartbeat.
OneAtATime ==
  /\ \A p, q \in Missions : Away(p) \/ Away(q) \/ p = q
  /\ \A r, s \in Sweepers : Away(r) \/ Away(s) \/ r = s
  /\ \A p \in Missions, q \in Sweepers :
       \/ Away(p) \/ Away(q)
       \/ pc[q] = "probe" /\ pc[p] \notin {"claim", "lock"}
       \/ pc[q] = "scan" /\ pc[p] = "leaving"
  /\ ~created => (\A p \in Procs : Away(p)) /\ log = <<>>

\* So the flock is held exactly while a mission may still write its ending.
LockTellsWhoWorks ==
  \A p \in Missions :
    pc[p] \in {"run", "check", "number", "write", "stamp", "over"} <=> lock = p

\* The line numbered n is line n; meta.json is behind the log between a line
\* and its stamp only, and nobody is about to write an older number back.
LogIsNumbered ==
  /\ \A i \in DOMAIN log : log[i].seq = i
  /\ \A p \in Procs : pc[p] = "stamp" => Len(log) = lastSeq + 1
  /\ (\A p \in Procs : pc[p] # "stamp") => Len(log) = lastSeq
  /\ \A p \in Procs :
       (pc[p] \in {"write", "stamp", "mergeWrite"} \/ p \in touching)
         => num[p] = lastSeq

\* A sweeper writes to a log with no ending, a mission leaves one with an
\* ending, and a mission comes to one whose last ending is not a conclusion.
EndingsInPlace ==
  /\ \A q \in Sweepers :
       /\ pc[q] \in {"number", "write", "stamp"} => rec[q] = "incomplete"
       /\ pc[q] \in {"number", "write"} => EndingsAt = {}
  /\ \A p \in Missions :
       /\ pc[p] \in {"over", "leaving"} => EndingsAt # {}
       /\ pc[p] \in {"claim", "lock"} => ~RunLogOf!IsConcluded

FollowerUpToCursor == seen = 1..cursor /\ cursor =< Len(log)

SerialInv ==
  /\ LogInv
  /\ OneAtATime /\ LockTellsWhoWorks
  /\ LogIsNumbered /\ EndingsInPlace
  /\ FollowerUpToCursor

\* Who is where, after a step that moves one process that was at the run.
LEMMA MissionMoves ==
  ASSUME TypeOK, OneAtATime, NEW p \in Missions, ~Away(p),
         NEW label \in MissionPC, Goto(p, label), created' = created,
         label \in {"claim", "lock"} => pc[p] \in {"claim", "lock"},
         pc[p] = "leaving" => label \in {"leaving", "gone"}
  PROVE  OneAtATime'
<1>1. /\ Missions \subseteq Procs /\ Sweepers \subseteq Procs
      /\ pc \in [Procs -> MissionPC \cup SweeperPC] /\ p \notin Sweepers
  BY SwitchesAssumption DEF TypeOK, PlacesOK, Procs
<1>2. created' /\ \A r \in Procs : r # p => pc'[r] = pc[r]
  BY <1>1 DEF OneAtATime, Goto
<1>3. pc'[p] = label
  BY <1>1 DEF Goto
<1> QED BY <1>1, <1>2, <1>3 DEF OneAtATime, Away

LEMMA SweeperMoves ==
  ASSUME TypeOK, OneAtATime, NEW q \in Sweepers, ~Away(q),
         NEW label \in SweeperPC, Goto(q, label), created' = created,
         \A p \in Missions : ~Away(p) =>
           label = "idle" \/ (label = "scan" /\ pc[p] = "leaving")
  PROVE  OneAtATime'
<1>1. /\ Missions \subseteq Procs /\ Sweepers \subseteq Procs
      /\ pc \in [Procs -> MissionPC \cup SweeperPC] /\ q \notin Missions
  BY SwitchesAssumption DEF TypeOK, PlacesOK, Procs
<1>2. created' /\ \A r \in Procs : r # q => pc'[r] = pc[r]
  BY <1>1 DEF OneAtATime, Goto
<1>3. pc'[q] = label
  BY <1>1 DEF Goto
<1> QED BY <1>1, <1>2, <1>3 DEF OneAtATime, Away

LEMMA LogShape ==
  ASSUME TypeOK
  PROVE  /\ Len(log) \in Nat /\ DOMAIN log = 1..Len(log)
         /\ \A i \in DOMAIN log : log[i] \in Envelopes
         /\ \A i \in EndingsAt : i \in DOMAIN log /\ i \in Nat
  BY DEF TypeOK, EndingsAt

\* A set of numbers has a least one.
LEMMA LeastNatural ==
  ASSUME NEW S \in SUBSET Nat, S # {}
  PROVE  \E m \in S : \A n \in S : m =< n
<1>1. PICK m \in S : \A n \in S : ~ (<<n, m>> \in OpToRel(<, Nat))
  BY WFMin, NatLessThanWellFounded
<1>2. \A n \in S : ~ (n < m)
  BY <1>1 DEF OpToRel
<1> QED BY <1>2

\* A log with an ending has a last one.
LEMMA LastEnding ==
  ASSUME TypeOK, EndingsAt # {}
  PROVE  \E n \in EndingsAt : \A m \in EndingsAt : m =< n
<1>1. \A k \in EndingsAt : k \in Nat /\ k =< Len(log)
  BY LogShape
<1> DEFINE Back == {Len(log) - k : k \in EndingsAt}
<1>2. Back \subseteq Nat /\ Back # {}
  BY <1>1, LogShape
<1>3. PICK b \in Back : \A c \in Back : b =< c
  BY <1>2, LeastNatural
<1>4. PICK n \in EndingsAt : b = Len(log) - n
  BY <1>3
<1>5. ASSUME NEW m \in EndingsAt
      PROVE  m =< n
  <2>1. Len(log) - n =< Len(log) - m
    BY <1>3, <1>4
  <2> QED BY <1>1, <2>1, LogShape
<1> QED BY <1>5

\* A run that may be resumed is one whose log is not concluded.
LEMMA OutcomeConcludes ==
  ASSUME TypeOK, RecordedOutcome \in Resumable \cup {"none"}
  PROVE  ~RunLogOf!IsConcluded
<1> SUFFICES ASSUME RunLogOf!IsConcluded
             PROVE  FALSE
  OBVIOUS
<1>0. RunLogOf!EndingsAt = EndingsAt
  BY DEF RunLogOf!EndingsAt, RunLogOf!Endings, EndingsAt, Endings
<1>1. PICK i \in EndingsAt : (\A j \in EndingsAt : j =< i) /\ log[i].rec \in Concluded
  BY <1>0 DEF RunLogOf!IsConcluded
<1>2. \A k \in EndingsAt : k \in Nat
  BY LogShape
<1>3. i = CHOOSE k \in EndingsAt : \A j \in EndingsAt : j =< k
  <2>1. ASSUME NEW k \in EndingsAt, \A j \in EndingsAt : j =< k
        PROVE  k = i
    <3>1. k =< i /\ i =< k
      BY <1>1, <2>1
    <3>2. k \in Nat /\ i \in Nat
      BY <1>2
    <3> HIDE DEF EndingsAt
    <3> QED BY <3>1, <3>2
  <2> QED BY <1>1, <2>1
<1>4. RecordedOutcome = log[i].rec
  BY <1>3 DEF RecordedOutcome
<1> QED BY <1>1, <1>4 DEF Concluded, Resumable

\* What the steps below need of the state they start in.
LEMMA SerialFacts ==
  ASSUME SerialInv
  PROVE  /\ Missions \subseteq Procs /\ Sweepers \subseteq Procs
         /\ \A p \in Missions : p \notin Sweepers /\ p # None
         /\ pc \in [Procs -> MissionPC \cup SweeperPC]
         /\ \A p \in Missions : pc[p] \in MissionPC
         /\ \A q \in Sweepers : pc[q] \in SweeperPC
         /\ num \in [Procs -> Nat] /\ rec \in [Procs -> Records]
         /\ lock \in Missions \cup {None}
         /\ touching \subseteq Missions
         /\ \A p \in touching : pc[p] \in {"run", "over", "leaving"}
         /\ TypeOK /\ lastSeq \in Nat /\ torn = FALSE
  BY SwitchesAssumption DEF SerialInv, LogInv, TypeOK, PlacesOK, Procs

\* A step that leaves the log and its number alone.
LEMMA SerialKeeps ==
  ASSUME SerialInv, LogInv', OneAtATime', LockTellsWhoWorks',
         log' = log, lastSeq' = lastSeq, cursor' = cursor, seen' = seen,
         \A p \in Procs : pc'[p] = "stamp" <=> pc[p] = "stamp",
         \A p \in Procs :
           (pc'[p] \in {"write", "stamp", "mergeWrite"} \/ p \in touching')
             => num'[p] = lastSeq,
         \A q \in Sweepers :
           /\ pc'[q] \in {"number", "write", "stamp"} => rec'[q] = "incomplete"
           /\ pc'[q] \in {"number", "write"} => EndingsAt = {},
         \A p \in Missions :
           /\ pc'[p] \in {"over", "leaving"} => EndingsAt # {}
           /\ pc'[p] \in {"claim", "lock"} => ~RunLogOf!IsConcluded
  PROVE  SerialInv'
<1>1. LogIsNumbered'
  BY DEF SerialInv, LogIsNumbered
<1>2. EndingsAt' = EndingsAt /\ (RunLogOf!IsConcluded' <=> RunLogOf!IsConcluded)
  BY DEF EndingsAt, RunLogOf!IsConcluded, RunLogOf!EndingsAt
<1>3. EndingsInPlace'
  BY <1>2 DEF EndingsInPlace
<1>4. FollowerUpToCursor'
  BY DEF SerialInv, FollowerUpToCursor
<1> QED BY <1>1, <1>3, <1>4 DEF SerialInv

\* The lock follows the mission that moves.
LEMMA LockKept ==
  ASSUME SerialInv, NEW p \in Procs, NEW label, Goto(p, label), lock' = lock,
         p \in Missions =>
           (label \in {"run", "check", "number", "write", "stamp", "over"}
             <=> pc[p] \in {"run", "check", "number", "write", "stamp", "over"})
  PROVE  LockTellsWhoWorks'
  BY SerialFacts DEF SerialInv, LockTellsWhoWorks, Goto

LEMMA LockDropped ==
  ASSUME SerialInv, NEW p \in Procs, NEW label, Goto(p, label),
         lock' = LockWithout(p),
         label \notin {"run", "check", "number", "write", "stamp", "over"}
  PROVE  LockTellsWhoWorks'
  BY SerialFacts DEF SerialInv, LockTellsWhoWorks, Goto, LockWithout

-----------------------------------------------------------------------------
\* A mission comes.

LEMMA CreateSerial ==
  ASSUME Serial, SerialInv, NEW p \in Missions, Create(p)
  PROVE  SerialInv'
<1>0. LogInv' /\ p \in Procs
  BY MissionLog, SerialFacts DEF SerialInv
<1>1. pc' = [pc EXCEPT ![p] = "claim"] /\ created' /\ ~created /\ log = <<>>
  BY DEF Create, Goto, SerialInv, OneAtATime
<1>2. OneAtATime'
  BY ZenonT(40), <1>0, <1>1, SerialFacts DEF SerialInv, OneAtATime, Away
<1>3. LockTellsWhoWorks'
  BY <1>0, LockKept DEF Create
<1>4. EndingsAt = {} /\ ~RunLogOf!IsConcluded
  BY <1>1 DEF EndingsAt, RunLogOf!IsConcluded, RunLogOf!EndingsAt
<1> QED
  BY <1>0, <1>1, <1>2, <1>3, <1>4, SerialFacts, SerialKeeps
  DEF Create, SerialInv, LogIsNumbered, EndingsInPlace, follower

LEMMA AdmitSerial ==
  ASSUME Serial, SerialInv, NEW p \in Missions, Admit(p)
  PROVE  SerialInv'
<1>0. LogInv' /\ p \in Procs
  BY MissionLog, SerialFacts DEF SerialInv
<1>1. pc' = [pc EXCEPT ![p] = "claim"] /\ created' = created /\ created
  BY DEF Admit, Goto, disk
<1>2. \A q \in Procs : Away(q)
  BY DEF Admit, NobodyElse, Away, Serial
<1>3. OneAtATime'
  BY <1>0, <1>1, <1>2, SerialFacts DEF OneAtATime, Away
<1>4. LockTellsWhoWorks'
  BY <1>0, LockKept DEF Admit
<1>5. ~RunLogOf!IsConcluded
  BY OutcomeConcludes, SerialFacts DEF Admit
<1> QED
  BY <1>0, <1>1, <1>3, <1>4, <1>5, SerialFacts, SerialKeeps
  DEF Admit, SerialInv, LogIsNumbered, EndingsInPlace, disk, follower

LEMMA WatermarkSerial ==
  ASSUME Serial, SerialInv, NEW p \in Missions, Watermark(p)
  PROVE  SerialInv'
<1>0. LogInv' /\ p \in Procs
  BY MissionLog, SerialFacts DEF SerialInv, MissionStep
<1>1. pc' = [pc EXCEPT ![p] = "lock"] /\ pc[p] = "claim" /\ created' = created
  BY DEF Watermark, Goto, disk
<1>2. OneAtATime'
  BY <1>0, MissionMoves, SerialFacts DEF SerialInv, Watermark, Away, MissionPC, disk
<1>3. LockTellsWhoWorks'
  BY <1>0, LockKept DEF Watermark
<1> QED
  BY <1>0, <1>1, <1>2, <1>3, SerialFacts, SerialKeeps
  DEF Watermark, SerialInv, LogIsNumbered, EndingsInPlace, disk, follower

LEMMA TakeLockSerial ==
  ASSUME Serial, SerialInv, NEW p \in Missions, TakeLock(p)
  PROVE  SerialInv'
<1>0. LogInv' /\ p \in Procs
  BY MissionLog, SerialFacts DEF SerialInv, MissionStep
<1>1. pc' = [pc EXCEPT ![p] = "run"] /\ pc[p] = "lock"
  BY DEF TakeLock, Goto, disk
<1>2. OneAtATime'
  BY <1>0, MissionMoves, SerialFacts DEF SerialInv, TakeLock, Away, MissionPC, disk
<1>3. lock = None
  BY ZenonT(40), <1>1, SerialFacts DEF SerialInv, OneAtATime, LockTellsWhoWorks, Away
<1>4. LockTellsWhoWorks'
  BY <1>0, <1>1, <1>3, SerialFacts DEF TakeLock, LockTellsWhoWorks, SerialInv
<1>5. \A r \in Procs : r # p => num'[r] = num[r] /\ rec'[r] = rec[r]
  BY SerialFacts DEF TakeLock, Forget
<1>6. p \notin touching
  BY <1>1, SerialFacts
<1> QED
  BY <1>0, <1>1, <1>2, <1>4, <1>5, <1>6, SerialFacts, SerialKeeps
  DEF TakeLock, SerialInv, LogIsNumbered, EndingsInPlace, disk, follower

-----------------------------------------------------------------------------
\* A mission records.

LEMMA EmitSerial ==
  ASSUME Serial, SerialInv, NEW p \in Missions, NEW r \in Records, Emit(p, r)
  PROVE  SerialInv'
<1>0. LogInv' /\ p \in Procs
  BY MissionLog, SerialFacts DEF SerialInv, MissionStep
<1>1. pc' = [pc EXCEPT ![p] = "check"] /\ pc[p] = "run"
  BY DEF Emit, Goto
<1>2. OneAtATime'
  BY <1>0, MissionMoves, SerialFacts DEF SerialInv, Emit, Away, MissionPC, disk
<1>3. LockTellsWhoWorks'
  BY <1>0, LockKept DEF Emit
<1>4. \A q \in Sweepers : rec'[q] = rec[q]
  BY <1>0, SerialFacts DEF Emit
<1> QED
  BY <1>0, <1>1, <1>2, <1>3, <1>4, SerialFacts, SerialKeeps
  DEF Emit, SerialInv, LogIsNumbered, EndingsInPlace, disk, follower

LEMMA CheckSerial ==
  ASSUME Serial, SerialInv, NEW p \in Missions, Check(p)
  PROVE  SerialInv'
<1>0. LogInv' /\ p \in Procs /\ pc[p] = "check" /\ p \notin touching
  BY MissionLog, SerialFacts DEF SerialInv, MissionStep, Check
<1>1. CASE rec[p] \in Endings /\ EndedSince(mark[p])
  <2>1. pc' = [pc EXCEPT ![p] = "over"] /\ Forget(p)
    BY <1>1 DEF Check, Goto
  <2>2. OneAtATime'
    BY <1>0, <2>1, MissionMoves, SerialFacts
    DEF SerialInv, Check, Away, MissionPC, disk, Goto
  <2>3. LockTellsWhoWorks'
    BY <1>0, <2>1, LockKept DEF Check, Goto
  <2>4. EndingsAt # {}
    BY <1>1 DEF EndedSince
  <2>5. \A r \in Procs : r # p => num'[r] = num[r] /\ rec'[r] = rec[r]
    BY <2>1, SerialFacts DEF Forget
  <2> QED
    BY <1>0, <2>1, <2>2, <2>3, <2>4, <2>5, SerialFacts, SerialKeeps
    DEF Check, SerialInv, LogIsNumbered, EndingsInPlace, disk, follower
<1>2. CASE ~(rec[p] \in Endings /\ EndedSince(mark[p]))
  <2>1. pc' = [pc EXCEPT ![p] = "number"] /\ rec' = rec /\ num' = num
    BY <1>2 DEF Check, Goto
  <2>2. OneAtATime'
    BY <1>0, <2>1, MissionMoves, SerialFacts
    DEF SerialInv, Check, Away, MissionPC, disk, Goto
  <2>3. LockTellsWhoWorks'
    BY <1>0, <2>1, LockKept DEF Check, Goto
  <2> QED
    BY <1>0, <2>1, <2>2, <2>3, SerialFacts, SerialKeeps
    DEF Check, SerialInv, LogIsNumbered, EndingsInPlace, disk, follower
<1> QED BY <1>1, <1>2

LEMMA TouchReadSerial ==
  ASSUME Serial, SerialInv, NEW p \in Missions, TouchRead(p)
  PROVE  SerialInv'
<1>0. LogInv' /\ p \in Procs
  BY MissionLog, SerialFacts DEF SerialInv, MissionStep
<1>1. OneAtATime' /\ LockTellsWhoWorks'
  BY DEF TouchRead, SerialInv, OneAtATime, LockTellsWhoWorks, Away, disk
<1> QED
  BY <1>0, <1>1, SerialFacts, SerialKeeps
  DEF TouchRead, SerialInv, LogIsNumbered, EndingsInPlace, disk, follower

LEMMA TouchWriteSerial ==
  ASSUME Serial, SerialInv, NEW p \in Missions, TouchWrite(p)
  PROVE  SerialInv'
<1>0. LogInv' /\ p \in Procs
  BY MissionLog, SerialFacts DEF SerialInv, MissionStep
<1>1. OneAtATime' /\ LockTellsWhoWorks'
  BY DEF TouchWrite, SerialInv, OneAtATime, LockTellsWhoWorks, Away
<1>2. lastSeq' = lastSeq /\ pc[p] \in {"run", "over", "leaving"}
  BY <1>0, SerialFacts DEF TouchWrite, SerialInv, LogIsNumbered
<1>3. \A r \in Procs : r # p => num'[r] = num[r] /\ rec'[r] = rec[r]
  BY SerialFacts DEF TouchWrite, Forget
<1> QED
  BY <1>0, <1>1, <1>2, <1>3, SerialFacts, SerialKeeps
  DEF TouchWrite, SerialInv, LogIsNumbered, EndingsInPlace, disk, follower

LEMMA ReleaseSerial ==
  ASSUME Serial, SerialInv, NEW p \in Missions, Release(p)
  PROVE  SerialInv'
<1>0. LogInv' /\ p \in Procs
  BY MissionLog, SerialFacts DEF SerialInv, MissionStep
<1>1. pc' = [pc EXCEPT ![p] = "leaving"] /\ pc[p] = "over"
  BY DEF Release, Goto
<1>2. OneAtATime'
  BY <1>0, MissionMoves, SerialFacts DEF SerialInv, Release, Away, MissionPC, disk
<1>3. LockTellsWhoWorks'
  BY <1>0, LockDropped DEF Release
<1> QED
  BY <1>0, <1>1, <1>2, <1>3, SerialFacts, SerialKeeps
  DEF Release, SerialInv, LogIsNumbered, EndingsInPlace, disk, follower

LEMMA ExitSerial ==
  ASSUME Serial, SerialInv, NEW p \in Missions, Exit(p)
  PROVE  SerialInv'
<1>0. LogInv' /\ p \in Procs
  BY MissionLog, SerialFacts DEF SerialInv, MissionStep
<1>1. pc' = [pc EXCEPT ![p] = "gone"] /\ pc[p] = "leaving"
  BY DEF Exit, Goto
<1>2. OneAtATime'
  BY <1>0, MissionMoves, SerialFacts DEF SerialInv, Exit, Away, MissionPC, disk
<1>3. LockTellsWhoWorks'
  BY <1>0, <1>1, LockKept DEF Exit
<1> QED
  BY <1>0, <1>1, <1>2, <1>3, SerialFacts, SerialKeeps
  DEF Exit, SerialInv, LogIsNumbered, EndingsInPlace, disk, follower

-----------------------------------------------------------------------------
\* An append, by a mission or by a sweeper.  Nobody else is anywhere near the
\* log while a process is between these steps.

Appending(p) == pc[p] \in {"number", "write", "stamp", "merge", "mergeWrite"}

LEMMA AppendsAlone ==
  ASSUME SerialInv, NEW p \in Procs, Appending(p)
  PROVE  /\ \A q \in Procs : q # p => ~Appending(q)
         /\ \A q \in Missions : q # p =>
              Away(q) /\ q \notin touching
         /\ p \in Sweepers => ~\E q \in Missions : ~Away(q)
         /\ p \notin touching /\ ~Away(p) /\ created
<1>1. ~Away(p) /\ created /\ p \notin touching
  BY SerialFacts DEF SerialInv, OneAtATime, Appending, Away
<1>2. \A q \in Missions : q # p => Away(q)
  <2>1. CASE p \in Missions
    BY <1>1, <2>1 DEF SerialInv, OneAtATime
  <2>2. CASE p \in Sweepers
    BY <1>1, <2>2 DEF SerialInv, OneAtATime, Appending
  <2> QED BY <2>1, <2>2 DEF Procs
<1>3. \A q \in Sweepers : q # p => ~Appending(q)
  <2>1. CASE p \in Missions
    BY <1>1, <2>1 DEF SerialInv, OneAtATime, Appending, Away
  <2>2. CASE p \in Sweepers
    BY <1>1, <2>2 DEF SerialInv, OneAtATime, Appending, Away
  <2> QED BY <2>1, <2>2 DEF Procs
<1>4. \A q \in Missions : Away(q) => ~Appending(q) /\ q \notin touching
  BY SerialFacts DEF Away, Appending
<1> QED BY <1>1, <1>2, <1>3, <1>4, SerialFacts DEF Procs

LEMMA AppendMoves ==
  ASSUME SerialInv, NEW p \in Procs, Appending(p), NEW label, Goto(p, label),
         created' = created,
         label \in {"number", "write", "stamp"}
           \/ (p \in Missions /\ label \in {"run", "over"})
           \/ (p \in Sweepers /\ label \in {"merge", "mergeWrite", "idle"})
  PROVE  OneAtATime'
<1>1. CASE p \in Missions
  BY <1>1, MissionMoves, AppendsAlone, SerialFacts
  DEF SerialInv, MissionPC, Appending
<1>2. CASE p \in Sweepers
  BY <1>2, SweeperMoves, AppendsAlone, SerialFacts
  DEF SerialInv, SweeperPC, Appending
<1> QED BY <1>1, <1>2 DEF Procs

LEMMA NumberSerial ==
  ASSUME Serial, SerialInv, NEW p \in Procs, Number(p)
  PROVE  SerialInv'
<1>0. LogInv' /\ Appending(p)
  BY AppendLog DEF SerialInv, AppendStep, Number, Appending
<1>1. pc' = [pc EXCEPT ![p] = "write"] /\ pc[p] = "number"
  BY DEF Number, Goto
<1>2. OneAtATime'
  BY <1>0, AppendMoves DEF Number, disk
<1>3. LockTellsWhoWorks'
  BY <1>1, LockKept DEF Number
<1> QED
  BY <1>0, <1>1, <1>2, <1>3, SerialFacts, SerialKeeps
  DEF Number, SerialInv, LogIsNumbered, EndingsInPlace, disk, follower

\* The line a process writes is the next one.
LEMMA WritesNext ==
  ASSUME SerialInv, NEW p \in Procs, Write(p)
  PROVE  /\ Len(log) = lastSeq /\ num[p] = lastSeq
         /\ log' = Append(log, Envelope(p))
         /\ Envelope(p) = [seq |-> Len(log) + 1, rec |-> rec[p]]
         /\ Len(log') = Len(log) + 1 /\ Len(log) \in Nat
         /\ DOMAIN log = 1..Len(log) /\ DOMAIN log' = 1..Len(log')
         /\ \A i \in DOMAIN log : log'[i] = log[i]
         /\ log'[Len(log) + 1] = Envelope(p)
<1>0. Appending(p) /\ pc[p] = "write"
  BY DEF Write, Appending
<1>1. \A q \in Procs : pc[q] # "stamp"
  BY <1>0, AppendsAlone DEF Appending
<1>2. Len(log) = lastSeq /\ num[p] = lastSeq
  BY <1>0, <1>1 DEF SerialInv, LogIsNumbered
<1>3. log' = Append(log, Envelope(p)) /\ log \in Seq(Envelopes)
  BY SerialFacts DEF Write, LogWith, TypeOK
<1>4. Envelope(p) = [seq |-> Len(log) + 1, rec |-> rec[p]]
  BY <1>2 DEF Envelope
<1> QED BY <1>2, <1>3, <1>4

LEMMA WriteSerial ==
  ASSUME Serial, SerialInv, NEW p \in Procs, Write(p)
  PROVE  SerialInv'
<1>0. LogInv' /\ Appending(p)
  BY AppendLog DEF SerialInv, AppendStep, Write, Appending
<1>1. pc' = [pc EXCEPT ![p] = "stamp"] /\ pc[p] = "write"
  BY DEF Write, Goto
<1>2. OneAtATime'
  BY <1>0, AppendMoves DEF Write
<1>3. LockTellsWhoWorks'
  BY <1>1, LockKept DEF Write
<1>4. LogIsNumbered'
  <2>1. \A i \in DOMAIN log' : log'[i].seq = i
    <3> SUFFICES ASSUME NEW i \in DOMAIN log'
                 PROVE  log'[i].seq = i
      OBVIOUS
    <3>1. CASE i \in DOMAIN log
      BY <3>1, WritesNext DEF SerialInv, LogIsNumbered
    <3>2. CASE i = Len(log) + 1
      BY <3>2, WritesNext
    <3> QED BY <3>1, <3>2, WritesNext
  <2>2. Len(log') = lastSeq' + 1 /\ pc'[p] = "stamp"
    BY <1>1, WritesNext, SerialFacts DEF Write
  <2>3. \A q \in Procs : pc'[q] = "stamp" => q = p
    BY <1>0, <1>1, AppendsAlone, SerialFacts DEF Appending
  <2>4. \A q \in Procs :
          (pc'[q] \in {"write", "stamp", "mergeWrite"} \/ q \in touching')
            => num'[q] = lastSeq'
    BY <1>1, WritesNext, SerialFacts DEF Write, SerialInv, LogIsNumbered
  <2> QED BY <2>1, <2>2, <2>3, <2>4 DEF LogIsNumbered
<1>5. EndingsInPlace'
  <2>1. \A q \in Sweepers :
          /\ pc'[q] \in {"number", "write", "stamp"} => rec'[q] = "incomplete"
          /\ pc'[q] \notin {"number", "write"}
    BY <1>0, <1>1, AppendsAlone, SerialFacts
    DEF Write, SerialInv, EndingsInPlace, Appending
  <2>2. \A q \in Missions : pc'[q] \notin {"over", "leaving", "claim", "lock"}
    BY <1>0, <1>1, AppendsAlone, SerialFacts DEF Away
  <2> QED BY <2>1, <2>2 DEF EndingsInPlace
<1>6. FollowerUpToCursor'
  <2>1. cursor' = cursor /\ seen' = seen /\ cursor \in Nat
    BY SerialFacts DEF Write, follower, TypeOK
  <2>2. cursor =< Len(log')
    BY <2>1, WritesNext DEF SerialInv, FollowerUpToCursor
  <2> QED BY <2>1, <2>2 DEF SerialInv, FollowerUpToCursor
<1> QED BY <1>0, <1>2, <1>3, <1>4, <1>5, <1>6 DEF SerialInv

LEMMA StampSerial ==
  ASSUME Serial, SerialInv, NEW p \in Procs, Stamp(p)
  PROVE  SerialInv'
<1>0. LogInv' /\ Appending(p) /\ pc[p] = "stamp"
  BY AppendLog DEF SerialInv, AppendStep, Stamp, Appending
<1> DEFINE label == IF p \in Sweepers THEN "merge"
                    ELSE IF rec[p] \in Endings THEN "over" ELSE "run"
<1>1. pc' = [pc EXCEPT ![p] = label] /\ Goto(p, label)
  BY DEF Stamp, Goto
<1>2. OneAtATime'
  BY <1>0, <1>1, AppendMoves DEF Stamp, Procs
<1>3. LockTellsWhoWorks'
  BY <1>0, <1>1, LockKept, SerialFacts DEF Stamp
<1>4. lastSeq' = Len(log) /\ log' = log
  BY <1>0, SerialFacts DEF Stamp, Stamped, Envelope, SerialInv, LogIsNumbered
<1>5. \A r \in Procs : r # p => num'[r] = num[r] /\ rec'[r] = rec[r] /\ pc'[r] = pc[r]
  BY <1>1, SerialFacts DEF Stamp, Forget
<1>6. LogIsNumbered'
  <2>1. \A r \in Procs : pc'[r] # "stamp"
    BY <1>0, <1>1, <1>5, AppendsAlone, SerialFacts DEF Appending
  <2>2. \A r \in Procs : pc'[r] \notin {"write", "mergeWrite"} /\ r \notin touching'
    BY <1>0, <1>1, <1>5, AppendsAlone, SerialFacts DEF Appending, Stamp
  <2> QED BY <1>4, <2>1, <2>2 DEF SerialInv, LogIsNumbered
<1>7. EndingsInPlace'
  <2>1. \A q \in Sweepers : pc'[q] \notin {"number", "write", "stamp"}
    BY <1>0, <1>1, <1>5, AppendsAlone, SerialFacts DEF Appending
  <2>2. \A q \in Missions : q # p => pc'[q] \notin {"over", "leaving", "claim", "lock"}
    BY <1>0, <1>1, <1>5, AppendsAlone, SerialFacts DEF Away
  <2>3. ASSUME p \in Missions, pc'[p] \in {"over", "leaving", "claim", "lock"}
        PROVE  pc'[p] = "over" /\ EndingsAt' # {}
    <3>1. rec[p] \in Endings /\ pc'[p] = "over"
      BY <1>1, <2>3, SerialFacts
    <3>2. PICK i \in DOMAIN log : log[i] = Envelope(p)
      BY <1>0 DEF SerialInv, LogInv, NumbersFollowTheLog, OnLog
    <3>3. i \in EndingsAt'
      BY <1>4, <3>1, <3>2 DEF EndingsAt, Envelope
    <3> QED BY <3>1, <3>3
  <2> QED BY <2>1, <2>2, <2>3 DEF EndingsInPlace
<1>8. FollowerUpToCursor'
  BY <1>4 DEF Stamp, SerialInv, FollowerUpToCursor, follower
<1> QED BY <1>0, <1>2, <1>3, <1>6, <1>7, <1>8 DEF SerialInv

-----------------------------------------------------------------------------
\* A sweep, and the environment.

LEMMA SweepSerial ==
  ASSUME Serial, SerialInv, NEW q \in Sweepers, Sweep(q)
  PROVE  SerialInv'
<1>0. LogInv' /\ q \in Procs
  BY SweeperLog, SerialFacts DEF SerialInv, SweeperStep
<1>1. pc' = [pc EXCEPT ![q] = "probe"] /\ pc[q] = "idle" /\ created' = created /\ created
  BY DEF Sweep, Goto, disk
<1>2. \A r \in Sweepers : pc[r] = "idle"
  BY DEF Sweep, Serial
<1>3. \A p \in Missions : pc[p] \notin {"claim", "lock"}
  BY DEF Sweep, Serial
<1>4. OneAtATime'
  BY ZenonT(40), <1>0, <1>1, <1>2, <1>3, SerialFacts DEF SerialInv, OneAtATime, Away
<1>5. LockTellsWhoWorks'
  BY <1>0, LockKept, SerialFacts DEF Sweep
<1> QED
  BY <1>0, <1>1, <1>4, <1>5, SerialFacts, SerialKeeps
  DEF Sweep, SerialInv, LogIsNumbered, EndingsInPlace, disk, follower

\* A sweeper that finds the flock free finds at most a mission that has let go.
LEMMA ProbeSerial ==
  ASSUME Serial, SerialInv, NEW q \in Sweepers, Probe(q)
  PROVE  SerialInv'
<1>0. LogInv' /\ q \in Procs /\ pc[q] = "probe"
  BY SweeperLog, SerialFacts DEF SerialInv, SweeperStep, Probe
<1>1. PICK label \in {"idle", "scan"} :
        Goto(q, label) /\ (label = "scan" => lock = None)
  BY DEF Probe, Held
<1>2. ASSUME NEW p \in Missions, ~Away(p), label = "scan"
      PROVE  pc[p] = "leaving"
  <2>1. lock # p
    BY <1>1, <1>2, SerialFacts
  <2>2. pc[p] \notin {"run", "check", "number", "write", "stamp", "over"}
    BY <2>1 DEF SerialInv, LockTellsWhoWorks
  <2>3. pc[p] \notin {"claim", "lock"}
    BY <1>0, <1>2 DEF SerialInv, OneAtATime, Away
  <2> QED BY <1>2, <2>2, <2>3, SerialFacts DEF Away, MissionPC
<1>3. OneAtATime'
  BY <1>0, <1>1, <1>2, SweeperMoves, SerialFacts
  DEF Probe, SerialInv, Away, SweeperPC, disk
<1>4. LockTellsWhoWorks'
  BY <1>0, <1>1, LockKept, SerialFacts DEF Probe
<1>5. pc' = [pc EXCEPT ![q] = label]
  BY <1>1 DEF Goto
<1> QED
  BY <1>0, <1>1, <1>3, <1>4, <1>5, SerialFacts, SerialKeeps
  DEF Probe, SerialInv, LogIsNumbered, EndingsInPlace, disk, follower

\* A run a mission is still leaving has its ending, so the sweeper lets it be.
LEMMA ScanSerial ==
  ASSUME Serial, SerialInv, NEW q \in Sweepers, Scan(q)
  PROVE  SerialInv'
<1>0. LogInv' /\ q \in Procs /\ pc[q] = "scan"
  BY SweeperLog, SerialFacts DEF SerialInv, SweeperStep, Scan
<1>1. PICK label \in {"idle", "number"} :
        /\ Goto(q, label)
        /\ label = "idle" => rec' = rec
        /\ label = "number" =>
             RecordedOutcome = "none" /\ rec' = [rec EXCEPT ![q] = "incomplete"]
  BY DEF Scan
<1>2. label = "number" => EndingsAt = {}
  <2> SUFFICES ASSUME label = "number", EndingsAt # {}
               PROVE  FALSE
    OBVIOUS
  <2>1. PICK i \in EndingsAt : RecordedOutcome = log[i].rec
    <3>1. PICK n \in EndingsAt : \A m \in EndingsAt : m =< n
      BY LastEnding, SerialFacts
    <3> QED BY <3>1 DEF RecordedOutcome
  <2> QED BY <1>1, <2>1 DEF EndingsAt, Endings, Resumable, Concluded
<1>3. ASSUME NEW p \in Missions, ~Away(p)
      PROVE  label = "idle"
  <2>1. pc[p] = "leaving"
    BY <1>0, <1>3 DEF SerialInv, OneAtATime, Away
  <2> QED BY <1>2, <2>1 DEF SerialInv, EndingsInPlace
<1>4. OneAtATime'
  BY <1>0, <1>1, <1>3, SweeperMoves, SerialFacts
  DEF Scan, SerialInv, Away, SweeperPC, disk
<1>5. LockTellsWhoWorks'
  BY <1>0, <1>1, LockKept, SerialFacts DEF Scan
<1>6. pc' = [pc EXCEPT ![q] = label]
  BY <1>1 DEF Goto
<1>7. rec'[q] = "incomplete" \/ label = "idle"
  BY <1>0, <1>1, SerialFacts
<1>8. \A r \in Procs : r # q => rec'[r] = rec[r]
  BY <1>1, SerialFacts
<1> QED
  BY <1>0, <1>1, <1>2, <1>4, <1>5, <1>6, <1>7, <1>8, SerialFacts, SerialKeeps
  DEF Scan, SerialInv, LogIsNumbered, EndingsInPlace, disk, follower

LEMMA MergeReadSerial ==
  ASSUME Serial, SerialInv, NEW q \in Sweepers, MergeRead(q)
  PROVE  SerialInv'
<1>0. LogInv' /\ q \in Procs /\ Appending(q)
  BY SweeperLog, SerialFacts DEF SerialInv, SweeperStep, MergeRead, Appending
<1>1. pc' = [pc EXCEPT ![q] = "mergeWrite"] /\ pc[q] = "merge"
  BY DEF MergeRead, Goto
<1>2. OneAtATime'
  BY <1>0, AppendMoves DEF MergeRead, disk
<1>3. LockTellsWhoWorks'
  BY <1>0, LockKept, SerialFacts DEF MergeRead
<1> QED
  BY <1>0, <1>1, <1>2, <1>3, AppendsAlone, SerialFacts, SerialKeeps
  DEF MergeRead, SerialInv, LogIsNumbered, EndingsInPlace, disk, follower

LEMMA MergeWriteSerial ==
  ASSUME Serial, SerialInv, NEW q \in Sweepers, MergeWrite(q)
  PROVE  SerialInv'
<1>0. LogInv' /\ q \in Procs /\ Appending(q)
  BY SweeperLog, SerialFacts DEF SerialInv, SweeperStep, MergeWrite, Appending
<1>1. pc' = [pc EXCEPT ![q] = "idle"] /\ pc[q] = "mergeWrite"
  BY DEF MergeWrite, Goto
<1>2. OneAtATime'
  BY <1>0, AppendMoves DEF MergeWrite
<1>3. LockTellsWhoWorks'
  BY <1>0, LockKept, SerialFacts DEF MergeWrite
<1>4. lastSeq' = lastSeq
  BY <1>0, <1>1 DEF MergeWrite, SerialInv, LogIsNumbered
<1>5. \A r \in Procs : r # q => num'[r] = num[r] /\ rec'[r] = rec[r]
  BY SerialFacts DEF MergeWrite, Forget
<1>6. q \notin touching
  BY <1>0, AppendsAlone
<1> QED
  BY <1>0, <1>1, <1>2, <1>3, <1>4, <1>5, <1>6, SerialFacts, SerialKeeps
  DEF MergeWrite, SerialInv, LogIsNumbered, EndingsInPlace, follower

LEMMA DieSerial ==
  ASSUME Serial, SerialInv, NEW p \in Procs, Die(p)
  PROVE  SerialInv'
<1>0. LogInv'
  BY DieLog DEF SerialInv, Serial
<1> DEFINE label == IF p \in Missions THEN "gone" ELSE "idle"
<1>1. pc' = [pc EXCEPT ![p] = label] /\ Goto(p, label) /\ ~Away(p) /\ pc[p] # "stamp"
  BY DEF Die, Goto, Away, Serial
<1>2. created' = created /\ log' = log /\ lastSeq' = lastSeq /\ touching' = touching \ {p}
      /\ cursor' = cursor /\ seen' = seen
  BY DEF Die, follower
<1>3. OneAtATime'
  BY <1>1, <1>2, MissionMoves, SweeperMoves, SerialFacts
  DEF SerialInv, MissionPC, SweeperPC, Procs
<1>4. LockTellsWhoWorks'
  BY <1>1, LockDropped DEF Die
<1>5. \A r \in Procs : r # p => num'[r] = num[r] /\ rec'[r] = rec[r] /\ pc'[r] = pc[r]
  BY <1>1, SerialFacts DEF Die, Forget
<1> QED
  BY <1>0, <1>1, <1>2, <1>3, <1>4, <1>5, SerialFacts, SerialKeeps
  DEF SerialInv, LogIsNumbered, EndingsInPlace

\* One turn of the follower brings it up to the end of the log.
LEMMA FollowSerial ==
  ASSUME Serial, SerialInv, Follow
  PROVE  SerialInv'
<1>0. LogInv'
  BY LogStep DEF SerialInv, Serial, Next
<1>1. /\ Len(log) \in Nat /\ DOMAIN log = 1..Len(log) /\ cursor \in Nat
      /\ \A i \in DOMAIN log : log[i].seq = i
      /\ cursor =< Len(log) /\ seen = 1..cursor
  BY LogShape, SerialFacts DEF SerialInv, LogIsNumbered, FollowerUpToCursor, TypeOK
<1>2. Unread = (cursor + 1)..Len(log)
  BY <1>1 DEF Unread
<1>3. cursor' = Len(log) /\ Len(log) > cursor
  <2>1. PICK i \in Unread : (\A j \in Unread : log[j].seq =< log[i].seq) /\ cursor' = log[i].seq
    BY DEF Follow
  <2>2. i \in DOMAIN log /\ Len(log) \in Unread /\ log[Len(log)].seq = Len(log)
    BY <1>1, <1>2, <2>1
  <2> QED BY <1>1, <1>2, <2>1, <2>2
<1>4. seen' = 1..Len(log)
  BY <1>1, <1>2, <1>3 DEF Follow
<1>5. log' = log /\ created' = created /\ lastSeq' = lastSeq
      /\ UNCHANGED <<lock, mark, pc, rec, num, touching>>
  BY DEF Follow, disk
<1>6. FollowerUpToCursor'
  BY <1>1, <1>3, <1>4, <1>5 DEF FollowerUpToCursor
<1>7. OneAtATime' /\ LockTellsWhoWorks' /\ LogIsNumbered'
  BY <1>5 DEF SerialInv, OneAtATime, LockTellsWhoWorks, LogIsNumbered, Away
<1>8. EndingsInPlace'
  BY <1>5 DEF SerialInv, EndingsInPlace, EndingsAt,
              RunLogOf!IsConcluded, RunLogOf!EndingsAt
<1> QED BY <1>0, <1>6, <1>7, <1>8 DEF SerialInv

LEMMA SerialStep ==
  ASSUME Serial, SerialInv, [Next]_vars
  PROVE  SerialInv'
<1>1. ASSUME NEW p \in Missions, Create(p) \/ Admit(p) \/ MissionStep(p)
      PROVE  SerialInv'
  <2>1. p \in Procs
    BY DEF Procs
  <2> QED
    BY <1>1, <2>1, CreateSerial, AdmitSerial, WatermarkSerial, TakeLockSerial,
       EmitSerial, CheckSerial, NumberSerial, WriteSerial, StampSerial,
       TouchReadSerial, TouchWriteSerial, ReleaseSerial, ExitSerial
    DEF MissionStep, AppendStep
<1>2. ASSUME NEW q \in Sweepers, SweeperStep(q)
      PROVE  SerialInv'
  <2>1. q \in Procs
    BY DEF Procs
  <2> QED
    BY <1>2, <2>1, SweepSerial, ProbeSerial, ScanSerial, NumberSerial, WriteSerial,
       StampSerial, MergeReadSerial, MergeWriteSerial
    DEF SweeperStep, AppendStep
<1>3. ASSUME NEW p \in Procs, Die(p)
      PROVE  SerialInv'
  BY <1>3, DieSerial
<1>4. CASE Follow
  BY <1>4, FollowSerial
<1>5. CASE WindowPasses \/ UNCHANGED vars
  <2>1. LogInv'
    BY <1>5, LogStep DEF SerialInv, Serial, Next
  <2>2. /\ log' = log /\ created' = created /\ lastSeq' = lastSeq
        /\ lock' = lock /\ pc' = pc /\ rec' = rec /\ num' = num
        /\ touching' = touching /\ cursor' = cursor /\ seen' = seen
    BY <1>5 DEF WindowPasses, vars, disk, follower
  <2>3. OneAtATime' /\ LockTellsWhoWorks'
    BY <2>2 DEF SerialInv, OneAtATime, LockTellsWhoWorks, Away
  <2> QED
    BY <2>1, <2>2, <2>3, SerialKeeps DEF SerialInv, LogIsNumbered, EndingsInPlace
<1> QED BY <1>1, <1>2, <1>3, <1>4, <1>5 DEF Next

LEMMA InitSerial ==
  ASSUME Init
  PROVE  SerialInv
<1>1. \A p \in Procs : pc[p] \in {"unborn", "idle"}
  BY DEF Init
<1>2. Missions \subseteq Procs /\ Sweepers \subseteq Procs
  BY DEF Procs
<1>3. OneAtATime
  BY <1>1, <1>2 DEF Init, OneAtATime, Away
<1>4. LockTellsWhoWorks
  BY <1>1, <1>2, SwitchesAssumption DEF Init, LockTellsWhoWorks
<1>5. LogIsNumbered /\ FollowerUpToCursor
  BY <1>1 DEF Init, LogIsNumbered, FollowerUpToCursor
<1>6. EndingsInPlace
  BY <1>1, <1>2 DEF Init, EndingsInPlace
<1> QED BY <1>3, <1>4, <1>5, <1>6, InitLog DEF SerialInv

LEMMA SerialCorrect ==
  ASSUME Serial
  PROVE  Spec => []SerialInv
<1>1. Init => SerialInv
  BY InitSerial
<1>2. SerialInv /\ [Next]_vars => SerialInv'
  BY SerialStep
<1> QED BY <1>1, <1>2, PTL DEF Spec

\* Where resumes and sweeps do not overlap and no process dies between a line
\* and its number, a follower that was handed a record was handed every
\* earlier one, however the follower's turns fall among the appends: no record
\* reuses a number it has read past.
THEOREM FollowerSeesAll ==
  ASSUME Serial
  PROVE  Spec => []FollowerMissesNothing
<1>1. SerialInv => FollowerMissesNothing
  <2> SUFFICES ASSUME SerialInv, NEW i \in seen
               PROVE  1..i \subseteq seen
    BY DEF FollowerMissesNothing
  <2>1. seen = 1..cursor /\ cursor \in Nat
    BY SerialFacts DEF SerialInv, FollowerUpToCursor, TypeOK
  <2> QED BY <2>1
<1> QED BY <1>1, SerialCorrect, PTL

-----------------------------------------------------------------------------
\* The directory implements RunLog.

\* At most one mission has a stretch open, and no sweeper writes meanwhile.
LEMMA WorksAlone ==
  ASSUME SerialInv, NEW p \in Missions, ~Away(p)
  PROVE  \A q \in Missions : q # p => ~Working(q)
  BY DEF SerialInv, OneAtATime, Working, Away

LEMMA SameStretch ==
  ASSUME log' = log, \A p \in Missions : Working(p)' <=> Working(p)
  PROVE  UNCHANGED RunLogOf!vars
  BY DEF RunLogOf!vars

\* A step that moves one mission and leaves the log alone.
LEMMA QuietMove ==
  ASSUME SerialInv, NEW p \in Missions, NEW label, Goto(p, label), log' = log,
         \A q \in Missions : q # p => rec'[q] = rec[q],
         label \in {"run", "check", "number", "write"} <=> Working(p),
         label # "stamp"
  PROVE  UNCHANGED RunLogOf!vars
<1>1. pc'[p] = label /\ \A q \in Missions : q # p => pc'[q] = pc[q]
  BY SerialFacts DEF Goto
<1>2. \A q \in Missions : Working(q)' <=> Working(q)
  BY <1>1 DEF Working
<1> QED BY <1>2, SameStretch

LEMMA TakeLockClaims ==
  ASSUME SerialInv, NEW p \in Missions, TakeLock(p)
  PROVE  RunLogOf!Claim
<1>1. ~Away(p) /\ pc[p] = "lock" /\ pc'[p] = "run"
  BY SerialFacts DEF TakeLock, Away, Goto
<1>2. ~ \E q \in Missions : Working(q)
  BY <1>1, WorksAlone DEF Working
<1>3. Working(p)'
  BY <1>1 DEF Working
<1>4. ~RunLogOf!IsConcluded
  BY <1>1 DEF SerialInv, EndingsInPlace
<1> QED BY <1>2, <1>3, <1>4 DEF RunLogOf!Claim, TakeLock, disk

\* The stretch of a mission that stops short of its ending.
LEMMA StopsWorking ==
  ASSUME SerialInv, NEW p \in Missions, Working(p), NEW label, Goto(p, label),
         label \in {"over", "gone"}, log' = log
  PROVE  RunLogOf!Lapse
<1>1. ~Away(p)
  BY DEF Working, Away
<1>2. pc'[p] = label /\ \A q \in Missions : q # p => pc'[q] = pc[q]
  BY SerialFacts DEF Goto
<1>3. ASSUME NEW q \in Missions
      PROVE  ~Working(q)'
  <2>1. CASE q = p
    BY <1>2, <2>1 DEF Working
  <2>2. CASE q # p
    <3>1. Away(q)
      BY <1>1, <2>2 DEF SerialInv, OneAtATime
    <3> QED BY <1>2, <2>2, <3>1 DEF Working, Away
  <2> QED BY <2>1, <2>2
<1> QED BY <1>3 DEF RunLogOf!Lapse

LEMMA CheckRefines ==
  ASSUME SerialInv, NEW p \in Missions, Check(p)
  PROVE  RunLogOf!Lapse \/ UNCHANGED RunLogOf!vars
<1>1. Working(p) /\ log' = log
  BY DEF Check, Working, disk
<1>2. CASE Goto(p, "over")
  BY <1>1, <1>2, StopsWorking
<1>3. CASE Goto(p, "number") /\ rec' = rec
  BY <1>1, <1>3, QuietMove
<1> QED BY <1>2, <1>3 DEF Check

LEMMA MissionWriteRefines ==
  ASSUME SerialInv, NEW p \in Missions, Write(p)
  PROVE  \/ \E r \in {"started", "step"} : RunLogOf!Emit(r)
         \/ \E r \in Endings : RunLogOf!Finish(r)
<1>0. p \in Procs /\ pc[p] = "write" /\ pc'[p] = "stamp" /\ rec' = rec
      /\ \A q \in Missions : q # p => pc'[q] = pc[q]
  BY SerialFacts DEF Write, Goto
<1>1. ~Away(p) /\ Working(p)
  BY <1>0 DEF Away, Working
<1>2. log' = Append(log, RunLogOf!Numbered(rec[p]))
  BY <1>0, WritesNext DEF RunLogOf!Numbered
<1>3. rec[p] \in Records
  BY <1>0, SerialFacts
<1>4. CASE rec[p] \in Endings
  <2>1. \A q \in Missions : ~Working(q)'
    <3> SUFFICES ASSUME NEW q \in Missions
                 PROVE  ~Working(q)'
      OBVIOUS
    <3>1. CASE q = p
      BY <1>0, <1>4, <3>1 DEF Working
    <3>2. CASE q # p
      <4>1. Away(q)
        BY <1>1, <3>2 DEF SerialInv, OneAtATime
      <4> QED BY <1>0, <3>2, <4>1 DEF Working, Away
    <3> QED BY <3>1, <3>2
  <2>2. RunLogOf!Finish(rec[p])
    BY <1>1, <1>2, <2>1 DEF RunLogOf!Finish
  <2> QED BY <1>4, <2>2
<1>5. CASE rec[p] \in {"started", "step"} /\ rec[p] \notin Endings
  <2>1. Working(p)'
    BY <1>0, <1>5 DEF Working
  <2>2. RunLogOf!Emit(rec[p])
    BY <1>1, <1>2, <2>1 DEF RunLogOf!Emit
  <2> QED BY <1>5, <2>2
<1> QED BY <1>3, <1>4, <1>5 DEF Records

LEMMA SweeperWriteRefines ==
  ASSUME SerialInv, NEW q \in Sweepers, Write(q)
  PROVE  RunLogOf!CloseOrphan
<1>0. q \in Procs /\ Appending(q) /\ pc[q] = "write" /\ rec' = rec
      /\ \A p \in Missions : pc'[p] = pc[p]
  BY SerialFacts DEF Write, Goto, Appending
<1>1. \A p \in Missions : ~Working(p) /\ ~Working(p)'
  BY <1>0, AppendsAlone DEF Working, Away
<1>2. log' = Append(log, RunLogOf!Numbered("incomplete"))
  BY <1>0, WritesNext DEF RunLogOf!Numbered, SerialInv, EndingsInPlace
<1>3. RunLogOf!EndingsAt = {}
  BY <1>0 DEF SerialInv, EndingsInPlace, EndingsAt, Endings,
              RunLogOf!EndingsAt, RunLogOf!Endings
<1> QED BY <1>1, <1>2, <1>3 DEF RunLogOf!CloseOrphan

LEMMA MissionRefines ==
  ASSUME SerialInv, NEW p \in Missions, Create(p) \/ Admit(p) \/ MissionStep(p)
  PROVE  RunLogOf!Next \/ UNCHANGED RunLogOf!vars
<1>1. CASE Create(p) \/ Admit(p) \/ Watermark(p)
  BY <1>1, QuietMove DEF Create, Admit, Watermark, Working, disk
<1>2. CASE TakeLock(p)
  BY <1>2, TakeLockClaims DEF RunLogOf!Next
<1>3. ASSUME NEW r \in Records, Emit(p, r)
      PROVE  UNCHANGED RunLogOf!vars
  <2>1. \A q \in Missions : q # p => rec'[q] = rec[q]
    BY <1>3, SerialFacts DEF Emit
  <2> QED BY <1>3, <2>1, QuietMove DEF Emit, Working, disk
<1>4. CASE Check(p)
  BY <1>4, CheckRefines DEF RunLogOf!Next
<1>5. CASE Number(p)
  BY <1>5, QuietMove DEF Number, Working, disk
<1>6. CASE Write(p)
  BY <1>6, MissionWriteRefines DEF RunLogOf!Next, RunLogOf!Endings, Endings
<1>7. CASE Stamp(p)
  <2>1. \A q \in Missions : q # p => rec'[q] = rec[q]
    BY <1>7, SerialFacts DEF Stamp, Forget
  <2>2. p \notin Sweepers /\ log' = log /\ pc[p] = "stamp"
    BY <1>7, SerialFacts DEF Stamp
  <2>3. CASE rec[p] \in Endings
    BY <1>7, <2>1, <2>2, <2>3, QuietMove DEF Stamp, Working
  <2>4. CASE rec[p] \notin Endings
    BY <1>7, <2>1, <2>2, <2>4, QuietMove DEF Stamp, Working
  <2> QED BY <2>3, <2>4
<1>8. CASE TouchRead(p)
  BY <1>8, SameStretch DEF TouchRead, Working, disk
<1>9. CASE TouchWrite(p)
  <2>1. \A q \in Missions : pc'[q] = pc[q] /\ (rec'[q] = rec[q] \/ q = p)
    BY <1>9, SerialFacts DEF TouchWrite, Forget
  <2>2. pc[p] # "stamp"
    BY <1>9, SerialFacts DEF TouchWrite
  <2>3. \A q \in Missions : Working(q)' <=> Working(q)
    BY <2>1, <2>2 DEF Working
  <2> QED BY <1>9, <2>3, SameStretch DEF TouchWrite
<1>10. CASE Release(p) \/ Exit(p)
  BY <1>10, QuietMove DEF Release, Exit, Working, disk
<1> QED
  BY <1>1, <1>2, <1>3, <1>4, <1>5, <1>6, <1>7, <1>8, <1>9, <1>10
  DEF MissionStep, AppendStep

LEMMA SweeperRefines ==
  ASSUME SerialInv, NEW q \in Sweepers, SweeperStep(q)
  PROVE  RunLogOf!Next \/ UNCHANGED RunLogOf!vars
<1>1. CASE Write(q)
  BY <1>1, SweeperWriteRefines DEF RunLogOf!Next
<1>2. CASE ~Write(q)
  <2>1. log' = log
    BY <1>2 DEF SweeperStep, AppendStep, Sweep, Probe, Scan, Number, Stamp,
                MergeRead, MergeWrite, disk
  <2>2. \A p \in Missions : pc'[p] = pc[p]
    BY <1>2, SerialFacts
    DEF SweeperStep, AppendStep, Sweep, Probe, Scan, Number, Stamp,
        MergeRead, MergeWrite, Goto
  <2>3. \A p \in Missions : rec'[p] = rec[p]
    BY <1>2, SerialFacts
    DEF SweeperStep, AppendStep, Sweep, Probe, Scan, Number, Stamp,
        MergeRead, MergeWrite, Forget
  <2> QED BY <2>1, <2>2, <2>3, SameStretch DEF Working
<1> QED BY <1>1, <1>2

LEMMA DieRefines ==
  ASSUME Serial, SerialInv, NEW p \in Procs, Die(p)
  PROVE  RunLogOf!Next \/ UNCHANGED RunLogOf!vars
<1>1. log' = log /\ \A q \in Procs : q # p => rec'[q] = rec[q] /\ pc'[q] = pc[q]
  BY SerialFacts DEF Die, Forget, Goto
<1>2. CASE p \in Missions /\ Working(p)
  BY <1>1, <1>2, StopsWorking DEF Die, RunLogOf!Next
<1>3. CASE p \in Missions /\ ~Working(p)
  BY <1>1, <1>3, QuietMove, SerialFacts DEF Die
<1>4. CASE p \notin Missions
  BY <1>1, <1>4, SameStretch, SerialFacts DEF Working
<1> QED BY <1>2, <1>3, <1>4

LEMMA RefinesStep ==
  ASSUME Serial, SerialInv, [Next]_vars
  PROVE  [RunLogOf!Next]_(RunLogOf!vars)
<1>1. CASE WindowPasses \/ Follow \/ UNCHANGED vars
  <2>1. log' = log /\ \A p \in Missions : Working(p)' <=> Working(p)
    BY <1>1 DEF WindowPasses, Follow, vars, disk, Working
  <2> QED BY <2>1, SameStretch
<1> QED BY <1>1, MissionRefines, SweeperRefines, DieRefines DEF Next

\* In serial use the files, the flock and the processes implement the run log
\* they are there to provide: every file access is one step of RunLog or none.
\* Records are numbered from one without a hole, a stretch writes one ending,
\* nothing follows a conclusion, and a sweep writes only where no stretch is
\* open and no ending stands.
THEOREM ImplementsRunLog ==
  ASSUME Serial
  PROVE  Spec => RefinesRunLog
<1>1. Init => RunLogOf!Init
  BY SwitchesAssumption DEF Init, RunLogOf!Init, Working, Procs
<1>2. SerialInv /\ [Next]_vars => [RunLogOf!Next]_(RunLogOf!vars)
  BY RefinesStep
<1> QED BY <1>1, <1>2, SerialCorrect, PTL DEF Spec, RefinesRunLog, RunLogOf!Spec
=============================================================================
