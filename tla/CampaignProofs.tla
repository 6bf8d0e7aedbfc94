--------------------------- MODULE CampaignProofs ---------------------------
(***************************************************************************)
(* Proofs about Campaign, for any proposals, plans, bounds and number of   *)
(* deaths.  In order:                                                      *)
(*   - where writing the approved plan down does not fail, what runs is    *)
(*     what somebody said yes to (ReadInv: what the disk holds, since      *)
(*     whether a resumed process is a campaign's is read off it);          *)
(*   - lists: what is left of one by a filter, and what a fold over one    *)
(*     makes, by counting up its places; what toposort makes of a plan;    *)
(*   - TurnInv, what a process of a staged turn has in hand and what it    *)
(*     left on the disk, and Recorded, the same of a campaign's plan: no   *)
(*     settled step is run again;                                          *)
(*   - Accounted: one ceiling for all the waves and processes of a turn;   *)
(*   - AnsweredInv: an answer without a caveat is to the whole plan;       *)
(*   - DeliveredInv: a step that is started finds what it takes;           *)
(*   - InTurn: what is queued, and what is out, comes after what it needs; *)
(*     with it every step of a campaign is a step of PlanLog, or none,     *)
(*     on the checkpoint.                                                  *)
(***************************************************************************)
EXTENDS Campaign, FiniteSetTheorems, WellFoundedInduction, TLAPS

\* A campaign's own process: its plan has had its yes once anything was said,
\* and is on record before the first checkpoint and the first wave.
AsCampaign ==
    runner = "campaign" =>
        /\ proposal # NoPlan
        /\ said # "unasked" => proposal \in yes
        /\ said = "remembered" => record = proposal
        /\ (pc = "working" \/ wave # << >> \/ meta # NoPlan)
              => said = "remembered"
        /\ (pc = "working" \/ wave # << >>) => plan = AsPlanSteps(proposal)

\* Any other process on a run that had a yes came too early for the record:
\* there is nothing staged for it to carry on.
AsOther ==
    runner # "campaign" =>
        /\ record = NoPlan
        /\ yes # {} => meta = NoPlan /\ wave = << >>
                        /\ pc \notin {"triage", "working"}

ReadInv ==
    /\ AsCampaign
    /\ AsOther
    /\ record # NoPlan => record \in yes


-----------------------------------------------------------------------------
(* What the steps of the turn do to what ReadInv speaks of. *)

\* A staged turn's own work keeps its plan and starts no wave.
LEMMA WorksQuietly ==
    ASSUME Works
    PROVE  /\ plan' = plan
           /\ pc' # "triage" /\ (pc' = "working" => pc = "working")
           /\ wave' = wave \/ wave' = << >>
           /\ wave' # << >> => wave # << >>
           /\ meta' # NoPlan => meta # NoPlan \/ pc = "working"
<1>1. ASSUME NEW id \in DOMAIN child,
             ChildEnds(id) \/ GateReview(id) \/ BoundaryReview
      PROVE  AtWork /\ UNCHANGED <<pc, plan, wave, meta>>
  BY <1>1 DEF ChildEnds, GateReview, BoundaryReview, turn, gather, disk
<1>2. ASSUME NEW id \in DOMAIN child, ChildRaises(id)
      PROVE  /\ AtWork /\ pc' \in {"closing", pc} /\ pc' # "working"
             /\ UNCHANGED <<plan, wave, meta>>
  BY <1>2 DEF ChildRaises, AtWork, turn, disk
<1>3. ASSUME Settle
      PROVE  pc = "working" /\ UNCHANGED <<pc, plan, wave>>
  BY <1>3 DEF Settle
<1>4. ASSUME Holds \/ StoppedInWave \/ StoppedAtEnd \/ Synthesizes
      PROVE  pc' = "closing" /\ UNCHANGED <<plan, wave, meta>>
  BY <1>4 DEF Holds, StoppedInWave, StoppedAtEnd, Stopped, Synthesizes,
              turn, gather, disk
<1>5. ASSUME Carries \/ Drops
      PROVE  /\ pc = "working" /\ wave' = << >>
             /\ UNCHANGED <<pc, plan, meta>>
  BY <1>5 DEF Carries, Drops, WaveEnds, WaveIsSettled, turn, disk
<1>6. ASSUME Closes
      PROVE  pc' = "closed" /\ UNCHANGED <<plan, wave, meta>>
  BY <1>6 DEF Closes, turn, gather, disk
<1>7. BoundaryReview => \E id \in DOMAIN child : TRUE
  BY DEF BoundaryReview
<1>. QED  BY <1>1, <1>2, <1>3, <1>4, <1>5, <1>6, <1>7 DEF Works, AtWork

\* Where a turn is neither planning nor working, only its endings are left,
\* and what its children still do.
LEMMA StepsAtRest ==
    ASSUME Steps, pc \notin {"triage", "working"}
    PROVE  /\ pc' \notin {"triage", "working"}
           /\ UNCHANGED <<wave, meta>>
<1>1. ~(GoesDirect \/ DrawsPlan \/ StartWave \/ Gathered \/ Redraws)
  BY DEF GoesDirect, DrawsPlan, StartWave, StartWaveOf, Gathered, GatheredAs,
         Redraws, WaveIsSettled
<1>2. ~(Stopped({"triage"}) \/ StoppedInWave \/ StoppedAtEnd)
  BY DEF Stopped, StoppedInWave, StoppedAtEnd
<1>3. ~(Settle \/ Holds \/ Carries \/ Drops \/ Synthesizes)
  BY DEF Settle, Holds, Carries, Drops, Synthesizes, WaveIsSettled
<1>4. ASSUME NEW id \in DOMAIN child,
             ChildEnds(id) \/ ChildRaises(id) \/ GateReview(id)
      PROVE  UNCHANGED <<pc, wave, meta>>
  BY <1>4 DEF ChildEnds, ChildRaises, GateReview, disk
<1>5. CASE DirectEnds \/ Closes \/ BoundaryReview
  BY <1>5 DEF DirectEnds, Closes, BoundaryReview, gather, disk
<1>. QED  BY <1>1, <1>2, <1>3, <1>4, <1>5 DEF Steps, Works

-----------------------------------------------------------------------------
(* The invariant. *)

\* ReadInv holds at the start.
LEMMA ReadInit == CampaignInit => ReadInv
  BY CampaignAssumption
     DEF CampaignInit, Init, ReadInv, AsCampaign, AsOther

\* Every step of a campaign that keeps its writes keeps it.
LEMMA ReadStep ==
    ASSUME ReadInv, CampaignNext, ~LosesWrites
    PROVE  ReadInv'
<1>. USE DEF ReadInv, AsCampaign, AsOther
<1>1. CASE StagedSteps
  <2>1. runner = "staged" /\ Steps
        /\ UNCHANGED <<runner, proposal, said, yes, record>>
    BY <1>1 DEF StagedSteps, campaign, approval
  <2>2. CASE yes = {}
    BY <2>1, <2>2
  <2>3. CASE yes # {}
    <3>1. pc \notin {"triage", "working"}
      BY <2>1, <2>3
    <3>2. pc' \notin {"triage", "working"} /\ UNCHANGED <<wave, meta>>
      BY <2>1, <3>1, StepsAtRest
    <3>. QED  BY <2>1, <2>3, <3>2
  <2>. QED  BY <2>2, <2>3
<1>2. CASE CampaignSteps
  <2>. runner = "campaign"
    BY <1>2 DEF CampaignSteps
  <2>1. ASSUME NEW p, p # NoPlan, SaysYes(p)
        PROVE  ReadInv'
    BY <2>1 DEF SaysYes, Unasked, vars, turn, gather, disk
  <2>2. CASE DeclinesToAsk
    BY <2>1, <2>2 DEF DeclinesToAsk
  <2>3. CASE EditsPlan
    BY <2>1, <2>3, CampaignAssumption DEF EditsPlan
  <2>4. CASE SpendsTicket
    BY <2>4 DEF SpendsTicket, TicketMatches, Unasked, vars, turn, gather, disk
  <2>5. CASE TicketIsSpent \/ AwaitsApproval
    BY <2>5 DEF TicketIsSpent, AwaitsApproval, Unasked, campaign, approval,
                turn, gather, disk
  <2>6. CASE StoppedUnasked
    BY <2>6 DEF StoppedUnasked, Stopped, Unasked, campaign, approval, turn,
                gather, disk
  <2>7. CASE Remembers
    BY <2>7 DEF Remembers, vars, turn, gather, disk
  <2>8. CASE Begins
    BY <2>8 DEF Begins, Begin, campaign, approval, gather
  <2>9. CASE StartCampaignWave
    BY <2>9 DEF StartCampaignWave, StartWaveOf, approval, disk
  <2>10. CASE CampaignGathered
    BY <2>10 DEF CampaignGathered, GatheredAs, approval, disk
  <2>11. CASE Works /\ UNCHANGED campaign
    BY <2>11, WorksQuietly DEF campaign, approval
  <2>. QED  BY <1>2, <2>2, <2>3, <2>4, <2>5, <2>6, <2>7, <2>8, <2>9, <2>10,
               <2>11 DEF CampaignSteps
<1>3. CASE \E id \in DOMAIN child : WritesExport(id)
  BY <1>3 DEF WritesExport, approval, vars, turn, gather, disk
<1>4. CASE (StopArrives \/ Dies) /\ UNCHANGED campaign
  BY <1>4 DEF StopArrives, Dies, campaign, approval, turn, gather, disk
<1>5. CASE ResumesCampaign
  BY <1>5 DEF ResumesCampaign, ResumesWith
<1>6. CASE ResumesHalfWritten
  BY <1>6 DEF ResumesHalfWritten, Resumable, campaign, approval, turn, gather,
              disk
<1>7. CASE ResumesOther
  <2>1. meta # NoPlan => yes = {}
    BY <1>7 DEF ResumesOther
  <2>2. CASE Resumes
    BY <1>7, <2>1, <2>2 DEF ResumesOther, Resumes, ResumesWith
  <2>3. CASE ResumesDirect
    BY <1>7, <2>1, <2>3 DEF ResumesOther, ResumesDirect, gather, disk
  <2>. QED  BY <1>7, <2>2, <2>3 DEF ResumesOther
<1>. QED  BY <1>1, <1>2, <1>3, <1>4, <1>5, <1>6, <1>7 DEF CampaignNext

\* So does no step at all.
LEMMA ReadStutter ==
    ASSUME ReadInv, UNCHANGED cvars
    PROVE  ReadInv'
  BY DEF ReadInv, AsCampaign, AsOther, cvars, vars, campaign, approval, turn,
         gather, disk

\* Where the approved plan is written down for good, no step of a campaign
\* starts, in any process on the run, unless the plan it is of was said yes
\* to, and no other runner takes the campaign over: campaign.py's _approve,
\* arun and resumed_campaign together.
THEOREM CampaignPlanWasRead == ~LosesWrites => (CampaignSpec => []PlanWasRead)
<1>. SUFFICES ASSUME ~LosesWrites
              PROVE  CampaignSpec => []PlanWasRead
  OBVIOUS
<1>1. ReadInv /\ [CampaignNext]_cvars => ReadInv'
  BY ReadStep, ReadStutter
<1>2. ReadInv => PlanWasRead
  BY DEF ReadInv, AsCampaign, AsOther, PlanWasRead
<1>. QED  BY <1>1, <1>2, ReadInit, PTL DEF CampaignSpec

-----------------------------------------------------------------------------
(* Lists: places, filters and folds. *)

\* A set of numbers has a least one.
LEMMA LeastNatural ==
    ASSUME NEW S \in SUBSET Nat, S # {}
    PROVE  \E m \in S : \A n \in S : m =< n
<1>1. PICK m \in S : \A n \in S : ~ (<<n, m>> \in OpToRel(<, Nat))
  BY WFMin, NatLessThanWellFounded
<1>2. \A n \in S : ~ (n < m)
  BY <1>1 DEF OpToRel
<1>. QED  BY <1>2

\* Counting the places of a list.
LEMMA UptoCounts ==
    ASSUME NEW m \in Nat, NEW P \in SUBSET (1..m)
    PROVE  /\ IsFiniteSet(P) /\ Cardinality(P) \in Nat
           /\ \A i \in Nat : Upto(P, i) \in 0..Cardinality(P)
           /\ Upto(P, 0) = 0 /\ Upto(P, m) = Cardinality(P)
           /\ \A i \in Nat : Upto(P, i + 1) = IF i + 1 \in P THEN Upto(P, i) + 1
                                              ELSE Upto(P, i)
<1>0. \A j \in P : j \in Nat /\ 1 <= j /\ j <= m
  OBVIOUS
<1>1. IsFiniteSet(P) /\ Cardinality(P) \in Nat
  <2>1. IsFiniteSet(1..m)
    BY FS_Interval
  <2>. QED  BY <2>1, FS_Subset, FS_CardinalityType
<1>2. ASSUME NEW i \in Nat
      PROVE  Upto(P, i) \in 0..Cardinality(P)
  <2>1. {j \in P : j <= i} \in SUBSET P
    OBVIOUS
  <2>. QED  BY <1>1, <2>1, FS_Subset, FS_CardinalityType DEF Upto
<1>3. Upto(P, 0) = 0
  <2>1. ~ \E j \in P : j <= 0
    BY <1>0
  <2>2. {j \in P : j <= 0} = {}
    BY <2>1
  <2>. QED  BY <2>2, FS_EmptySet DEF Upto
<1>4. Upto(P, m) = Cardinality(P)
  <2>1. {j \in P : j <= m} = P
    BY <1>0
  <2>. QED  BY <2>1 DEF Upto
<1>5. ASSUME NEW i \in Nat
      PROVE  Upto(P, i + 1) = IF i + 1 \in P THEN Upto(P, i) + 1
                                              ELSE Upto(P, i)
  <2>. DEFINE T == {j \in P : j <= i}
  <2>1. IsFiniteSet(T) /\ i + 1 \notin T
    BY <1>1, FS_Subset
  <2>2. {j \in P : j <= i + 1} = IF i + 1 \in P THEN T \cup {i + 1} ELSE T
    <3>1. \A j \in P : j \in Nat /\ (j <= i + 1 <=> j <= i \/ j = i + 1)
      OBVIOUS
    <3>. QED  BY <3>1
  <2>3. Cardinality(T \cup {i + 1}) = Cardinality(T) + 1
    BY <2>1, FS_AddElement
  <2>. QED  BY <2>2, <2>3 DEF Upto
<1>. QED  BY <1>1, <1>2, <1>3, <1>4, <1>5

\* A later place has more of them before it.
LEMMA UptoGrows ==
    ASSUME NEW m \in Nat, NEW P \in SUBSET (1..m),
           NEW j \in P, NEW i \in Nat, i < j
    PROVE  Upto(P, i) < Upto(P, j)
<1>. DEFINE S == {k \in P : k <= i}
            T == {k \in P : k <= j}
<1>1. IsFiniteSet(T) /\ S \in SUBSET T /\ S # T
  <2>1. T \in SUBSET P /\ S \in SUBSET T
    <3>1. \A k \in P : k \in Nat
      OBVIOUS
    <3>2. j \in Nat
      OBVIOUS
    <3>3. \A k \in P : k <= i => k <= j
      BY <3>1, <3>2
    <3>. QED  BY <3>3
  <2>2. j \in T /\ j \notin S
    OBVIOUS
  <2>. QED  BY <2>1, <2>2, UptoCounts, FS_Subset
<1>2. Cardinality(S) \in Nat /\ Cardinality(T) \in Nat
      /\ Cardinality(S) <= Cardinality(T) /\ Cardinality(S) # Cardinality(T)
  BY <1>1, FS_Subset, FS_CardinalityType
<1>. QED  BY <1>2 DEF Upto

\* The n-th of them is one of them, and the n-th.
LEMMA NthIsThere ==
    ASSUME NEW m \in Nat, NEW P \in SUBSET (1..m),
           NEW n \in 1..Cardinality(P)
    PROVE  Nth(P, n) \in P /\ Upto(P, Nth(P, n)) = n
<1>. DEFINE Far == {i \in Nat : Upto(P, i) >= n}
<1>0. /\ Cardinality(P) \in Nat
      /\ \A i \in Nat : Upto(P, i) \in Nat
      /\ Upto(P, 0) = 0 /\ Upto(P, m) = Cardinality(P)
      /\ \A i \in Nat : Upto(P, i + 1) = IF i + 1 \in P THEN Upto(P, i) + 1
                                         ELSE Upto(P, i)
  BY UptoCounts
<1>1. m \in Far
  BY <1>0
<1>2. \E k \in Far : \A i \in Far : k <= i
  BY <1>1, LeastNatural, Far \subseteq Nat
<1>3. PICK k \in Nat : Upto(P, k) >= n /\ \A i \in Far : k <= i
  BY <1>2
<1>4. k # 0
  BY <1>0, <1>3
<1>5. PICK i \in Nat : k = i + 1
  BY <1>4
<1>6. i \notin Far
  BY <1>3, <1>5
<1>7. Upto(P, i) < n /\ Upto(P, i) \in Nat /\ n \in Nat
  BY <1>0, <1>6
<1>8. Upto(P, k) = IF k \in P THEN Upto(P, i) + 1 ELSE Upto(P, i)
  BY <1>0, <1>5
<1>9. k \in P /\ Upto(P, k) = n
  BY <1>3, <1>7, <1>8
<1>. QED  BY <1>9 DEF Nth

\* A filtered list: its elements are those at the places, each once, in order.
LEMMA AmongThese ==
    ASSUME NEW T, NEW s \in Seq(T), NEW P \in SUBSET (DOMAIN s)
    PROVE  /\ Among(s, P) \in Seq(T)
           /\ Len(Among(s, P)) = Cardinality(P) /\ Cardinality(P) \in Nat
           /\ \A n \in DOMAIN Among(s, P) :
                 /\ Nth(P, n) \in P /\ Upto(P, Nth(P, n)) = n
                 /\ Among(s, P)[n] = s[Nth(P, n)]
           /\ \A i \in P : /\ Upto(P, i) \in DOMAIN Among(s, P)
                           /\ Nth(P, Upto(P, i)) = i
                           /\ Among(s, P)[Upto(P, i)] = s[i]
           /\ \A a, b \in DOMAIN Among(s, P) : a < b => Nth(P, a) < Nth(P, b)
<1>1. Len(s) \in Nat /\ DOMAIN s = 1..Len(s) /\ P \in SUBSET (1..Len(s))
  OBVIOUS
<1>2. Cardinality(P) \in Nat
  BY <1>1, UptoCounts
<1>3. \A n \in 1..Cardinality(P) : Nth(P, n) \in P /\ Upto(P, Nth(P, n)) = n
  BY <1>1, NthIsThere
<1>4. Among(s, P) \in Seq(T) /\ Len(Among(s, P)) = Cardinality(P)
      /\ DOMAIN Among(s, P) = 1..Cardinality(P)
      /\ \A n \in 1..Cardinality(P) : Among(s, P)[n] = s[Nth(P, n)]
  BY <1>1, <1>2, <1>3 DEF Among
<1>7. /\ \A i \in Nat : Upto(P, i) \in 0..Cardinality(P)
      /\ Upto(P, 0) = 0
  BY <1>1, UptoCounts
<1>8. \A j \in P, i \in Nat : i < j => Upto(P, i) < Upto(P, j)
  BY <1>1, UptoGrows
<1>5. ASSUME NEW i \in P
      PROVE  Upto(P, i) \in 1..Cardinality(P) /\ Nth(P, Upto(P, i)) = i
  <2>1. i \in Nat /\ i >= 1
    BY <1>1
  <2>2. Upto(P, i) \in 0..Cardinality(P) /\ 0 < Upto(P, i)
    BY <1>7, <1>8, <2>1
  <2>3. Upto(P, i) \in 1..Cardinality(P)
    BY <1>2, <2>2
  <2>. DEFINE j == Nth(P, Upto(P, i))
  <2>4. j \in P /\ Upto(P, j) = Upto(P, i)
    BY <1>3, <2>3
  <2>5. j \in Nat /\ ~(j < i) /\ ~(i < j)
    BY <1>1, <1>8, <2>1, <2>2, <2>4
  <2>. QED  BY <2>1, <2>3, <2>5
<1>6. ASSUME NEW a \in 1..Cardinality(P), NEW b \in 1..Cardinality(P), a < b
      PROVE  Nth(P, a) < Nth(P, b)
  <2>. DEFINE i == Nth(P, a)
              j == Nth(P, b)
  <2>1. i \in P /\ j \in P /\ Upto(P, i) = a /\ Upto(P, j) = b
    BY <1>3
  <2>2. i \in Nat /\ j \in Nat
    BY <1>1, <2>1
  <2>3. ~(j < i) /\ i # j
    BY <1>2, <1>6, <1>8, <2>1, <2>2
  <2>. QED  BY <2>2, <2>3
<1>. QED  BY <1>2, <1>3, <1>4, <1>5, <1>6

\* A list, whatever it is of.
IsList(s) == s \in Seq(Range(s))

\* No two of its elements have an id in common.
OneEach(s) == \A i, j \in DOMAIN s : s[i].id = s[j].id => i = j

\* What a list's places and elements are.
LEMMA ListFacts ==
    ASSUME NEW s, IsList(s)
    PROVE  /\ Len(s) \in Nat /\ DOMAIN s = 1..Len(s)
           /\ \A i \in DOMAIN s : i \in Nat /\ s[i] \in Range(s)
  BY DEF IsList, Range

\* A sequence of any sort is a list.
LEMMA ListOf ==
    ASSUME NEW T, NEW s \in Seq(T)
    PROVE  IsList(s)
  BY DEF IsList, Range

\* The settled entries of a checkpoint: some of its entries, and every one
\* that says how its step came out.
LEMMA SettledList ==
    ASSUME NEW d, IsList(d)
    PROVE  /\ IsList(Settled(d))
           /\ \A n \in DOMAIN Settled(d) : \E i \in DOMAIN d :
                 Settled(d)[n] = d[i] /\ d[i].outcome \in {"ok", "failed"}
           /\ \A i \in DOMAIN d : d[i].outcome \in {"ok", "failed"}
                 => \E n \in DOMAIN Settled(d) : Settled(d)[n] = d[i]
<1>. DEFINE P == {i \in DOMAIN d : d[i].outcome \in {"ok", "failed"}}
<1>1. d \in Seq(Range(d)) /\ P \in SUBSET (DOMAIN d)
  BY DEF IsList
<1>2. /\ Among(d, P) \in Seq(Range(d))
      /\ \A n \in DOMAIN Among(d, P) : Nth(P, n) \in P /\ Among(d, P)[n] = d[Nth(P, n)]
      /\ \A i \in P : /\ Upto(P, i) \in DOMAIN Among(d, P)
                      /\ Among(d, P)[Upto(P, i)] = d[i]
  BY <1>1, AmongThese
<1>3. Settled(d) = Among(d, P)
  BY DEF Settled
<1>. HIDE DEF P
<1>4. IsList(Settled(d))
  BY <1>2, <1>3, ListOf
<1>5. \A i \in P : i \in DOMAIN d /\ d[i].outcome \in {"ok", "failed"}
  BY DEF P
<1>6. \A i \in DOMAIN d : d[i].outcome \in {"ok", "failed"} => i \in P
  BY DEF P
<1>. QED  BY <1>2, <1>3, <1>4, <1>5, <1>6

\* The elements at later and later places of a list.
LEMMA AtPlaces ==
    ASSUME NEW q, IsList(q), OneEach(q), NEW w, IsList(w),
           NEW at \in [DOMAIN w -> DOMAIN q],
           \A a \in DOMAIN w : w[a] = q[at[a]],
           \A a, b \in DOMAIN w : a < b => at[a] < at[b]
    PROVE  OneEach(w)
<1>1. \A a \in DOMAIN w : a \in Nat /\ at[a] \in DOMAIN q /\ at[a] \in Nat
  BY ListFacts
<1>2. \A a, b \in DOMAIN w : a # b => at[a] # at[b]
  BY <1>1
<1>. QED  BY <1>1, <1>2 DEF OneEach

\* A filtered list has nothing twice that the list has once.
LEMMA AmongOnce ==
    ASSUME NEW q, IsList(q), OneEach(q), NEW P \in SUBSET (DOMAIN q)
    PROVE  IsList(Among(q, P)) /\ OneEach(Among(q, P))
<1>. DEFINE w == Among(q, P)
            at == [a \in DOMAIN w |-> Nth(P, a)]
<1>1. /\ w \in Seq(Range(q))
      /\ \A a \in DOMAIN w : Nth(P, a) \in P /\ w[a] = q[Nth(P, a)]
      /\ \A a, b \in DOMAIN w : a < b => Nth(P, a) < Nth(P, b)
  BY AmongThese DEF IsList
<1>. HIDE DEF w
<1>2. IsList(w)
  BY <1>1, ListOf
<1>3. /\ at \in [DOMAIN w -> DOMAIN q]
      /\ \A a \in DOMAIN w : w[a] = q[at[a]]
      /\ \A a, b \in DOMAIN w : a < b => at[a] < at[b]
  BY <1>1
<1>. HIDE DEF at
<1>4. OneEach(w)
  BY <1>2, <1>3, AtPlaces
<1>. QED  BY <1>2, <1>4 DEF w

\* What is left of a list of steps when some ids are taken out of it.
LEMMA WithoutList ==
    ASSUME NEW q, NEW ids, IsList(q)
    PROVE  /\ IsList(Without(q, ids))
           /\ \A n \in DOMAIN Without(q, ids) : \E i \in DOMAIN q :
                 Without(q, ids)[n] = q[i] /\ q[i].id \notin ids
           /\ \A i \in DOMAIN q : q[i].id \notin ids
                 => \E n \in DOMAIN Without(q, ids) : Without(q, ids)[n] = q[i]
           /\ Ids(Without(q, ids)) = Ids(q) \ ids
           /\ OneEach(q) => OneEach(Without(q, ids))
<1>. DEFINE P == {i \in DOMAIN q : q[i].id \notin ids}
<1>1. q \in Seq(Range(q)) /\ P \in SUBSET (DOMAIN q)
  BY DEF IsList
<1>2. /\ Among(q, P) \in Seq(Range(q))
      /\ \A n \in DOMAIN Among(q, P) : Nth(P, n) \in P /\ Among(q, P)[n] = q[Nth(P, n)]
      /\ \A i \in P : /\ Upto(P, i) \in DOMAIN Among(q, P)
                      /\ Among(q, P)[Upto(P, i)] = q[i]
  BY <1>1, AmongThese
<1>3. Without(q, ids) = Among(q, P)
  BY DEF Without
<1>. HIDE DEF P
<1>4. IsList(Without(q, ids))
  BY <1>2, <1>3, ListOf
<1>10. OneEach(q) => OneEach(Without(q, ids))
  BY <1>1, <1>3, AmongOnce
<1>5. \A i \in P : i \in DOMAIN q /\ q[i].id \notin ids
  BY DEF P
<1>6. \A i \in DOMAIN q : q[i].id \notin ids => i \in P
  BY DEF P
<1>7. \A n \in DOMAIN Without(q, ids) : \E i \in DOMAIN q :
         Without(q, ids)[n] = q[i] /\ q[i].id \notin ids
  BY <1>2, <1>3, <1>5
<1>8. \A i \in DOMAIN q : q[i].id \notin ids
         => \E n \in DOMAIN Without(q, ids) : Without(q, ids)[n] = q[i]
  BY <1>2, <1>3, <1>6
<1>9. Ids(Without(q, ids)) = Ids(q) \ ids
  BY <1>7, <1>8 DEF Ids
<1>. QED  BY <1>4, <1>7, <1>8, <1>9, <1>10

\* The results a checkpoint stands for: of each id, what its last entry says.
LEMMA ResultsRead ==
    ASSUME NEW d, IsList(d)
    PROVE  /\ DOMAIN ResultsOf(d) = Ids(d)
           /\ \A id \in DOMAIN ResultsOf(d) : \E i \in DOMAIN d :
                 /\ d[i].id = id
                 /\ ResultsOf(d)[id] = [ok |-> d[i].outcome = "ok",
                                        plan |-> d[i].plan]
<1>1. DOMAIN ResultsOf(d) = Ids(d)
  BY DEF ResultsOf, Ids
<1>2. ASSUME NEW id \in Ids(d)
      PROVE  \E i \in DOMAIN d :
                 /\ d[i].id = id
                 /\ ResultsOf(d)[id] = [ok |-> d[i].outcome = "ok",
                                        plan |-> d[i].plan]
  <2>. DEFINE Later == {Len(d) - i : i \in {k \in DOMAIN d : d[k].id = id}}
              Newest(i) == /\ d[i].id = id
                           /\ \A j \in DOMAIN d : d[j].id = id => j <= i
              last == CHOOSE i \in DOMAIN d : Newest(i)
  <2>1. Len(d) \in Nat /\ DOMAIN d = 1..Len(d)
    BY ListFacts
  <2>2. Later \subseteq Nat /\ Later # {}
    BY <2>1 DEF Ids
  <2>3. PICK b \in Later : \A c \in Later : b <= c
    BY <2>2, LeastNatural
  <2>4. PICK i \in DOMAIN d : d[i].id = id /\ b = Len(d) - i
    BY <2>3
  <2>5. ASSUME NEW j \in DOMAIN d, d[j].id = id
        PROVE  j <= i
    <3>1. Len(d) - j \in Later
      BY <2>5
    <3>2. Len(d) - i <= Len(d) - j
      BY <2>3, <2>4, <3>1
    <3>. QED  BY <2>1, <3>2
  <2>6. Newest(i)
    BY <2>4, <2>5
  <2>. HIDE DEF Later, Newest
  <2>7. last \in DOMAIN d /\ Newest(last)
    BY <2>6
  <2>8. ResultsOf(d)[id] = [ok |-> d[last].outcome = "ok", plan |-> d[last].plan]
    BY <1>2 DEF ResultsOf, Newest, Ids
  <2>. QED  BY <2>7, <2>8 DEF Newest
<1>. QED  BY <1>1, <1>2

-----------------------------------------------------------------------------
\* NoPlan is no checkpoint.
NoPlanIsNone ==
    \A p, d, r, n : NoPlan # [plan |-> p, done |-> d, replanned |-> r,
                              drawn |-> n]

\* The disk holds what the process works from.
OnDisk ==
    /\ meta # NoPlan => meta = [plan |-> plan, done |-> done,
                                replanned |-> replanned, drawn |-> drawn]
    /\ meta = NoPlan => plan = << >> /\ drawn = 0 /\ queue = << >>
                        /\ done = << >> /\ results = Nothing /\ wave = << >>
                        /\ replanned = FALSE
    /\ pc = "working" => meta # NoPlan
    /\ pc \in {"triage", "direct"} => meta = NoPlan

IsEntry(e) ==
    /\ e = [id |-> e.id, plan |-> e.plan, outcome |-> e.outcome]
    /\ e.plan \in 0..drawn
    /\ e.outcome \in {"ok", "failed", "awaiting_approval"}

\* The list of what was settled, and the results it stands for.
Written ==
    /\ drawn \in Nat
    /\ IsList(done)
    /\ \A i \in DOMAIN done : IsEntry(done[i])
    /\ \A i \in DOMAIN done : done[i].outcome # "awaiting_approval"
                                 => done[i].id \in DOMAIN results
    /\ \A id \in DOMAIN results : \E i \in DOMAIN done :
          /\ done[i].id = id /\ done[i].plan = results[id].plan
          /\ done[i].outcome = IF results[id].ok THEN "ok" ELSE "failed"

IsChild(c) ==
    /\ c = [at |-> c.at, spent |-> c.spent, ok |-> c.ok, replan |-> c.replan,
            awaiting |-> c.awaiting]
    /\ c.spent \in Nat

\* The wave, and where its children are.
Gather ==
    /\ IsList(plan) /\ IsList(queue) /\ IsList(wave)
    /\ OneEach(plan) /\ OneEach(queue) /\ OneEach(wave)
    /\ settled \in -1..Len(wave)
    /\ DOMAIN child = Ids(wave)
    /\ \A id \in DOMAIN child : IsChild(child[id])
    /\ settled # -1 => \A id \in DOMAIN child : child[id].at = "back"

\* What is queued is neither under way nor settled under this plan.
Fresh ==
    /\ Ids(wave) \cap Ids(queue) = {}
    /\ \A i \in DOMAIN done :
          (done[i].plan = drawn /\ done[i].outcome # "awaiting_approval")
              => done[i].id \notin Ids(queue)

TurnInv == OnDisk /\ Written /\ Gather /\ Fresh

\* It holds of a turn nobody has routed yet.
LEMMA TurnInit == Init => TurnInv
  BY DEF Init, TurnInv, OnDisk, Written, Gather, Fresh, IsList, Ids, Nothing,
         Range, OneEach

\* What the invariant speaks of.
held == <<turn, gather, meta>>

\* A step that touches none of it may leave work, never enter it.
LEMMA TurnKept ==
    ASSUME TurnInv, UNCHANGED held,
           pc' = "working" => pc = "working",
           pc' \in {"triage", "direct"} => pc \in {"triage", "direct"}
    PROVE  TurnInv'
<1>1. OnDisk'
  BY DEF TurnInv, OnDisk, held, turn, gather
<1>2. Written'
  BY DEF TurnInv, Written, IsEntry, held, turn, gather
<1>3. Gather'
  BY DEF TurnInv, Gather, OneEach, IsChild, held, turn, gather
<1>4. Fresh'
  BY DEF TurnInv, Fresh, held, turn, gather
<1>. QED  BY <1>1, <1>2, <1>3, <1>4 DEF TurnInv

\* One child moves on; the turn may end by it.
LEMMA ChildKept ==
    ASSUME TurnInv, UNCHANGED <<turn, wave, settled, meta>>,
           pc' \in {pc, "closing"},
           NEW id \in DOMAIN child, settled = -1 \/ child'[id].at = "back",
           NEW c, IsChild(c), child' = [child EXCEPT ![id] = c]
    PROVE  TurnInv'
<1>1. OnDisk'
  BY DEF TurnInv, OnDisk, turn
<1>2. Written'
  BY DEF TurnInv, Written, IsEntry, turn
<1>3. Gather'
  BY DEF TurnInv, Gather, OneEach, IsChild, turn
<1>4. Fresh'
  BY DEF TurnInv, Fresh, turn
<1>. QED  BY <1>1, <1>2, <1>3, <1>4 DEF TurnInv

\* A child that is back, with what it spent.
LEMMA BackIsChild ==
    ASSUME NEW c, IsChild(c), NEW ok, NEW replan, NEW awaiting
    PROVE  /\ IsChild(Back(c, ok, replan, awaiting))
           /\ Back(c, ok, replan, awaiting).at = "back"
           /\ Back(c, ok, replan, awaiting).ok = ok
           /\ Back(c, ok, replan, awaiting).awaiting = awaiting
           /\ Back(c, ok, replan, awaiting).spent = c.spent
<1>1. PICK spent, k, r, a, before :
         spent \in Nat /\ c = [at |-> before, spent |-> spent, ok |-> k, replan |-> r,
              awaiting |-> a]
  BY DEF IsChild
<1>2. PICK back : back = "back"
  OBVIOUS
<1>. DEFINE d == [field \in DOMAIN c |->
                     IF field = "at" THEN back
                     ELSE IF field = "ok" THEN ok
                     ELSE IF field = "replan" THEN replan
                     ELSE IF field = "awaiting" THEN awaiting ELSE c[field]]
<1>3. [c EXCEPT !.at = back, !.ok = ok, !.replan = replan,
                !.awaiting = awaiting] = d
  OBVIOUS
<1>5. d = [at |-> back, spent |-> spent, ok |-> ok, replan |-> replan,
           awaiting |-> awaiting]
  BY <1>1
<1>4. Back(c, ok, replan, awaiting) =
         [at |-> back, spent |-> spent, ok |-> ok, replan |-> replan,
          awaiting |-> awaiting]
  BY <1>2, <1>3, <1>5 DEF Back
<1>. HIDE DEF d
<1>. QED  BY <1>1, <1>2, <1>4 DEF IsChild

\* In whatever way it came back, it spent what it had.
LEMMA BackSpends ==
    ASSUME NEW c, IsChild(c)
    PROVE  \A ok, awaiting : Back(c, ok, FALSE, awaiting).spent = c.spent
<1>1. PICK no : no = FALSE
  OBVIOUS
<1>2. \A ok, awaiting : Back(c, ok, no, awaiting).spent = c.spent
  BY BackIsChild
<1>. QED  BY <1>1, <1>2

\* A child that is somewhere else, with what it spent.
LEMMA ChildAt ==
    ASSUME NEW c, IsChild(c), NEW place
    PROVE  IsChild([c EXCEPT !.at = place])
           /\ [c EXCEPT !.at = place].spent = c.spent
<1>1. PICK spent, ok, replan, awaiting, before :
         spent \in Nat /\ c = [at |-> before, spent |-> spent, ok |-> ok, replan |-> replan,
              awaiting |-> awaiting]
  BY DEF IsChild
<1>2. [c EXCEPT !.at = place] =
         [at |-> place, spent |-> spent, ok |-> ok, replan |-> replan,
          awaiting |-> awaiting]
  BY <1>1
<1>. QED  BY <1>1, <1>2 DEF IsChild

\* A child that made an attempt, with what it cost.
LEMMA SpentIsChild ==
    ASSUME NEW c, IsChild(c), NEW n \in Costs(c)
    PROVE  /\ n \in Nat
           /\ IsChild([c EXCEPT !.spent = @ + n])
           /\ [c EXCEPT !.spent = @ + n].spent = c.spent + n
<1>1. n \in Nat
  BY StagedAssumption DEF StagedAssumption, Costs
<1>2. PICK spent, ok, replan, awaiting, at :
         spent \in Nat /\ c = [at |-> at, spent |-> spent, ok |-> ok,
                               replan |-> replan, awaiting |-> awaiting]
  BY DEF IsChild
<1>3. [c EXCEPT !.spent = @ + n] =
         [at |-> at, spent |-> spent + n, ok |-> ok, replan |-> replan,
          awaiting |-> awaiting]
  BY <1>2
<1>4. spent + n \in Nat
  BY <1>1, <1>2
<1>. QED  BY <1>1, <1>2, <1>3, <1>4 DEF IsChild

\* A verdict makes a child of a child and spends no turn.
LEMMA VerdictIsChild ==
    ASSUME NEW c, IsChild(c), NEW verdict
    PROVE  IsChild(Verdict(c, verdict)) /\ Verdict(c, verdict).spent = c.spent
<1>1. IsChild([c EXCEPT !.at = "running"])
      /\ [c EXCEPT !.at = "running"].spent = c.spent
  BY ChildAt
<1>2. PICK no : no = FALSE
  OBVIOUS
<1>3. \A replan, ok : IsChild(Back(c, ok, replan, no))
                      /\ Back(c, ok, replan, no).spent = c.spent
  BY BackIsChild
<1>4. \/ Verdict(c, verdict) = [c EXCEPT !.at = "running"]
      \/ \E ok, replan : Verdict(c, verdict) = Back(c, ok, replan, no)
  BY <1>2 DEF Verdict
<1>. QED  BY <1>1, <1>3, <1>4

\* A child's mission ends.
LEMMA ChildEndsTurn ==
    ASSUME TurnInv, NEW id, ChildEnds(id)
    PROVE  TurnInv'
<1>1. /\ id \in DOMAIN child /\ child[id].at \in {"running", "cancelled"}
      /\ UNCHANGED <<pc, turn, wave, settled, meta>>
  BY DEF ChildEnds
<1>2. IsChild(child[id]) /\ settled = -1
  BY <1>1 DEF TurnInv, Gather
<1>3. PICK n \in Costs(child[id]) :
         LET c == [child[id] EXCEPT !.spent = @ + n]
         IN \/ \E ending \in {"passed", "awaiting"} :
                  child' = [child EXCEPT ![id] =
                      Back(c, ending = "passed", FALSE, ending = "awaiting")]
            \/ child' = [child EXCEPT ![id] =
                  IF MaxReviews = 0 THEN Back(c, FALSE, FALSE, FALSE)
                  ELSE [c EXCEPT !.at = "gate"]]
  BY DEF ChildEnds
<1>. DEFINE c == [child[id] EXCEPT !.spent = @ + n]
<1>5. IsChild(c)
  BY <1>2, SpentIsChild
<1>. HIDE DEF c
<1>6. IsChild([c EXCEPT !.at = "gate"])
  BY <1>5, ChildAt
<1>7. \E k : IsChild(k) /\ child' = [child EXCEPT ![id] = k]
  BY <1>3, <1>5, <1>6, BackIsChild DEF c
<1>. QED  BY <1>1, <1>2, <1>7, ChildKept

\* A child raises.
LEMMA ChildRaisesTurn ==
    ASSUME TurnInv, NEW id, ChildRaises(id)
    PROVE  TurnInv'
<1>1. /\ id \in DOMAIN child /\ child[id].at = "running"
      /\ pc' \in {pc, "closing"} /\ UNCHANGED <<turn, wave, settled, meta>>
  BY DEF ChildRaises
<1>2. IsChild(child[id]) /\ settled = -1
  BY <1>1 DEF TurnInv, Gather
<1>3. PICK n \in Costs(child[id]) :
         LET c == [child[id] EXCEPT !.spent = @ + n]
         IN child' = [child EXCEPT ![id] = Back(c, FALSE, FALSE, FALSE)]
  BY DEF ChildRaises
<1>4. \E k : IsChild(k) /\ child' = [child EXCEPT ![id] = k]
  BY <1>2, <1>3, SpentIsChild, BackIsChild
<1>. QED  BY <1>1, <1>2, <1>4, ChildKept

\* The turn closes over its children: those at work are cancelled, no other
\* is touched, and none spends by it.
LEMMA ClosesOver ==
    ASSUME TurnInv, Closes
    PROVE  /\ DOMAIN child' = DOMAIN child
           /\ \A id \in DOMAIN child :
                 /\ IsChild(child'[id]) /\ child'[id].spent = child[id].spent
                 /\ child[id].at # "running" => child'[id] = child[id]
<1>1. child' = [id \in DOMAIN child |->
                   IF child[id].at = "running"
                   THEN [child[id] EXCEPT !.at = "cancelled"] ELSE child[id]]
  BY DEF Closes
<1>2. \A id \in DOMAIN child : IsChild(child[id])
  BY DEF TurnInv, Gather
<1>3. PICK place : place = "cancelled"
  OBVIOUS
<1>4. \A id \in DOMAIN child :
         child'[id] = IF child[id].at = "running"
                      THEN [child[id] EXCEPT !.at = place] ELSE child[id]
  BY <1>1, <1>3
<1>. QED  BY <1>1, <1>2, <1>4, ChildAt

\* So the turn stays what it was.
LEMMA ClosesTurn ==
    ASSUME TurnInv, Closes
    PROVE  TurnInv'
<1>1. UNCHANGED <<turn, wave, settled, meta>> /\ pc' = "closed"
  BY DEF Closes, disk
<1>2. OnDisk'
  BY <1>1 DEF TurnInv, OnDisk, turn
<1>3. Written'
  BY <1>1 DEF TurnInv, Written, IsEntry, turn
<1>4. Gather'
  <2>1. /\ DOMAIN child' = DOMAIN child
        /\ \A id \in DOMAIN child : IsChild(child'[id])
        /\ \A id \in DOMAIN child :
              child[id].at = "back" => child'[id] = child[id]
    BY ClosesOver
  <2>. QED  BY <1>1, <2>1 DEF TurnInv, Gather, OneEach, IsChild, turn
<1>5. Fresh'
  BY <1>1 DEF TurnInv, Fresh, turn
<1>. QED  BY <1>2, <1>3, <1>4, <1>5 DEF TurnInv

\* A gate is reviewed.
LEMMA GateReviewTurn ==
    ASSUME TurnInv, NEW id, GateReview(id)
    PROVE  TurnInv'
<1>1. /\ id \in DOMAIN child /\ child[id].at = "gate"
      /\ UNCHANGED <<pc, turn, wave, settled, meta>>
  BY DEF GateReview, disk
<1>2. IsChild(child[id]) /\ settled = -1
  BY <1>1 DEF TurnInv, Gather
<1>3. \E verdict : child' = [child EXCEPT ![id] = Verdict(child[id], verdict)]
  BY DEF GateReview
<1>4. \E k : IsChild(k) /\ child' = [child EXCEPT ![id] = k]
  BY <1>2, <1>3, VerdictIsChild
<1>. QED  BY <1>1, <1>2, <1>4, ChildKept

\* A list and one more.
LEMMA Appended ==
    ASSUME NEW s, IsList(s), NEW e
    PROVE  /\ Len(s) \in Nat /\ DOMAIN s = 1..Len(s)
           /\ IsList(Append(s, e))
           /\ DOMAIN Append(s, e) = 1..(Len(s) + 1)
           /\ \A i \in DOMAIN s : Append(s, e)[i] = s[i]
           /\ Append(s, e)[Len(s) + 1] = e
<1>. DEFINE T == Range(s) \cup {e}
<1>1. s \in Seq(T) /\ e \in T
  BY DEF IsList
<1>. HIDE DEF T
<1>2. Append(s, e) \in Seq(T)
  BY <1>1
<1>3. IsList(Append(s, e))
  BY <1>2, ListOf
<1>. QED  BY <1>1, <1>3

\* One member written down.
LEMMA SettleTurn ==
    ASSUME TurnInv, NoPlanIsNone, Settle
    PROVE  TurnInv'
<1>. DEFINE step == wave[settled + 1]
            c == child[step.id]
            ok == [ok |-> c.ok, plan |-> drawn]
<1>1. /\ pc = "working" /\ settled >= 0 /\ settled < Len(wave)
      /\ done' = Append(done, Entry(step, c))
      /\ results' = IF c.awaiting THEN results
                    ELSE [id \in DOMAIN results \cup {step.id} |->
                             IF id = step.id THEN ok ELSE results[id]]
      /\ meta' = [meta EXCEPT !.done = done'] /\ settled' = settled + 1
      /\ UNCHANGED <<pc, plan, drawn, queue, left, replanned, wave, child>>
  BY DEF Settle
<1>2. settled + 1 \in DOMAIN wave
  BY <1>1, ListFacts DEF TurnInv, Gather
<1>. HIDE DEF step, c, ok
<1>3. step.id \in Ids(wave)
  BY <1>2 DEF step, Ids
<1>4. OnDisk'
  <2>1. meta = [plan |-> plan, done |-> done, replanned |-> replanned,
                drawn |-> drawn]
    BY <1>1 DEF TurnInv, OnDisk
  <2>2. meta' = [plan |-> plan, done |-> done', replanned |-> replanned,
                 drawn |-> drawn]
    BY <1>1, <2>1
  <2>3. meta' # NoPlan
    BY <2>2 DEF NoPlanIsNone
  <2>. QED  BY <1>1, <2>2, <2>3 DEF OnDisk
<1>. DEFINE e == Entry(step, c)
<1>5. /\ e = [id |-> step.id, plan |-> drawn, outcome |-> e.outcome]
      /\ e.id = step.id /\ e.plan = drawn
      /\ e.outcome \in {"ok", "failed", "awaiting_approval"}
      /\ ~c.awaiting => e.outcome = IF c.ok THEN "ok" ELSE "failed"
      /\ c.awaiting => e.outcome = "awaiting_approval"
  BY DEF Entry
<1>6. /\ Len(done) \in Nat /\ DOMAIN done = 1..Len(done)
      /\ IsList(done') /\ DOMAIN done' = 1..(Len(done) + 1)
      /\ \A i \in DOMAIN done : done'[i] = done[i]
      /\ done'[Len(done) + 1] = e
  BY <1>1, Appended DEF TurnInv, Written
<1>. HIDE DEF e
<1>7. Written'
  <2>1. drawn' = drawn /\ drawn \in Nat /\ IsList(done')
    BY <1>1, <1>6 DEF TurnInv, Written
  <2>2. \A i \in DOMAIN done' : i \in DOMAIN done \/ i = Len(done) + 1
    BY <1>6
  <2>3. (\A i \in DOMAIN done : IsEntry(done[i]))'
    <3>1. \A i \in DOMAIN done : IsEntry(done[i])
      BY DEF TurnInv, Written
    <3>2. IsEntry(e)
      BY <1>5, <2>1 DEF IsEntry
    <3>. QED  BY <1>6, <2>1, <2>2, <3>1, <3>2 DEF IsEntry
  <2>4. \A i \in DOMAIN done' : done'[i].outcome # "awaiting_approval"
                                   => done'[i].id \in DOMAIN results'
    <3>1. DOMAIN results \subseteq DOMAIN results'
          /\ (~c.awaiting => step.id \in DOMAIN results')
      BY <1>1
    <3>. QED  BY <1>5, <1>6, <2>2, <3>1 DEF TurnInv, Written
  <2>5. ASSUME NEW id \in DOMAIN results'
        PROVE  \E i \in DOMAIN done' :
                  /\ done'[i].id = id /\ done'[i].plan = results'[id].plan
                  /\ done'[i].outcome = IF results'[id].ok THEN "ok" ELSE "failed"
    <3>1. CASE ~c.awaiting /\ id = step.id
      <4>1. results'[id] = ok
        BY <1>1, <3>1
      <4>2. Len(done) + 1 \in DOMAIN done'
        BY <1>6
      <4>. QED  BY <1>5, <1>6, <3>1, <4>1, <4>2 DEF ok
    <3>2. CASE c.awaiting \/ id # step.id
      <4>1. id \in DOMAIN results /\ results'[id] = results[id]
        BY <1>1, <3>2, <2>5
      <4>2. DOMAIN done \subseteq DOMAIN done'
        BY <1>6
      <4>. QED  BY <1>6, <4>1, <4>2 DEF TurnInv, Written
    <3>. QED  BY <3>1, <3>2
  <2>. QED  BY <2>1, <2>3, <2>4, <2>5 DEF Written
<1>8. Gather'
  BY <1>1, <1>2 DEF TurnInv, Gather, OneEach, IsChild
<1>9. Fresh'
  <2>1. step.id \notin Ids(queue)
    BY <1>3 DEF TurnInv, Fresh
  <2>2. \A i \in DOMAIN done' : i \in DOMAIN done \/ i = Len(done) + 1
    BY <1>6
  <2>. QED  BY <1>1, <1>5, <1>6, <2>1, <2>2 DEF TurnInv, Fresh
<1>. QED  BY <1>4, <1>7, <1>8, <1>9 DEF TurnInv

-----------------------------------------------------------------------------
\* What holds of nothing, and of one more whenever it holds, holds up to m.
LEMMA CountUp ==
    ASSUME NEW A, NEW m \in Nat, 0 \in A,
           \A k \in Nat : (k < m /\ k \in A) => k + 1 \in A
    PROVE  \A k \in 0..m : k \in A
<1>. SUFFICES ASSUME NEW n \in 0..m, n \notin A
              PROVE  FALSE
  OBVIOUS
<1>. DEFINE Out == {k \in 0..m : k \notin A}
<1>1. Out \in SUBSET Nat /\ Out # {}
  OBVIOUS
<1>2. PICK k \in Out : \A j \in Out : k <= j
  BY <1>1, LeastNatural
<1>3. k \in Nat /\ k <= m /\ k # 0 /\ k \notin A
  BY <1>2
<1>4. k - 1 \in Nat /\ k - 1 < m /\ (k - 1) + 1 = k
  BY <1>3
<1>5. k - 1 \notin Out
  BY <1>2, <1>4
<1>6. k - 1 \in A
  BY <1>4, <1>5
<1>. QED  BY <1>3, <1>4, <1>6

\* The greatest place up to k is k.
LEMMA MaxUpto ==
    ASSUME NEW k \in Nat, k > 0
    PROVE  Max(1..k) = k /\ (1..k) \ {k} = 1..(k - 1) /\ 1..k # {}
<1>1. k \in 1..k /\ \A y \in 1..k : k >= y
  OBVIOUS
<1>2. \A x \in 1..k : (\A y \in 1..k : x >= y) => x = k
  BY <1>1
<1>. QED  BY <1>1, <1>2 DEF Max

\* A set of places has a greatest.
LEMMA MaxIsThere ==
    ASSUME NEW m \in Nat, NEW S \in SUBSET (1..m), S # {}
    PROVE  Max(S) \in S /\ \A x \in S : Max(S) >= x
<1>. DEFINE Far == {m - x : x \in S}
<1>0. \A x \in S : x \in Nat /\ x <= m
  OBVIOUS
<1>1. Far \in SUBSET Nat /\ Far # {}
  <2>1. \A x \in S : m - x \in Nat
    BY <1>0
  <2>. QED  BY <2>1
<1>2. PICK b \in Far : \A c \in Far : b <= c
  BY <1>1, LeastNatural
<1>3. PICK x \in S : b = m - x
  BY <1>2
<1>4. ASSUME NEW y \in S
      PROVE  x >= y
  <2>1. m - y \in Far
    OBVIOUS
  <2>2. m - x <= m - y
    BY <1>2, <1>3, <2>1
  <2>. QED  BY <1>0, <2>2
<1>. QED  BY <1>4 DEF Max

\* The fold of a step function over the places 1..m, from base.
IsFold(g, n, base, step) ==
    \A S \in SUBSET (1..n) :
        g[S] = IF S = {} THEN base ELSE step[<<g[S \ {Max(S)}], Max(S)>>]

\* There is one, whatever the step does, if it stays among the values T.
LEMMA FoldExists ==
    ASSUME NEW m \in Nat, NEW T, NEW base \in T, NEW step \in [T \X (1..m) -> T]
    PROVE  \E g \in [SUBSET (1..m) -> T] : IsFold(g, m, base, step)
<1>. DEFINE A == {n \in 0..m : \E g \in [SUBSET (1..n) -> T] :
                                  IsFold(g, n, base, step)}
<1>1. 0 \in A
  <2>. DEFINE g == [S \in SUBSET (1..0) |-> base]
  <2>1. g \in [SUBSET (1..0) -> T]
    OBVIOUS
  <2>2. \A S \in SUBSET (1..0) : S = {}
    OBVIOUS
  <2>3. IsFold(g, 0, base, step)
    BY <2>2 DEF IsFold
  <2>. QED  BY <2>1, <2>3
<1>2. ASSUME NEW n \in Nat, n < m, n \in A
      PROVE  n + 1 \in A
  <2>1. PICK g \in [SUBSET (1..n) -> T] : IsFold(g, n, base, step)
    BY <1>2
  <2>. DEFINE h == [S \in SUBSET (1..(n + 1)) |->
                       IF n + 1 \in S THEN step[<<g[S \ {n + 1}], n + 1>>]
                       ELSE g[S]]
  <2>2. \A S \in SUBSET (1..(n + 1)) :
           /\ S \ {n + 1} \in SUBSET (1..n)
           /\ n + 1 \notin S => S \in SUBSET (1..n)
           /\ n + 1 \in S => Max(S) = n + 1
    <3>1. \A x \in 1..(n + 1) : x = n + 1 \/ x \in 1..n
      BY <1>2
    <3>2. ASSUME NEW S \in SUBSET (1..(n + 1)), n + 1 \in S
          PROVE  Max(S) = n + 1
      <4>1. \A y \in S : y \in Nat /\ n + 1 >= y
        BY <1>2
      <4>2. \A x \in S : (\A y \in S : x >= y) => x = n + 1
        BY <3>2, <4>1
      <4>. QED  BY <3>2, <4>1, <4>2 DEF Max
    <3>. QED  BY <3>1, <3>2
  <2>3. n + 1 \in 1..m
    BY <1>2
  <2>4. \A S \in SUBSET (1..(n + 1)) : h[S] \in T
    BY <2>1, <2>2, <2>3
  <2>5. h \in [SUBSET (1..(n + 1)) -> T]
    BY <2>4
  <2>6. \A S \in SUBSET (1..n) : h[S] = g[S]
    BY <1>2
  <2>7. ASSUME NEW S \in SUBSET (1..(n + 1))
        PROVE  h[S] = IF S = {} THEN base
                      ELSE step[<<h[S \ {Max(S)}], Max(S)>>]
    <3>1. CASE n + 1 \in S
      <4>1. h[S] = step[<<g[S \ {n + 1}], n + 1>>]
        BY <3>1
      <4>2. g[S \ {n + 1}] = h[S \ {n + 1}] /\ Max(S) = n + 1 /\ S # {}
        BY <2>2, <2>6, <3>1
      <4>. HIDE DEF h
      <4>. QED  BY <4>1, <4>2
    <3>2. CASE n + 1 \notin S
      <4>1. S \in SUBSET (1..n) /\ h[S] = g[S]
        BY <2>2, <2>6, <3>2
      <4>2. S \ {Max(S)} \in SUBSET (1..n)
        BY <4>1
      <4>3. h[S \ {Max(S)}] = g[S \ {Max(S)}]
        BY <2>6, <4>2
      <4>4. g[S] = IF S = {} THEN base
                   ELSE step[<<g[S \ {Max(S)}], Max(S)>>]
        BY <2>1, <4>1 DEF IsFold
      <4>. HIDE DEF h
      <4>. QED  BY <4>1, <4>3, <4>4
    <3>. QED  BY <3>1, <3>2
  <2>. HIDE DEF h
  <2>8. IsFold(h, n + 1, base, step)
    BY <2>7 DEF IsFold
  <2>9. n + 1 \in 0..m
    BY <1>2
  <2>. QED  BY <2>5, <2>8, <2>9
<1>. HIDE DEF A
<1>3. m \in A
  BY <1>1, <1>2, CountUp
<1>. QED  BY <1>3 DEF A

-----------------------------------------------------------------------------
\* The members of the next wave: steps of the queue, at later and later
\* places.
Chosen(w, q, k) ==
    /\ w \in Seq(Range(q))
    /\ \E at \in [DOMAIN w -> 1..k] :
          /\ \A a \in DOMAIN w : w[a] = q[at[a]]
          /\ \A a, b \in DOMAIN w : a < b => at[a] < at[b]

\* Steps whose every need has come out, one way or the other.
Unblocked(w) == \A a \in DOMAIN w : w[a].needs \subseteq DOMAIN results

\* The fold of _wave passes over the queue once, in its order, and takes no
\* step with a need still open.
LEMMA ReadyIsChosen ==
    ASSUME IsList(queue)
    PROVE  LET ready == FoldLeft(LAMBDA w, s : IF Joins(w, s) THEN Append(w, s)
                                              ELSE w, << >>, queue)
           IN  Chosen(ready, queue, Len(queue)) /\ Unblocked(ready)
<1>. DEFINE m == Len(queue)
            ready == FoldLeft(LAMBDA w, s : IF Joins(w, s) THEN Append(w, s) ELSE w,
                              << >>, queue)
            One(w, i) == IF Joins(w, queue[i]) THEN Append(w, queue[i]) ELSE w
            Runs(f) == f = [s \in SUBSET (1..m) |->
                               IF s = {} THEN << >>
                               ELSE One(f[s \ {Max(s)}], Max(s))]
            iter == CHOOSE f : Runs(f)
            T == Seq(Range(queue))
            step == [p \in T \X (1..m) |-> One(p[1], p[2])]
<1>1. m \in Nat /\ DOMAIN queue = 1..m /\ \A i \in 1..m : queue[i] \in Range(queue)
  BY ListFacts
<1>2. ready = iter[1..m]
  BY <1>1 DEF FoldLeft, MapThenFoldSet
<1>. HIDE DEF ready
<1>3. << >> \in T /\ step \in [T \X (1..m) -> T]
  BY <1>1
<1>4. \E g : Runs(g)
  <2>1. PICK g \in [SUBSET (1..m) -> T] : IsFold(g, m, << >>, step)
    BY <1>1, <1>3, FoldExists
  <2>2. ASSUME NEW s \in SUBSET (1..m)
        PROVE  g[s] = IF s = {} THEN << >>
                      ELSE One(g[s \ {Max(s)}], Max(s))
    <3>1. CASE s = {}
      BY <2>1, <3>1 DEF IsFold
    <3>2. CASE s # {}
      <4>1. Max(s) \in 1..m /\ s \ {Max(s)} \in SUBSET (1..m)
        BY <1>1, <3>2, MaxIsThere
      <4>2. g[s \ {Max(s)}] \in T
        BY <2>1, <4>1
      <4>3. g[s] = step[<<g[s \ {Max(s)}], Max(s)>>]
        BY <2>1, <3>2 DEF IsFold
      <4>. HIDE DEF One, T
      <4>. QED  BY <3>2, <4>1, <4>2, <4>3
    <3>. QED  BY <3>1, <3>2
  <2>. HIDE DEF One
  <2>. QED  BY <2>1, <2>2
<1>5. Runs(iter)
  BY <1>4
<1>. HIDE DEF iter
<1>6. iter[{}] = << >>
  BY <1>5
<1>7. ASSUME NEW k \in Nat, k < m
      PROVE  iter[1..(k + 1)] = One(iter[1..k], k + 1)
  <2>1. /\ Max(1..(k + 1)) = k + 1 /\ (1..(k + 1)) \ {k + 1} = 1..k
        /\ 1..(k + 1) # {} /\ 1..(k + 1) \in SUBSET (1..m)
    <3>1. k + 1 \in Nat /\ k + 1 > 0 /\ (k + 1) - 1 = k /\ k + 1 <= m
      BY <1>1, <1>7
    <3>. QED  BY SMTT(30), <1>1, <3>1, MaxUpto
  <2>. HIDE DEF One
  <2>. QED  BY <1>5, <2>1
<1>. DEFINE A == {k \in 0..m : Chosen(iter[1..k], queue, k)
                              /\ Unblocked(iter[1..k])}
<1>8. 0 \in A
  <2>1. 1..0 = {}
    OBVIOUS
  <2>. DEFINE at == [a \in DOMAIN << >> |-> 0]
  <2>2. DOMAIN << >> = {}
    OBVIOUS
  <2>3. at \in [DOMAIN << >> -> 1..0]
    BY <2>2
  <2>4. Chosen(<< >>, queue, 0) /\ Unblocked(<< >>)
    BY <1>3, <2>2, <2>3 DEF Chosen, Unblocked
  <2>. QED  BY <1>1, <1>6, <2>1, <2>4
<1>9. ASSUME NEW k \in Nat, k < m, k \in A
      PROVE  k + 1 \in A
  <2>. DEFINE w == iter[1..k]
  <2>1. w \in T /\ k + 1 \in 1..m /\ Chosen(w, queue, k) /\ Unblocked(w)
    BY <1>1, <1>9 DEF Chosen
  <2>2. PICK at \in [DOMAIN w -> 1..k] :
           /\ \A a \in DOMAIN w : w[a] = queue[at[a]]
           /\ \A a, b \in DOMAIN w : a < b => at[a] < at[b]
    BY <2>1 DEF Chosen
  <2>. HIDE DEF w
  <2>3. Chosen(w, queue, k + 1)
    <3>1. at \in [DOMAIN w -> 1..(k + 1)]
      BY <1>9, <2>2
    <3>. QED  BY <2>1, <2>2, <3>1 DEF Chosen
  <2>4. Chosen(Append(w, queue[k + 1]), queue, k + 1)
    <3>. DEFINE n == Len(w)
                u == Append(w, queue[k + 1])
                on == [a \in 1..(n + 1) |-> IF a = n + 1 THEN k + 1 ELSE at[a]]
    <3>1. /\ n \in Nat /\ DOMAIN w = 1..n /\ u \in T /\ DOMAIN u = 1..(n + 1)
          /\ \A a \in 1..n : u[a] = w[a]
          /\ u[n + 1] = queue[k + 1]
      BY <1>1, <2>1
    <3>2. \A a \in 1..n : at[a] \in Nat /\ at[a] <= k /\ at[a] >= 1
      BY <1>9, <2>2, <3>1
    <3>3. \A a \in 1..(n + 1) : a = n + 1 \/ a \in 1..n
      BY <3>1
    <3>4. on \in [DOMAIN u -> 1..(k + 1)]
      BY <1>9, <3>1, <3>2, <3>3
    <3>5. \A a \in DOMAIN u : u[a] = queue[on[a]]
      BY <2>2, <3>1, <3>3
    <3>6. \A a, b \in DOMAIN u : a < b => on[a] < on[b]
      BY <1>9, <2>2, <3>1, <3>2, <3>3
    <3>. HIDE DEF u, on
    <3>7. Chosen(u, queue, k + 1)
      BY <3>1, <3>4, <3>5, <3>6 DEF Chosen
    <3>. QED  BY <3>7 DEF u
  <2>5. Joins(w, queue[k + 1]) => Unblocked(Append(w, queue[k + 1]))
    <3>. DEFINE u == Append(w, queue[k + 1])
    <3>1. /\ DOMAIN w = 1..Len(w) /\ DOMAIN u = 1..(Len(w) + 1)
          /\ \A a \in DOMAIN w : u[a] = w[a]
          /\ u[Len(w) + 1] = queue[k + 1] /\ Len(w) \in Nat
      BY <1>1, <2>1
    <3>. HIDE DEF u
    <3>2. \A a \in DOMAIN u : a \in DOMAIN w \/ a = Len(w) + 1
      BY <3>1
    <3>3. Joins(w, queue[k + 1]) => Unblocked(u)
      BY <2>1, <3>1, <3>2 DEF Joins, Unblocked
    <3>. QED  BY <3>3 DEF u
  <2>6. Chosen(iter[1..(k + 1)], queue, k + 1) /\ Unblocked(iter[1..(k + 1)])
    BY <1>7, <1>9, <2>1, <2>3, <2>4, <2>5 DEF w
  <2>. QED  BY <1>1, <1>9, <2>6
<1>. HIDE DEF A
<1>10. \A k \in 0..m : k \in A
  BY <1>1, <1>8, <1>9, CountUp
<1>11. m \in A
  BY <1>1, <1>10
<1>. QED  BY <1>2, <1>11 DEF A, ready

\* So does the wave it settles for.
LEMMA NextWaveIsQueued ==
    ASSUME IsList(queue), queue # << >>
    PROVE  Chosen(NextWave, queue, Len(queue))
<1>1. Len(queue) \in Nat /\ Len(queue) > 0 /\ DOMAIN queue = 1..Len(queue)
      /\ queue[1] \in Range(queue)
  BY ListFacts
<1>. DEFINE w == <<Head(queue)>>
            at == [a \in DOMAIN w |-> 1]
<1>2. w \in Seq(Range(queue)) /\ DOMAIN w = {1} /\ w[1] = queue[1]
  BY <1>1 DEF IsList
<1>3. at \in [DOMAIN w -> 1..Len(queue)] /\ at[1] = 1
  BY <1>1, <1>2
<1>4. Chosen(w, queue, Len(queue))
  <2>. HIDE DEF w, at
  <2>. QED  BY <1>2, <1>3 DEF Chosen
<1>. QED  BY <1>4, ReadyIsChosen DEF NextWave

\* What is chosen is of the queue, nothing of it twice.
LEMMA ChosenFacts ==
    ASSUME IsList(queue), NEW w, Chosen(w, queue, Len(queue))
    PROVE  /\ IsList(w) /\ Range(w) \subseteq Range(queue)
           /\ Ids(w) \subseteq Ids(queue)
           /\ OneEach(queue) => OneEach(w)
<1>1. PICK at \in [DOMAIN w -> 1..Len(queue)] :
         /\ \A a \in DOMAIN w : w[a] = queue[at[a]]
         /\ \A a, b \in DOMAIN w : a < b => at[a] < at[b]
  BY DEF Chosen
<1>2. DOMAIN queue = 1..Len(queue)
  BY ListFacts
<1>3. IsList(w)
  BY ListOf DEF Chosen
<1>4. OneEach(queue) => OneEach(w)
  BY <1>1, <1>2, <1>3, AtPlaces
<1>. QED  BY <1>1, <1>2, <1>3, <1>4 DEF Ids, Range

\* A wave of queued steps is started.
LEMMA StartTurn ==
    ASSUME TurnInv, NEW members, IsList(members), OneEach(members),
           Ids(members) \subseteq Ids(queue), StartWaveOf(members)
    PROVE  TurnInv'
<1>1. /\ pc = "working" /\ wave' = members /\ settled' = -1
      /\ queue' = Without(queue, Ids(members))
      /\ child' = [id \in Ids(members) |-> Started]
      /\ UNCHANGED <<pc, plan, drawn, results, done, replanned, meta>>
  BY DEF StartWaveOf, disk
<1>2. OnDisk'
  BY <1>1 DEF TurnInv, OnDisk
<1>3. Written'
  BY <1>1 DEF TurnInv, Written, IsEntry
<1>4. /\ IsList(queue') /\ Ids(queue') = Ids(queue) \ Ids(members)
      /\ OneEach(queue')
  BY <1>1, WithoutList DEF TurnInv, Gather
<1>5. IsChild(Started)
  <2>1. PICK no : no = FALSE
    OBVIOUS
  <2>2. PICK place : place = IF Ceiling /\ left = 0 THEN "back" ELSE "running"
    OBVIOUS
  <2>3. Started = [at |-> place, spent |-> 0, ok |-> no, replan |-> no,
                   awaiting |-> no]
    BY <2>1, <2>2 DEF Started
  <2>. QED  BY <2>3 DEF IsChild
<1>6. Gather'
  <2>1. Len(wave') \in Nat
    BY <1>1, ListFacts
  <2>. QED  BY <1>1, <1>4, <1>5, <2>1 DEF TurnInv, Gather, OneEach, IsChild
<1>7. Fresh'
  BY <1>1, <1>4 DEF TurnInv, Fresh
<1>. QED  BY <1>2, <1>3, <1>6, <1>7 DEF TurnInv

\* The children are back, as they are then looked at.
LEMMA GatheredTurn ==
    ASSUME TurnInv, NEW brought, GatheredAs(brought),
           DOMAIN brought = DOMAIN child,
           \A id \in DOMAIN child : IsChild(brought[id])
                                    /\ brought[id].at = "back"
    PROVE  TurnInv'
<1>1. /\ pc = "working" /\ child' = brought /\ settled' = 0
      /\ UNCHANGED <<pc, plan, drawn, queue, results, done, replanned, wave, meta>>
  BY DEF GatheredAs, disk
<1>2. OnDisk'
  BY <1>1 DEF TurnInv, OnDisk
<1>3. Written'
  BY <1>1 DEF TurnInv, Written, IsEntry
<1>4. Gather'
  <2>1. Len(wave) \in Nat
    BY ListFacts DEF TurnInv, Gather
  <2>. QED  BY <1>1, <2>1 DEF TurnInv, Gather, OneEach, IsChild
<1>5. Fresh'
  BY <1>1 DEF TurnInv, Fresh
<1>. QED  BY <1>2, <1>3, <1>4, <1>5 DEF TurnInv

\* What is there when a wave has ended.
LEMMA NoWave ==
    ASSUME WaveEnds
    PROVE  /\ IsList(wave') /\ OneEach(wave')
           /\ Ids(wave') = {} /\ DOMAIN child' = {}
           /\ settled' \in -1..Len(wave') /\ settled' # -1
  BY DEF WaveEnds, IsList, OneEach, Ids, Nothing, Range

\* A wave ends and the queue is carried on or dropped.
LEMMA WaveEndsTurn ==
    ASSUME TurnInv, Carries \/ Drops
    PROVE  TurnInv'
<1>1. /\ pc = "working" /\ WaveEnds /\ queue' \in {queue, << >>}
      /\ UNCHANGED <<pc, plan, drawn, results, done, replanned, meta>>
  BY DEF Carries, Drops, WaveIsSettled, turn, disk
<1>2. IsList(queue') /\ OneEach(queue') /\ Ids(queue') \subseteq Ids(queue)
  <2>1. IsList(<< >>) /\ OneEach(<< >>) /\ Ids(<< >>) = {}
    BY DEF IsList, OneEach, Ids, Range
  <2>. QED  BY <1>1, <2>1 DEF TurnInv, Gather
<1>3. OnDisk'
  BY <1>1 DEF TurnInv, OnDisk
<1>4. Written'
  BY <1>1 DEF TurnInv, Written, IsEntry
<1>5. Gather'
  BY <1>1, <1>2, NoWave DEF TurnInv, Gather, OneEach
<1>6. Fresh'
  BY <1>1, <1>2, NoWave DEF TurnInv, Fresh
<1>. QED  BY <1>3, <1>4, <1>5, <1>6 DEF TurnInv

\* A drawn plan is a list of steps with names of their own.
LEMMA DrawnIsList == \A p \in Plans \cup Redrawn : IsList(p) /\ OneEach(p)
<1>. SUFFICES ASSUME NEW p \in Plans \cup Redrawn
              PROVE  IsList(p) /\ OneEach(p)
  OBVIOUS
<1>1. IsList(p) /\ \A i \in DOMAIN p : p[i].id \notin Earlier(p, i)
  BY StagedAssumption DEF StagedAssumption, InOrder, IsList
<1>2. DOMAIN p = 1..Len(p) /\ Len(p) \in Nat
  BY <1>1, ListFacts
<1>3. \A i, j \in DOMAIN p : j < i => p[j].id # p[i].id
  BY <1>1, <1>2 DEF Earlier
<1>4. \A i, j \in DOMAIN p : i = j \/ i < j \/ j < i
  BY <1>2
<1>. QED  BY <1>1, <1>3, <1>4 DEF OneEach

\* The plan is redrawn.
LEMMA RedrawsTurn ==
    ASSUME TurnInv, NoPlanIsNone, Redraws
    PROVE  TurnInv'
<1>1. /\ pc = "working" /\ WaveEnds /\ plan' \in Redrawn /\ queue' = plan'
      /\ drawn' = drawn + 1 /\ replanned' = TRUE
      /\ meta' = [meta EXCEPT !.plan = plan', !.replanned = TRUE,
                              !.drawn = drawn + 1]
      /\ UNCHANGED <<pc, results, done>>
  BY DEF Redraws, WaveIsSettled
<1>2. meta = [plan |-> plan, done |-> done, replanned |-> replanned,
              drawn |-> drawn]
  BY <1>1 DEF TurnInv, OnDisk
<1>3. meta' = [plan |-> plan', done |-> done', replanned |-> replanned',
               drawn |-> drawn']
  BY <1>1, <1>2
<1>4. OnDisk'
  BY <1>1, <1>3 DEF OnDisk, NoPlanIsNone
<1>5. Written'
  BY <1>1 DEF TurnInv, Written, IsEntry
<1>6. Gather'
  BY <1>1, NoWave, DrawnIsList DEF TurnInv, Gather
<1>7. Fresh'
  <2>1. \A i \in DOMAIN done : done[i].plan # drawn + 1
    BY DEF TurnInv, Written, IsEntry
  <2>. QED  BY <1>1, <2>1, NoWave DEF Fresh
<1>. QED  BY <1>4, <1>5, <1>6, <1>7 DEF TurnInv

\* A plan is begun.
LEMMA BeginTurn ==
    ASSUME TurnInv, NoPlanIsNone, pc = "triage", NEW p, IsList(p), OneEach(p),
           Begin(p)
    PROVE  TurnInv'
<1>1. /\ plan' = p /\ queue' = p /\ Checkpoint(p, << >>, FALSE)
      /\ pc' = "working"
      /\ UNCHANGED <<drawn, results, done, replanned, wave, child, settled>>
  BY DEF Begin, gather
<1>2. meta = NoPlan /\ drawn = 0 /\ done = << >> /\ results = Nothing
      /\ wave = << >> /\ replanned = FALSE
  BY DEF TurnInv, OnDisk
<1>3. PICK no, zero, none : no = FALSE /\ zero = 0 /\ none = << >>
  OBVIOUS
<1>4. meta' = [plan |-> p, done |-> none, replanned |-> no, drawn |-> zero]
  BY <1>1, <1>2, <1>3 DEF Checkpoint
<1>5. meta' = [plan |-> plan', done |-> done', replanned |-> replanned',
               drawn |-> drawn']
  BY <1>1, <1>2, <1>3, <1>4
<1>6. meta' # NoPlan
  BY <1>4 DEF NoPlanIsNone
<1>7. OnDisk'
  BY <1>1, <1>5, <1>6 DEF OnDisk
<1>8. Written'
  BY <1>1 DEF TurnInv, Written, IsEntry
<1>9. Gather'
  BY <1>1 DEF TurnInv, Gather, OneEach, IsChild
<1>10. Fresh'
  BY <1>1, <1>2 DEF Fresh, Ids
<1>. QED  BY <1>7, <1>8, <1>9, <1>10 DEF TurnInv

\* Another process reads the checkpoint back.
LEMMA ResumesTurn ==
    ASSUME TurnInv, NoPlanIsNone, NEW p, IsList(p), OneEach(p), ResumesWith(p)
    PROVE  TurnInv'
<1>1. /\ meta # NoPlan
      /\ plan' = p /\ drawn' = meta.drawn /\ done' = Settled(meta.done)
      /\ results' = ResultsOf(done') /\ queue' = Without(p, DOMAIN results')
      /\ replanned' = meta.replanned /\ Checkpoint(p, done', meta.replanned)
      /\ WaveEnds /\ pc' = "working"
  BY DEF ResumesWith
<1>2. meta = [plan |-> plan, done |-> done, replanned |-> replanned,
              drawn |-> drawn]
  BY <1>1 DEF TurnInv, OnDisk
<1>3. /\ drawn' = drawn /\ done' = Settled(done) /\ replanned' = replanned
      /\ meta' = [plan |-> plan', done |-> done', replanned |-> replanned',
                  drawn |-> drawn']
  BY <1>1, <1>2 DEF Checkpoint
<1>4. OnDisk'
  BY <1>1, <1>3 DEF OnDisk, NoPlanIsNone
<1>5. /\ IsList(done')
      /\ \A n \in DOMAIN done' : \E i \in DOMAIN done :
            done'[n] = done[i] /\ done[i].outcome \in {"ok", "failed"}
  BY <1>3, SettledList DEF TurnInv, Written
<1>6. /\ DOMAIN results' = Ids(done')
      /\ \A id \in DOMAIN results' : \E i \in DOMAIN done' :
            /\ done'[i].id = id
            /\ results'[id] = [ok |-> done'[i].outcome = "ok",
                               plan |-> done'[i].plan]
  BY <1>1, <1>5, ResultsRead
<1>7. \A n \in DOMAIN done' : done'[n].outcome \in {"ok", "failed"}
  BY <1>5
<1>8. Written'
  <2>1. drawn' \in Nat /\ (\A i \in DOMAIN done : IsEntry(done[i]))'
    BY <1>3, <1>5 DEF TurnInv, Written, IsEntry
  <2>2. \A i \in DOMAIN done' : done'[i].id \in DOMAIN results'
    BY <1>6 DEF Ids
  <2>3. ASSUME NEW id \in DOMAIN results'
        PROVE  \E i \in DOMAIN done' :
                  /\ done'[i].id = id /\ done'[i].plan = results'[id].plan
                  /\ done'[i].outcome = IF results'[id].ok THEN "ok" ELSE "failed"
    <3>1. PICK i \in DOMAIN done' :
             /\ done'[i].id = id
             /\ results'[id] = [ok |-> done'[i].outcome = "ok",
                                plan |-> done'[i].plan]
      BY <1>6, <2>3
    <3>2. /\ results'[id].ok <=> done'[i].outcome = "ok"
          /\ results'[id].plan = done'[i].plan
      <4>1. PICK word : word = (done'[i].outcome = "ok")
        OBVIOUS
      <4>2. results'[id] = [ok |-> word, plan |-> done'[i].plan]
        BY <3>1, <4>1
      <4>3. results'[id].ok = word /\ results'[id].plan = done'[i].plan
        BY <4>2
      <4>. QED  BY <4>1, <4>3
    <3>. QED  BY <1>7, <3>1, <3>2
  <2>. QED  BY <1>5, <2>1, <2>2, <2>3 DEF Written
<1>9. /\ IsList(queue') /\ OneEach(queue')
      /\ Ids(queue') = Ids(p) \ DOMAIN results'
  BY <1>1, WithoutList
<1>10. Gather'
  BY <1>1, <1>9, NoWave DEF Gather
<1>11. Fresh'
  <2>1. \A i \in DOMAIN done' : done'[i].id \in DOMAIN results'
    BY <1>6 DEF Ids
  <2>. QED  BY <1>1, <1>9, <2>1, NoWave DEF Fresh
<1>. QED  BY <1>4, <1>8, <1>10, <1>11 DEF TurnInv

-----------------------------------------------------------------------------
(* The order a campaign's steps run in: toposort. *)

\* No element of the list twice.
Once(s) == \A a, b \in DOMAIN s : s[a] = s[b] => a = b

\* What the sort has placed and what waits to be placed: no task twice, and
\* none that still owes a dependency.
InLine(k) == k.order \o k.ready
Line(I) ==
    {k \in [ready : Seq(I), order : Seq(I), owes : [I -> Int]] :
        /\ Once(InLine(k))
        /\ \A a \in DOMAIN InLine(k) : k.owes[InLine(k)[a]] <= 0}

\* One dependency of a task is paid; the head of those who wait is placed.
Payment(k, id) ==
    [k EXCEPT !.owes[id] = @ - 1,
              !.ready = IF k.owes[id] = 1 THEN Append(@, id) ELSE @]
Popped(k) == [k EXCEPT !.ready = Tail(@), !.order = Append(@, Head(k.ready))]

\* A payment puts a task in line when it owed one.
LEMMA PaymentStays ==
    ASSUME NEW I, NEW k \in Line(I), NEW id \in I
    PROVE  /\ Payment(k, id) \in Line(I)
           /\ Payment(k, id).order = k.order
           /\ Payment(k, id).owes = [k.owes EXCEPT ![id] = @ - 1]
           /\ Payment(k, id).ready = IF k.owes[id] = 1
                                     THEN Append(k.ready, id) ELSE k.ready
<1>. DEFINE r == Payment(k, id)
            s == InLine(k)
            t == InLine(r)
<1>1. k \in [ready : Seq(I), order : Seq(I), owes : [I -> Int]]
  BY DEF Line
<1>2. /\ r \in [ready : Seq(I), order : Seq(I), owes : [I -> Int]]
      /\ r.order = k.order
      /\ r.ready = IF k.owes[id] = 1 THEN Append(k.ready, id) ELSE k.ready
      /\ r.owes = [k.owes EXCEPT ![id] = @ - 1]
  <2>1. k = [ready |-> k.ready, order |-> k.order, owes |-> k.owes]
    BY <1>1
  <2>2. /\ k.ready \in Seq(I) /\ k.order \in Seq(I) /\ k.owes \in [I -> Int]
        /\ Append(k.ready, id) \in Seq(I)
        /\ [k.owes EXCEPT ![id] = @ - 1] \in [I -> Int]
    BY <1>1
  <2>. DEFINE longer == IF k.owes[id] = 1 THEN Append(k.ready, id) ELSE k.ready
              less == [k.owes EXCEPT ![id] = @ - 1]
  <2>3. r = [f \in DOMAIN k |-> IF f = "ready" THEN longer
                               ELSE IF f = "owes" THEN less ELSE k[f]]
    BY <2>1 DEF Payment
  <2>. HIDE DEF r
  <2>4. r = [ready |-> longer, order |-> k.order, owes |-> less]
    BY <2>1, <2>3
  <2>. QED  BY <2>2, <2>4
<1>3. s \in Seq(I) /\ Once(s) /\ \A a \in DOMAIN s : k.owes[s[a]] <= 0
  BY <1>1 DEF Line, InLine
<1>4. t = IF k.owes[id] = 1 THEN Append(s, id) ELSE s
  <2>. DEFINE u == k.order
              v == k.ready
  <2>1. u \in Seq(I) /\ v \in Seq(I)
    BY <1>1
  <2>. HIDE DEF u, v
  <2>2. u \o Append(v, id) = Append(u \o v, id)
    BY <2>1
  <2>. QED  BY <1>2, <2>2 DEF InLine, u, v
<1>5. \A x \in I : k.owes[x] \in Int /\ r.owes[x] \in Int /\ r.owes[x] <= k.owes[x]
  BY <1>1, <1>2
<1>6. r.owes[id] = k.owes[id] - 1
  BY <1>1, <1>2
<1>. HIDE DEF r, s, t
<1>7. Once(t) /\ \A a \in DOMAIN t : r.owes[t[a]] <= 0
  <2>1. CASE k.owes[id] # 1
    BY <1>3, <1>4, <1>5, <2>1
  <2>2. CASE k.owes[id] = 1
    <3>1. \A a \in DOMAIN s : s[a] # id /\ s[a] \in I
      BY <1>3, <2>2
    <3>2. /\ t = Append(s, id) /\ Len(s) \in Nat /\ DOMAIN s = 1..Len(s)
          /\ DOMAIN t = 1..(Len(s) + 1) /\ t[Len(s) + 1] = id
          /\ \A a \in 1..Len(s) : t[a] = s[a]
      BY <1>3, <1>4, <2>2
    <3>3. \A a \in 1..(Len(s) + 1) : a = Len(s) + 1 \/ a \in 1..Len(s)
      BY <3>2
    <3>4. Once(t)
      BY <1>3, <3>1, <3>2, <3>3 DEF Once
    <3>5. \A a \in DOMAIN t : r.owes[t[a]] <= 0
      BY <1>3, <1>5, <1>6, <2>2, <3>1, <3>2, <3>3
    <3>. QED  BY <3>4, <3>5
  <2>. QED  BY <2>1, <2>2
<1>8. r \in Line(I)
  BY <1>2, <1>7 DEF Line, t
<1>. QED  BY <1>2, <1>8 DEF r

\* The head of those who wait is placed.
LEMMA PopStays ==
    ASSUME NEW I, NEW k \in Line(I), k.ready # << >>
    PROVE  /\ Head(k.ready) \in I /\ Popped(k) \in Line(I)
           /\ Popped(k).order = Append(k.order, Head(k.ready))
           /\ Popped(k).ready = Tail(k.ready) /\ Popped(k).owes = k.owes
           /\ InLine(Popped(k)) = InLine(k)
<1>. DEFINE r == Popped(k)
<1>1. k \in [ready : Seq(I), order : Seq(I), owes : [I -> Int]]
  BY DEF Line
<1>2. /\ r \in [ready : Seq(I), order : Seq(I), owes : [I -> Int]]
      /\ r.order = Append(k.order, Head(k.ready)) /\ r.ready = Tail(k.ready)
      /\ r.owes = k.owes /\ Head(k.ready) \in I
  <2>1. k = [ready |-> k.ready, order |-> k.order, owes |-> k.owes]
    BY <1>1
  <2>2. /\ k.ready \in Seq(I) /\ k.order \in Seq(I) /\ k.owes \in [I -> Int]
        /\ Head(k.ready) \in I /\ Tail(k.ready) \in Seq(I)
        /\ Append(k.order, Head(k.ready)) \in Seq(I)
    BY <1>1
  <2>3. r = [f \in DOMAIN k |-> IF f = "ready" THEN Tail(k.ready)
                               ELSE IF f = "order"
                                    THEN Append(k.order, Head(k.ready)) ELSE k[f]]
    BY <2>1 DEF Popped
  <2>. HIDE DEF r
  <2>4. r = [ready |-> Tail(k.ready), order |-> Append(k.order, Head(k.ready)),
             owes |-> k.owes]
    BY <2>1, <2>3
  <2>. QED  BY <2>2, <2>4
<1>. HIDE DEF r
<1>3. InLine(r) = InLine(k)
  <2>. DEFINE u == k.order
              v == k.ready
  <2>1. u \in Seq(I) /\ v \in Seq(I) /\ v # << >>
    BY <1>1
  <2>. HIDE DEF u, v
  <2>2. Append(u, Head(v)) \o Tail(v) = u \o v
    BY <2>1
  <2>. QED  BY <1>2, <2>2 DEF InLine, u, v
<1>4. r \in Line(I)
  BY <1>2, <1>3 DEF Line
<1>. QED  BY <1>2, <1>3, <1>4 DEF r

\* What the first n tasks have been paid for the placed one, k being the state
\* before and r the one after.
Paid(tasks, k, node, n, r) ==
    /\ r.order = k.order /\ Range(k.ready) \subseteq Range(r.ready)
    /\ \A i \in DOMAIN tasks :
          LET id == tasks[i].id
              pays == i <= n /\ node \in Needs(tasks[i])
          IN  /\ r.owes[id] = IF pays THEN k.owes[id] - 1 ELSE k.owes[id]
              /\ (pays /\ k.owes[id] = 1) => id \in Range(r.ready)

\* Every task that takes from the placed one is paid.
LEMMA PaysStays ==
    ASSUME NEW tasks, IsList(tasks), OneEach(tasks),
           NEW k \in Line(Ids(tasks)), NEW node
    PROVE  /\ Pays(k, node, tasks) \in Line(Ids(tasks))
           /\ Paid(tasks, k, node, Len(tasks), Pays(k, node, tasks))
<1>. DEFINE m == Len(tasks)
            T == Line(Ids(tasks))
            One(w, i) == IF node \notin Needs(tasks[i]) THEN w
                         ELSE Payment(w, tasks[i].id)
            Runs(f) == f = [s \in SUBSET (1..m) |->
                               IF s = {} THEN k
                               ELSE One(f[s \ {Max(s)}], Max(s))]
            iter == CHOOSE f : Runs(f)
            step == [p \in T \X (1..m) |-> One(p[1], p[2])]
<1>1. m \in Nat /\ DOMAIN tasks = 1..m /\ \A i \in 1..m : tasks[i].id \in Ids(tasks)
  BY ListFacts DEF Ids
<1>2. Pays(k, node, tasks) = iter[1..m]
  BY <1>1 DEF Pays, FoldLeft, MapThenFoldSet, Payment
<1>3. \A w \in T, i \in 1..m : One(w, i) \in T
  BY <1>1, PaymentStays
<1>4. \E g : Runs(g)
  <2>0. step \in [T \X (1..m) -> T]
    BY <1>3
  <2>1. PICK g \in [SUBSET (1..m) -> T] : IsFold(g, m, k, step)
    BY <1>1, <2>0, FoldExists
  <2>2. ASSUME NEW s \in SUBSET (1..m)
        PROVE  g[s] = IF s = {} THEN k ELSE One(g[s \ {Max(s)}], Max(s))
    <3>1. CASE s = {}
      BY <2>1, <3>1 DEF IsFold
    <3>2. CASE s # {}
      <4>1. Max(s) \in 1..m /\ s \ {Max(s)} \in SUBSET (1..m)
        BY <1>1, <3>2, MaxIsThere
      <4>2. g[s \ {Max(s)}] \in T
        BY <2>1, <4>1
      <4>3. g[s] = step[<<g[s \ {Max(s)}], Max(s)>>]
        BY <2>1, <3>2 DEF IsFold
      <4>. HIDE DEF One, T
      <4>. QED  BY <3>2, <4>1, <4>2, <4>3
    <3>. QED  BY <3>1, <3>2
  <2>. HIDE DEF One
  <2>. QED  BY <2>1, <2>2
<1>5. Runs(iter)
  BY <1>4
<1>11. \A i, j \in 1..m : tasks[i].id = tasks[j].id => i = j
  BY <1>1 DEF OneEach
<1>12. ASSUME NEW w \in T, NEW n \in Nat, n < m, Paid(tasks, k, node, n, w)
       PROVE  Paid(tasks, k, node, n + 1, One(w, n + 1))
  <2>. DEFINE id == tasks[n + 1].id
              r == One(w, n + 1)
  <2>0. n + 1 \in 1..m /\ \A i \in 1..m : i <= n + 1 <=> i <= n \/ i = n + 1
    BY <1>1, <1>12
  <2>1. CASE node \notin Needs(tasks[n + 1])
    BY <1>1, <1>12, <2>0, <2>1 DEF Paid
  <2>2. CASE node \in Needs(tasks[n + 1])
    <3>1. id \in Ids(tasks)
      BY <1>1, <2>0
    <3>2. /\ r.order = w.order /\ r.owes = [w.owes EXCEPT ![id] = @ - 1]
          /\ r.ready = IF w.owes[id] = 1 THEN Append(w.ready, id) ELSE w.ready
          /\ w.owes \in [Ids(tasks) -> Int] /\ w.ready \in Seq(Ids(tasks))
      <4>1. r = Payment(w, id)
        BY <2>2
      <4>2. w \in Line(Ids(tasks))
        BY <1>12
      <4>. HIDE DEF r, id
      <4>3. w.owes \in [Ids(tasks) -> Int] /\ w.ready \in Seq(Ids(tasks))
        BY <4>2 DEF Line
      <4>. QED  BY <3>1, <4>1, <4>2, <4>3, PaymentStays
    <3>3. /\ Range(w.ready) \subseteq Range(r.ready)
          /\ w.owes[id] = 1 => id \in Range(r.ready)
      <4>. DEFINE v == w.ready
      <4>1. v \in Seq(Ids(tasks)) /\ r.ready \in {v, Append(v, id)}
            /\ (w.owes[id] = 1 => r.ready = Append(v, id))
        BY <3>2
      <4>. HIDE DEF v, r, id
      <4>2. Range(v) \subseteq Range(Append(v, id)) /\ id \in Range(Append(v, id))
        <5>1. /\ DOMAIN v = 1..Len(v) /\ Len(v) \in Nat
              /\ DOMAIN Append(v, id) = 1..(Len(v) + 1)
              /\ Append(v, id)[Len(v) + 1] = id
              /\ \A a \in 1..Len(v) : Append(v, id)[a] = v[a]
          BY <4>1, <3>1
        <5>. QED  BY <5>1 DEF Range
      <4>. QED  BY <4>1, <4>2 DEF v
    <3>. HIDE DEF r
    <3>4. \A i \in 1..m : i # n + 1 => tasks[i].id # id
      BY <1>11, <2>0
    <3>5. \A i \in 1..m : tasks[i].id \in Ids(tasks)
      BY <1>1
    <3>6. w.owes[id] = k.owes[id]
      BY <1>1, <1>12, <2>0 DEF Paid
    <3>7. r.order = k.order /\ Range(k.ready) \subseteq Range(r.ready)
      BY <1>12, <3>2, <3>3 DEF Paid
    <3>8. ASSUME NEW i \in 1..m, i # n + 1
          PROVE  /\ r.owes[tasks[i].id] = w.owes[tasks[i].id]
                 /\ i <= n + 1 <=> i <= n
      BY <2>0, <3>2, <3>4, <3>5, <3>8
    <3>9. r.owes[id] = k.owes[id] - 1
      BY <3>1, <3>2, <3>6
    <3>10. ASSUME NEW i \in 1..m
           PROVE  LET to == tasks[i].id
                      pays == i <= n + 1 /\ node \in Needs(tasks[i])
                  IN  /\ r.owes[to] = IF pays THEN k.owes[to] - 1 ELSE k.owes[to]
                      /\ (pays /\ k.owes[to] = 1) => to \in Range(r.ready)
      <4>1. CASE i = n + 1
        <5>1. i <= n + 1
          BY <1>12, <4>1
        <5>. QED  BY <2>2, <3>3, <3>6, <3>9, <4>1, <5>1
      <4>2. CASE i # n + 1
        BY <1>1, <1>12, <3>3, <3>8, <4>2 DEF Paid
      <4>. QED  BY <4>1, <4>2
    <3>. HIDE DEF One, T
    <3>. QED  BY <1>1, <3>7, <3>10 DEF Paid, r
  <2>. QED  BY <2>1, <2>2
<1>. HIDE DEF iter, One, T
<1>. DEFINE A == {n \in 0..m : iter[1..n] \in T
                                /\ Paid(tasks, k, node, n, iter[1..n])}
<1>6. 0 \in A
  <2>1. 1..0 = {}
    OBVIOUS
  <2>2. iter[{}] = k
    BY <1>5
  <2>3. Paid(tasks, k, node, 0, k)
    BY <1>1 DEF Paid
  <2>. QED  BY <1>1, <2>1, <2>2, <2>3 DEF T
<1>7. ASSUME NEW n \in Nat, n < m, n \in A
      PROVE  n + 1 \in A
  <2>0. n + 1 \in Nat /\ n + 1 > 0 /\ (n + 1) - 1 = n /\ n + 1 <= m
    BY <1>1, <1>7
  <2>1. /\ Max(1..(n + 1)) = n + 1 /\ (1..(n + 1)) \ {n + 1} = 1..n
        /\ 1..(n + 1) # {} /\ 1..(n + 1) \in SUBSET (1..m)
    BY SMTT(30), <1>1, <2>0, MaxUpto
  <2>2. iter[1..(n + 1)] = One(iter[1..n], n + 1)
    BY <1>5, <2>1
  <2>3. Paid(tasks, k, node, n + 1, iter[1..(n + 1)])
    BY <1>7, <1>12, <2>2
  <2>. QED  BY <1>1, <1>3, <1>7, <2>0, <2>2, <2>3
<1>. HIDE DEF A
<1>8. \A n \in 0..m : n \in A
  BY <1>1, <1>6, <1>7, CountUp
<1>9. m \in A
  BY <1>1, <1>8
<1>. QED  BY <1>2, <1>9 DEF A, T

\* A list with as many ids as elements has none twice.
LEMMA IdsOnce ==
    ASSUME NEW s, IsList(s), Cardinality(Ids(s)) = Len(s)
    PROVE  OneEach(s)
<1>. DEFINE f == [i \in 1..Len(s) |-> s[i].id]
<1>1. Len(s) \in Nat /\ DOMAIN s = 1..Len(s)
  BY ListFacts
<1>2. f \in Surjection(1..Len(s), Ids(s))
  BY <1>1 DEF Surjection, Ids
<1>3. IsFiniteSet(1..Len(s)) /\ Cardinality(1..Len(s)) = Len(s)
  <2>. DEFINE n == Len(s)
  <2>1. 1 \in Int /\ n \in Int /\ n \in Nat
    BY <1>1
  <2>. HIDE DEF n
  <2>2. IsFiniteSet(1..n) /\ Cardinality(1..n) = IF 1 > n THEN 0 ELSE n - 1 + 1
    BY <2>1, FS_Interval
  <2>. QED  BY <2>1, <2>2 DEF n
<1>4. f \in Injection(1..Len(s), Ids(s))
  BY <1>2, <1>3, FS_Surjection
<1>. QED  BY <1>1, <1>4 DEF Injection, IsInjective, OneEach

\* Where the sort stands: a task owes the dependencies that are not placed, it
\* is in line once it owes none, and what is placed comes after its own.
Kahn(tasks, k) ==
    /\ \A i \in DOMAIN tasks :
          /\ k.owes[tasks[i].id] = Cardinality(Needs(tasks[i]) \ Range(k.order))
          /\ k.owes[tasks[i].id] = 0 => tasks[i].id \in Range(InLine(k))
    /\ \A a \in DOMAIN k.order, i \in DOMAIN tasks :
          tasks[i].id = k.order[a]
              => Needs(tasks[i]) \subseteq {k.order[b] : b \in 1..(a - 1)}

\* The front and the back of a line.
LEMMA LineFacts ==
    ASSUME NEW I, NEW k \in Line(I)
    PROVE  /\ k.order \in Seq(I) /\ k.ready \in Seq(I) /\ k.owes \in [I -> Int]
           /\ Range(InLine(k)) = Range(k.order) \cup Range(k.ready)
           /\ Once(k.order)
           /\ k.ready # << >> => /\ Head(k.ready) \in I
                                 /\ k.owes[Head(k.ready)] <= 0
                                 /\ Head(k.ready) \notin Range(k.order)
<1>. DEFINE u == k.order
            v == k.ready
            s == u \o v
<1>1. /\ u \in Seq(I) /\ v \in Seq(I) /\ k.owes \in [I -> Int]
      /\ Once(s) /\ \A a \in DOMAIN s : k.owes[s[a]] <= 0
      /\ InLine(k) = s
  BY DEF Line, InLine
<1>. HIDE DEF u, v
<1>2. /\ Len(u) \in Nat /\ Len(v) \in Nat
      /\ DOMAIN u = 1..Len(u) /\ DOMAIN v = 1..Len(v)
      /\ DOMAIN s = 1..(Len(u) + Len(v))
      /\ \A a \in 1..Len(u) : s[a] = u[a]
      /\ \A a \in 1..Len(v) : s[Len(u) + a] = v[a]
  BY <1>1
<1>. HIDE DEF s
<1>3. \A a \in 1..Len(u) : a \in DOMAIN s
  BY <1>2
<1>4. \A a \in 1..Len(v) : Len(u) + a \in DOMAIN s
  BY <1>2
<1>5. \A a \in DOMAIN s : a \in 1..Len(u)
                         \/ \E b \in 1..Len(v) : a = Len(u) + b
  <2>. SUFFICES ASSUME NEW a \in DOMAIN s, a \notin 1..Len(u)
                PROVE  \E b \in 1..Len(v) : a = Len(u) + b
    OBVIOUS
  <2>1. a - Len(u) \in 1..Len(v) /\ a = Len(u) + (a - Len(u))
    BY <1>2
  <2>. QED  BY <2>1
<1>6. Range(s) = Range(u) \cup Range(v)
  <2>1. Range(u) \subseteq Range(s) /\ Range(v) \subseteq Range(s)
    BY <1>2, <1>3, <1>4 DEF Range
  <2>2. \A a \in DOMAIN s : s[a] \in Range(u) \/ s[a] \in Range(v)
    BY <1>2, <1>5 DEF Range
  <2>3. Range(s) \subseteq Range(u) \cup Range(v)
    BY <2>2 DEF Range
  <2>. QED  BY <2>1, <2>3
<1>7. Once(u)
  BY <1>1, <1>2, <1>3 DEF Once
<1>8. ASSUME v # << >>
      PROVE  Head(v) \in I /\ k.owes[Head(v)] <= 0 /\ Head(v) \notin Range(u)
  <2>1. 1 \in 1..Len(v) /\ Head(v) = v[1] /\ Head(v) \in I
    BY <1>1, <1>2, <1>8
  <2>2. Len(u) + 1 \in DOMAIN s /\ s[Len(u) + 1] = Head(v)
    BY <1>2, <1>4, <2>1
  <2>3. \A a \in 1..Len(u) : a # Len(u) + 1
    BY <1>2
  <2>. QED  BY <1>1, <1>2, <1>3, <2>1, <2>2, <2>3 DEF Once, Range
<1>. QED  BY <1>1, <1>6, <1>7, <1>8 DEF u, v

\* One more task is placed, and whoever takes from it is paid.
LEMMA PopKeeps ==
    ASSUME NEW tasks, IsList(tasks), OneEach(tasks),
           \A i \in DOMAIN tasks : IsFiniteSet(Needs(tasks[i])),
           NEW k \in Line(Ids(tasks)), Kahn(tasks, k), k.ready # << >>,
           NEW r, r = Pays(Popped(k), Head(k.ready), tasks)
    PROVE  Kahn(tasks, r) /\ Len(r.order) = Len(k.order) + 1
<1>. DEFINE node == Head(k.ready)
            I == Ids(tasks)
            k1 == Popped(k)
            R == Range(k.order)
<1>1. /\ k.order \in Seq(I) /\ k.ready \in Seq(I) /\ k.owes \in [I -> Int]
      /\ Range(InLine(k)) = Range(k.order) \cup Range(k.ready)
      /\ node \in I /\ k.owes[node] <= 0 /\ node \notin R
  BY LineFacts
<1>2. /\ k1 \in Line(I) /\ k1.order = Append(k.order, node)
      /\ k1.owes = k.owes /\ InLine(k1) = InLine(k)
  BY PopStays
<1>. HIDE DEF k1, node
<1>3. r \in Line(I) /\ Paid(tasks, k1, node, Len(tasks), r)
  BY <1>2, PaysStays DEF k1, node
<1>4. /\ r.order = Append(k.order, node)
      /\ Range(k1.ready) \subseteq Range(r.ready)
      /\ Range(InLine(r)) = Range(r.order) \cup Range(r.ready)
      /\ Range(InLine(k)) = Range(r.order) \cup Range(k1.ready)
  BY <1>2, <1>3, LineFacts DEF Paid
<1>5. /\ Len(k.order) \in Nat /\ DOMAIN k.order = 1..Len(k.order)
      /\ DOMAIN r.order = 1..(Len(k.order) + 1)
      /\ Len(r.order) = Len(k.order) + 1
      /\ \A a \in 1..Len(k.order) : r.order[a] = k.order[a]
      /\ r.order[Len(k.order) + 1] = node
  <2>. DEFINE u == k.order
  <2>1. u \in Seq(I) /\ r.order = Append(u, node)
    BY <1>1, <1>4
  <2>. HIDE DEF u
  <2>2. /\ Len(u) \in Nat /\ DOMAIN u = 1..Len(u)
        /\ DOMAIN Append(u, node) = 1..(Len(u) + 1)
        /\ Len(Append(u, node)) = Len(u) + 1
        /\ \A a \in 1..Len(u) : Append(u, node)[a] = u[a]
        /\ Append(u, node)[Len(u) + 1] = node
    BY <1>1, <2>1
  <2>. QED  BY <2>1, <2>2 DEF u
<1>6. \A a \in DOMAIN r.order : a \in 1..Len(k.order) \/ a = Len(k.order) + 1
  BY <1>5
<1>7. Range(r.order) = R \cup {node}
  <2>1. \A a \in 1..Len(k.order) : a \in DOMAIN r.order
    BY <1>5
  <2>2. Len(k.order) + 1 \in DOMAIN r.order
    BY <1>5
  <2>. QED  BY <1>5, <1>6, <2>1, <2>2 DEF Range
<1>8. ASSUME NEW i \in DOMAIN tasks
      PROVE  /\ tasks[i].id \in I /\ i <= Len(tasks)
             /\ Cardinality(Needs(tasks[i]) \ R) \in Nat
             /\ IsFiniteSet(Needs(tasks[i]) \ R)
             /\ k.owes[tasks[i].id] = Cardinality(Needs(tasks[i]) \ R)
  <2>1. IsFiniteSet(Needs(tasks[i]) \ R)
    BY FS_Subset
  <2>. QED  BY <2>1, FS_CardinalityType, ListFacts DEF Kahn, Ids
<1>9. ASSUME NEW i \in DOMAIN tasks
      PROVE  /\ r.owes[tasks[i].id] = IF node \in Needs(tasks[i])
                                      THEN k.owes[tasks[i].id] - 1
                                      ELSE k.owes[tasks[i].id]
             /\ (node \in Needs(tasks[i]) /\ k.owes[tasks[i].id] = 1)
                   => tasks[i].id \in Range(r.ready)
  BY <1>2, <1>3, <1>8 DEF Paid
<1>10. ASSUME NEW i \in DOMAIN tasks
       PROVE  r.owes[tasks[i].id] = Cardinality(Needs(tasks[i]) \ Range(r.order))
  <2>. DEFINE N == Needs(tasks[i]) \ R
  <2>1. CASE node \in Needs(tasks[i])
    <3>1. node \in N /\ IsFiniteSet(N)
      BY <1>1, <1>8, <2>1
    <3>2. Cardinality(N \ {node}) = Cardinality(N) - 1
      <4>. HIDE DEF N
      <4>. QED  BY <3>1, FS_RemoveElement
    <3>3. Needs(tasks[i]) \ Range(r.order) = N \ {node}
      BY <1>7
    <3>. QED  BY <1>8, <1>9, <2>1, <3>2, <3>3
  <2>2. CASE node \notin Needs(tasks[i])
    <3>1. Needs(tasks[i]) \ Range(r.order) = N
      BY <1>7, <2>2
    <3>. QED  BY <1>8, <1>9, <2>2, <3>1
  <2>. QED  BY <2>1, <2>2
<1>11. ASSUME NEW i \in DOMAIN tasks, r.owes[tasks[i].id] = 0
       PROVE  tasks[i].id \in Range(InLine(r))
  <2>1. CASE node \in Needs(tasks[i])
    <3>1. k.owes[tasks[i].id] = 1
      <4>1. k.owes[tasks[i].id] \in Nat /\ k.owes[tasks[i].id] - 1 = 0
        BY <1>8, <1>9, <1>11, <2>1
      <4>. QED  BY <4>1
    <3>. QED  BY <1>4, <1>9, <2>1, <3>1
  <2>2. CASE node \notin Needs(tasks[i])
    <3>1. k.owes[tasks[i].id] = 0
      BY <1>9, <1>11, <2>2
    <3>2. tasks[i].id \in Range(InLine(k))
      BY <3>1 DEF Kahn
    <3>. QED  BY <1>4, <3>2
  <2>. QED  BY <2>1, <2>2
<1>12. ASSUME NEW a \in DOMAIN r.order, NEW i \in DOMAIN tasks,
              tasks[i].id = r.order[a]
       PROVE  Needs(tasks[i]) \subseteq {r.order[b] : b \in 1..(a - 1)}
  <2>1. CASE a \in 1..Len(k.order)
    <3>1. Needs(tasks[i]) \subseteq {k.order[b] : b \in 1..(a - 1)}
      BY <1>5, <1>12, <2>1 DEF Kahn
    <3>2. \A b \in 1..(a - 1) : r.order[b] = k.order[b]
      BY <1>5, <2>1
    <3>. QED  BY <3>1, <3>2
  <2>2. CASE a = Len(k.order) + 1
    <3>1. k.owes[tasks[i].id] <= 0
      BY <1>1, <1>5, <1>12, <2>2
    <3>2. Cardinality(Needs(tasks[i]) \ R) = 0
      BY <1>8, <3>1
    <3>3. Needs(tasks[i]) \ R = {}
      BY <1>8, <3>2, FS_EmptySet
    <3>4. (a - 1) = Len(k.order)
      BY <1>5, <2>2
    <3>5. R = {r.order[b] : b \in 1..(a - 1)}
      BY <1>5, <3>4 DEF Range
    <3>. QED  BY <3>3, <3>5
  <2>. QED  BY <1>6, <2>1, <2>2
<1>. QED  BY <1>5, <1>10, <1>11, <1>12 DEF Kahn

\* A list without repetitions has as many elements as places.
LEMMA OnceCounts ==
    ASSUME NEW s, IsList(s), Once(s)
    PROVE  IsFiniteSet(Range(s)) /\ Cardinality(Range(s)) = Len(s)
<1>. DEFINE n == Len(s)
<1>1. n \in Nat /\ DOMAIN s = 1..n
  BY ListFacts
<1>2. s \in Bijection(1..n, Range(s))
  <2>1. s \in [1..n -> Range(s)]
    BY <1>1 DEF IsList
  <2>. QED  BY <1>1, <2>1 DEF Once, Range, Bijection, Injection, Surjection,
                             IsInjective
<1>. HIDE DEF n
<1>3. IsFiniteSet(1..n) /\ Cardinality(1..n) = n
  <2>1. IsFiniteSet(1..n)
        /\ Cardinality(1..n) = IF 1 > n THEN 0 ELSE n - 1 + 1
    BY <1>1, FS_Interval
  <2>. QED  BY <1>1, <2>1
<1>4. ExistsBijection(1..n, Range(s))
  BY <1>2 DEF ExistsBijection
<1>. QED  BY <1>3, <1>4, FS_Bijection DEF n

\* A proposal that names no dependency twice, and only steps of its own.
Simple(tasks) ==
    /\ \A i \in DOMAIN tasks : /\ Once(tasks[i].inputs)
                               /\ Needs(tasks[i]) \subseteq Ids(tasks)
    /\ Acyclic(Range(tasks))

\* An order of all its tasks, each after those it needs.
Sorts(tasks, order) ==
    /\ Ids(tasks) \subseteq Range(order)
    /\ \A a \in DOMAIN order, i \in DOMAIN tasks :
          tasks[i].id = order[a]
              => Needs(tasks[i]) \subseteq {order[b] : b \in 1..(a - 1)}

\* The sort does not stop before the last task: were some left, one of them
\* would need none of the others, so it would owe nothing and be in line.
LEMMA AllPlaced ==
    ASSUME NEW tasks, IsList(tasks), OneEach(tasks), Simple(tasks),
           Cardinality(Ids(tasks)) = Len(tasks),
           NEW k \in Line(Ids(tasks)), Kahn(tasks, k),
           Len(k.order) = Len(tasks) \/ k.ready = << >>
    PROVE  Sorts(tasks, k.order)
<1>. DEFINE I == Ids(tasks)
            R == Range(k.order)
<1>1. /\ k.order \in Seq(I) /\ Once(k.order)
      /\ Range(InLine(k)) = R \cup Range(k.ready)
  BY LineFacts
<1>2. R \subseteq I
  BY <1>1 DEF Range
<1>3. CASE k.ready = << >>
  <2>. SUFFICES ASSUME ~(I \subseteq R)
                PROVE  FALSE
    BY DEF Kahn, Sorts
  <2>. DEFINE Left == {t \in Range(tasks) : t.id \notin R}
  <2>1. Left \in (SUBSET Range(tasks)) \ {{}}
    BY DEF Ids, Range
  <2>2. PICK task \in Left : Needs(task) \cap {t.id : t \in Left} = {}
    BY <2>1 DEF Simple, Acyclic
  <2>3. PICK i \in DOMAIN tasks : task = tasks[i]
    BY DEF Range
  <2>4. ASSUME NEW x \in Needs(task)
        PROVE  x \in R
    <3>1. x \in Ids(tasks)
      BY <2>3 DEF Simple
    <3>2. PICK j \in DOMAIN tasks : tasks[j].id = x
      BY <3>1 DEF Ids
    <3>3. tasks[j] \in Range(tasks)
      BY DEF Range
    <3>. QED  BY <2>2, <3>2, <3>3
  <2>5. Needs(tasks[i]) \ R = {}
    BY <2>3, <2>4
  <2>6. k.owes[tasks[i].id] = 0
    BY <2>5, FS_EmptySet DEF Kahn
  <2>7. tasks[i].id \in R \cup Range(k.ready)
    BY <1>1, <2>6 DEF Kahn
  <2>8. Range(k.ready) = {}
    BY <1>3 DEF Range
  <2>. QED  BY <2>2, <2>3, <2>7, <2>8
<1>4. CASE Len(k.order) = Len(tasks)
  <2>. DEFINE ids == [i \in DOMAIN tasks |-> tasks[i].id]
  <2>1. Range(ids) = I /\ Once(ids) /\ IsList(ids)
    <3>1. Range(ids) = I /\ Once(ids)
      BY DEF Range, Ids, Once, OneEach
    <3>2. DOMAIN tasks = 1..Len(tasks) /\ Len(tasks) \in Nat
      BY ListFacts
    <3>3. \A i \in DOMAIN tasks : tasks[i].id \in Ids(tasks)
      BY DEF Ids
    <3>4. ids \in Seq(Ids(tasks))
      BY <3>2, <3>3
    <3>. QED  BY <3>1, <3>4, ListOf
  <2>. HIDE DEF ids
  <2>2. IsFiniteSet(I)
    BY <2>1, OnceCounts
  <2>3. IsList(k.order)
    BY <1>1, ListOf
  <2>4. Cardinality(R) = Cardinality(I)
    BY <1>1, <1>4, <2>3, OnceCounts
  <2>5. R = I
    <3>. HIDE DEF R, I
    <3>. QED  BY <1>2, <2>2, <2>4, FS_Subset
  <2>. QED  BY <2>5 DEF Kahn, Sorts
<1>. QED  BY <1>3, <1>4

\* The sort places tasks of the list, none twice.
LEMMA ToposortLine ==
    ASSUME NEW tasks, IsList(tasks), Cardinality(Ids(tasks)) = Len(tasks),
           \A i \in DOMAIN tasks : IsList(tasks[i].inputs)
    PROVE  /\ Toposort(tasks) \in Seq(Ids(tasks)) /\ Once(Toposort(tasks))
           /\ Simple(tasks) => Sorts(tasks, Toposort(tasks))
<1>. DEFINE m == Len(tasks)
            T == Line(Ids(tasks))
            start == [ready |-> << >>, order |-> << >>,
                      owes |-> [id \in Ids(tasks) |->
                         Len(Task([steps |-> tasks], id).inputs)]]
            roots == Among(tasks, {i \in DOMAIN tasks : tasks[i].inputs = << >>})
            begun == [start EXCEPT !.ready = [i \in DOMAIN roots |-> roots[i].id]]
            One(k) ==
                  IF k.ready = << >> THEN k
                  ELSE Pays(Popped(k), Head(k.ready), tasks)
            Runs(f) == f = [s \in SUBSET (1..m) |->
                               IF s = {} THEN begun
                               ELSE One(f[s \ {Max(s)}])]
            iter == CHOOSE f : Runs(f)
            step == [p \in T \X (1..m) |-> One(p[1])]
<1>1. /\ m \in Nat /\ DOMAIN tasks = 1..m
      /\ \A i \in 1..m : tasks[i].id \in Ids(tasks) /\ tasks[i] \in Range(tasks)
  BY ListFacts DEF Ids
<1>2. Toposort(tasks) = iter[1..m].order
  BY <1>1 DEF Toposort, FoldLeft, MapThenFoldSet, Popped
<1>14. OneEach(tasks)
  BY IdsOnce
<1>3. \A w \in T : One(w) \in T
  BY <1>14, PopStays, PaysStays
<1>15. ASSUME Simple(tasks), NEW i \in DOMAIN tasks
       PROVE  /\ IsFiniteSet(Needs(tasks[i]))
              /\ Cardinality(Needs(tasks[i])) = Len(tasks[i].inputs)
  BY <1>15, OnceCounts DEF Simple, Needs
<1>10. /\ begun \in T
       /\ Simple(tasks) => Kahn(tasks, begun) /\ Len(begun.order) = 0
  <2>. DEFINE P == {i \in DOMAIN tasks : tasks[i].inputs = << >>}
              ready == [i \in DOMAIN roots |-> roots[i].id]
              owes == [id \in Ids(tasks) |-> Len(Task([steps |-> tasks], id).inputs)]
  <2>1. \A i, j \in DOMAIN tasks : tasks[i].id = tasks[j].id => i = j
    BY IdsOnce DEF OneEach
  <2>2. ASSUME NEW i \in DOMAIN tasks
        PROVE  Task([steps |-> tasks], tasks[i].id) = tasks[i]
    <3>1. \A task \in Range(tasks) : task.id = tasks[i].id => task = tasks[i]
      BY <2>1 DEF Range
    <3>. QED  BY <1>1, <3>1 DEF Task
  <2>3. owes \in [Ids(tasks) -> Int]
    <3>1. \A id \in Ids(tasks) : \E i \in DOMAIN tasks : id = tasks[i].id
      BY DEF Ids
    <3>2. \A i \in DOMAIN tasks : Len(tasks[i].inputs) \in Nat
      BY ListFacts
    <3>. QED  BY <2>2, <3>1, <3>2
  <2>4. /\ roots \in Seq(Range(tasks))
        /\ \A n \in DOMAIN roots : Nth(P, n) \in P /\ roots[n] = tasks[Nth(P, n)]
        /\ \A a, b \in DOMAIN roots : a < b => Nth(P, a) < Nth(P, b)
        /\ \A i \in P : Upto(P, i) \in DOMAIN roots
                        /\ roots[Upto(P, i)] = tasks[i]
    <3>1. tasks \in Seq(Range(tasks)) /\ P \in SUBSET (DOMAIN tasks)
      BY DEF IsList
    <3>2. roots = Among(tasks, P)
      OBVIOUS
    <3>. HIDE DEF P, roots
    <3>. QED  BY <3>1, <3>2, AmongThese
  <2>5. Len(roots) \in Nat /\ DOMAIN roots = 1..Len(roots)
    BY <2>4
  <2>. HIDE DEF roots
  <2>12. \A a \in DOMAIN roots : Nth(P, a) \in DOMAIN tasks
                                  /\ tasks[Nth(P, a)].inputs = << >>
    BY <2>4
  <2>6. ready \in Seq(Ids(tasks))
    <3>. HIDE DEF P
    <3>1. \A a \in DOMAIN roots : roots[a].id \in Ids(tasks)
      BY <1>1, <2>4, <2>12
    <3>. QED  BY <2>5, <3>1
  <2>7. Once(ready)
    <3>1. \A a, b \in DOMAIN roots : a # b => Nth(P, a) # Nth(P, b)
      <4>1. \A a \in DOMAIN roots : Nth(P, a) \in Nat /\ a \in Nat
        BY <1>1, <2>4, <2>5
      <4>. QED  BY <2>4, <4>1
    <3>2. \A a \in DOMAIN roots : Nth(P, a) \in DOMAIN tasks
      BY <2>4
    <3>. HIDE DEF P
    <3>. QED  BY <2>1, <2>4, <3>1, <3>2 DEF Once
  <2>8. \A a \in DOMAIN ready : owes[ready[a]] <= 0
    <3>. HIDE DEF P
    <3>0. \A i \in DOMAIN tasks : owes[tasks[i].id] = Len(tasks[i].inputs)
      BY <1>1, <2>2
    <3>. HIDE DEF owes
    <3>1. \A a \in DOMAIN roots : owes[tasks[Nth(P, a)].id] = Len(<< >>)
      BY <2>12, <3>0
    <3>. QED  BY <2>4, <3>1
  <2>15. \A i \in DOMAIN tasks : owes[tasks[i].id] = Len(tasks[i].inputs)
    BY <1>1, <2>2
  <2>16. \A i \in DOMAIN tasks :
            Len(tasks[i].inputs) = 0 => tasks[i].id \in Range(ready)
    <3>. SUFFICES ASSUME NEW i \in DOMAIN tasks, Len(tasks[i].inputs) = 0
                  PROVE  tasks[i].id \in Range(ready)
      OBVIOUS
    <3>1. tasks[i].inputs = << >>
      BY DEF IsList
    <3>2. i \in P
      BY <3>1
    <3>. HIDE DEF P
    <3>3. Upto(P, i) \in DOMAIN roots /\ roots[Upto(P, i)] = tasks[i]
      BY <2>4, <3>2
    <3>. QED  BY <3>3 DEF Range
  <2>. HIDE DEF ready, owes
  <2>9. PICK none : none = << >>
    OBVIOUS
  <2>13. begun = [ready |-> ready, order |-> none, owes |-> owes]
    <3>1. begun = [[ready |-> none, order |-> none, owes |-> owes]
                      EXCEPT !.ready = ready]
      BY <2>9 DEF ready, owes
    <3>. HIDE DEF begun
    <3>. QED  BY <3>1
  <2>14. none \in Seq(Ids(tasks))
    BY <2>9
  <2>. HIDE DEF begun
  <2>10. InLine(begun) = ready
    BY <2>6, <2>9, <2>13 DEF InLine
  <2>11. begun \in [ready : Seq(Ids(tasks)), order : Seq(Ids(tasks)),
                    owes : [Ids(tasks) -> Int]] /\ begun.owes = owes
    BY <2>3, <2>6, <2>13, <2>14
  <2>17. ASSUME Simple(tasks)
         PROVE  Kahn(tasks, begun) /\ Len(begun.order) = 0
    <3>1. begun.order = << >>
      BY <2>9, <2>13
    <3>2. ASSUME NEW i \in DOMAIN tasks
          PROVE  begun.owes[tasks[i].id]
                    = Cardinality(Needs(tasks[i]) \ Range(begun.order))
      <4>1. Needs(tasks[i]) \ Range(begun.order) = Needs(tasks[i])
        BY <3>1 DEF Range
      <4>. QED  BY <1>15, <2>11, <2>15, <2>17, <4>1
    <3>3. ASSUME NEW i \in DOMAIN tasks, begun.owes[tasks[i].id] = 0
          PROVE  tasks[i].id \in Range(InLine(begun))
      BY <2>10, <2>11, <2>15, <2>16, <3>3
    <3>4. DOMAIN begun.order = {} /\ Len(begun.order) = 0
      BY <3>1
    <3>. QED  BY <3>2, <3>3, <3>4 DEF Kahn
  <2>. QED  BY <2>7, <2>8, <2>10, <2>11, <2>17 DEF Line
<1>16. ASSUME Simple(tasks), NEW k \in T, Kahn(tasks, k), NEW n \in Nat,
              Len(k.order) = n \/ k.ready = << >>
       PROVE  /\ Kahn(tasks, One(k))
              /\ Len(One(k).order) = n + 1 \/ One(k).ready = << >>
  <2>1. CASE k.ready = << >>
    BY <1>16, <2>1
  <2>2. CASE k.ready # << >>
    <3>1. One(k) = Pays(Popped(k), Head(k.ready), tasks)
      BY <2>2
    <3>2. k \in Line(Ids(tasks))
      BY <1>16
    <3>. HIDE DEF One, T
    <3>. QED  BY <1>14, <1>15, <1>16, <2>2, <3>1, <3>2, PopKeeps
  <2>. QED  BY <2>1, <2>2
<1>4. \E g : Runs(g)
  <2>0. step \in [T \X (1..m) -> T]
    BY <1>3
  <2>. HIDE DEF begun
  <2>1. PICK g \in [SUBSET (1..m) -> T] : IsFold(g, m, begun, step)
    BY <1>1, <1>10, <2>0, FoldExists
  <2>2. ASSUME NEW s \in SUBSET (1..m)
        PROVE  g[s] = IF s = {} THEN begun ELSE One(g[s \ {Max(s)}])
    <3>1. CASE s = {}
      BY <2>1, <3>1 DEF IsFold
    <3>2. CASE s # {}
      <4>1. Max(s) \in 1..m /\ s \ {Max(s)} \in SUBSET (1..m)
        BY <1>1, <3>2, MaxIsThere
      <4>2. g[s \ {Max(s)}] \in T
        BY <2>1, <4>1
      <4>3. g[s] = step[<<g[s \ {Max(s)}], Max(s)>>]
        BY <2>1, <3>2 DEF IsFold
      <4>. HIDE DEF One, T
      <4>. QED  BY <3>2, <4>1, <4>2, <4>3
    <3>. QED  BY <3>1, <3>2
  <2>. HIDE DEF One
  <2>. QED  BY <2>1, <2>2
<1>5. Runs(iter)
  BY <1>4
<1>. HIDE DEF iter, One, T, begun
<1>. DEFINE Stands(n) == /\ Kahn(tasks, iter[1..n])
                         /\ \/ Len(iter[1..n].order) = n
                            \/ iter[1..n].ready = << >>
            A == {n \in 0..m : iter[1..n] \in T
                                /\ (Simple(tasks) => Stands(n))}
<1>6. 0 \in A
  <2>1. 1..0 = {}
    OBVIOUS
  <2>2. iter[{}] = begun
    BY <1>5
  <2>. QED  BY <1>1, <1>10, <2>1, <2>2
<1>7. ASSUME NEW n \in Nat, n < m, n \in A
      PROVE  n + 1 \in A
  <2>0. n + 1 \in Nat /\ n + 1 > 0 /\ (n + 1) - 1 = n /\ n + 1 <= m
    BY <1>1, <1>7
  <2>1. /\ Max(1..(n + 1)) = n + 1 /\ (1..(n + 1)) \ {n + 1} = 1..n
        /\ 1..(n + 1) # {} /\ 1..(n + 1) \in SUBSET (1..m)
    BY SMTT(30), <1>1, <2>0, MaxUpto
  <2>2. iter[1..(n + 1)] = One(iter[1..n])
    BY <1>5, <2>1
  <2>3. Simple(tasks) => Stands(n + 1)
    BY <1>7, <1>16, <2>2
  <2>. QED  BY <1>1, <1>3, <1>7, <2>0, <2>2, <2>3
<1>. HIDE DEF A
<1>8. \A n \in 0..m : n \in A
  BY <1>1, <1>6, <1>7, CountUp
<1>9. iter[1..m] \in T /\ (Simple(tasks) => Stands(m))
  BY <1>1, <1>8 DEF A
<1>. DEFINE k == iter[1..m]
<1>17. Simple(tasks) => Sorts(tasks, k.order)
  BY <1>9, <1>14, AllPlaced DEF T
<1>. HIDE DEF k
<1>11. k.order \in Seq(Ids(tasks)) /\ k.ready \in Seq(Ids(tasks)) /\ Once(k.order \o k.ready)
  BY <1>9 DEF T, Line, InLine, k
<1>12. \A a \in DOMAIN k.order : a \in DOMAIN (k.order \o k.ready)
                                  /\ (k.order \o k.ready)[a] = k.order[a]
  <2>. DEFINE u == k.order
              v == k.ready
              I == Ids(tasks)
  <2>1. u \in Seq(I) /\ v \in Seq(I)
    BY <1>11
  <2>. HIDE DEF u, v, I
  <2>2. \A a \in DOMAIN u : a \in DOMAIN (u \o v) /\ (u \o v)[a] = u[a]
    BY <2>1
  <2>. QED  BY <2>2 DEF u, v
<1>13. Once(k.order)
  BY <1>11, <1>12 DEF Once
<1>. QED  BY <1>2, <1>11, <1>13, <1>17 DEF k

\* What a campaign's plan runs as: its steps, each once.
LEMMA SortedIsList ==
    ASSUME NEW p \in Legal
    PROVE  /\ IsList(AsPlanSteps(p)) /\ Ids(AsPlanSteps(p)) = Ids(p.steps)
           /\ OneEach(AsPlanSteps(p))
<1>. DEFINE tasks == p.steps
            placed == Toposort(tasks)
            others == Without(tasks, Range(placed))
            rest == [i \in DOMAIN others |-> others[i].id]
            order == placed \o rest
            P == {i \in DOMAIN tasks : tasks[i].id \notin Range(placed)}
            I == Ids(tasks)
<1>1. /\ IsList(tasks) /\ Cardinality(I) = Len(tasks)
      /\ \A i \in DOMAIN tasks : IsList(tasks[i].inputs)
  BY CampaignAssumption DEF Legal, Valid, IsList, Range
<1>2. placed \in Seq(I) /\ Once(placed)
  BY <1>1, ToposortLine
<1>3. \A i, j \in DOMAIN tasks : tasks[i].id = tasks[j].id => i = j
  BY <1>1, IdsOnce DEF OneEach
<1>4. /\ others \in Seq(Range(tasks))
      /\ \A n \in DOMAIN others : Nth(P, n) \in P /\ others[n] = tasks[Nth(P, n)]
      /\ \A a, b \in DOMAIN others : a < b => Nth(P, a) < Nth(P, b)
  <2>1. tasks \in Seq(Range(tasks)) /\ P \in SUBSET (DOMAIN tasks)
    BY <1>1 DEF IsList
  <2>2. others = Among(tasks, P)
    BY DEF Without
  <2>. HIDE DEF P, others, placed
  <2>. QED  BY <2>1, <2>2, AmongThese
<1>5. Ids(others) = I \ Range(placed)
  BY <1>1, WithoutList
<1>6. Len(others) \in Nat /\ DOMAIN others = 1..Len(others)
      /\ DOMAIN tasks = 1..Len(tasks) /\ Len(tasks) \in Nat
  BY <1>1, <1>4, ListFacts
<1>. HIDE DEF others, placed, I
<1>7. rest \in Seq(I)
  BY <1>5, <1>6 DEF Ids
<1>8. \A a, b \in DOMAIN rest : rest[a] = rest[b] => a = b
  <2>3. P \in SUBSET (DOMAIN tasks)
    OBVIOUS
  <2>. HIDE DEF P
  <2>1. \A a \in DOMAIN others : Nth(P, a) \in DOMAIN tasks /\ Nth(P, a) \in Nat /\ a \in Nat
    BY <1>4, <1>6, <2>3
  <2>2. \A a, b \in DOMAIN others : a # b => Nth(P, a) # Nth(P, b)
    BY <1>4, <2>1
  <2>. HIDE DEF P
  <2>. QED  BY <1>3, <1>4, <2>1, <2>2
<1>9. \A a \in DOMAIN rest : rest[a] \in I \ Range(placed)
  BY <1>5 DEF Ids
<1>10. \A x \in I \ Range(placed) : \E a \in DOMAIN rest : rest[a] = x
  BY <1>5 DEF Ids
<1>11. Once(order) /\ order \in Seq(I) /\ I = {order[a] : a \in DOMAIN order}
  <2>. HIDE DEF rest
  <2>0. /\ Len(placed) \in Nat /\ Len(rest) \in Nat
        /\ DOMAIN placed = 1..Len(placed) /\ DOMAIN rest = 1..Len(rest)
    BY <1>2, <1>7
  <2>1. /\ order \in Seq(I) /\ DOMAIN order = 1..(Len(placed) + Len(rest))
        /\ \A a \in 1..(Len(placed) + Len(rest)) :
              order[a] = IF a <= Len(placed) THEN placed[a] ELSE rest[a - Len(placed)]
    BY <1>2, <1>7
  <2>. HIDE DEF order
  <2>2. ASSUME NEW a \in DOMAIN order
        PROVE  \/ a \in DOMAIN placed /\ order[a] = placed[a]
               \/ /\ a - Len(placed) \in DOMAIN rest
                  /\ a \notin DOMAIN placed
                  /\ order[a] = rest[a - Len(placed)]
    BY <2>0, <2>1
  <2>3. \A a \in DOMAIN placed : placed[a] \in Range(placed) /\ placed[a] \in I
    BY <1>2 DEF Range
  <2>4. Once(order)
    <3>. SUFFICES ASSUME NEW a \in DOMAIN order, NEW b \in DOMAIN order,
                         order[a] = order[b]
                  PROVE  a = b
      BY DEF Once
    <3>0. a \in Nat /\ b \in Nat
      BY <2>0, <2>1
    <3>1. CASE a \in DOMAIN placed /\ order[a] = placed[a]
      BY <1>2, <1>9, <2>2, <2>3, <3>1 DEF Once
    <3>2. CASE /\ a - Len(placed) \in DOMAIN rest
               /\ a \notin DOMAIN placed
               /\ order[a] = rest[a - Len(placed)]
      <4>1. /\ b - Len(placed) \in DOMAIN rest
            /\ order[b] = rest[b - Len(placed)]
        BY <1>9, <2>2, <2>3, <3>2
      <4>2. a - Len(placed) = b - Len(placed)
        BY <1>8, <3>2, <4>1
      <4>. QED  BY <2>0, <3>0, <4>2
    <3>. QED  BY <2>2, <3>1, <3>2
  <2>5. \A x \in I : \E a \in DOMAIN order : order[a] = x
    <3>. SUFFICES ASSUME NEW x \in I
                  PROVE  \E a \in DOMAIN order : order[a] = x
      OBVIOUS
    <3>1. CASE x \in Range(placed)
      <4>1. PICK a \in DOMAIN placed : placed[a] = x
        BY <3>1 DEF Range
      <4>. QED  BY <2>0, <2>1, <4>1
    <3>2. CASE x \notin Range(placed)
      <4>1. PICK a \in DOMAIN rest : rest[a] = x
        BY <1>10, <3>2
      <4>2. a + Len(placed) \in DOMAIN order /\ ~(a + Len(placed) <= Len(placed))
            /\ (a + Len(placed)) - Len(placed) = a
        BY <2>0, <2>1, <4>1
      <4>. QED  BY <2>1, <4>1, <4>2
    <3>. QED  BY <3>1, <3>2
  <2>6. \A a \in DOMAIN order : order[a] \in I
    BY <2>1
  <2>. QED  BY <2>1, <2>4, <2>5, <2>6
<1>. HIDE DEF order
<1>. DEFINE q == AsPlanSteps(p)
<1>12. q = [i \in DOMAIN order |-> [id |-> order[i], needs |-> Needs(Task(p, order[i]))]]
  BY DEF AsPlanSteps, order, rest, others, placed
<1>. HIDE DEF q
<1>13. DOMAIN q = DOMAIN order /\ \A i \in DOMAIN q : q[i].id = order[i]
  BY <1>12
<1>14. IsList(q)
  <2>1. Len(order) \in Nat /\ DOMAIN order = 1..Len(order)
    BY <1>11
  <2>2. DOMAIN q = 1..Len(order) /\ \A i \in DOMAIN q : q[i] \in Range(q)
    BY <1>13, <2>1 DEF Range
  <2>3. q = [i \in 1..Len(order) |-> q[i]]
    BY <1>12, <2>1
  <2>. QED  BY <2>1, <2>2, <2>3 DEF IsList
<1>15. Ids(q) = I
  BY <1>11, <1>13 DEF Ids
<1>16. OneEach(q)
  BY <1>11, <1>13 DEF Once, OneEach
<1>. QED  BY <1>14, <1>15, <1>16 DEF q, I

-----------------------------------------------------------------------------
\* The plan a campaign's process works from, on the disk and in hand.
Recorded ==
    /\ runner = "campaign" =>
          /\ proposal \in Legal
          /\ meta # NoPlan => said = "remembered" /\ plan = AsPlanSteps(proposal)
    /\ record # NoPlan => runner = "campaign" /\ said = "remembered"
                          /\ record = proposal

\* Both ways to choose a wave choose it from the queue.
LEMMA WaveIsQueued ==
    ASSUME IsList(queue), queue # << >>
    PROVE  /\ IsList(NextWave) /\ Ids(NextWave) \subseteq Ids(queue)
           /\ IsList(CampaignWave) /\ Ids(CampaignWave) \subseteq Ids(queue)
           /\ OneEach(queue) => OneEach(NextWave) /\ OneEach(CampaignWave)
<1>1. /\ OneEach(queue) => OneEach(NextWave)
      /\ IsList(NextWave) /\ Ids(NextWave) \subseteq Ids(queue)
  BY NextWaveIsQueued, ChosenFacts
<1>. DEFINE w == NextWave
            P == {i \in DOMAIN w : Mission(w[i].id).scopes = Mission(w[1].id).scopes}
<1>2. CampaignWave = Among(w, P)
  BY DEF CampaignWave
<1>3. w \in Seq(Range(w)) /\ P \in SUBSET (DOMAIN w)
  BY <1>1 DEF IsList
<1>7. OneEach(queue) => OneEach(Among(w, P))
  BY <1>1, <1>3, AmongOnce
<1>. HIDE DEF w, P
<1>4. /\ Among(w, P) \in Seq(Range(w))
      /\ \A n \in DOMAIN Among(w, P) : Nth(P, n) \in P /\ Among(w, P)[n] = w[Nth(P, n)]
  BY <1>3, AmongThese
<1>5. Ids(Among(w, P)) \subseteq Ids(w)
  BY <1>3, <1>4 DEF Ids
<1>6. IsList(Among(w, P))
  BY <1>4, ListOf
<1>. QED  BY <1>1, <1>2, <1>5, <1>6, <1>7 DEF w

\* What the children brought, once their files were looked at.
LEMMA HandsOutIsChild ==
    ASSUME NEW c, IsChild(c), c.at = "back", NEW id
    PROVE  IsChild(HandsOut(id, c)) /\ HandsOut(id, c).at = "back"
<1>1. PICK no : no = FALSE
  OBVIOUS
<1>2. HandsOut(id, c) = c \/ HandsOut(id, c) = Back(c, no, no, no)
  BY <1>1 DEF HandsOut
<1>. QED  BY <1>2, BackIsChild

CampInv == TurnInv /\ Recorded

\* The invariant of a campaign holds at its start.
LEMMA CampInit == CampaignInit => CampInv
<1>. SUFFICES ASSUME CampaignInit
              PROVE  CampInv
  OBVIOUS
<1>1. Init
  BY DEF CampaignInit
<1>2. Recorded
  BY <1>1 DEF CampaignInit, Init, Recorded, Legal
<1>. QED  BY <1>1, <1>2, TurnInit DEF CampInv

\* The steps a staged turn and a campaign have in common.
LEMMA WorksTurn ==
    ASSUME TurnInv, NoPlanIsNone, Works
    PROVE  TurnInv'
<1>1. CASE \E id \in DOMAIN child :
               ChildEnds(id) \/ ChildRaises(id) \/ GateReview(id)
  BY <1>1, ChildEndsTurn, ChildRaisesTurn, GateReviewTurn
<1>2. CASE Settle
  BY <1>2, SettleTurn
<1>3. CASE Carries \/ Drops
  BY <1>3, WaveEndsTurn
<1>4. CASE Closes
  BY <1>4, ClosesTurn
<1>5. CASE \/ BoundaryReview \/ Holds \/ StoppedInWave
           \/ Synthesizes \/ StoppedAtEnd
  <2>1. /\ UNCHANGED held
        /\ pc' = "working" => pc = "working"
        /\ pc' \notin {"triage", "direct"} \/ pc' = pc
    BY <1>5 DEF BoundaryReview, Holds, StoppedInWave, Synthesizes,
                StoppedAtEnd, Stopped, held, gather, turn, disk
  <2>. QED  BY <2>1, TurnKept
<1>. QED  BY <1>1, <1>2, <1>3, <1>4, <1>5 DEF Works

\* Every step of a staged turn keeps the turn's part.
LEMMA StepsTurn ==
    ASSUME TurnInv, NoPlanIsNone, Steps
    PROVE  TurnInv'
<1>1. CASE Stopped({"triage"}) \/ GoesDirect \/ DirectEnds
  <2>1. /\ UNCHANGED held /\ pc' # "working"
        /\ pc' = "direct" => pc = "triage"
        /\ pc' # "triage"
    BY <1>1 DEF Stopped, GoesDirect, DirectEnds, held, gather, turn, disk
  <2>. QED  BY <2>1, TurnKept
<1>2. CASE DrawsPlan
  <2>1. PICK p \in Plans : pc = "triage" /\ Begin(p)
    BY <1>2 DEF DrawsPlan
  <2>. QED  BY <2>1, DrawnIsList, BeginTurn
<1>3. CASE StartWave
  <2>1. IsList(queue) /\ OneEach(queue) /\ queue # << >>
    BY <1>3 DEF TurnInv, Gather, StartWave, StartWaveOf
  <2>. QED  BY <1>3, <2>1, WaveIsQueued, StartTurn DEF StartWave
<1>4. CASE Gathered
  <2>1. \A id \in DOMAIN child : child[id].at = "back" /\ IsChild(child[id])
    BY <1>4 DEF Gathered, GatheredAs, TurnInv, Gather
  <2>. QED  BY <1>4, <2>1, GatheredTurn DEF Gathered
<1>5. CASE Redraws
  BY <1>5, RedrawsTurn
<1>6. CASE Works
  BY <1>6, WorksTurn
<1>. QED  BY <1>1, <1>2, <1>3, <1>4, <1>5, <1>6 DEF Steps

\* Every step of a campaign keeps the invariant.
LEMMA CampStep ==
    ASSUME CampInv, NoPlanIsNone, CampaignNext
    PROVE  CampInv'
<1>0. TurnInv /\ Recorded
  BY DEF CampInv
<1>1. CASE StagedSteps
  <2>1. TurnInv'
    BY <1>0, <1>1, StepsTurn DEF StagedSteps
  <2>2. Recorded'
    BY <1>0, <1>1 DEF StagedSteps, Recorded, campaign, approval
  <2>. QED  BY <2>1, <2>2 DEF CampInv
<1>2. CASE CampaignSteps
  <2>. runner = "campaign" /\ proposal \in Legal
    BY <1>0, <1>2 DEF CampaignSteps, Recorded
  <2>0. ASSUME pc = "triage"
        PROVE  meta = NoPlan
    BY <1>0, <2>0 DEF TurnInv, OnDisk
  <2>1. ASSUME NEW p \in Legal, SaysYes(p)
        PROVE  CampInv'
    <3>1. UNCHANGED <<vars, runner, record>> /\ pc = "triage"
          /\ said = "unasked" /\ proposal' = p
      BY <2>1 DEF SaysYes, Unasked
    <3>2. TurnInv'
      BY <1>0, <3>1, TurnKept DEF vars, held, disk
    <3>3. Recorded'
      BY <1>0, <2>0, <3>1 DEF Recorded, vars, disk
    <3>. QED  BY <3>2, <3>3 DEF CampInv
  <2>2. CASE DeclinesToAsk \/ EditsPlan
    BY <2>1, <2>2 DEF DeclinesToAsk, EditsPlan, Legal
  <2>3. CASE SpendsTicket \/ TicketIsSpent \/ AwaitsApproval \/ StoppedUnasked
    <3>1. /\ UNCHANGED held /\ UNCHANGED <<runner, proposal, record>>
          /\ pc = "triage" /\ pc' \in {"triage", "closing"}
          /\ said = "unasked" /\ said' \in {"unasked", "approved"}
      BY <2>3 DEF SpendsTicket, TicketIsSpent, AwaitsApproval, StoppedUnasked,
                  Stopped, Unasked, held, vars, disk, campaign, approval
    <3>2. TurnInv'
      BY <1>0, <3>1, TurnKept
    <3>3. Recorded'
      BY <1>0, <2>0, <3>1 DEF Recorded, held
    <3>. QED  BY <3>2, <3>3 DEF CampInv
  <2>4. CASE Remembers
    <3>1. /\ UNCHANGED <<vars, runner, proposal>> /\ pc = "triage"
          /\ said = "approved" /\ said' = "remembered"
          /\ record' \in {proposal, record}
      BY <2>4 DEF Remembers
    <3>2. TurnInv'
      BY <1>0, <3>1, TurnKept DEF vars, held, disk
    <3>3. Recorded'
      BY <1>0, <2>0, <3>1 DEF Recorded, vars, disk
    <3>. QED  BY <3>2, <3>3 DEF CampInv
  <2>5. CASE Begins
    <3>1. /\ pc = "triage" /\ said = "remembered" /\ Begin(AsPlanSteps(proposal))
          /\ UNCHANGED <<runner, proposal, said, record>>
      BY <2>5 DEF Begins, campaign, approval
    <3>2. TurnInv'
      BY <1>0, <3>1, BeginTurn, SortedIsList
    <3>3. plan' = AsPlanSteps(proposal)
      BY <3>1 DEF Begin
    <3>4. Recorded'
      BY <1>0, <3>1, <3>3 DEF Recorded
    <3>. QED  BY <3>2, <3>4 DEF CampInv
  <2>6. CASE StartCampaignWave
    <3>1. /\ queue # << >> /\ StartWaveOf(CampaignWave)
          /\ UNCHANGED <<runner, proposal, said, record, plan, meta>>
      BY <2>6 DEF StartCampaignWave, StartWaveOf, approval, disk
    <3>2. /\ IsList(CampaignWave) /\ Ids(CampaignWave) \subseteq Ids(queue)
          /\ OneEach(CampaignWave)
      BY <1>0, <3>1, WaveIsQueued DEF TurnInv, Gather
    <3>3. TurnInv'
      BY <1>0, <3>1, <3>2, StartTurn
    <3>4. Recorded'
      BY <1>0, <3>1 DEF Recorded
    <3>. QED  BY <3>3, <3>4 DEF CampInv
  <2>7. CASE CampaignGathered
    <3>. DEFINE brought == [id \in DOMAIN child |-> HandsOut(id, child[id])]
    <3>1. /\ GatheredAs(brought)
          /\ UNCHANGED <<runner, proposal, said, record, plan, meta>>
      BY <2>7 DEF CampaignGathered, GatheredAs, approval, disk
    <3>2. \A id \in DOMAIN child : IsChild(child[id]) /\ child[id].at = "back"
      BY <1>0, <3>1 DEF TurnInv, Gather, GatheredAs
    <3>3. \A id \in DOMAIN child : IsChild(brought[id]) /\ brought[id].at = "back"
      BY <3>2, HandsOutIsChild
    <3>4. DOMAIN brought = DOMAIN child
      OBVIOUS
    <3>. HIDE DEF brought
    <3>5. TurnInv'
      BY <1>0, <3>1, <3>3, <3>4, GatheredTurn
    <3>6. Recorded'
      BY <1>0, <3>1 DEF Recorded
    <3>. QED  BY <3>5, <3>6 DEF CampInv
  <2>8. CASE Works /\ UNCHANGED campaign
    <3>1. TurnInv'
      BY <1>0, <2>8, WorksTurn
    <3>2. plan' = plan /\ (meta' # NoPlan => meta # NoPlan)
      BY <1>0, <2>8, WorksQuietly DEF TurnInv, OnDisk
    <3>3. Recorded'
      BY <1>0, <2>8, <3>2 DEF Recorded, campaign, approval
    <3>. QED  BY <3>1, <3>3 DEF CampInv
  <2>. QED  BY <1>2, <2>2, <2>3, <2>4, <2>5, <2>6, <2>7, <2>8 DEF CampaignSteps
<1>3. CASE \/ \E id \in DOMAIN child : WritesExport(id)
           \/ (StopArrives \/ Dies) /\ UNCHANGED campaign
           \/ ResumesHalfWritten
  <2>1. /\ UNCHANGED held /\ UNCHANGED <<runner, proposal, said, record>>
        /\ pc' \in {pc, "dead", "closing"}
    BY <1>3 DEF WritesExport, StopArrives, Dies, ResumesHalfWritten, held, vars,
                turn, gather, disk, campaign, approval
  <2>2. TurnInv'
    BY <1>0, <2>1, TurnKept
  <2>3. Recorded'
    BY <1>0, <2>1 DEF Recorded, held, turn
  <2>. QED  BY <2>2, <2>3 DEF CampInv
<1>4. CASE ResumesCampaign
  <2>1. /\ record # NoPlan /\ ResumesWith(AsPlanSteps(record))
        /\ runner' = "campaign" /\ proposal' = record /\ said' = "remembered"
        /\ record' = record /\ plan' = AsPlanSteps(record)
    BY <1>4 DEF ResumesCampaign, ResumesWith
  <2>2. record = proposal /\ record \in Legal
    BY <1>0, <2>1 DEF Recorded
  <2>3. TurnInv'
    BY <1>0, <2>1, <2>2, SortedIsList, ResumesTurn
  <2>4. Recorded'
    BY <1>0, <2>1, <2>2 DEF Recorded
  <2>. QED  BY <2>3, <2>4 DEF CampInv
<1>5. CASE ResumesOther
  <2>1. record' = NoPlan /\ runner' = "staged"
    BY <1>5 DEF ResumesOther
  <2>2. Recorded'
    BY <2>1 DEF Recorded
  <2>3. CASE Resumes
    <3>1. meta # NoPlan /\ meta.plan = plan /\ IsList(plan) /\ OneEach(plan)
      BY <1>0, <2>3 DEF Resumes, ResumesWith, TurnInv, OnDisk, Gather
    <3>2. TurnInv'
      BY <1>0, <2>3, <3>1, ResumesTurn DEF Resumes
    <3>. QED  BY <2>2, <3>2 DEF CampInv
  <2>4. CASE ResumesDirect
    <3>1. UNCHANGED held /\ pc' = "direct" /\ meta = NoPlan /\ meta' = meta
      BY <2>4 DEF ResumesDirect, held, disk
    <3>2. OnDisk'
      BY <1>0, <3>1 DEF TurnInv, OnDisk, held, turn, gather
    <3>3. Written' /\ Gather' /\ Fresh'
      BY <1>0, <3>1 DEF TurnInv, Written, IsEntry, Gather, OneEach, IsChild, Fresh, held,
                        turn, gather
    <3>. QED  BY <2>2, <3>2, <3>3 DEF CampInv, TurnInv
  <2>. QED  BY <1>5, <2>3, <2>4 DEF ResumesOther
<1>. QED  BY <1>1, <1>2, <1>3, <1>4, <1>5 DEF CampaignNext

\* So does no step at all.
LEMMA CampStutter ==
    ASSUME CampInv, UNCHANGED cvars
    PROVE  CampInv'
<1>. UNCHANGED held /\ UNCHANGED <<pc, runner, proposal, said, record>>
  BY DEF cvars, vars, campaign, approval, held, disk
<1>1. TurnInv'
  BY TurnKept DEF CampInv
<1>2. Recorded'
  BY DEF CampInv, Recorded, held, turn
<1>. QED  BY <1>1, <1>2 DEF CampInv

\* A wave is only ever made of what is queued.
LEMMA NewWaveWasQueued ==
    ASSUME CampInv, CampaignNext, wave = << >>, wave' # << >>
    PROVE  Ids(wave') \subseteq Ids(queue)
<1>1. IsList(queue)
  BY DEF CampInv, TurnInv, Gather
<1>2. CASE StartWave \/ StartCampaignWave
  <2>1. queue # << >> /\ wave' \in {NextWave, CampaignWave}
    BY <1>2 DEF StartWave, StartCampaignWave, StartWaveOf
  <2>. QED  BY <1>1, <2>1, WaveIsQueued
<1>3. ~Works
  BY WorksQuietly
<1>4. CASE StagedSteps
  <2>1. ~(Stopped({"triage"}) \/ GoesDirect \/ DrawsPlan \/ DirectEnds
             \/ Gathered \/ Redraws)
    BY DEF Stopped, GoesDirect, DrawsPlan, Begin, DirectEnds, Gathered,
           GatheredAs, Redraws, WaveEnds, gather
  <2>. QED  BY <1>2, <1>3, <1>4, <2>1 DEF StagedSteps, Steps
<1>5. CASE CampaignSteps
  <2>1. ~(DeclinesToAsk \/ SpendsTicket \/ TicketIsSpent \/ EditsPlan
             \/ AwaitsApproval \/ StoppedUnasked \/ Remembers \/ Begins
             \/ CampaignGathered)
    BY DEF DeclinesToAsk, SpendsTicket, TicketIsSpent, EditsPlan, SaysYes,
           AwaitsApproval, StoppedUnasked, Stopped, Remembers, Begins, Begin,
           CampaignGathered, GatheredAs, vars, gather
  <2>. QED  BY <1>2, <1>3, <1>5, <2>1 DEF CampaignSteps
<1>6. ~(\/ \E id \in DOMAIN child : WritesExport(id)
        \/ StopArrives \/ Dies \/ ResumesHalfWritten \/ ResumesCampaign
        \/ ResumesOther)
  BY DEF WritesExport, StopArrives, Dies, ResumesHalfWritten, ResumesCampaign,
         ResumesOther, Resumes, ResumesWith, ResumesDirect, WaveEnds, vars,
         gather
<1>. QED  BY <1>4, <1>5, <1>6 DEF CampaignNext

\* For any plans and proposals, any bounds, and whether or not a redrawn plan
\* may use a name again: no process starts a step whose result the checkpoint
\* has under the plan in force (swarm.py, _work_through's queue, and
\* resume.py, _rebuild_staged).
THEOREM SettledIsNotRunAgain ==
    NoPlanIsNone => (CampaignSpec => SettledStaysSettled)
<1>. SUFFICES ASSUME NoPlanIsNone
              PROVE  CampaignSpec => SettledStaysSettled
  OBVIOUS
<1>. DEFINE Again == \A i \in DOMAIN wave' :
                        (wave = << >> /\ meta # NoPlan)
                           => \A j \in DOMAIN meta.done :
                                 (meta.done[j].id = wave'[i].id
                                    /\ meta.done[j].plan = drawn)
                                 => meta.done[j].outcome = "awaiting_approval"
<1>1. CampInv /\ [CampaignNext]_cvars => CampInv'
  BY CampStep, CampStutter
<1>2. CampInv /\ [CampaignNext]_cvars => [Again]_vars
  <2>. SUFFICES ASSUME CampInv, CampaignNext
                PROVE  Again
    BY DEF cvars
  <2>. SUFFICES ASSUME NEW i \in DOMAIN wave', wave = << >>, meta # NoPlan,
                       NEW j \in DOMAIN meta.done,
                       meta.done[j].id = wave'[i].id, meta.done[j].plan = drawn
                PROVE  meta.done[j].outcome = "awaiting_approval"
    OBVIOUS
  <2>1. wave' # << >>
    OBVIOUS
  <2>2. wave'[i].id \in Ids(queue)
    BY <2>1, NewWaveWasQueued DEF Ids
  <2>3. meta.done = done
    BY DEF CampInv, TurnInv, OnDisk
  <2>. QED  BY <2>2, <2>3 DEF CampInv, TurnInv, Fresh
<1>. QED  BY <1>1, <1>2, CampInit, PTL DEF CampaignSpec, SettledStaysSettled

-----------------------------------------------------------------------------
(* What a wave spent, child by child. *)

SpentOver(c, w) == FoldLeft(LAMBDA sum, s : sum + c[s.id].spent, 0, w)

\* The sum over a wave is a running total over its places.
LEMMA SpentRuns ==
    ASSUME NEW c, NEW w, IsList(w), \A i \in DOMAIN w : c[w[i].id].spent \in Nat
    PROVE  \E t \in [0..Len(w) -> Nat] :
              /\ t[0] = 0
              /\ \A k \in Nat : k < Len(w) => t[k + 1] = t[k] + c[w[k + 1].id].spent
              /\ SpentOver(c, w) = t[Len(w)]
<1>. DEFINE m == Len(w)
            One(sum, i) == sum + c[w[i].id].spent
            Runs(f) == f = [s \in SUBSET (1..m) |->
                               IF s = {} THEN 0
                               ELSE One(f[s \ {Max(s)}], Max(s))]
            iter == CHOOSE f : Runs(f)
            step == [p \in Nat \X (1..m) |-> One(p[1], p[2])]
            t == [k \in 0..m |-> iter[1..k]]
<1>1. m \in Nat /\ DOMAIN w = 1..m
  BY ListFacts
<1>2. SpentOver(c, w) = iter[1..m]
  BY <1>1 DEF SpentOver, FoldLeft, MapThenFoldSet
<1>3. 0 \in Nat /\ step \in [Nat \X (1..m) -> Nat]
      /\ \A x \in Nat, i \in 1..m : One(x, i) \in Nat
  BY <1>1
<1>4. \E g : Runs(g)
  <2>1. PICK g \in [SUBSET (1..m) -> Nat] : IsFold(g, m, 0, step)
    BY <1>1, <1>3, FoldExists
  <2>2. ASSUME NEW s \in SUBSET (1..m)
        PROVE  g[s] = IF s = {} THEN 0 ELSE One(g[s \ {Max(s)}], Max(s))
    <3>1. CASE s = {}
      BY <2>1, <3>1 DEF IsFold
    <3>2. CASE s # {}
      <4>1. Max(s) \in 1..m /\ s \ {Max(s)} \in SUBSET (1..m)
        BY <1>1, <3>2, MaxIsThere
      <4>2. g[s \ {Max(s)}] \in Nat
        BY <2>1, <4>1
      <4>3. g[s] = step[<<g[s \ {Max(s)}], Max(s)>>]
        BY <2>1, <3>2 DEF IsFold
      <4>. HIDE DEF One
      <4>. QED  BY <3>2, <4>1, <4>2, <4>3
    <3>. QED  BY <3>1, <3>2
  <2>. HIDE DEF One
  <2>. QED  BY <2>1, <2>2
<1>5. Runs(iter)
  BY <1>4
<1>. HIDE DEF iter
<1>6. iter[{}] = 0
  BY <1>5
<1>7. ASSUME NEW k \in Nat, k < m
      PROVE  iter[1..(k + 1)] = One(iter[1..k], k + 1)
  <2>1. /\ Max(1..(k + 1)) = k + 1 /\ (1..(k + 1)) \ {k + 1} = 1..k
        /\ 1..(k + 1) # {} /\ 1..(k + 1) \in SUBSET (1..m)
    <3>1. k + 1 \in Nat /\ k + 1 > 0 /\ (k + 1) - 1 = k /\ k + 1 <= m
      BY <1>1, <1>7
    <3>. QED  BY SMTT(30), <1>1, <3>1, MaxUpto
  <2>. HIDE DEF One
  <2>. QED  BY <1>5, <2>1
<1>. DEFINE A == {k \in 0..m : iter[1..k] \in Nat}
<1>8. 0 \in A
  <2>1. 1..0 = {}
    OBVIOUS
  <2>. QED  BY <1>1, <1>6, <2>1
<1>9. ASSUME NEW k \in Nat, k < m, k \in A
      PROVE  k + 1 \in A
  <2>1. k + 1 \in 1..m /\ k + 1 \in 0..m
    BY <1>1, <1>9
  <2>. HIDE DEF One
  <2>. QED  BY <1>3, <1>7, <1>9, <2>1
<1>. HIDE DEF A
<1>10. \A k \in 0..m : k \in A
  BY <1>1, <1>8, <1>9, CountUp
<1>11. t \in [0..m -> Nat]
  BY <1>10 DEF A
<1>12. t[0] = 0
  <2>1. 1..0 = {} /\ 0 \in 0..m
    BY <1>1
  <2>. QED  BY <1>6, <2>1
<1>13. ASSUME NEW k \in Nat, k < m
       PROVE  t[k + 1] = t[k] + c[w[k + 1].id].spent
  <2>1. k \in 0..m /\ k + 1 \in 0..m
    BY <1>1, <1>13
  <2>. QED  BY <1>7, <1>13, <2>1
<1>14. SpentOver(c, w) = t[m]
  BY <1>1, <1>2
<1>. HIDE DEF t
<1>15. \E u \in [0..m -> Nat] :
          /\ u[0] = 0
          /\ \A k \in Nat : k < m => u[k + 1] = u[k] + c[w[k + 1].id].spent
          /\ SpentOver(c, w) = u[m]
  BY <1>11, <1>12, <1>13, <1>14
<1>. QED  BY <1>15

\* Children that spent nothing spent nothing together.
LEMMA SpentNone ==
    ASSUME NEW c, NEW w, IsList(w), \A i \in DOMAIN w : c[w[i].id].spent = 0
    PROVE  SpentOver(c, w) = 0
<1>0. \A i \in DOMAIN w : c[w[i].id].spent \in Nat
  OBVIOUS
<1>1. Len(w) \in Nat /\ DOMAIN w = 1..Len(w)
  BY ListFacts
<1>2. PICK t \in [0..Len(w) -> Nat] :
         /\ t[0] = 0
         /\ \A k \in Nat : k < Len(w) => t[k + 1] = t[k] + c[w[k + 1].id].spent
         /\ SpentOver(c, w) = t[Len(w)]
  BY <1>0, SpentRuns
<1>. DEFINE A == {k \in 0..Len(w) : t[k] = 0}
<1>3. 0 \in A
  BY <1>1, <1>2
<1>4. ASSUME NEW k \in Nat, k < Len(w), k \in A
      PROVE  k + 1 \in A
  <2>1. k + 1 \in DOMAIN w /\ k + 1 \in 0..Len(w)
    BY <1>1, <1>4
  <2>2. c[w[k + 1].id].spent = 0
    BY <2>1
  <2>. QED  BY <1>2, <1>4, <2>1, <2>2
<1>. HIDE DEF A
<1>5. \A k \in 0..Len(w) : k \in A
  BY <1>1, <1>3, <1>4, CountUp
<1>6. Len(w) \in A
  BY <1>1, <1>5
<1>. QED  BY <1>2, <1>6 DEF A

\* One child spends n more, the others nothing.
LEMMA SpentMore ==
    ASSUME NEW c, NEW d, NEW w, IsList(w), OneEach(w),
           NEW i \in DOMAIN w, NEW n \in Nat,
           \A j \in DOMAIN w : /\ c[w[j].id].spent \in Nat
                               /\ w[j].id # w[i].id
                                     => d[w[j].id].spent = c[w[j].id].spent,
           d[w[i].id].spent = c[w[i].id].spent + n
    PROVE  SpentOver(c, w) \in Nat /\ SpentOver(d, w) = SpentOver(c, w) + n
<1>1. Len(w) \in Nat /\ DOMAIN w = 1..Len(w) /\ i \in Nat /\ 1 <= i /\ i <= Len(w)
  BY ListFacts
<1>0. \A j \in DOMAIN w : j # i => w[j].id # w[i].id
  BY DEF OneEach
<1>2. PICK t \in [0..Len(w) -> Nat] :
         /\ t[0] = 0
         /\ \A k \in Nat : k < Len(w) => t[k + 1] = t[k] + c[w[k + 1].id].spent
         /\ SpentOver(c, w) = t[Len(w)]
  BY SpentRuns
<1>3. \A j \in DOMAIN w : d[w[j].id].spent \in Nat
  BY <1>0
<1>4. PICK u \in [0..Len(w) -> Nat] :
         /\ u[0] = 0
         /\ \A k \in Nat : k < Len(w) => u[k + 1] = u[k] + d[w[k + 1].id].spent
         /\ SpentOver(d, w) = u[Len(w)]
  BY <1>3, SpentRuns
<1>. DEFINE A == {k \in 0..Len(w) : u[k] = t[k] + (IF i <= k THEN n ELSE 0)}
<1>5. 0 \in A
  BY <1>1, <1>2, <1>4
<1>6. ASSUME NEW k \in Nat, k < Len(w), k \in A
      PROVE  k + 1 \in A
  <2>1. k + 1 \in DOMAIN w /\ k + 1 \in 0..Len(w) /\ k \in 0..Len(w)
    BY <1>1, <1>6
  <2>. DEFINE a == c[w[k + 1].id].spent
              b == d[w[k + 1].id].spent
  <2>2. a \in Nat /\ b = a + (IF k + 1 = i THEN n ELSE 0)
    <3>1. a \in Nat
      BY <2>1
    <3>2. CASE k + 1 = i
      BY <3>1, <3>2
    <3>3. CASE k + 1 # i
      BY <1>0, <2>1, <3>1, <3>3
    <3>. QED  BY <3>1, <3>2, <3>3
  <2>3. t[k + 1] = t[k] + a /\ u[k + 1] = u[k] + b
        /\ t[k] \in Nat /\ u[k] = t[k] + (IF i <= k THEN n ELSE 0)
    BY <1>2, <1>4, <1>6, <2>1
  <2>. HIDE DEF a, b
  <2>4. u[k + 1] = t[k + 1] + (IF i <= k + 1 THEN n ELSE 0)
    <3>1. CASE i <= k
      <4>1. i <= k + 1 /\ k + 1 # i
        BY <1>1, <1>6, <3>1
      <4>2. b = a /\ u[k] = t[k] + n
        BY <2>2, <2>3, <3>1, <4>1
      <4>. QED  BY <2>2, <2>3, <4>1, <4>2
    <3>2. CASE i = k + 1
      <4>1. i <= k + 1 /\ ~(i <= k)
        BY <1>1, <1>6, <3>2
      <4>2. b = a + n /\ u[k] = t[k]
        BY <2>2, <2>3, <3>2, <4>1
      <4>. QED  BY <2>2, <2>3, <4>1, <4>2
    <3>3. CASE ~(i <= k) /\ i # k + 1
      <4>1. ~(i <= k + 1)
        BY <1>1, <1>6, <3>3
      <4>2. b = a /\ u[k] = t[k]
        BY <2>2, <2>3, <3>3
      <4>. QED  BY <2>3, <4>1, <4>2
    <3>. QED  BY <3>1, <3>2, <3>3
  <2>. QED  BY <2>1, <2>4
<1>. HIDE DEF A
<1>7. \A k \in 0..Len(w) : k \in A
  BY <1>1, <1>5, <1>6, CountUp
<1>8. Len(w) \in A
  BY <1>1, <1>7
<1>9. t[Len(w)] \in Nat /\ u[Len(w)] = t[Len(w)] + n
  BY <1>1, <1>8 DEF A
<1>. QED  BY <1>2, <1>4, <1>9

\* Children that spent the same each spent the same together.
LEMMA SpentSame ==
    ASSUME NEW c, NEW d, NEW w, IsList(w),
           \A i \in DOMAIN w : /\ c[w[i].id].spent \in Nat
                               /\ d[w[i].id].spent = c[w[i].id].spent
    PROVE  SpentOver(d, w) = SpentOver(c, w)
<1>1. Len(w) \in Nat /\ DOMAIN w = 1..Len(w)
  BY ListFacts
<1>2. PICK t \in [0..Len(w) -> Nat] :
         /\ t[0] = 0
         /\ \A k \in Nat : k < Len(w) => t[k + 1] = t[k] + c[w[k + 1].id].spent
         /\ SpentOver(c, w) = t[Len(w)]
  BY SpentRuns
<1>3. \A i \in DOMAIN w : d[w[i].id].spent \in Nat
  OBVIOUS
<1>4. PICK u \in [0..Len(w) -> Nat] :
         /\ u[0] = 0
         /\ \A k \in Nat : k < Len(w) => u[k + 1] = u[k] + d[w[k + 1].id].spent
         /\ SpentOver(d, w) = u[Len(w)]
  BY <1>3, SpentRuns
<1>. DEFINE A == {k \in 0..Len(w) : u[k] = t[k]}
<1>5. 0 \in A
  BY <1>1, <1>2, <1>4
<1>6. ASSUME NEW k \in Nat, k < Len(w), k \in A
      PROVE  k + 1 \in A
  <2>1. k + 1 \in DOMAIN w /\ k + 1 \in 0..Len(w)
    BY <1>1, <1>6
  <2>2. d[w[k + 1].id].spent = c[w[k + 1].id].spent
    BY <2>1
  <2>. QED  BY <1>2, <1>4, <1>6, <2>1, <2>2
<1>. HIDE DEF A
<1>7. \A k \in 0..Len(w) : k \in A
  BY <1>1, <1>5, <1>6, CountUp
<1>8. Len(w) \in A
  BY <1>1, <1>7
<1>. QED  BY <1>2, <1>4, <1>8 DEF A

-----------------------------------------------------------------------------
(* One turn, one ceiling. *)

\* Up to the wave under way, what the log holds and what is left are the
\* ceiling; and of the wave, no child has spent more than was left.
Accounted ==
    /\ turns \in Nat /\ left \in Nat
    /\ pc = "triage" => turns = 0 /\ left = MaxSteps /\ settled = 0
    /\ IF settled = -1
       THEN /\ \E before \in Nat : /\ turns = before + SpentOver(child, wave)
                                   /\ left = Lower(MaxSteps, before)
            /\ \A id \in DOMAIN child : child[id].spent <= left
       ELSE left = Lower(MaxSteps, turns)

\* What the model sums is that total.
LEMMA SpentIsOver == SpentBy(wave) = SpentOver(child, wave)
  BY DEF SpentBy, SpentOver

\* Lowering twice is lowering once by both.
LEMMA LowerFacts ==
    ASSUME NEW m \in Nat
    PROVE  /\ \A a \in Nat : Lower(m, a) \in Nat
           /\ \A a, b \in Nat : Lower(Lower(m, a), b) = Lower(m, a + b)
           /\ Lower(m, 0) = m
  BY DEF Lower

\* A step that spends nothing and folds nothing.
LEMMA AccountedKept ==
    ASSUME Accounted, UNCHANGED <<left, wave, child, settled, turns>>,
           pc' = "triage" => pc = "triage"
    PROVE  Accounted'
  BY DEF Accounted

\* Between waves.
LEMMA AccountedBetween ==
    ASSUME Accounted, UNCHANGED <<left, turns>>, settled' # -1, settled # -1,
           pc' # "triage"
    PROVE  Accounted'
  BY DEF Accounted

\* A child spends what the ceiling leaves it.
LEMMA AccountedChild ==
    ASSUME Accounted, TurnInv, settled = -1, pc' # "triage",
           UNCHANGED <<left, wave, settled>>,
           NEW n \in Nat, turns' = turns + n,
           NEW id \in DOMAIN child, NEW c, child' = [child EXCEPT ![id] = c],
           c.spent = child[id].spent + n, c.spent <= left
    PROVE  Accounted'
<1>1. /\ turns \in Nat /\ left \in Nat
      /\ \A k \in DOMAIN child : child[k].spent <= left
  BY DEF Accounted
<1>2. PICK before \in Nat : turns = before + SpentOver(child, wave)
                            /\ left = Lower(MaxSteps, before)
  BY DEF Accounted
<1>3. /\ IsList(wave) /\ OneEach(wave) /\ DOMAIN child = Ids(wave)
      /\ \A k \in DOMAIN child : child[k].spent \in Nat
  BY DEF TurnInv, Gather, IsChild
<1>4. PICK i \in DOMAIN wave : wave[i].id = id
  BY <1>3 DEF Ids
<1>5. \A j \in DOMAIN wave : wave[j].id \in DOMAIN child
  BY <1>3 DEF Ids
<1>6. /\ child'[id] = c
      /\ \A k \in DOMAIN child : k # id => child'[k] = child[k]
      /\ DOMAIN child' = DOMAIN child
  OBVIOUS
<1>7. SpentOver(child, wave) \in Nat
      /\ SpentOver(child', wave) = SpentOver(child, wave) + n
  <2>. DEFINE d == child'
  <2>1. /\ d[id] = c
        /\ \A k \in DOMAIN child : k # id => d[k] = child[k]
    BY <1>6
  <2>. HIDE DEF d
  <2>2. SpentOver(child, wave) \in Nat
        /\ SpentOver(d, wave) = SpentOver(child, wave) + n
    BY <1>3, <1>4, <1>5, <2>1, SpentMore
  <2>. QED  BY <2>2 DEF d
<1>8. turns' = before + SpentOver(child', wave)
  BY <1>2, <1>7
<1>9. \A k \in DOMAIN child' : child'[k].spent <= left
  BY <1>1, <1>6
<1>. QED  BY <1>1, <1>2, <1>8, <1>9 DEF Accounted

\* A child's mission ends, inside the ceiling.
LEMMA ChildEndsAccounted ==
    ASSUME Accounted, TurnInv, Ceiling, NEW id, ChildEnds(id)
    PROVE  Accounted'
<1>1. /\ id \in DOMAIN child /\ child[id].at \in {"running", "cancelled"}
      /\ pc' # "triage" /\ UNCHANGED <<pc, turn, wave, settled, meta>>
  BY DEF ChildEnds, AtWork
<1>2. IsChild(child[id]) /\ settled = -1
  BY <1>1 DEF TurnInv, Gather
<1>3. PICK n \in Costs(child[id]) :
         /\ turns' = turns + n
         /\ LET c == [child[id] EXCEPT !.spent = @ + n]
            IN \/ \E ending \in {"passed", "awaiting"} :
                     child' = [child EXCEPT ![id] =
                         Back(c, ending = "passed", FALSE, ending = "awaiting")]
               \/ child' = [child EXCEPT ![id] =
                     IF MaxReviews = 0 THEN Back(c, FALSE, FALSE, FALSE)
                     ELSE [c EXCEPT !.at = "gate"]]
  BY DEF ChildEnds
<1>. DEFINE c == [child[id] EXCEPT !.spent = @ + n]
<1>4. n \in Nat /\ IsChild(c) /\ c.spent = child[id].spent + n
  BY <1>2, SpentIsChild
<1>5. c.spent <= left
  <2>1. n <= Allowance(child[id])
    BY <1>3 DEF Costs
  <2>. QED  BY <1>2, <1>4, <2>1 DEF Allowance, IsChild, Accounted
<1>6. \/ \E ok, awaiting :
             child' = [child EXCEPT ![id] = Back(c, ok, FALSE, awaiting)]
      \/ child' = [child EXCEPT ![id] = [c EXCEPT !.at = "gate"]]
  <2>1. CASE child' = [child EXCEPT ![id] =
                          IF MaxReviews = 0 THEN Back(c, FALSE, FALSE, FALSE)
                          ELSE [c EXCEPT !.at = "gate"]]
    BY <2>1, Zenon
  <2>2. CASE \E ending \in {"passed", "awaiting"} :
                child' = [child EXCEPT ![id] =
                    Back(c, ending = "passed", FALSE, ending = "awaiting")]
    BY <2>2, ZenonT(40)
  <2>. QED  BY <1>3, <2>1, <2>2, Zenon
<1>. HIDE DEF c
<1>7. [c EXCEPT !.at = "gate"].spent = c.spent
  BY <1>4, ChildAt
<1>8. \A ok, awaiting : Back(c, ok, FALSE, awaiting).spent = c.spent
  BY <1>4, BackSpends
<1>9. PICK k : k.spent = c.spent /\ child' = [child EXCEPT ![id] = k]
  BY <1>6, <1>7, <1>8, Zenon
<1>10. k.spent = child[id].spent + n /\ k.spent <= left
  BY <1>4, <1>5, <1>9
<1>. QED  BY <1>1, <1>2, <1>3, <1>4, <1>9, <1>10, AccountedChild DEF turn

\* A child that raises spends inside the ceiling too.
LEMMA ChildRaisesAccounted ==
    ASSUME Accounted, TurnInv, Ceiling, NEW id, ChildRaises(id)
    PROVE  Accounted'
<1>1. /\ id \in DOMAIN child /\ child[id].at = "running"
      /\ pc' # "triage" /\ UNCHANGED <<turn, wave, settled, meta>>
  BY DEF ChildRaises, AtWork
<1>2. IsChild(child[id]) /\ settled = -1
  BY <1>1 DEF TurnInv, Gather
<1>3. PICK n \in Costs(child[id]) :
         /\ turns' = turns + n
         /\ LET c == [child[id] EXCEPT !.spent = @ + n]
            IN child' = [child EXCEPT ![id] = Back(c, FALSE, FALSE, FALSE)]
  BY DEF ChildRaises
<1>. DEFINE c == [child[id] EXCEPT !.spent = @ + n]
<1>4. n \in Nat /\ IsChild(c) /\ c.spent = child[id].spent + n
  BY <1>2, SpentIsChild
<1>5. c.spent <= left
  <2>1. n <= Allowance(child[id])
    BY <1>3 DEF Costs
  <2>. QED  BY <1>2, <1>4, <2>1 DEF Allowance, IsChild, Accounted
<1>. HIDE DEF c
<1>6. PICK k : k.spent = c.spent /\ child' = [child EXCEPT ![id] = k]
  BY <1>3, <1>4, BackSpends DEF c
<1>7. k.spent = child[id].spent + n /\ k.spent <= left
  BY <1>4, <1>5, <1>6
<1>. QED  BY <1>1, <1>2, <1>3, <1>4, <1>6, <1>7, AccountedChild DEF turn

\* Nor does the end of the turn spend any.
LEMMA ClosesAccounted ==
    ASSUME Accounted, TurnInv, Closes
    PROVE  Accounted'
<1>1. UNCHANGED <<left, wave, settled, turns>> /\ pc' = "closed"
  BY DEF Closes, turn, disk
<1>2. /\ DOMAIN child' = DOMAIN child
      /\ \A id \in DOMAIN child : child'[id].spent = child[id].spent
  BY ClosesOver
<1>3. SpentOver(child', wave) = SpentOver(child, wave)
  <2>1. /\ IsList(wave) /\ DOMAIN child = Ids(wave)
        /\ \A id \in DOMAIN child : child[id].spent \in Nat
    BY DEF TurnInv, Gather, IsChild
  <2>2. \A i \in DOMAIN wave : /\ child[wave[i].id].spent \in Nat
                               /\ child'[wave[i].id].spent
                                     = child[wave[i].id].spent
    BY <1>2, <2>1 DEF Ids
  <2>. DEFINE d == child'
  <2>. HIDE DEF d
  <2>3. SpentOver(d, wave) = SpentOver(child, wave)
    BY <2>1, <2>2, SpentSame DEF d
  <2>. QED  BY <2>3 DEF d
<1>. QED  BY <1>1, <1>2, <1>3 DEF Accounted

\* A reviewed gate costs no turn.
LEMMA GateReviewAccounted ==
    ASSUME Accounted, TurnInv, NEW id, GateReview(id)
    PROVE  Accounted'
<1>1. /\ id \in DOMAIN child /\ child[id].at = "gate"
      /\ pc' # "triage" /\ UNCHANGED <<pc, turn, wave, settled, meta, turns>>
  BY DEF GateReview, AtWork, disk
<1>2. IsChild(child[id]) /\ settled = -1
  BY <1>1 DEF TurnInv, Gather
<1>3. \E verdict : child' = [child EXCEPT ![id] = Verdict(child[id], verdict)]
  BY DEF GateReview
<1>4. PICK k : k.spent = child[id].spent /\ child' = [child EXCEPT ![id] = k]
  BY <1>2, <1>3, VerdictIsChild
<1>5. /\ child[id].spent \in Nat /\ child[id].spent <= left /\ turns \in Nat
      /\ 0 \in Nat
  BY <1>1, <1>2 DEF Accounted, IsChild
<1>6. k.spent = child[id].spent + 0 /\ k.spent <= left /\ turns' = turns + 0
  BY <1>1, <1>4, <1>5
<1>. QED  BY <1>1, <1>2, <1>4, <1>5, <1>6, AccountedChild DEF turn

\* A wave starts with nothing spent.
LEMMA StartAccounted ==
    ASSUME Accounted, TurnInv, NEW members, IsList(members),
           StartWaveOf(members)
    PROVE  Accounted'
<1>1. /\ pc = "working" /\ wave = << >> /\ wave' = members /\ settled' = -1
      /\ child' = [id \in Ids(members) |-> Started]
      /\ UNCHANGED <<pc, left, turns>>
  BY DEF StartWaveOf, disk
<1>2. turns \in Nat /\ left \in Nat /\ left = Lower(MaxSteps, turns)
  <2>1. CASE settled # -1
    BY <1>1, <2>1 DEF Accounted
  <2>2. CASE settled = -1
    <3>1. PICK before \in Nat : turns = before + SpentOver(child, wave)
                                /\ left = Lower(MaxSteps, before)
      BY <1>1, <2>2 DEF Accounted
    <3>2. SpentOver(child, wave) = 0
      BY <1>1, SpentNone DEF TurnInv, Gather
    <3>3. turns = before
      BY <3>1, <3>2
    <3>. QED  BY <3>1, <3>3 DEF Accounted
  <2>. QED  BY <2>1, <2>2
<1>3. Started.spent = 0
  BY DEF Started
<1>. DEFINE c == child'
<1>4. \A id \in DOMAIN c : c[id].spent = 0
  BY <1>1, <1>3
<1>5. \A i \in DOMAIN members : members[i].id \in DOMAIN c
  BY <1>1 DEF Ids
<1>. HIDE DEF c
<1>6. SpentOver(c, members) = 0
  BY <1>4, <1>5, SpentNone
<1>7. turns' = turns + SpentOver(child', wave')
  BY <1>1, <1>2, <1>6 DEF c
<1>8. \A id \in DOMAIN child' : child'[id].spent <= left
  BY <1>2, <1>4 DEF c
<1>. QED  BY <1>1, <1>2, <1>7, <1>8 DEF Accounted

\* The gather folds in what every member spent.
LEMMA GatheredAccounted ==
    ASSUME Accounted, TurnInv, NEW brought, GatheredAs(brought)
    PROVE  Accounted'
<1>1. /\ pc = "working" /\ settled = -1 /\ settled' = 0
      /\ left' = Lower(left, SpentOver(child, wave))
      /\ UNCHANGED <<pc, turns>>
  BY SpentIsOver DEF GatheredAs, disk
<1>2. PICK before \in Nat : turns = before + SpentOver(child, wave)
                            /\ left = Lower(MaxSteps, before)
  BY <1>1 DEF Accounted
<1>3. SpentOver(child, wave) \in Nat
  <2>1. \A i \in DOMAIN wave : child[wave[i].id].spent \in Nat
    BY DEF TurnInv, Gather, IsChild, Ids
  <2>2. \E t \in [0..Len(wave) -> Nat] : SpentOver(child, wave) = t[Len(wave)]
    BY <2>1, SpentRuns DEF TurnInv, Gather
  <2>3. Len(wave) \in Nat
    BY ListFacts DEF TurnInv, Gather
  <2>. QED  BY <2>2, <2>3
<1>4. MaxSteps \in Nat
  BY StagedAssumption DEF StagedAssumption
<1>5. left' = Lower(MaxSteps, turns) /\ left' \in Nat /\ turns \in Nat
  BY <1>1, <1>2, <1>3, <1>4, LowerFacts
<1>. QED  BY <1>1, <1>5 DEF Accounted

\* A resumed process counts the log.
LEMMA ResumesAccounted ==
    ASSUME Accounted, NEW p, ResumesWith(p)
    PROVE  Accounted'
<1>1. /\ pc' = "working" /\ settled' = 0 /\ turns' = turns
      /\ left' = Lower(MaxSteps, turns)
  BY DEF ResumesWith, WaveEnds
<1>2. MaxSteps \in Nat /\ turns \in Nat
  BY StagedAssumption DEF StagedAssumption, Accounted
<1>3. left' \in Nat
  BY <1>1, <1>2, LowerFacts
<1>. QED  BY <1>1, <1>2, <1>3 DEF Accounted

\* A begun plan has spent nothing.
LEMMA BeginAccounted ==
    ASSUME Accounted, pc = "triage", NEW p, Begin(p)
    PROVE  Accounted'
<1>1. UNCHANGED <<left, settled, turns>> /\ pc' = "working"
  BY DEF Begin, gather
<1>2. turns = 0 /\ left = MaxSteps /\ settled = 0 /\ MaxSteps \in Nat
  BY StagedAssumption DEF Accounted, StagedAssumption
<1>3. left = Lower(MaxSteps, turns)
  BY <1>2, LowerFacts
<1>. QED  BY <1>1, <1>2, <1>3 DEF Accounted

\* The steps a staged turn and a campaign have in common.
LEMMA WorksAccounted ==
    ASSUME Accounted, TurnInv, Ceiling, Works
    PROVE  Accounted'
<1>1. CASE \E id \in DOMAIN child :
               ChildEnds(id) \/ ChildRaises(id) \/ GateReview(id)
  BY <1>1, ChildEndsAccounted, ChildRaisesAccounted, GateReviewAccounted
<1>2. CASE Settle \/ Carries \/ Drops
  <2>1. /\ pc = "working" /\ pc' = "working" /\ UNCHANGED <<left, turns>>
        /\ settled >= 0 /\ settled' \in {settled + 1, 0}
    <3>1. Len(wave) \in Nat
      BY ListFacts DEF TurnInv, Gather
    <3>. QED  BY <1>2, <3>1 DEF Settle, Carries, Drops, WaveIsSettled, WaveEnds,
                                turn, disk
  <2>2. settled \in Int
    <3>1. Len(wave) \in Nat
      BY ListFacts DEF TurnInv, Gather
    <3>. QED  BY <3>1 DEF TurnInv, Gather
  <2>. QED  BY <2>1, <2>2, AccountedBetween
<1>3. CASE Closes
  BY <1>3, ClosesAccounted
<1>4. CASE \/ BoundaryReview \/ Holds \/ StoppedInWave
           \/ Synthesizes \/ StoppedAtEnd
  <2>1. /\ UNCHANGED <<left, wave, child, settled, turns>>
        /\ pc' # "triage"
    BY <1>4 DEF BoundaryReview, AtWork, Holds, StoppedInWave, Synthesizes,
                StoppedAtEnd, Stopped, turn, gather, disk
  <2>. QED  BY <2>1, AccountedKept
<1>. QED  BY <1>1, <1>2, <1>3, <1>4 DEF Works

\* Every step of a campaign keeps the account.
LEMMA AccountedStep ==
    ASSUME Accounted, CampInv, Ceiling, CampaignNext
    PROVE  Accounted'
<1>0. TurnInv /\ IsList(queue)
  BY DEF CampInv, TurnInv, Gather
<1>1. CASE Works
  BY <1>0, <1>1, WorksAccounted
<1>2. CASE StartWave \/ StartCampaignWave
  <2>1. PICK members \in {NextWave, CampaignWave} :
           queue # << >> /\ StartWaveOf(members)
    BY <1>2 DEF StartWave, StartCampaignWave, StartWaveOf
  <2>2. IsList(members)
    BY <1>0, <2>1, WaveIsQueued
  <2>. QED  BY <1>0, <2>1, <2>2, StartAccounted
<1>3. CASE Gathered \/ CampaignGathered
  BY <1>0, <1>3, GatheredAccounted DEF Gathered, CampaignGathered
<1>4. CASE DrawsPlan \/ Begins
  BY <1>4, BeginAccounted DEF DrawsPlan, Begins
<1>5. CASE Redraws
  <2>1. /\ pc = "working" /\ pc' = "working" /\ UNCHANGED <<left, turns>>
        /\ settled = Len(wave) /\ settled' = 0
    BY <1>5 DEF Redraws, WaveIsSettled, WaveEnds
  <2>2. Len(wave) \in Nat
    BY ListFacts DEF CampInv, TurnInv, Gather
  <2>. QED  BY <2>1, <2>2, AccountedBetween
<1>6. CASE ResumesCampaign \/ (ResumesOther /\ Resumes)
  BY <1>6, ResumesAccounted DEF ResumesCampaign, Resumes
<1>7. CASE \/ Stopped({"triage"}) \/ GoesDirect \/ DirectEnds
           \/ DeclinesToAsk \/ SpendsTicket \/ TicketIsSpent \/ EditsPlan
           \/ AwaitsApproval \/ StoppedUnasked \/ Remembers
           \/ \E id \in DOMAIN child : WritesExport(id)
           \/ StopArrives \/ Dies \/ ResumesHalfWritten
           \/ ResumesOther /\ ResumesDirect
  <2>1. /\ UNCHANGED <<left, wave, child, settled, turns>>
        /\ pc' = "triage" => pc = "triage"
    BY <1>7 DEF Stopped, GoesDirect, DirectEnds, DeclinesToAsk, SpendsTicket,
                TicketIsSpent, EditsPlan, SaysYes, AwaitsApproval,
                StoppedUnasked, Remembers, WritesExport, StopArrives, Dies,
                ResumesHalfWritten, ResumesDirect, vars, turn, gather, disk
  <2>. QED  BY <2>1, AccountedKept
<1>8. CASE StagedSteps
  BY <1>1, <1>2, <1>3, <1>4, <1>5, <1>7, <1>8, Zenon DEF StagedSteps, Steps
<1>9. CASE CampaignSteps
  BY <1>1, <1>2, <1>3, <1>4, <1>7, <1>9, Zenon DEF CampaignSteps
<1>10. CASE ResumesOther
  BY <1>6, <1>7, <1>10 DEF ResumesOther
<1>11. CASE \/ \E id \in DOMAIN child : WritesExport(id)
            \/ (StopArrives \/ Dies) /\ UNCHANGED campaign
            \/ ResumesHalfWritten
  BY <1>7, <1>11, Zenon
<1>12. CASE ResumesCampaign
  BY <1>6, <1>12, Zenon
<1>. QED  BY <1>8, <1>9, <1>10, <1>11, <1>12 DEF CampaignNext

\* For any plans, waves of any width and any number of deaths, one ceiling
\* bounds the whole turn: between waves what a process takes to be left is what
\* the log leaves of it, and while one runs no child has more than its start
\* left (swarm.py, _work_through's fold and _execute_step's budget; resume.py,
\* the turns it counts on the log).
THEOREM OneCeiling == NoPlanIsNone => (CampaignSpec => []CeilingHolds)
<1>. SUFFICES ASSUME NoPlanIsNone
              PROVE  CampaignSpec => []CeilingHolds
  OBVIOUS
<1>. DEFINE Both == CampInv /\ (Ceiling => Accounted)
<1>1. CampaignInit => Both
  <2>1. CampaignInit => Accounted
    BY StagedAssumption, LowerFacts
       DEF CampaignInit, Init, Accounted, StagedAssumption
  <2>. QED  BY <2>1, CampInit
<1>2. Both /\ [CampaignNext]_cvars => Both'
  <2>1. Ceiling' = Ceiling
    BY DEF Ceiling
  <2>2. ASSUME Accounted, UNCHANGED cvars
        PROVE  Accounted'
    BY <2>2, AccountedKept DEF cvars, vars, turn, gather, disk
  <2>. QED  BY <2>1, <2>2, AccountedStep, CampStep, CampStutter
<1>3. Both => CeilingHolds
  <2>. SUFFICES ASSUME CampInv, Accounted, Ceiling
                PROVE  CeilingHolds
    BY DEF CeilingHolds
  <2>1. CASE settled # -1
    BY <2>1 DEF Accounted, CeilingHolds
  <2>2. CASE settled = -1
    <3>1. PICK before \in Nat : turns = before + SpentOver(child, wave)
                                /\ left = Lower(MaxSteps, before)
      BY <2>2 DEF Accounted
    <3>2. SpentOver(child, wave) \in Nat
      <4>1. \A i \in DOMAIN wave : child[wave[i].id].spent \in Nat
        BY DEF CampInv, TurnInv, Gather, IsChild, Ids
      <4>2. \E t \in [0..Len(wave) -> Nat] : SpentOver(child, wave) = t[Len(wave)]
        BY <4>1, SpentRuns DEF CampInv, TurnInv, Gather
      <4>3. Len(wave) \in Nat
        BY ListFacts DEF CampInv, TurnInv, Gather
      <4>. QED  BY <4>2, <4>3
    <3>3. turns - SpentBy(wave) = before
      BY <3>1, <3>2, SpentIsOver
    <3>. QED  BY <2>2, <3>1, <3>3 DEF Accounted, CeilingHolds
  <2>. QED  BY <2>1, <2>2
<1>. QED  BY <1>1, <1>2, <1>3, PTL DEF CampaignSpec

-----------------------------------------------------------------------------
(* An answer is to the whole plan. *)

\* What was settled of the plan in force was settled under it.
UnderPlan ==
    \A i \in DOMAIN done :
        (done[i].outcome # "awaiting_approval" /\ done[i].id \in Ids(plan))
            => done[i].plan = drawn

Words ==
    /\ pc \in {"triage", "direct", "working", "closing", "closed", "dead"}
    /\ stop \in {"none", "incomplete", "budget_exhausted"}
    /\ pc \in {"triage", "direct", "working"} => outcome # "answered"

AnsweredInv == Words /\ UnderPlan /\ AnsweredIsTheWholePlan

\* A step that writes nothing down and answers nothing.
LEMMA AnsweredKept ==
    ASSUME AnsweredInv, UNCHANGED <<plan, drawn, done>>,
           pc' \in {"triage", "direct", "working", "closing", "closed", "dead"},
           stop' \in {"none", "incomplete", "budget_exhausted"},
           outcome' = "answered" =>
              \/ pc' = "dead"
              \/ /\ outcome = "answered" /\ pc # "dead"
                 /\ pc' = pc \/ pc' = "closed"
    PROVE  AnsweredInv'
<1>1. UnderPlan'
  BY DEF AnsweredInv, UnderPlan
<1>2. Words'
  BY DEF AnsweredInv, Words
<1>3. AnsweredIsTheWholePlan'
  BY DEF AnsweredInv, Words, AnsweredIsTheWholePlan
<1>. QED  BY <1>1, <1>2, <1>3 DEF AnsweredInv

\* While the turn goes on no word of an answer is out.
LEMMA AnsweredWorking ==
    ASSUME Words', UnderPlan', pc' \in {"triage", "direct", "working"}
    PROVE  AnsweredInv'
  BY DEF Words, AnsweredInv, AnsweredIsTheWholePlan

\* One member written down, under the plan in force.
LEMMA SettleAnswered ==
    ASSUME AnsweredInv, TurnInv, Settle
    PROVE  AnsweredInv'
<1>. DEFINE e == Entry(wave[settled + 1], child[wave[settled + 1].id])
<1>1. /\ done' = Append(done, e) /\ e.plan = drawn
      /\ pc = "working"
      /\ UNCHANGED <<pc, plan, drawn, stop, outcome>>
  BY DEF Settle, Entry
<1>. HIDE DEF e
<1>2. /\ Len(done) \in Nat /\ DOMAIN done = 1..Len(done)
      /\ DOMAIN done' = 1..(Len(done) + 1)
      /\ \A i \in DOMAIN done : done'[i] = done[i]
      /\ done'[Len(done) + 1] = e
  BY <1>1, Appended DEF TurnInv, Written
<1>3. \A i \in DOMAIN done' : i \in DOMAIN done \/ i = Len(done) + 1
  BY <1>2
<1>4. UnderPlan'
  BY <1>1, <1>2, <1>3 DEF AnsweredInv, UnderPlan
<1>5. Words'
  BY <1>1 DEF AnsweredInv, Words
<1>. QED  BY <1>1, <1>4, <1>5, AnsweredWorking

\* The answer without a caveat found a passed result for every step.
LEMMA SynthesizesAnswered ==
    ASSUME AnsweredInv, TurnInv, Synthesizes
    PROVE  AnsweredInv'
<1>1. /\ pc' = "closing" /\ UNCHANGED <<plan, drawn, done, results, stop>>
      /\ outcome' = "answered" => ~Failed
  BY DEF Synthesizes, turn
<1>2. Words' /\ UnderPlan'
  BY <1>1 DEF AnsweredInv, Words, UnderPlan
<1>3. ASSUME outcome' = "answered", NEW id \in Ids(plan)
      PROVE  \E i \in DOMAIN done :
                done[i] = [id |-> id, plan |-> drawn, outcome |-> "ok"]
  <2>1. id \in DOMAIN results /\ results[id].ok
    BY <1>1, <1>3 DEF Failed
  <2>2. PICK i \in DOMAIN done : done[i].id = id /\ done[i].outcome = "ok"
    BY <2>1 DEF TurnInv, Written
  <2>3. done[i].plan = drawn
    BY <2>2 DEF AnsweredInv, UnderPlan
  <2>4. done[i] = [id |-> done[i].id, plan |-> done[i].plan,
                   outcome |-> done[i].outcome]
    BY DEF TurnInv, Written, IsEntry
  <2>. QED  BY <2>2, <2>3, <2>4
<1>4. AnsweredIsTheWholePlan'
  BY <1>1, <1>3 DEF AnsweredIsTheWholePlan
<1>. QED  BY <1>2, <1>4 DEF AnsweredInv

\* A begun plan has nothing settled.
LEMMA BeginAnswered ==
    ASSUME AnsweredInv, TurnInv, pc = "triage", NEW p, Begin(p)
    PROVE  AnsweredInv'
<1>1. /\ pc' = "working" /\ UNCHANGED <<done, stop, outcome>>
      /\ done = << >>
  BY DEF Begin, TurnInv, OnDisk
<1>2. Words' /\ UnderPlan'
  BY <1>1 DEF AnsweredInv, Words, UnderPlan
<1>. QED  BY <1>1, <1>2, AnsweredWorking

\* A plan drawn around what is settled takes none of its names.
LEMMA RedrawsAnswered ==
    ASSUME AnsweredInv, TurnInv, ~NamesAgain, Redraws
    PROVE  AnsweredInv'
<1>1. /\ pc = "working" /\ UNCHANGED <<pc, done, stop, outcome>>
      /\ Ids(plan') \cap DOMAIN results = {}
  BY DEF Redraws, WaveIsSettled
<1>2. Words'
  BY <1>1 DEF AnsweredInv, Words
<1>3. UnderPlan'
  BY <1>1 DEF UnderPlan, TurnInv, Written
<1>. QED  BY <1>1, <1>2, <1>3, AnsweredWorking

\* A resumed process has the plan and the entries it was left.
LEMMA ResumesAnswered ==
    ASSUME AnsweredInv, TurnInv, ResumesWith(plan)
    PROVE  AnsweredInv'
<1>1. /\ meta # NoPlan /\ plan' = plan /\ drawn' = meta.drawn
      /\ done' = Settled(meta.done) /\ pc' = "working" /\ stop' = "none"
      /\ outcome' = "incomplete"
  BY DEF ResumesWith
<1>2. drawn' = drawn /\ done' = Settled(done)
  BY <1>1 DEF TurnInv, OnDisk
<1>3. \A n \in DOMAIN done' : \E i \in DOMAIN done :
         done'[n] = done[i] /\ done[i].outcome \in {"ok", "failed"}
  BY <1>2, SettledList DEF TurnInv, Written
<1>4. UnderPlan'
  BY <1>1, <1>2, <1>3 DEF AnsweredInv, UnderPlan
<1>5. Words'
  BY <1>1 DEF Words
<1>. QED  BY <1>1, <1>4, <1>5, AnsweredWorking

\* Whoever resumes a turn has its plan, read from the disk or sorted anew.
LEMMA ResumesThePlan ==
    ASSUME CampInv, ResumesCampaign \/ (ResumesOther /\ Resumes)
    PROVE  ResumesWith(plan)
<1>1. CASE ResumesCampaign
  <2>1. meta # NoPlan /\ ResumesWith(AsPlanSteps(record)) /\ record # NoPlan
    BY <1>1 DEF ResumesCampaign, ResumesWith
  <2>2. plan = AsPlanSteps(record)
    BY <2>1 DEF CampInv, Recorded
  <2>. QED  BY <2>1, <2>2
<1>2. CASE Resumes
  <2>1. meta # NoPlan /\ ResumesWith(meta.plan)
    BY <1>2 DEF Resumes, ResumesWith
  <2>2. meta.plan = plan
    BY <2>1 DEF CampInv, TurnInv, OnDisk
  <2>. QED  BY <2>1, <2>2
<1>. QED  BY <1>1, <1>2

\* Every step of a campaign keeps it.
LEMMA AnsweredStep ==
    ASSUME AnsweredInv, CampInv, ~NamesAgain, CampaignNext
    PROVE  AnsweredInv'
<1>0. TurnInv
  BY DEF CampInv
<1>1. CASE Settle
  BY <1>0, <1>1, SettleAnswered
<1>2. CASE Synthesizes
  BY <1>0, <1>2, SynthesizesAnswered
<1>3. CASE DrawsPlan \/ Begins
  BY <1>0, <1>3, BeginAnswered DEF DrawsPlan, Begins
<1>4. CASE Redraws
  BY <1>0, <1>4, RedrawsAnswered
<1>5. CASE ResumesCampaign \/ (ResumesOther /\ Resumes)
  <2>1. ResumesWith(plan)
    BY <1>5, ResumesThePlan
  <2>. QED  BY <1>0, <2>1, ResumesAnswered
<1>6. CASE DirectEnds
  <2>1. /\ pc = "direct" /\ pc' = "closed" /\ plan = << >>
        /\ UNCHANGED <<plan, drawn, done, stop>>
    BY <1>0, <1>6 DEF DirectEnds, turn, TurnInv, OnDisk
  <2>2. Words' /\ UnderPlan' /\ AnsweredIsTheWholePlan'
    BY <2>1 DEF AnsweredInv, Words, UnderPlan, AnsweredIsTheWholePlan
  <2>. QED  BY <2>2 DEF AnsweredInv
<1>. DEFINE Quiet ==
        /\ UNCHANGED <<plan, drawn, done>>
        /\ pc' \in {"triage", "direct", "working", "closing", "closed", "dead"}
        /\ stop' \in {"none", "incomplete", "budget_exhausted"}
        /\ outcome' = "answered" =>
              \/ pc' = "dead"
              \/ /\ outcome = "answered" /\ pc # "dead"
                 /\ pc' = pc \/ pc' = "closed"
<1>7. CASE \/ \E id \in DOMAIN child :
                 ChildEnds(id) \/ ChildRaises(id) \/ GateReview(id)
           \/ BoundaryReview
           \/ Holds \/ Carries \/ StoppedInWave \/ Drops
           \/ StoppedAtEnd \/ Closes
           \/ Stopped({"triage"}) \/ GoesDirect
           \/ StartWave \/ Gathered
  <2>1. CASE \/ \E id \in DOMAIN child : ChildEnds(id) \/ GateReview(id)
             \/ BoundaryReview \/ Carries \/ Drops \/ StartWave \/ Gathered
    <3>1. AtWork /\ UNCHANGED <<pc, plan, drawn, done, stop, outcome>>
      BY <2>1 DEF ChildEnds, GateReview, BoundaryReview, Carries, Drops,
                  WaveIsSettled, StartWave, StartWaveOf, Gathered, GatheredAs,
                  AtWork, turn
    <3>. QED  BY <3>1, AnsweredKept DEF AtWork, AnsweredInv, Words
  <2>2. CASE \E id \in DOMAIN child : ChildRaises(id)
    <3>1. AtWork /\ pc' \in {pc, "closing"} /\ (pc # "working" => pc' = pc)
          /\ UNCHANGED <<plan, drawn, done, stop, outcome>>
      BY <2>2 DEF ChildRaises, turn
    <3>. QED  BY <3>1, AnsweredKept DEF AtWork, AnsweredInv, Words
  <2>3. CASE \/ Holds \/ StoppedInWave \/ StoppedAtEnd
             \/ Stopped({"triage"}) \/ GoesDirect
    <3>1. /\ pc \in {"triage", "working"} /\ pc' \in {"closing", "direct"}
          /\ outcome' \in {outcome, stop, "awaiting_approval"}
          /\ UNCHANGED <<plan, drawn, done, stop>>
      BY <2>3 DEF Holds, WaveIsSettled, StoppedInWave, StoppedAtEnd, Stopped,
                  GoesDirect, turn
    <3>. QED  BY <3>1, AnsweredKept DEF AnsweredInv, Words
  <2>4. CASE Closes
    BY <2>4, AnsweredKept DEF Closes, turn, AnsweredInv, Words
  <2>. QED  BY <1>7, <2>1, <2>2, <2>3, <2>4
<1>8. CASE \/ DeclinesToAsk \/ SpendsTicket \/ TicketIsSpent \/ EditsPlan
           \/ AwaitsApproval \/ StoppedUnasked \/ Remembers
           \/ StartCampaignWave \/ CampaignGathered
           \/ \E id \in DOMAIN child : WritesExport(id)
  <2>1. CASE AwaitsApproval \/ StoppedUnasked
    <3>1. /\ pc = "triage" /\ pc' = "closing"
          /\ outcome' \in {stop, "awaiting_approval"}
          /\ UNCHANGED <<plan, drawn, done, stop>>
      BY <2>1 DEF AwaitsApproval, StoppedUnasked, Unasked, Stopped, turn
    <3>. QED  BY <3>1, AnsweredKept DEF AnsweredInv, Words
  <2>2. CASE \/ DeclinesToAsk \/ SpendsTicket \/ TicketIsSpent \/ EditsPlan
             \/ Remembers \/ StartCampaignWave \/ CampaignGathered
             \/ \E id \in DOMAIN child : WritesExport(id)
    <3>1. /\ pc \in {"triage", "working"} \/ AtWork
          /\ pc' \in {pc, "closing"} /\ (pc # "triage" => pc' = pc)
          /\ outcome' \in {outcome, "awaiting_approval"}
          /\ UNCHANGED <<plan, drawn, done, stop>>
      BY <2>2 DEF DeclinesToAsk, SpendsTicket, TicketIsSpent, EditsPlan, SaysYes,
                  Unasked, Remembers, StartCampaignWave, StartWaveOf,
                  CampaignGathered, GatheredAs, WritesExport, vars, turn
    <3>. QED  BY <3>1, AnsweredKept DEF AtWork, AnsweredInv, Words
  <2>. QED  BY <1>8, <2>1, <2>2
<1>9. CASE \/ StopArrives \/ Dies \/ ResumesHalfWritten
           \/ (ResumesOther /\ ResumesDirect)
  <2>1. CASE StopArrives
    BY <2>1, AnsweredKept DEF StopArrives, turn, AnsweredInv, Words
  <2>2. CASE Dies
    BY <2>2, AnsweredKept DEF Dies, turn, AnsweredInv, Words
  <2>3. CASE ResumesHalfWritten
    BY <2>3, AnsweredKept DEF ResumesHalfWritten, turn, AnsweredInv, Words
  <2>4. CASE ResumesDirect
    BY <2>4, AnsweredKept DEF ResumesDirect, turn, AnsweredInv, Words
  <2>. QED  BY <1>9, <2>1, <2>2, <2>3, <2>4
<1>10. CASE StagedSteps
  BY <1>1, <1>2, <1>3, <1>4, <1>6, <1>7, <1>10, Zenon
     DEF StagedSteps, Steps, Works
<1>11. CASE CampaignSteps
  BY <1>1, <1>2, <1>3, <1>7, <1>8, <1>11, Zenon DEF CampaignSteps, Works
<1>12. CASE ResumesOther
  BY <1>5, <1>9, <1>12 DEF ResumesOther
<1>. QED  BY <1>5, <1>8, <1>9, <1>10, <1>11, <1>12 DEF CampaignNext

\* Where a redrawn plan takes no settled step's name, an answer without a
\* caveat has every step of the plan it was written from on the checkpoint,
\* passed, under that plan: for any plans, ceilings, waves and deaths
\* (swarm.py, _synthesize).
THEOREM AnswerIsWhole ==
    (NoPlanIsNone /\ ~NamesAgain) => (CampaignSpec => []AnsweredIsTheWholePlan)
<1>. SUFFICES ASSUME NoPlanIsNone, ~NamesAgain
              PROVE  CampaignSpec => []AnsweredIsTheWholePlan
  OBVIOUS
<1>1. CampaignInit => AnsweredInv
  BY DEF CampaignInit, Init, AnsweredInv, Words, UnderPlan,
         AnsweredIsTheWholePlan
<1>2. AnsweredInv /\ UNCHANGED cvars => AnsweredInv'
  BY AnsweredKept DEF cvars, vars, turn, AnsweredInv, Words
<1>3. CampInv /\ AnsweredInv /\ [CampaignNext]_cvars
         => CampInv' /\ AnsweredInv'
  BY <1>2, CampStep, CampStutter, AnsweredStep
<1>. QED  BY <1>1, <1>3, CampInit, PTL DEF CampaignSpec, AnsweredInv

-----------------------------------------------------------------------------
(* What a step takes is there. *)

\* Whoever edits a proposal leaves it its id.
EditsKeepIds ==
    \A e \in Edited, p \in Proposals : (Valid(e) /\ Valid(p)) => e.id = p.id

\* What this step owes is in the directory its successors look into.
Left(id) == \A name \in Mission(id).exports : <<where, id, name>> \in files

\* The session looks where the steps of the plan in force write, what passed
\* has left what it owes, and what is running found it.
Delivered ==
    runner = "campaign" =>
        /\ where = proposal.id
        /\ said = "unasked" => proposal \in Proposals
        /\ \A i \in DOMAIN done : done[i].outcome = "ok" => Left(done[i].id)
        /\ settled # -1 => \A id \in DOMAIN child : child[id].ok => Left(id)

DeliveredInv == Delivered /\ InputsArrive

\* A step that leaves the wave, the plan and the directories as they are.
LEMMA DeliveredKept ==
    ASSUME DeliveredInv, runner' = runner,
           UNCHANGED <<done, wave, child, settled, results>>,
           UNCHANGED <<proposal, where, said, files, arrived>>,
           pc' = "working" => pc = "working"
    PROVE  DeliveredInv'
<1>1. Delivered'
  BY DEF DeliveredInv, Delivered, Left, Mission
<1>2. InputsArrive'
  BY DEF DeliveredInv, InputsArrive, Mission
<1>. QED  BY <1>1, <1>2 DEF DeliveredInv

\* What only campaigns are promised.
LEMMA DeliveredOther ==
    ASSUME runner' # "campaign"
    PROVE  DeliveredInv'
  BY DEF DeliveredInv, Delivered, InputsArrive

\* One child moves on; only a passed one may have claimed its file.
LEMMA DeliveredChild ==
    ASSUME DeliveredInv, settled = -1, runner' = runner,
           UNCHANGED <<done, wave, settled, results>>,
           UNCHANGED <<proposal, where, said, files, arrived>>,
           pc' = "working" => pc = "working"
    PROVE  DeliveredInv'
<1>1. Delivered'
  BY DEF DeliveredInv, Delivered, Left, Mission
<1>2. InputsArrive'
  BY DEF DeliveredInv, InputsArrive, Mission
<1>. QED  BY <1>1, <1>2 DEF DeliveredInv

\* Between waves there is nothing to arrive.
LEMMA DeliveredBetween ==
    ASSUME Delivered', settled' # -1
    PROVE  DeliveredInv'
  BY DEF DeliveredInv, InputsArrive

\* One member written down: passed is delivered.
LEMMA SettleDelivered ==
    ASSUME DeliveredInv, TurnInv, Settle, UNCHANGED campaign
    PROVE  DeliveredInv'
<1>. DEFINE step == wave[settled + 1]
            c == child[step.id]
            e == Entry(step, c)
<1>1. /\ done' = Append(done, e) /\ e.id = step.id
      /\ e.outcome = "ok" => c.ok
      /\ settled >= 0 /\ settled < Len(wave) /\ settled' = settled + 1
      /\ UNCHANGED <<child, runner, proposal, where, said, files>>
  BY DEF Settle, Entry, campaign, approval
<1>2. settled \in Int /\ settled + 1 \in DOMAIN wave
  BY <1>1, ListFacts DEF TurnInv, Gather
<1>3. step.id \in DOMAIN child
  BY <1>2 DEF TurnInv, Gather, Ids
<1>. HIDE DEF e, c, step
<1>4. /\ Len(done) \in Nat /\ DOMAIN done = 1..Len(done)
      /\ DOMAIN done' = 1..(Len(done) + 1)
      /\ \A i \in DOMAIN done : done'[i] = done[i]
      /\ done'[Len(done) + 1] = e
  BY <1>1, Appended DEF TurnInv, Written
<1>5. \A i \in DOMAIN done' : i \in DOMAIN done \/ i = Len(done) + 1
  BY <1>4
<1>6. runner = "campaign" => (c.ok => Left(step.id))
  BY <1>1, <1>2, <1>3 DEF DeliveredInv, Delivered, c
<1>7. \A id : Left(id) => Left(id)'
  BY <1>1 DEF Left, Mission
<1>8. ASSUME runner = "campaign", NEW i \in DOMAIN done',
             done'[i].outcome = "ok"
      PROVE  Left(done'[i].id)
  BY <1>1, <1>4, <1>5, <1>6, <1>8 DEF DeliveredInv, Delivered
<1>9. settled # -1 /\ settled' # -1
  BY <1>1, <1>2
<1>10. Delivered'
  <2>1. (where = proposal.id /\ (said = "unasked" => proposal \in Proposals))'
          \/ runner' # "campaign"
    BY <1>1 DEF DeliveredInv, Delivered
  <2>2. runner' = "campaign" =>
           \A id \in DOMAIN child' : child'[id].ok => Left(id)
    BY <1>1, <1>9 DEF DeliveredInv, Delivered
  <2>3. runner' = "campaign" =>
           \A i \in DOMAIN done' : done'[i].outcome = "ok" => Left(done'[i].id)
    BY <1>1, <1>8
  <2>. QED  BY <2>1, <2>2, <2>3, <1>1 DEF Delivered, Left, Mission
<1>. QED  BY <1>9, <1>10, DeliveredBetween

\* A wave ends.
LEMMA WaveEndsDelivered ==
    ASSUME DeliveredInv, WaveEnds,
           UNCHANGED <<done, runner, proposal, where, said, files>>
    PROVE  DeliveredInv'
<1>1. DOMAIN child' = {} /\ settled' # -1
  BY NoWave
<1>2. Delivered'
  BY <1>1 DEF DeliveredInv, Delivered, Left, Mission
<1>. QED  BY <1>1, <1>2, DeliveredBetween

\* The steps a staged turn and a campaign have in common.
LEMMA WorksDelivered ==
    ASSUME DeliveredInv, TurnInv, Works, UNCHANGED campaign
    PROVE  DeliveredInv'
<1>0. UNCHANGED <<runner, proposal, where, said, files, arrived>>
  BY DEF campaign, approval
<1>1. CASE \E id \in DOMAIN child :
               ChildEnds(id) \/ ChildRaises(id) \/ GateReview(id)
  <2>1. /\ \E id \in DOMAIN child :
              child[id].at \in {"running", "cancelled", "gate"}
        /\ pc' = "working" => pc = "working"
        /\ UNCHANGED <<done, wave, settled, results>>
    BY <1>1 DEF ChildEnds, ChildRaises, GateReview, turn
  <2>2. settled = -1
    BY <2>1 DEF TurnInv, Gather
  <2>. QED  BY <1>0, <2>1, <2>2, DeliveredChild
<1>2. CASE Settle
  BY <1>2, SettleDelivered
<1>3. CASE Carries \/ Drops
  BY <1>0, <1>3, WaveEndsDelivered DEF Carries, Drops, turn
<1>4. CASE Closes
  <2>1. pc' # "working" /\ UNCHANGED <<done, wave, settled, results>>
    BY <1>4 DEF Closes, turn
  <2>2. CASE settled = -1
    BY <1>0, <2>1, <2>2, DeliveredChild
  <2>3. CASE settled # -1
    <3>1. /\ DOMAIN child' = DOMAIN child
          /\ \A id \in DOMAIN child : child'[id] = child[id]
      <4>1. \A id \in DOMAIN child : child[id].at = "back"
        BY <2>3 DEF TurnInv, Gather
      <4>. QED  BY <1>4, <4>1, ClosesOver
    <3>2. Delivered'
      BY <1>0, <2>1, <3>1 DEF DeliveredInv, Delivered, Left, Mission
    <3>. QED  BY <2>1, <2>3, <3>2, DeliveredBetween
  <2>. QED  BY <2>2, <2>3
<1>5. CASE \/ BoundaryReview \/ Holds \/ StoppedInWave
           \/ Synthesizes \/ StoppedAtEnd
  <2>1. /\ UNCHANGED <<done, wave, child, settled, results>>
        /\ pc' = "working" => pc = "working"
    BY <1>5 DEF BoundaryReview, Holds, StoppedInWave, Synthesizes,
                StoppedAtEnd, Stopped, turn, gather
  <2>. QED  BY <1>0, <2>1, DeliveredKept
<1>. QED  BY <1>1, <1>2, <1>3, <1>4, <1>5 DEF Works

\* A wave starts where every input is there.
LEMMA StartDelivered ==
    ASSUME DeliveredInv, TurnInv, runner = "campaign", StartCampaignWave
    PROVE  DeliveredInv'
<1>1. /\ wave' = CampaignWave /\ settled' = -1
      /\ arrived' = [id \in Ids(CampaignWave) |-> HandsIn(id)]
      /\ UNCHANGED <<pc, done, results, runner, proposal, where, said, files>>
  BY DEF StartCampaignWave, StartWaveOf, approval
<1>2. Delivered'
  BY <1>1 DEF DeliveredInv, Delivered, Left, Mission
<1>3. ASSUME NEW id \in DOMAIN results, results[id].ok
      PROVE  Left(id)
  <2>1. \E i \in DOMAIN done : done[i].id = id /\ done[i].outcome = "ok"
    BY <1>3 DEF TurnInv, Written
  <2>. QED  BY <2>1 DEF DeliveredInv, Delivered
<1>. DEFINE w == CampaignWave
            met == arrived'
<1>4. ASSUME NEW i \in DOMAIN w, NEW ref \in Mission(w[i].id).takes,
             ref.from \in DOMAIN results, results[ref.from].ok,
             ref.name \in Mission(ref.from).exports
      PROVE  ref \in met[w[i].id]
  <2>1. <<where, ref.from, ref.name>> \in files
    BY <1>3, <1>4 DEF Left
  <2>2. ref \in HandsIn(w[i].id)
    BY <1>4, <2>1 DEF HandsIn
  <2>3. w[i].id \in Ids(w)
    BY <1>4 DEF Ids
  <2>4. met = [id \in Ids(w) |-> HandsIn(id)]
    BY <1>1
  <2>. HIDE DEF w, met
  <2>. QED  BY <2>2, <2>3, <2>4
<1>. HIDE DEF w, met
<1>5. InputsArrive'
  BY <1>1, <1>4 DEF InputsArrive, Mission, w, met
<1>. QED  BY <1>2, <1>5 DEF DeliveredInv

\* A child that is back with a file has handed it out.
LEMMA GatheredDelivered ==
    ASSUME DeliveredInv, TurnInv, runner = "campaign", CampaignGathered
    PROVE  DeliveredInv'
<1>. DEFINE brought == [id \in DOMAIN child |-> HandsOut(id, child[id])]
<1>1. /\ child' = brought /\ settled' = 0
      /\ UNCHANGED <<done, runner, proposal, where, said, files>>
  BY DEF CampaignGathered, GatheredAs, approval
<1>2. ASSUME NEW id \in DOMAIN child, brought[id].ok
      PROVE  Left(id)
  <2>. DEFINE c == child[id]
              missing == {name \in Mission(id).exports :
                             <<where, id, name>> \notin files}
  <2>1. IsChild(c)
    BY DEF TurnInv, Gather
  <2>2. PICK no : no = FALSE
    OBVIOUS
  <2>3. ~Back(c, no, no, no).ok
    <3>1. Back(c, no, no, no).ok = no
      BY <2>1, BackIsChild
    <3>. QED  BY <2>2, <3>1
  <2>4. HandsOut(id, c).ok
    BY <1>2
  <2>5. HandsOut(id, c) = IF c.ok /\ missing # {} THEN Back(c, no, no, no) ELSE c
    BY <2>2 DEF HandsOut
  <2>. HIDE DEF c, missing
  <2>6. missing = {}
    BY <2>3, <2>4, <2>5
  <2>. QED  BY <2>6 DEF Left, missing
<1>. HIDE DEF brought
<1>3. \A id \in DOMAIN child' : child'[id].ok => Left(id)
  <2>1. DOMAIN brought = DOMAIN child
    BY DEF brought
  <2>. QED  BY <1>1, <1>2, <2>1
<1>4. Delivered'
  BY <1>1, <1>3 DEF DeliveredInv, Delivered, Left, Mission
<1>. QED  BY <1>1, <1>4, DeliveredBetween

\* A resumed process reads back what was delivered.
LEMMA ResumesDelivered ==
    ASSUME DeliveredInv, CampInv, ResumesCampaign
    PROVE  DeliveredInv'
<1>1. /\ record # NoPlan /\ meta # NoPlan /\ WaveEnds
      /\ done' = Settled(meta.done)
      /\ runner' = "campaign" /\ proposal' = record /\ where' = record.id
      /\ said' = "remembered" /\ UNCHANGED files
  BY DEF ResumesCampaign, ResumesWith
<1>2. /\ runner = "campaign" /\ record = proposal /\ meta.done = done
      /\ IsList(done)
  BY <1>1 DEF CampInv, Recorded, TurnInv, OnDisk, Written
<1>3. UNCHANGED <<proposal, where>>
  BY <1>1, <1>2 DEF DeliveredInv, Delivered
<1>4. \A n \in DOMAIN done' : \E i \in DOMAIN done : done'[n] = done[i]
  BY <1>1, <1>2, SettledList
<1>5. DOMAIN child' = {} /\ settled' # -1
  BY <1>1, NoWave
<1>6. Delivered'
  BY <1>1, <1>2, <1>3, <1>4, <1>5 DEF DeliveredInv, Delivered, Left, Mission
<1>. QED  BY <1>5, <1>6, DeliveredBetween

\* In triage nothing is settled and nothing runs.
LEMMA TriageDelivered ==
    ASSUME DeliveredInv, CampInv, pc = "triage", UNCHANGED <<done, child, wave, settled>>,
           runner' = "campaign", where' = proposal'.id, pc' # "working",
           said' = "unasked" => proposal' \in Proposals
    PROVE  DeliveredInv'
<1>1. done = << >> /\ DOMAIN child = {}
  BY DEF CampInv, TurnInv, OnDisk, Gather, Ids
<1>2. DOMAIN done = {}
  BY <1>1
<1>3. Delivered'
  BY <1>1, <1>2 DEF Delivered
<1>4. InputsArrive'
  BY DEF InputsArrive
<1>. QED  BY <1>3, <1>4 DEF DeliveredInv

\* Every step of a campaign keeps it.
LEMMA DeliveredStep ==
    ASSUME DeliveredInv, CampInv, EditsKeepIds, CampaignNext
    PROVE  DeliveredInv'
<1>0. TurnInv
  BY DEF CampInv
<1>1. CASE StagedSteps \/ ResumesOther
  BY <1>1, DeliveredOther DEF StagedSteps, ResumesOther, campaign
<1>2. CASE CampaignSteps
  <2>0. runner = "campaign" /\ where = proposal.id /\ proposal \in Legal
        /\ (said = "unasked" => proposal \in Proposals)
    BY <1>2 DEF CampaignSteps, DeliveredInv, Delivered, CampInv, Recorded
  <2>1. ASSUME NEW p, SaysYes(p), p.id = proposal.id
        PROVE  DeliveredInv'
    <3>1. /\ pc = "triage" /\ said' = "approved" /\ proposal' = p
          /\ UNCHANGED <<vars, runner, where>>
      BY <2>1 DEF SaysYes, Unasked
    <3>. QED  BY <2>0, <2>1, <3>1, TriageDelivered DEF vars, turn, gather
  <2>2. CASE DeclinesToAsk
    BY <2>0, <2>1, <2>2 DEF DeclinesToAsk
  <2>3. CASE EditsPlan
    <3>1. PICK p \in Edited : Valid(p) /\ SaysYes(p)
      BY <2>3 DEF EditsPlan
    <3>2. proposal \in Proposals /\ Valid(proposal)
      BY <2>0, <3>1 DEF SaysYes, Unasked, Legal
    <3>3. p.id = proposal.id
      BY <3>1, <3>2 DEF EditsKeepIds
    <3>. QED  BY <2>1, <3>1, <3>3
  <2>4. CASE \/ SpendsTicket \/ TicketIsSpent \/ AwaitsApproval
             \/ StoppedUnasked \/ Remembers
    <3>1. /\ pc = "triage" /\ pc' # "working"
          /\ UNCHANGED <<done, child, wave, settled, runner, proposal, where>>
          /\ said' = "unasked" => said = "unasked"
      BY <2>4 DEF SpendsTicket, TicketIsSpent, AwaitsApproval, StoppedUnasked,
                  Stopped, Unasked, Remembers, vars, turn, gather, campaign,
                  approval
    <3>. QED  BY <2>0, <3>1, TriageDelivered
  <2>5. CASE Begins
    <3>1. /\ pc = "triage" /\ UNCHANGED <<done, child, wave, settled, results>>
          /\ UNCHANGED <<runner, proposal, where, said, files, arrived>>
      BY <2>5 DEF Begins, Begin, gather, campaign, approval
    <3>2. DOMAIN wave = {} /\ DOMAIN done = {} /\ DOMAIN child = {}
      <4>1. done = << >> /\ wave = << >> /\ DOMAIN child = {}
        BY <1>0, <3>1 DEF TurnInv, OnDisk, Gather, Ids
      <4>. QED  BY <4>1
    <3>3. Delivered' /\ InputsArrive'
      BY <2>0, <3>1, <3>2 DEF Delivered, InputsArrive
    <3>. QED  BY <3>3 DEF DeliveredInv
  <2>6. CASE StartCampaignWave
    BY <1>0, <2>0, <2>6, StartDelivered
  <2>7. CASE CampaignGathered
    BY <1>0, <2>0, <2>7, GatheredDelivered
  <2>8. CASE Works /\ UNCHANGED campaign
    BY <1>0, <2>8, WorksDelivered
  <2>. QED  BY <1>2, <2>2, <2>3, <2>4, <2>5, <2>6, <2>7, <2>8 DEF CampaignSteps
<1>3. CASE \E id \in DOMAIN child : WritesExport(id)
  <2>1. /\ files \subseteq files'
        /\ UNCHANGED <<pc, done, wave, child, settled, results>>
        /\ UNCHANGED <<runner, proposal, where, said, arrived>>
    BY <1>3 DEF WritesExport, vars, turn, gather, approval
  <2>2. Delivered'
    BY <2>1 DEF DeliveredInv, Delivered, Left, Mission
  <2>3. InputsArrive'
    BY <2>1 DEF DeliveredInv, InputsArrive, Mission
  <2>. QED  BY <2>2, <2>3 DEF DeliveredInv
<1>4. CASE \/ (StopArrives \/ Dies) /\ UNCHANGED campaign
           \/ ResumesHalfWritten
  <2>1. /\ UNCHANGED <<done, wave, child, settled, results>>
        /\ UNCHANGED <<runner, proposal, where, said, files, arrived>>
        /\ pc' = "working" => pc = "working"
    BY <1>4 DEF StopArrives, Dies, ResumesHalfWritten, turn, gather, campaign,
                approval
  <2>. QED  BY <2>1, DeliveredKept
<1>5. CASE ResumesCampaign
  BY <1>5, ResumesDelivered
<1>. QED  BY <1>1, <1>2, <1>3, <1>4, <1>5 DEF CampaignNext

\* Where an edit keeps the proposal's id, no step of a campaign starts without
\* what a step that passed declared for it, whichever processes ran the two
\* (campaign.py, _handoff_in, _handoff_out and the session's directory).
THEOREM InputsAreThere ==
    (NoPlanIsNone /\ EditsKeepIds) => (CampaignSpec => []InputsArrive)
<1>. SUFFICES ASSUME NoPlanIsNone, EditsKeepIds
              PROVE  CampaignSpec => []InputsArrive
  OBVIOUS
<1>1. CampaignInit => DeliveredInv
  BY DEF CampaignInit, Init, DeliveredInv, Delivered, InputsArrive, Nothing
<1>2. DeliveredInv /\ UNCHANGED cvars => DeliveredInv'
  BY DeliveredKept DEF cvars, vars, turn, gather, campaign, approval
<1>3. CampInv /\ DeliveredInv /\ [CampaignNext]_cvars
         => CampInv' /\ DeliveredInv'
  BY <1>2, CampStep, CampStutter, DeliveredStep
<1>. QED  BY <1>1, <1>3, CampInit, PTL DEF CampaignSpec, DeliveredInv

-----------------------------------------------------------------------------
(* The checkpoint keeps PlanLog's promise. *)

\* Two lists with the same elements at the same places.
LEMMA SameList ==
    ASSUME NEW s, IsList(s), NEW t, IsList(t), Len(s) = Len(t),
           \A i \in DOMAIN s : s[i] = t[i]
    PROVE  s = t
<1>1. DOMAIN s = 1..Len(s) /\ DOMAIN t = 1..Len(s)
  BY ListFacts
<1>2. s = [i \in 1..Len(s) |-> s[i]] /\ t = [i \in 1..Len(s) |-> t[i]]
  BY <1>1 DEF IsList
<1>. QED  BY <1>1, <1>2

\* Nothing is left out by a filter that everything passes.
LEMMA AmongAll ==
    ASSUME NEW s, IsList(s)
    PROVE  Among(s, DOMAIN s) = s
<1>. DEFINE P == DOMAIN s
            m == Len(s)
            v == Among(s, P)
<1>1. m \in Nat /\ P = 1..m /\ s \in Seq(Range(s)) /\ P \in SUBSET (DOMAIN s)
  BY ListFacts DEF IsList
<1>2. /\ v \in Seq(Range(s)) /\ Len(v) = Cardinality(P)
      /\ \A i \in P : v[Upto(P, i)] = s[i]
  <2>. HIDE DEF P
  <2>. QED  BY <1>1, AmongThese
<1>3. ASSUME NEW i \in Nat, i <= m
      PROVE  Upto(P, i) = i
  <2>1. {j \in P : j <= i} = 1..i
    BY <1>1, <1>3
  <2>2. Cardinality(1..i) = i
    <3>1. Cardinality(1..i) = IF 1 > i THEN 0 ELSE i - 1 + 1
      BY <1>3, FS_Interval
    <3>. QED  BY <1>3, <3>1
  <2>. QED  BY <2>1, <2>2 DEF Upto
<1>4. Cardinality(P) = m
  <2>1. Upto(P, m) = Cardinality(P)
    BY <1>1, UptoCounts
  <2>. QED  BY <1>1, <1>3, <2>1
<1>. HIDE DEF v, P
<1>5. \A i \in DOMAIN v : v[i] = s[i]
  <2>1. DOMAIN v = 1..m
    BY <1>2, <1>4
  <2>2. \A i \in 1..m : i \in P /\ Upto(P, i) = i
    BY <1>1, <1>3
  <2>. QED  BY <1>2, <2>1, <2>2
<1>6. v = s
  BY <1>2, <1>4, <1>5, ListOf, SameList
<1>. QED  BY <1>6 DEF v, P

\* A filter takes the last element or leaves it.
LEMMA AmongAppended ==
    ASSUME NEW d, IsList(d), NEW e, NEW P \in SUBSET (DOMAIN d)
    PROVE  /\ Among(Append(d, e), P) = Among(d, P)
           /\ Among(Append(d, e), P \cup {Len(d) + 1})
                 = Append(Among(d, P), e)
<1>. DEFINE m == Len(d)
            u == Append(d, e)
            x == Among(d, P)
<1>1. /\ m \in Nat /\ DOMAIN d = 1..m /\ P \in SUBSET (1..m)
      /\ IsList(u) /\ DOMAIN u = 1..(m + 1) /\ u[m + 1] = e
      /\ \A i \in 1..m : u[i] = d[i]
  BY Appended
<1>. HIDE DEF u
<1>2. /\ IsList(x) /\ Len(x) = Cardinality(P) /\ Cardinality(P) \in Nat
      /\ DOMAIN x = 1..Cardinality(P)
      /\ \A n \in DOMAIN x : /\ Nth(P, n) \in P /\ Upto(P, Nth(P, n)) = n
                             /\ x[n] = d[Nth(P, n)]
  <2>1. d \in Seq(Range(d))
    BY DEF IsList
  <2>2. /\ x \in Seq(Range(d)) /\ Len(x) = Cardinality(P)
        /\ Cardinality(P) \in Nat
        /\ \A n \in DOMAIN x : /\ Nth(P, n) \in P /\ Upto(P, Nth(P, n)) = n
                               /\ x[n] = d[Nth(P, n)]
    BY <2>1, AmongThese
  <2>. HIDE DEF x
  <2>. QED  BY <2>2, ListOf
<1>. HIDE DEF x
<1>3. ASSUME NEW R \in SUBSET (DOMAIN u), P \subseteq R,
             \A i \in R : i \in P \/ i = m + 1
      PROVE  /\ IsList(Among(u, R)) /\ Len(Among(u, R)) = Cardinality(R)
             /\ \A n \in DOMAIN x : Among(u, R)[n] = x[n]
             /\ \A i \in R : Among(u, R)[Upto(R, i)] = u[i]
  <2>. DEFINE v == Among(u, R)
  <2>1. u \in Seq(Range(u))
    BY <1>1 DEF IsList
  <2>2. /\ v \in Seq(Range(u)) /\ Len(v) = Cardinality(R)
        /\ \A i \in R : v[Upto(R, i)] = u[i]
    BY <2>1, AmongThese
  <2>3. ASSUME NEW i \in 1..m
        PROVE  Upto(R, i) = Upto(P, i)
    <3>1. \A j \in R : j <= i => j \in P
      BY <1>1, <1>3
    <3>2. {j \in R : j <= i} = {j \in P : j <= i}
      BY <1>3, <3>1
    <3>. QED  BY <3>2 DEF Upto
  <2>. HIDE DEF v
  <2>4. ASSUME NEW n \in DOMAIN x
        PROVE  v[n] = x[n]
    <3>. DEFINE i == Nth(P, n)
    <3>1. i \in P /\ i \in 1..m /\ i \in R /\ Upto(P, i) = n /\ x[n] = d[i]
      BY <1>1, <1>2, <1>3
    <3>. HIDE DEF i
    <3>. QED  BY <1>1, <2>2, <2>3, <3>1
  <2>5. IsList(v)
    BY <2>2, ListOf
  <2>. QED  BY <2>2, <2>4, <2>5 DEF v
<1>4. Among(u, P) = x
  <2>1. P \in SUBSET (DOMAIN u)
    BY <1>1
  <2>2. /\ IsList(Among(u, P)) /\ Len(Among(u, P)) = Cardinality(P)
        /\ \A n \in DOMAIN x : Among(u, P)[n] = x[n]
    BY <1>3, <2>1
  <2>. QED  BY <1>2, <2>2, SameList
<1>5. Among(u, P \cup {m + 1}) = Append(x, e)
  <2>. DEFINE R == P \cup {m + 1}
              v == Among(u, R)
              y == Append(x, e)
  <2>1. R \in SUBSET (DOMAIN u) /\ R \in SUBSET (1..(m + 1))
    BY <1>1
  <2>2. Cardinality(R) = Cardinality(P) + 1
    <3>1. IsFiniteSet(P) /\ m + 1 \notin P
      BY <1>1, UptoCounts
    <3>. QED  BY <3>1, FS_AddElement
  <2>3. Upto(R, m + 1) = Cardinality(R)
    <3>. DEFINE n == m + 1
    <3>1. n \in Nat /\ R \in SUBSET (1..n)
      BY <1>1, <2>1
    <3>. HIDE DEF n, R
    <3>2. Upto(R, n) = Cardinality(R)
      BY <3>1, UptoCounts
    <3>. QED  BY <3>2 DEF n
  <2>4. /\ IsList(v) /\ Len(v) = Cardinality(R)
        /\ \A n \in DOMAIN x : v[n] = x[n]
        /\ v[Upto(R, m + 1)] = u[m + 1]
    <3>1. m + 1 \in R /\ P \subseteq R /\ \A i \in R : i \in P \/ i = m + 1
      OBVIOUS
    <3>. HIDE DEF R
    <3>. QED  BY <1>3, <2>1, <3>1
  <2>. HIDE DEF v, R
  <2>5. /\ IsList(y) /\ Len(y) = Len(x) + 1
        /\ DOMAIN y = 1..(Len(x) + 1) /\ y[Len(x) + 1] = e
        /\ \A n \in DOMAIN x : y[n] = x[n]
    <3>1. IsList(y) /\ DOMAIN y = 1..(Len(x) + 1) /\ y[Len(x) + 1] = e
          /\ \A n \in DOMAIN x : y[n] = x[n]
      BY <1>2, Appended
    <3>2. Len(y) = Len(x) + 1
      BY <1>2
    <3>. QED  BY <3>1, <3>2
  <2>. HIDE DEF y
  <2>6. v[Len(x) + 1] = e
    BY <1>1, <1>2, <2>2, <2>3, <2>4
  <2>7. \A n \in DOMAIN y : n \in DOMAIN x \/ n = Len(x) + 1
    BY <1>2, <2>5
  <2>8. v = y
    BY <1>2, <2>2, <2>4, <2>5, <2>6, <2>7, SameList
  <2>. QED  BY <2>8 DEF v, R, y
<1>. QED  BY <1>4, <1>5 DEF u, x

\* What is settled when one more entry is written.
LEMMA SettledGrows ==
    ASSUME NEW d, IsList(d), NEW e
    PROVE  Settled(Append(d, e)) =
              IF e.outcome \in {"ok", "failed"} THEN Append(Settled(d), e)
              ELSE Settled(d)
<1>. DEFINE u == Append(d, e)
            Says(f) == f.outcome \in {"ok", "failed"}
            P == {i \in DOMAIN d : Says(d[i])}
            R == {i \in DOMAIN u : Says(u[i])}
<1>1. /\ Len(d) \in Nat /\ DOMAIN d = 1..Len(d)
      /\ DOMAIN u = 1..(Len(d) + 1) /\ u[Len(d) + 1] = e
      /\ \A i \in DOMAIN d : u[i] = d[i]
  BY Appended
<1>. HIDE DEF u, Says
<1>2. \A i \in DOMAIN u : i \in DOMAIN d \/ i = Len(d) + 1
  BY <1>1
<1>3. Len(d) + 1 \in DOMAIN u /\ DOMAIN d \subseteq DOMAIN u
  BY <1>1
<1>4. R = IF Says(e) THEN P \cup {Len(d) + 1} ELSE P
  BY <1>1, <1>2, <1>3
<1>5. P \in SUBSET (DOMAIN d)
  OBVIOUS
<1>6. Settled(d) = Among(d, P) /\ Settled(u) = Among(u, R)
  BY DEF Settled, Says
<1>. HIDE DEF P, R
<1>7. CASE Says(e)
  <2>1. Settled(u) = Among(u, P \cup {Len(d) + 1})
    BY <1>4, <1>6, <1>7
  <2>2. Among(Append(d, e), P \cup {Len(d) + 1}) = Append(Among(d, P), e)
    BY <1>5, AmongAppended, Zenon
  <2>3. Settled(u) = Append(Settled(d), e)
    BY <1>6, <2>1, <2>2 DEF u
  <2>. QED  BY <1>7, <2>3 DEF u, Says
<1>8. CASE ~Says(e)
  <2>1. Settled(u) = Among(u, P)
    BY <1>4, <1>6, <1>8
  <2>2. Settled(u) = Settled(d)
    BY <1>5, <1>6, <2>1, AmongAppended DEF u
  <2>. QED  BY <1>8, <2>2 DEF u, Says
<1>. QED  BY <1>7, <1>8

\* What is settled is settled when it is read again.
LEMMA SettledAgain ==
    ASSUME NEW d, IsList(d)
    PROVE  Settled(Settled(d)) = Settled(d)
<1>. DEFINE s == Settled(d)
<1>1. IsList(s) /\ \A n \in DOMAIN s : s[n].outcome \in {"ok", "failed"}
  BY SettledList
<1>. HIDE DEF s
<1>2. {i \in DOMAIN s : s[i].outcome \in {"ok", "failed"}} = DOMAIN s
  BY <1>1
<1>3. Settled(s) = s
  BY <1>1, <1>2, AmongAll DEF Settled
<1>. QED  BY <1>3 DEF s

-----------------------------------------------------------------------------
\* Nobody names a dependency twice; toposort counts it twice and pays it off
\* once, and the step that needs it is placed with those nobody could place.
OnceNamed ==
    \A p \in Legal : \A task \in Range(p.steps) : Once(task.inputs)

\* A plan whose steps need earlier ones.
Sorted(p) == \A i \in DOMAIN p : p[i].needs \subseteq Earlier(p, i)

\* _as_plan_steps makes such a plan of what a person wrote in any order.
LEMMA SortedInOrder ==
    ASSUME OnceNamed, NEW p \in Legal
    PROVE  Sorted(AsPlanSteps(p))
<1>. DEFINE tasks == p.steps
            placed == Toposort(tasks)
            others == Without(tasks, Range(placed))
            rest == [i \in DOMAIN others |-> others[i].id]
            q == AsPlanSteps(p)
<1>1. /\ IsList(tasks) /\ Cardinality(Ids(tasks)) = Len(tasks)
      /\ \A i \in DOMAIN tasks : IsList(tasks[i].inputs)
  BY CampaignAssumption DEF Legal, Valid, IsList, Range
<1>2. Simple(tasks)
  BY DEF Simple, OnceNamed, Legal, Valid, Range
<1>3. placed \in Seq(Ids(tasks)) /\ Sorts(tasks, placed)
  BY <1>1, <1>2, ToposortLine
<1>4. Ids(others) = {}
  BY <1>1, <1>3, WithoutList DEF Sorts
<1>5. DOMAIN others = {}
  BY <1>4 DEF Ids
<1>. HIDE DEF others, placed, tasks
<1>6. placed \o rest = placed
  <2>1. DOMAIN rest = {} /\ rest = << >>
    BY <1>5
  <2>. HIDE DEF rest
  <2>. QED  BY <1>3, <2>1
<1>7. q = [i \in DOMAIN placed |-> [id |-> placed[i],
                                    needs |-> Needs(Task(p, placed[i]))]]
  BY <1>6 DEF AsPlanSteps, rest, others, placed, tasks
<1>. HIDE DEF q
<1>8. ASSUME NEW a \in DOMAIN q
      PROVE  q[a].needs \subseteq Earlier(q, a)
  <2>1. /\ a \in DOMAIN placed /\ DOMAIN placed = 1..Len(placed)
        /\ Len(placed) \in Nat /\ placed[a] \in Ids(tasks)
        /\ q[a].needs = Needs(Task(p, placed[a]))
    BY <1>3, <1>7
  <2>2. PICK i \in DOMAIN tasks : tasks[i].id = placed[a]
    BY <2>1 DEF Ids
  <2>. DEFINE t == Task(p, placed[a])
  <2>3. t \in Range(tasks) /\ t.id = placed[a]
    BY <2>2 DEF Task, tasks, Range
  <2>. HIDE DEF t
  <2>4. PICK j \in DOMAIN tasks : tasks[j] = t
    BY <2>3 DEF Range
  <2>5. Needs(t) \subseteq {placed[b] : b \in 1..(a - 1)}
    BY <1>3, <2>1, <2>3, <2>4 DEF Sorts
  <2>6. \A b \in 1..(a - 1) : b \in DOMAIN placed /\ q[b].id = placed[b]
    BY <1>7, <2>1
  <2>. QED  BY <2>1, <2>5, <2>6 DEF Earlier, t
<1>. QED  BY <1>8 DEF Sorted, q

\* What stays of a queue keeps its order: what comes before a step came
\* before it.
LEMMA WithoutOrder ==
    ASSUME NEW q, IsList(q), NEW ids, NEW n \in DOMAIN Without(q, ids)
    PROVE  \E i \in DOMAIN q :
              /\ Without(q, ids)[n] = q[i]
              /\ Earlier(q, i) \subseteq ids \cup Earlier(Without(q, ids), n)
<1>. DEFINE P == {i \in DOMAIN q : q[i].id \notin ids}
            w == Without(q, ids)
            i == Nth(P, n)
<1>1. w = Among(q, P)
  BY DEF Without
<1>2. /\ q \in Seq(Range(q)) /\ P \in SUBSET (DOMAIN q)
      /\ Len(q) \in Nat /\ DOMAIN q = 1..Len(q)
  BY ListFacts DEF IsList
<1>. HIDE DEF w
<1>3. /\ w \in Seq(Range(q)) /\ i \in P /\ Upto(P, i) = n /\ w[n] = q[i]
      /\ \A j \in P : Upto(P, j) \in DOMAIN w /\ w[Upto(P, j)] = q[j]
  <2>1. n \in DOMAIN Among(q, P)
    BY <1>1 DEF w
  <2>. HIDE DEF P
  <2>. QED  BY <1>1, <1>2, <2>1, AmongThese
<1>4. DOMAIN w = 1..Len(w) /\ Len(w) \in Nat /\ n \in DOMAIN w
  BY <1>3 DEF w
<1>. HIDE DEF i
<1>5. ASSUME NEW j \in 1..(i - 1), q[j].id \notin ids
      PROVE  q[j].id \in Earlier(w, n)
  <2>1. j \in P /\ j \in Nat /\ i \in P /\ j < i /\ P \in SUBSET (1..Len(q))
    BY <1>2, <1>3, <1>5
  <2>2. Upto(P, j) < Upto(P, i)
    <3>. HIDE DEF P
    <3>. QED  BY <1>2, <2>1, UptoGrows
  <2>. HIDE DEF P
  <2>3. Upto(P, j) \in DOMAIN w /\ w[Upto(P, j)] = q[j] /\ Upto(P, i) = n
    BY <1>3, <2>1
  <2>4. Upto(P, j) \in 1..(n - 1)
    BY <1>4, <2>2, <2>3
  <2>. QED  BY <2>3, <2>4 DEF Earlier
<1>6. Earlier(q, i) \subseteq ids \cup Earlier(w, n)
  BY <1>5 DEF Earlier
<1>. QED  BY <1>3, <1>6 DEF w

\* Where the steps of the turn stand to each other.  What a queued step needs
\* has come out, is running, or is queued before it; what runs, runs after
\* what it needs.
Ordered ==
    /\ Sorted(plan)
    /\ \A k \in DOMAIN queue :
          /\ queue[k] \in Range(plan)
          /\ queue[k].needs \subseteq
                DOMAIN results \cup Ids(wave) \cup Earlier(queue, k)
    /\ \A i \in DOMAIN wave : wave[i] \in Range(plan)
    /\ Unblocked(wave)

\* The members the fold has been through came out as their children did, and
\* those it has not reached are on the checkpoint under no word but a wait.
Folded ==
    \A i \in DOMAIN wave :
        (i <= settled /\ ~child[wave[i].id].awaiting)
            => /\ wave[i].id \in DOMAIN results
               /\ results[wave[i].id].ok = child[wave[i].id].ok
               /\ results[wave[i].id].plan = drawn
Pending ==
    \A i \in DOMAIN wave : i > settled =>
        \A j \in DOMAIN done :
            (done[j].plan = drawn /\ done[j].outcome # "awaiting_approval")
                => done[j].id # wave[i].id

InTurn == Ordered /\ Folded /\ Pending

\* A step that leaves the steps where they are; children may move while they
\* are out.
LEMMA InTurnKept ==
    ASSUME InTurn, TurnInv,
           UNCHANGED <<plan, drawn, queue, results, done, wave>>,
           \/ UNCHANGED <<child, settled>>
           \/ settled = -1 /\ settled' \in {-1, 0}
    PROVE  InTurn'
<1>1. Ordered'
  BY DEF InTurn, Ordered, Sorted, Unblocked
<1>2. \A i \in DOMAIN wave : i \in Nat /\ i >= 1
  BY ListFacts DEF TurnInv, Gather
<1>3. CASE UNCHANGED <<child, settled>>
  BY <1>1, <1>3 DEF InTurn, Folded, Pending
<1>4. CASE settled = -1 /\ settled' \in {-1, 0}
  <2>1. \A i \in DOMAIN wave : ~(i <= settled') /\ i > settled
    BY <1>2, <1>4
  <2>2. Folded' /\ Pending'
    BY <2>1 DEF InTurn, Folded, Pending
  <2>. QED  BY <1>1, <2>2 DEF InTurn
<1>. QED  BY <1>3, <1>4

\* Between waves there is only the queue.
LEMMA InTurnBetween ==
    ASSUME wave' = << >>, Sorted(plan)',
           \A k \in DOMAIN queue' :
              /\ queue'[k] \in Range(plan)'
              /\ queue'[k].needs \subseteq DOMAIN results' \cup Earlier(queue', k)
    PROVE  InTurn'
<1>1. DOMAIN wave' = {}
  OBVIOUS
<1>2. Ordered'
  BY <1>1 DEF Ordered, Unblocked
<1>3. Folded' /\ Pending'
  BY <1>1 DEF Folded, Pending
<1>. QED  BY <1>2, <1>3 DEF InTurn

\* Both ways to choose a wave choose steps that may run.
LEMMA WaveMayRun ==
    ASSUME TurnInv, Ordered, wave = << >>, queue # << >>
    PROVE  /\ Range(NextWave) \subseteq Range(queue) /\ Unblocked(NextWave)
           /\ Range(CampaignWave) \subseteq Range(queue)
           /\ Unblocked(CampaignWave)
<1>1. IsList(queue) /\ DOMAIN queue = 1..Len(queue) /\ Len(queue) \in Nat
      /\ Len(queue) > 0
  BY ListFacts DEF TurnInv, Gather, IsList
<1>2. IsList(NextWave) /\ Range(NextWave) \subseteq Range(queue)
  BY <1>1, NextWaveIsQueued, ChosenFacts
<1>3. Unblocked(NextWave)
  <2>1. Unblocked(<<Head(queue)>>)
    <3>1. 1 \in DOMAIN queue /\ Head(queue) = queue[1]
      BY <1>1 DEF IsList
    <3>2. Earlier(queue, 1) = {} /\ Ids(wave) = {}
      BY DEF Earlier, Ids
    <3>3. queue[1].needs \subseteq DOMAIN results
      BY <3>1, <3>2 DEF Ordered
    <3>4. \A a \in DOMAIN <<Head(queue)>> : <<Head(queue)>>[a] = queue[1]
      BY <3>1
    <3>. QED  BY <3>3, <3>4 DEF Unblocked
  <2>. QED  BY <1>1, <2>1, ReadyIsChosen DEF NextWave
<1>. DEFINE w == NextWave
            P == {i \in DOMAIN w : Mission(w[i].id).scopes = Mission(w[1].id).scopes}
            v == CampaignWave
<1>4. v = Among(w, P)
  BY DEF CampaignWave
<1>5. w \in Seq(Range(w)) /\ P \in SUBSET (DOMAIN w)
  BY <1>2 DEF IsList
<1>. HIDE DEF w, P, v
<1>6. \A n \in DOMAIN v : \E a \in DOMAIN w : v[n] = w[a]
  <2>1. \A n \in DOMAIN v : Nth(P, n) \in P /\ v[n] = w[Nth(P, n)]
    BY <1>4, <1>5, AmongThese
  <2>. QED  BY <1>5, <2>1
<1>7. Range(v) \subseteq Range(queue) /\ Unblocked(v)
  BY <1>2, <1>3, <1>6 DEF Range, Unblocked, w
<1>. QED  BY <1>2, <1>3, <1>7 DEF v

\* A wave of such steps is started.
LEMMA StartInTurn ==
    ASSUME InTurn, TurnInv, NEW members, Ids(members) \subseteq Ids(queue),
           Range(members) \subseteq Range(queue), Unblocked(members),
           StartWaveOf(members), IsList(members)
    PROVE  InTurn'
<1>1. /\ wave = << >> /\ wave' = members /\ settled' = -1
      /\ queue' = Without(queue, Ids(members))
      /\ UNCHANGED <<plan, drawn, results, done>>
  BY DEF StartWaveOf
<1>2. IsList(queue) /\ Ids(wave) = {} /\ Range(queue) \subseteq Range(plan)
  BY <1>1 DEF InTurn, Ordered, TurnInv, Gather, Ids, Range
<1>3. ASSUME NEW k \in DOMAIN queue'
      PROVE  /\ queue'[k] \in Range(plan)
             /\ queue'[k].needs \subseteq
                   DOMAIN results \cup Ids(members) \cup Earlier(queue', k)
  <2>1. PICK i \in DOMAIN queue :
           /\ queue'[k] = queue[i]
           /\ Earlier(queue, i) \subseteq Ids(members) \cup Earlier(queue', k)
    BY <1>1, <1>2, <1>3, WithoutOrder
  <2>2. /\ queue[i] \in Range(plan)
        /\ queue[i].needs \subseteq DOMAIN results \cup Earlier(queue, i)
    BY <1>2 DEF InTurn, Ordered
  <2>. QED  BY <2>1, <2>2
<1>4. Ordered'
  <2>1. Sorted(plan)' /\ Unblocked(wave)' /\ \A i \in DOMAIN wave' : wave'[i] \in Range(plan)
    BY <1>1, <1>2 DEF InTurn, Ordered, Sorted, Unblocked, Range
  <2>. QED  BY <1>1, <1>3, <2>1 DEF Ordered
<1>5. Folded'
  <2>1. \A i \in DOMAIN members : ~(i <= -1)
    BY ListFacts
  <2>. QED  BY <1>1, <2>1 DEF Folded
<1>6. Pending'
  BY <1>1 DEF Pending, TurnInv, Fresh, Ids
<1>. QED  BY <1>4, <1>5, <1>6 DEF InTurn

\* One member written down.
LEMMA SettleInTurn ==
    ASSUME InTurn, TurnInv, Settle
    PROVE  InTurn'
<1>. DEFINE k == settled + 1
            id == wave[k].id
            c == child[id]
            e == Entry(wave[k], c)
<1>1. /\ settled \in Nat /\ k \in Nat /\ k \in DOMAIN wave /\ settled' = k
      /\ IsList(wave) /\ OneEach(wave)
      /\ \A i \in DOMAIN wave : i \in Nat
  BY ListFacts DEF Settle, TurnInv, Gather
<1>2. /\ done' = Append(done, e) /\ IsList(done)
      /\ UNCHANGED <<plan, drawn, queue, wave, child>>
      /\ results' = IF c.awaiting THEN results
                    ELSE [x \in DOMAIN results \cup {id} |->
                             IF x = id THEN [ok |-> c.ok, plan |-> drawn]
                             ELSE results[x]]
  BY DEF Settle, TurnInv, Written
<1>3. e.id = id /\ (e.outcome # "awaiting_approval" => ~c.awaiting)
  BY DEF Entry
<1>. HIDE DEF e
<1>4. \A i \in DOMAIN wave : i <= k => i = k \/ i <= settled
  BY <1>1
<1>5. \A i \in DOMAIN wave : i # k => wave[i].id # id
  BY <1>1 DEF OneEach
<1>. HIDE DEF k, id, c
<1>6. /\ DOMAIN results \subseteq DOMAIN results'
      /\ \A x \in DOMAIN results : x # id => results'[x] = results[x]
      /\ ~c.awaiting => /\ id \in DOMAIN results' /\ results'[id].ok = c.ok
                        /\ results'[id].plan = drawn
  BY <1>2
<1>7. Ordered'
  BY <1>2, <1>6 DEF InTurn, Ordered, Sorted, Unblocked
<1>8. Folded'
  <2>. SUFFICES ASSUME NEW i \in DOMAIN wave, i <= k,
                       ~child[wave[i].id].awaiting
                PROVE  /\ wave[i].id \in DOMAIN results'
                       /\ results'[wave[i].id].ok = child[wave[i].id].ok
                       /\ results'[wave[i].id].plan = drawn
    BY <1>1, <1>2 DEF Folded
  <2>1. CASE i = k
    BY <1>6, <2>1 DEF id, c
  <2>2. CASE i # k
    BY <1>4, <1>5, <1>6, <2>2 DEF InTurn, Folded
  <2>. QED  BY <2>1, <2>2
<1>9. Pending'
  <2>1. /\ \A j \in DOMAIN done' : j \in DOMAIN done \/ j = Len(done) + 1
        /\ \A j \in DOMAIN done : done'[j] = done[j]
        /\ done'[Len(done) + 1] = e
    BY <1>2, Appended
  <2>2. \A i \in DOMAIN wave : i > k => i > settled /\ i # k
    BY <1>1 DEF k
  <2>. QED  BY <1>1, <1>2, <1>3, <1>5, <2>1, <2>2 DEF InTurn, Pending
<1>. QED  BY <1>7, <1>8, <1>9 DEF InTurn

\* A wave that is settled, waits for nobody and is left behind.
LEMMA WaveEndsInTurn ==
    ASSUME InTurn, TurnInv, Carries \/ Drops
    PROVE  InTurn'
<1>1. /\ settled = Len(wave) /\ ~Awaits /\ wave' = << >>
      /\ UNCHANGED <<plan, results>>
      /\ queue' = queue \/ queue' = << >>
  BY DEF Carries, Drops, WaveIsSettled, WaveEnds, turn
<1>2. Ids(wave) \subseteq DOMAIN results
  <2>1. \A i \in DOMAIN wave : i <= settled /\ wave[i].id \in DOMAIN child
    BY <1>1, ListFacts DEF TurnInv, Gather, Ids
  <2>. QED  BY <1>1, <2>1 DEF InTurn, Folded, Awaits, Ids
<1>3. Sorted(plan')
  BY <1>1 DEF InTurn, Ordered, Sorted
<1>4. ASSUME NEW k \in DOMAIN queue'
      PROVE  /\ queue'[k] \in Range(plan)
             /\ queue'[k].needs \subseteq DOMAIN results \cup Earlier(queue', k)
  <2>1. queue' = queue
    BY <1>1, <1>4
  <2>. QED  BY <1>2, <1>4, <2>1 DEF InTurn, Ordered
<1>. QED  BY <1>1, <1>3, <1>4, InTurnBetween

\* A plan is begun, whole.
LEMMA BeginInTurn ==
    ASSUME TurnInv, pc = "triage", NEW p, Sorted(p), Begin(p)
    PROVE  InTurn'
<1>1. /\ wave = << >> /\ wave' = wave /\ plan' = p /\ queue' = p
  BY DEF Begin, TurnInv, OnDisk, gather
<1>. QED  BY <1>1, InTurnBetween DEF Sorted, Range

\* So is the one drawn in its place.
LEMMA RedrawsInTurn ==
    ASSUME Redraws
    PROVE  InTurn'
<1>1. /\ wave' = << >> /\ plan' \in Redrawn /\ queue' = plan'
  BY DEF Redraws, WaveEnds, Nothing
<1>2. Sorted(plan')
  BY <1>1, StagedAssumption DEF InOrder, Sorted
<1>. QED  BY <1>1, <1>2, InTurnBetween DEF Sorted, Range

\* A process resumes what is left of the plan.
LEMMA ResumesInTurn ==
    ASSUME InTurn, TurnInv, ResumesWith(plan)
    PROVE  InTurn'
<1>1. /\ wave' = << >> /\ plan' = plan
      /\ queue' = Without(plan, DOMAIN results')
  BY DEF ResumesWith, WaveEnds, Nothing
<1>2. IsList(plan) /\ Sorted(plan)
  BY DEF TurnInv, Gather, InTurn, Ordered
<1>3. ASSUME NEW k \in DOMAIN queue'
      PROVE  /\ queue'[k] \in Range(plan)
             /\ queue'[k].needs \subseteq DOMAIN results' \cup Earlier(queue', k)
  <2>1. PICK i \in DOMAIN plan :
           /\ queue'[k] = plan[i]
           /\ Earlier(plan, i) \subseteq DOMAIN results' \cup Earlier(queue', k)
    BY <1>1, <1>2, <1>3, WithoutOrder
  <2>. QED  BY <1>2, <2>1 DEF Sorted, Range
<1>. QED  BY <1>1, <1>2, <1>3, InTurnBetween DEF Sorted

\* Where the turn closes, who was written down is not at work.
LEMMA ClosesInTurn ==
    ASSUME InTurn, TurnInv, Closes
    PROVE  InTurn'
<1>1. UNCHANGED <<plan, drawn, queue, results, done, wave, settled>>
  BY DEF Closes, turn
<1>2. CASE settled = -1
  BY <1>1, <1>2, InTurnKept
<1>3. CASE settled # -1
  <2>1. /\ DOMAIN child = Ids(wave)
        /\ \A id \in DOMAIN child : child'[id] = child[id]
    <3>1. \A id \in DOMAIN child : child[id].at = "back"
      BY <1>3 DEF TurnInv, Gather
    <3>. QED  BY <3>1, ClosesOver DEF TurnInv, Gather
  <2>2. \A i \in DOMAIN wave : child'[wave[i].id] = child[wave[i].id]
    BY <2>1 DEF Ids
  <2>3. Ordered'
    BY <1>1 DEF InTurn, Ordered, Sorted, Unblocked
  <2>4. Folded'
    BY <1>1, <2>2 DEF InTurn, Folded
  <2>5. Pending'
    BY <1>1 DEF InTurn, Pending
  <2>. QED  BY <2>3, <2>4, <2>5 DEF InTurn
<1>. QED  BY <1>2, <1>3

\* Every step of a campaign keeps the order.
LEMMA InTurnStep ==
    ASSUME InTurn, CampInv, OnceNamed, CampaignNext
    PROVE  InTurn'
<1>0. TurnInv
  BY DEF CampInv
<1>1. CASE Settle
  BY <1>0, <1>1, SettleInTurn
<1>2. CASE Carries \/ Drops
  BY <1>0, <1>2, WaveEndsInTurn
<1>3. CASE Redraws
  BY <1>3, RedrawsInTurn
<1>4. CASE DrawsPlan
  <2>1. PICK p \in Plans : Begin(p) /\ pc = "triage"
    BY <1>4 DEF DrawsPlan
  <2>2. Sorted(p)
    BY StagedAssumption DEF InOrder, Sorted
  <2>. QED  BY <1>0, <2>1, <2>2, BeginInTurn
<1>5. CASE runner = "campaign" /\ Begins
  <2>1. Begin(AsPlanSteps(proposal)) /\ pc = "triage" /\ proposal \in Legal
    BY <1>5 DEF Begins, CampInv, Recorded
  <2>2. Sorted(AsPlanSteps(proposal))
    BY <2>1, SortedInOrder
  <2>. QED  BY <1>0, <2>1, <2>2, BeginInTurn
<1>6. CASE StartWave \/ StartCampaignWave
  <2>1. wave = << >> /\ queue # << >> /\ IsList(queue)
    BY <1>0, <1>6 DEF StartWave, StartCampaignWave, StartWaveOf, TurnInv, Gather
  <2>2. /\ IsList(NextWave) /\ Ids(NextWave) \subseteq Ids(queue)
        /\ IsList(CampaignWave) /\ Ids(CampaignWave) \subseteq Ids(queue)
    BY <2>1, WaveIsQueued
  <2>3. /\ Range(NextWave) \subseteq Range(queue) /\ Unblocked(NextWave)
        /\ Range(CampaignWave) \subseteq Range(queue)
        /\ Unblocked(CampaignWave)
    BY <1>0, <2>1, WaveMayRun DEF InTurn
  <2>. QED  BY <1>0, <1>6, <2>2, <2>3, StartInTurn
            DEF StartWave, StartCampaignWave
<1>7. CASE ResumesCampaign \/ (ResumesOther /\ Resumes)
  <2>1. ResumesWith(plan)
    BY <1>7, ResumesThePlan
  <2>. QED  BY <1>0, <2>1, ResumesInTurn
<1>8. CASE \/ \E id \in DOMAIN child :
                 ChildEnds(id) \/ ChildRaises(id) \/ GateReview(id)
           \/ Gathered \/ CampaignGathered
  <2>1. /\ settled = -1 /\ settled' \in {-1, 0}
        /\ UNCHANGED <<plan, drawn, queue, results, done, wave>>
    <3>1. ASSUME NEW id \in DOMAIN child,
                 ChildEnds(id) \/ ChildRaises(id) \/ GateReview(id)
          PROVE  settled = -1 /\ UNCHANGED <<turn, wave, settled>>
      <4>1. child[id].at \in {"running", "cancelled", "gate"}
        BY <3>1 DEF ChildEnds, ChildRaises, GateReview
      <4>2. settled = -1
        BY <1>0, <4>1 DEF TurnInv, Gather
      <4>. QED  BY <3>1, <4>2 DEF ChildEnds, ChildRaises, GateReview
    <3>2. CASE Gathered \/ CampaignGathered
      BY <3>2 DEF Gathered, CampaignGathered, GatheredAs
    <3>. QED  BY <1>8, <3>1, <3>2 DEF turn
  <2>. QED  BY <1>0, <2>1, InTurnKept
<1>9. CASE \/ BoundaryReview \/ Holds \/ StoppedInWave
           \/ Synthesizes \/ StoppedAtEnd
           \/ Stopped({"triage"}) \/ GoesDirect \/ DirectEnds
  <2>1. UNCHANGED <<turn, gather>>
    BY <1>9 DEF BoundaryReview, Holds, StoppedInWave, Synthesizes,
                StoppedAtEnd, Stopped, GoesDirect, DirectEnds
  <2>. QED  BY <1>0, <2>1, InTurnKept DEF turn, gather
<1>10. CASE \/ DeclinesToAsk \/ SpendsTicket \/ TicketIsSpent \/ EditsPlan
            \/ AwaitsApproval \/ StoppedUnasked \/ Remembers
            \/ \E id \in DOMAIN child : WritesExport(id)
  <2>1. UNCHANGED <<turn, gather>>
    BY <1>10 DEF DeclinesToAsk, SpendsTicket, TicketIsSpent, EditsPlan, SaysYes,
                 AwaitsApproval, StoppedUnasked, Stopped, Remembers,
                 WritesExport, vars
  <2>. QED  BY <1>0, <2>1, InTurnKept DEF turn, gather
<1>11. CASE \/ StopArrives \/ Dies \/ ResumesHalfWritten
            \/ (ResumesOther /\ ResumesDirect)
  <2>1. UNCHANGED <<turn, gather>>
    BY <1>11 DEF StopArrives, Dies, ResumesHalfWritten, ResumesDirect
  <2>. QED  BY <1>0, <2>1, InTurnKept DEF turn, gather
<1>12. CASE Closes
  BY <1>0, <1>12, ClosesInTurn
<1>13. CASE StagedSteps
  BY <1>1, <1>2, <1>3, <1>4, <1>6, <1>8, <1>9, <1>12, <1>13, Zenon
     DEF StagedSteps, Steps, Works
<1>14. CASE CampaignSteps
  BY <1>1, <1>2, <1>5, <1>6, <1>8, <1>9, <1>10, <1>12,
     <1>14, Zenon DEF CampaignSteps, Works
<1>15. CASE ResumesOther
  BY <1>7, <1>11, <1>15 DEF ResumesOther
<1>. QED  BY <1>7, <1>10, <1>11, <1>13, <1>14, <1>15 DEF CampaignNext

\* It holds before anything is drawn, and in a step that does nothing.
LEMMA InTurnInit == CampaignInit => InTurn
<1>. SUFFICES ASSUME CampaignInit
              PROVE  InTurn
  OBVIOUS
<1>1. /\ DOMAIN plan = {} /\ DOMAIN queue = {} /\ DOMAIN wave = {}
  BY DEF CampaignInit, Init
<1>. QED  BY <1>1 DEF InTurn, Ordered, Sorted, Unblocked, Folded, Pending

\* One that leaves everything as it is does so too.
LEMMA InTurnStutter ==
    ASSUME InTurn, CampInv, UNCHANGED cvars
    PROVE  InTurn'
BY InTurnKept DEF CampInv, cvars, vars, turn, gather

-----------------------------------------------------------------------------
\* The word for no plan is not the word for one.
NoPlanIsNoList == \A s : IsList(s) => s # NoPlan

\* The checkpoint on the disk, as PlanLog sees it.
LEMMA OnDiskSeen ==
    ASSUME TurnInv, NoPlanIsNoList, meta # NoPlan
    PROVE  /\ meta.plan = plan /\ meta.done = done /\ meta.drawn = drawn
           /\ plan # NoPlan
BY DEF TurnInv, OnDisk, Gather, NoPlanIsNoList

\* A step that leaves it alone.
LEMMA PromiseStands ==
    ASSUME meta' = meta
    PROVE  UNCHANGED Promise!vars
BY DEF Promise!vars, Settled

\* What the promise counts as settled is what is on the checkpoint with a
\* word that is not a wait.
LEMMA SettledSeen ==
    ASSUME TurnInv, meta # NoPlan, meta.done = done, NEW id, NEW n
    PROVE  id \in Promise!SettledUnder(n) <=>
              \E j \in DOMAIN done :
                 /\ done[j].id = id /\ done[j].plan = n
                 /\ done[j].outcome # "awaiting_approval"
<1>. DEFINE s == Settled(done)
<1>1. IsList(done) /\ \A i \in DOMAIN done :
         done[i].outcome \in {"ok", "failed", "awaiting_approval"}
  BY DEF TurnInv, Written, IsEntry
<1>2. /\ \A k \in DOMAIN s : \E i \in DOMAIN done :
            s[k] = done[i] /\ done[i].outcome \in {"ok", "failed"}
      /\ \A i \in DOMAIN done : done[i].outcome \in {"ok", "failed"}
            => \E k \in DOMAIN s : s[k] = done[i]
  BY <1>1, SettledList
<1>3. Promise!SettledUnder(n) = {s[i].id : i \in {j \in DOMAIN s : s[j].plan = n}}
  BY DEF Promise!SettledUnder
<1>. HIDE DEF s
<1>. QED  BY <1>1, <1>2, <1>3

\* The first plan of the turn is drawn.
LEMMA BeginKeepsPromise ==
    ASSUME TurnInv, NoPlanIsNone, pc = "triage", NEW p, Begin(p),
           p \in Plans \cup {AsPlanSteps(q) : q \in Legal}
    PROVE  Promise!Draw
<1>1. /\ meta = NoPlan
      /\ meta' = [plan |-> p, done |-> << >>, replanned |-> FALSE, drawn |-> 0]
  BY DEF Begin, Checkpoint, TurnInv, OnDisk
<1>2. meta' # NoPlan /\ meta'.plan = p /\ meta'.done = << >> /\ meta'.drawn = 0
  BY <1>1, NoPlanIsNone DEF NoPlanIsNone
<1>3. Settled(<< >>) = << >>
  <2>1. IsList(<< >>) /\ DOMAIN << >> = {}
    BY DEF IsList
  <2>2. IsList(Settled(<< >>)) /\ DOMAIN Settled(<< >>) = {}
    BY <2>1, SettledList
  <2>3. Len(Settled(<< >>)) = 0
    BY <2>2, ListFacts
  <2>. QED  BY <2>1, <2>2, <2>3, SameList
<1>4. Settled(meta'.done) = << >>
  BY <1>2, <1>3
<1>. QED  BY <1>1, <1>2, <1>4 DEF Promise!Draw

\* One member is written down: a step of the plan not settled under it, after
\* those it needs; or a wait, which settles nothing.
LEMMA SettleKeepsPromise ==
    ASSUME TurnInv, InTurn, UnderPlan, NoPlanIsNone, NoPlanIsNoList, Settle
    PROVE  Promise!SettleOne \/ UNCHANGED Promise!vars
<1>. DEFINE k == settled + 1
            step == wave[k]
            c == child[step.id]
            e == Entry(step, c)
<1>1. /\ k \in DOMAIN wave /\ k > settled /\ meta # NoPlan
      /\ UNCHANGED <<plan, drawn>>
      /\ done' = Append(done, e) /\ meta' = [meta EXCEPT !.done = done']
      /\ IsList(done)
  BY ListFacts DEF Settle, TurnInv, Gather, OnDisk, Written
<1>2. /\ meta.plan = plan /\ meta.done = done /\ meta.drawn = drawn
      /\ plan # NoPlan
  BY <1>1, OnDiskSeen
<1>3. /\ meta' # NoPlan /\ meta'.plan = plan /\ meta'.drawn = drawn
      /\ meta'.done = done'
  BY <1>1 DEF TurnInv, OnDisk, NoPlanIsNone
<1>4. Settled(meta'.done) =
         IF e.outcome \in {"ok", "failed"} THEN Append(Settled(done), e)
         ELSE Settled(done)
  <2>. HIDE DEF e
  <2>. QED  BY <1>1, <1>3, SettledGrows
<1>5. CASE c.awaiting
  <2>1. e.outcome = "awaiting_approval"
    BY <1>5 DEF Entry
  <2>2. Settled(meta'.done) = Settled(meta.done)
    BY <1>2, <1>4, <2>1
  <2>. QED  BY <1>1, <1>2, <1>3, <2>2 DEF Promise!vars
<1>6. CASE ~c.awaiting
  <2>1. PICK word \in {"ok", "failed"} :
           e = [id |-> step.id, plan |-> drawn, outcome |-> word]
    BY <1>6 DEF Entry
  <2>2. Settled(meta'.done) = Append(Settled(meta.done), e)
    BY <1>2, <1>4, <2>1
  <2>3. PICK i \in DOMAIN plan : plan[i] = step
    BY <1>1 DEF InTurn, Ordered, Range
  <2>4. plan[i].id \notin Promise!SettledUnder(drawn)
    BY <1>1, <1>2, <2>3, SettledSeen DEF InTurn, Pending
  <2>5. ASSUME NEW x \in plan[i].needs
        PROVE  x \in Promise!SettledUnder(drawn)
    <3>1. x \in DOMAIN results
      BY <1>1, <2>3, <2>5 DEF InTurn, Ordered, Unblocked
    <3>2. x \in Ids(plan)
      <4>1. x \in Earlier(plan, i) /\ DOMAIN plan = 1..Len(plan) /\ Len(plan) \in Nat
        BY <2>5, ListFacts DEF InTurn, Ordered, Sorted, TurnInv, Gather
      <4>. QED  BY <4>1 DEF Earlier, Ids
    <3>3. PICK j \in DOMAIN done :
             done[j].id = x /\ done[j].outcome \in {"ok", "failed"}
      BY <3>1 DEF TurnInv, Written
    <3>4. done[j].plan = drawn
      BY <3>2, <3>3 DEF UnderPlan
    <3>. QED  BY <1>1, <1>2, <3>3, <3>4, SettledSeen
  <2>. HIDE DEF e, step
  <2>6. Promise!SettleOne
    BY <1>1, <1>2, <1>3, <2>1, <2>2, <2>3, <2>4, <2>5 DEF Promise!SettleOne
  <2>. QED  BY <2>6
<1>. QED  BY <1>5, <1>6

\* The plan is redrawn around a step that failed under it.
LEMMA RedrawsKeepsPromise ==
    ASSUME TurnInv, InTurn, NoPlanIsNone, NoPlanIsNoList, Redraws
    PROVE  Promise!Redraw
<1>1. /\ meta # NoPlan /\ settled = Len(wave) /\ ~Awaits /\ Failures # {}
      /\ plan' \in Redrawn /\ drawn' = drawn + 1
      /\ meta' = [meta EXCEPT !.plan = plan', !.replanned = TRUE,
                              !.drawn = drawn + 1]
  BY DEF Redraws, WaveIsSettled, TurnInv, OnDisk
<1>2. /\ meta.plan = plan /\ meta.done = done /\ meta.drawn = drawn
      /\ plan # NoPlan
  BY <1>1, OnDiskSeen
<1>3. /\ meta' # NoPlan /\ meta'.plan = plan' /\ meta'.drawn = drawn + 1
      /\ meta'.done = done
  <2>1. PICK so : so = TRUE
    OBVIOUS
  <2>2. meta = [plan |-> plan, done |-> done, replanned |-> replanned,
                drawn |-> drawn]
    BY <1>1 DEF TurnInv, OnDisk
  <2>3. meta' = [plan |-> plan', done |-> done, replanned |-> so,
                 drawn |-> drawn + 1]
    BY <1>1, <2>1, <2>2
  <2>. QED  BY <2>3 DEF NoPlanIsNone
<1>4. PICK i \in DOMAIN wave : ~child[wave[i].id].ok
  BY <1>1 DEF Failures
<1>5. i <= settled /\ wave[i].id \in DOMAIN child
  BY <1>1, ListFacts DEF TurnInv, Gather, Ids
<1>6. /\ wave[i].id \in DOMAIN results /\ ~results[wave[i].id].ok
      /\ results[wave[i].id].plan = drawn
  BY <1>1, <1>4, <1>5 DEF InTurn, Folded, Awaits
<1>7. PICK j \in DOMAIN done : done[j].plan = drawn /\ done[j].outcome = "failed"
  BY <1>6 DEF TurnInv, Written
<1>8. \E n \in DOMAIN Settled(done) : Settled(done)[n] = done[j]
  BY <1>7, SettledList DEF TurnInv, Written
<1>9. UNCHANGED Settled(meta.done)
  BY <1>2, <1>3
<1>. QED  BY <1>1, <1>2, <1>3, <1>7, <1>8, <1>9 DEF Promise!Redraw

\* A process that resumes writes the checkpoint again, without the waits.
LEMMA ResumesKeepsPromise ==
    ASSUME TurnInv, NoPlanIsNone, NoPlanIsNoList, ResumesWith(plan)
    PROVE  UNCHANGED Promise!vars
<1>1. /\ meta # NoPlan /\ done' = Settled(meta.done)
      /\ meta' = [plan |-> plan, done |-> done', replanned |-> meta.replanned,
                  drawn |-> meta.drawn]
  BY DEF ResumesWith, Checkpoint
<1>2. /\ meta.plan = plan /\ meta.done = done /\ meta.drawn = drawn
  BY <1>1, OnDiskSeen
<1>3. /\ meta' # NoPlan /\ meta'.plan = plan /\ meta'.drawn = drawn
      /\ meta'.done = Settled(done)
  BY <1>1, <1>2 DEF NoPlanIsNone
<1>4. Settled(meta'.done) = Settled(meta.done)
  BY <1>2, <1>3, SettledAgain DEF TurnInv, Written
<1>. QED  BY <1>1, <1>2, <1>3, <1>4 DEF Promise!vars

\* Nothing else writes it.
LEMMA PromiseStep ==
    ASSUME CampInv, InTurn, UnderPlan, NoPlanIsNone, NoPlanIsNoList,
           CampaignNext
    PROVE  [Promise!Next]_(Promise!vars)
<1>0. TurnInv
  BY DEF CampInv
<1>1. CASE Settle
  BY <1>0, <1>1, SettleKeepsPromise DEF Promise!Next
<1>2. CASE Redraws
  BY <1>0, <1>2, RedrawsKeepsPromise DEF Promise!Next
<1>3. CASE DrawsPlan
  <2>1. PICK p \in Plans : Begin(p) /\ pc = "triage"
    BY <1>3 DEF DrawsPlan
  <2>. QED  BY <1>0, <2>1, BeginKeepsPromise DEF Promise!Next
<1>4. CASE runner = "campaign" /\ Begins
  <2>1. Begin(AsPlanSteps(proposal)) /\ pc = "triage" /\ proposal \in Legal
    BY <1>4 DEF Begins, CampInv, Recorded
  <2>. QED  BY <1>0, <2>1, BeginKeepsPromise DEF Promise!Next
<1>5. CASE ResumesCampaign \/ (ResumesOther /\ Resumes)
  <2>1. ResumesWith(plan)
    BY <1>5, ResumesThePlan
  <2>. QED  BY <1>0, <2>1, ResumesKeepsPromise
<1>6. CASE \/ \E id \in DOMAIN child :
                 ChildEnds(id) \/ ChildRaises(id) \/ GateReview(id)
           \/ BoundaryReview
           \/ Holds \/ Carries \/ StoppedInWave \/ Drops
           \/ Synthesizes \/ StoppedAtEnd \/ Closes
           \/ Stopped({"triage"}) \/ GoesDirect \/ DirectEnds
           \/ StartWave \/ Gathered
  <2>1. meta' = meta
    BY <1>6 DEF ChildEnds, GateReview, BoundaryReview, ChildRaises, Holds,
                Carries, StoppedInWave, Drops, Synthesizes, StoppedAtEnd,
                Closes, Stopped, GoesDirect, DirectEnds, StartWave,
                StartWaveOf, Gathered, GatheredAs, disk
  <2>. QED  BY <2>1, PromiseStands
<1>7. CASE \/ DeclinesToAsk \/ SpendsTicket \/ TicketIsSpent \/ EditsPlan
           \/ AwaitsApproval \/ StoppedUnasked \/ Remembers
           \/ StartCampaignWave \/ CampaignGathered
           \/ \E id \in DOMAIN child : WritesExport(id)
  <2>1. meta' = meta
    BY <1>7 DEF DeclinesToAsk, SpendsTicket, TicketIsSpent, EditsPlan, SaysYes,
                AwaitsApproval, StoppedUnasked, Stopped, Remembers,
                StartCampaignWave, StartWaveOf, CampaignGathered, GatheredAs,
                WritesExport, vars, disk
  <2>. QED  BY <2>1, PromiseStands
<1>8. CASE \/ StopArrives \/ Dies \/ ResumesHalfWritten
           \/ (ResumesOther /\ ResumesDirect)
  <2>1. meta' = meta
    BY <1>8 DEF StopArrives, Dies, ResumesHalfWritten, ResumesDirect, disk
  <2>. QED  BY <2>1, PromiseStands
<1>9. CASE StagedSteps
  BY <1>1, <1>2, <1>3, <1>6, <1>9, Zenon DEF StagedSteps, Steps, Works
<1>10. CASE CampaignSteps
  BY <1>1, <1>4, <1>6, <1>7, <1>10, Zenon DEF CampaignSteps, Works
<1>11. CASE ResumesOther
  BY <1>5, <1>8, <1>11 DEF ResumesOther
<1>. QED  BY <1>5, <1>7, <1>8, <1>9, <1>10, <1>11 DEF CampaignNext

\* Seen from the disk, a turn whose waves run side by side and whose processes
\* die settles one plan's steps once each, after those they need, redraws it
\* only around a failure, and loses nothing it has settled: _checkpoint in
\* swarm.py and what resume.py makes of it keep PlanLog's promise, for any
\* plans and any waves.  A proposal that names a dependency twice is outside
\* it: its steps do not come out of toposort in the order they need.
THEOREM CheckpointKeepsItsPromise ==
    (NoPlanIsNone /\ NoPlanIsNoList /\ ~NamesAgain /\ OnceNamed)
        => (CampaignSpec => CheckpointIsAPlanLog)
<1>. SUFFICES ASSUME NoPlanIsNone, NoPlanIsNoList, ~NamesAgain, OnceNamed
              PROVE  CampaignSpec => CheckpointIsAPlanLog
  OBVIOUS
<1>1. CampaignInit => AnsweredInv /\ InTurn
  BY InTurnInit DEF CampaignInit, Init, AnsweredInv, Words, UnderPlan,
                    AnsweredIsTheWholePlan
<1>2. AnsweredInv /\ UNCHANGED cvars => AnsweredInv'
  BY AnsweredKept DEF cvars, vars, turn, AnsweredInv, Words
<1>3. CampInv /\ AnsweredInv /\ InTurn /\ [CampaignNext]_cvars
         => CampInv' /\ AnsweredInv' /\ InTurn'
  BY <1>2, CampStep, CampStutter, AnsweredStep, InTurnStep, InTurnStutter
<1>4. CampaignInit => Promise!Init
  BY DEF CampaignInit, Init, Promise!Init
<1>5. CampInv /\ AnsweredInv /\ InTurn /\ [CampaignNext]_cvars
         => [Promise!Next]_(Promise!vars)
  <2>1. UNCHANGED cvars => meta' = meta
    BY DEF cvars, vars, disk
  <2>. QED  BY <2>1, PromiseStep, PromiseStands DEF AnsweredInv
<1>. QED  BY <1>1, <1>3, <1>4, <1>5, CampInit, PTL
          DEF CampaignSpec, CheckpointIsAPlanLog, Promise!Spec

=============================================================================
