--------------------------- MODULE ApprovalsProofs --------------------------
(***************************************************************************)
(* What the gate keeps for every set of runs, requests, deciders and       *)
(* sweepers.  The first theorem holds whatever accidents happen; the later *)
(* ones where store operations do not overlap and a ticket is not shared.  *)
(***************************************************************************)
EXTENDS Approvals, TLAPS

\* Where a run is while one of its store operations is half done: it operates
\* on the request it carries and on no other.
RunsOperateOnTheirOwn ==
  \A r \in Runs : op[r] # NoOp =>
    /\ op[r].id = at[r]
    /\ pc[r] \in {"gate", "decided"} \/ (pc[r] = "work" /\ r \in ticketed)

\* Everything that can still turn into a call has had its yes.
YesInv ==
  /\ TypeOK
  /\ RunsOperateOnTheirOwn
  /\ \A a \in Requests : state[a] \in {"approved", "spent"} => a \in yes
  /\ \A x \in Actors : op[x].kind = "consume" => op[x].id \in yes
  /\ \A r \in ticketed : at[r] \in yes /\ pc[r] # "unborn"
  /\ flagged \subseteq ticketed
  /\ \A r \in Runs : pc[r] \in {"gate", "decided"} => at[r] \in Requests
  /\ \A r \in Runs : pc[r] = "dispatch" => at[r] \in yes
  /\ NothingRunsWithoutYes

-----------------------------------------------------------------------------
Kinds == {"approve", "refuse", "consume", "abandon"}

\* What each kind of operation checks and writes, case by case.
LEMMA Operations ==
  /\ Written("approve") = "approved" /\ Written("refuse") = "refused"
  /\ Written("consume") = "spent" /\ Written("abandon") = "abandoned"
  /\ \A s : /\ Checks("approve", s) <=> s \notin Resolved
            /\ Checks("refuse", s) <=> s \notin Resolved
            /\ Checks("abandon", s) <=> s \notin Resolved
            /\ Checks("consume", s) <=> s = "approved"
  BY DEF Written, Checks, MayDecide, MayConsume, MayAbandon

\* An operation that is not the idle one has a kind and a request.
LEMMA OpType ==
  ASSUME TypeOK, NEW x \in Actors, op[x] # NoOp
  PROVE  op[x].kind \in Kinds /\ op[x].id \in Requests
  BY DEF TypeOK, Ops, Kinds

LEMMA IdleKind == NoOp.kind = "none"
  BY DEF NoOp

\* A begun operation names a request whose state passed the check.
LEMMA BeginType ==
  ASSUME TypeOK, NEW x \in Actors, NEW kind \in Kinds, NEW a \in Requests,
         Begin(x, kind, a)
  PROVE  /\ op' \in [Actors -> Ops]
         /\ op'[x].kind = kind /\ op'[x].id = a
         /\ op'[x] # NoOp
         /\ \A y \in Actors \ {x} : op'[y] = op[y]
         /\ op[x] = NoOp
         /\ Checks(kind, state[a]) /\ state[a] # "none"
<1>1. [kind |-> kind, id |-> a] \in Ops
  BY DEF Ops, Kinds
<1>2. [kind |-> kind, id |-> a] # NoOp
  BY DEF NoOp, Kinds
<1> QED BY <1>1, <1>2 DEF TypeOK, Begin, Idle

\* A committed operation rewrites its own request and leaves its process idle.
LEMMA CommitType ==
  ASSUME TypeOK, NEW x \in Actors, op[x] # NoOp, Commit(x)
  PROVE  /\ op' \in [Actors -> Ops] /\ state' \in [Requests -> States]
         /\ yes' \in SUBSET Requests
         /\ op'[x] = NoOp /\ \A y \in Actors \ {x} : op'[y] = op[y]
         /\ op[x].id \in Requests /\ op[x].kind \in Kinds
         /\ state'[op[x].id] = Written(op[x].kind)
         /\ \A a \in Requests : a # op[x].id => state'[a] = state[a]
<1>1. op[x].id \in Requests /\ op[x].kind \in Kinds
  BY OpType
<1>2. Written(op[x].kind) \in States
  BY <1>1, Operations DEF Kinds, States
<1>3. NoOp \in Ops
  BY DEF Ops
<1> QED BY <1>1, <1>2, <1>3 DEF TypeOK, Commit

-----------------------------------------------------------------------------
\* A yes before every call: each step keeps YesInv.

LEMMA RunTypes ==
  ASSUME TypeOK, NEW r \in Runs
  PROVE  /\ r \in Actors
         /\ \A label \in RunPC : Goto(r, label) =>
              /\ pc' \in [Runs -> RunPC] /\ pc'[r] = label
              /\ \A q \in Runs \ {r} : pc'[q] = pc[q]
  BY DEF TypeOK, Actors, Goto

\* A process that is no run's own leaves every run where it was.
LEMMA OutsiderTypes ==
  ASSUME NEW x \in Deciders \cup Sweepers
  PROVE  x \in Actors /\ x \notin Runs
  BY ActorsAssumption DEF Actors

\* Steps that begin or drop an operation and commit none.
LEMMA BeginYes ==
  ASSUME YesInv, NEW x \in Actors, NEW kind \in Kinds, NEW a \in Requests,
         Begin(x, kind, a)
  PROVE  \A y \in Actors : op'[y].kind = "consume" => op'[y].id \in yes
<1>1. kind = "consume" => a \in yes
  BY BeginType, Operations DEF YesInv
<1> QED BY <1>1, BeginType DEF YesInv

\* A commit makes a request approved only with a yes, and spent only after one.
LEMMA CommitYes ==
  ASSUME YesInv, NEW x \in Actors, op[x] # NoOp, Commit(x)
  PROVE  /\ \A a \in Requests : state'[a] \in {"approved", "spent"} => a \in yes'
         /\ \A y \in Actors : op'[y].kind = "consume" => op'[y].id \in yes'
         /\ yes \subseteq yes'
<1>1. yes \subseteq yes'
  BY DEF Commit
<1>2. \A y \in Actors : op'[y].kind = "consume" => op'[y].id \in yes'
  BY <1>1, CommitType, IdleKind DEF YesInv
<1>3. ASSUME NEW a \in Requests, state'[a] \in {"approved", "spent"}
      PROVE  a \in yes'
  <2>1. CASE a # op[x].id
    BY <1>1, <1>3, <2>1, CommitType DEF YesInv
  <2>2. CASE a = op[x].id
    <3>1. op[x].kind \in {"approve", "consume"}
      <4>1. state'[a] = Written(op[x].kind) /\ op[x].kind \in Kinds
        BY <2>2, CommitType DEF YesInv
      <4> QED BY <1>3, <4>1, Operations DEF Kinds
    <3>2. CASE op[x].kind = "approve"
      BY <2>2, <3>2 DEF Commit
    <3>3. CASE op[x].kind = "consume"
      BY <1>1, <2>2, <3>3 DEF YesInv
    <3> QED BY <3>1, <3>2, <3>3
  <2> QED BY <2>1, <2>2
<1> QED BY <1>1, <1>2, <1>3

LEMMA RunYes ==
  ASSUME YesInv, NEW r \in Runs, RunStep(r)
  PROVE  YesInv'
<1>0. r \in Actors /\ TypeOK
  BY RunTypes DEF YesInv
<1>1. CASE Start(r)
  BY <1>0, <1>1, RunTypes
  DEF YesInv, TypeOK, RunsOperateOnTheirOwn, NothingRunsWithoutYes, Start, RunPC, record, sweep
<1>2. ASSUME NEW a \in Requests, StartWith(r, a)
      PROVE  YesInv'
  <2>1. a \in yes
    BY <1>2 DEF YesInv, StartWith, MayConsume
  <2> QED
    BY <1>0, <1>2, <2>1, RunTypes
    DEF YesInv, TypeOK, RunsOperateOnTheirOwn, NothingRunsWithoutYes, StartWith, RunPC, record, sweep
<1>3. ASSUME NEW a \in Requests, Ask(r, a)
      PROVE  YesInv'
  BY <1>0, <1>3, RunTypes
  DEF YesInv, TypeOK, RunsOperateOnTheirOwn, NothingRunsWithoutYes, Ask, RunPC, States, sweep
<1>4. ASSUME NEW kind \in {"approve", "refuse"}, Answer(r, kind)
      PROVE  YesInv'
  <2>1. CASE Begin(r, kind, at[r]) /\ UNCHANGED pc
    <3>1. kind \in Kinds /\ at[r] \in Requests
      BY <1>4 DEF Kinds, YesInv, Answer
    <3>2. \A y \in Actors : op'[y].kind = "consume" => op'[y].id \in yes
      BY <1>0, <2>1, <3>1, BeginYes
    <3>3. /\ op' \in [Actors -> Ops] /\ op'[r].id = at[r]
          /\ \A y \in Actors \ {r} : op'[y] = op[y]
      BY <1>0, <2>1, <3>1, BeginType
    <3>4. TypeOK'
      BY <1>0, <1>4, <2>1, <3>3 DEF YesInv, TypeOK, Answer, record, sweep
    <3>5. RunsOperateOnTheirOwn'
      BY <1>0, <1>4, <2>1, <3>3 DEF YesInv, RunsOperateOnTheirOwn, Answer, Actors
    <3> QED
      BY <1>4, <2>1, <3>2, <3>4, <3>5
      DEF YesInv, NothingRunsWithoutYes, Answer, record, sweep
  <2>2. CASE Denied(r, kind, at[r]) /\ Goto(r, "ended") /\ UNCHANGED op
    <3>1. op[r] = NoOp
      BY <2>2 DEF Denied, Idle
    <3> QED
      BY <1>0, <1>4, <2>2, <3>1, RunTypes
      DEF YesInv, TypeOK, RunsOperateOnTheirOwn, NothingRunsWithoutYes, Answer, RunPC, record, sweep
  <2> QED BY <1>4, <2>1, <2>2 DEF Answer
<1>5. CASE Answered(r)
  <2>1. op[r] # NoOp /\ Commit(r)
    BY <1>5 DEF Answered, Idle
  <2>2. op[r].id = at[r] /\ op[r].kind \in Kinds
    BY <1>0, <2>1, OpType DEF YesInv, RunsOperateOnTheirOwn
  <2>3. /\ op' \in [Actors -> Ops] /\ state' \in [Requests -> States]
        /\ yes' \in SUBSET Requests
        /\ op'[r] = NoOp /\ \A y \in Actors \ {r} : op'[y] = op[y]
    BY <1>0, <2>1, CommitType
  <2>4. pc' \in [Runs -> RunPC] /\ \A q \in Runs \ {r} : pc'[q] = pc[q]
    BY <1>0, <1>5 DEF TypeOK, Answered, Goto, RunPC
  <2>5. TypeOK'
    BY <1>0, <1>5, <2>1, <2>3, <2>4 DEF TypeOK, Answered, Commit, sweep
  <2>6. RunsOperateOnTheirOwn'
    BY <1>0, <1>5, <2>3, <2>4 DEF YesInv, RunsOperateOnTheirOwn, Answered, Actors
  <2>7. \A q \in Runs : pc'[q] = "dispatch" => at'[q] \in yes'
    BY <1>0, <1>5, <2>1, <2>2, <2>4, CommitYes DEF YesInv, TypeOK, Answered, Goto
  <2>8. \A q \in ticketed' : at'[q] \in yes' /\ pc'[q] # "unborn"
    BY <1>0, <1>5, <2>1, <2>4, CommitYes DEF YesInv, TypeOK, Answered, Goto
  <2>10. \A q \in Runs : pc'[q] \in {"gate", "decided"} => at'[q] \in Requests
    BY <1>0, <1>5, <2>1, <2>2, <2>4, OpType DEF YesInv, TypeOK, Answered, Goto
  <2>9. NothingRunsWithoutYes' /\ flagged' \subseteq ticketed'
    BY <1>0, <1>5, <2>1, CommitYes DEF YesInv, NothingRunsWithoutYes, Answered
  <2> QED BY <1>0, <2>1, <2>5, <2>6, <2>7, <2>8, <2>9, <2>10, CommitYes DEF YesInv
<1>6. CASE GiveUp(r)
  BY <1>0, <1>6, RunTypes
  DEF YesInv, TypeOK, RunsOperateOnTheirOwn, NothingRunsWithoutYes, GiveUp, WhenNobodyAnswers, RunPC, Idle, record, sweep
<1>7. CASE SpendAnswer(r)
  <2>1. CASE Begin(r, "consume", at[r]) /\ UNCHANGED pc
    <3>1. "consume" \in Kinds /\ at[r] \in Requests
      BY <1>7, <2>1, <1>0 DEF Kinds, YesInv, SpendAnswer
    <3>2. \A y \in Actors : op'[y].kind = "consume" => op'[y].id \in yes
      BY <1>0, <2>1, <3>1, BeginYes
    <3>3. /\ op' \in [Actors -> Ops] /\ op'[r].id = at[r]
          /\ \A y \in Actors \ {r} : op'[y] = op[y]
      BY <1>0, <2>1, <3>1, BeginType
    <3>4. TypeOK'
      BY <1>0, <1>7, <2>1, <3>3 DEF YesInv, TypeOK, SpendAnswer, record, sweep
    <3>5. RunsOperateOnTheirOwn'
      BY <1>0, <1>7, <2>1, <3>3 DEF YesInv, RunsOperateOnTheirOwn, SpendAnswer, Actors
    <3> QED
      BY <1>7, <2>1, <3>2, <3>4, <3>5
      DEF YesInv, NothingRunsWithoutYes, SpendAnswer, record, sweep
  <2>2. CASE Denied(r, "consume", at[r]) /\ Goto(r, "ended") /\ UNCHANGED op
    <3>1. op[r] = NoOp
      BY <2>2 DEF Denied, Idle
    <3> QED
      BY <1>0, <1>7, <2>2, <3>1, RunTypes
      DEF YesInv, TypeOK, RunsOperateOnTheirOwn, NothingRunsWithoutYes, SpendAnswer, RunPC, record, sweep
  <2> QED BY <1>7, <2>1, <2>2 DEF SpendAnswer
<1>8. CASE SpendTicket(r)
  <2>1. CASE Begin(r, "consume", at[r]) /\ UNCHANGED pc
    <3>1. "consume" \in Kinds /\ at[r] \in Requests
      BY <1>8, <2>1, <1>0 DEF Kinds, YesInv, SpendTicket, TypeOK
    <3>2. \A y \in Actors : op'[y].kind = "consume" => op'[y].id \in yes
      BY <1>0, <2>1, <3>1, BeginYes
    <3>3. /\ op' \in [Actors -> Ops] /\ op'[r].id = at[r]
          /\ \A y \in Actors \ {r} : op'[y] = op[y]
      BY <1>0, <2>1, <3>1, BeginType
    <3>4. TypeOK'
      BY <1>0, <1>8, <2>1, <3>3 DEF YesInv, TypeOK, SpendTicket, record, sweep
    <3>5. RunsOperateOnTheirOwn'
      BY <1>0, <1>8, <2>1, <3>3 DEF YesInv, RunsOperateOnTheirOwn, SpendTicket, Actors
    <3> QED
      BY <1>8, <2>1, <3>2, <3>4, <3>5
      DEF YesInv, NothingRunsWithoutYes, SpendTicket, record, sweep
  <2>2. CASE Denied(r, "consume", at[r]) /\ Goto(r, "failing") /\ UNCHANGED op
    <3>1. op[r] = NoOp
      BY <2>2 DEF Denied, Idle
    <3> QED
      BY <1>0, <1>8, <2>2, <3>1, RunTypes
      DEF YesInv, TypeOK, RunsOperateOnTheirOwn, NothingRunsWithoutYes, SpendTicket, RunPC, record, sweep
  <2> QED BY <1>8, <2>1, <2>2 DEF SpendTicket
<1>9. CASE Spent(r)
  <2>1. op[r] # NoOp /\ Commit(r)
    BY <1>9 DEF Spent, Idle
  <2>2. op[r].id = at[r] /\ op[r].kind \in Kinds
    BY <1>0, <2>1, OpType DEF YesInv, RunsOperateOnTheirOwn
  <2>3. /\ op' \in [Actors -> Ops] /\ state' \in [Requests -> States]
        /\ yes' \in SUBSET Requests
        /\ op'[r] = NoOp /\ \A y \in Actors \ {r} : op'[y] = op[y]
    BY <1>0, <2>1, CommitType
  <2>4. pc' \in [Runs -> RunPC] /\ \A q \in Runs \ {r} : pc'[q] = pc[q]
    BY <1>0, <1>9 DEF TypeOK, Spent, Goto, RunPC
  <2>5. TypeOK'
    BY <1>0, <1>9, <2>1, <2>3, <2>4 DEF TypeOK, Spent, Commit, sweep
  <2>6. RunsOperateOnTheirOwn'
    BY <1>0, <1>9, <2>3, <2>4 DEF YesInv, RunsOperateOnTheirOwn, Spent, Actors
  <2>7. \A q \in Runs : pc'[q] = "dispatch" => at'[q] \in yes'
    BY <1>0, <1>9, <2>1, <2>2, <2>4, CommitYes DEF YesInv, TypeOK, Spent, Goto
  <2>8. \A q \in ticketed' : at'[q] \in yes' /\ pc'[q] # "unborn"
    BY <1>0, <1>9, <2>1, <2>4, CommitYes DEF YesInv, TypeOK, Spent, Goto
  <2>10. \A q \in Runs : pc'[q] \in {"gate", "decided"} => at'[q] \in Requests
    BY <1>0, <1>9, <2>1, <2>2, <2>4, OpType DEF YesInv, TypeOK, Spent, Goto
  <2>9. NothingRunsWithoutYes' /\ flagged' \subseteq ticketed'
    BY <1>0, <1>9, <2>1, CommitYes DEF YesInv, NothingRunsWithoutYes, Spent
  <2> QED BY <1>0, <2>1, <2>5, <2>6, <2>7, <2>8, <2>9, <2>10, CommitYes DEF YesInv
<1>10. CASE Dispatch(r)
  BY <1>0, <1>10, RunTypes
  DEF YesInv, TypeOK, RunsOperateOnTheirOwn, NothingRunsWithoutYes, Dispatch, RunPC, record, sweep
<1>11. CASE CallAgain(r)
  BY <1>0, <1>11
  DEF YesInv, TypeOK, RunsOperateOnTheirOwn, NothingRunsWithoutYes, CallAgain, record, run, sweep
<1>12. CASE Finish(r)
  BY <1>0, <1>12, RunTypes
  DEF YesInv, TypeOK, RunsOperateOnTheirOwn, NothingRunsWithoutYes, Finish, RunPC, Idle, record, sweep
<1>13. CASE Die(r)
  BY <1>0, <1>13, RunTypes, IdleKind
  DEF YesInv, TypeOK, RunsOperateOnTheirOwn, NothingRunsWithoutYes, Die, RunPC, Ops, record, sweep
<1> QED
  BY <1>1, <1>2, <1>3, <1>4, <1>5, <1>6, <1>7, <1>8, <1>9, <1>10, <1>11, <1>12, <1>13
  DEF RunStep

\* What a process that is no run's own does to a request leaves YesInv.
LEMMA OutsiderBeginYes ==
  ASSUME YesInv, NEW x \in Deciders \cup Sweepers, NEW kind \in Kinds,
         NEW a \in Requests, Begin(x, kind, a),
         UNCHANGED <<record, run, yes, ran>>,
         orphan' \in [Sweepers -> Runs \cup {None}],
         todo' \in [Sweepers -> SUBSET Requests]
  PROVE  YesInv'
<1>0. x \in Actors /\ x \notin Runs /\ Runs \subseteq Actors
  BY OutsiderTypes DEF Actors
<1>1. /\ op' \in [Actors -> Ops] /\ \A y \in Actors \ {x} : op'[y] = op[y]
  BY <1>0, BeginType DEF YesInv
<1>2. \A y \in Actors : op'[y].kind = "consume" => op'[y].id \in yes
  BY <1>0, BeginYes
<1>3. TypeOK'
  BY <1>1 DEF YesInv, TypeOK, record, run
<1>4. RunsOperateOnTheirOwn'
  BY <1>0, <1>1 DEF YesInv, RunsOperateOnTheirOwn, run
<1> QED BY <1>2, <1>3, <1>4 DEF YesInv, NothingRunsWithoutYes, record, run

LEMMA OutsiderCommitYes ==
  ASSUME YesInv, NEW x \in Deciders \cup Sweepers, op[x] # NoOp, Commit(x),
         UNCHANGED <<run, ran>>,
         orphan' \in [Sweepers -> Runs \cup {None}],
         todo' \in [Sweepers -> SUBSET Requests]
  PROVE  YesInv'
<1>0. x \in Actors /\ x \notin Runs /\ Runs \subseteq Actors
  BY OutsiderTypes DEF Actors
<1>1. /\ op' \in [Actors -> Ops] /\ state' \in [Requests -> States]
      /\ yes' \in SUBSET Requests
      /\ \A y \in Actors \ {x} : op'[y] = op[y]
  BY <1>0, CommitType DEF YesInv
<1>2. /\ \A a \in Requests : state'[a] \in {"approved", "spent"} => a \in yes'
      /\ \A y \in Actors : op'[y].kind = "consume" => op'[y].id \in yes'
      /\ yes \subseteq yes'
  BY <1>0, CommitYes
<1>3. TypeOK'
  BY <1>1 DEF YesInv, TypeOK, Commit, run
<1>4. RunsOperateOnTheirOwn'
  BY <1>0, <1>1 DEF YesInv, RunsOperateOnTheirOwn, run
<1> QED BY <1>2, <1>3, <1>4 DEF YesInv, NothingRunsWithoutYes, run

LEMMA DeciderYes ==
  ASSUME YesInv, NEW d \in Deciders, DeciderStep(d)
  PROVE  YesInv'
<1>0. /\ orphan \in [Sweepers -> Runs \cup {None}]
      /\ todo \in [Sweepers -> SUBSET Requests]
      /\ d \in Deciders \cup Sweepers
  BY DEF YesInv, TypeOK
<1>1. ASSUME NEW kind \in {"approve", "refuse"}, NEW a \in Requests, Decide(d, kind, a)
      PROVE  YesInv'
  <2>1. kind \in Kinds
    BY DEF Kinds
  <2> QED BY <1>0, <1>1, <2>1, OutsiderBeginYes DEF Decide, sweep
<1>2. CASE Decided(d)
  BY <1>0, <1>2, OutsiderCommitYes DEF Decided, Idle, sweep
<1> QED BY <1>1, <1>2 DEF DeciderStep

LEMMA SweeperYes ==
  ASSUME YesInv, NEW s \in Sweepers, SweeperStep(s)
  PROVE  YesInv'
<1>0. /\ orphan \in [Sweepers -> Runs \cup {None}]
      /\ todo \in [Sweepers -> SUBSET Requests]
      /\ s \in Deciders \cup Sweepers /\ s \in Actors
  BY DEF YesInv, TypeOK, Actors
<1>1. ASSUME NEW r \in Runs, CloseOrphan(s, r)
      PROVE  YesInv'
  BY <1>0, <1>1, RunTypes
  DEF YesInv, TypeOK, RunsOperateOnTheirOwn, NothingRunsWithoutYes, CloseOrphan, RunPC, record
<1>2. CASE List(s)
  BY <1>0, <1>2
  DEF YesInv, TypeOK, RunsOperateOnTheirOwn, NothingRunsWithoutYes, List, Withdrawable, record, run
<1>3. ASSUME NEW a \in Requests, Withdraw(s, a)
      PROVE  YesInv'
  <2>1. CASE Begin(s, "abandon", a) /\ UNCHANGED todo
    <3>1. "abandon" \in Kinds
      BY DEF Kinds
    <3> QED BY <1>0, <1>3, <2>1, <3>1, OutsiderBeginYes DEF Withdraw
  <2>2. CASE UNCHANGED op /\ todo' = [todo EXCEPT ![s] = @ \ {a}]
    BY <1>0, <1>3, <2>2
    DEF YesInv, TypeOK, RunsOperateOnTheirOwn, NothingRunsWithoutYes, Withdraw, record, run
  <2> QED BY <1>3, <2>1, <2>2 DEF Withdraw
<1>4. CASE Withdrawn(s)
  <2>1. todo' \in [Sweepers -> SUBSET Requests]
    BY <1>0, <1>4 DEF Withdrawn
  <2> QED BY <1>0, <1>4, <2>1, OutsiderCommitYes DEF Withdrawn, Idle
<1>5. CASE SweeperDeath(s)
  <2>1. s \notin Runs /\ NoOp \in Ops
    BY <1>0, OutsiderTypes DEF Ops
  <2>2. op' \in [Actors -> Ops] /\ \A r \in Runs : op'[r] = op[r]
    BY <1>0, <1>5, <2>1 DEF YesInv, TypeOK, SweeperDeath
  <2>3. \A y \in Actors : op'[y].kind = "consume" => op'[y].id \in yes
    BY <1>0, <1>5, IdleKind DEF YesInv, TypeOK, SweeperDeath
  <2>4. TypeOK'
    BY <1>0, <1>5, <2>2 DEF YesInv, TypeOK, SweeperDeath, record, run
  <2> QED
    BY <1>5, <2>2, <2>3, <2>4
    DEF YesInv, RunsOperateOnTheirOwn, NothingRunsWithoutYes, SweeperDeath, record, run
<1> QED BY <1>1, <1>2, <1>3, <1>4, <1>5 DEF SweeperStep

LEMMA InitYes ==
  ASSUME Init
  PROVE  YesInv
<1>1. NoOp \in Ops
  BY DEF Ops
<1>2. TypeOK
  BY <1>1 DEF Init, TypeOK, States, RunPC
<1>3. \A x \in Actors : op[x] = NoOp
  BY DEF Init
<1>4. RunsOperateOnTheirOwn
  BY <1>3 DEF RunsOperateOnTheirOwn, Actors
<1>5. \A r \in Runs : pc[r] = "unborn"
  BY DEF Init
<1>6. \A a \in Requests : state[a] = "none"
  BY DEF Init
<1> QED
  BY <1>2, <1>3, <1>4, <1>5, <1>6, IdleKind DEF Init, YesInv, NothingRunsWithoutYes

LEMMA YesStep ==
  ASSUME YesInv, [Next]_vars
  PROVE  YesInv'
<1>1. ASSUME NEW r \in Runs, RunStep(r)
      PROVE  YesInv'
  BY <1>1, RunYes
<1>2. ASSUME NEW d \in Deciders, DeciderStep(d)
      PROVE  YesInv'
  BY <1>2, DeciderYes
<1>3. ASSUME NEW s \in Sweepers, SweeperStep(s)
      PROVE  YesInv'
  BY <1>3, SweeperYes
<1>4. CASE UNCHANGED vars
  BY <1>4
  DEF YesInv, TypeOK, RunsOperateOnTheirOwn, NothingRunsWithoutYes, vars, record, run, sweep
<1> QED BY <1>1, <1>2, <1>3, <1>4 DEF Next

\* Every variable of the gate has its type in every reachable state; no record
\* is ever in a state the store has no word for.
THEOREM ApprovalsTypeCorrect == Spec => []TypeOK
<1>1. Init => YesInv
  BY InitYes
<1>2. YesInv /\ [Next]_vars => YesInv'
  BY YesStep
<1>3. YesInv => TypeOK
  BY DEF YesInv
<1> QED BY <1>1, <1>2, <1>3, PTL DEF Spec

\* Whatever overlaps, whoever dies and however many children share a ticket, a
\* gated call is made only under a request somebody said yes to.
THEOREM YesBeforeCall == Spec => []NothingRunsWithoutYes
<1>1. Init => YesInv
  BY InitYes
<1>2. YesInv /\ [Next]_vars => YesInv'
  BY YesStep
<1>3. YesInv => NothingRunsWithoutYes
  BY DEF YesInv
<1> QED BY <1>1, <1>2, <1>3, PTL DEF Spec

-----------------------------------------------------------------------------
\* One call per yes, where store operations do not overlap and a ticket is not
\* shared.  A run has the right to call under a request once it has spent it.

Right(r, a) ==
  \/ <<r, a>> \in ran
  \/ at[r] = a /\ pc[r] = "dispatch"
  \/ at[r] = a /\ pc[r] = "work" /\ r \in flagged /\ op[r] = NoOp

OneAtATime == \A x, y \in Actors : op[x] # NoOp /\ op[y] # NoOp => x = y

\* What an operation checked still holds when it comes to write.
StillTrue ==
  \A x \in Actors : op[x] # NoOp =>
    Checks(op[x].kind, state[op[x].id]) /\ state[op[x].id] # "none"

RightsAreSpent ==
  /\ \A r \in Runs, a \in Requests : Right(r, a) => state[a] = "spent"
  /\ \A q, r \in Runs, a \in Requests : Right(q, a) /\ Right(r, a) => q = r

SpendInv ==
  /\ YesInv
  /\ OneAtATime /\ StillTrue /\ RightsAreSpent
  /\ \A r \in ticketed : pc[r] \notin {"gate", "decided"}

\* A step that changes no record and gives no run a right keeps the rights.
LEMMA QuietRights ==
  ASSUME SpendInv, state' = state,
         \A r \in Runs, a \in Requests : Right(r, a)' => Right(r, a)
  PROVE  RightsAreSpent'
  BY DEF SpendInv, RightsAreSpent

LEMMA BeginOps ==
  ASSUME SpendInv, Overlap = FALSE, NEW x \in Actors, NEW kind \in Kinds,
         NEW a \in Requests, Begin(x, kind, a), state' = state
  PROVE  OneAtATime' /\ StillTrue'
<1>1. /\ op'[x].kind = kind /\ op'[x].id = a
      /\ \A y \in Actors \ {x} : op'[y] = op[y]
      /\ Checks(kind, state[a]) /\ state[a] # "none"
  BY BeginType DEF SpendInv, YesInv
<1>2. \A y \in Actors : op[y] = NoOp
  BY DEF Begin, Idle
<1> QED BY <1>1, <1>2 DEF OneAtATime, StillTrue, Checks

LEMMA SameOps ==
  ASSUME SpendInv, state' = state, NEW x \in Actors,
         op' = op \/ op' = [op EXCEPT ![x] = NoOp]
  PROVE  OneAtATime' /\ StillTrue'
<1>1. \A y \in Actors : op'[y] = op[y] \/ op'[y] = NoOp
  BY DEF SpendInv, YesInv, TypeOK
<1> QED BY <1>1 DEF SpendInv, OneAtATime, StillTrue, Checks

\* A commit leaves every process idle, and touches no spent request.
LEMMA CommitOps ==
  ASSUME SpendInv, NEW x \in Actors, op[x] # NoOp, Commit(x)
  PROVE  /\ OneAtATime' /\ StillTrue'
         /\ \A r \in Runs : ~Right(r, op[x].id)
         /\ \A a \in Requests : state[a] = "spent" => state'[a] = "spent"
         /\ \A y \in Actors : op'[y] = NoOp
<1>1. \A y \in Actors : op'[y] = NoOp
  BY CommitType DEF SpendInv, YesInv, OneAtATime
<1>2. op[x].id \in Requests /\ op[x].kind \in Kinds
  BY OpType DEF SpendInv, YesInv
<1>3. state[op[x].id] # "spent"
  BY <1>2, Operations DEF SpendInv, StillTrue, Kinds, Resolved
<1>4. \A a \in Requests : state[a] = "spent" => state'[a] = "spent"
  BY <1>3, CommitType DEF SpendInv, YesInv
<1>5. \A r \in Runs : ~Right(r, op[x].id)
  BY <1>2, <1>3 DEF SpendInv, RightsAreSpent
<1> QED BY <1>1, <1>4, <1>5 DEF OneAtATime, StillTrue

LEMMA QuietCommit ==
  ASSUME SpendInv, NEW x \in Actors, op[x] # NoOp, Commit(x),
         \A r \in Runs, a \in Requests : Right(r, a)' => Right(r, a)
  PROVE  RightsAreSpent'
  BY CommitOps DEF SpendInv, RightsAreSpent

LEMMA RunSpend ==
  ASSUME SpendInv, Overlap = FALSE, Parallel = FALSE, NEW r \in Runs, RunStep(r)
  PROVE  SpendInv'
<1>0. r \in Actors /\ TypeOK /\ YesInv' /\ Runs \subseteq Actors
  BY RunTypes, RunYes DEF SpendInv, YesInv, Actors
<1>1. CASE Start(r)
  <2>1. \A q \in Runs, b \in Requests : Right(q, b)' => Right(q, b)
    BY <1>0, <1>1, RunTypes DEF Right, Start, RunPC, SpendInv, YesInv, record, run
  <2>2. OneAtATime' /\ StillTrue' /\ RightsAreSpent'
    BY <1>0, <1>1, <2>1, SameOps, QuietRights DEF Start, record
  <2>3. \A q \in ticketed' : pc'[q] \notin {"gate", "decided"}
    BY <1>0, <1>1 DEF SpendInv, Start, Goto, run, TypeOK
  <2> QED BY <1>0, <2>2, <2>3 DEF SpendInv
<1>2. ASSUME NEW a \in Requests, StartWith(r, a)
      PROVE  SpendInv'
  <2>1. r \notin flagged /\ pc'[r] = "work" /\ \A q \in Runs \ {r} : pc'[q] = pc[q]
    BY <1>0, <1>2 DEF SpendInv, YesInv, StartWith, Goto, TypeOK
  <2>2. \A q \in Runs, b \in Requests : Right(q, b)' => Right(q, b)
    BY <1>0, <1>2, <2>1 DEF Right, StartWith, TypeOK
  <2>3. OneAtATime' /\ StillTrue' /\ RightsAreSpent'
    BY <1>0, <1>2, <2>2, SameOps, QuietRights DEF StartWith, record
  <2>4. \A q \in ticketed' : pc'[q] \notin {"gate", "decided"}
    BY <1>0, <1>2, <2>1 DEF SpendInv, StartWith, TypeOK
  <2> QED BY <1>0, <2>3, <2>4 DEF SpendInv
<1>3. ASSUME NEW a \in Requests, Ask(r, a)
      PROVE  SpendInv'
  <2>1. /\ state[a] = "none" /\ state'[a] = "pending"
        /\ \A b \in Requests \ {a} : state'[b] = state[b]
    BY <1>0, <1>3 DEF Ask, TypeOK
  <2>2. \A q \in Runs, b \in Requests : Right(q, b)' => Right(q, b)
    BY <1>0, <1>3 DEF Right, Ask, Goto, TypeOK
  <2>3. OneAtATime' /\ StillTrue'
    <3>1. op' = op
      BY <1>3 DEF Ask
    <3>2. \A x \in Actors : op[x] # NoOp => op[x].id \in Requests \ {a}
      BY <1>0, <2>1, OpType DEF SpendInv, StillTrue
    <3> QED BY <2>1, <3>1, <3>2 DEF SpendInv, OneAtATime, StillTrue, Checks
  <2>4. RightsAreSpent'
    BY <2>1, <2>2 DEF SpendInv, RightsAreSpent
  <2>5. \A q \in ticketed' : pc'[q] \notin {"gate", "decided"}
    BY <1>0, <1>3 DEF SpendInv, Ask, Goto, TypeOK
  <2> QED BY <1>0, <2>3, <2>4, <2>5 DEF SpendInv
<1>4. ASSUME NEW kind \in {"approve", "refuse"}, Answer(r, kind)
      PROVE  SpendInv'
  <2>1. kind \in Kinds /\ at[r] \in Requests
    BY <1>0, <1>4 DEF Kinds, SpendInv, YesInv, TypeOK, Answer
  <2>2. OneAtATime' /\ StillTrue'
    BY <1>0, <1>4, <2>1, BeginOps, SameOps DEF Answer, record
  <2>3. \A q \in Runs, b \in Requests : Right(q, b)' => Right(q, b)
    <3>1. CASE Begin(r, kind, at[r]) /\ UNCHANGED pc
      <4>1. op'[r] # NoOp /\ op[r] = NoOp /\ \A y \in Actors \ {r} : op'[y] = op[y]
        BY <1>0, <2>1, <3>1, BeginType
      <4> QED BY <1>0, <1>4, <3>1, <4>1 DEF Right, Answer, SpendInv, YesInv, Actors
    <3>2. CASE UNCHANGED op /\ (Goto(r, "ended") \/ Goto(r, "failing"))
      BY <1>0, <1>4, <3>2 DEF Right, Answer, Goto, TypeOK, SpendInv, YesInv
    <3> QED BY <1>4, <3>1, <3>2 DEF Answer
  <2>4. RightsAreSpent'
    BY <1>4, <2>3, QuietRights DEF Answer, record
  <2>5. \A q \in ticketed' : pc'[q] \notin {"gate", "decided"}
    BY <1>0, <1>4 DEF SpendInv, Answer, Goto, TypeOK
  <2> QED BY <1>0, <2>2, <2>4, <2>5 DEF SpendInv
<1>5. CASE Answered(r)
  <2>1. op[r] # NoOp /\ Commit(r) /\ r \notin ticketed
    BY <1>0, <1>5 DEF Answered, Idle, SpendInv
  <2>2. \A q \in Runs, b \in Requests : Right(q, b)' => Right(q, b)
    <3>1. r \notin flagged /\ \A q \in Runs \ {r} : op'[q] = op[q] /\ pc'[q] = pc[q]
      BY <1>0, <1>5, <2>1, CommitType DEF SpendInv, YesInv, Answered, Goto, TypeOK
    <3>2. pc'[r] # "dispatch"
      BY <1>0, <1>5 DEF Answered, Goto, TypeOK
    <3> QED BY <1>5, <3>1, <3>2 DEF Right, Answered
  <2>3. OneAtATime' /\ StillTrue' /\ RightsAreSpent'
    BY <1>0, <2>1, <2>2, CommitOps, QuietCommit
  <2>4. \A q \in ticketed' : pc'[q] \notin {"gate", "decided"}
    BY <1>0, <1>5, <2>1 DEF SpendInv, Answered, Goto, TypeOK
  <2> QED BY <1>0, <2>3, <2>4 DEF SpendInv
<1>6. CASE GiveUp(r)
  <2>1. \A q \in Runs, b \in Requests : Right(q, b)' => Right(q, b)
    BY <1>0, <1>6, RunTypes DEF Right, GiveUp, RunPC, SpendInv, YesInv, record, run, WhenNobodyAnswers
  <2>2. OneAtATime' /\ StillTrue' /\ RightsAreSpent'
    BY <1>0, <1>6, <2>1, SameOps, QuietRights DEF GiveUp, record
  <2>3. \A q \in ticketed' : pc'[q] \notin {"gate", "decided"}
    BY <1>0, <1>6 DEF SpendInv, GiveUp, Goto, run, TypeOK
  <2> QED BY <1>0, <2>2, <2>3 DEF SpendInv
<1>7. CASE SpendAnswer(r)
  <2>1. "consume" \in Kinds /\ at[r] \in Requests
    BY <1>0, <1>7 DEF Kinds, SpendInv, YesInv, TypeOK, SpendAnswer
  <2>2. OneAtATime' /\ StillTrue'
    BY <1>0, <1>7, <2>1, BeginOps, SameOps DEF SpendAnswer, record
  <2>3. \A q \in Runs, b \in Requests : Right(q, b)' => Right(q, b)
    <3>1. CASE Begin(r, "consume", at[r]) /\ UNCHANGED pc
      <4>1. op'[r] # NoOp /\ op[r] = NoOp /\ \A y \in Actors \ {r} : op'[y] = op[y]
        BY <1>0, <2>1, <3>1, BeginType
      <4> QED BY <1>0, <1>7, <3>1, <4>1 DEF Right, SpendAnswer, SpendInv, YesInv, Actors
    <3>2. CASE UNCHANGED op /\ (Goto(r, "ended") \/ Goto(r, "failing"))
      BY <1>0, <1>7, <3>2 DEF Right, SpendAnswer, Goto, TypeOK, SpendInv, YesInv
    <3> QED BY <1>7, <3>1, <3>2 DEF SpendAnswer
  <2>4. RightsAreSpent'
    BY <1>7, <2>3, QuietRights DEF SpendAnswer, record
  <2>5. \A q \in ticketed' : pc'[q] \notin {"gate", "decided"}
    BY <1>0, <1>7 DEF SpendInv, SpendAnswer, Goto, TypeOK
  <2> QED BY <1>0, <2>2, <2>4, <2>5 DEF SpendInv
<1>8. CASE SpendTicket(r)
  <2>1. "consume" \in Kinds /\ at[r] \in Requests
    BY <1>0, <1>8 DEF Kinds, SpendInv, YesInv, TypeOK, SpendTicket
  <2>2. OneAtATime' /\ StillTrue'
    BY <1>0, <1>8, <2>1, BeginOps, SameOps DEF SpendTicket, record
  <2>3. \A q \in Runs, b \in Requests : Right(q, b)' => Right(q, b)
    <3>1. CASE Begin(r, "consume", at[r]) /\ UNCHANGED pc
      <4>1. op'[r] # NoOp /\ op[r] = NoOp /\ \A y \in Actors \ {r} : op'[y] = op[y]
        BY <1>0, <2>1, <3>1, BeginType
      <4> QED BY <1>0, <1>8, <3>1, <4>1 DEF Right, SpendTicket, SpendInv, YesInv, Actors
    <3>2. CASE UNCHANGED op /\ (Goto(r, "ended") \/ Goto(r, "failing"))
      BY <1>0, <1>8, <3>2 DEF Right, SpendTicket, Goto, TypeOK, SpendInv, YesInv
    <3> QED BY <1>8, <3>1, <3>2 DEF SpendTicket
  <2>4. RightsAreSpent'
    BY <1>8, <2>3, QuietRights DEF SpendTicket, record
  <2>5. \A q \in ticketed' : pc'[q] \notin {"gate", "decided"}
    BY <1>0, <1>8 DEF SpendInv, SpendTicket, Goto, TypeOK
  <2> QED BY <1>0, <2>2, <2>4, <2>5 DEF SpendInv
<1>9. CASE Spent(r)
  <2>1. op[r] # NoOp /\ Commit(r) /\ op[r].kind = "consume" /\ op[r].id = at[r]
    BY <1>0, <1>9 DEF Spent, Idle, SpendInv, YesInv, RunsOperateOnTheirOwn
  <2>2. at[r] \in Requests /\ state'[at[r]] = "spent"
    BY <1>0, <2>1, CommitType, Operations
  <2>3. \A q \in Runs, b \in Requests :
          Right(q, b)' => Right(q, b) \/ (q = r /\ b = at[r])
    <3>1. \A q \in Runs \ {r} : op'[q] = op[q] /\ pc'[q] = pc[q]
      BY <1>0, <1>9, <2>1, CommitType DEF Spent, Goto, TypeOK
    <3> QED BY <1>9, <3>1 DEF Right, Spent
  <2>4. RightsAreSpent'
    <3>1. \A q \in Runs : ~Right(q, at[r])
      BY <1>0, <2>1, CommitOps
    <3>2. \A b \in Requests : state[b] = "spent" => state'[b] = "spent"
      BY <1>0, <2>1, CommitOps
    <3> QED BY <2>2, <2>3, <3>1, <3>2 DEF SpendInv, RightsAreSpent
  <2>5. OneAtATime' /\ StillTrue'
    BY <1>0, <2>1, CommitOps
  <2>6. \A q \in ticketed' : pc'[q] \notin {"gate", "decided"}
    BY <1>0, <1>9 DEF SpendInv, Spent, Goto, TypeOK
  <2> QED BY <1>0, <2>4, <2>5, <2>6 DEF SpendInv
<1>10. CASE Dispatch(r)
  <2>1. \A q \in Runs, b \in Requests : Right(q, b)' => Right(q, b)
    BY <1>0, <1>10, RunTypes DEF Right, Dispatch, RunPC, SpendInv, YesInv, record, run
  <2>2. OneAtATime' /\ StillTrue' /\ RightsAreSpent'
    BY <1>0, <1>10, <2>1, SameOps, QuietRights DEF Dispatch, record
  <2>3. \A q \in ticketed' : pc'[q] \notin {"gate", "decided"}
    BY <1>0, <1>10 DEF SpendInv, Dispatch, Goto, run, TypeOK
  <2> QED BY <1>0, <2>2, <2>3 DEF SpendInv
<1>11. CASE CallAgain(r)
  <2>1. \A q \in Runs, b \in Requests : Right(q, b)' => Right(q, b)
    BY <1>0, <1>11, RunTypes DEF Right, CallAgain, RunPC, SpendInv, YesInv, record, run, Idle
  <2>2. OneAtATime' /\ StillTrue' /\ RightsAreSpent'
    BY <1>0, <1>11, <2>1, SameOps, QuietRights DEF CallAgain, record
  <2>3. \A q \in ticketed' : pc'[q] \notin {"gate", "decided"}
    BY <1>0, <1>11 DEF SpendInv, CallAgain, Goto, run, TypeOK
  <2> QED BY <1>0, <2>2, <2>3 DEF SpendInv
<1>12. CASE Finish(r)
  <2>1. \A q \in Runs, b \in Requests : Right(q, b)' => Right(q, b)
    BY <1>0, <1>12, RunTypes DEF Right, Finish, RunPC, SpendInv, YesInv, record, run
  <2>2. OneAtATime' /\ StillTrue' /\ RightsAreSpent'
    BY <1>0, <1>12, <2>1, SameOps, QuietRights DEF Finish, record
  <2>3. \A q \in ticketed' : pc'[q] \notin {"gate", "decided"}
    BY <1>0, <1>12 DEF SpendInv, Finish, Goto, run, TypeOK
  <2> QED BY <1>0, <2>2, <2>3 DEF SpendInv
<1>13. CASE Die(r)
  <2>1. \A q \in Runs, b \in Requests : Right(q, b)' => Right(q, b)
    BY <1>0, <1>13, RunTypes DEF Right, Die, RunPC, SpendInv, YesInv, record, run
  <2>2. OneAtATime' /\ StillTrue' /\ RightsAreSpent'
    BY <1>0, <1>13, <2>1, SameOps, QuietRights DEF Die, record
  <2>3. \A q \in ticketed' : pc'[q] \notin {"gate", "decided"}
    BY <1>0, <1>13 DEF SpendInv, Die, Goto, run, TypeOK
  <2> QED BY <1>0, <2>2, <2>3 DEF SpendInv
<1> QED
  BY <1>1, <1>2, <1>3, <1>4, <1>5, <1>6, <1>7, <1>8, <1>9, <1>10, <1>11, <1>12, <1>13
  DEF RunStep

\* A process that is no run's own gives no run a right.
LEMMA OutsiderRights ==
  ASSUME NEW x \in Deciders \cup Sweepers,
         \A y \in Actors \ {x} : op'[y] = op[y], UNCHANGED <<run, ran>>
  PROVE  \A r \in Runs, a \in Requests : Right(r, a)' => Right(r, a)
<1>1. \A r \in Runs : op'[r] = op[r]
  BY OutsiderTypes DEF Actors
<1> QED BY <1>1 DEF Right, run

LEMMA OutsiderBegin ==
  ASSUME SpendInv, Overlap = FALSE, NEW x \in Deciders \cup Sweepers,
         NEW kind \in Kinds, NEW a \in Requests, Begin(x, kind, a),
         UNCHANGED <<record, run, ran>>, YesInv'
  PROVE  SpendInv'
<1>0. x \in Actors /\ TypeOK /\ state' = state
  BY OutsiderTypes DEF SpendInv, YesInv, record
<1>1. \A y \in Actors \ {x} : op'[y] = op[y]
  BY <1>0, BeginType
<1>2. RightsAreSpent'
  BY <1>0, <1>1, OutsiderRights, QuietRights
<1>3. OneAtATime' /\ StillTrue'
  BY <1>0, BeginOps
<1> QED BY <1>2, <1>3 DEF SpendInv, run

LEMMA OutsiderCommit ==
  ASSUME SpendInv, NEW x \in Deciders \cup Sweepers, op[x] # NoOp, Commit(x),
         UNCHANGED <<run, ran>>, YesInv'
  PROVE  SpendInv'
<1>0. x \in Actors /\ TypeOK
  BY OutsiderTypes DEF SpendInv, YesInv
<1>1. \A y \in Actors \ {x} : op'[y] = op[y]
  BY <1>0, CommitType
<1>2. RightsAreSpent'
  BY <1>0, <1>1, OutsiderRights, QuietCommit
<1>3. OneAtATime' /\ StillTrue'
  BY <1>0, CommitOps
<1> QED BY <1>2, <1>3 DEF SpendInv, run

LEMMA DeciderSpend ==
  ASSUME SpendInv, Overlap = FALSE, NEW d \in Deciders, DeciderStep(d)
  PROVE  SpendInv'
<1>0. d \in Deciders \cup Sweepers /\ YesInv'
  BY DeciderYes DEF SpendInv
<1>1. ASSUME NEW kind \in {"approve", "refuse"}, NEW a \in Requests, Decide(d, kind, a)
      PROVE  SpendInv'
  <2>1. kind \in Kinds
    BY DEF Kinds
  <2> QED BY <1>0, <1>1, <2>1, OutsiderBegin DEF Decide
<1>2. CASE Decided(d)
  BY <1>0, <1>2, OutsiderCommit DEF Decided, Idle
<1> QED BY <1>1, <1>2 DEF DeciderStep

LEMMA SweeperSpend ==
  ASSUME SpendInv, Overlap = FALSE, NEW s \in Sweepers, SweeperStep(s)
  PROVE  SpendInv'
<1>0. s \in Deciders \cup Sweepers /\ s \in Actors /\ YesInv' /\ TypeOK
  BY SweeperYes DEF SpendInv, YesInv, Actors
<1>1. ASSUME NEW r \in Runs, CloseOrphan(s, r)
      PROVE  SpendInv'
  <2>1. \A q \in Runs, b \in Requests : Right(q, b)' => Right(q, b)
    BY <1>0, <1>1 DEF Right, CloseOrphan, Goto, TypeOK
  <2>2. OneAtATime' /\ StillTrue' /\ RightsAreSpent'
    BY <1>0, <1>1, <2>1, SameOps, QuietRights DEF CloseOrphan, record
  <2>3. \A q \in ticketed' : pc'[q] \notin {"gate", "decided"}
    BY <1>0, <1>1 DEF SpendInv, CloseOrphan, Goto, TypeOK
  <2> QED BY <1>0, <2>2, <2>3 DEF SpendInv
<1>2. ASSUME op' = op \/ op' = [op EXCEPT ![s] = NoOp], UNCHANGED <<record, run, ran>>
      PROVE  SpendInv'
  <2>1. \A y \in Actors \ {s} : op'[y] = op[y]
    BY <1>0, <1>2 DEF TypeOK
  <2>2. OneAtATime' /\ StillTrue' /\ RightsAreSpent'
    BY <1>0, <1>2, <2>1, SameOps, OutsiderRights, QuietRights DEF record
  <2> QED BY <1>0, <1>2, <2>2 DEF SpendInv, run
<1>3. CASE List(s)
  BY <1>2, <1>3 DEF List
<1>4. ASSUME NEW a \in Requests, Withdraw(s, a)
      PROVE  SpendInv'
  <2>1. CASE Begin(s, "abandon", a)
    <3>1. "abandon" \in Kinds
      BY DEF Kinds
    <3> QED BY <1>0, <1>4, <2>1, <3>1, OutsiderBegin DEF Withdraw
  <2>2. CASE UNCHANGED op
    BY <1>2, <1>4, <2>2 DEF Withdraw
  <2> QED BY <1>4, <2>1, <2>2 DEF Withdraw
<1>5. CASE Withdrawn(s)
  BY <1>0, <1>5, OutsiderCommit DEF Withdrawn, Idle
<1>6. CASE SweeperDeath(s)
  BY <1>2, <1>6 DEF SweeperDeath
<1> QED BY <1>1, <1>3, <1>4, <1>5, <1>6 DEF SweeperStep

LEMMA InitSpend ==
  ASSUME Init
  PROVE  SpendInv
<1>1. YesInv
  BY InitYes
<1>2. \A x \in Actors : op[x] = NoOp
  BY DEF Init
<1>3. \A r \in Runs, a \in Requests : ~Right(r, a)
  BY DEF Init, Right
<1> QED
  BY <1>1, <1>2, <1>3 DEF Init, SpendInv, OneAtATime, StillTrue, RightsAreSpent

LEMMA SpendStep ==
  ASSUME SpendInv, Overlap = FALSE, Parallel = FALSE, [Next]_vars
  PROVE  SpendInv'
<1>1. ASSUME NEW r \in Runs, RunStep(r)
      PROVE  SpendInv'
  BY <1>1, RunSpend
<1>2. ASSUME NEW d \in Deciders, DeciderStep(d)
      PROVE  SpendInv'
  BY <1>2, DeciderSpend
<1>3. ASSUME NEW s \in Sweepers, SweeperStep(s)
      PROVE  SpendInv'
  BY <1>3, SweeperSpend
<1>4. CASE UNCHANGED vars
  <2>1. YesInv'
    BY <1>4, YesStep DEF SpendInv
  <2> QED
    BY ZenonT(40), <1>4, <2>1
    DEF SpendInv, OneAtATime, StillTrue, RightsAreSpent, Right, Checks, vars, record, run
<1> QED BY <1>1, <1>2, <1>3, <1>4 DEF Next

\* Two runs never call the gated tool on the strength of one yes.
THEOREM OneCallerPerYes ==
  ASSUME Overlap = FALSE, Parallel = FALSE
  PROVE  Spec => []OneRunPerYes
<1>1. Init => SpendInv
  BY InitSpend
<1>2. SpendInv /\ [Next]_vars => SpendInv'
  BY SpendStep
<1>3. SpendInv => OneRunPerYes
  <2> SUFFICES ASSUME SpendInv, NEW c \in ran, NEW d \in ran, c[2] = d[2]
               PROVE  c[1] = d[1]
    BY DEF OneRunPerYes
  <2>1. /\ c = <<c[1], c[2]>> /\ c[1] \in Runs /\ c[2] \in Requests
        /\ d = <<d[1], d[2]>> /\ d[1] \in Runs
    BY DEF SpendInv, YesInv, TypeOK
  <2>2. Right(c[1], c[2]) /\ Right(d[1], c[2])
    BY <2>1 DEF Right
  <2> QED BY <2>1, <2>2 DEF SpendInv, RightsAreSpent
<1> QED BY <1>1, <1>2, <1>3, PTL DEF Spec

\* Every gated call that was made stands in the store as spent, for good.
THEOREM EveryCallIsSpent ==
  ASSUME Overlap = FALSE, Parallel = FALSE
  PROVE  Spec => []CallsAreSpent
<1>1. Init => SpendInv
  BY InitSpend
<1>2. SpendInv /\ [Next]_vars => SpendInv'
  BY SpendStep
<1>3. SpendInv => CallsAreSpent
  <2> SUFFICES ASSUME SpendInv, NEW c \in ran
               PROVE  state[c[2]] = "spent"
    BY DEF CallsAreSpent
  <2>1. c = <<c[1], c[2]>> /\ c[1] \in Runs /\ c[2] \in Requests
    BY DEF SpendInv, YesInv, TypeOK
  <2>2. Right(c[1], c[2])
    BY <2>1 DEF Right
  <2> QED BY <2>1, <2>2 DEF SpendInv, RightsAreSpent
<1> QED BY <1>1, <1>2, <1>3, PTL DEF Spec

\* The answer a person gave is never given again and never overwritten: a yes
\* can only be spent, and a no stays a no.
THEOREM AnswersStand ==
  ASSUME Overlap = FALSE, Parallel = FALSE
  PROVE  Spec => PersonStands
<1> DEFINE Stands ==
      \A a \in Requests : state[a] \in {"approved", "refused"} =>
        \/ state'[a] = state[a]
        \/ state[a] = "approved" /\ state'[a] = "spent"
<1>1. Init => SpendInv
  BY InitSpend
<1>2. SpendInv /\ [Next]_vars => SpendInv'
  BY SpendStep
<1>3. SpendInv /\ [Next]_vars => [Stands]_vars
  <2> SUFFICES ASSUME SpendInv, Next
               PROVE  Stands
    OBVIOUS
  <2>1. CASE state' = state
    BY <2>1
  <2>2. ASSUME NEW r \in Runs, NEW b \in Requests, Ask(r, b)
        PROVE  Stands
    BY <2>2 DEF Ask, SpendInv, YesInv, TypeOK
  <2>3. ASSUME NEW x \in Actors, op[x] # NoOp, Commit(x)
        PROVE  Stands
    <3>1. op[x].id \in Requests /\ op[x].kind \in Kinds
      BY <2>3, OpType DEF SpendInv, YesInv
    <3>2. Checks(op[x].kind, state[op[x].id])
      BY <2>3 DEF SpendInv, StillTrue
    <3>3. \/ state[op[x].id] \notin Resolved
          \/ state[op[x].id] = "approved" /\ state'[op[x].id] = "spent"
      BY <2>3, <3>1, <3>2, CommitType, Operations DEF Kinds, SpendInv, YesInv
    <3> QED BY <2>3, <3>1, <3>3, CommitType DEF SpendInv, YesInv, Resolved
  <2>4. \/ state' = state
        \/ \E r \in Runs, b \in Requests : Ask(r, b)
        \/ \E x \in Actors : op[x] # NoOp /\ Commit(x)
    <3>1. ASSUME NEW r \in Runs, RunStep(r)
          PROVE  \/ state' = state
                 \/ \E b \in Requests : Ask(r, b)
                 \/ op[r] # NoOp /\ Commit(r)
      BY <3>1
      DEF RunStep, Start, StartWith, Answer, Answered, GiveUp, SpendAnswer, SpendTicket,
          Spent, Dispatch, CallAgain, Finish, Die, Idle, record
    <3>2. ASSUME NEW d \in Deciders, DeciderStep(d)
          PROVE  state' = state \/ (op[d] # NoOp /\ Commit(d))
      BY <3>2 DEF DeciderStep, Decide, Decided, Idle, record
    <3>3. ASSUME NEW s \in Sweepers, SweeperStep(s)
          PROVE  state' = state \/ (op[s] # NoOp /\ Commit(s))
      BY <3>3
      DEF SweeperStep, CloseOrphan, List, Withdraw, Withdrawn, SweeperDeath, Idle, record
    <3> QED BY <3>1, <3>2, <3>3 DEF Next, Actors
  <2> QED BY <2>1, <2>2, <2>3, <2>4
<1> QED BY <1>1, <1>2, <1>3, PTL DEF Spec, PersonStands
=============================================================================
