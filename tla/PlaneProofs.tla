---------------------------- MODULE PlaneProofs -----------------------------
(***************************************************************************)
(* What the plane of remote tools promises, for any number of servers,     *)
(* tools, grants and dispatching threads: every state is well typed; the   *)
(* bus holds what its owners say they registered, where the threads that   *)
(* sync a bridge take turns; and a grant for one call is one call, where   *)
(* dispatches do.                                                          *)
(***************************************************************************)
EXTENDS McpPlane, TLAPS

-----------------------------------------------------------------------------
\* The calls, and the grants they hold.

CallStates ==
    [at : Ended \cup {"found", "bound", "expiring", "checked", "running"},
     name : Names \cup {Nobody}, expired : SUBSET DOMAIN Granted,
     held : SUBSET DOMAIN Granted, again : BOOLEAN, narrowed : BOOLEAN]

CallsTyped ==
  /\ call \in [Threads -> CallStates]
  /\ uses \in [DOMAIN Granted -> Nat]
  /\ grants \subseteq DOMAIN Granted
  /\ stale \subseteq DOMAIN Granted

LEMMA NoCallTyped == NoCall \in CallStates
  BY DEF NoCall, CallStates, Ended

LEMMA EndTyped ==
  ASSUME NEW at \in Ended
  PROVE  [NoCall EXCEPT !.at = at] \in CallStates
  BY DEF NoCall, CallStates, Ended

LEMMA CallsTypedStart == Init => CallsTyped
  BY NoCallTyped DEF Init, BusInit, CallsTyped

LEMMA DispatchTyped ==
  ASSUME CallsTyped, NEW t \in Threads, NEW n \in Names,
         NEW narrowed \in BOOLEAN, Dispatch(t, n, narrowed)
  PROVE  CallsTyped'
<1>1. [NoCall EXCEPT !.at = "found", !.name = n, !.narrowed = narrowed]
        \in CallStates
  BY DEF NoCall, CallStates
<1>2. [NoCall EXCEPT !.at = "answered"] \in CallStates
  BY EndTyped DEF Ended
<1> QED
  BY <1>1, <1>2 DEF Dispatch, Ends, CallsTyped, bus, engine

LEMMA WorkerTyped ==
  ASSUME CallsTyped, NEW t \in Threads, Worker(t)
  PROVE  CallsTyped'
<1>0. \A at \in Ended : [NoCall EXCEPT !.at = at] \in CallStates
  BY EndTyped
<1>1. call[t] \in CallStates
  BY DEF CallsTyped
<1>2. \A at \in {"bound", "running"} : [call[t] EXCEPT !.at = at] \in CallStates
  BY <1>1 DEF CallStates
<1>3. CASE Bind(t)
  BY <1>0, <1>2, <1>3 DEF Bind, Goes, Ends, Ended, CallsTyped, engine
<1>4. CASE Collect(t)
  <2>1. [call[t] EXCEPT !.at = "expiring", !.expired = grants \cap stale]
          \in CallStates
    BY <1>1 DEF CallStates, CallsTyped
  <2> QED
    BY <1>4, <2>1 DEF Collect, CallsTyped, engine
<1>5. CASE Find(t)
  <2>1. Finds(call[t].name) \subseteq DOMAIN Granted
    BY DEF Finds, CallsTyped
  <2>2. ASSUME NEW held \in {call[t].held,
                             call[t].held \cup Finds(call[t].name)}
        PROVE  [call[t] EXCEPT !.at = "checked", !.expired = {}, !.held = held]
                 \in CallStates
    BY <1>1, <2>1, <2>2 DEF CallStates
  <2>3. call' \in [Threads -> CallStates]
    BY <1>0, <1>5, <2>2 DEF Find, Ends, Ended, CallsTyped
  <2> QED
    BY <1>5, <2>3 DEF Find, CallsTyped
<1>6. CASE Consume(t)
  <2>1. [call[t] EXCEPT !.at = "bound", !.again = TRUE] \in CallStates
    BY <1>1 DEF CallStates
  <2> QED
    BY <1>2, <1>6, <2>1 DEF Consume, Goes, CallsTyped
<1>7. CASE Execute(t)
  BY <1>0, <1>7 DEF Execute, Ends, Ended, CallsTyped, engine
<1> QED
  BY <1>3, <1>4, <1>5, <1>6, <1>7 DEF Worker

\* Whoever else steps leaves the calls alone, but for a grant that lapses.
Apart ==
  \/ UNCHANGED <<engine, calls>>
  \/ \E t \in Threads, n \in Names, narrowed \in BOOLEAN :
        Dispatch(t, n, narrowed)
  \/ \E t \in Threads : Worker(t)
  \/ \E g \in DOMAIN Granted : Lapses(g)

LEMMA StepsApart ==
  ASSUME [Next]_vars
  PROVE  Apart
<1>1. CASE Fleet
  BY <1>1 DEF Apart, Fleet, Serves, Stopped, Connects, Withdraws, Disconnects
<1>2. CASE Stops \/ UNCHANGED vars
  BY <1>2 DEF Apart, Stops, vars
<1>3. ASSUME NEW s \in Servers, Changes(s) \/ Notified(s) \/ Boundary(s)
      PROVE  Apart
  BY <1>3 DEF Apart, Changes, Notified, Boundary
<1>4. ASSUME NEW s \in Servers, NEW p \in Parties, Sync(p, s) \/ Fails(p, s)
      PROVE  Apart
  BY <1>4 DEF Apart, Sync, Fails, Answered, Adopted, Enters, FirstWrite,
              SecondWrite, Compares, Records
<1>5. ASSUME NEW t \in Threads, Works(t) PROVE Apart
  BY <1>5 DEF Apart, Works
<1>6. ASSUME NEW t \in Threads, NEW n \in Names, NEW narrowed \in BOOLEAN,
             Calls(t, n, narrowed)
      PROVE  Apart
  BY <1>6 DEF Apart, Calls
<1>7. ASSUME NEW g \in DOMAIN Granted, TimePasses(g) PROVE Apart
  BY <1>7 DEF Apart, TimePasses
<1> QED
  BY <1>1, <1>2, <1>3, <1>4, <1>5, <1>6, <1>7 DEF Next

LEMMA CallsTypedStep ==
  ASSUME CallsTyped, [Next]_vars
  PROVE  CallsTyped'
<1>1. CASE UNCHANGED <<engine, calls>>
  BY <1>1 DEF CallsTyped, engine, calls
<1>2. ASSUME NEW g \in DOMAIN Granted, Lapses(g) PROVE CallsTyped'
  BY <1>2 DEF Lapses, CallsTyped, calls
<1> QED
  BY <1>1, <1>2, StepsApart, DispatchTyped, WorkerTyped DEF Apart

-----------------------------------------------------------------------------
\* The bridges: what a thread in the middle of a sync carries.

Local(s) == {n \in Names : n.space = s}

Stages == {"idle", "asked", "answered", "adopted"} \cup Inside

SyncStates == [at : Stages, names : SUBSET (Names \cup Tools),
               todo : SUBSET Names, half : Names \cup {Nobody}]

\* A list of tools until it is adopted, the names on the bus once inside.
Fitting(s, r) ==
  /\ r \in SyncStates
  /\ r.half \in r.todo \cup {Nobody}
  /\ r.at \notin Inside => r.todo = {} /\ r.half = Nobody
  /\ r.at = "answered" => r.names \subseteq Tools
  /\ r.at \in Inside => r.names \cup r.todo \subseteq Local(s)
  /\ r.at = "registering" => r.todo \subseteq r.names
  /\ r.at = "removing" => r.todo \cap r.names = {}

BridgesTyped ==
  /\ offered \in [Servers -> SUBSET Tools]
  /\ cache \in [Servers -> SUBSET Tools]
  /\ ours \in [Servers -> SUBSET Names]
  /\ \A s \in Servers : ours[s] \subseteq Local(s)
  /\ sync \in [Parties -> [Servers -> SyncStates]]
  /\ \A p \in Parties, s \in Servers : Fitting(s, sync[p][s])

SessionsTyped ==
  /\ session \in [Servers -> BOOLEAN]
  /\ notes \in [Servers -> Nat]
  /\ changes \in Nat
  /\ \A s \in Servers : notes[s] <= changes /\ (~session[s] => notes[s] = 0)
  /\ withdrawn \subseteq followed /\ followed \subseteq Servers

LEMMA OutFits ==
  ASSUME NEW s \in Servers, NEW at \in {"idle", "asked", "adopted"}
  PROVE  Fitting(s, [NoSync EXCEPT !.at = at])
  BY DEF Fitting, NoSync, SyncStates, Stages, Inside

LEMMA LocalNames ==
  ASSUME NEW s \in Servers, NEW tools \in SUBSET Tools
  PROVE  {LocalName(s, tool) : tool \in tools} \subseteq Local(s)
  BY DEF LocalName, Local, Names

\* A step of one thread in one bridge leaves what every other one carries.
LEMMA OneMoves ==
  ASSUME BridgesTyped, NEW p \in Parties, NEW s \in Servers, NEW r,
         Goto(p, s, r)
  PROVE  /\ sync'[p][s] = r
         /\ \A q \in Parties, o \in Servers :
               q # p \/ o # s => sync'[q][o] = sync[q][o]
         /\ Fitting(s, r) =>
               /\ sync' \in [Parties -> [Servers -> SyncStates]]
               /\ \A q \in Parties, o \in Servers : Fitting(o, sync'[q][o])
<1>1. /\ sync'[p][s] = r
      /\ \A q \in Parties, o \in Servers :
               q # p \/ o # s => sync'[q][o] = sync[q][o]
  BY DEF Goto, BridgesTyped
<1>2. ASSUME Fitting(s, r)
      PROVE  sync' \in [Parties -> [Servers -> SyncStates]]
  BY <1>2 DEF Goto, BridgesTyped, Fitting
<1>3. ASSUME Fitting(s, r), NEW q \in Parties, NEW o \in Servers
      PROVE  Fitting(o, sync'[q][o])
  <2>1. CASE q = p /\ o = s
    BY <1>1, <1>3, <2>1
  <2>2. CASE q # p \/ o # s
    <3>1. sync'[q][o] = sync[q][o] /\ Fitting(o, sync[q][o])
      BY <1>1, <2>2 DEF BridgesTyped
    <3> QED
      BY <3>1
  <2> QED
    BY <2>1, <2>2
<1> QED
  BY <1>1, <1>2, <1>3

LEMMA BridgesStart == Init => BridgesTyped /\ SessionsTyped
<1> SUFFICES ASSUME Init PROVE BridgesTyped /\ SessionsTyped
  OBVIOUS
<1>1. \A s \in Servers : Fitting(s, NoSync)
  BY DEF Fitting, NoSync, SyncStates, Stages, Inside
<1>2. sync \in [Parties -> [Servers -> SyncStates]]
      /\ \A p \in Parties, s \in Servers : Fitting(s, sync[p][s])
  <2>1. NoSync \in SyncStates
    BY DEF NoSync, SyncStates, Stages
  <2> QED
    BY <1>1, <2>1 DEF Init
<1>3. BridgesTyped
  BY <1>2 DEF Init, BridgesTyped
<1>4. SessionsTyped
  BY DEF Init, SessionsTyped
<1> QED
  BY <1>3, <1>4

LEMMA BridgesUntouched ==
  ASSUME BridgesTyped, UNCHANGED <<offered, cache, ours, sync>>
  PROVE  BridgesTyped'
  BY DEF BridgesTyped

\* The steps of a sync.
LEMMA SyncFits ==
  ASSUME BridgesTyped, NEW p \in Parties, NEW s \in Servers,
         Sync(p, s) \/ Fails(p, s)
  PROVE  BridgesTyped'
<1>0. Fitting(s, sync[p][s]) /\ ours[s] \subseteq Local(s)
      /\ cache[s] \in SUBSET Tools /\ offered[s] \in SUBSET Tools
  BY DEF BridgesTyped
<1>1. CASE Answered(p, s)
  <2> DEFINE r == [sync[p][s] EXCEPT !.at = "answered", !.names = offered[s]]
  <2>1. Fitting(s, r)
    BY <1>0, <1>1 DEF Answered, At, Fitting, SyncStates, Stages, Inside
  <2>2. Goto(p, s, r) /\ UNCHANGED <<offered, cache, ours>>
    BY <1>1 DEF Answered, world, client
  <2> HIDE DEF r
  <2> QED
    BY <2>1, <2>2, OneMoves DEF BridgesTyped
<1>2. CASE Adopted(p, s)
  <2>1. sync[p][s].names \in SUBSET Tools
    BY <1>0, <1>2 DEF Adopted, At, Fitting
  <2>2. PICK at \in {"idle", "adopted"} : Goto(p, s, [NoSync EXCEPT !.at = at])
    <3>1. NoSync = [NoSync EXCEPT !.at = "idle"]
      BY DEF NoSync
    <3> QED
      BY <1>2, <3>1 DEF Adopted
  <2>3. Fitting(s, [NoSync EXCEPT !.at = at])
    BY OutFits
  <2>4. cache' \in [Servers -> SUBSET Tools] /\ UNCHANGED <<offered, ours>>
    BY <1>2, <2>1 DEF Adopted, world, BridgesTyped
  <2> QED
    BY <2>2, <2>3, <2>4, OneMoves DEF BridgesTyped
<1>3. CASE Enters(p, s)
  <2> DEFINE names == {LocalName(s, tool) : tool \in cache[s]}
             r == [at |-> "registering", names |-> names, todo |-> names,
                   half |-> Nobody]
  <2>1. names \subseteq Local(s) /\ Local(s) \subseteq Names
    BY <1>0, LocalNames DEF Local
  <2> HIDE DEF names
  <2>2. Fitting(s, r)
    BY <2>1 DEF Fitting, SyncStates, Stages, Inside
  <2>3. Goto(p, s, r) /\ UNCHANGED <<offered, cache, ours>>
    BY <1>3 DEF Enters, world, client, names
  <2> HIDE DEF r
  <2> QED
    BY <2>2, <2>3, OneMoves DEF BridgesTyped
<1>4. CASE FirstWrite(p, s)
  <2>1. PICK n \in sync[p][s].todo : Goto(p, s, [sync[p][s] EXCEPT !.half = n])
    BY <1>4 DEF FirstWrite
  <2>2. n \in Names
    BY <1>0, <2>1 DEF Fitting, SyncStates
  <2>3. Fitting(s, [sync[p][s] EXCEPT !.half = n])
    BY <1>0, <1>4, <2>2 DEF FirstWrite, Fitting, SyncStates, Inside
  <2>4. UNCHANGED <<offered, cache, ours>>
    BY <1>4 DEF FirstWrite, world, client
  <2> QED
    BY <2>1, <2>3, <2>4, OneMoves DEF BridgesTyped
<1>5. CASE SecondWrite(p, s)
  <2> DEFINE r == [sync[p][s] EXCEPT !.half = Nobody,
                                     !.todo = @ \ {sync[p][s].half}]
  <2>1. Fitting(s, r)
    BY <1>0, <1>5 DEF SecondWrite, Fitting, SyncStates, Inside
  <2>2. Goto(p, s, r) /\ UNCHANGED <<offered, cache, ours>>
    BY <1>5 DEF SecondWrite, world, client
  <2> HIDE DEF r
  <2> QED
    BY <2>1, <2>2, OneMoves DEF BridgesTyped
<1>6. CASE Compares(p, s)
  <2> DEFINE r == [sync[p][s] EXCEPT !.at = "removing", !.todo = Gone(p, s)]
  <2>1. Gone(p, s) \subseteq Local(s) /\ Gone(p, s) \cap sync[p][s].names = {}
        /\ Local(s) \subseteq Names
    BY <1>0 DEF Gone, Local
  <2>2. Fitting(s, r)
    BY <1>0, <1>6, <2>1 DEF Compares, Finished, At, Fitting, SyncStates, Stages,
                            Inside
  <2>3. Goto(p, s, r) /\ UNCHANGED <<offered, cache, ours>>
    BY <1>6 DEF Compares, world, client
  <2> HIDE DEF r
  <2> QED
    BY <2>2, <2>3, OneMoves DEF BridgesTyped
<1>7. Fitting(s, NoSync)
  BY OutFits DEF NoSync
<1>8. CASE Records(p, s)
  <2>1. sync[p][s].names \subseteq Local(s) /\ Local(s) \subseteq Names
    BY <1>0, <1>8 DEF Records, Finished, At, Fitting, Inside, Local
  <2>2. ours' \in [Servers -> SUBSET Names]
        /\ \A o \in Servers : ours'[o] \subseteq Local(o)
    BY <1>8, <2>1 DEF Records, BridgesTyped
  <2>3. Goto(p, s, NoSync) /\ UNCHANGED <<offered, cache>>
    BY <1>8 DEF Records, world, client
  <2> QED
    BY <1>7, <2>2, <2>3, OneMoves DEF BridgesTyped
<1>9. CASE Fails(p, s)
  <2>1. Goto(p, s, NoSync) /\ UNCHANGED <<offered, cache, ours>>
    BY <1>9 DEF Fails, client
  <2> QED
    BY <1>7, <2>1, OneMoves DEF BridgesTyped
<1> QED
  BY <1>1, <1>2, <1>3, <1>4, <1>5, <1>6, <1>8, <1>9 DEF Sync

\* The steps of the fleet and of the servers.
LEMMA FleetFits ==
  ASSUME BridgesTyped, NEW s \in Servers,
         \/ Connects(s) \/ Withdraws(s) \/ Disconnects(s)
         \/ Changes(s) \/ Notified(s) \/ Boundary(s)
  PROVE  BridgesTyped'
<1>0. /\ "main" \in Parties /\ "push" \in Parties /\ "pull" \in Parties
      /\ Fitting(s, NoSync)
      /\ \A at \in {"asked", "adopted"} : Fitting(s, [NoSync EXCEPT !.at = at])
  BY OutFits DEF Parties, NoSync
<1>1. CASE Connects(s)
  <2>1. cache' \in [Servers -> SUBSET Tools] /\ UNCHANGED <<offered, ours>>
        /\ Goto("main", s, [NoSync EXCEPT !.at = "adopted"])
    BY <1>1 DEF Connects, world, BridgesTyped
  <2> QED
    BY <1>0, <2>1, OneMoves DEF BridgesTyped
<1>2. CASE Withdraws(s)
  <2> DEFINE r == [NoSync EXCEPT !.at = "removing", !.todo = ours[s]]
  <2>1. Fitting(s, r)
    BY DEF BridgesTyped, Fitting, NoSync, SyncStates, Stages, Inside
  <2>2. Goto("main", s, r) /\ UNCHANGED <<offered, cache, ours>>
    BY <1>2 DEF Withdraws, world, client
  <2> HIDE DEF r
  <2> QED
    BY <1>0, <2>1, <2>2, OneMoves DEF BridgesTyped
<1>3. CASE Disconnects(s)
  <2>1. Goto("push", s, NoSync) /\ UNCHANGED <<offered, cache, ours>>
    BY <1>3 DEF Disconnects
  <2> QED
    BY <1>0, <2>1, OneMoves DEF BridgesTyped
<1>4. CASE Changes(s)
  BY <1>4 DEF Changes, BridgesTyped, client, bridge
<1>5. CASE Notified(s)
  <2>1. Goto("push", s, [NoSync EXCEPT !.at = "asked"])
        /\ UNCHANGED <<offered, cache, ours>>
    BY <1>5 DEF Notified, client
  <2> QED
    BY <1>0, <2>1, OneMoves DEF BridgesTyped
<1>6. CASE Boundary(s)
  <2>1. Goto("pull", s, [NoSync EXCEPT !.at = "asked"])
        /\ UNCHANGED <<offered, cache, ours>>
    BY <1>6 DEF Boundary, client, world
  <2> QED
    BY <1>0, <2>1, OneMoves DEF BridgesTyped
<1> QED
  BY <1>1, <1>2, <1>3, <1>4, <1>5, <1>6

\* Everybody else leaves the bridges alone.
Elsewhere == UNCHANGED <<bus, client, bridge, offered, notes, changes>>

LEMMA StepsOfThePlane ==
  ASSUME [Next]_vars
  PROVE  \/ Elsewhere
         \/ \E s \in Servers :
               \/ Connects(s) \/ Withdraws(s) \/ Disconnects(s)
               \/ Changes(s) \/ Notified(s) \/ Boundary(s)
               \/ \E p \in Parties : Sync(p, s) \/ Fails(p, s)
<1>1. CASE Serves \/ Stopped \/ Stops
  BY <1>1 DEF Serves, Stopped, Stops, Elsewhere, world
<1>2. ASSUME NEW t \in Threads, Works(t) PROVE Elsewhere
  BY <1>2 DEF Works, Worker, Bind, Collect, Find, Consume, Execute, Elsewhere,
              world
<1>3. ASSUME NEW t \in Threads, NEW n \in Names, NEW narrowed \in BOOLEAN,
             Calls(t, n, narrowed)
      PROVE  Elsewhere
  BY <1>3 DEF Calls, Dispatch, Elsewhere, world
<1>4. ASSUME NEW g \in DOMAIN Granted, TimePasses(g) PROVE Elsewhere
  BY <1>4 DEF TimePasses, Lapses, Elsewhere, world
<1>5. CASE UNCHANGED vars
  BY <1>5 DEF vars, Elsewhere, world
<1> QED
  BY <1>1, <1>2, <1>3, <1>4, <1>5 DEF Next, Fleet

LEMMA BridgesStep ==
  ASSUME BridgesTyped, [Next]_vars
  PROVE  BridgesTyped'
<1>1. CASE Elsewhere
  BY <1>1, BridgesUntouched DEF Elsewhere, client, bridge
<1> QED
  BY <1>1, StepsOfThePlane, SyncFits, FleetFits

LEMMA SessionsStep ==
  ASSUME SessionsTyped, [Next]_vars
  PROVE  SessionsTyped'
<1>1. CASE Elsewhere
  BY <1>1 DEF Elsewhere, client, bridge, SessionsTyped
<1>2. ASSUME NEW s \in Servers, NEW p \in Parties, Sync(p, s) \/ Fails(p, s)
      PROVE  SessionsTyped'
  <2>1. /\ UNCHANGED <<session, notes, changes, withdrawn>>
        /\ followed' \in {followed, followed \cup {s}}
    BY <1>2 DEF Sync, Fails, Answered, Adopted, Enters, FirstWrite, SecondWrite,
                Compares, Records, client, world
  <2> QED
    BY <2>1 DEF SessionsTyped
<1>3. ASSUME NEW s \in Servers, Connects(s) PROVE SessionsTyped'
  BY <1>3 DEF Connects, SessionsTyped, world
<1>4. ASSUME NEW s \in Servers, Withdraws(s) PROVE SessionsTyped'
  BY <1>4 DEF Withdraws, SessionsTyped, world, client
<1>5. ASSUME NEW s \in Servers, Disconnects(s) PROVE SessionsTyped'
  BY <1>5 DEF Disconnects, SessionsTyped
<1>6. ASSUME NEW s \in Servers, Changes(s) PROVE SessionsTyped'
  <2>1. /\ changes \in Nat /\ changes' = changes + 1
        /\ notes[s] \in Nat /\ notes \in [Servers -> Nat]
        /\ UNCHANGED <<session, followed, withdrawn>>
    BY <1>6 DEF Changes, SessionsTyped, client, bridge
  <2>2. CASE ~session[s]
    <3>1. notes' = notes
      BY <1>6, <2>2 DEF Changes
    <3> QED
      BY <2>1, <3>1 DEF SessionsTyped
  <2>3. CASE session[s]
    <3>1. notes' = [notes EXCEPT ![s] = notes[s] + 1]
      BY <1>6, <2>3 DEF Changes
    <3>2. notes' \in [Servers -> Nat] /\ notes'[s] = notes[s] + 1
          /\ \A o \in Servers \ {s} : notes'[o] = notes[o]
      BY <2>1, <3>1
    <3>3. ASSUME NEW o \in Servers
          PROVE  notes'[o] <= changes' /\ (~session'[o] => notes'[o] = 0)
      BY <2>1, <2>3, <3>2 DEF SessionsTyped
    <3> QED
      BY <2>1, <3>2, <3>3 DEF SessionsTyped
  <2> QED
    BY <2>2, <2>3
<1>7. ASSUME NEW s \in Servers, Notified(s) PROVE SessionsTyped'
  <2>1. /\ notes[s] \in Nat /\ notes[s] > 0
        /\ notes' = [notes EXCEPT ![s] = notes[s] - 1]
    BY <1>7 DEF Notified, SessionsTyped
  <2>2. /\ notes' \in [Servers -> Nat]
        /\ \A o \in Servers : notes'[o] <= notes[o]
    BY <2>1 DEF SessionsTyped
  <2> QED
    BY <1>7, <2>2 DEF Notified, SessionsTyped, client
<1>8. ASSUME NEW s \in Servers, Boundary(s) PROVE SessionsTyped'
  BY <1>8 DEF Boundary, SessionsTyped, client, world
<1> QED
  BY <1>1, <1>2, <1>3, <1>4, <1>5, <1>6, <1>7, <1>8, StepsOfThePlane

-----------------------------------------------------------------------------
\* The two books: a name is there for the owner of its namespace, and the
\* compiled-in tools always are.

Kept(book) ==
  /\ Own \subseteq DOMAIN book /\ DOMAIN book \subseteq Names
  /\ \A n \in DOMAIN book : book[n] = n.space

BooksKept == Kept(described) /\ Kept(wired)

LEMMA EntryKept ==
  ASSUME NEW book, NEW s \in Servers, NEW n \in Local(s), Kept(book)
  PROVE  /\ Kept(Entered(book, n, s))
         /\ DOMAIN Entered(book, n, s) = DOMAIN book \cup {n}
  BY DEF Kept, Entered, Local

LEMMA DropKept ==
  ASSUME NEW book, NEW s \in Servers, NEW n \in Local(s), Kept(book)
  PROVE  /\ Kept(Dropped(book, n))
         /\ DOMAIN Dropped(book, n) = DOMAIN book \ {n}
<1>1. n \notin Own
  BY BusAssumption DEF Local, Own
<1> QED
  BY <1>1 DEF Kept, Dropped

LEMMA BooksStart == Init => BooksKept
<1> SUFFICES ASSUME Init PROVE BooksKept
  OBVIOUS
<1>1. Own \subseteq Names /\ \A n \in Own : n.space = Home
  BY DEF Own, Names
<1>2. described = [n \in Own |-> Home] /\ wired = described
  BY DEF Init, BusInit
<1> QED
  BY <1>1, <1>2 DEF BooksKept, Kept

\* The two writes, as what they do to the names.
LEMMA FirstWriteKept ==
  ASSUME BridgesTyped, BooksKept, NEW p \in Parties, NEW s \in Servers,
         FirstWrite(p, s)
  PROVE  /\ Kept(described') /\ UNCHANGED <<wired, ours>>
         /\ sync[p][s].at \in Inside /\ sync[p][s].half = Nobody
         /\ \E n \in sync[p][s].todo :
               /\ n \in Local(s)
               /\ Goto(p, s, [sync[p][s] EXCEPT !.half = n])
               /\ DOMAIN described' = IF sync[p][s].at = "registering"
                                      THEN DOMAIN described \cup {n}
                                      ELSE DOMAIN described \ {n}
<1>1. PICK n \in sync[p][s].todo :
         /\ IF At(p, s, "registering") THEN Describe(n, s) ELSE Undescribe(n)
         /\ Goto(p, s, [sync[p][s] EXCEPT !.half = n])
  BY DEF FirstWrite
<1>2. sync[p][s].at \in Inside /\ sync[p][s].half = Nobody
      /\ UNCHANGED <<wired, ours>>
  BY DEF FirstWrite, Inside
<1>3. n \in Local(s)
  BY <1>1, <1>2 DEF BridgesTyped, Fitting
<1>4. CASE sync[p][s].at = "registering"
  <2>1. described' = Entered(described, n, s) /\ Kept(described)
    BY <1>1, <1>4 DEF At, Describe, BooksKept
  <2>2. Kept(described') /\ DOMAIN described' = DOMAIN described \cup {n}
    BY <1>3, <2>1, EntryKept
  <2> QED
    BY <1>1, <1>2, <1>3, <1>4, <2>2
<1>5. CASE sync[p][s].at # "registering"
  <2>1. described' = Dropped(described, n) /\ Kept(described)
    BY <1>1, <1>5 DEF At, Undescribe, BooksKept
  <2>2. Kept(described') /\ DOMAIN described' = DOMAIN described \ {n}
    BY <1>3, <2>1, DropKept
  <2> QED
    BY <1>1, <1>2, <1>3, <1>5, <2>2
<1> QED
  BY <1>4, <1>5

LEMMA SecondWriteKept ==
  ASSUME BridgesTyped, BooksKept, NEW p \in Parties, NEW s \in Servers,
         SecondWrite(p, s)
  PROVE  /\ Kept(wired') /\ UNCHANGED <<described, ours>>
         /\ sync[p][s].at \in Inside
         /\ \E n \in sync[p][s].todo :
               /\ n \in Local(s) /\ n = sync[p][s].half /\ n # Nobody
               /\ Goto(p, s, [sync[p][s] EXCEPT !.half = Nobody,
                                                !.todo = @ \ {n}])
               /\ DOMAIN wired' = IF sync[p][s].at = "registering"
                                  THEN DOMAIN wired \cup {n}
                                  ELSE DOMAIN wired \ {n}
<1> DEFINE n == sync[p][s].half
<1>1. /\ n # Nobody
      /\ IF At(p, s, "registering") THEN Wire(n, s) ELSE Unwire(n)
      /\ Goto(p, s, [sync[p][s] EXCEPT !.half = Nobody, !.todo = @ \ {n}])
      /\ UNCHANGED <<described, ours>>
  BY DEF SecondWrite
<1>2. sync[p][s].at \in Inside /\ n \in sync[p][s].todo /\ n \in Local(s)
  BY <1>1 DEF BridgesTyped, Fitting
<1>3. n = sync[p][s].half
  OBVIOUS
<1> HIDE DEF n
<1>4. CASE sync[p][s].at = "registering"
  <2>1. wired' = Entered(wired, n, s) /\ Kept(wired)
    BY <1>1, <1>4 DEF At, Wire, BooksKept
  <2>2. Kept(wired') /\ DOMAIN wired' = DOMAIN wired \cup {n}
    BY <1>2, <2>1, EntryKept
  <2> QED
    BY <1>1, <1>2, <1>3, <1>4, <2>2
<1>5. CASE sync[p][s].at # "registering"
  <2>1. wired' = Dropped(wired, n) /\ Kept(wired)
    BY <1>1, <1>5 DEF At, Unwire, BooksKept
  <2>2. Kept(wired') /\ DOMAIN wired' = DOMAIN wired \ {n}
    BY <1>2, <2>1, DropKept
  <2> QED
    BY <1>1, <1>2, <1>3, <1>5, <2>2
<1> QED
  BY <1>4, <1>5

\* Nobody else writes.
LEMMA OthersRead ==
  ASSUME [Next]_vars
  PROVE  \/ UNCHANGED <<described, wired>>
         \/ \E p \in Parties, s \in Servers : FirstWrite(p, s) \/ SecondWrite(p, s)
<1>1. ASSUME NEW s \in Servers, NEW p \in Parties, Sync(p, s) \/ Fails(p, s),
             ~FirstWrite(p, s), ~SecondWrite(p, s)
      PROVE  UNCHANGED <<described, wired>>
  BY <1>1 DEF Sync, Fails, Answered, Adopted, Enters, Compares, Records, bus
<1>2. ASSUME NEW s \in Servers,
             \/ Connects(s) \/ Withdraws(s) \/ Disconnects(s)
             \/ Changes(s) \/ Notified(s) \/ Boundary(s)
      PROVE  UNCHANGED <<described, wired>>
  BY <1>2 DEF Connects, Withdraws, Disconnects, Changes, Notified, Boundary, bus
<1> QED
  BY <1>1, <1>2, StepsOfThePlane DEF Elsewhere, bus

LEMMA BooksStep ==
  ASSUME BridgesTyped, BooksKept, [Next]_vars
  PROVE  BooksKept'
  BY OthersRead, FirstWriteKept, SecondWriteKept DEF BooksKept, Kept

\* Every state of the plane is well typed: a name on the bus is of a known
\* space, a notification waits only at a session that is up, and a bridge is
\* withdrawn only after it was followed.
THEOREM PlaneTypeCorrect == Spec => []TypeOK
<1> DEFINE TypeInv == CallsTyped /\ BridgesTyped /\ SessionsTyped /\ BooksKept
<1>1. Init => TypeInv
  BY CallsTypedStart, BridgesStart, BooksStart
<1>2. TypeInv /\ [Next]_vars => TypeInv'
  BY CallsTypedStep, BridgesStep, SessionsStep, BooksStep
<1>3. TypeInv => TypeOK
  <2> SUFFICES ASSUME TypeInv PROVE TypeOK
    OBVIOUS
  <2>1. BusTypeOK
    <3>1. ASSUME NEW t \in Threads PROVE call[t] \in CallStates
      BY DEF CallsTyped
    <3> QED
      BY <3>1 DEF CallsTyped, BooksKept, Kept, BusTypeOK, CallStates
  <2>2. \A s \in Servers : notes[s] \in 0..(IF session[s] THEN changes ELSE 0)
    BY DEF SessionsTyped
  <2>3. ASSUME NEW s \in Servers, NEW p \in Parties
        PROVE  /\ sync[p][s].at \in {"idle", "asked", "answered", "adopted"}
                                    \cup Inside
               /\ sync[p][s].half \in sync[p][s].todo \cup {Nobody}
    BY DEF BridgesTyped, Fitting, SyncStates, Stages
  <2> QED
    BY <2>1, <2>2, <2>3 DEF TypeOK, BridgesTyped, SessionsTyped
<1> HIDE DEF TypeInv
<1> QED
  BY <1>1, <1>2, <1>3, PTL DEF Spec

-----------------------------------------------------------------------------
\* Where threads take turns in a bridge, the names of its namespace are at all
\* times what the bridge says it registered, but for what the one thread inside
\* has already done.

On(book, s) == DOMAIN book \cap Local(s)

\* What a thread with record r leaves to be said, of the names described, the
\* names wired and the names the bridge calls its own.
Agrees(r, d, w, mine) ==
  /\ r.at \notin Inside => d = mine /\ w = mine
  /\ r.at = "registering" =>
        /\ d = mine \cup (r.names \ r.todo) \cup ({r.half} \ {Nobody})
        /\ w = mine \cup (r.names \ r.todo)
  /\ r.at = "removing" =>
        /\ d = (r.names \cup r.todo) \ {r.half}
        /\ w = r.names \cup r.todo

Others(p, s) == \A q \in Parties \ {p} : sync[q][s].at \notin Inside

Account(p, s) == Agrees(sync[p][s], On(described, s), On(wired, s), ours[s])

Settled(s) == \E p \in Parties : Others(p, s) /\ Account(p, s)

\* The one inside is the one whose account it is; with nobody inside, it is
\* anybody's.
LEMMA WhoseTurn ==
  ASSUME NEW s \in Servers, NEW p \in Parties, Settled(s),
         \/ sync[p][s].at \in Inside
         \/ \A q \in Parties : sync[q][s].at \notin Inside
  PROVE  Others(p, s) /\ Account(p, s)
<1>1. PICK w \in Parties : Others(w, s) /\ Account(w, s)
  BY DEF Settled
<1>2. CASE w = p
  BY <1>1, <1>2
<1>3. CASE w # p
  <2>1. \A q \in Parties : sync[q][s].at \notin Inside
    BY <1>1, <1>3 DEF Others
  <2> QED
    BY <1>1, <2>1 DEF Others, Account, Agrees, Inside
<1> QED
  BY <1>2, <1>3

\* A bridge nobody touches.
LEMMA SettledLeft ==
  ASSUME NEW s \in Servers, Settled(s),
         \A p \in Parties : sync'[p][s] = sync[p][s],
         ours'[s] = ours[s],
         On(described', s) = On(described, s), On(wired', s) = On(wired, s)
  PROVE  Settled(s)'
<1>1. PICK p \in Parties : Others(p, s) /\ Account(p, s)
  BY DEF Settled
<1>2. Others(p, s)'
  BY <1>1 DEF Others
<1>3. Account(p, s)'
  BY <1>1 DEF Account
<1> QED
  BY <1>2, <1>3 DEF Settled

\* A step of a thread that is outside and stays outside.
LEMMA SettledOutside ==
  ASSUME BridgesTyped, NEW s \in Servers, Settled(s),
         NEW p \in Parties, NEW r, Goto(p, s, r),
         sync[p][s].at \notin Inside, r.at \notin Inside,
         UNCHANGED <<described, wired, ours>>
  PROVE  Settled(s)'
<1>1. PICK w \in Parties : Others(w, s) /\ Account(w, s)
  BY DEF Settled
<1>2. sync'[p][s] = r /\ \A q \in Parties \ {p} : sync'[q][s] = sync[q][s]
  BY OneMoves
<1>3. Others(w, s)'
  BY <1>1, <1>2 DEF Others
<1>4. Account(w, s)'
  <2>1. CASE w # p
    <3>1. sync'[w][s] = sync[w][s]
      BY <1>2, <2>1
    <3> QED
      BY <1>1, <3>1 DEF Account
  <2>2. CASE w = p
    <3>1. On(described, s) = ours[s] /\ On(wired, s) = ours[s]
      BY <1>1, <2>2 DEF Account, Agrees
    <3> QED
      BY <1>2, <2>2, <3>1 DEF Account, Agrees, Inside
  <2> QED
    BY <2>1, <2>2
<1> QED
  BY <1>3, <1>4 DEF Settled

\* A step of the thread whose turn it is.
LEMMA SettledInside ==
  ASSUME BridgesTyped, NEW s \in Servers, NEW p \in Parties, Others(p, s),
         NEW r, Goto(p, s, r),
         Agrees(r, On(described', s), On(wired', s), ours'[s])
  PROVE  Settled(s)'
<1>1. sync'[p][s] = r /\ \A q \in Parties \ {p} : sync'[q][s] = sync[q][s]
  BY OneMoves
<1>2. Others(p, s)'
  BY <1>1 DEF Others
<1>3. Account(p, s)'
  BY <1>1 DEF Account
<1> QED
  BY <1>2, <1>3 DEF Settled

LEMMA SettledStart == Init => \A s \in Servers : Settled(s)
<1> SUFFICES ASSUME Init, NEW s \in Servers PROVE Settled(s)
  OBVIOUS
<1>1. On(described, s) = {} /\ On(wired, s) = {}
  BY BusAssumption DEF Init, BusInit, On, Local, Own
<1>2. "main" \in Parties /\ \A p \in Parties : sync[p][s] = NoSync
  BY DEF Init, Parties
<1>3. Others("main", s)
  BY <1>2 DEF Others, NoSync, Inside
<1>4. Account("main", s)
  BY <1>1, <1>2 DEF Account, Agrees, NoSync, Inside, Init
<1> QED
  BY <1>2, <1>3, <1>4 DEF Settled

\* The writes: what a bridge does stays inside its namespace.
LEMMA WriteSettles ==
  ASSUME BridgesTyped, BooksKept, NEW p \in Parties, NEW s \in Servers,
         FirstWrite(p, s) \/ SecondWrite(p, s), Settled(s)
  PROVE  /\ Settled(s)'
         /\ \A o \in Servers \ {s} : /\ On(described', o) = On(described, o)
                                     /\ On(wired', o) = On(wired, o)
<1> DEFINE r == sync[p][s]
<1>0. Fitting(s, r)
  BY DEF BridgesTyped
<1>1. CASE FirstWrite(p, s)
  <2>1. PICK n \in r.todo :
           /\ n \in Local(s) /\ Goto(p, s, [r EXCEPT !.half = n])
           /\ DOMAIN described' = IF r.at = "registering"
                                  THEN DOMAIN described \cup {n}
                                  ELSE DOMAIN described \ {n}
    BY <1>1, FirstWriteKept
  <2>2. r.at \in Inside /\ r.half = Nobody /\ UNCHANGED <<wired, ours>>
    BY <1>1, FirstWriteKept
  <2>3. Others(p, s) /\ Account(p, s)
    BY <2>2, WhoseTurn
  <2>4. n # Nobody
    BY <2>1, BusAssumption DEF Local, Names
  <2> DEFINE r2 == [r EXCEPT !.half = n]
  <2>5. r2.at = r.at /\ r2.names = r.names /\ r2.todo = r.todo /\ r2.half = n
    BY <1>0 DEF Fitting, SyncStates
  <2>6. /\ On(wired', s) = On(wired, s) /\ ours'[s] = ours[s]
        /\ On(described', s) = IF r.at = "registering"
                               THEN On(described, s) \cup {n}
                               ELSE On(described, s) \ {n}
    BY <2>1, <2>2 DEF On
  <2>7. Agrees(r2, On(described', s), On(wired', s), ours'[s])
    <3>1. CASE r.at = "registering"
      <4>1. /\ On(described, s) = ours[s] \cup (r.names \ r.todo)
            /\ On(wired, s) = ours[s] \cup (r.names \ r.todo)
        BY <2>2, <2>3, <3>1 DEF Account, Agrees
      <4> QED
        BY <2>4, <2>5, <2>6, <3>1, <4>1 DEF Agrees, Inside
    <3>2. CASE r.at = "removing"
      <4>1. /\ Nobody \notin r.names \cup r.todo
        BY <1>0, <2>2, BusAssumption DEF Fitting, Local, Names
      <4>2. /\ On(described, s) = r.names \cup r.todo
            /\ On(wired, s) = r.names \cup r.todo
        BY <2>2, <2>3, <3>2, <4>1 DEF Account, Agrees
      <4> QED
        BY <2>5, <2>6, <3>2, <4>2 DEF Agrees, Inside
    <3> QED
      BY <2>2, <3>1, <3>2 DEF Inside
  <2>8. Goto(p, s, r2)
    BY <2>1
  <2> HIDE DEF r2
  <2>9. Settled(s)'
    BY <2>3, <2>7, <2>8, SettledInside
  <2>10. ASSUME NEW o \in Servers \ {s}
         PROVE  On(described', o) = On(described, o)
                /\ On(wired', o) = On(wired, o)
    BY <2>1, <2>2 DEF On, Local
  <2> QED
    BY <2>9, <2>10
<1>2. CASE SecondWrite(p, s)
  <2>1. PICK n \in r.todo :
           /\ n \in Local(s) /\ n = r.half /\ n # Nobody
           /\ Goto(p, s, [r EXCEPT !.half = Nobody, !.todo = @ \ {n}])
           /\ DOMAIN wired' = IF r.at = "registering"
                              THEN DOMAIN wired \cup {n}
                              ELSE DOMAIN wired \ {n}
    BY <1>2, SecondWriteKept
  <2>2. r.at \in Inside /\ UNCHANGED <<described, ours>>
    BY <1>2, SecondWriteKept
  <2>3. Others(p, s) /\ Account(p, s)
    BY <2>2, WhoseTurn
  <2> DEFINE r2 == [r EXCEPT !.half = Nobody, !.todo = @ \ {n}]
  <2>4. /\ r2.at = r.at /\ r2.names = r.names /\ r2.todo = r.todo \ {n}
        /\ r2.half = Nobody
    BY <1>0 DEF Fitting, SyncStates
  <2>5. /\ On(described', s) = On(described, s) /\ ours'[s] = ours[s]
        /\ On(wired', s) = IF r.at = "registering" THEN On(wired, s) \cup {n}
                                                   ELSE On(wired, s) \ {n}
    BY <2>1, <2>2 DEF On
  <2>6. Agrees(r2, On(described', s), On(wired', s), ours'[s])
    <3>1. CASE r.at = "registering"
      <4>1. /\ On(described, s) = ours[s] \cup (r.names \ r.todo) \cup {n}
            /\ On(wired, s) = ours[s] \cup (r.names \ r.todo)
            /\ n \in r.names
        BY <1>0, <2>1, <2>3, <3>1 DEF Account, Agrees, Fitting
      <4>2. r.names \ (r.todo \ {n}) = (r.names \ r.todo) \cup {n}
        BY <4>1
      <4> QED
        BY <2>4, <2>5, <3>1, <4>1, <4>2 DEF Agrees, Inside
    <3>2. CASE r.at = "removing"
      <4>1. /\ On(described, s) = (r.names \cup r.todo) \ {n}
            /\ On(wired, s) = r.names \cup r.todo
            /\ n \notin r.names
        BY <1>0, <2>1, <2>3, <3>2 DEF Account, Agrees, Fitting
      <4>2. Nobody \notin r.names \cup r.todo
        BY <1>0, <2>2, BusAssumption DEF Fitting, Local, Names
      <4>3. (r.names \cup r.todo) \ {n} = r.names \cup (r.todo \ {n})
        BY <4>1
      <4> QED
        BY <2>4, <2>5, <3>2, <4>1, <4>2, <4>3 DEF Agrees, Inside
    <3> QED
      BY <2>2, <3>1, <3>2 DEF Inside
  <2>7. Goto(p, s, r2)
    BY <2>1
  <2> HIDE DEF r2
  <2>8. Settled(s)'
    BY <2>3, <2>6, <2>7, SettledInside
  <2>9. ASSUME NEW o \in Servers \ {s}
        PROVE  On(described', o) = On(described, o)
               /\ On(wired', o) = On(wired, o)
    BY <2>1, <2>2 DEF On, Local
  <2> QED
    BY <2>8, <2>9
<1> QED
  BY <1>1, <1>2

\* The steps that begin a sync or a withdrawal, compare and record.
LEMMA TurnSettles ==
  ASSUME ~Overlap, BridgesTyped, BooksKept, NEW p \in Parties, NEW s \in Servers,
         \/ Enters(p, s) \/ Compares(p, s) \/ Records(p, s)
         \/ p = "main" /\ Withdraws(s),
         Settled(s)
  PROVE  Settled(s)'
<1> DEFINE r == sync[p][s]
<1>0. Fitting(s, r)
  BY DEF BridgesTyped
<1>1. CASE Enters(p, s)
  <2> DEFINE names == {LocalName(s, tool) : tool \in cache[s]}
             r2 == [at |-> "registering", names |-> names, todo |-> names,
                    half |-> Nobody]
  <2>1. Goto(p, s, r2) /\ UNCHANGED <<described, wired, ours>>
        /\ \A q \in Parties : sync[q][s].at \notin Inside
    BY <1>1 DEF Enters, MayEnter, bus
  <2>2. Others(p, s) /\ Account(p, s)
    BY <2>1, WhoseTurn
  <2>3. On(described, s) = ours[s] /\ On(wired, s) = ours[s]
    BY <2>1, <2>2 DEF Account, Agrees
  <2>4. Agrees(r2, On(described', s), On(wired', s), ours'[s])
    BY <2>1, <2>3 DEF Agrees, Inside
  <2> HIDE DEF r2
  <2> QED
    BY <2>1, <2>2, <2>4, SettledInside
<1>2. CASE p = "main" /\ Withdraws(s)
  <2> DEFINE r2 == [NoSync EXCEPT !.at = "removing", !.todo = ours[s]]
  <2>1. Goto(p, s, r2) /\ UNCHANGED <<described, wired, ours>>
        /\ \A q \in Parties : sync[q][s].at \notin Inside
    BY <1>2 DEF Withdraws, MayEnter, bus
  <2>2. Others(p, s) /\ Account(p, s)
    BY <2>1, WhoseTurn
  <2>3. On(described, s) = ours[s] /\ On(wired, s) = ours[s]
    BY <2>1, <2>2 DEF Account, Agrees
  <2>4. /\ r2.at = "removing" /\ r2.names = {} /\ r2.todo = ours[s]
        /\ r2.half = Nobody
    BY DEF NoSync
  <2>5. Nobody \notin ours[s]
    BY BusAssumption DEF BridgesTyped, Local, Names
  <2> HIDE DEF r2
  <2>6. Agrees(r2, On(described', s), On(wired', s), ours'[s])
    BY <2>1, <2>3, <2>4, <2>5 DEF Agrees, Inside
  <2> QED
    BY <2>1, <2>2, <2>6, SettledInside
<1>3. CASE Compares(p, s)
  <2> DEFINE r2 == [r EXCEPT !.at = "removing", !.todo = Gone(p, s)]
  <2>1. /\ Goto(p, s, r2) /\ UNCHANGED <<described, wired, ours>>
        /\ r.at = "registering" /\ r.todo = {} /\ r.half = Nobody
    BY <1>3 DEF Compares, Finished, At, bus
  <2>2. Others(p, s) /\ Account(p, s)
    BY <2>1, WhoseTurn DEF Inside
  <2>3. /\ On(described, s) = ours[s] \cup r.names
        /\ On(wired, s) = ours[s] \cup r.names
    BY <2>1, <2>2 DEF Account, Agrees
  <2>4. /\ r2.at = "removing" /\ r2.names = r.names
        /\ r2.todo = ours[s] \ r.names /\ r2.half = Nobody
    BY <1>0, <2>1 DEF Fitting, SyncStates, Gone
  <2>5. Nobody \notin ours[s] \cup r.names
    BY <1>0, <2>1, BusAssumption DEF BridgesTyped, Fitting, Local, Names, Inside
  <2> HIDE DEF r2
  <2>6. Agrees(r2, On(described', s), On(wired', s), ours'[s])
    BY <2>1, <2>3, <2>4, <2>5 DEF Agrees, Inside
  <2> QED
    BY <2>1, <2>2, <2>6, SettledInside
<1>4. CASE Records(p, s)
  <2>1. /\ Goto(p, s, NoSync) /\ UNCHANGED <<described, wired>>
        /\ ours'[s] = r.names
        /\ r.at = "removing" /\ r.todo = {} /\ r.half = Nobody
    BY <1>4 DEF Records, Finished, At, bus, BridgesTyped
  <2>2. Others(p, s) /\ Account(p, s)
    BY <2>1, WhoseTurn DEF Inside
  <2>3. Nobody \notin r.names
    BY <1>0, <2>1, BusAssumption DEF Fitting, Local, Names, Inside
  <2>4. On(described, s) = r.names /\ On(wired, s) = r.names
    BY <2>1, <2>2, <2>3 DEF Account, Agrees
  <2>5. Agrees(NoSync, On(described', s), On(wired', s), ours'[s])
    BY <2>1, <2>4 DEF Agrees, NoSync, Inside
  <2> QED
    BY <2>1, <2>2, <2>5, SettledInside
<1> QED
  BY <1>1, <1>2, <1>3, <1>4

\* The steps outside a bridge.
LEMMA OutsideSettles ==
  ASSUME BridgesTyped, NEW s \in Servers, NEW p \in Parties,
         \/ Answered(p, s) \/ Adopted(p, s) \/ Fails(p, s)
         \/ p = "main" /\ Connects(s)
         \/ p = "push" /\ (Disconnects(s) \/ Notified(s))
         \/ p = "pull" /\ Boundary(s),
         Settled(s)
  PROVE  Settled(s)'
<1>1. CASE Answered(p, s)
  <2> DEFINE r2 == [sync[p][s] EXCEPT !.at = "answered", !.names = offered[s]]
  <2>1. /\ Goto(p, s, r2) /\ sync[p][s].at \notin Inside
        /\ UNCHANGED <<described, wired, ours>>
    BY <1>1 DEF Answered, At, Inside, bus
  <2>2. r2.at \notin Inside
    BY DEF Inside, BridgesTyped, SyncStates
  <2> HIDE DEF r2
  <2> QED
    BY <2>1, <2>2, SettledOutside
<1>2. /\ NoSync.at \notin Inside
      /\ \A at \in {"asked", "adopted"} : [NoSync EXCEPT !.at = at].at \notin Inside
  BY DEF NoSync, Inside
<1>3. CASE Adopted(p, s)
  <2>1. PICK r \in {NoSync, [NoSync EXCEPT !.at = "adopted"]} : Goto(p, s, r)
    BY <1>3 DEF Adopted
  <2>2. sync[p][s].at \notin Inside /\ UNCHANGED <<described, wired, ours>>
    BY <1>3 DEF Adopted, At, Inside, bus
  <2>3. r.at \notin Inside
    BY <1>2, <2>1
  <2> QED
    BY <2>1, <2>2, <2>3, SettledOutside
<1>4. CASE Fails(p, s)
  <2>1. /\ Goto(p, s, NoSync) /\ sync[p][s].at \notin Inside
        /\ UNCHANGED <<described, wired, ours>>
    BY <1>4 DEF Fails, At, Inside, bus
  <2> QED
    BY <1>2, <2>1, SettledOutside
<1>5. CASE p = "main" /\ Connects(s)
  <2>1. /\ Goto(p, s, [NoSync EXCEPT !.at = "adopted"])
        /\ sync[p][s].at \notin Inside /\ UNCHANGED <<described, wired, ours>>
    BY <1>5 DEF Connects, Out, Inside, bus
  <2> QED
    BY <1>2, <2>1, SettledOutside
<1>6. CASE p = "push" /\ Disconnects(s)
  <2>1. /\ Goto(p, s, NoSync) /\ sync[p][s].at \notin Inside
        /\ UNCHANGED <<described, wired, ours>>
    BY <1>6 DEF Disconnects, Inside, bus
  <2> QED
    BY <1>2, <2>1, SettledOutside
<1>7. CASE \/ p = "push" /\ Notified(s)
           \/ p = "pull" /\ Boundary(s)
  <2>1. /\ Goto(p, s, [NoSync EXCEPT !.at = "asked"])
        /\ sync[p][s].at \notin Inside /\ UNCHANGED <<described, wired, ours>>
    BY <1>7 DEF Notified, Boundary, Out, Inside, bus
  <2> QED
    BY <1>2, <2>1, SettledOutside
<1> QED
  BY <1>1, <1>3, <1>4, <1>5, <1>6, <1>7

\* A step in one bridge is none in another.
LEMMA OneBridge ==
  ASSUME BridgesTyped, BooksKept, NEW s \in Servers,
         \/ Connects(s) \/ Withdraws(s) \/ Disconnects(s)
         \/ Notified(s) \/ Boundary(s)
         \/ \E p \in Parties : Sync(p, s) \/ Fails(p, s),
         NEW o \in Servers \ {s}, Settled(o), Settled(s)
  PROVE  Settled(o)'
<1>1. ASSUME NEW p \in Parties, NEW r, Goto(p, s, r)
      PROVE  \A q \in Parties : sync'[q][o] = sync[q][o]
  BY <1>1, OneMoves
<1>2. ASSUME NEW p \in Parties, FirstWrite(p, s) \/ SecondWrite(p, s)
      PROVE  Settled(o)'
  <2>1. \E r : Goto(p, s, r)
    BY <1>2 DEF FirstWrite, SecondWrite
  <2>2. On(described', o) = On(described, o) /\ On(wired', o) = On(wired, o)
    BY <1>2, WriteSettles
  <2>3. ours' = ours
    BY <1>2, FirstWriteKept, SecondWriteKept
  <2> QED
    BY <1>1, <2>1, <2>2, <2>3, SettledLeft
<1>3. ASSUME NEW p \in Parties, Sync(p, s) \/ Fails(p, s),
             ~FirstWrite(p, s), ~SecondWrite(p, s)
      PROVE  Settled(o)'
  <2>1. /\ \E r : Goto(p, s, r)
        /\ UNCHANGED <<described, wired>>
        /\ ours' = ours \/ ours' = [ours EXCEPT ![s] = sync[p][s].names]
    BY <1>3 DEF Sync, Fails, Answered, Adopted, Enters, Compares, Records, bus
  <2>2. ours'[o] = ours[o]
    BY <2>1 DEF BridgesTyped
  <2> QED
    BY <1>1, <2>1, <2>2, SettledLeft
<1>4. ASSUME \/ Connects(s) \/ Withdraws(s) \/ Disconnects(s)
             \/ Notified(s) \/ Boundary(s)
      PROVE  Settled(o)'
  <2>1. /\ \E p \in Parties : \E r : Goto(p, s, r)
        /\ UNCHANGED <<described, wired, ours>>
    BY <1>4 DEF Connects, Withdraws, Disconnects, Notified, Boundary, bus, Parties
  <2> QED
    BY <1>1, <2>1, SettledLeft
<1> QED
  BY <1>2, <1>3, <1>4

LEMMA SettledStep ==
  ASSUME ~Overlap, BridgesTyped, BooksKept, [Next]_vars,
         \A s \in Servers : Settled(s)
  PROVE  \A s \in Servers : Settled(s)'
<1>1. ASSUME UNCHANGED <<described, wired, ours, sync>>, NEW s \in Servers
      PROVE  Settled(s)'
  BY <1>1, SettledLeft
<1>2. CASE Elsewhere
  BY <1>1, <1>2 DEF Elsewhere, bus, bridge
<1>3. ASSUME NEW s \in Servers, Changes(s) PROVE \A o \in Servers : Settled(o)'
  BY <1>1, <1>3 DEF Changes, bus, bridge
<1>4. ASSUME NEW s \in Servers,
             \/ Connects(s) \/ Withdraws(s) \/ Disconnects(s)
             \/ Notified(s) \/ Boundary(s)
             \/ \E p \in Parties : Sync(p, s) \/ Fails(p, s)
      PROVE  \A o \in Servers : Settled(o)'
  <2>1. Settled(s)'
    <3>0. "main" \in Parties /\ "push" \in Parties /\ "pull" \in Parties
      BY DEF Parties
    <3>1. CASE \/ Connects(s) \/ Withdraws(s) \/ Disconnects(s)
               \/ Notified(s) \/ Boundary(s)
      BY <3>0, <3>1, TurnSettles, OutsideSettles
    <3>2. ASSUME NEW p \in Parties, Sync(p, s) \/ Fails(p, s)
          PROVE  Settled(s)'
      BY <3>2, TurnSettles, OutsideSettles, WriteSettles DEF Sync
    <3> QED
      BY <1>4, <3>1, <3>2
  <2>2. ASSUME NEW o \in Servers \ {s} PROVE Settled(o)'
    BY <1>4, OneBridge
  <2> QED
    BY <2>1, <2>2
<1> QED
  BY <1>2, <1>3, <1>4, StepsOfThePlane

\* Where a bridge is entered by one thread at a time, the bus is the sum of its
\* owners: in the namespace of a bridge nobody is in are exactly the names the
\* bridge says it registered, and the compiled-in tools stay what they were.
THEOREM PlaneHasNoStrays == ~Overlap => (Spec => []NoStrayTool)
<1> SUFFICES ASSUME ~Overlap PROVE Spec => []NoStrayTool
  OBVIOUS
<1> DEFINE Inv == /\ BridgesTyped /\ BooksKept
                  /\ \A s \in Servers : Settled(s)
<1>1. Init => Inv
  BY BridgesStart, BooksStart, SettledStart
<1>2. Inv /\ [Next]_vars => Inv'
  BY BridgesStep, BooksStep, SettledStep
<1>3. Inv => NoStrayTool
  <2> SUFFICES ASSUME Inv PROVE NoStrayTool
    OBVIOUS
  <2>1. ASSUME NEW n \in Own
        PROVE  /\ n \in DOMAIN described \cap DOMAIN wired
               /\ described[n] = Home /\ wired[n] = Home
    BY DEF BooksKept, Kept, Own
  <2>2. ASSUME NEW s \in Servers, Quiet(s)
        PROVE  /\ {n \in DOMAIN described : described[n] = s} = ours[s]
               /\ {n \in DOMAIN wired : wired[n] = s} = ours[s]
    <3>1. PICK p \in Parties : Account(p, s)
      BY DEF Settled
    <3>2. On(described, s) = ours[s] /\ On(wired, s) = ours[s]
      BY <2>2, <3>1 DEF Quiet, Out, Account, Agrees, Inside
    <3>3. /\ {n \in DOMAIN described : described[n] = s} = On(described, s)
          /\ {n \in DOMAIN wired : wired[n] = s} = On(wired, s)
      BY DEF BooksKept, Kept, On, Local
    <3> QED
      BY <3>2, <3>3
  <2> QED
    BY <2>1, <2>2 DEF NoStrayTool
<1> HIDE DEF Inv
<1> QED
  BY <1>1, <1>2, <1>3, PTL DEF Spec

-----------------------------------------------------------------------------
\* With one thread dispatching, a grant for one call that has been called under
\* is gone and held by nobody, and a call about to run holds none that is left.

Spent ==
  /\ \A g \in Once : uses[g] = 0 \/ (/\ uses[g] = 1 /\ g \notin grants
                                     /\ \A t \in Threads : g \notin call[t].held)
  /\ \A t \in Threads :
        call[t].at = "running" => call[t].held \cap Once \cap grants = {}

LEMMA SpentStart == Init => Spent
  BY DEF Init, BusInit, Spent, NoCall, Once

LEMMA SpentStep ==
  ASSUME NEW t \in Threads, Threads = {t}, CallsTyped, Spent, [Next]_vars
  PROVE  Spent'
<1>0. call[t] \in CallStates /\ uses \in [DOMAIN Granted -> Nat]
      /\ Once \subseteq DOMAIN Granted
  BY DEF CallsTyped, Once
<1>1. CASE UNCHANGED <<engine, calls>>
  BY <1>1 DEF Spent, engine, calls
<1>2. ASSUME NEW g \in DOMAIN Granted, Lapses(g) PROVE Spent'
  BY <1>2 DEF Lapses, Spent, calls
\* A call that loses what it holds, and one that goes on with it.
<1>3. ASSUME call'[t].held \in {{}, call[t].held}, call'[t].at # "running",
             uses' = uses, grants' \subseteq grants
      PROVE  Spent'
  BY <1>3 DEF Spent
<1>4. ASSUME NEW n \in Names, NEW narrowed \in BOOLEAN, Dispatch(t, n, narrowed)
      PROVE  Spent'
  BY <1>3, <1>4 DEF Dispatch, Ends, NoCall, engine, CallsTyped
<1>5. CASE Bind(t)
  BY <1>0, <1>3, <1>5 DEF Bind, Goes, Ends, NoCall, engine, CallsTyped, CallStates
<1>6. CASE Collect(t)
  BY <1>0, <1>3, <1>6 DEF Collect, engine, CallsTyped, CallStates
<1>7. CASE Find(t)
  <2>1. call'[t].at # "running" /\ uses' = uses /\ grants' \subseteq grants
    BY <1>0, <1>7 DEF Find, Ends, NoCall, CallsTyped, CallStates
  <2>2. call'[t].held \subseteq call[t].held \cup grants
    <3>1. Finds(call[t].name) \subseteq grants
      BY DEF Finds
    <3> QED
      BY <1>0, <1>7, <3>1 DEF Find, Ends, NoCall, CallsTyped, CallStates
  <2> QED
    BY <2>1, <2>2 DEF Spent
<1>8. CASE Consume(t)
  <2>1. /\ call'[t].held = call[t].held /\ uses' = uses
        /\ grants' = grants \ (call[t].held \cap Once)
    BY <1>0, <1>8 DEF Consume, Goes, CallsTyped, CallStates
  <2> QED
    BY <2>1 DEF Spent
<1>9. CASE Execute(t)
  <2>1. /\ call[t].at = "running" /\ grants' = grants
        /\ call'[t].held = {} /\ call'[t].at # "running"
    BY <1>9 DEF Execute, Ends, NoCall, engine, CallsTyped
  <2>2. ASSUME NEW g \in Once
        PROVE  uses'[g] = IF g \in call[t].held THEN uses[g] + 1 ELSE uses[g]
    BY <1>0, <1>9 DEF Execute
  <2> QED
    BY <2>1, <2>2 DEF Spent
<1> QED
  BY <1>1, <1>2, <1>4, <1>5, <1>6, <1>7, <1>8, <1>9, StepsApart DEF Apart, Worker

\* "This single tool call only": with one thread dispatching, no call is made
\* under an invocation grant that was called under before.
THEOREM PlaneOneCall ==
  ASSUME NEW t \in Threads, Threads = {t}
  PROVE  Spec => []OneCallPerGrant
<1>1. Init => CallsTyped /\ Spent
  BY CallsTypedStart, SpentStart
<1>2. CallsTyped /\ Spent /\ [Next]_vars => (CallsTyped /\ Spent)'
  BY CallsTypedStep, SpentStep
<1>3. CallsTyped /\ Spent => OneCallPerGrant
  BY DEF Spent, OneCallPerGrant
<1> QED
  BY <1>1, <1>2, <1>3, PTL DEF Spec
=============================================================================
