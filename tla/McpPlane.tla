----------------------------- MODULE McpPlane ------------------------------
(***************************************************************************)
(* The tools of remote servers on the bus (core/tools/mcp_client.py): for  *)
(* each server a client, with a session on a thread of its own and a cache *)
(* of tools/list, and a bridge that makes the bus agree with the list.     *)
(* Three threads may be inside a bridge: the one that starts and stops the *)
(* fleet (main), the session's, when the server notifies it (push), and    *)
(* the mission's loop, at a step boundary (pull, through ToolBus.resync).  *)
(* The dispatches of ToolBus go on beside all of them.                     *)
(*                                                                         *)
(* With Overlap, they meet inside a bridge as they may in the code, which  *)
(* takes no lock; without, a bridge is entered by one at a time.           *)
(***************************************************************************)
EXTENDS ToolBus

CONSTANTS
    Overlap,        \* whether two threads may be inside one bridge
    MaxChanges,     \* bound: times a server changes what it offers
    MaxTimeouts     \* bound: re-lists that are not answered in time

ASSUME PlaneAssumption ==
    /\ Overlap \in BOOLEAN
    /\ {MaxChanges, MaxTimeouts} \subseteq Nat

VARIABLES
    offered,        \* what each server offers
    notes,          \* tools/list_changed on its way to each client
    session,        \* whether each client's session is up
    cache,          \* McpClient._tools
    ours,           \* McpToolBridge._registered
    followed,       \* the servers follow_changes was called for
    withdrawn,      \* the servers whose bridge was withdrawn
    sync,           \* per thread and server: where it is in a sync
    fleet,          \* starting, serving, stopping, stopped
    changes,
    timeouts

client == <<session, cache>>
bridge == <<ours, followed, withdrawn, sync>>
world == <<offered, notes, changes, timeouts>>
vars == <<bus, engine, calls, client, bridge, world, fleet>>

Parties == {"main", "push", "pull"}
NoSync == [at |-> "idle", names |-> {}, todo |-> {}, half |-> Nobody]

LocalName_Bare(s, tool) == [space |-> Home, tool |-> tool]

\* local_name: the namespace keeps a server off every other's names.
LocalName(s, tool) == [space |-> s, tool |-> tool]

Out(p, s) == sync[p][s].at = "idle"
Quiet(s) == \A p \in Parties : Out(p, s)

\* Inside the bridge: from reading the list to writing _registered.
Inside == {"registering", "removing"}
MayEnter(s) == Overlap \/ \A p \in Parties : sync[p][s].at \notin Inside

At(p, s, at) == sync[p][s].at = at
Goto(p, s, record) == sync' = [sync EXCEPT ![p][s] = record]

Init ==
    /\ BusInit
    /\ offered \in [Servers -> SUBSET Tools]
    /\ notes = [s \in Servers |-> 0]
    /\ session = [s \in Servers |-> FALSE]
    /\ cache = [s \in Servers |-> {}]
    /\ ours = [s \in Servers |-> {}]
    /\ followed = {} /\ withdrawn = {}
    /\ sync = [p \in Parties |-> [s \in Servers |-> NoSync]]
    /\ fleet = "starting"
    /\ changes = 0 /\ timeouts = 0

-----------------------------------------------------------------------------
(* A server offers another set of tools, and says so to its session. *)

Changes_SaidToNobody(s) ==
    /\ changes < MaxChanges
    /\ changes' = changes + 1
    /\ \E new \in SUBSET Tools :
          /\ new # offered[s]
          /\ offered' = [offered EXCEPT ![s] = new]
    /\ notes' = [notes EXCEPT ![s] = @ + 1]
    /\ UNCHANGED <<bus, engine, calls, client, bridge, fleet, timeouts>>

Changes(s) ==
    /\ changes < MaxChanges
    /\ changes' = changes + 1
    /\ \E new \in SUBSET Tools :
          /\ new # offered[s]
          /\ offered' = [offered EXCEPT ![s] = new]
    /\ notes' = IF session[s] THEN [notes EXCEPT ![s] = @ + 1] ELSE notes
    /\ UNCHANGED <<bus, engine, calls, client, bridge, fleet, timeouts>>

-----------------------------------------------------------------------------
(* tools/list: the request, the answer, and who adopts it. *)

\* _on_message and _refresh_tools: the session thread asks again.
Notified(s) ==
    /\ session[s] /\ notes[s] > 0 /\ Out("push", s)
    /\ notes' = [notes EXCEPT ![s] = @ - 1]
    /\ Goto("push", s, [NoSync EXCEPT !.at = "asked"])
    /\ UNCHANGED <<bus, engine, calls, client, ours, followed, withdrawn, offered, fleet,
                   changes, timeouts>>

\* ToolBus.resync: at a step boundary the loop asks every followed server, one
\* after the other.
Boundary(s) ==
    /\ fleet = "serving" /\ s \in followed
    /\ \A r \in Servers : Out("pull", r)
    /\ Goto("pull", s, [NoSync EXCEPT !.at = "asked"])
    /\ UNCHANGED <<bus, engine, calls, client, ours, followed, withdrawn, world, fleet>>

\* The answer is what the server offers when it answers.
Answered(p, s) ==
    /\ At(p, s, "asked") /\ session[s]
    /\ Goto(p, s, [sync[p][s] EXCEPT !.at = "answered", !.names = offered[s]])
    /\ UNCHANGED <<bus, engine, calls, client, ours, followed, withdrawn, world, fleet>>

\* A request fails; or a boundary waits relist_timeout() and no longer, and
\* the last set stands.
Fails(p, s) ==
    /\ At(p, s, "asked")
    /\ timeouts < MaxTimeouts
    /\ timeouts' = timeouts + 1
    /\ Goto(p, s, NoSync)
    /\ UNCHANGED <<bus, engine, calls, client, ours, followed, withdrawn, offered, notes,
                   changes, fleet>>

\* self._tools = the answer.  A push nobody listens to ends here.
Adopted(p, s) ==
    /\ At(p, s, "answered")
    /\ cache' = [cache EXCEPT ![s] = sync[p][s].names]
    /\ Goto(p, s, IF p = "push" /\ s \notin followed THEN NoSync
                  ELSE [NoSync EXCEPT !.at = "adopted"])
    /\ UNCHANGED <<bus, engine, calls, session, ours, followed, withdrawn, world, fleet>>

-----------------------------------------------------------------------------
(* sync: register what is listed, unregister what is gone, write it down. *)

Enters(p, s) ==
    /\ At(p, s, "adopted") /\ MayEnter(s)
    /\ LET names == {LocalName(s, tool) : tool \in cache[s]}
       IN Goto(p, s, [at |-> "registering", names |-> names, todo |-> names,
                      half |-> Nobody])
    /\ UNCHANGED <<bus, engine, calls, client, ours, followed, withdrawn, world, fleet>>

\* The two writes of a registration, or of its opposite.
FirstWrite(p, s) ==
    /\ sync[p][s].at \in {"registering", "removing"}
    /\ sync[p][s].half = Nobody
    /\ \E n \in sync[p][s].todo :
          /\ IF At(p, s, "registering") THEN Describe(n, s) ELSE Undescribe(n)
          /\ Goto(p, s, [sync[p][s] EXCEPT !.half = n])
    /\ UNCHANGED <<wired, engine, calls, client, ours, followed, withdrawn, world, fleet>>

SecondWrite(p, s) ==
    LET n == sync[p][s].half
    IN /\ n # Nobody
       /\ IF At(p, s, "registering") THEN Wire(n, s) ELSE Unwire(n)
       /\ Goto(p, s, [sync[p][s] EXCEPT !.half = Nobody, !.todo = @ \ {n}])
       /\ UNCHANGED <<described, engine, calls, client, ours, followed, withdrawn, world,
                      fleet>>

Finished(p, s, at) ==
    At(p, s, at) /\ sync[p][s].todo = {} /\ sync[p][s].half = Nobody

Gone_None(p, s) == {}

\* What it had registered and the list has no more.
Gone(p, s) == ours[s] \ sync[p][s].names

Compares(p, s) ==
    /\ Finished(p, s, "registering")
    /\ Goto(p, s, [sync[p][s] EXCEPT !.at = "removing", !.todo = Gone(p, s)])
    /\ UNCHANGED <<bus, engine, calls, client, ours, followed, withdrawn, world, fleet>>

\* follow_changes comes after the first sync, and the fleet's next server
\* after that.
Records(p, s) ==
    /\ Finished(p, s, "removing")
    /\ ours' = [ours EXCEPT ![s] = sync[p][s].names]
    /\ Goto(p, s, NoSync)
    /\ UNCHANGED withdrawn
    /\ followed' = IF p = "main" /\ fleet = "starting"
                   THEN followed \cup {s} ELSE followed
    /\ UNCHANGED <<bus, engine, calls, client, world, fleet>>

Sync(p, s) ==
    \/ Answered(p, s) \/ Adopted(p, s) \/ Enters(p, s) \/ FirstWrite(p, s)
    \/ SecondWrite(p, s) \/ Compares(p, s) \/ Records(p, s)

-----------------------------------------------------------------------------
(* McpFleet.start and stop. *)

\* A server's session comes up with its list, and the bridge is synced.
Connects(s) ==
    /\ fleet = "starting" /\ ~session[s] /\ s \notin followed
    /\ \A r \in Servers : Out("main", r)
    /\ session' = [session EXCEPT ![s] = TRUE]
    /\ cache' = [cache EXCEPT ![s] = offered[s]]
    /\ Goto("main", s, [NoSync EXCEPT !.at = "adopted"])
    /\ UNCHANGED <<bus, engine, calls, ours, followed, withdrawn, world, fleet>>

Serves ==
    /\ fleet = "starting" /\ followed = Servers
    /\ fleet' = "serving"
    /\ UNCHANGED <<bus, engine, calls, client, bridge, world>>

\* A server that cannot be reached, or the end of the run.
Stops ==
    /\ \A s \in Servers : Out("main", s) /\ Out("pull", s)
    /\ \/ fleet = "starting" /\ followed # Servers
       \/ fleet = "serving"
    /\ fleet' = "stopping"
    /\ UNCHANGED <<bus, engine, calls, client, bridge, world>>

\* withdraw: what this bridge registered, and nothing is left to its name.
\* Its listener stays where follow_changes put it.
Withdraws(s) ==
    /\ fleet = "stopping" /\ s \in followed \ withdrawn
    /\ \A r \in Servers : Out("main", r)
    /\ MayEnter(s)
    /\ Goto("main", s, [NoSync EXCEPT !.at = "removing", !.todo = ours[s]])
    /\ withdrawn' = withdrawn \cup {s}
    /\ UNCHANGED <<bus, engine, calls, client, ours, followed, world, fleet>>

\* McpClient.stop, when every bridge is withdrawn: the session thread finishes
\* what it is in the middle of and ends.
Disconnects(s) ==
    /\ fleet = "stopping" /\ session[s] /\ withdrawn = followed
    /\ \A r \in Servers : Out("main", r)
    /\ sync["push"][s].at \in {"idle", "asked", "answered"}
    /\ session' = [session EXCEPT ![s] = FALSE]
    /\ Goto("push", s, NoSync)
    /\ notes' = [notes EXCEPT ![s] = 0]
    /\ UNCHANGED <<bus, engine, calls, cache, ours, followed, withdrawn, offered, changes,
                   timeouts, fleet>>

Stopped ==
    /\ fleet = "stopping" /\ withdrawn = followed
    /\ \A s \in Servers : ~session[s] /\ Quiet(s)
    /\ fleet' = "stopped"
    /\ UNCHANGED <<bus, engine, calls, client, bridge, world>>

-----------------------------------------------------------------------------
(* The mission calls what it has been told of, and whatever it makes up; its *)
(* loop is blocked while a boundary re-lists.                                *)

Calls(t, n, narrowed) ==
    /\ fleet = "serving"
    /\ \A s \in Servers : Out("pull", s)
    /\ narrowed => ~InPolicy(n)
    /\ Dispatch(t, n, narrowed)
    /\ UNCHANGED <<client, bridge, world, fleet>>

Works(t) == Worker(t) /\ UNCHANGED <<client, bridge, world, fleet>>

TimePasses(g) == Lapses(g) /\ UNCHANGED <<client, bridge, world, fleet>>

Fleet ==
    \/ Serves \/ Stopped
    \/ \E s \in Servers : Connects(s) \/ Withdraws(s) \/ Disconnects(s)

Next ==
    \/ Fleet \/ Stops
    \/ \E s \in Servers :
          \/ Changes(s) \/ Notified(s) \/ Boundary(s) 
          \/ \E p \in Parties : Sync(p, s) \/ Fails(p, s)
    \/ \E t \in Threads :
          \/ Works(t)
          \/ \E n \in Names, narrowed \in BOOLEAN : Calls(t, n, narrowed)
    \/ \E g \in DOMAIN Granted : TimePasses(g)

Spec == Init /\ [][Next]_vars

\* The threads are scheduled and a server answers; a mission that goes on
\* comes to its next boundary.  Nobody need change or stop anything.
FairSpec ==
    /\ Spec
    /\ WF_vars(Fleet)
    /\ \A s \in Servers :
          /\ WF_vars(Notified(s))
          /\ SF_vars(Boundary(s))
          /\ \A p \in Parties : WF_vars(Sync(p, s))

-----------------------------------------------------------------------------
(* Properties *)

TypeOK ==
    /\ BusTypeOK
    /\ offered \in [Servers -> SUBSET Tools]
    /\ cache \in [Servers -> SUBSET Tools]
    /\ withdrawn \subseteq followed /\ followed \subseteq Servers
    /\ \A s \in Servers : notes[s] \in 0..(IF session[s] THEN changes ELSE 0)
    /\ \A s \in Servers, p \in Parties :
          /\ sync[p][s].at \in {"idle", "asked", "answered", "adopted"} \cup Inside
          /\ sync[p][s].half \in sync[p][s].todo \cup {Nobody}

\* The bus is the sum of its owners: when nobody is inside a bridge, the names
\* of its namespace are exactly the ones it says it registered, each with its
\* executor, and the compiled-in tools are what they were, whatever the servers
\* call theirs.
NoStrayTool ==
    /\ \A n \in Own : n \in DOMAIN described \cap DOMAIN wired
                      /\ described[n] = Home /\ wired[n] = Home
    /\ \A s \in Servers :
          Quiet(s) => {n \in DOMAIN described : described[n] = s} = ours[s]
                      /\ {n \in DOMAIN wired : wired[n] = s} = ours[s]

\* A fleet that stopped, or failed half way up, has left nothing behind.
NothingOutlivesFleet ==
    fleet = "stopped" => DOMAIN described = Own /\ DOMAIN wired = Own

\* "This single tool call only": an invocation grant is one call.
OneCallPerGrant ==
    \A g \in Once : uses[g] <= 1

\* An invocation grant that is gone has been used for a call, or a call that
\* holds it is on its way.
GrantBuysACall ==
    \A g \in Once \ grants :
        uses[g] > 0 \/ \E t \in Threads : g \in call[t].held

\* A tool call is answered, whatever the servers do meanwhile.
CallsAreAnswered == \A t \in Threads : call[t].at # "raised"

\* Once the servers have settled, a mission that goes on sees on the bus what
\* they offer: a notification before anybody listened, an answer adopted late
\* or a re-list that failed is made good at a boundary.
CatchesUp ==
    <>[](fleet = "serving" =>
            \A s \in Servers :
               {n \in DOMAIN wired : wired[n] = s}
                  = {LocalName(s, tool) : tool \in offered[s]})
=============================================================================
