------------------------------ MODULE ToolBus -------------------------------
(***************************************************************************)
(* The registry every tool call goes through (core/tools/bus.py) and the   *)
(* engine that says whether it may (core/tools/capability.py).  A bus is   *)
(* two dictionaries, written one after the other; a dispatch runs on a     *)
(* worker thread of its own, beside the threads that register and          *)
(* unregister, and reads the one and then the other.  Nothing here takes a *)
(* lock, so a step is one read or one write of something shared.           *)
(*                                                                         *)
(* A name is the namespace it was registered under and a tool.  Compiled-in*)
(* tools have the namespace Home and a scope the profile allows; a tool    *)
(* of a server needs the one scope of its bridge, which only a grant gives.*)
(***************************************************************************)
EXTENDS Naturals, Sequences, FiniteSets, TLC

CONSTANTS
    Home,           \* the namespace of the compiled-in tools
    Compiled,       \* the compiled-in tools
    Servers,        \* the namespaces of the bridged servers
    Tools,          \* the tools a server may offer
    Threads,        \* worker threads a dispatch may be on
    Networked,      \* the servers behind a network transport
    Granted,        \* the grants of the session, in the order they were given
    Nobody          \* no name

ASSUME BusAssumption ==
    /\ Networked \subseteq Servers
    /\ Home \notin Servers
    /\ Nobody \notin [space : Servers \cup {Home}, tool : Tools \cup Compiled]
    /\ \A i \in DOMAIN Granted :
          Granted[i].kind \in {"session", "timed", "invocation"}

VARIABLES
    described,      \* _descriptors: each name, and who registered it
    wired,          \* _executors
    grants,         \* the grants still held, by their place in Granted
    stale,          \* the timed grants whose time is over
    call,           \* per thread: where its dispatch is
    uses            \* history: the calls made under each invocation grant

bus == <<described, wired>>
engine == <<grants, stale>>
calls == <<call, uses>>

Names == [space : Servers \cup {Home}, tool : Tools \cup Compiled]
Own == [space : {Home}, tool : Compiled]

\* An answer is what the model is shown: a result, a refusal or an unknown
\* name.  What is raised is shown to nobody.
Ended == {"answered", "raised"}
NoCall == [at |-> "answered", name |-> Nobody, expired |-> {}, held |-> {},
           again |-> FALSE, narrowed |-> FALSE]

Idle(t) == call[t].at \in Ended
Goes(t, at) == call' = [call EXCEPT ![t].at = at]
Ends(t, at) == call' = [call EXCEPT ![t] = [NoCall EXCEPT !.at = at]]

BusInit ==
    /\ described = [n \in Own |-> Home]
    /\ wired = described
    /\ grants = DOMAIN Granted
    /\ stale = {}
    /\ call = [t \in Threads |-> NoCall]
    /\ uses = [g \in DOMAIN Granted |-> 0]

-----------------------------------------------------------------------------
(* register and unregister: two writes each. *)

Entered(book, n, owner) ==
    [m \in DOMAIN book \cup {n} |-> IF m = n THEN owner ELSE book[m]]
Describe(n, owner) == described' = Entered(described, n, owner)
Wire(n, owner) == wired' = Entered(wired, n, owner)

Dropped(book, n) == [m \in DOMAIN book \ {n} |-> book[m]]
Undescribe(n) == described' = Dropped(described, n)
Unwire(n) == wired' = Dropped(wired, n)

-----------------------------------------------------------------------------
Once == {g \in DOMAIN Granted : Granted[g].kind = "invocation"}

(* check: what a scope needs, and which grant gives it. *)

\* Compiled-in scopes are the profile's, and a step narrowed to them has no
\* other, however it was granted.
InPolicy(n) == n.space = Home

Gives(g, n) ==
    /\ g \in grants \ stale
    /\ n \in Granted[g].covers

\* _find_active_grant: the first in the list.
Finds(n) == {g \in grants : Gives(g, n) /\ \A h \in grants :
                                              Gives(h, n) => g <= h}

\* A timed grant's time is over.
Lapses(g) ==
    /\ Granted[g].kind = "timed" /\ g \notin stale
    /\ stale' = stale \cup {g}
    /\ UNCHANGED <<bus, grants, calls>>

\* dispatch: a name the registry does not know is answered at once.
Dispatch(t, n, narrowed) ==
    /\ Idle(t)
    /\ IF n \in DOMAIN described
       THEN call' = [call EXCEPT ![t] = [NoCall EXCEPT
                       !.at = "found", !.name = n, !.narrowed = narrowed]]
       ELSE Ends(t, "answered")
    /\ UNCHANGED <<bus, engine, uses>>

\* self._executors[tool_name]: a KeyError when the name went in between, or
\* has been described and not wired yet; no handler of dispatch is around it.
Bind(t) ==
    /\ call[t].at = "found"
    /\ IF call[t].name \in DOMAIN wired THEN Goes(t, "bound")
                                         ELSE Ends(t, "raised")
    /\ UNCHANGED <<bus, engine, uses>>

\* expire_stale_grants, and then the look for a grant.
Collect(t) ==
    /\ call[t].at = "bound"
    /\ call' = [call EXCEPT ![t].at = "expiring",
                            ![t].expired = grants \cap stale]
    /\ UNCHANGED <<bus, engine, uses>>

Find(t) ==
    LET n == call[t].name
        left == grants \ call[t].expired
    IN /\ call[t].at = "expiring"
       /\ IF ~(call[t].expired \subseteq grants)    \* list.remove(x): x not in list
          THEN Ends(t, "raised") /\ UNCHANGED grants
          ELSE /\ grants' = left
               /\ IF ~InPolicy(n) /\ (call[t].narrowed \/ Finds(n) = {})
                  THEN Ends(t, "answered")
                  ELSE call' = [call EXCEPT
                         ![t].at = "checked", ![t].expired = {},
                         ![t].held = IF InPolicy(n) THEN @ ELSE @ \cup Finds(n)]
       /\ UNCHANGED <<bus, stale, uses>>

Consume_Kept(t) ==
    /\ call[t].at = "checked"
    /\ IF call[t].name.space \in Networked /\ ~call[t].again
       THEN call' = [call EXCEPT ![t].at = "bound", ![t].again = TRUE]
       ELSE Goes(t, "running")
    /\ UNCHANGED <<bus, engine, uses>>

\* The invocation grants among them are consumed, if they are still there;
\* and a tool that needs the network is checked a second time.
Consume(t) ==
    /\ call[t].at = "checked"
    /\ grants' = grants \ (call[t].held \cap Once)
    /\ IF call[t].name.space \in Networked /\ ~call[t].again
       THEN call' = [call EXCEPT ![t].at = "bound", ![t].again = TRUE]
       ELSE Goes(t, "running")
    /\ UNCHANGED <<bus, stale, uses>>

\* The executor, whatever it returns or raises, is answered and audited.
Execute(t) ==
    /\ call[t].at = "running"
    /\ uses' = [g \in DOMAIN uses |->
                  IF g \in call[t].held \cap Once THEN uses[g] + 1
                                                  ELSE uses[g]]
    /\ Ends(t, "answered")
    /\ UNCHANGED <<bus, engine>>

Worker(t) == Bind(t) \/ Collect(t) \/ Find(t) \/ Consume(t) \/ Execute(t)

BusTypeOK ==
    /\ DOMAIN described \cup DOMAIN wired \subseteq Names
    /\ grants \subseteq DOMAIN Granted
    /\ stale \subseteq DOMAIN Granted
    /\ \A t \in Threads :
          /\ call[t].at \in Ended \cup {"found", "bound", "expiring",
                                        "checked", "running"}
          /\ call[t].held \subseteq DOMAIN Granted
=============================================================================
