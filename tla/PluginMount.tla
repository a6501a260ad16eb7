------------------------------ MODULE PluginMount ------------------------------
(***************************************************************************)
(* Which agents of the local DSH hold the remote tools                     *)
(* (lib/dsh-plugin.mjs).  The plugin mounts its ten tools in the scope of  *)
(* every live agent with Full Access and takes them back when it hears     *)
(* that the access is gone; an agent's scope passes its tools on to the    *)
(* agents below it, so the plugin masks what others inherit.  The ten      *)
(* come and go together and stand here for one; a foreign tool stands for  *)
(* one of the same name that somebody else registers for everybody.        *)
(*                                                                         *)
(* DSH is external: its registry of agents, its permission presets, its    *)
(* tool scopes (one's own tools come first and are not masked; a mask is   *)
(* by name) and its events.  A permission can change before its event is   *)
(* sent, or without one.  Every handler of the plugin is one step.         *)
(***************************************************************************)
EXTENDS Naturals, Sequences, FiniteSets

CONSTANTS
    Order,          \* the agents, in the order of DSH's list
    Parent,         \* the agent in whose scope each lives, or None
    None,
    MaxChanges      \* bound: changes of permissions, turns and foreign tools

Agents == {Order[n] : n \in DOMAIN Order}

ASSUME OrderAssumption == Order \in Seq(Agents)
ASSUME ParentAssumption == None \notin Agents /\ Parent \in [Agents -> Agents \cup {None}]
ASSUME FlatAssumption == \A a \in Agents : Parent[a] # None => Parent[Parent[a]] = None
ASSUME BoundAssumption == MaxChanges \in Nat

VARIABLES
    live,       \* agents in DSH's registry
    removed,    \* agents that left it
    full,       \* agents whose preset is Full Access
    relay,      \* agents whose current turn came from a relay message
    foreign,    \* whether a foreign tool with one of the names is registered
    tools,      \* the plugin: [on, rec, active, masked, made, queued]
    held,       \* the reference each agent holds: [owner, rec]
    stale,      \* history: agents of which the plugin heard nothing since they changed
    wrong,      \* history: whether an operation ever ran without authority
    changes

dsh == <<live, removed, full, relay, foreign, changes>>
vars == <<dsh, tools, held, stale, wrong>>

NoRec == 0
NoReference == [owner |-> None, rec |-> NoRec]

\* The type invariant: a mount belongs to one agent, and its record is active for as
\* long as the agent has it.
TypeOK ==
    /\ live \subseteq Agents /\ removed \subseteq Agents \ live
    /\ full \subseteq Agents /\ relay \subseteq Agents /\ foreign \in BOOLEAN
    /\ tools \in [on : {"no", "yes", "stopped"}, rec : [Agents -> 0..tools.made],
                  active : SUBSET (1..tools.made), masked : SUBSET Agents, made : Nat,
                  queued : BOOLEAN]
    /\ \A a, b \in Agents : tools.rec[a] = tools.rec[b] => a = b \/ tools.rec[a] = NoRec
    /\ tools.active = {tools.rec[a] : a \in Agents} \ {NoRec}
    /\ held \in [Agents -> [owner : Agents \cup {None}, rec : 0..tools.made]]
    /\ stale \subseteq live \cup removed /\ wrong \in BOOLEAN /\ changes \in 0..MaxChanges

Init ==
    /\ live = {} /\ removed = {} /\ full = {} /\ relay = {} /\ foreign = FALSE
    /\ tools = [on |-> "no", rec |-> [a \in Agents |-> NoRec], active |-> {},
                masked |-> {}, made |-> 0, queued |-> FALSE]
    /\ held = [a \in Agents |-> NoReference]
    /\ stale = {} /\ wrong = FALSE
    /\ changes = 0

-----------------------------------------------------------------------------
(* The plugin's functions, on its state t. *)

Admitted(a) == a \in live \cap full

\* What an agent finds under one of the names, when it is a tool of the plugin.
Inherits(t, a) == Parent[a] # None /\ t.rec[Parent[a]] # NoRec /\ a \notin t.masked

Seen(t, a) ==
    IF t.rec[a] # NoRec THEN [owner |-> a, rec |-> t.rec[a]]
    ELSE IF Inherits(t, a) THEN [owner |-> Parent[a], rec |-> t.rec[Parent[a]]]
    ELSE NoReference

MaskInherited(t, a) == IF Inherits(t, a) THEN [t EXCEPT !.masked = @ \cup {a}] ELSE t

QueueOnly(t) == [t EXCEPT !.queued = TRUE]      \* mutant: masking waits for the refresh

\* The handler of tools/change: agents without access are masked at once, the rest waits
\* for a microtask.
ToolsChange(t) ==
    IF t.on # "yes" THEN t
    ELSE [t EXCEPT !.masked = @ \cup {a \in live \ full : Inherits(t, a)},
                   !.queued = TRUE]

UnmountSilently(t, a) ==        \* mutant: the record stays active
    IF t.rec[a] = NoRec THEN t ELSE ToolsChange([t EXCEPT !.rec[a] = NoRec])

\* The record of a mount that is taken back never becomes active again.
Unmount(t, a) ==
    IF t.rec[a] = NoRec THEN t
    ELSE ToolsChange([t EXCEPT !.rec[a] = NoRec, !.active = @ \ {t.rec[a]}])

Mount(t, a) ==
    LET r == t.made + 1 IN
    ToolsChange([t EXCEPT !.rec[a] = r, !.active = @ \cup {r}, !.made = r])

Conflict(t, a) == foreign /\ a \notin t.masked

MountWhere(t, a) ==
    IF t.rec[a] # NoRec THEN t
    ELSE LET u == MaskInherited(t, a) IN IF Conflict(u, a) THEN u ELSE Mount(u, a)

Reconcile(t, a) ==
    IF a \notin live THEN Unmount(t, a)
    ELSE IF Admitted(a) THEN MountWhere(t, a)
    ELSE MaskInherited(Unmount(t, a), a)

\* The agents of the list, one after the other.
ReconcileAll(t) ==
    LET after[n \in 0..Len(Order)] ==
            IF n = 0 THEN t
            ELSE IF Order[n] \in live THEN Reconcile(after[n - 1], Order[n])
            ELSE after[n - 1]
    IN  after[Len(Order)]

-----------------------------------------------------------------------------
(* DSH changes, and tells. *)

Change == changes < MaxChanges /\ changes' = changes + 1

Create(a, access) ==
    /\ a \notin live \cup removed
    /\ Parent[a] # None => Parent[a] \in live
    /\ live' = live \cup {a}
    /\ full' = IF access THEN full \cup {a} ELSE full
    /\ stale' = stale \cup {a}
    /\ UNCHANGED <<removed, relay, foreign, changes, tools, held, wrong>>

SetPermission(a) ==
    /\ Change /\ a \in live
    /\ full' = IF a \in full THEN full \ {a} ELSE full \cup {a}
    /\ stale' = stale \cup {a}
    /\ UNCHANGED <<live, removed, relay, foreign, tools, held, wrong>>

\* A relay message begins a turn, or the turn ends.
SetTurn(a) ==
    /\ Change /\ a \in live
    /\ relay' = IF a \in relay THEN relay \ {a} ELSE relay \cup {a}
    /\ UNCHANGED <<live, removed, full, foreign, tools, held, stale, wrong>>

\* A foreign tool with one of the names comes or goes.
SetForeign ==
    /\ Change
    /\ foreign' = ~foreign
    /\ tools' = ToolsChange(tools)
    /\ UNCHANGED <<live, removed, full, relay, held, stale, wrong>>

Leave(a) ==
    /\ a \in live
    /\ live' = live \ {a} /\ removed' = removed \cup {a}
    /\ stale' = stale \cup {a}
    /\ UNCHANGED <<full, relay, foreign, changes, tools, held, wrong>>

Start ==
    /\ tools.on = "no"
    /\ tools' = ReconcileAll([tools EXCEPT !.on = "yes"])
    /\ stale' = stale \ live
    /\ UNCHANGED <<dsh, held, wrong>>

\* agent/created, a session event, or the next step of the agent.
Hear(a) ==
    /\ tools.on = "yes" /\ a \in live
    /\ tools' = Reconcile(tools, a)
    /\ stale' = stale \ {a}
    /\ UNCHANGED <<dsh, held, wrong>>

\* The catalogue of presets changed.
HearAll ==
    /\ tools.on = "yes"
    /\ tools' = ReconcileAll(tools)
    /\ stale' = stale \ live
    /\ UNCHANGED <<dsh, held, wrong>>

\* agent/disposed.
HearDisposed(a) ==
    LET t == Unmount(tools, a) IN
    /\ tools.on = "yes" /\ a \in removed \cap stale
    /\ tools' = [t EXCEPT !.masked = @ \ {a}]
    /\ stale' = stale \ {a}
    /\ UNCHANGED <<dsh, held, wrong>>

\* The microtask.
Refresh ==
    /\ tools.queued
    /\ LET t == [tools EXCEPT !.queued = FALSE] IN
       tools' = IF t.on = "yes" THEN ReconcileAll(t) ELSE t
    /\ stale' = IF tools.on = "yes" THEN stale \ live ELSE stale
    /\ UNCHANGED <<dsh, held, wrong>>

Stop ==
    /\ tools.on = "yes"
    /\ tools' = [tools EXCEPT !.on = "stopped", !.rec = [a \in Agents |-> NoRec],
                              !.active = {}, !.masked = {}]
    /\ UNCHANGED <<dsh, held, stale, wrong>>

-----------------------------------------------------------------------------
(* Calls of the tools. *)

\* The agent's turn takes what it sees and asks for permission; it may keep the
\* reference for later calls, which the hook may not see.
Call(a) ==
    /\ tools.on = "yes" /\ Seen(tools, a) # NoReference /\ held[a] = NoReference
    /\ tools' = Reconcile(tools, a)
    /\ held' = IF Admitted(a) /\ a \notin relay
               THEN [held EXCEPT ![a] = Seen(tools, a)] ELSE held
    /\ stale' = stale \ (live \cap {a})
    /\ UNCHANGED <<dsh, wrong>>

AdmittedNow(a) == tools.on = "yes" /\ Admitted(held[a].owner)       \* mutant
ActiveAndAdmitted(a) ==
    /\ held[a].rec \in tools.active /\ tools.on = "yes" /\ Admitted(held[a].owner)

Authority(a) ==
    /\ held[a] = [owner |-> a, rec |-> tools.rec[a]]
    /\ tools.on = "yes" /\ Admitted(a) /\ a \notin relay

\* The guard inside every tool.
Execute(a) ==
    LET ref == held[a] IN
    /\ ref # NoReference /\ ref.owner = a
    /\ ActiveAndAdmitted(a) /\ a \notin relay
    /\ wrong' = (wrong \/ ~Authority(a))
    /\ UNCHANGED <<dsh, tools, held, stale>>

\* A refused call takes a mount back whose agent lost its access.
ExecuteRefused(a) ==
    LET ref == held[a] IN
    /\ ref # NoReference
    /\ ref.owner # a \/ ~ActiveAndAdmitted(a) \/ a \in relay
    /\ tools' = IF ref.owner = a /\ ~ActiveAndAdmitted(a) /\ tools.rec[a] = ref.rec
                THEN Unmount(tools, a) ELSE tools
    /\ UNCHANGED <<dsh, held, stale, wrong>>

Forget(a) ==
    /\ held[a] # NoReference
    /\ held' = [held EXCEPT ![a] = NoReference]
    /\ UNCHANGED <<dsh, tools, stale, wrong>>

Next ==
    \/ \E a \in Agents :
          \/ \E access \in BOOLEAN : Create(a, access)
          \/ SetPermission(a) \/ SetTurn(a) \/ Leave(a)
          \/ Hear(a) \/ HearDisposed(a)
          \/ Call(a) \/ Execute(a) \/ ExecuteRefused(a) \/ Forget(a)
    \/ SetForeign \/ HearAll \/ Refresh \/ Start \/ Stop

Spec == Init /\ [][Next]_vars

-----------------------------------------------------------------------------
(* Properties. *)

Known == {a \in live \ stale : tools.on = "yes"}

\* An agent without Full Access sees none of the plugin's tools, its own or inherited, as
\* soon as the plugin heard of it, whatever is mounted, masked and taken back around it
\* (lib/dsh-plugin.mjs:154-180, :210-220).
LimitedSeesNone == \A a \in Known \ full : Seen(tools, a) = NoReference

\* When no refresh is pending, an agent with Full Access has tools of its own, unless a
\* foreign tool takes a name (lib/dsh-plugin.mjs:174-200, :221-227).
FullHasItsOwn ==
    ~tools.queued =>
        \A a \in Known \cap full : tools.rec[a] # NoRec \/ Conflict(tools, a)

\* What an operation runs by is the agent's own mount of its present grant: a reference
\* kept from an earlier grant, or from another agent, never runs again, even after a
\* new grant (lib/dsh-plugin.mjs:186-194).
RunsAreAuthorised == ~wrong

\* Once stopped, the plugin leaves nothing behind and mounts nothing again; an agent that
\* was disposed of leaves nothing either (lib/dsh-plugin.mjs:203-207, :240-248).
NothingLeftBehind ==
    /\ tools.on = "stopped" => tools.active = {} /\ tools.masked = {}
    /\ \A a \in removed \ stale : tools.on = "yes" =>
          tools.rec[a] = NoRec /\ a \notin tools.masked

\* The tools are where the access is: masked, mounted and taken back together
\* (lib/dsh-plugin.mjs:154-248).
ToolsFollowAccess == LimitedSeesNone /\ FullHasItsOwn /\ NothingLeftBehind
=============================================================================
