-------------------------- MODULE PluginMountProofs --------------------------
(***************************************************************************)
(* Proofs about PluginMount, for any list of agents.  What one reconcile   *)
(* does to the agent it is for and to the others; what a pass over the     *)
(* list leaves, by induction on its positions; then the invariant, action  *)
(* by action, and the theorems.                                            *)
(***************************************************************************)
EXTENDS PluginMount, WellFoundedInduction, TLAPS

-----------------------------------------------------------------------------
(* The inductive invariant.  Its parts are about a state t of the plugin.  *)

ToolsState ==
    [on : {"no", "yes", "stopped"}, rec : [Agents -> Nat], active : SUBSET Nat,
     masked : SUBSET Agents, made : Nat, queued : BOOLEAN]

\* A record is of one agent, was made by the plugin, and is active while the agent has it.
MountsOK(t) ==
    /\ t \in ToolsState
    /\ \A a \in Agents : t.rec[a] <= t.made
    /\ \A a, b \in Agents : t.rec[a] = t.rec[b] => a = b \/ t.rec[a] = NoRec
    /\ t.active = {t.rec[a] : a \in Agents} \ {NoRec}

\* An agent is served as its access asks: nothing of the plugin to be found, or tools of
\* its own unless a foreign one is in the way or a refresh is to come.
Settled(t, a) ==
    /\ a \notin full => t.rec[a] = NoRec /\ ~Inherits(t, a)
    /\ a \in full => t.queued \/ t.rec[a] # NoRec \/ Conflict(t, a)

QuietUnlessOn ==
    tools.on # "yes" => tools.masked = {} /\ \A a \in Agents : tools.rec[a] = NoRec

KnownAreSettled == \A a \in Known : Settled(tools, a)

DisposedAreGone ==
    \A a \in removed \ stale : tools.on = "yes" =>
        tools.rec[a] = NoRec /\ a \notin tools.masked

\* A kept reference names the agent whose mount its record is, if it is anybody's.
HeldNamesItsOwner ==
    \A a, b \in Agents :
        held[a].rec # NoRec /\ tools.rec[b] = held[a].rec => b = held[a].owner

Surroundings ==
    /\ live \subseteq Agents /\ removed \subseteq Agents \ live
    /\ full \subseteq Agents /\ relay \subseteq Agents /\ foreign \in BOOLEAN
    /\ stale \subseteq live \cup removed /\ wrong \in BOOLEAN /\ changes \in 0..MaxChanges

HeldOK ==
    /\ held \in [Agents -> [owner : Agents \cup {None}, rec : Nat]]
    /\ \A a \in Agents : held[a].rec <= tools.made

IInv ==
    /\ Surroundings /\ MountsOK(tools) /\ HeldOK
    /\ QuietUnlessOn /\ KnownAreSettled /\ DisposedAreGone /\ HeldNamesItsOwner
    /\ RunsAreAuthorised

-----------------------------------------------------------------------------
(* The events of the tools, one mount and one unmount.                     *)

\* What follows from an event of the tools: masks, and a refresh to come.
LEMMA ToolsChangeFacts ==
    ASSUME Surroundings, NEW t \in ToolsState
    PROVE  LET u == ToolsChange(t) IN
           /\ u \in ToolsState
           /\ u.on = t.on /\ u.rec = t.rec /\ u.active = t.active /\ u.made = t.made
           /\ t.masked \subseteq u.masked
           /\ u.masked \subseteq t.masked \cup (live \ full)
           /\ t.queued => u.queued
           /\ t.on = "yes" =>
                u.queued /\ \A b \in live \ full : ~Inherits(u, b)
<1> DEFINE u == ToolsChange(t)
           new == {a \in live \ full : Inherits(t, a)}
<1>1. CASE t.on # "yes"
  BY <1>1 DEF ToolsChange
<1>2. CASE t.on = "yes"
  <2>1. u = [t EXCEPT !.masked = t.masked \cup new, !.queued = TRUE]
    BY <1>2 DEF ToolsChange
  <2>2. new \subseteq live \ full /\ new \subseteq Agents
    BY DEF Surroundings
  <2>3. \A b \in live \ full : Inherits(t, b) => b \in new
    OBVIOUS
  <2> HIDE DEF new
  <2>4. /\ u \in ToolsState /\ u.on = t.on /\ u.rec = t.rec /\ u.active = t.active
        /\ u.made = t.made /\ u.masked = t.masked \cup new /\ u.queued
    BY <2>1, <2>2 DEF ToolsState
  <2> HIDE DEF u
  <2>5. ASSUME NEW b \in live \ full, Inherits(u, b) PROVE FALSE
    <3>1. Inherits(t, b)
      BY <2>4, <2>5 DEF Inherits
    <3>2. b \in u.masked
      BY <2>3, <2>4, <3>1
    <3> QED BY <2>5, <3>2 DEF Inherits
  <2>6. \A b \in live \ full : ~Inherits(u, b)
    BY <2>5
  <2> QED BY <1>2, <2>2, <2>4, <2>6 DEF u
<1> QED BY <1>1, <1>2

LEMMA InheritsDependsOn ==
    ASSUME NEW t, NEW u, NEW a, u.rec = t.rec, t.masked \subseteq u.masked, ~Inherits(t, a)
    PROVE  ~Inherits(u, a)
BY DEF Inherits

\* An event of the tools unsettles nobody.
LEMMA ToolsChangeSettles ==
    ASSUME Surroundings, NEW t \in ToolsState, NEW b \in live, Settled(t, b)
    PROVE  Settled(ToolsChange(t), b)
<1> DEFINE u == ToolsChange(t)
<1>1. /\ u.rec = t.rec /\ t.masked \subseteq u.masked /\ (t.queued => u.queued)
      /\ u.masked \subseteq t.masked \cup (live \ full)
  BY ToolsChangeFacts
<1> HIDE DEF u
<1>2. Inherits(u, b) => Inherits(t, b)
  BY <1>1 DEF Inherits
<1>3. b \in full /\ b \notin t.masked => b \notin u.masked
  BY <1>1
<1>4. Settled(u, b)
  BY <1>1, <1>2, <1>3 DEF Settled, Conflict
<1> QED BY <1>4 DEF u

LEMMA MountsKept ==
    ASSUME NEW t, NEW u \in ToolsState, MountsOK(t),
           u.rec = t.rec, u.active = t.active, u.made = t.made
    PROVE  MountsOK(u)
BY DEF MountsOK

\* Taking a mount back leaves every other mount, and every agent settled that was.
LEMMA UnmountFacts ==
    ASSUME Surroundings, NEW t, MountsOK(t), t.on = "yes", NEW a \in Agents
    PROVE  LET u == Unmount(t, a) IN
           /\ MountsOK(u) /\ u.on = t.on /\ u.made = t.made
           /\ u.rec = [t.rec EXCEPT ![a] = NoRec]
           /\ t.masked \subseteq u.masked
           /\ u.masked \subseteq t.masked \cup (live \ full)
           /\ \A b \in live : Settled(t, b) => Settled(u, b)
<1> DEFINE u == Unmount(t, a)
           r == [t.rec EXCEPT ![a] = NoRec]
           x == t.active \ {t.rec[a]}
           v == [t EXCEPT !.rec = r, !.active = x]
<1>0. t \in ToolsState /\ t.rec \in [Agents -> Nat]
  BY DEF MountsOK, ToolsState
<1>1. CASE t.rec[a] = NoRec
  <2>1. u = t /\ t.rec = [t.rec EXCEPT ![a] = NoRec]
    BY <1>0, <1>1 DEF Unmount
  <2> QED BY <2>1
<1>2. CASE t.rec[a] # NoRec
  <2>1. u = ToolsChange(v)
    BY <1>2 DEF Unmount
  <2>2. r \in [Agents -> Nat] /\ x \in SUBSET Nat
    BY <1>0 DEF ToolsState, NoRec
  <2>3. \A b \in Agents : r[b] = IF b = a THEN NoRec ELSE t.rec[b]
    BY <1>0
  <2> HIDE DEF r, x
  <2>4. /\ v \in ToolsState /\ v.on = t.on /\ v.rec = r /\ v.active = x
        /\ v.masked = t.masked /\ v.made = t.made /\ v.queued = t.queued
    BY <1>0, <2>2 DEF ToolsState
  <2> HIDE DEF v
  <2>5. MountsOK(v)
    <3>1. v.active = {v.rec[b] : b \in Agents} \ {NoRec}
      BY <2>3, <2>4 DEF MountsOK, x
    <3>2. \A b \in Agents : v.rec[b] <= v.made
      BY <2>3, <2>4 DEF MountsOK, NoRec, ToolsState
    <3> QED BY <2>3, <2>4, <3>1, <3>2 DEF MountsOK
  <2>6. /\ u \in ToolsState /\ u.on = v.on /\ u.rec = v.rec /\ u.active = v.active
        /\ u.made = v.made /\ v.masked \subseteq u.masked
        /\ u.masked \subseteq v.masked \cup (live \ full)
        /\ u.queued /\ \A b \in live \ full : ~Inherits(u, b)
    <3> HIDE DEF u
    <3> QED BY <2>1, <2>4, ToolsChangeFacts
  <2>7. MountsOK(u)
    BY <2>5, <2>6, MountsKept
  <2>8. \A b \in live : Settled(t, b) => Settled(u, b)
    <3>1. \A b \in live : t.rec[b] = NoRec => u.rec[b] = NoRec
      BY <2>3, <2>4, <2>6 DEF Surroundings
    <3> QED BY <2>6, <3>1 DEF Settled
  <2> QED BY <2>4, <2>6, <2>7, <2>8 DEF r
<1> QED BY <1>1, <1>2

\* Masking what an agent inherits hides it, and touches nothing else.
LEMMA MaskFacts ==
    ASSUME Surroundings, NEW t, MountsOK(t), NEW a \in Agents
    PROVE  LET u == MaskInherited(t, a) IN
           /\ MountsOK(u) /\ u.on = t.on /\ u.made = t.made /\ u.rec = t.rec
           /\ t.masked \subseteq u.masked /\ u.masked \subseteq t.masked \cup {a}
           /\ ~Inherits(u, a)
           /\ \A b \in live \ {a} : Settled(t, b) => Settled(u, b)
<1> DEFINE u == MaskInherited(t, a)
           m == t.masked \cup {a}
<1>0. t \in ToolsState
  BY DEF MountsOK
<1>1. CASE ~Inherits(t, a)
  BY <1>1 DEF MaskInherited
<1>2. CASE Inherits(t, a)
  <2>1. u = [t EXCEPT !.masked = m]
    BY <1>2 DEF MaskInherited
  <2>2. m \in SUBSET Agents /\ a \in m
    BY <1>0 DEF ToolsState
  <2>3. t.masked \subseteq m /\ m \subseteq t.masked \cup {a}
    OBVIOUS
  <2> HIDE DEF m
  <2>4. /\ u \in ToolsState /\ u.on = t.on /\ u.made = t.made /\ u.rec = t.rec
        /\ u.active = t.active /\ u.queued = t.queued /\ u.masked = m
    BY <1>0, <2>1, <2>2 DEF ToolsState
  <2> HIDE DEF u
  <2>5. MountsOK(u)
    BY <2>4, MountsKept
  <2>6. ~Inherits(u, a)
    BY <2>2, <2>4 DEF Inherits
  <2>7. ASSUME NEW b \in live \ {a}, Settled(t, b) PROVE Settled(u, b)
    <3>1. ~Inherits(t, b) => ~Inherits(u, b)
      BY <2>3, <2>4, InheritsDependsOn
    <3>2. Conflict(t, b) => Conflict(u, b)
      BY <2>3, <2>4 DEF Conflict
    <3> QED BY <2>4, <2>7, <3>1, <3>2 DEF Settled
  <2> QED BY <2>3, <2>4, <2>5, <2>6, <2>7 DEF u
<1> QED BY <1>1, <1>2

\* A mount is a record that was never one before.
LEMMA MountFacts ==
    ASSUME Surroundings, NEW t, MountsOK(t), t.on = "yes", NEW a \in Agents,
           t.rec[a] = NoRec
    PROVE  LET u == Mount(t, a) IN
           /\ MountsOK(u) /\ u.on = t.on /\ u.made = t.made + 1
           /\ u.rec = [t.rec EXCEPT ![a] = t.made + 1]
           /\ t.masked \subseteq u.masked
           /\ u.masked \subseteq t.masked \cup (live \ full)
           /\ \A b \in live \ {a} : Settled(t, b) => Settled(u, b)
           /\ a \in full => Settled(u, a)
<1> DEFINE u == Mount(t, a)
           k == t.made + 1
           r == [t.rec EXCEPT ![a] = k]
           x == t.active \cup {k}
           v == [t EXCEPT !.rec = r, !.active = x, !.made = k]
<1>0. t \in ToolsState /\ t.rec \in [Agents -> Nat] /\ t.made \in Nat
  BY DEF MountsOK, ToolsState
<1>1. u = ToolsChange(v)
  BY DEF Mount
<1>2. k \in Nat /\ r \in [Agents -> Nat] /\ x \in SUBSET Nat
  BY <1>0 DEF ToolsState
<1>3. \A b \in Agents : r[b] = IF b = a THEN k ELSE t.rec[b]
  BY <1>0
<1>4. k > t.made /\ k # NoRec
  BY <1>0 DEF NoRec
<1> HIDE DEF r, x, k
<1>5. /\ v \in ToolsState /\ v.on = t.on /\ v.rec = r /\ v.active = x
      /\ v.masked = t.masked /\ v.made = k /\ v.queued = t.queued
  BY <1>0, <1>2 DEF ToolsState
<1> HIDE DEF v
<1>6. MountsOK(v)
  <2>1. \A b \in Agents : t.rec[b] \in Nat /\ t.rec[b] <= t.made
    BY <1>0 DEF MountsOK
  <2>2. \A b \in Agents : t.rec[b] # k /\ t.rec[b] <= k
    BY <1>0, <1>2, <1>4, <2>1
  <2>3. v.active = {v.rec[b] : b \in Agents} \ {NoRec}
    BY <1>3, <1>4, <1>5 DEF MountsOK, x
  <2>4. \A b \in Agents : v.rec[b] <= v.made
    BY <1>2, <1>3, <1>5, <2>2
  <2>5. \A b, c \in Agents : v.rec[b] = v.rec[c] => b = c \/ v.rec[b] = NoRec
    BY <1>3, <1>5, <2>2 DEF MountsOK
  <2> QED BY <1>5, <2>3, <2>4, <2>5 DEF MountsOK
<1>7. /\ u \in ToolsState /\ u.on = v.on /\ u.rec = v.rec /\ u.active = v.active
      /\ u.made = v.made /\ v.masked \subseteq u.masked
      /\ u.masked \subseteq v.masked \cup (live \ full)
      /\ u.queued /\ \A b \in live \ full : ~Inherits(u, b)
  <2> HIDE DEF u
  <2> QED BY <1>1, <1>5, ToolsChangeFacts
<1>8. MountsOK(u)
  BY <1>6, <1>7, MountsKept
<1>9. \A b \in live \ {a} : Settled(t, b) => Settled(u, b)
  <2>1. \A b \in live \ {a} : t.rec[b] = NoRec => u.rec[b] = NoRec
    BY <1>3, <1>5, <1>7 DEF Surroundings
  <2> QED BY <1>7, <2>1 DEF Settled
<1>10. a \in full => Settled(u, a)
  BY <1>7 DEF Settled
<1> QED BY <1>5, <1>7, <1>8, <1>9, <1>10 DEF r, k

\* What a reconcile, and a pass over the agents, may do.
Follows(t, u) ==
    /\ MountsOK(u) /\ u.on = t.on /\ t.made <= u.made
    /\ t.masked \subseteq u.masked /\ u.masked \subseteq t.masked \cup live
    /\ \A b \in Agents : u.rec[b] \in {t.rec[b], NoRec} \/ u.rec[b] > t.made
    /\ \A b \in Agents \ live : t.rec[b] = NoRec => u.rec[b] = NoRec

\* A reconcile settles its agent, and unsettles no other.
LEMMA ReconcileFacts ==
    ASSUME Surroundings, NEW t, MountsOK(t), t.on = "yes", NEW a \in Agents
    PROVE  LET u == Reconcile(t, a) IN
           /\ Follows(t, u)
           /\ \A b \in live \ {a} : Settled(t, b) => Settled(u, b)
           /\ a \in live => Settled(u, a)
<1> DEFINE u == Reconcile(t, a)
<1>0. t \in ToolsState /\ t.rec \in [Agents -> Nat] /\ t.made \in Nat
  BY DEF MountsOK, ToolsState
<1>1. ASSUME a \notin live \cap full
      PROVE  LET v == Unmount(t, a) IN
             /\ MountsOK(v) /\ v.on = t.on /\ v.made = t.made /\ v.rec[a] = NoRec
             /\ \A b \in Agents : v.rec[b] \in {t.rec[b], NoRec}
             /\ t.masked \subseteq v.masked /\ v.masked \subseteq t.masked \cup live
             /\ \A b \in live : Settled(t, b) => Settled(v, b)
  <2> DEFINE v == Unmount(t, a)
  <2>1. /\ MountsOK(v) /\ v.on = t.on /\ v.made = t.made
        /\ v.rec = [t.rec EXCEPT ![a] = NoRec]
        /\ t.masked \subseteq v.masked /\ v.masked \subseteq t.masked \cup (live \ full)
        /\ \A b \in live : Settled(t, b) => Settled(v, b)
    BY UnmountFacts
  <2> HIDE DEF v
  <2>2. v.rec[a] = NoRec /\ \A b \in Agents : v.rec[b] \in {t.rec[b], NoRec}
    BY <1>0, <2>1
  <2> QED BY <2>1, <2>2 DEF v
<1>2. CASE a \notin live
  <2>1. u = Unmount(t, a)
    BY <1>2 DEF Reconcile
  <2> HIDE DEF u
  <2>2. /\ Follows(t, u)
        /\ \A b \in live : Settled(t, b) => Settled(u, b)
    BY <1>0, <1>1, <1>2, <2>1 DEF Follows
  <2> QED BY <1>2, <2>2 DEF u
<1>3. CASE a \in live \ full
  <2> DEFINE v == Unmount(t, a)
  <2>1. u = MaskInherited(v, a)
    BY <1>3 DEF Reconcile, Admitted
  <2> HIDE DEF u
  <2>2. /\ MountsOK(v) /\ v.on = t.on /\ v.made = t.made /\ v.rec[a] = NoRec
        /\ \A b \in Agents : v.rec[b] \in {t.rec[b], NoRec}
        /\ t.masked \subseteq v.masked /\ v.masked \subseteq t.masked \cup live
        /\ \A b \in live : Settled(t, b) => Settled(v, b)
    BY <1>1, <1>3
  <2> HIDE DEF v
  <2>3. /\ MountsOK(u) /\ u.on = v.on /\ u.made = v.made /\ u.rec = v.rec
        /\ v.masked \subseteq u.masked /\ u.masked \subseteq v.masked \cup {a}
        /\ ~Inherits(u, a)
        /\ \A b \in live \ {a} : Settled(v, b) => Settled(u, b)
    BY <2>1, <2>2, MaskFacts
  <2>4. Follows(t, u)
    BY <1>0, <1>3, <2>2, <2>3 DEF Follows
  <2>5. Settled(u, a)
    BY <1>3, <2>2, <2>3 DEF Settled
  <2> QED BY <2>2, <2>3, <2>4, <2>5 DEF u
<1>4. CASE a \in live \cap full /\ t.rec[a] # NoRec
  <2>1. u = t
    BY <1>4 DEF Reconcile, Admitted, MountWhere
  <2>2. Follows(t, t)
    BY <1>0 DEF Follows
  <2>3. Settled(t, a)
    BY <1>4 DEF Settled
  <2> QED BY <2>1, <2>2, <2>3
<1>5. CASE a \in live \cap full /\ t.rec[a] = NoRec
  <2> DEFINE v == MaskInherited(t, a)
  <2>1. u = IF Conflict(v, a) THEN v ELSE Mount(v, a)
    BY <1>5 DEF Reconcile, Admitted, MountWhere
  <2> HIDE DEF u
  <2>2. /\ MountsOK(v) /\ v.on = t.on /\ v.made = t.made /\ v.rec = t.rec
        /\ t.masked \subseteq v.masked /\ v.masked \subseteq t.masked \cup {a}
        /\ \A b \in live \ {a} : Settled(t, b) => Settled(v, b)
    BY MaskFacts
  <2> HIDE DEF v
  <2>3. CASE Conflict(v, a)
    <3>1. u = v
      BY <2>1, <2>3
    <3>2. Follows(t, v)
      BY <1>0, <1>5, <2>2 DEF Follows
    <3>3. Settled(v, a)
      BY <1>5, <2>3 DEF Settled
    <3> QED BY <2>2, <3>1, <3>2, <3>3 DEF u
  <2>4. CASE ~Conflict(v, a)
    <3>1. u = Mount(v, a)
      BY <2>1, <2>4
    <3>2. /\ MountsOK(u) /\ u.on = v.on /\ u.made = v.made + 1
          /\ u.rec = [v.rec EXCEPT ![a] = v.made + 1]
          /\ v.masked \subseteq u.masked
          /\ u.masked \subseteq v.masked \cup (live \ full)
          /\ \A b \in live \ {a} : Settled(v, b) => Settled(u, b)
          /\ a \in full => Settled(u, a)
      BY <1>5, <2>2, <3>1, MountFacts
    <3>3. \A b \in Agents : u.rec[b] = t.rec[b] \/ u.rec[b] = t.made + 1
      BY <1>0, <2>2, <3>2
    <3>4. t.made <= t.made + 1 /\ t.made + 1 > t.made
      BY <1>0
    <3>5. \A b \in Agents \ live : u.rec[b] = t.rec[b]
      BY <1>0, <1>5, <2>2, <3>2
    <3>6. Follows(t, u)
      BY <1>5, <2>2, <3>2, <3>3, <3>4, <3>5 DEF Follows
    <3> QED BY <1>5, <2>2, <3>2, <3>6 DEF u
  <2> QED BY <2>3, <2>4
<1> QED BY <1>2, <1>3, <1>4, <1>5

-----------------------------------------------------------------------------
(* A pass over the agents.  ReconcileAll is a function of the positions,   *)
(* defined by recursion: that there is such a function, and what holds of  *)
(* its values, is shown for the first position that would be an exception. *)

LEMMA FirstNumber ==
    ASSUME NEW T, T \subseteq Nat, T # {}
    PROVE  \E x \in T : \A y \in T : ~(y < x)
<1>1. IsWellFoundedOn(OpToRel(<, Nat), Nat)
  BY NatLessThanWellFounded
<1>2. \E x \in T : \A y \in T : ~(<<y, x>> \in OpToRel(<, Nat))
  BY <1>1, WFMin
<1> QED BY <1>2 DEF OpToRel

LEMMA OrderFacts ==
    /\ Len(Order) \in Nat
    /\ \A n \in 1..Len(Order) : Order[n] \in Agents
    /\ \A a \in Agents : \E n \in 1..Len(Order) : Order[n] = a
BY OrderAssumption DEF Agents

\* What one position of the list does to a state of the plugin.
Visit(t, n) == IF Order[n] \in live THEN Reconcile(t, Order[n]) ELSE t

Visits(f, t, k) == f = [n \in 0..k |-> IF n = 0 THEN t ELSE Visit(f[n - 1], n)]

LEMMA VisitsExtend ==
    ASSUME NEW t, NEW k \in Nat, NEW f, Visits(f, t, k)
    PROVE  \E g : Visits(g, t, k + 1)
<1> DEFINE g == [n \in 0..(k + 1) |-> IF n = k + 1 THEN Visit(f[k], k + 1) ELSE f[n]]
<1>1. \A n \in 0..k : f[n] = IF n = 0 THEN t ELSE Visit(f[n - 1], n)
  BY DEF Visits
<1>2. \A n \in 0..k : g[n] = f[n]
  OBVIOUS
<1>3. g[k + 1] = Visit(g[k], k + 1)
  BY <1>2
<1>4. ASSUME NEW n \in 0..(k + 1)
      PROVE  g[n] = IF n = 0 THEN t ELSE Visit(g[n - 1], n)
  <2>1. CASE n = k + 1
    BY <1>3, <2>1
  <2>2. CASE n \in 1..k
    <3>1. n \in 0..k /\ n - 1 \in 0..k /\ n # 0
      BY <2>2
    <3> QED BY <1>1, <1>2, <3>1
  <2>3. CASE n = 0
    BY <1>1, <1>2, <2>3
  <2>4. n = k + 1 \/ n \in 1..k \/ n = 0
    OBVIOUS
  <2> QED BY <2>1, <2>2, <2>3, <2>4
<1>5. g = [n \in 0..(k + 1) |-> IF n = 0 THEN t ELSE Visit(g[n - 1], n)]
  BY <1>4
<1> QED BY <1>5 DEF Visits

LEMMA VisitsExist ==
    ASSUME NEW t, NEW k \in Nat
    PROVE  \E f : Visits(f, t, k)
<1> DEFINE Bad == {n \in Nat : ~\E f : Visits(f, t, n)}
<1>1. Bad = {}
  <2> SUFFICES ASSUME Bad # {} PROVE FALSE
    OBVIOUS
  <2>1. PICK n \in Bad : \A m \in Bad : ~(m < n)
    BY FirstNumber
  <2>2. CASE n = 0
    <3> DEFINE f == [m \in 0..0 |-> t]
    <3>1. f = [m \in 0..0 |-> IF m = 0 THEN t ELSE Visit(f[m - 1], m)]
      OBVIOUS
    <3> QED BY <2>2, <3>1 DEF Visits
  <2>3. CASE n # 0
    <3>1. n - 1 \in Nat /\ n - 1 < n /\ (n - 1) + 1 = n
      BY <2>3
    <3>2. PICK f : Visits(f, t, n - 1)
      BY <2>1, <3>1
    <3>3. \E g : Visits(g, t, n)
      BY <3>1, <3>2, VisitsExtend
    <3> QED BY <3>3
  <2> QED BY <2>2, <2>3
<1> QED BY <1>1

LEMMA PassIsVisits ==
    ASSUME NEW t
    PROVE  \E f : Visits(f, t, Len(Order)) /\ ReconcileAll(t) = f[Len(Order)]
<1> DEFINE Equation(g) ==
               g = [n \in 0..Len(Order) |->
                       IF n = 0 THEN t
                       ELSE IF Order[n] \in live THEN Reconcile(g[n - 1], Order[n])
                       ELSE g[n - 1]]
           f == CHOOSE g : Equation(g)
<1>1. \E g : Equation(g)
  <2>1. PICK g : Visits(g, t, Len(Order))
    BY VisitsExist, OrderFacts
  <2>2. Equation(g)
    BY <2>1, Zenon DEF Visits, Visit
  <2> QED BY <2>2, Zenon
<1>2. Equation(f)
  BY <1>1, Zenon
<1>3. ReconcileAll(t) = f[Len(Order)]
  BY Zenon DEF ReconcileAll
<1>4. Visits(f, t, Len(Order))
  BY <1>2, Zenon DEF Visits, Visit
<1> QED BY <1>3, <1>4

LEMMA FollowsOn ==
    ASSUME NEW t, MountsOK(t), NEW u, Follows(t, u), NEW w, Follows(u, w)
    PROVE  Follows(t, w)
<1>0. /\ t.made \in Nat /\ u.made \in Nat /\ w.made \in Nat
      /\ \A b \in Agents : w.rec[b] \in Nat
  BY DEF Follows, MountsOK, ToolsState
<1>1. ASSUME NEW b \in Agents
      PROVE  w.rec[b] \in {t.rec[b], NoRec} \/ w.rec[b] > t.made
  <2>1. CASE w.rec[b] > u.made
    BY <1>0, <2>1 DEF Follows
  <2>2. CASE w.rec[b] \in {u.rec[b], NoRec}
    BY <2>2 DEF Follows
  <2> QED BY <2>1, <2>2 DEF Follows
<1>2. t.made <= w.made
  BY <1>0 DEF Follows
<1> QED BY <1>1, <1>2 DEF Follows

\* A pass settles every agent.
LEMMA PassFacts ==
    ASSUME Surroundings, NEW t, MountsOK(t), t.on = "yes"
    PROVE  /\ Follows(t, ReconcileAll(t))
           /\ \A a \in live : Settled(ReconcileAll(t), a)
<1> DEFINE N == Len(Order)
<1>0. N \in Nat
  BY OrderFacts
<1>1. PICK f : Visits(f, t, N) /\ ReconcileAll(t) = f[N]
  BY PassIsVisits
<1>2. \A n \in 0..N : f[n] = IF n = 0 THEN t ELSE Visit(f[n - 1], n)
  BY <1>1 DEF Visits
<1> DEFINE Done(n) == /\ Follows(t, f[n])
                      /\ \A m \in 1..n : Order[m] \in live => Settled(f[n], Order[m])
           Bad == {n \in 0..N : ~Done(n)}
<1>3. Bad = {}
  <2> SUFFICES ASSUME Bad # {} PROVE FALSE
    OBVIOUS
  <2>1. PICK n \in Bad : \A m \in Bad : ~(m < n)
    <3>1. Bad \subseteq Nat
      BY <1>0
    <3> HIDE DEF Bad
    <3> QED BY <3>1, FirstNumber
  <2>2. CASE n = 0
    <3>1. f[0] = t
      BY <1>0, <1>2
    <3>2. t.made \in Nat /\ \A b \in Agents : t.rec[b] \in Nat
      BY DEF MountsOK, ToolsState
    <3>3. Follows(t, t)
      BY <3>2 DEF Follows
    <3> QED BY <2>2, <3>1, <3>3
  <2>3. CASE n # 0
    <3> DEFINE u == f[n - 1]
    <3>1. /\ n - 1 \in 0..N /\ n - 1 < n /\ n \in 0..N /\ n \in 1..N
          /\ \A m \in 1..n : m \in 1..(n - 1) \/ m = n
      BY <1>0, <2>3
    <3>2. Done(n - 1)
      BY <2>1, <3>1
    <3>3. f[n] = Visit(u, n)
      BY <1>2, <2>3, <3>1
    <3>4. Order[n] \in Agents
      BY <3>1, OrderFacts
    <3>5. MountsOK(u) /\ u.on = "yes" /\ Follows(t, u)
      BY <3>2 DEF Follows
    <3>6. CASE Order[n] \notin live
      <4>1. f[n] = u
        BY <3>3, <3>6 DEF Visit
      <4> QED BY <3>1, <3>2, <3>6, <4>1
    <3>7. CASE Order[n] \in live
      <4> DEFINE w == Reconcile(u, Order[n])
      <4>1. f[n] = w
        BY <3>3, <3>7 DEF Visit
      <4>2. /\ Follows(u, w)
            /\ \A b \in live \ {Order[n]} : Settled(u, b) => Settled(w, b)
            /\ Settled(w, Order[n])
        BY <3>4, <3>5, <3>7, ReconcileFacts
      <4> HIDE DEF w
      <4>3. Follows(t, w)
        BY <3>5, <4>2, FollowsOn
      <4>4. \A m \in 1..n : Order[m] \in live => Settled(w, Order[m])
        BY <3>1, <3>2, <4>2
      <4> QED BY <4>1, <4>3, <4>4
    <3> QED BY <3>6, <3>7
  <2> QED BY <2>2, <2>3
<1>4. Done(N)
  BY <1>0, <1>3
<1>5. \A a \in live : \E n \in 1..N : Order[n] = a
  BY OrderFacts DEF Surroundings
<1> QED BY <1>1, <1>4, <1>5

-----------------------------------------------------------------------------
(* The invariant, action by action. *)

LEMMA InitEstablishes == Init => IInv
<1> SUFFICES ASSUME Init PROVE IInv
  OBVIOUS
<1>1. Surroundings
  <2>1. foreign \in BOOLEAN /\ wrong \in BOOLEAN
    BY Zenon DEF Init
  <2>2. 0 \in 0..MaxChanges
    BY BoundAssumption
  <2> QED BY <2>1, <2>2 DEF Init, Surroundings
<1>2. /\ tools \in ToolsState /\ tools.on = "no" /\ tools.masked = {} /\ tools.active = {}
      /\ tools.made = 0 /\ \A a \in Agents : tools.rec[a] = NoRec
  BY DEF Init, ToolsState, NoRec
<1>3. MountsOK(tools)
  BY <1>2 DEF MountsOK, NoRec
<1>4. /\ held \in [Agents -> [owner : Agents \cup {None}, rec : Nat]]
      /\ \A a \in Agents : held[a].rec = NoRec
  BY DEF Init, NoReference, NoRec
<1>5. HeldOK /\ HeldNamesItsOwner
  BY <1>2, <1>4 DEF HeldOK, HeldNamesItsOwner, NoRec
<1> QED
  BY <1>1, <1>2, <1>3, <1>5
  DEF Init, IInv, QuietUnlessOn, KnownAreSettled, Known, DisposedAreGone, RunsAreAuthorised

\* References and records part ways, but no record comes back.
LEMMA HeldKept ==
    ASSUME MountsOK(tools), HeldOK, HeldNamesItsOwner, held' = held,
           NEW t, t.rec = tools.rec, t.made = tools.made, Follows(t, tools')
    PROVE  HeldOK' /\ HeldNamesItsOwner'
<1>0. /\ tools.made \in Nat /\ tools'.made \in Nat /\ tools.made <= tools'.made
      /\ \A a \in Agents : held[a].rec \in Nat /\ held[a].rec <= tools.made
  BY DEF Follows, MountsOK, ToolsState, HeldOK
<1>1. HeldOK'
  <2>1. \A a \in Agents : held[a].rec <= tools'.made
    BY <1>0
  <2> QED BY <2>1 DEF HeldOK
<1>2. ASSUME NEW a \in Agents, NEW b \in Agents,
             held[a].rec # NoRec, tools'.rec[b] = held[a].rec
      PROVE  b = held[a].owner
  <2>1. ~(tools'.rec[b] > tools.made)
    BY <1>0, <1>2
  <2>2. tools.rec[b] = held[a].rec
    BY <1>2, <2>1 DEF Follows
  <2> QED BY <1>2, <2>2 DEF HeldNamesItsOwner
<1> QED BY <1>1, <1>2 DEF HeldNamesItsOwner

\* A step of the running plugin that settles whom it hears of, and unsettles nobody.
LEMMA PluginStep ==
    ASSUME IInv, UNCHANGED <<dsh, wrong>>, tools.on # "stopped",
           NEW t, t.on = "yes", t.rec = tools.rec, t.made = tools.made,
           t.masked = tools.masked, Follows(t, tools'),
           stale' \subseteq stale, stale \ live \subseteq stale',
           \A b \in live \ stale' : Settled(tools', b)
    PROVE  /\ Surroundings' /\ MountsOK(tools)' /\ RunsAreAuthorised'
           /\ QuietUnlessOn' /\ KnownAreSettled' /\ DisposedAreGone'
           /\ held' = held => HeldOK' /\ HeldNamesItsOwner'
<1>1. Surroundings' /\ RunsAreAuthorised'
  BY DEF IInv, Surroundings, RunsAreAuthorised, dsh
<1>2. MountsOK(tools)' /\ tools'.on = "yes"
  <2>1. MountsOK(tools')
    BY DEF Follows
  <2> QED BY <2>1 DEF Follows, MountsOK
<1>3. KnownAreSettled'
  <2> SUFFICES ASSUME NEW a \in Known' PROVE Settled(tools, a)'
    BY DEF KnownAreSettled
  <2>1. Settled(tools', a)
    BY DEF Known, dsh
  <2> QED BY <2>1 DEF Settled, Inherits, Conflict, dsh
<1>4. DisposedAreGone'
  <2> SUFFICES ASSUME NEW a \in removed \ stale'
               PROVE  tools'.rec[a] = NoRec /\ a \notin tools'.masked
    BY DEF DisposedAreGone, dsh
  <2>1. a \notin live /\ a \in Agents /\ a \in removed \ stale
    BY DEF IInv, Surroundings
  <2>2. tools.rec[a] = NoRec /\ a \notin tools.masked
    BY <2>1 DEF IInv, DisposedAreGone, QuietUnlessOn, MountsOK, ToolsState
  <2> QED BY <2>1, <2>2 DEF Follows
<1>5. held' = held => HeldOK' /\ HeldNamesItsOwner'
  BY HeldKept DEF IInv
<1>6. QuietUnlessOn'
  BY <1>2 DEF QuietUnlessOn
<1> QED BY <1>1, <1>2, <1>3, <1>4, <1>5, <1>6

LEMMA IInvParts ==
    /\ Surroundings' /\ MountsOK(tools)' /\ HeldOK'
    /\ QuietUnlessOn' /\ KnownAreSettled' /\ DisposedAreGone' /\ HeldNamesItsOwner'
    /\ RunsAreAuthorised'
    => IInv'
BY DEF IInv

LEMMA StartKeeps == ASSUME IInv, Start PROVE IInv'
<1> DEFINE t == [tools EXCEPT !.on = "yes"]
<1>1. /\ t \in ToolsState /\ t.on = "yes" /\ t.rec = tools.rec /\ t.active = tools.active
      /\ t.made = tools.made /\ t.masked = tools.masked
  BY DEF IInv, MountsOK, ToolsState
<1>2. tools' = ReconcileAll(t)
  BY DEF Start
<1> HIDE DEF t
<1>3. MountsOK(t)
  BY <1>1, MountsKept DEF IInv
<1>4. Follows(t, tools') /\ \A a \in live : Settled(tools', a)
  BY <1>1, <1>2, <1>3, PassFacts DEF IInv
<1>5. /\ UNCHANGED <<dsh, wrong, held>> /\ tools.on # "stopped" /\ stale' = stale \ live
  BY DEF Start
<1> QED BY <1>1, <1>4, <1>5, PluginStep, IInvParts

LEMMA HearKeeps == ASSUME IInv, NEW a \in Agents, Hear(a) PROVE IInv'
<1>1. /\ tools.on = "yes" /\ a \in live /\ tools' = Reconcile(tools, a)
      /\ stale' = stale \ {a} /\ UNCHANGED <<dsh, wrong, held>>
  BY DEF Hear
<1>2. /\ Follows(tools, tools')
      /\ \A b \in live \ {a} : Settled(tools, b) => Settled(tools', b)
      /\ Settled(tools', a)
  BY <1>1, ReconcileFacts DEF IInv
<1>3. \A b \in live \ stale' : Settled(tools', b)
  BY <1>1, <1>2 DEF IInv, KnownAreSettled, Known
<1> QED BY <1>1, <1>2, <1>3, PluginStep, IInvParts

LEMMA HearAllKeeps == ASSUME IInv, HearAll PROVE IInv'
<1>1. /\ tools.on = "yes" /\ tools' = ReconcileAll(tools)
      /\ stale' = stale \ live /\ UNCHANGED <<dsh, wrong, held>>
  BY DEF HearAll
<1>2. Follows(tools, tools') /\ \A a \in live : Settled(tools', a)
  BY <1>1, PassFacts DEF IInv
<1> QED BY <1>1, <1>2, PluginStep, IInvParts

LEMMA RefreshKeeps == ASSUME IInv, Refresh PROVE IInv'
<1> DEFINE t == [tools EXCEPT !.queued = FALSE]
<1>1. /\ t \in ToolsState /\ t.on = tools.on /\ t.rec = tools.rec /\ t.active = tools.active
      /\ t.made = tools.made /\ t.masked = tools.masked
  BY DEF IInv, MountsOK, ToolsState
<1>2. /\ tools' = IF t.on = "yes" THEN ReconcileAll(t) ELSE t
      /\ stale' = IF tools.on = "yes" THEN stale \ live ELSE stale
      /\ UNCHANGED <<dsh, wrong, held>>
  BY DEF Refresh
<1> HIDE DEF t
<1>3. MountsOK(t)
  BY <1>1, MountsKept DEF IInv
<1>4. CASE tools.on = "yes"
  <2>1. Follows(t, tools') /\ \A a \in live : Settled(tools', a)
    BY <1>1, <1>2, <1>3, <1>4, PassFacts DEF IInv
  <2> QED BY <1>1, <1>2, <1>4, <2>1, PluginStep, IInvParts
<1>5. CASE tools.on # "yes"
  <2>1. tools' = t /\ stale' = stale
    BY <1>1, <1>2, <1>5
  <2>2. MountsOK(tools)' /\ QuietUnlessOn' /\ HeldOK' /\ HeldNamesItsOwner'
    BY <1>1, <1>2, <1>3, <2>1
    DEF MountsOK, QuietUnlessOn, HeldOK, HeldNamesItsOwner, IInv
  <2>3. KnownAreSettled' /\ DisposedAreGone'
    BY <1>1, <1>5, <2>1 DEF KnownAreSettled, Known, DisposedAreGone
  <2>4. Surroundings' /\ RunsAreAuthorised'
    BY <1>2, <2>1 DEF IInv, Surroundings, RunsAreAuthorised, dsh
  <2> QED BY <2>2, <2>3, <2>4, IInvParts
<1> QED BY <1>4, <1>5

LEMMA CallKeeps == ASSUME IInv, NEW a \in Agents, Call(a) PROVE IInv'
<1>1. /\ tools.on = "yes" /\ Seen(tools, a) # NoReference /\ tools' = Reconcile(tools, a)
      /\ held' = IF Admitted(a) /\ a \notin relay
                 THEN [held EXCEPT ![a] = Seen(tools, a)] ELSE held
      /\ stale' = stale \ (live \cap {a}) /\ UNCHANGED <<dsh, wrong>>
  BY DEF Call
<1>2. /\ Follows(tools, tools')
      /\ \A b \in live \ {a} : Settled(tools, b) => Settled(tools', b)
      /\ a \in live => Settled(tools', a)
  BY <1>1, ReconcileFacts DEF IInv
<1>3. \A b \in live \ stale' : Settled(tools', b)
  BY <1>1, <1>2 DEF IInv, KnownAreSettled, Known
<1>4. /\ Surroundings' /\ MountsOK(tools)' /\ RunsAreAuthorised'
      /\ QuietUnlessOn' /\ KnownAreSettled' /\ DisposedAreGone'
      /\ held' = held => HeldOK' /\ HeldNamesItsOwner'
  BY <1>1, <1>2, <1>3, PluginStep
<1>5. CASE held' = held
  BY <1>4, <1>5, IInvParts
<1>6. CASE held' = [held EXCEPT ![a] = Seen(tools, a)]
  <2>1. PICK o \in Agents : Seen(tools, a) = [owner |-> o, rec |-> tools.rec[o]]
    BY <1>1, ParentAssumption DEF Seen, Inherits
  <2>2. /\ tools.made \in Nat /\ tools'.made \in Nat /\ tools.made <= tools'.made
        /\ \A b \in Agents : /\ held[b].rec \in Nat /\ held[b].rec <= tools.made
                             /\ tools.rec[b] \in Nat /\ tools.rec[b] <= tools.made
    BY <1>2 DEF Follows, IInv, MountsOK, ToolsState, HeldOK
  <2>3. /\ held' \in [Agents -> [owner : Agents \cup {None}, rec : Nat]]
        /\ held'[a].owner = o /\ held'[a].rec = tools.rec[o]
        /\ \A b \in Agents \ {a} : held'[b] = held[b]
    BY <1>6, <2>1, <2>2 DEF IInv, HeldOK
  <2>4. \A b \in Agents : held'[b].rec <= tools.made
    BY <2>2, <2>3
  <2>5. HeldOK'
    <3>1. \A b \in Agents : held'[b].rec <= tools'.made
      BY <2>2, <2>3, <2>4
    <3> QED BY <2>3, <3>1 DEF HeldOK
  <2>6. ASSUME NEW b \in Agents, NEW c \in Agents,
               held'[b].rec # NoRec, tools'.rec[c] = held'[b].rec
        PROVE  c = held'[b].owner
    <3>1. held'[b].rec \in Nat
      BY <2>3
    <3>2. ~(tools'.rec[c] > tools.made)
      BY <2>2, <2>4, <2>6, <3>1
    <3>3. tools.rec[c] = held'[b].rec
      BY <1>2, <2>6, <3>2 DEF Follows
    <3> QED BY <2>3, <2>6, <3>3 DEF IInv, HeldNamesItsOwner, MountsOK
  <2> QED BY <1>4, <2>5, <2>6, IInvParts DEF HeldNamesItsOwner
<1> QED BY <1>1, <1>5, <1>6

LEMMA UnmountFollows ==
    ASSUME IInv, tools.on = "yes", NEW a \in Agents
    PROVE  /\ Follows(tools, Unmount(tools, a))
           /\ Unmount(tools, a).rec[a] = NoRec
           /\ \A b \in live : Settled(tools, b) => Settled(Unmount(tools, a), b)
<1> DEFINE u == Unmount(tools, a)
<1>1. /\ MountsOK(u) /\ u.on = tools.on /\ u.made = tools.made
      /\ u.rec = [tools.rec EXCEPT ![a] = NoRec]
      /\ tools.masked \subseteq u.masked /\ u.masked \subseteq tools.masked \cup (live \ full)
      /\ \A b \in live : Settled(tools, b) => Settled(u, b)
  BY UnmountFacts DEF IInv
<1>2. tools.rec \in [Agents -> Nat] /\ tools.made \in Nat
  BY DEF IInv, MountsOK, ToolsState
<1> HIDE DEF u
<1>3. u.rec[a] = NoRec /\ \A b \in Agents : u.rec[b] \in {tools.rec[b], NoRec}
  BY <1>1, <1>2
<1>4. Follows(tools, u)
  BY <1>1, <1>2, <1>3 DEF Follows
<1> QED BY <1>1, <1>3, <1>4 DEF u

LEMMA HearDisposedKeeps == ASSUME IInv, NEW a \in Agents, HearDisposed(a) PROVE IInv'
<1> DEFINE u == Unmount(tools, a)
           m == u.masked \ {a}
<1>1. /\ tools.on = "yes" /\ a \in removed \cap stale
      /\ tools' = [u EXCEPT !.masked = m] /\ stale' = stale \ {a}
      /\ UNCHANGED <<dsh, held, wrong>>
  BY DEF HearDisposed
<1>2. /\ Follows(tools, u) /\ u.rec[a] = NoRec
      /\ \A b \in live : Settled(tools, b) => Settled(u, b)
  BY <1>1, UnmountFollows
<1>3. u \in ToolsState /\ MountsOK(u) /\ u.on = "yes"
  BY <1>1, <1>2 DEF Follows, MountsOK
<1>4. a \notin live
  BY <1>1 DEF IInv, Surroundings
<1> HIDE DEF u
<1>5. m \in SUBSET Agents /\ a \notin m /\ m \subseteq u.masked /\ u.masked \subseteq m \cup {a}
  BY <1>3 DEF ToolsState
<1> HIDE DEF m
<1>6. /\ tools' \in ToolsState /\ tools'.on = u.on /\ tools'.rec = u.rec
      /\ tools'.active = u.active /\ tools'.made = u.made /\ tools'.queued = u.queued
      /\ tools'.masked = m
  BY <1>1, <1>3, <1>5 DEF ToolsState
<1>7. MountsOK(tools)'
  <2>1. MountsOK(tools')
    BY <1>3, <1>6, MountsKept
  <2> QED BY <2>1 DEF MountsOK
<1>8. KnownAreSettled'
  <2> SUFFICES ASSUME NEW b \in Known' PROVE Settled(tools, b)'
    BY DEF KnownAreSettled
  <2>1. b \in live \ stale /\ b # a
    BY <1>1, <1>4 DEF Known, dsh
  <2>2. Settled(u, b)
    BY <1>1, <1>2, <2>1 DEF IInv, KnownAreSettled, Known
  <2>3. b \in m <=> b \in u.masked
    BY <1>5, <2>1
  <2> QED BY <1>1, <1>6, <2>2, <2>3 DEF Settled, Inherits, Conflict, dsh
<1>9. DisposedAreGone'
  <2> SUFFICES ASSUME NEW b \in removed \ stale'
               PROVE  tools'.rec[b] = NoRec /\ b \notin tools'.masked
    BY <1>1 DEF DisposedAreGone, dsh
  <2>1. CASE b = a
    BY <1>2, <1>5, <1>6, <2>1
  <2>2. CASE b # a
    <3>1. b \in removed \ stale /\ b \notin live /\ b \in Agents
      BY <1>1, <2>2 DEF IInv, Surroundings
    <3>2. tools.rec[b] = NoRec /\ b \notin tools.masked
      BY <1>1, <3>1 DEF IInv, DisposedAreGone
    <3> QED BY <1>2, <1>5, <1>6, <3>1, <3>2 DEF Follows
  <2> QED BY <2>1, <2>2
<1>10. HeldOK' /\ HeldNamesItsOwner'
  <2>1. Follows(tools, u) /\ tools'.rec = u.rec /\ tools'.made = u.made
    BY <1>2, <1>6
  <2>2. /\ tools.made \in Nat /\ u.made \in Nat /\ tools.made <= u.made
        /\ \A b \in Agents : held[b].rec \in Nat /\ held[b].rec <= tools.made
    BY <1>3, <2>1 DEF Follows, IInv, MountsOK, ToolsState, HeldOK
  <2>3. \A b \in Agents : held[b].rec <= u.made
    BY <2>2
  <2>4. ASSUME NEW b \in Agents, NEW c \in Agents, held[b].rec # NoRec, u.rec[c] = held[b].rec
        PROVE  c = held[b].owner
    <3>1. ~(u.rec[c] > tools.made)
      BY <2>2, <2>4
    <3>2. tools.rec[c] = held[b].rec
      BY <2>1, <2>4, <3>1 DEF Follows
    <3> QED BY <2>4, <3>2 DEF HeldNamesItsOwner, IInv
  <2> QED BY <1>1, <2>1, <2>3, <2>4 DEF HeldOK, HeldNamesItsOwner, IInv
<1>11. Surroundings' /\ RunsAreAuthorised' /\ QuietUnlessOn'
  BY <1>1, <1>3, <1>6 DEF IInv, Surroundings, RunsAreAuthorised, QuietUnlessOn, dsh
<1> QED BY <1>7, <1>8, <1>9, <1>10, <1>11, IInvParts

LEMMA ToolsUnchanged ==
    ASSUME IInv, UNCHANGED <<tools, held>>
    PROVE  MountsOK(tools)' /\ HeldOK' /\ QuietUnlessOn' /\ HeldNamesItsOwner'
BY DEF IInv, MountsOK, HeldOK, QuietUnlessOn, HeldNamesItsOwner

LEMMA ExecuteRefusedKeeps ==
    ASSUME IInv, NEW a \in Agents, ExecuteRefused(a) PROVE IInv'
<1>1. /\ tools' = Unmount(tools, a) \/ tools' = tools
      /\ UNCHANGED <<dsh, held, stale, wrong>>
  BY DEF ExecuteRefused
<1>2. CASE tools' = tools
  BY <1>1, <1>2, ToolsUnchanged, IInvParts
  DEF IInv, Surroundings, KnownAreSettled, Known, Settled, Inherits, Conflict,
      DisposedAreGone, RunsAreAuthorised, dsh
<1>3. CASE tools.on = "yes" /\ tools' = Unmount(tools, a)
  <2>1. /\ Follows(tools, tools')
        /\ \A b \in live : Settled(tools, b) => Settled(tools', b)
    BY <1>3, UnmountFollows
  <2>2. \A b \in live \ stale : Settled(tools', b)
    BY <1>3, <2>1 DEF IInv, KnownAreSettled, Known
  <2> QED BY <1>1, <1>3, <2>1, <2>2, PluginStep, IInvParts
<1>4. CASE tools.on # "yes"
  <2>1. Unmount(tools, a) = tools
    BY <1>4 DEF Unmount, IInv, QuietUnlessOn
  <2> QED BY <1>1, <1>2, <2>1
<1> QED BY <1>1, <1>2, <1>3, <1>4

LEMMA StopKeeps == ASSUME IInv, Stop PROVE IInv'
<1>1. /\ tools' = [tools EXCEPT !.on = "stopped", !.rec = [a \in Agents |-> NoRec],
                                !.active = {}, !.masked = {}]
      /\ UNCHANGED <<dsh, held, stale, wrong>>
  BY DEF Stop
<1>2. [a \in Agents |-> NoRec] \in [Agents -> Nat]
  BY DEF NoRec
<1>3. /\ tools' \in ToolsState /\ tools'.on = "stopped" /\ tools'.active = {}
      /\ tools'.rec = [a \in Agents |-> NoRec]
      /\ tools'.masked = {} /\ tools'.made = tools.made
  BY <1>1, <1>2 DEF IInv, MountsOK, ToolsState
<1>4. \A a \in Agents : tools'.rec[a] = NoRec
  BY <1>3
<1>5. tools.made \in Nat
  BY DEF IInv, MountsOK, ToolsState
<1>6. MountsOK(tools)'
  <2>1. tools'.active = {tools'.rec[a] : a \in Agents} \ {NoRec}
    BY <1>3, <1>4
  <2>2. \A a \in Agents : tools'.rec[a] <= tools'.made
    BY <1>3, <1>4, <1>5 DEF NoRec
  <2> QED BY <1>3, <1>4, <2>1, <2>2 DEF MountsOK
<1>7. HeldOK' /\ HeldNamesItsOwner'
  BY <1>1, <1>3, <1>4 DEF IInv, HeldOK, HeldNamesItsOwner
<1>8. Surroundings' /\ RunsAreAuthorised'
  BY <1>1 DEF IInv, Surroundings, RunsAreAuthorised, dsh
<1>9. QuietUnlessOn' /\ KnownAreSettled' /\ DisposedAreGone'
  BY <1>3, <1>4 DEF QuietUnlessOn, KnownAreSettled, Known, DisposedAreGone
<1> QED BY <1>6, <1>7, <1>8, <1>9, IInvParts

\* A foreign tool comes or goes: an event of the tools like any other.
LEMMA SetForeignKeeps == ASSUME IInv, SetForeign PROVE IInv'
<1>1. /\ tools' = ToolsChange(tools) /\ foreign' = ~foreign /\ changes' = changes + 1
      /\ changes < MaxChanges /\ UNCHANGED <<live, removed, full, relay, held, stale, wrong>>
  BY DEF SetForeign, Change
<1>2. /\ tools' \in ToolsState
      /\ tools'.on = tools.on /\ tools'.rec = tools.rec /\ tools'.active = tools.active
      /\ tools'.made = tools.made /\ tools.masked \subseteq tools'.masked
      /\ tools'.masked \subseteq tools.masked \cup (live \ full)
      /\ tools.on = "yes" => tools'.queued
  BY <1>1, ToolsChangeFacts DEF IInv, MountsOK
<1>3. MountsOK(tools)'
  <2>1. MountsOK(tools')
    BY <1>2, MountsKept DEF IInv
  <2> QED BY <2>1 DEF MountsOK
<1>4. Surroundings' /\ RunsAreAuthorised'
  <2>1. foreign' \in BOOLEAN
    BY <1>1
  <2>2. changes' \in 0..MaxChanges
    BY <1>1, BoundAssumption DEF IInv, Surroundings
  <2> QED BY <1>1, <2>1, <2>2 DEF IInv, Surroundings, RunsAreAuthorised
<1>5. KnownAreSettled'
  <2> SUFFICES ASSUME NEW a \in Known' PROVE Settled(tools, a)'
    BY DEF KnownAreSettled
  <2>1. Settled(tools, a) /\ tools'.queued
    BY <1>1, <1>2 DEF IInv, KnownAreSettled, Known
  <2> QED BY <1>1, <1>2, <2>1 DEF Settled, Inherits
<1>6. QuietUnlessOn'
  <2>1. tools.on # "yes" => tools' = tools
    BY <1>1 DEF ToolsChange
  <2> QED BY <1>2, <2>1 DEF IInv, QuietUnlessOn
<1>7. DisposedAreGone'
  BY <1>1, <1>2 DEF IInv, DisposedAreGone, Surroundings
<1>8. HeldOK' /\ HeldNamesItsOwner'
  BY <1>1, <1>2 DEF IInv, HeldOK, HeldNamesItsOwner
<1> QED BY <1>3, <1>4, <1>5, <1>6, <1>7, <1>8, IInvParts

\* DSH's agents change, one at a time, and the plugin does not yet know.
LEMMA AgentChangeKeeps ==
    ASSUME IInv, UNCHANGED <<foreign, tools, held, wrong>>, Surroundings',
           NEW a \in Agents, stale' = stale \cup {a},
           live' \ {a} = live \ {a}, removed' \ {a} = removed \ {a}, full' \ {a} = full \ {a}
    PROVE  IInv'
<1>1. KnownAreSettled'
  <2> SUFFICES ASSUME NEW b \in Known' PROVE Settled(tools, b)'
    BY DEF KnownAreSettled
  <2>1. b # a /\ b \in Known /\ (b \in full' <=> b \in full)
    BY DEF Known
  <2> QED BY <2>1 DEF IInv, KnownAreSettled, Settled, Inherits, Conflict
<1>2. DisposedAreGone'
  BY DEF IInv, DisposedAreGone
<1> QED BY <1>1, <1>2, ToolsUnchanged, IInvParts DEF IInv, RunsAreAuthorised

LEMMA DshKeeps ==
    ASSUME IInv, NEW a \in Agents,
           \/ \E access \in BOOLEAN : Create(a, access)
           \/ SetPermission(a) \/ Leave(a)
    PROVE  IInv'
<1>1. CASE \E access \in BOOLEAN : Create(a, access)
  <2>1. PICK access \in BOOLEAN : Create(a, access)
    BY <1>1
  <2>2. Surroundings'
    BY <2>1 DEF Create, IInv, Surroundings
  <2> QED BY <2>1, <2>2, AgentChangeKeeps DEF Create
<1>2. CASE SetPermission(a)
  <2>1. changes' \in 0..MaxChanges
    BY <1>2, BoundAssumption DEF SetPermission, Change, IInv, Surroundings
  <2>2. Surroundings'
    BY <1>2, <2>1 DEF SetPermission, IInv, Surroundings
  <2> QED BY <1>2, <2>2, AgentChangeKeeps DEF SetPermission
<1>3. CASE Leave(a)
  <2>1. Surroundings'
    BY <1>3 DEF Leave, IInv, Surroundings
  <2> QED BY <1>3, <2>1, AgentChangeKeeps DEF Leave
<1> QED BY <1>1, <1>2, <1>3

\* Steps that leave the agents' access and the plugin alone.
LEMMA ElsewhereKeeps ==
    ASSUME IInv, UNCHANGED <<live, removed, full, foreign, tools, stale>>,
           Surroundings', RunsAreAuthorised', HeldOK', HeldNamesItsOwner'
    PROVE  IInv'
<1>1. MountsOK(tools)' /\ QuietUnlessOn'
  BY DEF IInv, MountsOK, QuietUnlessOn
<1>2. KnownAreSettled' /\ DisposedAreGone'
  BY DEF IInv, KnownAreSettled, Known, Settled, Inherits, Conflict, DisposedAreGone
<1> QED BY <1>1, <1>2, IInvParts

LEMMA SetTurnKeeps == ASSUME IInv, NEW a \in Agents, SetTurn(a) PROVE IInv'
<1>1. changes' \in 0..MaxChanges
  BY BoundAssumption DEF SetTurn, Change, IInv, Surroundings
<1>2. Surroundings' /\ RunsAreAuthorised'
  BY <1>1 DEF SetTurn, IInv, Surroundings, RunsAreAuthorised
<1> QED BY <1>2, ToolsUnchanged, ElsewhereKeeps DEF SetTurn

\* An operation runs by the agent's present mount: the reference is of an active record,
\* which is one agent's, and that one is the reference's owner.
LEMMA ExecuteKeeps == ASSUME IInv, NEW a \in Agents, Execute(a) PROVE IInv'
<1>1. /\ held[a] # NoReference /\ held[a].owner = a /\ ActiveAndAdmitted(a) /\ a \notin relay
      /\ wrong' = (wrong \/ ~Authority(a)) /\ UNCHANGED <<dsh, tools, held, stale>>
  BY DEF Execute
<1>2. held[a].rec \in tools.active /\ tools.on = "yes" /\ Admitted(a)
  BY <1>1 DEF ActiveAndAdmitted
<1>3. PICK b \in Agents : tools.rec[b] = held[a].rec /\ held[a].rec # NoRec
  BY <1>2 DEF IInv, MountsOK
<1>4. b = a
  BY <1>1, <1>3 DEF IInv, HeldNamesItsOwner
<1>5. held[a] = [owner |-> a, rec |-> tools.rec[a]]
  BY <1>1, <1>3, <1>4 DEF IInv, HeldOK
<1>6. Authority(a)
  BY <1>1, <1>2, <1>5 DEF Authority
<1>7. wrong' = wrong
  <2>1. wrong \in BOOLEAN
    BY DEF IInv, Surroundings
  <2> QED BY <1>1, <1>6, <2>1
<1>8. Surroundings' /\ RunsAreAuthorised'
  BY <1>1, <1>7 DEF IInv, Surroundings, RunsAreAuthorised, dsh
<1> QED BY <1>1, <1>8, ToolsUnchanged, ElsewhereKeeps DEF dsh

LEMMA ForgetKeeps == ASSUME IInv, NEW a \in Agents, Forget(a) PROVE IInv'
<1>1. /\ held' = [held EXCEPT ![a] = NoReference]
      /\ UNCHANGED <<dsh, tools, stale, wrong>>
  BY DEF Forget
<1>2. NoReference \in [owner : Agents \cup {None}, rec : Nat] /\ NoReference.rec = NoRec
  BY DEF NoReference, NoRec
<1>3. /\ held' \in [Agents -> [owner : Agents \cup {None}, rec : Nat]]
      /\ held'[a].rec = NoRec /\ \A b \in Agents \ {a} : held'[b] = held[b]
  BY <1>1, <1>2 DEF IInv, HeldOK
<1>4. HeldOK'
  <2>1. NoRec <= tools.made
    BY DEF IInv, MountsOK, ToolsState, NoRec
  <2> QED BY <1>1, <1>3, <2>1 DEF IInv, HeldOK
<1>5. HeldNamesItsOwner'
  BY <1>1, <1>3 DEF IInv, HeldNamesItsOwner
<1>6. Surroundings' /\ RunsAreAuthorised'
  BY <1>1 DEF IInv, Surroundings, RunsAreAuthorised, dsh
<1> QED BY <1>1, <1>4, <1>5, <1>6, ElsewhereKeeps DEF dsh

LEMMA NextKeeps == IInv /\ [Next]_vars => IInv'
<1> SUFFICES ASSUME IInv, [Next]_vars PROVE IInv'
  OBVIOUS
<1>1. CASE UNCHANGED vars
  <2>1. Surroundings' /\ RunsAreAuthorised'
    BY <1>1 DEF vars, dsh, IInv, Surroundings, RunsAreAuthorised
  <2> QED BY <1>1, <2>1, ToolsUnchanged, ElsewhereKeeps DEF vars, dsh
<1>2. CASE Next
  BY <1>2, DshKeeps, SetTurnKeeps, HearKeeps, HearDisposedKeeps, CallKeeps, ExecuteKeeps,
     ExecuteRefusedKeeps, ForgetKeeps, SetForeignKeeps, HearAllKeeps, RefreshKeeps,
     StartKeeps, StopKeeps
  DEF Next
<1> QED BY <1>1, <1>2

-----------------------------------------------------------------------------
(* The theorems. *)

\* The invariant holds for any list of agents and parents and any number of changes
\* (lib/dsh-plugin.mjs:136-250).
THEOREM Inductive == Spec => []IInv
BY InitEstablishes, NextKeeps, PTL DEF Spec

LEMMA IInvTypes == IInv => TypeOK
<1> SUFFICES ASSUME IInv PROVE TypeOK
  OBVIOUS
<1>1. tools \in ToolsState /\ tools.made \in Nat /\ tools.rec \in [Agents -> Nat]
  BY DEF IInv, MountsOK, ToolsState
<1>2. \A a \in Agents : tools.rec[a] \in 0..tools.made
  BY <1>1 DEF IInv, MountsOK
<1>3. tools.active \subseteq 1..tools.made
  <2> SUFFICES ASSUME NEW k \in tools.active PROVE k \in 1..tools.made
    OBVIOUS
  <2>1. k # NoRec /\ k \in 0..tools.made
    BY <1>2 DEF IInv, MountsOK
  <2> QED BY <1>1, <2>1 DEF NoRec
<1>4. tools.rec \in [Agents -> 0..tools.made]
  BY <1>1, <1>2
<1>5. tools \in [on : {"no", "yes", "stopped"}, rec : [Agents -> 0..tools.made],
                 active : SUBSET (1..tools.made), masked : SUBSET Agents, made : Nat,
                 queued : BOOLEAN]
  BY <1>1, <1>3, <1>4 DEF ToolsState
<1>6. held \in [Agents -> [owner : Agents \cup {None}, rec : 0..tools.made]]
  <2>1. \A a \in Agents : /\ held[a] \in [owner : Agents \cup {None}, rec : Nat]
                          /\ held[a].rec \in 0..tools.made
    BY <1>1 DEF IInv, HeldOK
  <2>2. \A a \in Agents : held[a] \in [owner : Agents \cup {None}, rec : 0..tools.made]
    BY <2>1
  <2> QED BY <2>2 DEF IInv, HeldOK
<1> QED BY <1>5, <1>6 DEF IInv, Surroundings, MountsOK, TypeOK

\* A mount belongs to one agent and its record is active for as long as the agent has
\* it (lib/dsh-plugin.mjs:149-200).
THEOREM TypeCorrect == Spec => []TypeOK
<1> QED BY Inductive, IInvTypes, PTL

LEMMA IInvTools == IInv => ToolsFollowAccess
<1> SUFFICES ASSUME IInv PROVE ToolsFollowAccess
  OBVIOUS
<1>1. LimitedSeesNone
  <2> SUFFICES ASSUME NEW a \in Known \ full PROVE Seen(tools, a) = NoReference
    BY DEF LimitedSeesNone
  <2>1. tools.rec[a] = NoRec /\ ~Inherits(tools, a)
    BY DEF IInv, KnownAreSettled, Settled
  <2> QED BY <2>1 DEF Seen
<1>2. FullHasItsOwn
  BY DEF FullHasItsOwn, IInv, KnownAreSettled, Settled
<1>3. NothingLeftBehind
  <2>1. tools.on = "stopped" => tools.active = {} /\ tools.masked = {}
    BY DEF IInv, QuietUnlessOn, MountsOK
  <2> QED BY <2>1 DEF NothingLeftBehind, IInv, DisposedAreGone
<1> QED BY <1>1, <1>2, <1>3 DEF ToolsFollowAccess

\* However many agents there are, and whoever's scope they live in: an agent the plugin
\* heard of sees no remote tool without Full Access, its own or inherited, and has its own with
\* it; a stopped plugin and a disposed agent leave nothing (lib/dsh-plugin.mjs:154-248).
THEOREM ToolsAreWhereAccessIs == Spec => []ToolsFollowAccess
<1> QED BY Inductive, IInvTools, PTL

\* A kept reference runs under the grant it was made for and no other
\* (lib/dsh-plugin.mjs:186-194).
THEOREM OperationsAreAuthorised == Spec => []RunsAreAuthorised
<1>1. IInv => RunsAreAuthorised
  BY DEF IInv
<1> QED BY Inductive, <1>1, PTL

\* Records of a step come from records before it, or are new.
FromRecords(t, u) ==
    \A b \in Agents : u.rec[b] \in {t.rec[b], NoRec} \/ u.rec[b] > t.made

LEMMA RecordsFromRecords == IInv /\ Next => FromRecords(tools, tools')
<1> SUFFICES ASSUME IInv, Next PROVE FromRecords(tools, tools')
  OBVIOUS
<1> USE DEF FromRecords
<1>1. CASE UNCHANGED tools
  BY <1>1
<1>2. ASSUME NEW t, Follows(t, tools'), t.rec = tools.rec, t.made = tools.made
      PROVE  FromRecords(tools, tools')
  BY <1>2 DEF Follows
<1>3. CASE Start
  <2> DEFINE t == [tools EXCEPT !.on = "yes"]
  <2>1. /\ t \in ToolsState /\ t.on = "yes" /\ t.rec = tools.rec
        /\ t.active = tools.active /\ t.made = tools.made /\ tools' = ReconcileAll(t)
    BY <1>3 DEF Start, IInv, MountsOK, ToolsState
  <2> HIDE DEF t
  <2>2. MountsOK(t)
    BY <2>1, MountsKept DEF IInv
  <2> QED BY <1>2, <2>1, <2>2, PassFacts DEF IInv
<1>4. CASE Refresh
  <2> DEFINE t == [tools EXCEPT !.queued = FALSE]
  <2>1. /\ t \in ToolsState /\ t.rec = tools.rec /\ t.active = tools.active
        /\ t.made = tools.made
        /\ tools' = IF t.on = "yes" THEN ReconcileAll(t) ELSE t
    BY <1>4 DEF Refresh, IInv, MountsOK, ToolsState
  <2> HIDE DEF t
  <2>2. MountsOK(t)
    BY <2>1, MountsKept DEF IInv
  <2> QED BY <1>2, <2>1, <2>2, PassFacts DEF IInv
<1>5. CASE HearAll
  BY <1>2, <1>5, PassFacts DEF HearAll, IInv
<1>6. CASE \E a \in Agents : Hear(a) \/ Call(a)
  BY <1>2, <1>6, ReconcileFacts DEF Hear, Call, IInv
<1>7. ASSUME NEW a \in Agents, HearDisposed(a) PROVE FromRecords(tools, tools')
  <2> DEFINE u == Unmount(tools, a)
  <2>1. Follows(tools, u) /\ tools' = [u EXCEPT !.masked = u.masked \ {a}]
    BY <1>7, UnmountFollows DEF HearDisposed
  <2> HIDE DEF u
  <2>2. tools'.rec = u.rec
    BY <2>1 DEF Follows, MountsOK, ToolsState
  <2> QED BY <2>1, <2>2 DEF Follows
<1>8. ASSUME NEW a \in Agents, ExecuteRefused(a) PROVE FromRecords(tools, tools')
  <2>1. CASE tools.on = "yes"
    BY <1>1, <1>2, <1>8, <2>1, UnmountFollows DEF ExecuteRefused
  <2>2. CASE tools.on # "yes"
    <3>1. Unmount(tools, a) = tools
      BY <2>2 DEF Unmount, IInv, QuietUnlessOn
    <3> QED BY <1>1, <1>8, <3>1 DEF ExecuteRefused
  <2> QED BY <2>1, <2>2
<1>9. CASE SetForeign
  BY <1>9, ToolsChangeFacts DEF SetForeign, IInv, MountsOK
<1>10. CASE Stop
  <2>1. tools'.rec = [a \in Agents |-> NoRec]
    BY <1>10 DEF Stop, IInv, MountsOK, ToolsState
  <2> QED BY <2>1
<1> QED
  BY <1>1, <1>3, <1>4, <1>5, <1>6, <1>7, <1>8, <1>9, <1>10
  DEF Next, Create, SetPermission, SetTurn, Leave, Execute, Forget

\* "Captured references stay revoked even after a later Full Access grant"
\* (lib/dsh-plugin.mjs:187): a record that is not active never becomes active again.
THEOREM RevokedStaysRevoked ==
    Spec => [][\A k \in 1..tools.made : k \notin tools.active => k \notin tools'.active]_vars
<1>1. ASSUME IInv, IInv', Next, NEW k \in 1..tools.made, k \in tools'.active
      PROVE  k \in tools.active
  <2>1. PICK b \in Agents : tools'.rec[b] = k /\ k # NoRec
    <3>1. tools'.active = {tools'.rec[b] : b \in Agents} \ {NoRec}
      BY <1>1 DEF IInv, MountsOK
    <3> QED BY <1>1, <3>1
  <2>2. ~(k > tools.made)
    BY <1>1 DEF IInv, MountsOK, ToolsState
  <2>3. tools.rec[b] = k
    BY <1>1, <2>1, <2>2, RecordsFromRecords DEF FromRecords
  <2> QED BY <1>1, <2>1, <2>3 DEF IInv, MountsOK
<1>2. IInv /\ IInv' /\ [Next]_vars =>
          [\A k \in 1..tools.made : k \notin tools.active => k \notin tools'.active]_vars
  BY <1>1
<1> QED BY Inductive, <1>2, PTL DEF Spec
=============================================================================
