--------------------------- MODULE HostLinkProofs ---------------------------
(***************************************************************************)
(* Proofs about HostLink: what sequences of frames hold, what the steps    *)
(* have in common, then the parts of the inductive invariant action by     *)
(* action, then the theorems.                                              *)
(***************************************************************************)
EXTENDS HostLink, FiniteSetTheorems, TLAPS

-----------------------------------------------------------------------------
(* The inductive invariant.                                                *)

\* The process of a child has heard a greeting, or will not serve any more.
Greeted(k) == daemon[k].known \/ daemon[k].state \in {"stopping", "dead"}

\* A child not yet started has done nothing, and a number not yet given to a request is
\* on no wire.
FreshOK ==
    /\ conn.child <= bridge.started
    /\ \A k \in Children :
          /\ k > bridge.started => wire[k].in = <<>> /\ wire[k].out = <<>>
          /\ \A f \in ToSet(wire[k].in) : call[f.id].state # "new"
          /\ \A f \in ToSet(wire[k].out) : call[f.id].state # "new"

\* What the frame of a request in progress says of it.
FramesOK ==
    \A k \in Children : \A f \in ToSet(wire[k].in) :
        f.id \in bridge.pending => call[f.id].kind = f.kind /\ call[f.id].child = k

\* What the answer to a request in progress says of its child: a greeting has been
\* heard, and only from another child than the one greeted comes a refusal.
AnswersOK ==
    \A k \in Children : \A f \in ToSet(wire[k].out) :
        f.id \in bridge.pending =>
            /\ call[f.id].child = k
            /\ call[f.id].kind = "hello" => f.ok /\ Greeted(k)
            /\ ~f.ok => k # conn.child

\* The connector greets once, by one request at a time, and sends nothing else before it
\* is up.
ConnectionOK ==
    /\ conn.up => conn.child \in Children /\ Greeted(conn.child) /\ ~Greeting
    /\ \A c, d \in bridge.pending : call[c].kind = "hello" /\ call[d].kind = "hello" => c = d
    /\ \A c \in bridge.pending : call[c].kind # "hello" => conn.up

IInv ==
    /\ TypeOK
    /\ PendingIsInProgress
    /\ FreshOK
    /\ FramesOK
    /\ AnswersOK
    /\ ConnectionOK

-----------------------------------------------------------------------------
(* Frames on a wire.                                                          *)

LEMMA AppendFacts ==
    ASSUME NEW S, NEW s \in Seq(S), NEW e \in S
    PROVE  Append(s, e) \in Seq(S) /\ ToSet(Append(s, e)) \subseteq ToSet(s) \cup {e}
<1>1. /\ Append(s, e) \in Seq(S) /\ DOMAIN Append(s, e) = 1..(Len(s) + 1)
      /\ DOMAIN s = 1..Len(s) /\ Len(s) \in Nat
      /\ \A n \in 1..Len(s) : Append(s, e)[n] = s[n]
      /\ Append(s, e)[Len(s) + 1] = e
  OBVIOUS
<1>2. ASSUME NEW n \in 1..(Len(s) + 1) PROVE Append(s, e)[n] \in ToSet(s) \cup {e}
  <2>1. CASE n \in 1..Len(s)
    BY <1>1, <2>1 DEF ToSet
  <2>2. CASE n = Len(s) + 1
    BY <1>1, <2>2
  <2>3. QED
    BY <1>1, <2>1, <2>2
<1>3. QED
  BY <1>1, <1>2 DEF ToSet

LEMMA TailFacts ==
    ASSUME NEW S, NEW s \in Seq(S), s # <<>>
    PROVE  /\ Head(s) \in S /\ Head(s) \in ToSet(s)
           /\ Tail(s) \in Seq(S) /\ ToSet(Tail(s)) \subseteq ToSet(s)
<1>1. /\ Tail(s) \in Seq(S) /\ DOMAIN Tail(s) = 1..(Len(s) - 1)
      /\ DOMAIN s = 1..Len(s) /\ Len(s) \in Nat \ {0}
      /\ \A n \in 1..(Len(s) - 1) : Tail(s)[n] = s[n + 1]
      /\ Head(s) = s[1]
  OBVIOUS
<1>2. s[1] \in S /\ s[1] \in ToSet(s)
  BY <1>1 DEF ToSet
<1>3. ASSUME NEW n \in 1..(Len(s) - 1) PROVE Tail(s)[n] \in ToSet(s)
  <2>1. n + 1 \in 1..Len(s)
    BY <1>1
  <2>2. QED
    BY <1>1, <2>1 DEF ToSet
<1>4. QED
  BY <1>1, <1>2, <1>3 DEF ToSet

LEMMA SetOfSeq ==
    ASSUME NEW S, NEW s \in Seq(S)
    PROVE  ToSet(s) \subseteq S
  BY DEF ToSet

LEMMA NoFrames ==
    ToSet(<<>>) = {}
  BY DEF ToSet

-----------------------------------------------------------------------------
(* What the steps have in common.                                             *)

\* Faults stay within their bound.
LEMMA FaultCounted ==
    ASSUME TypeOK, Fault
    PROVE  faults' \in 0..MaxFaults
<1>1. faults \in 0..MaxFaults /\ faults < MaxFaults /\ faults' = faults + 1
  BY DEF TypeOK, Fault
<1>2. QED
  BY <1>1, LimitsAssumption

\* Revisions are numbers below the last one there can be, in every copy.
LEMMA Revisions ==
    MostRev \in Nat
  BY LimitsAssumption, KeysAssumption, FS_CardinalityType DEF MostRev

LEMMA CountedRevisions ==
    ASSUME NEW s, Counted(s)
    PROVE  s.rev \in 0..MostRev /\ \A key \in Keys : s.ops[key] \in 0..MostRev
<1> DEFINE undone == {key \in Keys : s.ops[key] = 0}
           r == s.rev
<1>1. r \in Nat /\ r + Cardinality(undone) <= MostRev
  BY DEF Counted
<1>2. Cardinality(undone) \in Nat
  BY KeysAssumption, FS_Subset, FS_CardinalityType
<1>3. \A key \in Keys : s.ops[key] \in Nat /\ s.ops[key] <= r
  BY DEF Counted
<1> HIDE DEF undone, r
<1>4. r <= MostRev
  BY <1>1, <1>2, Revisions
<1>5. \A key \in Keys : s.ops[key] \in 0..MostRev
  BY <1>1, <1>3, <1>4, Revisions
<1>6. QED
  BY <1>1, <1>4, <1>5, Revisions DEF r

\* A process that starts serves from a copy of the file.
LEMMA CopyTypes ==
    ASSUME TypeOK, NEW k \in Children, store' = [store EXCEPT ![k] = store[File]]
    PROVE  DOMAIN store' = 0..MaxChildren /\ \A j \in 0..MaxChildren : Counted(store'[j])
<1>1. File \in 0..MaxChildren /\ DOMAIN store = 0..MaxChildren
      /\ \A j \in 0..MaxChildren : Counted(store[j])
  BY LimitsAssumption DEF File, NoChild, TypeOK
<1>2. DOMAIN store' = 0..MaxChildren
      /\ \A j \in 0..MaxChildren : store'[j] = IF j = k THEN store[File] ELSE store[j]
  BY <1>1
<1>3. QED
  BY <1>1, <1>2

\* Children of the control machine and of the bridge.
LEMMA ChildNumbers ==
    ASSUME TypeOK
    PROVE  /\ MaxChildren \in Nat /\ NoChild \notin Children
           /\ bridge.child \in Children \cup {NoChild} /\ bridge.started \in 0..MaxChildren
           /\ \A k \in Children : k \in Nat /\ k # 0
  BY LimitsAssumption DEF TypeOK, Children, NoChild

\* What a request that is written leaves behind.
WroteTo(c, kind, key, k) ==
    /\ k \in Children
    /\ IF bridge.child = NoChild THEN k = bridge.started + 1 ELSE k = bridge.child
    /\ bridge' = [child |-> k, pending |-> bridge.pending \cup {c},
                  started |-> IF bridge.child = NoChild THEN k ELSE bridge.started]
    /\ ssh' = [ssh EXCEPT ![k] = "live"]
    /\ daemon' = IF bridge.child = NoChild THEN [daemon EXCEPT ![k].state = "starting"]
                 ELSE daemon
    /\ wire'[k].in = Append(wire[k].in, [id |-> c, kind |-> kind, key |-> key])
    /\ wire'[k].out = wire[k].out
    /\ \A j \in Children \ {k} : wire'[j] = wire[j]
    /\ wire' \in [Children -> [in : Seq(Frame), out : Seq(Answer)]]
    /\ call'[c] = [state |-> "sent", kind |-> kind, child |-> k]
    /\ call' = [call EXCEPT ![c] = [state |-> "sent", kind |-> kind, child |-> k]]

LEMMA WriteFacts ==
    ASSUME TypeOK, NEW c \in Calls, NEW kind, NEW key,
           [id |-> c, kind |-> kind, key |-> key] \in Frame, Write(c, kind, key)
    PROVE  \E k \in Children : WroteTo(c, kind, key, k)
<1> DEFINE k == IF bridge.child = NoChild THEN bridge.started + 1 ELSE bridge.child
           f == [id |-> c, kind |-> kind, key |-> key]
<1>1. k \in Children
  BY DEF Write
<1>2. /\ IF bridge.child = NoChild THEN k = bridge.started + 1 ELSE k = bridge.child
      /\ bridge' = [child |-> k, pending |-> bridge.pending \cup {c},
                    started |-> IF bridge.child = NoChild THEN k ELSE bridge.started]
      /\ ssh' = [ssh EXCEPT ![k] = "live"]
      /\ daemon' = IF bridge.child = NoChild THEN [daemon EXCEPT ![k].state = "starting"]
                   ELSE daemon
      /\ wire' = [wire EXCEPT ![k].in = Append(@, f)]
      /\ call' = [call EXCEPT ![c] = [state |-> "sent", kind |-> kind, child |-> k]]
  BY DEF Write
<1> HIDE DEF k, f
<1>3. wire \in [Children -> [in : Seq(Frame), out : Seq(Answer)]]
      /\ call \in [Calls -> [state : States, kind : Kinds \cup {None}, child : 0..MaxChildren]]
  BY DEF TypeOK
<1>4. f \in Frame /\ Append(wire[k].in, f) \in Seq(Frame)
  BY <1>1, <1>3, AppendFacts DEF f
<1>5. /\ wire' \in [Children -> [in : Seq(Frame), out : Seq(Answer)]]
      /\ wire'[k].in = Append(wire[k].in, f) /\ wire'[k].out = wire[k].out
      /\ \A j \in Children \ {k} : wire'[j] = wire[j]
  BY <1>1, <1>2, <1>3, <1>4
<1>6. call'[c] = [state |-> "sent", kind |-> kind, child |-> k]
  BY <1>2, <1>3
<1>7. WroteTo(c, kind, key, k)
  BY <1>1, <1>2, <1>5, <1>6 DEF WroteTo, f
<1>8. QED
  BY <1>1, <1>7

\* What a reset takes along.
LEMMA ResetFacts ==
    ASSUME TypeOK, Reset
    PROVE  /\ bridge' \in [child : 0..MaxChildren, pending : SUBSET Calls,
                           started : 0..MaxChildren]
           /\ bridge'.child = NoChild /\ bridge'.pending = {}
           /\ bridge'.started = bridge.started
           /\ \A c \in Calls : call'[c] = IF c \in bridge.pending THEN Settled("lost")
                                          ELSE call[c]
           /\ call' \in [Calls -> [state : States, kind : Kinds \cup {None},
                                   child : 0..MaxChildren]]
           /\ \A c \in Calls : call'[c].kind = None <=> call'[c].state # "sent"
           /\ UNCHANGED conn
<1>1. bridge' = [bridge EXCEPT !.child = NoChild, !.pending = {}]
      /\ call' = Unsettled(bridge.pending) /\ UNCHANGED conn
  BY DEF Reset
<1>2. /\ bridge' \in [child : 0..MaxChildren, pending : SUBSET Calls,
                      started : 0..MaxChildren]
      /\ bridge'.child = NoChild /\ bridge'.pending = {}
      /\ bridge'.started = bridge.started
  <2>1. NoChild \in 0..MaxChildren /\ {} \in SUBSET Calls
    BY LimitsAssumption DEF NoChild
  <2>2. bridge \in [child : 0..MaxChildren, pending : SUBSET Calls, started : 0..MaxChildren]
    BY DEF TypeOK
  <2>3. QED
    BY <1>1, <2>1, <2>2
<1>3. Settled("lost") \in [state : States, kind : Kinds \cup {None}, child : 0..MaxChildren]
      /\ Settled("lost").kind = None /\ Settled("lost").state = "lost"
  BY LimitsAssumption DEF Settled, States, NoChild
<1>4. \A c \in Calls : call'[c] = IF c \in bridge.pending THEN Settled("lost") ELSE call[c]
  BY <1>1 DEF Unsettled
<1>5. call' \in [Calls -> [state : States, kind : Kinds \cup {None}, child : 0..MaxChildren]]
  BY <1>1, <1>3 DEF Unsettled, TypeOK
<1>6. \A c \in Calls : call'[c].kind = None <=> call'[c].state # "sent"
  BY <1>3, <1>4, ZenonT(60) DEF TypeOK
<1>7. QED
  BY <1>1, <1>2, <1>4, <1>5, <1>6

-----------------------------------------------------------------------------
(* Types.                                                                     *)

LEMMA InitTypes ==
    ASSUME Init
    PROVE  TypeOK
<1>1. call \in [Calls -> [state : States, kind : Kinds \cup {None}, child : 0..MaxChildren]]
      /\ \A c \in Calls : call[c].kind = None <=> call[c].state # "sent"
  BY LimitsAssumption DEF Init, States, NoChild
<1>2. MostRev \in Nat
  BY Revisions
<1>3. conn \in [up : BOOLEAN, child : 0..MaxChildren, last : 0..MostRev]
      /\ bridge \in [child : 0..MaxChildren, pending : SUBSET Calls, started : 0..MaxChildren]
      /\ bridge.child <= bridge.started /\ bridge.child = NoChild /\ bridge.started = 0
  BY <1>2, LimitsAssumption DEF Init, NoChild
<1>4. ssh \in [Children -> {"none", "live", "killed", "gone"}]
      /\ \A k \in Children : ssh[k] = "none" <=> k > bridge.started
  BY <1>3, LimitsAssumption DEF Init, Children
<1>5. wire \in [Children -> [in : Seq(Frame), out : Seq(Answer)]]
  BY DEF Init
<1>6. daemon \in [Children -> Process]
  BY DEF Init, Process
<1>7. DOMAIN store = 0..MaxChildren /\ \A j \in 0..MaxChildren : Counted(store[j])
  <2>1. PICK ops \in [Keys -> 0..FirstRev] :
           store = [j \in 0..MaxChildren |-> [rev |-> FirstRev, ops |-> ops]]
    BY DEF Init
  <2> DEFINE first == [rev |-> FirstRev, ops |-> ops]
  <2>2. Counted(first)
    <3>1. IsFiniteSet({key \in Keys : ops[key] = 0})
          /\ Cardinality({key \in Keys : ops[key] = 0}) <= Cardinality(Keys)
      BY KeysAssumption, FS_Subset
    <3>2. Cardinality({key \in Keys : ops[key] = 0}) \in Nat /\ Cardinality(Keys) \in Nat
      BY <3>1, KeysAssumption, FS_CardinalityType
    <3>3. FirstRev + Cardinality({key \in Keys : ops[key] = 0}) <= MostRev
      BY <3>1, <3>2, LimitsAssumption DEF MostRev
    <3>4. first \in [rev : Nat, ops : [Keys -> Nat]] /\ first.rev = FirstRev /\ first.ops = ops
          /\ \A key \in Keys : ops[key] <= FirstRev
      BY LimitsAssumption
    <3> HIDE DEF first
    <3>5. QED
      BY <3>3, <3>4 DEF Counted
  <2> HIDE DEF first
  <2>3. store = [j \in 0..MaxChildren |-> first]
    BY <2>1 DEF first
  <2>4. QED
    BY <2>2, <2>3
<1>8. faults \in 0..MaxFaults
  BY LimitsAssumption DEF Init
<1>9. QED
  BY <1>1, <1>2, <1>3, <1>4, <1>5, <1>6, <1>7, <1>8 DEF TypeOK, NoChild

\* A request that is written.
LEMMA WroteTypes ==
    ASSUME TypeOK, NEW c \in Calls, NEW kind \in Kinds, NEW key, NEW k \in Children,
           WroteTo(c, kind, key, k), UNCHANGED <<conn, store, faults>>
    PROVE  TypeOK'
<1>1. /\ call' \in [Calls -> [state : States, kind : Kinds \cup {None},
                              child : 0..MaxChildren]]
      /\ k \in 0..MaxChildren
  <2>1. k \in 0..MaxChildren
    BY LimitsAssumption DEF Children
  <2>2. [state |-> "sent", kind |-> kind, child |-> k]
           \in [state : States, kind : Kinds \cup {None}, child : 0..MaxChildren]
    BY <2>1 DEF States
  <2>3. QED
    BY <2>1, <2>2 DEF TypeOK, WroteTo
<1>2. \A d \in Calls : call'[d].kind = None <=> call'[d].state # "sent"
  <2>1. None \notin Kinds
    BY NoneAssumption DEF Kinds
  <2>2. call'[c].kind = kind /\ call'[c].state = "sent"
    BY DEF WroteTo
  <2>3. \A d \in Calls \ {c} : call'[d] = call[d]
    BY DEF WroteTo, TypeOK
  <2>4. QED
    BY <2>1, <2>2, <2>3, ZenonT(60) DEF TypeOK
<1>3. k \in Nat /\ k # 0 /\ k <= MaxChildren /\ MaxChildren \in Nat
      /\ bridge.started \in 0..MaxChildren /\ bridge.child \in 0..MaxChildren
      /\ bridge.child <= bridge.started
  BY LimitsAssumption DEF Children, TypeOK
<1>4. /\ bridge' \in [child : 0..MaxChildren, pending : SUBSET Calls,
                      started : 0..MaxChildren]
      /\ bridge'.child = k
      /\ bridge'.started = IF bridge.child = NoChild THEN k ELSE bridge.started
  <2>1. /\ bridge' = [child |-> k, pending |-> bridge.pending \cup {c},
                      started |-> IF bridge.child = NoChild THEN k ELSE bridge.started]
        /\ bridge.pending \cup {c} \in SUBSET Calls
    BY DEF WroteTo, TypeOK
  <2>2. QED
    BY <1>1, <1>3, <2>1
<1>5. /\ ssh' \in [Children -> {"none", "live", "killed", "gone"}]
      /\ ssh'[k] = "live" /\ \A j \in Children \ {k} : ssh'[j] = ssh[j]
  BY DEF WroteTo, TypeOK
<1>6. /\ bridge'.child <= bridge'.started
      /\ bridge.child = NoChild => k = bridge.started + 1
      /\ bridge.child # NoChild => k = bridge.child
      /\ NoChild = 0
  BY <1>3, <1>4 DEF WroteTo, NoChild
<1>7. \A j \in Children : ssh'[j] = "none" <=> j > bridge'.started
  <2> SUFFICES ASSUME NEW j \in Children PROVE ssh'[j] = "none" <=> j > bridge'.started
    OBVIOUS
  <2>1. j \in Nat /\ (ssh[j] = "none" <=> j > bridge.started)
    BY LimitsAssumption DEF Children, TypeOK
  <2>2. CASE j = k
    BY <1>3, <1>4, <1>5, <1>6, <2>2
  <2>3. CASE j # k
    <3>1. j > bridge'.started <=> j > bridge.started
      BY <1>3, <1>4, <1>6, <2>1, <2>3
    <3>2. QED
      BY <1>5, <2>1, <2>3, <3>1
  <2>4. QED
    BY <2>2, <2>3
<1>8. daemon' \in [Children -> Process]
  <2>1. CASE bridge.child # NoChild
    BY <2>1 DEF WroteTo, TypeOK
  <2>2. CASE bridge.child = NoChild
    <3>1. daemon' = [daemon EXCEPT ![k].state = "starting"]
      BY <2>2 DEF WroteTo
    <3>2. QED
      BY <3>1, ZenonT(60) DEF TypeOK, Process
  <2>3. QED
    BY <2>1, <2>2
<1>10. wire' \in [Children -> [in : Seq(Frame), out : Seq(Answer)]]
  BY DEF WroteTo, Answer
<1>11. /\ conn' \in [up : BOOLEAN, child : 0..MaxChildren, last : 0..MostRev]
       /\ DOMAIN store' = 0..MaxChildren /\ \A j \in 0..MaxChildren : Counted(store'[j])
       /\ faults' \in 0..MaxFaults
  BY DEF TypeOK
<1>12. ssh'[bridge'.child] = "live"
  BY <1>4, <1>5
<1>13. QED
  BY <1>1, <1>2, <1>4, <1>6, <1>5, <1>7, <1>8, <1>10, <1>11, <1>12, Zenon DEF TypeOK

\* The steps of the processes but Handle.
LEMMA DaemonTypes ==
    ASSUME TypeOK, NEW k \in Children,
           DaemonStarts(k) \/ DaemonRefused(k) \/ DaemonStops(k) \/ DaemonDies(k)
    PROVE  TypeOK'
<1>1. daemon' \in [Children -> Process]
  <2>1. CASE DaemonStarts(k) \/ DaemonRefused(k)
    <3>1. PICK st \in {"dead", "serving"} : daemon' = [daemon EXCEPT ![k].state = st]
      BY <2>1 DEF DaemonStarts, DaemonRefused
    <3>2. QED
      BY <3>1, ZenonT(60) DEF TypeOK, Process
  <2>2. CASE DaemonStops(k) \/ DaemonDies(k)
    <3>1. PICK st \in {"dead", "stopping"} :
             daemon' = [daemon EXCEPT ![k] = [state |-> st, known |-> FALSE]]
      BY <2>2 DEF DaemonStops, DaemonDies, TypeOK, Process
    <3>2. QED
      BY <3>1 DEF TypeOK, Process
  <2>3. QED
    BY <2>1, <2>2
<1>2. DOMAIN store' = 0..MaxChildren /\ \A j \in 0..MaxChildren : Counted(store'[j])
  <2>1. CASE DaemonStarts(k)
    BY <2>1, CopyTypes DEF DaemonStarts
  <2>2. CASE DaemonRefused(k) \/ DaemonStops(k) \/ DaemonDies(k)
    BY <2>2 DEF DaemonRefused, DaemonStops, DaemonDies, TypeOK
  <2>3. QED
    BY <2>1, <2>2
<1>3. UNCHANGED <<call, conn, bridge, ssh, wire>> /\ faults' \in 0..MaxFaults
  BY FaultCounted, SMTT(30) DEF DaemonStarts, DaemonRefused, DaemonStops, DaemonDies, control,
     TypeOK
<1>4. QED
  BY <1>1, <1>2, <1>3, ZenonT(60) DEF TypeOK

\* Doing an operation, for the first time or again, keeps a copy well counted, and its
\* revision is one a client may hear.
LEMMA ExecutedCounts ==
    ASSUME NEW s, Counted(s), NEW key \in Keys
    PROVE  Counted(Executed(s, key)) /\ Executed(s, key).ops[key] \in 0..MostRev
<1> DEFINE Undone(x) == {q \in Keys : x.ops[q] = 0}
           done == Executed(s, key)
<1>1. s \in [rev : Nat, ops : [Keys -> Nat]] /\ s.rev \in Nat /\ s.ops \in [Keys -> Nat]
      /\ s.rev + Cardinality(Undone(s)) <= MostRev
      /\ \A q \in Keys : s.ops[q] <= s.rev
  BY DEF Counted
<1>2. Counted(done)
  <2>1. CASE s.ops[key] # 0
    BY <2>1 DEF Executed
  <2>2. CASE s.ops[key] = 0
    <3>1. done = [rev |-> s.rev + 1, ops |-> [s.ops EXCEPT ![key] = s.rev + 1]]
      BY <2>2 DEF Executed, Done
    <3>2. done.rev = s.rev + 1 /\ done.ops = [s.ops EXCEPT ![key] = s.rev + 1]
      BY <3>1
    <3>3. done \in [rev : Nat, ops : [Keys -> Nat]]
      BY <1>1, <3>1
    <3>4. \A q \in Keys : done.ops[q] <= done.rev
      BY <1>1, <3>2
    <3>5. Undone(done) = Undone(s) \ {key}
      BY <1>1, <3>2
    <3>6. IsFiniteSet(Undone(s)) /\ key \in Undone(s)
      BY <2>2, KeysAssumption, FS_Subset
    <3>7. Cardinality(Undone(done)) = Cardinality(Undone(s)) - 1
          /\ Cardinality(Undone(s)) \in Nat
      <4> HIDE DEF Undone
      <4>1. QED
        BY <3>5, <3>6, FS_RemoveElement, FS_CardinalityType
    <3>8. done.rev + Cardinality(Undone(done)) <= MostRev
      <4> HIDE DEF Undone, done
      <4>1. QED
        BY <1>1, <3>2, <3>7, Revisions
    <3>9. QED
      BY <3>3, <3>4, <3>8 DEF Counted
  <2>3. QED
    BY <2>1, <2>2
<1>3. done.ops[key] \in 0..MostRev
  BY <1>2, CountedRevisions
<1>4. QED
  BY <1>2, <1>3

\* What a frame that is handled leaves behind.
Handled(k, a) ==
    LET f == Head(wire[k].in) IN
    /\ f \in Frame /\ f \in ToSet(wire[k].in) /\ daemon[k].state = "serving"
    /\ wire' \in [Children -> [in : Seq(Frame), out : Seq(Answer)]]
    /\ ToSet(wire'[k].in) \subseteq ToSet(wire[k].in)
    /\ ToSet(wire'[k].out) \subseteq ToSet(wire[k].out) \cup {a}
    /\ \A j \in Children \ {k} : wire'[j] = wire[j]
    /\ a.id = f.id
    /\ \A j \in Children : /\ daemon'[j].state = daemon[j].state
                           /\ daemon[j].known => daemon'[j].known
    /\ \/ f.kind = "hello" /\ a.ok = TRUE /\ daemon'[k].known
       \/ f.kind # "hello" /\ ~daemon[k].known /\ a.ok = FALSE
       \/ f.kind # "hello" /\ a.ok = TRUE

LEMMA HandleFacts ==
    ASSUME TypeOK, NEW k \in Children, Handle(k)
    PROVE  \E a : Handled(k, a)
<1> DEFINE f == Head(wire[k].in)
           done == Executed(store[k], f.key)
<1>1. /\ wire \in [Children -> [in : Seq(Frame), out : Seq(Answer)]]
      /\ wire[k].in \in Seq(Frame) /\ wire[k].in # <<>>
      /\ daemon \in [Children -> Process]
      /\ Counted(store[k]) /\ daemon[k].state = "serving"
  BY DEF TypeOK, Handle, Children
<1>2. /\ f \in Frame /\ f \in ToSet(wire[k].in)
      /\ Tail(wire[k].in) \in Seq(Frame) /\ ToSet(Tail(wire[k].in)) \subseteq ToSet(wire[k].in)
  BY <1>1, TailFacts
<1>3. f.id \in Calls
  BY <1>2 DEF Frame
<1>4. store[k].rev \in 0..MostRev /\ 0 \in 0..MostRev
  BY <1>1, CountedRevisions, Revisions
<1>5. wire[k].out \in Seq(Answer)
  BY <1>1
<1>6. ASSUME NEW ok \in BOOLEAN, NEW r \in 0..MostRev,
             wire' = [wire EXCEPT ![k].in = Tail(@), ![k].out = Append(@, Reply(f.id, ok, r))]
      PROVE  LET a == Reply(f.id, ok, r) IN
             /\ wire' \in [Children -> [in : Seq(Frame), out : Seq(Answer)]]
             /\ ToSet(wire'[k].in) \subseteq ToSet(wire[k].in)
             /\ ToSet(wire'[k].out) \subseteq ToSet(wire[k].out) \cup {a}
             /\ \A j \in Children \ {k} : wire'[j] = wire[j]
             /\ a.id = f.id /\ a.ok = ok
  <2> DEFINE a == Reply(f.id, ok, r)
             i == Tail(wire[k].in)
             o == Append(wire[k].out, a)
  <2>1. a \in Answer /\ a.id = f.id /\ a.ok = ok
    BY <1>3, <1>6 DEF Reply, Answer
  <2>2. o \in Seq(Answer) /\ ToSet(o) \subseteq ToSet(wire[k].out) \cup {a}
    BY <1>5, <2>1, AppendFacts
  <2>3. \A j \in Children : wire[j].in \in Seq(Frame) /\ wire[j].out \in Seq(Answer)
    BY <1>1
  <2>4. wire' = [wire EXCEPT ![k].in = i, ![k].out = o]
    BY <1>6
  <2> HIDE DEF a, i, o
  <2>5. /\ wire'[k].in = i /\ wire'[k].out = o
        /\ \A j \in Children \ {k} : wire'[j] = wire[j]
        /\ DOMAIN wire' = Children /\ wire' = [j \in Children |-> wire'[j]]
        /\ \A j \in Children : wire'[j] = [in |-> wire'[j].in, out |-> wire'[j].out]
    BY <1>1, <2>4
  <2>6. i \in Seq(Frame)
    BY <1>2 DEF i
  <2>7. wire' \in [Children -> [in : Seq(Frame), out : Seq(Answer)]]
    BY <2>2, <2>3, <2>5, <2>6
  <2>8. ToSet(i) \subseteq ToSet(wire[k].in)
    BY <1>2 DEF i
  <2>9. QED
    BY <2>1, <2>2, <2>5, <2>7, <2>8 DEF a
<1> HIDE DEF f
<1>7. CASE /\ f.kind = "hello"
           /\ wire' = [wire EXCEPT ![k].in = Tail(@), ![k].out = Append(@, Reply(f.id, TRUE, store[k].rev))]
           /\ daemon' = [daemon EXCEPT ![k].known = TRUE]
  <2>1. /\ \A j \in Children : /\ daemon'[j].state = daemon[j].state
                               /\ daemon[j].known => daemon'[j].known
        /\ daemon'[k].known
    BY <1>1, <1>7 DEF Process
  <2>2. Handled(k, Reply(f.id, TRUE, store[k].rev))
    BY <1>1, <1>2, <1>4, <1>6, <1>7, <2>1 DEF Handled, f
  <2>3. QED
    BY <2>2
<1>8. CASE /\ f.kind # "hello" /\ ~daemon[k].known
           /\ wire' = [wire EXCEPT ![k].in = Tail(@), ![k].out = Append(@, Reply(f.id, FALSE, 0))]
           /\ UNCHANGED remote
  <2>1. Handled(k, Reply(f.id, FALSE, 0))
    BY <1>1, <1>2, <1>4, <1>6, <1>8 DEF Handled, f, remote
  <2>2. QED
    BY <2>1
<1>9. CASE /\ f.kind # "hello"
           /\ \E r \in 0..MostRev :
                wire' = [wire EXCEPT ![k].in = Tail(@), ![k].out = Append(@, Reply(f.id, TRUE, r))]
           /\ UNCHANGED daemon
  <2>1. PICK r \in 0..MostRev :
           wire' = [wire EXCEPT ![k].in = Tail(@), ![k].out = Append(@, Reply(f.id, TRUE, r))]
    BY <1>9
  <2>2. Handled(k, Reply(f.id, TRUE, r))
    BY <1>1, <1>2, <1>6, <1>9, <2>1 DEF Handled, f
  <2>3. QED
    BY <2>2
<1>10. CASE /\ f.kind = "operation" /\ daemon[k].known
            /\ wire' = [wire EXCEPT ![k].in = Tail(@),
                                    ![k].out = Append(@, Reply(f.id, TRUE, done.ops[f.key]))]
            /\ UNCHANGED daemon
  <2>1. f.key \in Keys
    BY <1>2, <1>10 DEF Frame
  <2>2. done.ops[f.key] \in 0..MostRev
    BY <1>1, <2>1, ExecutedCounts
  <2>3. QED
    BY <1>9, <1>10, <2>2
<1>11. CASE /\ f.kind = "read" /\ daemon[k].known
            /\ wire' = [wire EXCEPT ![k].in = Tail(@),
                                    ![k].out = Append(@, Reply(f.id, TRUE, store[k].rev))]
            /\ UNCHANGED remote
  BY <1>4, <1>9, <1>11 DEF remote
<1>12. QED
  BY <1>7, <1>8, <1>10, <1>11 DEF Handle, f

LEMMA HandleTypes ==
    ASSUME TypeOK, NEW k \in Children, Handle(k)
    PROVE  TypeOK'
<1>1. PICK a : Handled(k, a)
  BY HandleFacts
<1>2. daemon' \in [Children -> Process]
  <2>1. \/ daemon' = [daemon EXCEPT ![k].known = TRUE]
        \/ daemon' = daemon
    BY DEF Handle, remote
  <2>2. CASE daemon' = [daemon EXCEPT ![k].known = TRUE]
    <3>1. daemon \in [Children -> Process]
          /\ TRUE \in BOOLEAN
      BY DEF TypeOK
    <3>2. QED
      BY <2>2, <3>1 DEF Process
  <2>3. CASE daemon' = daemon
    BY <2>3 DEF TypeOK
  <2>4. QED
    BY <2>1, <2>2, <2>3
<1>3. DOMAIN store' = 0..MaxChildren /\ \A j \in 0..MaxChildren : Counted(store'[j])
  <2>1. DOMAIN store = 0..MaxChildren /\ \A j \in 0..MaxChildren : Counted(store[j])
    BY DEF TypeOK
  <2>2. CASE store' = store
    BY <2>1, <2>2
  <2>3. CASE store' # store
    <3> DEFINE f == Head(wire[k].in)
    <3>1. f.kind = "operation" /\ f \in Frame
      BY <1>1, <2>3 DEF Handle, Handled, remote
    <3>2. f.key \in Keys
      BY <3>1 DEF Frame
    <3>3. store' = Written(k, Executed(store[k], f.key))
      BY <2>3 DEF Handle, remote
    <3>4. Counted(store[k])
      BY <2>1 DEF Children
    <3>5. Counted(Executed(store[k], f.key))
      BY <3>2, <3>4, ExecutedCounts
    <3> HIDE DEF f
    <3>6. QED
      BY <2>1, <3>3, <3>5 DEF Written
  <2>4. QED
    BY <2>2, <2>3
<1>5. UNCHANGED <<call, conn, bridge, ssh, faults>>
  BY DEF Handle, control
<1>6. wire' \in [Children -> [in : Seq(Frame), out : Seq(Answer)]]
  BY <1>1 DEF Handled
<1>7. QED
  BY <1>2, <1>3, <1>5, <1>6, SMTT(30) DEF TypeOK

\* What an answer that is delivered leaves behind.
LEMMA DeliverFacts ==
    ASSUME TypeOK, NEW k \in Children, Deliver(k)
    PROVE  LET f == Head(wire[k].out)
               c == f.id IN
           /\ f \in Answer /\ f \in ToSet(wire[k].out) /\ c \in Calls
           /\ wire' \in [Children -> [in : Seq(Frame), out : Seq(Answer)]]
           /\ \A j \in Children : wire'[j].in = wire[j].in
                                  /\ ToSet(wire'[j].out) \subseteq ToSet(wire[j].out)
           /\ bridge' = [bridge EXCEPT !.pending = @ \ {c}]
           /\ call' = IF c \in bridge.pending
                      THEN [call EXCEPT ![c] = Settled(IF f.ok THEN "ok" ELSE "refused")]
                      ELSE call
           /\ conn' \in [up : BOOLEAN, child : 0..MaxChildren, last : 0..MostRev]
           /\ c \in bridge.pending /\ f.ok /\ call[c].kind = "hello" =>
                 conn'.up /\ conn'.child = k
           /\ ~(c \in bridge.pending /\ f.ok /\ call[c].kind = "hello") =>
                 conn'.up = conn.up /\ conn'.child = conn.child
<1> DEFINE f == Head(wire[k].out)
           c == f.id
<1>1. /\ wire \in [Children -> [in : Seq(Frame), out : Seq(Answer)]]
      /\ wire[k].out \in Seq(Answer) /\ wire[k].out # <<>>
  BY DEF TypeOK, Deliver
<1>2. /\ f \in Answer /\ f \in ToSet(wire[k].out)
      /\ Tail(wire[k].out) \in Seq(Answer)
      /\ ToSet(Tail(wire[k].out)) \subseteq ToSet(wire[k].out)
  BY <1>1, TailFacts
<1>3. f.id \in Calls /\ f.rev \in 0..MostRev /\ f.ok \in BOOLEAN
  BY <1>2 DEF Answer
<1>4. wire' = [wire EXCEPT ![k].out = Tail(@)]
  BY DEF Deliver
<1>5. /\ wire' \in [Children -> [in : Seq(Frame), out : Seq(Answer)]]
      /\ \A j \in Children : wire'[j].in = wire[j].in
                             /\ ToSet(wire'[j].out) \subseteq ToSet(wire[j].out)
  BY <1>1, <1>2, <1>4
<1>6. /\ conn \in [up : BOOLEAN, child : 0..MaxChildren, last : 0..MostRev]
      /\ bridge \in [child : 0..MaxChildren, pending : SUBSET Calls, started : 0..MaxChildren]
  BY DEF TypeOK
<1>7. Later(f.rev) \in 0..MostRev /\ k \in 0..MaxChildren
  BY <1>3, <1>6, LimitsAssumption DEF Later, Children
<1> HIDE DEF f
<1>8. CASE f.id \in bridge.pending
  <2>1. /\ bridge' = [bridge EXCEPT !.pending = @ \ {c}]
        /\ call' = [call EXCEPT ![c] = Settled(IF f.ok THEN "ok" ELSE "refused")]
        /\ conn' = IF ~f.ok THEN conn
                   ELSE IF call[c].kind = "hello"
                        THEN [up |-> TRUE, child |-> k, last |-> Later(f.rev)]
                        ELSE [conn EXCEPT !.last = Later(f.rev)]
    BY <1>8 DEF Deliver, f
  <2>2. /\ conn' \in [up : BOOLEAN, child : 0..MaxChildren, last : 0..MostRev]
        /\ f.ok /\ call[c].kind = "hello" => conn'.up /\ conn'.child = k
        /\ ~(f.ok /\ call[c].kind = "hello") =>
              conn'.up = conn.up /\ conn'.child = conn.child
    BY <1>6, <1>7, <2>1
  <2>3. QED
    BY <1>2, <1>3, <1>5, <1>8, <2>1, <2>2 DEF f
<1>9. CASE f.id \notin bridge.pending
  <2>1. UNCHANGED control
    BY <1>9 DEF Deliver, f
  <2>2. bridge' = [bridge EXCEPT !.pending = @ \ {c}]
    <3>1. bridge.pending \ {c} = bridge.pending
      BY <1>9
    <3>2. QED
      BY <1>6, <2>1, <3>1 DEF control
  <2>3. QED
    BY <1>2, <1>3, <1>5, <1>6, <1>9, <2>1, <2>2 DEF f, control
<1>10. QED
  BY <1>8, <1>9

\* The states a settled request may have.
LEMMA SettledFacts ==
    ASSUME NEW s \in {"ok", "refused", "lost"}
    PROVE  /\ Settled(s) \in [state : States, kind : Kinds \cup {None}, child : 0..MaxChildren]
           /\ Settled(s).kind = None /\ Settled(s).state = s
  BY LimitsAssumption DEF Settled, States, NoChild

LEMMA SettleTypes ==
    ASSUME TypeOK, NEW c \in Calls, NEW s \in {"ok", "refused", "lost"},
           call' = [call EXCEPT ![c] = Settled(s)]
    PROVE  /\ call' \in [Calls -> [state : States, kind : Kinds \cup {None},
                                   child : 0..MaxChildren]]
           /\ \A d \in Calls : call'[d].kind = None <=> call'[d].state # "sent"
<1> DEFINE new == Settled(s)
<1>1. /\ new \in [state : States, kind : Kinds \cup {None}, child : 0..MaxChildren]
      /\ new.kind = None /\ new.state # "sent"
  BY SettledFacts
<1>2. call' = [call EXCEPT ![c] = new]
  OBVIOUS
<1> HIDE DEF new
<1>3. QED
  BY <1>1, <1>2 DEF TypeOK

LEMMA DeliverTypes ==
    ASSUME TypeOK, NEW k \in Children, Deliver(k)
    PROVE  TypeOK'
<1> DEFINE c == Head(wire[k].out).id
<1>1. /\ wire' \in [Children -> [in : Seq(Frame), out : Seq(Answer)]]
      /\ bridge' = [bridge EXCEPT !.pending = @ \ {c}]
      /\ conn' \in [up : BOOLEAN, child : 0..MaxChildren, last : 0..MostRev]
      /\ c \in Calls
      /\ call' = call \/ \E s \in {"ok", "refused", "lost"} :
                            call' = [call EXCEPT ![c] = Settled(s)]
  BY DeliverFacts
<1>2. UNCHANGED <<ssh, daemon, store, faults>>
  BY DEF Deliver, remote
<1> HIDE DEF c
<1>3. /\ call' \in [Calls -> [state : States, kind : Kinds \cup {None},
                              child : 0..MaxChildren]]
      /\ \A d \in Calls : call'[d].kind = None <=> call'[d].state # "sent"
  <2>1. CASE call' = call
    BY <2>1 DEF TypeOK
  <2>2. CASE \E s \in {"ok", "refused", "lost"} : call' = [call EXCEPT ![c] = Settled(s)]
    BY <1>1, <2>2, SettleTypes
  <2>3. QED
    BY <1>1, <2>1, <2>2
<1>4. /\ bridge' \in [child : 0..MaxChildren, pending : SUBSET Calls,
                      started : 0..MaxChildren]
      /\ bridge'.child = bridge.child /\ bridge'.started = bridge.started
  BY <1>1 DEF TypeOK
<1>5. QED
  BY <1>1, <1>2, <1>3, <1>4 DEF TypeOK

\* The steps that lose children: a reset, the children of the control machine alone
\* changing by being killed or gone.
LEMMA ResetTypes ==
    ASSUME TypeOK, Reset,
           ssh' \in [Children -> {"none", "live", "killed", "gone"}],
           \A k \in Children : ssh'[k] = "none" <=> ssh[k] = "none",
           UNCHANGED <<wire, daemon, store>>, faults' \in 0..MaxFaults
    PROVE  TypeOK'
<1>1. /\ bridge' \in [child : 0..MaxChildren, pending : SUBSET Calls,
                      started : 0..MaxChildren]
      /\ bridge'.child = NoChild /\ bridge'.started = bridge.started
      /\ call' \in [Calls -> [state : States, kind : Kinds \cup {None},
                              child : 0..MaxChildren]]
      /\ \A c \in Calls : call'[c].kind = None <=> call'[c].state # "sent"
      /\ UNCHANGED conn
  BY ResetFacts
<1>2. bridge'.child <= bridge'.started
  BY <1>1 DEF TypeOK, NoChild
<1>3. \A k \in Children : ssh'[k] = "none" <=> k > bridge'.started
  BY <1>1 DEF TypeOK
<1>4. QED
  BY <1>1, <1>2, <1>3 DEF TypeOK

\* Who is killed or gone was started before.
LEMMA KilledFacts ==
    ASSUME TypeOK
    PROVE  /\ Killed \in [Children -> {"none", "live", "killed", "gone"}]
           /\ \A k \in Children : Killed[k] = "none" <=> ssh[k] = "none"
<1>1. CASE bridge.child = NoChild
  BY <1>1 DEF TypeOK, Killed
<1>2. CASE bridge.child # NoChild
  <2>1. bridge.child \in Children /\ ssh[bridge.child] = "live"
    BY <1>2, ChildNumbers DEF TypeOK
  <2>2. QED
    BY <1>2, <2>1 DEF TypeOK, Killed
<1>3. QED
  BY <1>1, <1>2

LEMMA ExitsTypes ==
    ASSUME TypeOK, NEW k \in Children, Exits(k), ssh[k] # "none", faults' \in 0..MaxFaults
    PROVE  TypeOK'
<1> DEFINE before == IF bridge.child = k THEN ssh ELSE Killed
<1>1. /\ before \in [Children -> {"none", "live", "killed", "gone"}]
      /\ \A j \in Children : before[j] = "none" <=> ssh[j] = "none"
  BY KilledFacts DEF TypeOK
<1>2. ssh' = [before EXCEPT ![k] = "gone"] /\ Reset /\ UNCHANGED <<wire, daemon, store>>
  BY DEF Exits, remote
<1> HIDE DEF before
<1>3. /\ ssh' \in [Children -> {"none", "live", "killed", "gone"}]
      /\ \A j \in Children : ssh'[j] = "none" <=> ssh[j] = "none"
  BY <1>1, <1>2
<1>4. QED
  BY <1>2, <1>3, ResetTypes

LEMMA LossTypes ==
    ASSUME TypeOK, NEW k \in Children, ChildEnds(k) \/ LinkLost(k)
    PROVE  TypeOK'
<1>1. Exits(k) /\ ssh[k] # "none"
  BY DEF ChildEnds, LinkLost
<1>2. faults' \in 0..MaxFaults
  BY FaultCounted DEF ChildEnds, LinkLost, TypeOK
<1>3. QED
  BY <1>1, <1>2, ExitsTypes

LEMMA BadFrameTypes ==
    ASSUME TypeOK, BadFrame
    PROVE  TypeOK'
<1>1. Reset /\ ssh' = Killed /\ UNCHANGED <<wire, daemon, store>>
      /\ faults' \in 0..MaxFaults
  BY FaultCounted DEF BadFrame, remote
<1>2. QED
  BY <1>1, KilledFacts, ResetTypes

\* A request that times out, or is refused by the bridge itself.
LEMMA TimesOutTypes ==
    ASSUME TypeOK, NEW c \in Calls, TimesOut(c)
    PROVE  TypeOK'
<1>1. UNCHANGED <<wire, daemon, store, faults>> /\ faults' \in 0..MaxFaults
  BY DEF TimesOut, remote, TypeOK
<1>2. CASE call[c].kind = "hello"
  BY <1>1, <1>2, KilledFacts, ResetTypes DEF TimesOut
<1>3. CASE call[c].kind # "hello"
  <2>1. /\ bridge' = [bridge EXCEPT !.pending = Forgotten(c)]
        /\ call' = [call EXCEPT ![c] = Settled("lost")]
        /\ UNCHANGED <<conn, ssh>>
    BY <1>3 DEF TimesOut
  <2>2. Forgotten(c) \in SUBSET Calls
    BY DEF Forgotten, TypeOK
  <2>3. /\ bridge' \in [child : 0..MaxChildren, pending : SUBSET Calls,
                        started : 0..MaxChildren]
        /\ bridge'.child = bridge.child /\ bridge'.started = bridge.started
    BY <2>1, <2>2 DEF TypeOK
  <2>4. /\ call' \in [Calls -> [state : States, kind : Kinds \cup {None},
                                child : 0..MaxChildren]]
        /\ \A d \in Calls : call'[d].kind = None <=> call'[d].state # "sent"
    BY <2>1, SettleTypes
  <2>5. QED
    BY <1>1, <2>1, <2>3, <2>4 DEF TypeOK
<1>4. QED
  BY <1>2, <1>3

LEMMA RequestRefusedTypes ==
    ASSUME TypeOK, NEW c \in Calls, RequestRefused(c)
    PROVE  TypeOK'
<1>1. /\ call' = [call EXCEPT ![c] = Settled("lost")]
      /\ UNCHANGED <<conn, bridge, ssh, wire, daemon, store, faults>>
  BY DEF RequestRefused, remote
<1>2. /\ call' \in [Calls -> [state : States, kind : Kinds \cup {None},
                              child : 0..MaxChildren]]
      /\ \A d \in Calls : call'[d].kind = None <=> call'[d].state # "sent"
  BY <1>1, SettleTypes
<1>3. QED
  BY <1>1, <1>2 DEF TypeOK

\* Requests that are written: a greeting, an operation, a read.
Sent(c, kind, key) ==
    /\ New(c)
    /\ \/ kind = "hello" /\ key = None /\ Connect(c)
       \/ kind = "operation" /\ key \in Keys /\ Request(c, kind, key)
       \/ kind = "read" /\ key = None /\ Request(c, kind, key)

LEMMA SentFacts ==
    ASSUME TypeOK, NEW c \in Calls, NEW kind, NEW key, Sent(c, kind, key)
    PROVE  /\ kind \in Kinds /\ [id |-> c, kind |-> kind, key |-> key] \in Frame
           /\ call[c].state = "new" /\ UNCHANGED <<conn, store, faults>>
           /\ kind = "hello" => ~conn.up /\ ~Greeting
           /\ kind # "hello" => conn.up
           /\ \E k \in Children : WroteTo(c, kind, key, k)
<1>1. kind \in Kinds /\ [id |-> c, kind |-> kind, key |-> key] \in Frame
  BY DEF Sent, Kinds, Frame
<1>2. /\ Write(c, kind, key) /\ call[c].state = "new" /\ UNCHANGED <<conn, store, faults>>
      /\ kind = "hello" => ~conn.up /\ ~Greeting
      /\ kind # "hello" => conn.up
  BY DEF Sent, New, Connect, Request, Connected
<1>3. QED
  BY <1>1, <1>2, WriteFacts

LEMMA SentTypes ==
    ASSUME TypeOK, NEW c \in Calls, NEW kind, NEW key, Sent(c, kind, key)
    PROVE  TypeOK'
  BY SentFacts, WroteTypes

\* The steps, by what they have in common.
LEMMA StepKinds ==
    ASSUME Next
    PROVE  \/ \E c \in Calls : \/ \E kind, key : Sent(c, kind, key)
                               \/ TimesOut(c) \/ RequestRefused(c)
           \/ \E k \in Children : \/ DaemonStarts(k) \/ DaemonRefused(k)
                                  \/ DaemonStops(k) \/ DaemonDies(k) \/ Handle(k) \/ Deliver(k)
                                  \/ ChildEnds(k) \/ LinkLost(k)
           \/ BadFrame
<1>1. ASSUME NEW c \in Calls, Connect(c) PROVE Sent(c, "hello", None)
  BY <1>1 DEF Sent, Connect
<1>2. ASSUME NEW c \in Calls, NEW key \in Keys, Request(c, "operation", key)
      PROVE  Sent(c, "operation", key)
  BY <1>2 DEF Sent, Request
<1>3. ASSUME NEW c \in Calls, Request(c, "read", None) PROVE Sent(c, "read", None)
  BY <1>3 DEF Sent, Request
<1>4. QED
  BY <1>1, <1>2, <1>3 DEF Next

LEMMA NextTypes ==
    ASSUME TypeOK, Next
    PROVE  TypeOK'
<1>1. ASSUME NEW c \in Calls, \E kind, key : Sent(c, kind, key) PROVE TypeOK'
  BY <1>1, SentTypes
<1>2. ASSUME NEW c \in Calls, TimesOut(c) \/ RequestRefused(c) PROVE TypeOK'
  BY <1>2, TimesOutTypes, RequestRefusedTypes
<1>3. ASSUME NEW k \in Children, \/ DaemonStarts(k) \/ DaemonRefused(k)
                                 \/ DaemonStops(k) \/ DaemonDies(k) \/ Handle(k) \/ Deliver(k) \/ ChildEnds(k) \/ LinkLost(k)
      PROVE  TypeOK'
  BY <1>3, DaemonTypes, HandleTypes, DeliverTypes, LossTypes
<1>4. QED
  BY <1>1, <1>2, <1>3, BadFrameTypes, StepKinds

-----------------------------------------------------------------------------
(* The steps that begin nothing: requests in progress are the same or settled, *)
(* frames the same or consumed, a process that heard a greeting has heard one.   *)

Shrinks ==
    /\ bridge'.started = bridge.started
    /\ bridge'.pending \subseteq bridge.pending
    /\ \A c \in bridge'.pending : call'[c] = call[c]
    /\ \A c \in Calls : call'[c].state = "new" => call[c].state = "new"
    /\ \A k \in Children : /\ ToSet(wire'[k].in) \subseteq ToSet(wire[k].in)
                           /\ ToSet(wire'[k].out) \subseteq ToSet(wire[k].out)
                           /\ k > bridge.started => wire'[k] = wire[k]
                           /\ Greeted(k) => Greeted(k)'

LEMMA WireFrames ==
    ASSUME TypeOK, NEW k \in Children
    PROVE  /\ \A f \in ToSet(wire[k].in) : f.id \in Calls
           /\ \A f \in ToSet(wire[k].out) : f.id \in Calls
<1>1. wire[k].in \in Seq(Frame) /\ wire[k].out \in Seq(Answer)
  BY DEF TypeOK
<1>2. ToSet(wire[k].in) \subseteq Frame /\ ToSet(wire[k].out) \subseteq Answer
  BY <1>1, SetOfSeq
<1>3. (\A f \in Frame : f.id \in Calls) /\ \A f \in Answer : f.id \in Calls
  BY DEF Frame, Answer
<1>4. QED
  BY <1>2, <1>3

LEMMA ShrinkKeepsFrames ==
    ASSUME TypeOK, FreshOK, FramesOK, Shrinks, conn'.child = conn.child
    PROVE  FreshOK' /\ FramesOK'
<1>1. ASSUME NEW k \in Children
      PROVE  /\ k > bridge.started => wire'[k].in = <<>> /\ wire'[k].out = <<>>
             /\ \A f \in ToSet(wire'[k].in) : call'[f.id].state # "new"
             /\ \A f \in ToSet(wire'[k].out) : call'[f.id].state # "new"
  BY WireFrames, SMTT(30) DEF Shrinks, FreshOK
<1>2. FreshOK'
  BY <1>1 DEF FreshOK, Shrinks
<1>3. FramesOK'
  BY SMTT(30) DEF FramesOK, Shrinks
<1>4. QED
  BY <1>2, <1>3

LEMMA ShrinkKeeps ==
    ASSUME TypeOK, FreshOK, FramesOK, AnswersOK, ConnectionOK, Shrinks,
           conn'.up = conn.up, conn'.child = conn.child
    PROVE  FreshOK' /\ FramesOK' /\ AnswersOK' /\ ConnectionOK'
<1>1. ASSUME NEW k \in Children, NEW f \in ToSet(wire'[k].out), f.id \in bridge'.pending
      PROVE  /\ call'[f.id].child = k
             /\ call'[f.id].kind = "hello" => f.ok /\ Greeted(k)'
             /\ ~f.ok => k # conn'.child
  <2>1. /\ f \in ToSet(wire[k].out) /\ f.id \in bridge.pending
        /\ call'[f.id] = call[f.id] /\ (Greeted(k) => Greeted(k)')
    BY <1>1 DEF Shrinks
  <2>2. QED
    BY <2>1 DEF AnswersOK
<1>2. AnswersOK'
  BY <1>1 DEF AnswersOK
<1>3. ~Greeting => ~Greeting'
  BY DEF Greeting, Shrinks
<1>4. ConnectionOK'
  <2>1. conn'.up => conn'.child \in Children /\ Greeted(conn.child)' /\ ~Greeting'
    BY <1>3 DEF ConnectionOK, Shrinks
  <2>2. /\ \A c, d \in bridge'.pending :
              call'[c].kind = "hello" /\ call'[d].kind = "hello" => c = d
        /\ \A c \in bridge'.pending : call'[c].kind # "hello" => conn'.up
    BY DEF ConnectionOK, Shrinks
  <2>3. QED
    BY <2>1, <2>2 DEF ConnectionOK, Greeted
<1>5. QED
  BY <1>2, <1>4, ShrinkKeepsFrames

\* No request gets a refusal.
Quiet == \A c \in Calls : call'[c] # call[c] => call'[c].state # "refused"

LEMMA StutterShrinks ==
    ASSUME UNCHANGED <<call, conn, bridge, wire>>,
           \A k \in Children : Greeted(k) => Greeted(k)'
    PROVE  Shrinks /\ Quiet
  BY DEF Shrinks, Quiet

LEMMA DaemonShrinks ==
    ASSUME TypeOK, PendingIsInProgress, NEW k \in Children,
           DaemonStarts(k) \/ DaemonRefused(k) \/ DaemonStops(k) \/ DaemonDies(k)
    PROVE  Shrinks /\ Quiet /\ PendingIsInProgress' /\ UNCHANGED conn
<1>1. UNCHANGED <<call, conn, bridge, wire>>
  BY DEF DaemonStarts, DaemonRefused, DaemonStops, DaemonDies, control
<1>2. ASSUME NEW j \in Children, Greeted(j) PROVE Greeted(j)'
  <2>1. CASE DaemonStarts(k) \/ DaemonRefused(k)
    <3>1. PICK st \in {"dead", "serving"} : daemon' = [daemon EXCEPT ![k].state = st]
      BY <2>1 DEF DaemonStarts, DaemonRefused, Starting
    <3>2. daemon[k].state = "starting"
      BY <2>1 DEF DaemonStarts, DaemonRefused, Starting
    <3>3. daemon'[j].known = daemon[j].known /\ (j # k => daemon'[j] = daemon[j])
      BY <3>1 DEF TypeOK
    <3>4. QED
      BY <1>2, <3>2, <3>3 DEF Greeted
  <2>2. CASE DaemonStops(k) \/ DaemonDies(k)
    <3>1. PICK st \in {"dead", "stopping"} :
             daemon' = [daemon EXCEPT ![k] = [state |-> st, known |-> FALSE]]
      BY <2>2 DEF DaemonStops, DaemonDies, TypeOK, Process
    <3>2. daemon'[k].state \in {"dead", "stopping"} /\ (j # k => daemon'[j] = daemon[j])
      BY <3>1 DEF TypeOK
    <3>3. QED
      BY <1>2, <3>2 DEF Greeted
  <2>3. QED
    BY <2>1, <2>2
<1>3. QED
  BY <1>1, <1>2, StutterShrinks DEF PendingIsInProgress

LEMMA ResetShrinks ==
    ASSUME TypeOK, PendingIsInProgress, Reset, UNCHANGED <<wire, daemon>>
    PROVE  Shrinks /\ Quiet /\ PendingIsInProgress' /\ UNCHANGED conn
<1>1. /\ bridge'.pending = {} /\ bridge'.started = bridge.started /\ UNCHANGED conn
      /\ \A c \in Calls : call'[c] = IF c \in bridge.pending THEN Settled("lost") ELSE call[c]
  BY ResetFacts
<1>2. Settled("lost").state = "lost"
  BY SettledFacts
<1>3. \A c \in Calls : call'[c].state # "sent"
  BY <1>1, <1>2 DEF PendingIsInProgress
<1>4. PendingIsInProgress'
  BY <1>1, <1>3 DEF PendingIsInProgress
<1>5. Shrinks
  BY <1>1, <1>2 DEF Shrinks, Greeted
<1>6. Quiet
  BY <1>1, <1>2 DEF Quiet
<1>7. QED
  BY <1>1, <1>4, <1>5, <1>6

\* One request is settled, in progress or not.
LEMMA SettleShrinks ==
    ASSUME TypeOK, PendingIsInProgress, NEW c \in Calls, NEW s \in {"ok", "refused", "lost"},
           call' = [call EXCEPT ![c] = Settled(s)],
           bridge'.pending = bridge.pending \ {c}, bridge'.started = bridge.started
    PROVE  /\ PendingIsInProgress'
           /\ \A d \in bridge'.pending : call'[d] = call[d]
           /\ \A d \in Calls : call'[d].state = "new" => call[d].state = "new"
           /\ s # "refused" => Quiet
<1> DEFINE new == Settled(s)
<1>1. new.state = s /\ call' = [call EXCEPT ![c] = new]
  BY SettledFacts
<1> HIDE DEF new
<1>2. call'[c] = new /\ \A d \in Calls \ {c} : call'[d] = call[d]
  BY <1>1 DEF TypeOK
<1>3. bridge.pending \subseteq Calls
  BY DEF TypeOK
<1>4. PendingIsInProgress'
  BY <1>1, <1>2 DEF PendingIsInProgress
<1>5. QED
  BY <1>1, <1>2, <1>3, <1>4 DEF Quiet

LEMMA RequestShrinks ==
    ASSUME TypeOK, PendingIsInProgress, NEW c \in Calls, TimesOut(c) \/ RequestRefused(c)
    PROVE  Shrinks /\ Quiet /\ PendingIsInProgress' /\ UNCHANGED conn
<1>1. UNCHANGED <<wire, daemon>>
  BY DEF TimesOut, RequestRefused, remote
<1>2. CASE TimesOut(c) /\ call[c].kind = "hello"
  BY <1>1, <1>2, ResetShrinks DEF TimesOut
<1>3. CASE \/ TimesOut(c) /\ call[c].kind # "hello"
           \/ RequestRefused(c)
  <2>1. call' = [call EXCEPT ![c] = Settled("lost")] /\ UNCHANGED conn
    BY <1>3 DEF TimesOut, RequestRefused
  <2>2. bridge'.pending = bridge.pending \ {c} /\ bridge'.started = bridge.started
    <3>1. CASE TimesOut(c) /\ call[c].kind # "hello"
      BY <3>1 DEF TimesOut, Forgotten, TypeOK
    <3>2. CASE RequestRefused(c)
      <4>1. bridge' = bridge /\ c \notin bridge.pending
        BY <3>2 DEF RequestRefused, New, PendingIsInProgress
      <4>2. QED
        BY <4>1
    <3>3. QED
      BY <1>3, <3>1, <3>2
  <2>3. /\ PendingIsInProgress' /\ Quiet
        /\ \A d \in bridge'.pending : call'[d] = call[d]
        /\ \A d \in Calls : call'[d].state = "new" => call[d].state = "new"
    BY <2>1, <2>2, SettleShrinks
  <2>4. Shrinks
    BY <1>1, <2>2, <2>3 DEF Shrinks, Greeted
  <2>5. QED
    BY <2>1, <2>3, <2>4
<1>4. QED
  BY <1>2, <1>3

LEMMA LossShrinks ==
    ASSUME TypeOK, PendingIsInProgress,
           BadFrame \/ \E k \in Children : ChildEnds(k) \/ LinkLost(k)
    PROVE  Shrinks /\ Quiet /\ PendingIsInProgress' /\ UNCHANGED conn
<1>1. Reset /\ UNCHANGED <<wire, daemon>>
  BY DEF BadFrame, ChildEnds, LinkLost, Exits, remote
<1>2. QED
  BY <1>1, ResetShrinks

-----------------------------------------------------------------------------
(* The steps that begin something: a frame is written, handled, or its answer  *)
(* delivered.                                                                  *)

LEMMA SentKeeps ==
    ASSUME IInv, NEW c \in Calls, NEW kind, NEW key, Sent(c, kind, key)
    PROVE  /\ PendingIsInProgress' /\ FreshOK' /\ FramesOK' /\ AnswersOK' /\ ConnectionOK'
           /\ Quiet
<1> USE DEF IInv
<1>1. /\ kind \in Kinds /\ call[c].state = "new" /\ conn' = conn
      /\ kind = "hello" => ~conn.up /\ ~Greeting
      /\ kind # "hello" => conn.up
  BY SentFacts
<1>2. PICK k \in Children : WroteTo(c, kind, key, k)
  BY SentFacts
<1> DEFINE frame == [id |-> c, kind |-> kind, key |-> key]
<1>3. /\ call'[c].state = "sent" /\ call'[c].kind = kind /\ call'[c].child = k
      /\ \A d \in Calls \ {c} : call'[d] = call[d]
      /\ bridge'.pending = bridge.pending \cup {c} /\ c \notin bridge.pending
      /\ bridge.pending \subseteq Calls
  BY <1>1, <1>2 DEF WroteTo, TypeOK, PendingIsInProgress
<1>4. /\ k \in Nat /\ bridge.started \in Nat /\ conn.child \in Nat
      /\ bridge'.started \in Nat /\ bridge.started <= bridge'.started /\ k <= bridge'.started
      /\ \A j \in Children : j \in Nat
  <2>1. /\ k \in Nat /\ bridge.started \in Nat /\ conn.child \in Nat /\ bridge.child \in Nat
        /\ bridge.child <= bridge.started /\ \A j \in Children : j \in Nat
    BY LimitsAssumption DEF TypeOK, Children
  <2>2. /\ bridge.child = NoChild => k = bridge.started + 1 /\ bridge'.started = k
        /\ bridge.child # NoChild => k = bridge.child /\ bridge'.started = bridge.started
    BY <1>2 DEF WroteTo
  <2>3. QED
    BY <2>1, <2>2
<1>5. /\ ToSet(wire'[k].in) \subseteq ToSet(wire[k].in) \cup {frame}
      /\ wire'[k].out = wire[k].out
      /\ \A j \in Children \ {k} : wire'[j] = wire[j]
  <2>1. wire[k].in \in Seq(Frame) /\ frame \in Frame
    BY SentFacts DEF TypeOK
  <2>2. QED
    BY <1>2, <2>1, AppendFacts DEF WroteTo
<1>6. \A j \in Children : /\ \A f \in ToSet(wire[j].in) : f.id \in Calls \ {c}
                          /\ \A f \in ToSet(wire[j].out) : f.id \in Calls \ {c}
  BY <1>1, WireFrames DEF FreshOK
<1>7. PendingIsInProgress' /\ Quiet
  BY <1>3 DEF PendingIsInProgress, Quiet
<1>8. FreshOK'
  <2>1. conn'.child <= bridge'.started
    BY <1>1, <1>4 DEF FreshOK
  <2>2. ASSUME NEW j \in Children, j > bridge'.started
        PROVE  wire'[j].in = <<>> /\ wire'[j].out = <<>>
    <3>1. j # k /\ j > bridge.started
      BY <1>4, <2>2
    <3>2. QED
      BY <1>5, <3>1 DEF FreshOK
  <2>3. ASSUME NEW j \in Children
        PROVE  /\ \A f \in ToSet(wire'[j].in) : call'[f.id].state # "new"
               /\ \A f \in ToSet(wire'[j].out) : call'[f.id].state # "new"
    <3>1. \A f \in ToSet(wire[j].in) \cup ToSet(wire[j].out) : call'[f.id].state # "new"
      BY <1>3, <1>6 DEF FreshOK
    <3>2. call'[frame.id].state # "new"
      BY <1>3
    <3>3. QED
      BY <1>5, <3>1, <3>2
  <2>4. QED
    BY <2>1, <2>2, <2>3 DEF FreshOK
<1>9. FramesOK'
  <2>1. ASSUME NEW j \in Children, NEW f \in ToSet(wire'[j].in), f.id \in bridge'.pending
        PROVE  call'[f.id].kind = f.kind /\ call'[f.id].child = j
    <3>1. CASE f \in ToSet(wire[j].in)
      <4>1. call'[f.id] = call[f.id] /\ f.id \in bridge.pending
        BY <1>3, <1>6, <2>1, <3>1
      <4>2. QED
        BY <3>1, <4>1 DEF FramesOK
    <3>2. CASE f = frame /\ j = k
      BY <1>3, <3>2
    <3>3. QED
      BY <1>5, <3>1, <3>2
  <2>2. QED
    BY <2>1 DEF FramesOK
\* The process that is started, if one is, has sent nothing.
<1>10. \A j \in Children : j <= bridge.started => (Greeted(j) => Greeted(j)')
  <2>1. CASE bridge.child # NoChild
    BY <1>2, <2>1 DEF WroteTo, Greeted
  <2>2. CASE bridge.child = NoChild
    <3>1. daemon' = [daemon EXCEPT ![k].state = "starting"] /\ k = bridge.started + 1
      BY <1>2, <2>2 DEF WroteTo
    <3>2. \A j \in Children \ {k} : daemon'[j] = daemon[j]
      BY <3>1 DEF TypeOK
    <3>3. \A j \in Children : j <= bridge.started => j # k
      BY <1>4, <3>1
    <3>4. QED
      BY <3>2, <3>3 DEF Greeted
  <2>3. QED
    BY <2>1, <2>2
<1>11. AnswersOK'
  <2>1. ASSUME NEW j \in Children, NEW f \in ToSet(wire'[j].out), f.id \in bridge'.pending
        PROVE  /\ call'[f.id].child = j
               /\ call'[f.id].kind = "hello" => f.ok /\ Greeted(j)'
               /\ ~f.ok => j # conn'.child
    <3>1. f \in ToSet(wire[j].out)
      BY <1>5
    <3>2. call'[f.id] = call[f.id] /\ f.id \in bridge.pending
      BY <1>3, <1>6, <2>1, <3>1
    <3>3. j <= bridge.started
      <4>1. wire[j].out # <<>>
        BY <3>1, NoFrames
      <4>2. ~(j > bridge.started)
        BY <4>1 DEF FreshOK
      <4>3. QED
        BY <1>4, <4>2
    <3>4. QED
      BY <1>1, <1>10, <3>1, <3>2, <3>3 DEF AnswersOK
  <2>2. QED
    BY <2>1 DEF AnswersOK
<1>12. ConnectionOK'
  <2>1. \A d \in bridge.pending : call'[d] = call[d]
    BY <1>3
  <2>2. conn'.up => conn'.child \in Children /\ Greeted(conn.child)' /\ ~Greeting'
    <3>1. SUFFICES ASSUME conn.up
                   PROVE  conn'.child \in Children /\ Greeted(conn.child)' /\ ~Greeting'
      BY <1>1
    <3>2. conn.child \in Children /\ Greeted(conn.child) /\ ~Greeting /\ kind # "hello"
      BY <1>1, <3>1 DEF ConnectionOK
    <3>3. conn.child <= bridge.started
      BY DEF FreshOK
    <3>4. ~Greeting'
      BY <1>3, <2>1, <3>2 DEF Greeting
    <3>5. PICK j \in Children : j = conn.child
      BY <3>2
    <3>6. Greeted(j)'
      BY <1>10, <3>2, <3>3, <3>5
    <3>7. conn'.child = j
      BY <1>1, <3>5
    <3>8. QED
      BY <3>4, <3>6, <3>7 DEF Greeted
  <2>3. \A d, e \in bridge'.pending :
            call'[d].kind = "hello" /\ call'[e].kind = "hello" => d = e
    <3>1. CASE kind = "hello"
      BY <1>1, <1>3, <2>1, <3>1 DEF Greeting
    <3>2. CASE kind # "hello"
      BY <1>3, <2>1, <3>2 DEF ConnectionOK
    <3>3. QED
      BY <3>1, <3>2
  <2>4. \A d \in bridge'.pending : call'[d].kind # "hello" => conn'.up
    BY <1>1, <1>3, <2>1 DEF ConnectionOK
  <2>5. QED
    BY <2>2, <2>3, <2>4 DEF ConnectionOK, Greeted
<1>13. QED
  BY <1>7, <1>8, <1>9, <1>11, <1>12

LEMMA HandleKeeps ==
    ASSUME IInv, NEW k \in Children, Handle(k)
    PROVE  /\ PendingIsInProgress' /\ FreshOK' /\ FramesOK' /\ AnswersOK' /\ ConnectionOK'
           /\ Quiet
<1> USE DEF IInv
<1>1. PICK a : Handled(k, a)
  BY HandleFacts
<1> DEFINE f == Head(wire[k].in)
<1>2. /\ UNCHANGED <<call, conn, bridge>> /\ wire[k].in # <<>>
      /\ daemon[k].state = "serving"
  BY DEF Handle, control
<1>3. /\ f \in ToSet(wire[k].in) /\ a.id = f.id
      /\ ToSet(wire'[k].in) \subseteq ToSet(wire[k].in)
      /\ ToSet(wire'[k].out) \subseteq ToSet(wire[k].out) \cup {a}
      /\ \A j \in Children \ {k} : wire'[j] = wire[j]
      /\ \A j \in Children : /\ daemon'[j].state = daemon[j].state
                             /\ daemon[j].known => daemon'[j].known
  BY <1>1 DEF Handled
<1>4. \/ f.kind = "hello" /\ a.ok = TRUE /\ daemon'[k].known
      \/ f.kind # "hello" /\ ~daemon[k].known /\ a.ok = FALSE
      \/ f.kind # "hello" /\ a.ok = TRUE
  BY <1>1 DEF Handled
<1> HIDE DEF f
<1>5. \A j \in Children : Greeted(j) => Greeted(j)'
  BY <1>3 DEF Greeted
<1>6. PendingIsInProgress' /\ Quiet
  BY <1>2 DEF PendingIsInProgress, Quiet
<1>7. FreshOK'
  <2>1. ~(k > bridge.started) /\ call[f.id].state # "new"
    BY <1>2, <1>3 DEF FreshOK
  <2>2. \A j \in Children : j > bridge.started => wire'[j] = wire[j]
    BY <1>3, <2>1
  <2>3. \A j \in Children : /\ \A g \in ToSet(wire'[j].in) : call[g.id].state # "new"
                            /\ \A g \in ToSet(wire'[j].out) : call[g.id].state # "new"
    BY <1>3, <2>1 DEF FreshOK
  <2>4. QED
    BY <1>2, <2>2, <2>3 DEF FreshOK
<1>8. FramesOK'
  <2>1. \A j \in Children : ToSet(wire'[j].in) \subseteq ToSet(wire[j].in)
    BY <1>3
  <2>2. QED
    BY <1>2, <2>1 DEF FramesOK
<1>9. AnswersOK'
  <2>1. ASSUME NEW j \in Children, NEW g \in ToSet(wire'[j].out), g.id \in bridge.pending
        PROVE  /\ call[g.id].child = j
               /\ call[g.id].kind = "hello" => g.ok /\ Greeted(j)'
               /\ ~g.ok => j # conn.child
    <3>1. CASE g \in ToSet(wire[j].out)
      BY <1>5, <2>1, <3>1 DEF AnswersOK
    <3>2. CASE g = a /\ j = k
      <4>1. call[f.id].kind = f.kind /\ call[f.id].child = k /\ f.id \in bridge.pending
        BY <1>3, <2>1, <3>2 DEF FramesOK
      <4>2. call[f.id].kind = "hello" => a.ok /\ Greeted(k)'
        BY <1>4, <4>1 DEF Greeted
      <4>3. ~a.ok => k # conn.child
        <5>1. SUFFICES ASSUME ~a.ok, k = conn.child PROVE FALSE
          OBVIOUS
        <5>2. f.kind # "hello" /\ ~daemon[k].known
          BY <1>4, <5>1
        <5>3. conn.up
          BY <4>1, <5>2 DEF ConnectionOK
        <5>4. Greeted(k)
          BY <5>1, <5>3 DEF ConnectionOK
        <5>5. QED
          BY <1>2, <5>2, <5>4 DEF Greeted
      <4>4. QED
        BY <1>3, <3>2, <4>1, <4>2, <4>3
    <3>3. QED
      BY <1>3, <3>1, <3>2
  <2>2. QED
    BY <1>2, <2>1 DEF AnswersOK
<1>10. ConnectionOK'
  BY <1>2, <1>5 DEF ConnectionOK, Greeting, Greeted
<1>11. QED
  BY <1>6, <1>7, <1>8, <1>9, <1>10

\* An answer is delivered: only the one to a greeting changes the connection.
LEMMA DeliverKeeps ==
    ASSUME IInv, NEW k \in Children, Deliver(k)
    PROVE  /\ PendingIsInProgress' /\ FreshOK' /\ FramesOK' /\ AnswersOK' /\ ConnectionOK'
           /\ \A c \in Calls : Refuses(c) => conn.up /\ call[c].child # conn.child
<1> USE DEF IInv
<1> DEFINE f == Head(wire[k].out)
           c == f.id
           greets == c \in bridge.pending /\ f.ok /\ call[c].kind = "hello"
<1>1. /\ f \in ToSet(wire[k].out) /\ c \in Calls
      /\ \A j \in Children : wire'[j].in = wire[j].in
                             /\ ToSet(wire'[j].out) \subseteq ToSet(wire[j].out)
      /\ bridge' = [bridge EXCEPT !.pending = @ \ {c}]
      /\ call' = IF c \in bridge.pending
                 THEN [call EXCEPT ![c] = Settled(IF f.ok THEN "ok" ELSE "refused")]
                 ELSE call
      /\ greets => conn'.up /\ conn'.child = k
      /\ ~greets => conn'.up = conn.up /\ conn'.child = conn.child
  BY DeliverFacts
<1>2. wire[k].out # <<>> /\ daemon' = daemon /\ wire' = [wire EXCEPT ![k].out = Tail(@)]
  BY DEF Deliver, remote
<1> HIDE DEF f, greets
<1>3. bridge'.pending = bridge.pending \ {c} /\ bridge'.started = bridge.started
  BY <1>1 DEF TypeOK
<1>4. /\ PendingIsInProgress'
      /\ \A d \in bridge'.pending : call'[d] = call[d]
      /\ \A d \in Calls : call'[d].state = "new" => call[d].state = "new"
  <2>1. CASE c \in bridge.pending
    <3>1. PICK s \in {"ok", "refused", "lost"} : call' = [call EXCEPT ![c] = Settled(s)]
      BY <1>1, <2>1
    <3>2. QED
      BY <1>1, <1>3, <3>1, SettleShrinks
  <2>2. CASE c \notin bridge.pending
    BY <1>1, <1>3, <2>2 DEF PendingIsInProgress
  <2>3. QED
    BY <2>1, <2>2
<1>5. Shrinks
  <2>1. \A j \in Children : j > bridge.started => wire'[j] = wire[j]
    <3>1. ~(k > bridge.started)
      BY <1>2 DEF FreshOK
    <3>2. \A j \in Children \ {k} : wire'[j] = wire[j]
      BY <1>2 DEF TypeOK
    <3>3. QED
      BY <3>1, <3>2
  <2>2. QED
    BY <1>1, <1>2, <1>3, <1>4, <2>1 DEF Shrinks, Greeted
<1>6. ASSUME ~greets PROVE FreshOK' /\ FramesOK' /\ AnswersOK' /\ ConnectionOK'
  BY <1>1, <1>4, <1>5, <1>6, ShrinkKeeps
\* A greeting is answered when nothing else is in progress.
<1>7. ASSUME greets PROVE FreshOK' /\ FramesOK' /\ AnswersOK' /\ ConnectionOK'
  <2>1. c \in bridge.pending /\ call[c].kind = "hello" /\ conn'.up /\ conn'.child = k
    BY <1>1, <1>7 DEF greets
  <2>2. Greeted(k)
    BY <1>1, <2>1 DEF AnswersOK
  <2>3. bridge'.pending = {}
    <3>1. ~conn.up
      BY <2>1 DEF ConnectionOK, Greeting
    <3>2. \A d \in bridge.pending : d = c
      BY <2>1, <3>1 DEF ConnectionOK
    <3>3. QED
      BY <1>3, <3>2
  <2>4. conn'.child <= bridge'.started
    <3>1. ~(k > bridge.started)
      BY <1>2 DEF FreshOK
    <3>2. k \in Nat /\ bridge.started \in Nat
      BY LimitsAssumption DEF TypeOK, Children
    <3>3. QED
      BY <1>3, <2>1, <3>1, <3>2
  <2>5. FreshOK'
    <3>1. ASSUME NEW j \in Children
          PROVE  /\ j > bridge'.started => wire'[j].in = <<>> /\ wire'[j].out = <<>>
                 /\ \A g \in ToSet(wire'[j].in) : call'[g.id].state # "new"
                 /\ \A g \in ToSet(wire'[j].out) : call'[g.id].state # "new"
      BY <1>5, WireFrames, ZenonT(60) DEF Shrinks, FreshOK
    <3>2. QED
      BY <2>4, <3>1 DEF FreshOK
  <2>6. FramesOK' /\ AnswersOK'
    BY <2>3 DEF FramesOK, AnswersOK
  <2>7. Greeted(k)'
    BY <1>2, <2>2 DEF Greeted
  <2>8. ConnectionOK'
    BY <2>1, <2>3, <2>7 DEF ConnectionOK, Greeting, Greeted
  <2>9. QED
    BY <2>5, <2>6, <2>8
<1>8. ASSUME NEW d \in Calls, Refuses(d) PROVE conn.up /\ call[d].child # conn.child
  <2>1. call[d].state = "sent" /\ call'[d].state = "refused"
    BY <1>8 DEF Refuses
  <2>2. c \in bridge.pending /\ d = c /\ ~f.ok
    <3>1. c \in bridge.pending
      BY <1>1, <2>1
    <3>2. call' = [call EXCEPT ![c] = Settled(IF f.ok THEN "ok" ELSE "refused")]
      BY <1>1, <3>1
    <3>3. \A e \in Calls \ {c} : call'[e] = call[e]
      BY <3>2 DEF TypeOK
    <3>4. d = c
      BY <2>1, <3>3
    <3>5. call'[c] = Settled(IF f.ok THEN "ok" ELSE "refused")
      BY <1>1, <3>2 DEF TypeOK
    <3>6. ASSUME f.ok PROVE FALSE
      <4>1. call'[c] = Settled("ok")
        BY <3>5, <3>6
      <4>2. QED
        BY <2>1, <3>4, <4>1, SettledFacts
    <3>7. QED
      BY <3>1, <3>4, <3>6
  <2>3. /\ call[c].child = k /\ k # conn.child
        /\ call[c].kind # "hello"
    BY <1>1, <2>2 DEF AnswersOK
  <2>4. conn.up
    BY <2>2, <2>3 DEF ConnectionOK
  <2>5. QED
    BY <2>2, <2>3, <2>4
<1>9. QED
  BY <1>6, <1>7, <1>8, <1>4

-----------------------------------------------------------------------------
(* The theorems.                                                              *)

LEMMA InitHolds ==
    ASSUME Init
    PROVE  IInv
<1>1. TypeOK
  BY InitTypes
<1>2. /\ call = [c \in Calls |-> [state |-> "new", kind |-> None, child |-> NoChild]]
      /\ conn.up = FALSE /\ conn.child = 0 /\ bridge.pending = {} /\ bridge.started = 0
      /\ \A k \in Children : wire[k].in = <<>> /\ wire[k].out = <<>>
  BY DEF Init, NoChild
<1>3. PendingIsInProgress
  BY <1>2 DEF PendingIsInProgress
<1>4. FreshOK /\ FramesOK /\ AnswersOK
  BY <1>2, NoFrames DEF FreshOK, FramesOK, AnswersOK
<1>5. ConnectionOK
  BY <1>2 DEF ConnectionOK
<1>6. QED
  BY <1>1, <1>3, <1>4, <1>5 DEF IInv

\* A step that shrinks keeps the invariant and refuses nothing.
LEMMA ShrinkStep ==
    ASSUME IInv, Next, Shrinks, Quiet, PendingIsInProgress', UNCHANGED conn
    PROVE  IInv' /\ \A c \in Calls : ~Refuses(c)
<1>1. TypeOK'
  BY NextTypes DEF IInv
<1>2. FreshOK' /\ FramesOK' /\ AnswersOK' /\ ConnectionOK'
  BY ShrinkKeeps DEF IInv
<1>3. \A c \in Calls : ~Refuses(c)
  BY DEF Refuses, Quiet
<1>4. QED
  BY <1>1, <1>2, <1>3 DEF IInv

LEMMA NextHolds ==
    ASSUME IInv, Next
    PROVE  /\ IInv'
           /\ \A c \in Calls : Refuses(c) => conn.up /\ call[c].child # conn.child
<1> DEFINE Goal == /\ IInv'
                   /\ \A c \in Calls : Refuses(c) => conn.up /\ call[c].child # conn.child
<1>1. TypeOK' /\ TypeOK /\ PendingIsInProgress
  BY NextTypes DEF IInv
<1>2. ASSUME NEW c \in Calls, \E kind, key : Sent(c, kind, key) PROVE Goal
  <2>1. /\ PendingIsInProgress' /\ FreshOK' /\ FramesOK' /\ AnswersOK' /\ ConnectionOK'
        /\ Quiet
    BY <1>2, SentKeeps
  <2>2. QED
    BY <1>1, <2>1 DEF IInv, Refuses, Quiet
<1>3. ASSUME NEW c \in Calls, TimesOut(c) \/ RequestRefused(c) PROVE Goal
  BY <1>1, <1>3, RequestShrinks, ShrinkStep
<1>4. ASSUME NEW k \in Children,
             DaemonStarts(k) \/ DaemonRefused(k) \/ DaemonStops(k) \/ DaemonDies(k)
      PROVE  Goal
  BY <1>1, <1>4, DaemonShrinks, ShrinkStep
<1>5. ASSUME NEW k \in Children, Handle(k) PROVE Goal
  <2>1. /\ PendingIsInProgress' /\ FreshOK' /\ FramesOK' /\ AnswersOK' /\ ConnectionOK'
        /\ Quiet
    BY <1>5, HandleKeeps
  <2>2. QED
    BY <1>1, <2>1 DEF IInv, Refuses, Quiet
<1>6. ASSUME NEW k \in Children, Deliver(k) PROVE Goal
  BY <1>1, <1>6, DeliverKeeps DEF IInv
<1>7. ASSUME BadFrame \/ \E k \in Children : ChildEnds(k) \/ LinkLost(k) PROVE Goal
  BY <1>1, <1>7, LossShrinks, ShrinkStep
<1>8. QED
  BY <1>2, <1>3, <1>4, <1>5, <1>6, <1>7, StepKinds

LEMMA StutterHolds ==
    ASSUME IInv, UNCHANGED vars
    PROVE  IInv' /\ \A c \in Calls : ~Refuses(c)
<1>1. UNCHANGED <<call, conn, bridge, ssh, wire, daemon, store, faults>>
  BY DEF vars, control, remote
<1>2. TypeOK'
  BY <1>1 DEF IInv, TypeOK
<1>3. PendingIsInProgress' /\ FreshOK' /\ FramesOK' /\ AnswersOK' /\ ConnectionOK'
  BY <1>1 DEF IInv, PendingIsInProgress, FreshOK, FramesOK, AnswersOK, ConnectionOK, Greeted,
              Greeting
<1>4. QED
  BY <1>1, <1>2, <1>3 DEF IInv, Refuses

\* The inductive invariant holds in every reachable state.
THEOREM Inductive == Spec => []IInv
<1>1. Init => IInv
  BY InitHolds
<1>2. IInv /\ [Next]_vars => IInv'
  BY NextHolds, StutterHolds
<1>3. QED
  BY <1>1, <1>2, PTL DEF Spec

\* Every variable keeps to its type, and the state file and the copy every Remote Host
\* process serves from count a repeated operation once and answer with its first
\* revision (lib/remote-host.mjs:464-475), also where two processes own the state.
THEOREM TypeCorrect == Spec => []TypeOK
<1>1. IInv => TypeOK
  BY DEF IInv
<1>2. QED
  BY <1>1, Inductive, PTL

\* The bridge's table of requests in progress is exact, whatever is lost, late or
\* timed out: no entry leaks, no call is forgotten (lib/ssh.mjs:226-262).
THEOREM TableIsExact == Spec => []PendingIsInProgress
<1>1. IInv => PendingIsInProgress
  BY DEF IInv
<1>2. QED
  BY <1>1, Inductive, PTL

\* A request is refused for want of a greeting only on a child other than the one that
\* was greeted (lib/connector.mjs:47-64, lib/ssh.mjs:216-224).
THEOREM RefusalsFollowLoss == Spec => RefusedOnlyAfterLoss
<1>1. IInv /\ [Next]_vars =>
         [\A c \in Calls : Refuses(c) => conn.up /\ call[c].child # conn.child]_vars
  BY NextHolds, StutterHolds
<1>2. QED
  BY <1>1, Inductive, PTL DEF Spec, RefusedOnlyAfterLoss
=============================================================================
