--------------------------- MODULE LoginFlowProofs ---------------------------
(***************************************************************************)
(* Proofs about LoginFlow: what forgetting an ended challenge leaves, then *)
(* the invariants, action by action, then the theorems.                    *)
(***************************************************************************)
EXTENDS LoginFlow, SequenceTheorems, TLAPS

-----------------------------------------------------------------------------
(* Pruning.                                                                   *)

\* A sequence without one of its places keeps what was at the others.
LEMMA RemoveAtFacts ==
    ASSUME NEW S, NEW s \in Seq(S), NEW i \in 1 .. Len(s)
    PROVE  /\ RemoveAt(s, i) \in Seq(S)
           /\ Len(RemoveAt(s, i)) = Len(s) - 1
           /\ \A j \in 1 .. Len(s) : j # i => s[j] \in ToSet(RemoveAt(s, i))
<1> DEFINE a == SubSeq(s, 1, i - 1)
           b == SubSeq(s, i + 1, Len(s))
<1>1. /\ a \in Seq(S) /\ Len(a) = i - 1
      /\ \A j \in 1 .. i - 1 : a[j] = s[j]
  OBVIOUS
<1>2. /\ b \in Seq(S) /\ Len(b) = Len(s) - i
      /\ \A j \in 1 .. Len(s) - i : b[j] = s[i + j]
  OBVIOUS
<1> HIDE DEF a, b
<1> DEFINE n == a \o b
<1>3. n \in Seq(S) /\ Len(n) = Len(s) - 1
  <2>1. a \in Seq(S) /\ b \in Seq(S)
    BY <1>1, <1>2
  <2>2. n \in Seq(S) /\ Len(n) = Len(a) + Len(b)
    BY <2>1, ConcatProperties
  <2>3. Len(s) \in Nat
    OBVIOUS
  <2>4. QED
    BY <1>1, <1>2, <2>2, <2>3
<1>4. ASSUME NEW j \in 1 .. Len(s), j # i PROVE s[j] \in ToSet(n)
  <2>1. CASE j < i
    <3>1. j \in 1 .. Len(n) /\ n[j] = s[j]
      BY <1>1, <1>2, <1>3, <2>1
    <3>2. QED
      BY <1>3, <3>1 DEF ToSet
  <2>2. CASE j > i
    <3>1. j - 1 \in 1 .. Len(n) /\ n[j - 1] = s[j]
      <4>1. j - 1 \in 1 .. Len(n) /\ j - 1 > Len(a) /\ j - i \in 1 .. Len(s) - i
        BY <1>1, <1>3, <2>2
      <4>2. n[j - 1] = b[j - i]
        BY <1>1, <1>2, <4>1
      <4>3. b[j - i] = s[j]
        BY <1>2, <4>1
      <4>4. QED
        BY <4>1, <4>2, <4>3
    <3>2. QED
      BY <1>3, <3>1 DEF ToSet
  <2>3. QED
    BY <1>4, <2>1, <2>2
<1>5. QED
  BY <1>3, <1>4 DEF RemoveAt, a, b

\* Pruning keeps every challenge that is active, and where its runtime's next request
\* looks for it.
LEMMA KeptFacts ==
    ASSUME TypeOK
    PROVE  /\ Kept \in Seq(Ids) /\ Len(Kept) <= MaxManaged
           /\ \A c \in ToSet(managed) : Active(c) => c \in ToSet(Kept)
           /\ ByRuntimeKept \in [Runtimes -> Ids \cup {None}]
           /\ \A r \in Runtimes : Active(byRuntime[r]) => ByRuntimeKept[r] = byRuntime[r]
<1>1. managed \in Seq(Ids) /\ Len(managed) <= MaxManaged /\ Len(managed) \in Nat
      /\ MaxManaged \in Nat /\ byRuntime \in [Runtimes -> Ids \cup {None}]
  BY BoundsAssumption DEF TypeOK
<1>2. \A i \in Pruned(managed) : i \in 1 .. Len(managed) /\ ~Active(managed[i])
  BY <1>1 DEF Pruned
<1>3. /\ Kept \in Seq(Ids) /\ Len(Kept) <= MaxManaged
      /\ \A c \in ToSet(managed) : Active(c) => c \in ToSet(Kept)
  <2>1. CASE Pruned(managed) = {}
    BY <1>1, <2>1 DEF Kept
  <2>2. CASE Pruned(managed) # {}
    <3>1. PICK i \in Pruned(managed) : Kept = RemoveAt(managed, i)
      BY <2>2 DEF Kept
    <3>2. /\ Kept \in Seq(Ids) /\ Len(Kept) = Len(managed) - 1
          /\ \A j \in 1 .. Len(managed) : j # i => managed[j] \in ToSet(Kept)
      BY <1>1, <1>2, <3>1, RemoveAtFacts
    <3>3. \A c \in ToSet(managed) : Active(c) => c \in ToSet(Kept)
      BY <1>1, <1>2, <3>2 DEF ToSet
    <3>4. QED
      BY <1>1, <3>2, <3>3
  <2>3. QED
    BY <2>1, <2>2
<1>4. /\ ByRuntimeKept \in [Runtimes -> Ids \cup {None}]
      /\ \A r \in Runtimes : Active(byRuntime[r]) => ByRuntimeKept[r] = byRuntime[r]
  BY <1>1, <1>2 DEF ByRuntimeKept
<1>5. QED
  BY <1>3, <1>4

-----------------------------------------------------------------------------
(* The invariant: the types, and that what runs is known.                     *)

IInv == TypeOK /\ RunningIsKnown

LEMMA InitEstablishes == Init => IInv
<1> SUFFICES ASSUME Init PROVE IInv
  OBVIOUS
<1>1. TypeOK
  BY BoundsAssumption DEF Init, TypeOK
<1>2. RunningIsKnown
  BY DEF Init, RunningIsKnown, Running, Started
<1>3. QED
  BY <1>1, <1>2 DEF IInv

\* A challenge that has been started has a handle.
LEMMA StartedFacts ==
    ASSUME TypeOK, NEW c \in Started
    PROVE  c \in Ids /\ login[c] \in Handle /\ login[c].rt \in Runtimes /\ login[c].phase \in Phases
  BY DEF TypeOK, Started, Handle

\* A phase changes one handle and no runtime, and makes nothing run that did not.
LEMMA EndFacts ==
    ASSUME TypeOK, NEW c \in Started, NEW phase \in Phases, End(c, phase),
           phase \in {"running", "published"} => Active(c)
    PROVE  /\ login' \in [Ids -> Handle \cup {None}]
           /\ Started' = Started
           /\ Running' \subseteq Running
           /\ \A d \in Started : login'[d].rt = login[d].rt
           /\ \A d \in Ids \ {c} : login'[d] = login[d]
           /\ login'[c].phase = phase
<1>1. c \in Ids /\ login[c] \in Handle /\ login \in [Ids -> Handle \cup {None}]
  BY StartedFacts DEF TypeOK
<1> DEFINE new == [login[c] EXCEPT !.phase = phase]
<1>2. new \in Handle /\ new.phase = phase /\ new.rt = login[c].rt /\ new # None
  BY <1>1, NoneAssumption DEF Handle
<1> HIDE DEF new
<1>3. login' = [login EXCEPT ![c] = new]
  BY DEF End, new
<1>4. \A d \in Ids : login'[d] = IF d = c THEN new ELSE login[d]
  BY <1>1, <1>3
<1>5. login' \in [Ids -> Handle \cup {None}] /\ Started' = Started
  BY <1>1, <1>2, <1>3, <1>4 DEF Started
<1>6. Running' \subseteq Running
  BY <1>2, <1>4, <1>5 DEF Running, Started, Active
<1>7. QED
  BY <1>1, <1>2, <1>4, <1>5, <1>6 DEF Started

\* The strongest signal a process was sent.
LEMMA TerminateFacts ==
    ASSUME TypeOK, NEW c \in Ids, Terminate(c)
    PROVE  told' \in [Ids -> {"none", "term", "kill"}]
  BY DEF TypeOK, Terminate

\* A step that starts nothing and forgets nothing.
LEMMA KnownKept ==
    ASSUME IInv, UNCHANGED <<managed, byRuntime>>, Running' \subseteq Running,
           \A d \in Running : login'[d].rt = login[d].rt,
           closing' = "no" => closing = "no"
    PROVE  RunningIsKnown'
  BY DEF IInv, RunningIsKnown, Running

\* A login that is ended, whatever ends it.
LEMMA EndKeeps ==
    ASSUME IInv, NEW c \in Started, NEW phase \in Phases, End(c, phase),
           phase \in {"running", "published"} => Active(c),
           told' \in [Ids -> {"none", "term", "kill"}],
           proc' \in [Ids -> {"none", "alive", "exited", "gone"}],
           UNCHANGED <<up, closing, h, managed, byRuntime>>
    PROVE  IInv'
<1>1. TypeOK
  BY DEF IInv
<1>2. /\ login' \in [Ids -> Handle \cup {None}]
      /\ Running' \subseteq Running
      /\ \A d \in Started : login'[d].rt = login[d].rt
  BY <1>1, EndFacts
<1>3. TypeOK'
  BY <1>1, <1>2 DEF TypeOK
<1>4. RunningIsKnown'
  BY <1>2, KnownKept DEF Running
<1>5. QED
  BY <1>3, <1>4 DEF IInv

\* A step that leaves the logins alone.
LEMMA QuietKeeps ==
    ASSUME IInv, TypeOK', UNCHANGED <<closing, managed, byRuntime, login>>
    PROVE  IInv'
<1>1. Running' = Running
  BY DEF Running, Started
<1>2. QED
  BY <1>1, KnownKept DEF IInv

LEMMA RequestKeeps ==
    ASSUME IInv, (\E r \in Runtimes : Challenge(r)) \/ NoCommand \/ TooMany \/ Reply
    PROVE  IInv'
<1>1. /\ UNCHANGED <<up, closing, managed, byRuntime, login, proc, told>>
      /\ h' \in {Idle, Waiting} \cup [pc : {"inspecting"}, rt : Runtimes]
  BY DEF Challenge, NoCommand, TooMany, Reply
<1>2. TypeOK'
  BY <1>1 DEF IInv, TypeOK
<1>3. QED
  BY <1>1, <1>2, QuietKeeps

\* A reused challenge: pruning forgot nothing that runs.
LEMMA ReuseKeeps ==
    ASSUME IInv, Reuse
    PROVE  IInv'
<1>1. /\ Kept \in Seq(Ids) /\ Len(Kept) <= MaxManaged
      /\ \A c \in ToSet(managed) : Active(c) => c \in ToSet(Kept)
      /\ ByRuntimeKept \in [Runtimes -> Ids \cup {None}]
      /\ \A r \in Runtimes : Active(byRuntime[r]) => ByRuntimeKept[r] = byRuntime[r]
  BY KeptFacts DEF IInv
<1>2. /\ managed' = Kept /\ byRuntime' = ByRuntimeKept /\ h' = Idle
      /\ UNCHANGED <<up, closing, login, proc, told>>
  BY DEF Reuse
<1>3. TypeOK'
  BY <1>1, <1>2 DEF IInv, TypeOK
<1>4. ASSUME closing = "no", NEW c \in Running
      PROVE  c \in ToSet(Kept) /\ ByRuntimeKept[login[c].rt] = c
  BY <1>1, <1>4, StartedFacts DEF IInv, RunningIsKnown, Running, Active
<1>5. Running' = Running
  BY <1>2 DEF Running, Started
<1>6. RunningIsKnown'
  BY <1>2, <1>4, <1>5 DEF RunningIsKnown
<1>7. QED
  BY <1>3, <1>6 DEF IInv

\* A new login: the one its runtime has not, in the place that pruning left.
LEMMA StartKeeps ==
    ASSUME IInv, NEW c \in Ids, Start(c)
    PROVE  IInv'
<1>1. /\ Kept \in Seq(Ids) /\ Len(Kept) <= MaxManaged
      /\ \A d \in ToSet(managed) : Active(d) => d \in ToSet(Kept)
      /\ ByRuntimeKept \in [Runtimes -> Ids \cup {None}]
      /\ \A r \in Runtimes : Active(byRuntime[r]) => ByRuntimeKept[r] = byRuntime[r]
  BY KeptFacts DEF IInv
<1>2. /\ h.pc = "inspecting" /\ ~Full(Kept) /\ ByRuntimeKept[h.rt] \notin ToSet(Kept)
      /\ Started = 1 .. c - 1
      /\ managed' = Append(Kept, c) /\ byRuntime' = [ByRuntimeKept EXCEPT ![h.rt] = c]
      /\ h' = Waiting /\ UNCHANGED <<up, closing, told>>
  BY DEF Start
<1>3. PICK phase \in {"running", "failed"}, p \in {"alive", "gone"} :
        /\ login' = [login EXCEPT ![c] = [rt |-> h.rt, phase |-> phase]]
        /\ proc' = [proc EXCEPT ![c] = p]
  BY DEF Start
<1>4. h.rt \in Runtimes
  BY <1>2 DEF IInv, TypeOK, Idle, Waiting
<1>5. [rt |-> h.rt, phase |-> phase] \in Handle
  BY <1>4 DEF Handle, Phases
<1>6. /\ managed' \in Seq(Ids) /\ Len(managed') <= MaxManaged
      /\ c \in ToSet(managed') /\ ToSet(Kept) \subseteq ToSet(managed')
  <2>1. /\ managed' \in Seq(Ids) /\ Len(managed') = Len(Kept) + 1
        /\ \A i \in 1 .. Len(Kept) : managed'[i] = Kept[i]
        /\ managed'[Len(Kept) + 1] = c
    BY <1>1, <1>2, AppendProperties
  <2>2. Len(Kept) \in Nat /\ Len(Kept) < MaxManaged /\ MaxManaged \in Nat
    BY <1>1, <1>2, BoundsAssumption DEF Full
  <2>3. QED
    BY <1>1, <2>1, <2>2 DEF ToSet
<1>7. TypeOK'
  <2>1. byRuntime' \in [Runtimes -> Ids \cup {None}]
    BY <1>1, <1>2
  <2>2. login' \in [Ids -> Handle \cup {None}] /\ proc' \in [Ids -> {"none", "alive", "exited", "gone"}]
    BY <1>3, <1>5 DEF IInv, TypeOK
  <2>3. QED
    BY <1>2, <1>6, <2>1, <2>2 DEF IInv, TypeOK
<1>8. \A d \in Ids : login'[d] = IF d = c THEN [rt |-> h.rt, phase |-> phase] ELSE login[d]
  BY <1>3 DEF IInv, TypeOK
<1>9. \A d \in Running' : d = c \/ d \in Running
  BY <1>8 DEF Running, Started
<1>10. ASSUME closing = "no", NEW d \in Running
       PROVE  /\ d \in ToSet(Kept) /\ ByRuntimeKept[login[d].rt] = d
              /\ login[d].rt # h.rt /\ login[d].rt \in Runtimes
  <2>1. d \in ToSet(Kept) /\ ByRuntimeKept[login[d].rt] = d /\ login[d].rt \in Runtimes
    BY <1>1, <1>10, StartedFacts DEF IInv, RunningIsKnown, Running, Active
  <2>2. QED
    BY <1>2, <2>1
<1>11. \A d \in Running : d # c /\ d \in Ids
  BY <1>2 DEF Running, Started
<1>12. ASSUME closing = "no", NEW d \in Running'
       PROVE  d \in ToSet(managed') /\ byRuntime'[login'[d].rt] = d
  <2>1. CASE d = c
    <3>1. login'[c].rt = h.rt
      BY <1>8
    <3>2. byRuntime'[h.rt] = c
      BY <1>1, <1>2, <1>4
    <3>3. QED
      BY <1>6, <2>1, <3>1, <3>2
  <2>2. CASE d # c
    <3>1. d \in Running
      BY <1>9, <2>2
    <3>2. login'[d] = login[d]
      BY <1>8, <1>11, <2>2, <3>1
    <3>3. byRuntime'[login[d].rt] = ByRuntimeKept[login[d].rt]
      BY <1>1, <1>2, <1>10, <1>12, <3>1
    <3>4. QED
      BY <1>6, <1>10, <1>12, <3>1, <3>2, <3>3
  <2>3. QED
    BY <2>1, <2>2
<1>13. RunningIsKnown'
  BY <1>2, <1>12 DEF RunningIsKnown
<1>14. QED
  BY <1>7, <1>13 DEF IInv

LEMMA CancelKeeps ==
    ASSUME IInv, NEW c \in Ids, Cancel(c) \/ Timeout(c) \/ Expire(c) \/ Flood(c)
    PROVE  IInv'
<1>1. /\ c \in Started
      /\ Terminate(c)
      /\ \E phase \in {"stopped", "failed"} : End(c, phase)
      /\ UNCHANGED <<up, closing, h, managed, byRuntime, proc>>
  BY DEF Cancel, Timeout, Expire, Flood, Active, Running
<1>2. /\ told' \in [Ids -> {"none", "term", "kill"}]
      /\ proc' \in [Ids -> {"none", "alive", "exited", "gone"}]
  BY <1>1, TerminateFacts DEF IInv, TypeOK
<1>3. QED
  BY <1>1, <1>2, EndKeeps DEF Phases

LEMMA PublishKeeps ==
    ASSUME IInv, NEW c \in Ids, Publish(c)
    PROVE  IInv'
<1>1. /\ c \in Started /\ Active(c) /\ End(c, "published")
      /\ UNCHANGED <<up, closing, h, managed, byRuntime, proc, told>>
  BY DEF Publish, End, Active, Running
<1>2. QED
  BY <1>1, EndKeeps DEF Phases, IInv, TypeOK

LEMMA ClosedKeeps ==
    ASSUME IInv, NEW c \in Ids, Closed(c)
    PROVE  IInv'
<1>1. /\ proc' = [proc EXCEPT ![c] = "gone"]
      /\ UNCHANGED <<up, closing, h, managed, byRuntime, told>>
      /\ IF Active(c) THEN End(c, "completed") \/ End(c, "failed") ELSE UNCHANGED login
  BY DEF Closed
<1>2. proc' \in [Ids -> {"none", "alive", "exited", "gone"}]
  BY <1>1 DEF IInv, TypeOK
<1>3. CASE Active(c)
  <2>1. c \in Started
    BY <1>3 DEF Active, Running
  <2>2. QED
    BY <1>1, <1>2, <1>3, <2>1, EndKeeps DEF Phases, IInv, TypeOK
<1>4. CASE ~Active(c)
  <2>1. TypeOK'
    BY <1>1, <1>2, <1>4 DEF IInv, TypeOK
  <2>2. QED
    BY <1>1, <1>4, <2>1, QuietKeeps
<1>5. QED
  BY <1>3, <1>4

LEMMA ProcessKeeps ==
    ASSUME IInv, NEW c \in Ids, Grace(c) \/ Exit(c) \/ Die(c)
    PROVE  IInv'
<1>1. UNCHANGED <<up, closing, h, managed, byRuntime, login>>
  BY DEF Grace, Exit, Die
<1>2. /\ told' \in [Ids -> {"none", "term", "kill"}]
      /\ proc' \in [Ids -> {"none", "alive", "exited", "gone"}]
  BY DEF Grace, Exit, Die, IInv, TypeOK
<1>3. TypeOK'
  BY <1>1, <1>2 DEF IInv, TypeOK
<1>4. QED
  BY <1>1, <1>3, QuietKeeps

LEMMA ShutdownKeeps ==
    ASSUME IInv, Shutdown \/ Clear \/ ExitHost
    PROVE  IInv'
<1>1. closing' # "no"
  BY DEF Shutdown, Clear, ExitHost
<1>2. TypeOK'
  <2>1. CASE Shutdown
    <3>1. \A c \in Ids : Active(c) => login[c] \in Handle
      BY StartedFacts DEF IInv, Active, Running
    <3>2. \A c \in Ids : Active(c) => [login[c] EXCEPT !.phase = "stopped"] \in Handle
      BY <3>1 DEF Handle, Phases
    <3>3. login' \in [Ids -> Handle \cup {None}]
      BY <2>1, <3>2 DEF Shutdown, IInv, TypeOK
    <3>4. told' \in [Ids -> {"none", "term", "kill"}]
      BY <2>1 DEF Shutdown, IInv, TypeOK
    <3>5. QED
      BY <2>1, <3>3, <3>4 DEF Shutdown, IInv, TypeOK
  <2>2. CASE Clear
    <3>1. managed' = <<>> /\ managed' \in Seq(Ids) /\ Len(managed') = 0
      BY <2>2 DEF Clear
    <3>2. byRuntime' \in [Runtimes -> Ids \cup {None}]
      BY <2>2 DEF Clear
    <3>3. QED
      BY <2>2, <3>1, <3>2, BoundsAssumption DEF Clear, IInv, TypeOK
  <2>3. CASE ExitHost
    BY <2>3 DEF ExitHost, IInv, TypeOK
  <2>4. QED
    BY <2>1, <2>2, <2>3
<1>3. QED
  BY <1>1, <1>2 DEF IInv, RunningIsKnown

LEMMA NextKeeps ==
    ASSUME IInv, [Next]_vars
    PROVE  IInv'
<1>1. CASE (\E r \in Runtimes : Challenge(r)) \/ NoCommand \/ TooMany \/ Reply
  BY <1>1, RequestKeeps
<1>2. CASE Reuse
  BY <1>2, ReuseKeeps
<1>3. ASSUME NEW c \in Ids, Start(c) \/ Cancel(c) \/ Child(c) \/ Timer(c)
      PROVE  IInv'
  BY <1>3, StartKeeps, CancelKeeps, PublishKeeps, ClosedKeeps, ProcessKeeps DEF Child, Timer
<1>4. CASE Shutdown \/ Clear \/ ExitHost
  BY <1>4, ShutdownKeeps
<1>5. CASE UNCHANGED vars
  <2>1. TypeOK'
    BY <1>5 DEF vars, IInv, TypeOK
  <2>2. QED
    BY <1>5, <2>1, QuietKeeps DEF vars
<1>6. QED
  BY <1>1, <1>2, <1>3, <1>4, <1>5 DEF Next, Over

-----------------------------------------------------------------------------
(* The theorems.                                                              *)

\* IInv is an invariant of the logins.
THEOREM Inductive == Spec => []IInv
<1>1. Init => IInv
  BY InitEstablishes
<1>2. IInv /\ [Next]_vars => IInv'
  BY NextKeeps
<1>3. QED
  BY <1>1, <1>2, PTL DEF Spec

\* The variables keep their types, and there are never more challenges than MaxManaged.
THEOREM TypeCorrect == Spec => []TypeOK
<1>1. IInv => TypeOK
  BY DEF IInv
<1>2. QED
  BY <1>1, Inductive, PTL

\* However many runtimes and logins there are: a running login can be cancelled, and its
\* runtime has no other (lib/runtime-manager.mjs:457-474, :501-511).
THEOREM RunningIsAlwaysKnown == Spec => []RunningIsKnown
<1>1. IInv => RunningIsKnown
  BY DEF IInv
<1>2. QED
  BY <1>1, Inductive, PTL

\* A step never revives a login that has ended, nor reports it completed
\* (lib/runtime-manager.mjs:160-228).
LEMMA NextRevivesNone ==
    ASSUME IInv, [Next]_vars, NEW d \in Started \ Running
    PROVE  login'[d].phase \in {login[d].phase, "failed"}
<1>1. /\ d \in Ids /\ ~Active(d) /\ login \in [Ids -> Handle \cup {None}]
      /\ login[d].phase \notin {"running", "published"}
  BY DEF IInv, TypeOK, Started, Active, Running
<1>2. CASE UNCHANGED login
  BY <1>2
<1>3. ASSUME NEW c \in Ids, Start(c)
      PROVE  login'[d].phase \in {login[d].phase, "failed"}
  <2>1. c # d
    BY <1>3 DEF Start, Started
  <2>2. login'[d] = login[d]
    BY <1>1, <1>3, <2>1 DEF Start
  <2>3. QED
    BY <2>2
<1>4. ASSUME NEW c \in Ids, Cancel(c) \/ Timeout(c) \/ Expire(c) \/ Publish(c) \/ Flood(c) \/ Closed(c)
      PROVE  login'[d].phase \in {login[d].phase, "failed"}
  <2>1. CASE c # d
    <3>1. UNCHANGED login \/ \E phase \in Phases : End(c, phase)
      BY <1>4 DEF Cancel, Timeout, Expire, Publish, Flood, Closed, Phases, End
    <3>2. login'[d] = login[d]
      BY <1>1, <2>1, <3>1 DEF End
    <3>3. QED
      BY <3>2
  <2>2. CASE c = d
    <3>1. Flood(c) \/ Closed(c)
      BY <1>1, <1>4, <2>2 DEF Cancel, Timeout, Expire, Publish
    <3>2. End(c, "failed") \/ UNCHANGED login
      BY <1>1, <2>2, <3>1 DEF Flood, Closed
    <3>3. End(c, "failed") => login'[c].phase = "failed"
      BY <2>2, EndFacts DEF IInv, Phases
    <3>4. QED
      BY <2>2, <3>2, <3>3
  <2>3. QED
    BY <2>1, <2>2
<1>5. CASE Shutdown
  BY <1>1, <1>5 DEF Shutdown
<1>6. QED
  BY <1>2, <1>3, <1>4, <1>5
     DEF Next, vars, Challenge, NoCommand, TooMany, Reuse, Reply, Child, Timer, Grace, Exit, Die,
         Clear, ExitHost, Over

\* A login that ended is never reported as running or as completed afterwards.
THEOREM EndedStaysEnded == Spec => EndedIsNotRevived
<1>1. IInv /\ [Next]_vars
        => [\A c \in Started \ Running : login'[c].phase \in {login[c].phase, "failed"}]_vars
  BY NextRevivesNone
<1>2. QED
  BY <1>1, Inductive, PTL DEF Spec, EndedIsNotRevived
=============================================================================
