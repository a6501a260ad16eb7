-------------------------- MODULE RemoteHostProofs --------------------------
(***************************************************************************)
(* Proofs about RemoteHost: the inductive invariant; the three ways a      *)
(* state of the store is changed; the invariant carried through every      *)
(* action; the theorems; the refinement of the ledger, and what it gives.  *)
(***************************************************************************)
EXTENDS RemoteHost, TLAPS

-----------------------------------------------------------------------------
(* The inductive invariant.                                                *)

Keeps(s, t) ==
    /\ Recorded(s, t.id)
    /\ s.ops[t.id].state = t.state
    /\ OwnedBy(s.ops[t.id], t.src)

\* One state against what was told (T), what was asked of Session Control (C) and
\* what happened there (D).
StoreOK(s, T, C, D) ==
    /\ KeysUnique(s)
    /\ RevsBounded(s)
    /\ \A t \in T : Keeps(s, t)
    /\ \A c \in C : HasRecord(s, c)
    /\ SuccessIn(s, D)

FinalKept(s, n) ==
    \A o \in OpIds : Recorded(s, o) /\ s.ops[o].state \in Final => n.ops[o] = s.ops[o]

\* A failed write leaves the disk ahead of memory only in records that are not final.
FinalIsDurable == FinalKept(mem, disk)

Revisions == toldRev <= mem.rev /\ mem.rev <= disk.rev

\* The operation a handler works on is its request's, and running.
HandlerOK ==
    h.pc # "idle" =>
        /\ up
        /\ Recorded(disk, h.id) /\ CallOf(disk.ops[h.id]) = CallOf(h.req)
        /\ Recorded(mem, h.id) /\ CallOf(mem.ops[h.id]) = CallOf(h.req)
        /\ mem.ops[h.id].state = "running"
        /\ mem.ops[h.id].body = h.req.body
        /\ h.pc # "created" => h.req.type \in ScTypes
        /\ h.pc = "called" => CallOf(h.req) \in done

DownOK == ~up => mem = disk /\ h = Idle /\ adapter = NoBody

OnlyHandlerRuns ==
    up /\ faults = 0 => \A o \in Interrupted(mem) : h.pc # "idle" /\ h.id = o

IInv ==
    /\ TypeOK
    /\ StoreOK(disk, told, pending \cup done, done)
    /\ StoreOK(mem, told, pending \cup done, done)
    /\ FinalIsDurable
    /\ Revisions
    /\ HandlerOK
    /\ DownOK
    /\ OnlyHandlerRuns
    /\ AdapterIsBound

\* One store update, as the ledger sees it: n adds a running record to s, settles one
\* that ran, or reopens one whose outcome was not proven.
OneStepFrom(s, n) ==
    \/ n.ops = s.ops
    \/ \E o \in OpIds :
         /\ \A p \in OpIds \ {o} : n.ops[p] = s.ops[p]
         /\ Recorded(n, o)
         /\ IF Recorded(s, o)
            THEN /\ CallOf(n.ops[o]) = CallOf(s.ops[o])
                 /\ IF n.ops[o].state = "running"
                    THEN s.ops[o].state = "needs-attention" /\ s.ops[o].type \in ScTypes
                    ELSE /\ s.ops[o].state = "running"
                         /\ s.ops[o].type \in ScTypes \/ n.ops[o].state # "partial"
            ELSE n.ops[o].state = "running"

\* A failed write leaves the disk at most one update ahead of memory: a crash, which
\* makes the disk the state that is served, is a step the ledger allows.
DiskOneStepAhead == OneStepFrom(mem, disk)

-----------------------------------------------------------------------------
(* Changes of a store state.                                                  *)

\* Creating an operation adds the request's record, running, at the next revision
\* and leaves every other record alone.
LEMMA CreateFacts ==
    ASSUME NEW s \in HostState, NEW r \in Request
    PROVE  LET n == CreateOperation(s, r) IN
           /\ n \in HostState
           /\ n.rev = s.rev + 1
           /\ Recorded(n, r.id)
           /\ CallOf(n.ops[r.id]) = CallOf(r)
           /\ n.ops[r.id].state = "running"
           /\ n.ops[r.id].body = r.body
           /\ n.ops[r.id].rev = n.rev
           /\ \A p \in OpIds \ {r.id} : n.ops[p] = s.ops[p]
<1> DEFINE n == CreateOperation(s, r)
           op == RecordAt(r, "running", "NONE", s.rev + 1)
<1>1. op \in Operation
  BY DEF HostState, Request, Operation, States, Codes, RecordAt
<1>2. n = [rev |-> s.rev + 1, ops |-> [s.ops EXCEPT ![r.id] = op],
           gw |-> IF r.type = "gateway.bind" THEN r.body ELSE s.gw]
  BY DEF CreateOperation
<1>3. r.id \in OpIds /\ r.body \in Bodies /\ s.ops \in [OpIds -> Operation \cup {NoOp}]
      /\ s.rev \in Nat /\ s.gw \in Bodies \cup {NoBody}
  BY DEF Request, HostState
<1>4. n.ops[r.id] = op /\ n.rev = s.rev + 1
  BY <1>2, <1>3
<1>5. \A p \in OpIds \ {r.id} : n.ops[p] = s.ops[p]
  BY <1>2, <1>3
<1>6. n \in HostState
  BY <1>1, <1>2, <1>3 DEF HostState
<1>7. op # NoOp
  BY <1>1, NoOpAssumption
<1>8. CallOf(op) = CallOf(r) /\ op.state = "running" /\ op.body = r.body /\ op.rev = s.rev + 1
  BY DEF CallOf, RecordAt
<1> HIDE DEF op, n
<1>9. QED
  BY <1>4, <1>5, <1>6, <1>7, <1>8 DEF Recorded, n

\* Setting a record's state keeps whose operation it is, and leaves every other
\* record alone.
LEMMA SetStateFacts ==
    ASSUME NEW s \in HostState, NEW o \in OpIds, Recorded(s, o),
           NEW state \in States, NEW code \in Codes
    PROVE  LET n == SetState(s, o, state, code) IN
           /\ n \in HostState
           /\ n.rev = s.rev + 1
           /\ Recorded(n, o)
           /\ CallOf(n.ops[o]) = CallOf(s.ops[o])
           /\ n.ops[o].type = s.ops[o].type
           /\ n.ops[o].src = s.ops[o].src
           /\ n.ops[o].body = s.ops[o].body
           /\ n.ops[o].state = state
           /\ n.ops[o].rev = n.rev
           /\ \A p \in OpIds \ {o} : n.ops[p] = s.ops[p]
<1> DEFINE n == SetState(s, o, state, code)
           op == RecordAt(s.ops[o], state, code, s.rev + 1)
<1>1. s.ops[o] \in Operation /\ s.ops \in [OpIds -> Operation \cup {NoOp}] /\ s.rev \in Nat
  BY DEF HostState, Recorded
<1>2. op \in Operation
  BY <1>1 DEF Operation, RecordAt
<1>3. n = [rev |-> s.rev + 1, ops |-> [s.ops EXCEPT ![o] = op], gw |-> s.gw]
  BY DEF SetState
<1>4. op.state = state /\ op.rev = s.rev + 1 /\ CallOf(op) = CallOf(s.ops[o])
      /\ op.type = s.ops[o].type /\ op.src = s.ops[o].src /\ op.body = s.ops[o].body
  BY DEF RecordAt, CallOf
<1>5. op # NoOp
  BY <1>2, NoOpAssumption
<1> HIDE DEF op, n
<1>6. n \in HostState /\ n.rev = s.rev + 1 /\ n.ops = [s.ops EXCEPT ![o] = op]
  BY <1>1, <1>2, <1>3 DEF HostState
<1>7. n.ops[o] = op /\ \A p \in OpIds \ {o} : n.ops[p] = s.ops[p]
  BY <1>1, <1>6
<1>8. QED
  BY <1>4, <1>5, <1>6, <1>7 DEF Recorded, n

\* A restart settles the running records as interrupted and leaves the others alone.
LEMMA InterruptFacts ==
    ASSUME NEW s \in HostState
    PROVE  LET n == MarkInterrupted(s) IN
           /\ n \in HostState
           /\ n.rev \in {s.rev, s.rev + 1}
           /\ Interrupted(n) = {}
           /\ \A o \in OpIds :
                /\ Recorded(n, o) <=> Recorded(s, o)
                /\ Recorded(s, o) =>
                     /\ CallOf(n.ops[o]) = CallOf(s.ops[o])
                     /\ n.ops[o].src = s.ops[o].src
                     /\ n.ops[o].type = s.ops[o].type
                     /\ n.ops[o].state # "needs-attention" => n.ops[o].state = s.ops[o].state
                     /\ n.ops[o].rev \in {s.ops[o].rev, n.rev}
                /\ Recorded(s, o) /\ s.ops[o].state # "running" => n.ops[o] = s.ops[o]
<1> DEFINE n == MarkInterrupted(s)
           op(o) == RecordAt(s.ops[o], "needs-attention", "HOST_RESTART_INTERRUPTED",
                             s.rev + 1)
<1>1. CASE Interrupted(s) = {}
  BY <1>1 DEF MarkInterrupted, Interrupted
<1>2. CASE Interrupted(s) # {}
  <2>1. s.ops \in [OpIds -> Operation \cup {NoOp}] /\ s.rev \in Nat
    BY DEF HostState
  <2>2. ASSUME NEW o \in OpIds, Recorded(s, o)
        PROVE  /\ op(o) \in Operation
               /\ op(o).state = "needs-attention" /\ op(o).rev = s.rev + 1
               /\ CallOf(op(o)) = CallOf(s.ops[o])
               /\ op(o).src = s.ops[o].src
               /\ op(o).type = s.ops[o].type
    <3>1. s.ops[o] \in Operation
      BY <2>1, <2>2 DEF Recorded
    <3>2. QED
      BY <2>1, <3>1 DEF Operation, RecordAt, CallOf, States, Codes
  <2>3. n = [rev |-> s.rev + 1,
               ops |-> [o \in OpIds |-> IF o \in Interrupted(s) THEN op(o) ELSE s.ops[o]],
               gw  |-> s.gw]
    BY <1>2 DEF MarkInterrupted
  <2> HIDE DEF op, n
  <2>4. n.rev = s.rev + 1
        /\ n.ops = [o \in OpIds |-> IF o \in Interrupted(s) THEN op(o) ELSE s.ops[o]]
    BY <2>3 DEF HostState
  <2>5. \A o \in Interrupted(s) : o \in OpIds /\ Recorded(s, o) /\ op(o) \in Operation
    BY <2>2 DEF Interrupted
  <2>6. n.ops \in [OpIds -> Operation \cup {NoOp}]
    BY <2>1, <2>4, <2>5
  <2>7. n \in HostState
    BY <2>1, <2>3, <2>4, <2>6 DEF HostState
  <2>8. ASSUME NEW o \in OpIds
        PROVE  n.ops[o] = IF o \in Interrupted(s) THEN op(o) ELSE s.ops[o]
    BY <2>4
  <2>9. Interrupted(n) = {}
    BY <2>2, <2>8 DEF Interrupted, Recorded
  <2>10. QED
    BY NoOpAssumption, <2>1, <2>2, <2>4, <2>5, <2>7, <2>8, <2>9 DEF Interrupted, Recorded, n
<1>3. QED
  BY <1>1, <1>2

-----------------------------------------------------------------------------
(* Each change keeps StoreOK.                                                 *)

Reports == [src : Sources, id : OpIds, state : Final]

\* A new record breaks nothing when no record has its id or its key.
LEMMA CreateKeepsStore ==
    ASSUME NEW s \in HostState, NEW r \in Request, Existing(s, r) = {},
           NEW T \in SUBSET Reports, NEW C, NEW D, StoreOK(s, T, C, D)
    PROVE  StoreOK(CreateOperation(s, r), T, C, D)
<1> DEFINE n == CreateOperation(s, r)
<1>1. /\ n \in HostState
      /\ n.rev = s.rev + 1
      /\ Recorded(n, r.id)
      /\ CallOf(n.ops[r.id]) = CallOf(r)
      /\ n.ops[r.id].state = "running"
      /\ n.ops[r.id].rev = n.rev
      /\ \A p \in OpIds \ {r.id} : n.ops[p] = s.ops[p]
  BY CreateFacts
<1> HIDE DEF n
<1>2. r.id \in OpIds /\ ~Recorded(s, r.id)
      /\ \A p \in OpIds : Recorded(s, p) => CallOf(s.ops[p]) # CallOf(r)
  BY DEF Existing, Matches, OwnedBy, CallOf, Request
<1>3. KeysUnique(n)
  BY <1>1, <1>2 DEF KeysUnique, StoreOK, Recorded
<1>4. RevsBounded(n)
  <2>1. ASSUME NEW p \in OpIds, Recorded(n, p) PROVE n.ops[p].rev <= n.rev
    <3>1. CASE p = r.id
      BY <1>1, <3>1 DEF HostState
    <3>2. CASE p # r.id
      <4>1. Recorded(s, p) /\ n.ops[p] = s.ops[p] /\ s.ops[p] \in Operation
        BY <1>1, <2>1, <3>2 DEF Recorded, HostState
      <4>2. s.ops[p].rev <= s.rev /\ s.rev \in Nat /\ s.ops[p].rev \in Nat
        BY <4>1 DEF StoreOK, RevsBounded, HostState, Operation
      <4>3. QED
        BY <1>1, <4>1, <4>2
    <3>3. QED
      BY <3>1, <3>2
  <2>2. QED
    BY <2>1 DEF RevsBounded
<1>5. \A t \in T : Keeps(n, t)
  BY <1>1, <1>2 DEF StoreOK, Keeps, Reports, Recorded
<1>6. \A c \in C : HasRecord(n, c)
  BY <1>1, <1>2 DEF StoreOK, HasRecord, Recorded
<1>7. SuccessIn(n, D)
  BY <1>1, <1>2 DEF StoreOK, SuccessIn, Recorded
<1>8. QED
  BY <1>3, <1>4, <1>5, <1>6, <1>7 DEF StoreOK, n

\* A record that is not final may take any state, success only with its effect done.
LEMMA SetStateKeepsStore ==
    ASSUME NEW s \in HostState, NEW o \in OpIds, Recorded(s, o), s.ops[o].state \notin Final,
           NEW state \in States, NEW code \in Codes,
           NEW T \in SUBSET Reports, NEW C, NEW D, StoreOK(s, T, C, D),
           s.ops[o].type \in ScTypes /\ state \in {"completed", "partial"}
             => CallOf(s.ops[o]) \in D
    PROVE  StoreOK(SetState(s, o, state, code), T, C, D)
<1> DEFINE n == SetState(s, o, state, code)
<1>1. /\ n \in HostState
      /\ n.rev = s.rev + 1
      /\ Recorded(n, o)
      /\ CallOf(n.ops[o]) = CallOf(s.ops[o])
      /\ n.ops[o].type = s.ops[o].type
      /\ n.ops[o].src = s.ops[o].src
      /\ n.ops[o].state = state
      /\ n.ops[o].rev = n.rev
      /\ \A p \in OpIds \ {o} : n.ops[p] = s.ops[p]
  BY SetStateFacts
<1> HIDE DEF n
<1>2. KeysUnique(n)
  BY <1>1 DEF KeysUnique, StoreOK, Recorded
<1>3. RevsBounded(n)
  <2>1. ASSUME NEW p \in OpIds, Recorded(n, p) PROVE n.ops[p].rev <= n.rev
    <3>1. CASE p = o
      BY <1>1, <3>1 DEF HostState
    <3>2. CASE p # o
      <4>1. Recorded(s, p) /\ n.ops[p] = s.ops[p] /\ s.ops[p] \in Operation
        BY <1>1, <2>1, <3>2 DEF Recorded, HostState
      <4>2. s.ops[p].rev <= s.rev /\ s.rev \in Nat /\ s.ops[p].rev \in Nat
        BY <4>1 DEF StoreOK, RevsBounded, HostState, Operation
      <4>3. QED
        BY <1>1, <4>1, <4>2
    <3>3. QED
      BY <3>1, <3>2
  <2>2. QED
    BY <2>1 DEF RevsBounded
<1>4. ASSUME NEW t \in T PROVE Keeps(n, t)
  <2>1. t.id \in OpIds /\ t.state \in Final /\ Keeps(s, t)
    BY DEF Reports, StoreOK
  <2>2. t.id # o
    BY <2>1 DEF Keeps
  <2>3. QED
    BY <1>1, <2>1, <2>2 DEF Keeps, Recorded
<1>5. \A c \in C : HasRecord(n, c)
  BY <1>1 DEF StoreOK, HasRecord, Recorded
<1>6. SuccessIn(n, D)
  BY <1>1 DEF StoreOK, SuccessIn, Recorded
<1>7. QED
  BY <1>2, <1>3, <1>4, <1>5, <1>6 DEF StoreOK, n

\* What a restart does to the running records breaks nothing.
LEMMA InterruptKeepsStore ==
    ASSUME NEW s \in HostState, NEW T \in SUBSET Reports, NEW C, NEW D, StoreOK(s, T, C, D)
    PROVE  StoreOK(MarkInterrupted(s), T, C, D)
<1> DEFINE n == MarkInterrupted(s)
<1>1. /\ n \in HostState
      /\ n.rev \in {s.rev, s.rev + 1}
      /\ \A o \in OpIds :
           /\ Recorded(n, o) <=> Recorded(s, o)
           /\ Recorded(s, o) =>
                /\ CallOf(n.ops[o]) = CallOf(s.ops[o])
                /\ n.ops[o].src = s.ops[o].src
                /\ n.ops[o].type = s.ops[o].type
                /\ n.ops[o].state # "needs-attention" => n.ops[o].state = s.ops[o].state
                /\ n.ops[o].rev \in {s.ops[o].rev, n.rev}
           /\ Recorded(s, o) /\ s.ops[o].state # "running" => n.ops[o] = s.ops[o]
  BY InterruptFacts
<1> HIDE DEF n
<1>2. KeysUnique(n)
  BY <1>1 DEF KeysUnique, StoreOK
<1>3. ASSUME NEW p \in OpIds, Recorded(n, p) PROVE n.ops[p].rev <= n.rev
  <2>1. s.ops[p] \in Operation /\ n.rev \in Nat
    BY <1>1, <1>3 DEF Recorded, HostState
  <2>2. s.ops[p].rev <= s.rev /\ s.rev \in Nat /\ s.ops[p].rev \in Nat
    BY <1>1, <1>3, <2>1 DEF StoreOK, RevsBounded, HostState, Operation
  <2>3. QED
    BY <1>1, <1>3, <2>1, <2>2
<1>4. ASSUME NEW t \in T PROVE Keeps(n, t)
  <2>1. t.id \in OpIds /\ t.state \in Final /\ Keeps(s, t)
    BY DEF Reports, StoreOK
  <2>2. QED
    BY <1>1, <2>1 DEF Keeps, Final
<1>5. \A c \in C : HasRecord(n, c)
  BY <1>1 DEF StoreOK, HasRecord
<1>6. SuccessIn(n, D)
  BY <1>1 DEF StoreOK, SuccessIn
<1>7. QED
  BY <1>2, <1>3, <1>4, <1>5, <1>6 DEF StoreOK, RevsBounded, n

\* StoreOK under more reports, calls and effects, each new one accounted for.
LEMMA StoreOKGrows ==
    ASSUME NEW s, NEW T, NEW C, NEW D, StoreOK(s, T, C, D),
           NEW T2, NEW C2, NEW D2,
           \A t \in T2 : t \in T \/ Keeps(s, t),
           \A c \in C2 : c \in C \/ HasRecord(s, c),
           D \subseteq D2
    PROVE  StoreOK(s, T2, C2, D2)
  BY DEF StoreOK, SuccessIn

-----------------------------------------------------------------------------
(* Steps that the actions share.                                              *)

\* A write of a good successor of mem, whether it succeeds or fails.
LEMMA WriteKeeps ==
    ASSUME IInv, NEW next \in HostState,
           StoreOK(next, told, pending \cup done, done),
           FinalKept(mem, next),
           next.rev = mem.rev + 1,
           WriteOk(next) \/ WriteFails(next)
    PROVE  /\ disk' \in HostState /\ mem' \in HostState
           /\ disk' \in {disk, next} /\ mem' \in {mem, next}
           /\ StoreOK(disk', told, pending \cup done, done)
           /\ StoreOK(mem', told, pending \cup done, done)
           /\ FinalIsDurable'
           /\ FinalKept(mem, mem')
           /\ mem.rev <= mem'.rev /\ mem'.rev <= disk'.rev
           /\ faults' \in Nat
           /\ faults' = 0 => faults = 0 /\ mem' = next
<1> USE DEF IInv
<1>1. disk \in HostState /\ mem \in HostState /\ faults \in Nat
      /\ mem.rev \in Nat /\ disk.rev \in Nat /\ mem.rev <= disk.rev
  BY DEF TypeOK, HostState, Revisions
<1>2. CASE WriteOk(next)
  BY <1>1, <1>2 DEF WriteOk, FinalIsDurable, FinalKept
<1>3. CASE WriteFails(next)
  <2>1. mem' = mem /\ disk' \in {disk, next} /\ faults' = faults + 1
    BY <1>3 DEF WriteFails
  <2>2. FinalIsDurable'
    BY <2>1 DEF FinalIsDurable, FinalKept, Recorded
  <2>3. FinalKept(mem, mem')
    BY <2>1 DEF FinalKept
  <2>4. QED
    BY <1>1, <2>1, <2>2, <2>3
<1>4. QED
  BY <1>2, <1>3

\* Reports of a source's own records in memory.
LEMMA ReportKeeps ==
    ASSUME IInv, NEW src \in Sources, NEW os \in SUBSET OpIds,
           \A o \in os : Recorded(mem, o) /\ OwnedBy(mem.ops[o], src),
           Report(src, mem, os)
    PROVE  /\ told' \in SUBSET Reports
           /\ StoreOK(disk, told', pending \cup done, done)
           /\ StoreOK(mem, told', pending \cup done, done)
           /\ toldRev' \in Nat /\ toldRev' <= mem.rev
<1>1. ASSUME NEW t \in told', t \notin told
      PROVE  t \in Reports /\ Keeps(mem, t) /\ Keeps(disk, t)
  <2>1. PICK o \in os : mem.ops[o].state \in Final
                        /\ t = [src |-> src, id |-> o, state |-> mem.ops[o].state]
    BY <1>1 DEF Report
  <2>2. t.id = o /\ t.src = src /\ t.state = mem.ops[o].state /\ t \in Reports
    BY <2>1 DEF Reports
  <2>3. Recorded(mem, o) /\ OwnedBy(mem.ops[o], src) /\ disk.ops[o] = mem.ops[o]
    BY <2>1 DEF IInv, FinalIsDurable, FinalKept
  <2>4. QED
    BY <2>2, <2>3 DEF Keeps, OwnedBy, Recorded
<1>2. told \in SUBSET Reports
  BY DEF IInv, TypeOK, Reports
<1>3. StoreOK(disk, told', pending \cup done, done) /\ StoreOK(mem, told', pending \cup done, done)
  BY <1>1, StoreOKGrows DEF IInv
<1>4. toldRev' \in Nat /\ toldRev' <= mem.rev
  BY DEF Report, IInv, TypeOK, Revisions, HostState
<1>5. QED
  BY <1>1, <1>2, <1>3, <1>4

\* While the adapter stays and final records are kept, its binding is there.
LEMMA AdapterKept ==
    ASSUME AdapterIsBound, adapter' = adapter, FinalKept(mem, mem')
    PROVE  AdapterIsBound'
  BY DEF AdapterIsBound, FinalKept, Recorded, Final

-----------------------------------------------------------------------------
(* The actions.                                                               *)

\* finishOperation settles the handler's record: the caller shows that a recorded
\* success had its effect, and what became of the adapter.
LEMMA FinishOperationKeeps ==
    ASSUME IInv, h.pc # "idle", NEW state \in States \ {"running"}, NEW code \in Codes,
           FinishOperation(state, code),
           h.req.type \in ScTypes /\ state \in {"completed", "partial"}
             => CallOf(h.req) \in done,
           adapter' \in Bodies \cup {NoBody},
           AdapterIsBound'
    PROVE  IInv'
<1> DEFINE next == SetState(mem, h.id, state, code)
<1>1. /\ up
      /\ h.id \in OpIds /\ h.req \in Request /\ Recorded(mem, h.id) /\ mem \in HostState
      /\ CallOf(mem.ops[h.id]) = CallOf(h.req)
      /\ mem.ops[h.id].state = "running"
  BY DEF IInv, HandlerOK, TypeOK, Idle
<1>2. /\ next \in HostState
      /\ next.rev = mem.rev + 1
      /\ Recorded(next, h.id)
      /\ CallOf(next.ops[h.id]) = CallOf(mem.ops[h.id])
      /\ next.ops[h.id].src = mem.ops[h.id].src
      /\ next.ops[h.id].state = state
      /\ \A p \in OpIds \ {h.id} : next.ops[p] = mem.ops[p]
  BY <1>1, SetStateFacts
<1>3. mem.ops[h.id].type = h.req.type /\ mem.ops[h.id].src = h.req.src
  BY <1>1 DEF CallOf
<1>4. told \in SUBSET Reports
  BY DEF IInv, TypeOK, Reports
<1>5. StoreOK(next, told, pending \cup done, done)
  BY <1>1, <1>3, <1>4, SetStateKeepsStore DEF IInv, Final
<1>6. FinalKept(mem, next)
  BY <1>1, <1>2 DEF FinalKept, Final
<1> HIDE DEF next
<1>7. WriteOk(next) \/ WriteFails(next)
  BY DEF FinishOperation, next
<1>8. /\ disk' \in HostState /\ mem' \in HostState
      /\ disk' \in {disk, next} /\ mem' \in {mem, next}
      /\ StoreOK(disk', told, pending \cup done, done)
      /\ StoreOK(mem', told, pending \cup done, done)
      /\ FinalIsDurable'
      /\ FinalKept(mem, mem')
      /\ mem.rev <= mem'.rev /\ mem'.rev <= disk'.rev
      /\ faults' \in Nat
      /\ faults' = 0 => faults = 0 /\ mem' = next
  BY <1>2, <1>5, <1>6, <1>7, WriteKeeps
<1>9. /\ told' \in SUBSET Reports
      /\ \A t \in told' : t \in told \/ (Keeps(disk', t) /\ Keeps(mem', t))
      /\ toldRev' \in Nat /\ toldRev' <= mem'.rev
  <2>1. CASE WriteOk(next) /\ Report(h.req.src, mem', {h.id})
    <3>1. disk' = next /\ mem' = next
      BY <2>1 DEF WriteOk
    <3>2. ASSUME NEW t \in told', t \notin told
          PROVE  t \in Reports /\ Keeps(next, t)
      <4>1. t = [src |-> h.req.src, id |-> h.id, state |-> next.ops[h.id].state]
            /\ next.ops[h.id].state \in Final
        BY <2>1, <3>1, <3>2 DEF Report
      <4>2. QED
        BY <1>1, <1>2, <1>3, <4>1 DEF Reports, Keeps, OwnedBy, Request
    <3>3. toldRev' \in Nat /\ toldRev' <= next.rev
      <4>1. toldRev \in Nat /\ toldRev <= mem.rev /\ mem.rev \in Nat /\ next.rev \in Nat
        BY <1>2 DEF IInv, TypeOK, Revisions, HostState
      <4>2. toldRev' = IF next.rev > toldRev THEN next.rev ELSE toldRev
        BY <2>1, <3>1 DEF Report
      <4>3. QED
        BY <1>2, <4>1, <4>2
    <3>4. QED
      BY <1>4, <3>1, <3>2, <3>3
  <2>2. CASE UNCHANGED reports
    BY <1>4, <1>8, <2>2 DEF reports, IInv, TypeOK, Revisions, HostState
  <2>3. QED
    BY <2>1, <2>2 DEF FinishOperation, next
<1>10. h' = Idle /\ UNCHANGED <<up, handshakes, pending, done, accepted>>
  BY DEF FinishOperation, session
<1>11. StoreOK(disk', told', (pending \cup done)', done') /\ StoreOK(mem', told', (pending \cup done)', done')
  BY <1>8, <1>9, <1>10, StoreOKGrows
<1>12. TypeOK'
  BY <1>8, <1>9, <1>10 DEF IInv, TypeOK, Reports
<1>13. Revisions'
  BY <1>8, <1>9 DEF Revisions
<1>14. HandlerOK' /\ DownOK'
  BY <1>1, <1>10 DEF HandlerOK, DownOK, Idle
<1>15. OnlyHandlerRuns'
  BY <1>1, <1>2, <1>8 DEF IInv, OnlyHandlerRuns, Interrupted, Recorded
<1>16. QED
  BY <1>8, <1>11, <1>12, <1>13, <1>14, <1>15 DEF IInv

\* A handler that starts on the record next has under o, or fails to write it.
LEMMA StartKeeps ==
    ASSUME IInv, up, h.pc = "idle",
           NEW r \in Request, NEW o \in OpIds, NEW next \in HostState,
           StoreOK(next, told, pending \cup done, done),
           FinalKept(mem, next),
           next.rev = mem.rev + 1,
           Recorded(next, o), CallOf(next.ops[o]) = CallOf(r),
           next.ops[o].state = "running", next.ops[o].body = r.body,
           \A p \in OpIds \ {o} : next.ops[p] = mem.ops[p],
           \/ WriteOk(next) /\ h' = At("created", r, o, "NONE")
           \/ WriteFails(next) /\ h' = Idle,
           accepted' = accepted + 1,
           UNCHANGED <<up, handshakes, adapter, session, reports>>
    PROVE  IInv'
<1>1. /\ disk' \in HostState /\ mem' \in HostState
      /\ disk' \in {disk, next} /\ mem' \in {mem, next}
      /\ StoreOK(disk', told, pending \cup done, done)
      /\ StoreOK(mem', told, pending \cup done, done)
      /\ FinalIsDurable'
      /\ FinalKept(mem, mem')
      /\ mem.rev <= mem'.rev /\ mem'.rev <= disk'.rev
      /\ faults' \in Nat
      /\ faults' = 0 => faults = 0 /\ mem' = next
  BY WriteKeeps
<1>2. UNCHANGED <<up, handshakes, adapter, pending, done, told, toldRev>>
  BY DEF session, reports
<1>3. \/ h' = Idle
      \/ /\ h' = [pc |-> "created", req |-> r, id |-> o, code |-> "NONE"]
         /\ disk' = next /\ mem' = next
  BY DEF At, WriteOk
<1>4. TypeOK'
  BY <1>1, <1>2, <1>3 DEF IInv, TypeOK, Codes
<1>5. StoreOK(disk', told', (pending \cup done)', done') /\ StoreOK(mem', told', (pending \cup done)', done')
  BY <1>1, <1>2
<1>6. Revisions'
  BY <1>1, <1>2 DEF IInv, Revisions, TypeOK, HostState
<1>7. HandlerOK' /\ DownOK'
  BY <1>2, <1>3 DEF HandlerOK, DownOK, Idle
<1>8. OnlyHandlerRuns'
  <2>1. CASE faults' = 0
    <3>1. faults = 0 /\ mem' = next /\ h' = [pc |-> "created", req |-> r, id |-> o, code |-> "NONE"]
      <4>1. faults = 0 /\ mem' = next
        BY <1>1, <2>1
      <4>2. ~WriteFails(next)
        BY <2>1, <4>1 DEF WriteFails
      <4>3. QED
        BY <4>1, <4>2 DEF At
    <3>2. Interrupted(mem) = {}
      BY <3>1 DEF IInv, OnlyHandlerRuns
    <3>3. Interrupted(next) \subseteq {o}
      BY <3>2 DEF Interrupted, Recorded
    <3>4. QED
      BY <3>1, <3>3 DEF OnlyHandlerRuns
  <2>2. CASE faults' # 0
    BY <2>2 DEF OnlyHandlerRuns
  <2>3. QED
    BY <2>1, <2>2
<1>9. AdapterIsBound'
  BY <1>1, <1>2, AdapterKept DEF IInv
<1>10. QED
  BY <1>1, <1>4, <1>5, <1>6, <1>7, <1>8, <1>9 DEF IInv

\* A step of the handler or of Session Control that leaves the store alone.
LEMMA QuietKeeps ==
    ASSUME IInv, UNCHANGED <<store, up, handshakes, adapter, faults, told, toldRev>>,
           accepted' \in Nat,
           pending' \subseteq Call, done' \subseteq Call,
           \A c \in (pending \cup done)' :
             c \in pending \cup done \/ (HasRecord(disk, c) /\ HasRecord(mem, c)),
           done \subseteq done',
           \/ h' = h
           \/ /\ h.pc # "idle"
              /\ h' \in [pc : {"calling", "called", "caught"}, req : Request, id : OpIds, code : Codes]
              /\ h'.req = h.req /\ h'.id = h.id
              /\ h.req.type \in ScTypes
              /\ h'.pc = "called" => CallOf(h.req) \in done
    PROVE  IInv'
<1>1. UNCHANGED <<disk, mem, up, handshakes, adapter, faults, told, toldRev>>
  BY DEF store
<1>2. TypeOK'
  BY <1>1 DEF IInv, TypeOK, Idle
<1>3. StoreOK(disk', told', (pending \cup done)', done') /\ StoreOK(mem', told', (pending \cup done)', done')
  BY <1>1, StoreOKGrows DEF IInv
<1>4. FinalIsDurable' /\ Revisions' /\ AdapterIsBound'
  BY <1>1 DEF IInv, FinalIsDurable, Revisions, AdapterIsBound
<1>5. HandlerOK'
  BY <1>1 DEF IInv, HandlerOK
<1>6. DownOK'
  BY <1>1 DEF IInv, DownOK, HandlerOK
<1>7. OnlyHandlerRuns'
  BY <1>1 DEF IInv, OnlyHandlerRuns
<1>8. QED
  BY <1>2, <1>3, <1>4, <1>5, <1>6, <1>7 DEF IInv

\* The initial state is empty.
LEMMA InitEstablishes == Init => IInv
<1> SUFFICES ASSUME Init PROVE IInv
  OBVIOUS
<1>1. EmptyState \in HostState /\ \A o \in OpIds : ~Recorded(EmptyState, o)
  BY DEF EmptyState, HostState, Recorded
<1>2. disk = EmptyState /\ mem = EmptyState /\ h = Idle /\ ~up /\ adapter = NoBody
      /\ pending = {} /\ done = {} /\ told = {} /\ toldRev = 0 /\ EmptyState.rev = 0
  BY DEF Init, EmptyState
<1>3. TypeOK
  BY <1>1 DEF Init, TypeOK
<1>4. StoreOK(EmptyState, told, pending \cup done, done)
  BY <1>1, <1>2 DEF StoreOK, KeysUnique, RevsBounded, SuccessIn
<1>5. QED
  BY <1>1, <1>2, <1>3, <1>4
     DEF IInv, FinalIsDurable, FinalKept, Revisions, HandlerOK, DownOK, OnlyHandlerRuns,
         AdapterIsBound, Idle

LEMMA HelloKeeps ==
    ASSUME IInv, NEW src \in Sources, Hello(src)
    PROVE  IInv'
<1>1. /\ told' \in SUBSET Reports
      /\ StoreOK(disk, told', pending \cup done, done)
      /\ StoreOK(mem, told', pending \cup done, done)
      /\ toldRev' \in Nat /\ toldRev' <= mem.rev
  BY ReportKeeps DEF Hello
<1>2. QED
  BY <1>1 DEF Hello, store, session, bounds, IInv, TypeOK, Reports, FinalIsDurable, Revisions,
              HandlerOK, DownOK, OnlyHandlerRuns, AdapterIsBound

LEMMA ReadOperationsKeeps ==
    ASSUME IInv, NEW src \in Sources, ReadOperations(src)
    PROVE  IInv'
<1>1. /\ told' \in SUBSET Reports
      /\ StoreOK(disk, told', pending \cup done, done)
      /\ StoreOK(mem, told', pending \cup done, done)
      /\ toldRev' \in Nat /\ toldRev' <= mem.rev
  BY ReportKeeps DEF ReadOperations
<1>2. QED
  BY <1>1 DEF ReadOperations, store, control, session, bounds, IInv, TypeOK, Reports,
              FinalIsDurable, Revisions, HandlerOK, DownOK, OnlyHandlerRuns, AdapterIsBound

LEMMA CreateRecordKeeps ==
    ASSUME IInv, NEW r \in Request, CreateRecord(r)
    PROVE  IInv'
<1> DEFINE next == CreateOperation(mem, r)
<1>1. mem \in HostState /\ told \in SUBSET Reports /\ Existing(mem, r) = {} /\ r.id \in OpIds
  BY DEF IInv, TypeOK, Reports, CreateRecord, Request
<1>2. ~Recorded(mem, r.id)
  BY <1>1 DEF Existing
<1>3. /\ next \in HostState
      /\ next.rev = mem.rev + 1
      /\ Recorded(next, r.id)
      /\ CallOf(next.ops[r.id]) = CallOf(r)
      /\ next.ops[r.id].state = "running"
      /\ next.ops[r.id].body = r.body
      /\ \A p \in OpIds \ {r.id} : next.ops[p] = mem.ops[p]
  BY <1>1, CreateFacts
<1>4. StoreOK(next, told, pending \cup done, done)
  BY <1>1, CreateKeepsStore DEF IInv
<1>5. FinalKept(mem, next)
  BY <1>2, <1>3 DEF FinalKept
<1>6. /\ up /\ h.pc = "idle"
      /\ \/ WriteOk(next) /\ h' = At("created", r, r.id, "NONE")
         \/ WriteFails(next) /\ h' = Idle
      /\ accepted' = accepted + 1
      /\ UNCHANGED <<up, handshakes, adapter, session, reports>>
  BY DEF CreateRecord, Admit
<1> HIDE DEF next
<1>7. QED
  BY <1>1, <1>3, <1>4, <1>5, <1>6, StartKeeps

LEMMA RetryRecordKeeps ==
    ASSUME IInv, SameKeyPerId, NEW r \in Request, RetryRecord(r)
    PROVE  IInv'
<1>1. mem \in HostState /\ told \in SUBSET Reports
  BY DEF IInv, TypeOK, Reports
<1>2. PICK o \in Existing(mem, r) :
        /\ Compatible(mem, o, r)
        /\ CanRetry(mem.ops[o])
        /\ \/ WriteOk(SetState(mem, o, "running", "NONE")) /\ h' = At("created", r, o, "NONE")
           \/ WriteFails(SetState(mem, o, "running", "NONE")) /\ h' = Idle
  BY DEF RetryRecord
<1>3. o \in OpIds /\ Recorded(mem, o)
  BY DEF Existing, Matches, Request
<1>4. CallOf(mem.ops[o]) = CallOf(r) /\ mem.ops[o].body = r.body
  BY <1>2 DEF RetryRecord, Admit, Existing, Matches, Compatible, CallOf, OwnedBy
<1>5. mem.ops[o].state \notin Final
  BY <1>2 DEF CanRetry, Final
<1> DEFINE next == SetState(mem, o, "running", "NONE")
<1>6. /\ next \in HostState
      /\ next.rev = mem.rev + 1
      /\ Recorded(next, o)
      /\ CallOf(next.ops[o]) = CallOf(mem.ops[o])
      /\ next.ops[o].state = "running"
      /\ next.ops[o].body = mem.ops[o].body
      /\ \A p \in OpIds \ {o} : next.ops[p] = mem.ops[p]
  BY <1>1, <1>3, SetStateFacts DEF States, Codes
<1>7. StoreOK(next, told, pending \cup done, done)
  BY <1>1, <1>3, <1>5, SetStateKeepsStore DEF IInv, States, Codes
<1>8. FinalKept(mem, next)
  BY <1>5, <1>6 DEF FinalKept
<1>9. /\ up /\ h.pc = "idle"
      /\ accepted' = accepted + 1
      /\ UNCHANGED <<up, handshakes, adapter, session, reports>>
  BY DEF RetryRecord, Admit
<1>10. \/ WriteOk(next) /\ h' = At("created", r, o, "NONE")
       \/ WriteFails(next) /\ h' = Idle
  BY <1>2
<1> HIDE DEF next
<1>11. QED
  BY <1>3, <1>4, <1>6, <1>7, <1>8, <1>9, <1>10, StartKeeps

\* Final records survive the settling of the handler's, which is running.
LEMMA FinishKeepsFinal ==
    ASSUME IInv, h.pc # "idle", NEW state \in States, NEW code \in Codes,
           FinishOperation(state, code)
    PROVE  FinalKept(mem, mem')
<1>1. /\ h.id \in OpIds /\ Recorded(mem, h.id) /\ mem \in HostState
      /\ mem.ops[h.id].state = "running"
  BY DEF IInv, HandlerOK, TypeOK, Idle
<1>2. \A p \in OpIds \ {h.id} : SetState(mem, h.id, state, code).ops[p] = mem.ops[p]
  BY <1>1, SetStateFacts
<1>3. mem' \in {mem, SetState(mem, h.id, state, code)}
  BY DEF FinishOperation, WriteOk, WriteFails
<1>4. QED
  BY <1>1, <1>2, <1>3 DEF FinalKept, Final

\* A handler that catches an error before or while it waits for Session Control
\* keeps its operation.
LEMMA CaughtFacts ==
    ASSUME IInv, h.pc \in {"created", "calling"}, h.req.type \in ScTypes, NEW code \in Codes,
           h' = [h EXCEPT !.pc = "caught", !.code = code]
    PROVE  /\ h' \in [pc : {"calling", "called", "caught"}, req : Request, id : OpIds, code : Codes]
           /\ h'.pc = "caught" /\ h'.req = h.req /\ h'.id = h.id
<1>1. h \in [pc : {"created", "calling", "called", "caught"},
             req : Request, id : OpIds, code : Codes]
  BY DEF IInv, TypeOK, Idle
<1>2. h' = [pc |-> "caught", req |-> h.req, id |-> h.id, code |-> code]
  BY <1>1
<1>3. QED
  BY <1>1, <1>2

LEMMA AnswerFromRecordKeeps ==
    ASSUME IInv, NEW r \in Request, AnswerFromRecord(r)
    PROVE  IInv'
<1>1. PICK o \in Existing(mem, r) :
        /\ Compatible(mem, o, r)
        /\ Report(r.src, mem, {o})
        /\ adapter' = IF RestoresAdapter(mem.ops[o]) THEN r.body ELSE adapter
  BY DEF AnswerFromRecord
<1>2. o \in OpIds /\ Recorded(mem, o) /\ r.src \in Sources /\ r.body \in Bodies
  BY DEF Existing, Matches, Request
<1>3. OwnedBy(mem.ops[o], r.src) /\ mem.ops[o].body = r.body
  BY <1>1 DEF Compatible
<1>4. /\ told' \in SUBSET Reports
      /\ StoreOK(disk, told', pending \cup done, done)
      /\ StoreOK(mem, told', pending \cup done, done)
      /\ toldRev' \in Nat /\ toldRev' <= mem.rev
  <2> DEFINE os == {o}
  <2>1. os \in SUBSET OpIds /\ \A p \in os : Recorded(mem, p) /\ OwnedBy(mem.ops[p], r.src)
    BY <1>2, <1>3
  <2>2. Report(r.src, mem, os)
    BY <1>1
  <2> HIDE DEF os
  <2>3. QED
    BY <1>2, <2>1, <2>2, ReportKeeps
<1>5. UNCHANGED <<disk, mem, up, h, handshakes, pending, done, faults>> /\ up /\ accepted' \in Nat
  BY DEF AnswerFromRecord, Admit, store, session, IInv, TypeOK
<1>6. AdapterIsBound' /\ adapter' \in Bodies \cup {NoBody}
  BY <1>1, <1>2, <1>3, <1>5 DEF AdapterIsBound, RestoresAdapter, IInv, TypeOK
<1>7. TypeOK'
  BY <1>4, <1>5, <1>6 DEF IInv, TypeOK, Reports
<1>8. QED
  BY <1>4, <1>5, <1>6, <1>7
     DEF IInv, FinalIsDurable, Revisions, HandlerOK, DownOK, OnlyHandlerRuns

LEMMA RefuseUnreadyKeeps ==
    ASSUME IInv, RefuseUnready
    PROVE  IInv'
<1>1. /\ h.pc # "idle" /\ FinishOperation("needs-attention", "PRECONDITION") /\ adapter' = adapter
      /\ FinalKept(mem, mem') /\ adapter' \in Bodies \cup {NoBody}
  <2>1. h.pc # "idle" /\ FinishOperation("needs-attention", "PRECONDITION") /\ adapter' = adapter
    BY DEF RefuseUnready
  <2>2. QED
    BY <2>1, FinishKeepsFinal DEF IInv, TypeOK, States, Codes
<1>2. AdapterIsBound'
  BY <1>1, AdapterKept DEF IInv
<1>3. QED
  BY <1>1, <1>2, FinishOperationKeeps DEF States, Codes

LEMMA PrepareFailsKeeps ==
    ASSUME IInv, PrepareFails
    PROVE  IInv'
  BY QuietKeeps, CaughtFacts
     DEF PrepareFails, session, reports, bounds, IInv, TypeOK, Codes, ScTypes

LEMMA CallSessionControlKeeps ==
    ASSUME IInv, CallSessionControl
    PROVE  IInv'
<1>1. /\ h \in [pc : {"created", "calling", "called", "caught"},
                req : Request, id : OpIds, code : Codes]
      /\ h.pc # "idle" /\ h.req.type \in ScTypes /\ h' = [h EXCEPT !.pc = "calling"]
  BY DEF IInv, TypeOK, Idle, CallSessionControl
<1>2. HasRecord(disk, CallOf(h.req)) /\ HasRecord(mem, CallOf(h.req))
  BY <1>1 DEF IInv, HandlerOK, HasRecord
<1>3. CallOf(h.req) \in Call
  BY <1>1 DEF CallOf, Call, Request
<1>4. QED
  BY <1>1, <1>2, <1>3, QuietKeeps
     DEF CallSessionControl, reports, bounds, IInv, TypeOK

LEMMA SessionControlActsKeeps ==
    ASSUME IInv, NEW c \in Call, SessionControlActs(c)
    PROVE  IInv'
  BY QuietKeeps DEF SessionControlActs, control, reports, bounds, IInv, TypeOK

LEMMA SessionControlRefusesKeeps ==
    ASSUME IInv, NEW c \in Call, SessionControlRefuses(c)
    PROVE  IInv'
<1>1. /\ UNCHANGED <<store, up, handshakes, adapter, faults, told, toldRev, accepted, done>>
      /\ pending' = pending \ {c}
  BY DEF SessionControlRefuses, reports, bounds
<1>2. \/ h' = h
      \/ /\ h.pc = "calling"
         /\ h' = [h EXCEPT !.pc = "caught", !.code = "SESSION_CONTROL_REJECTED"]
  BY DEF SessionControlRefuses
<1>3. QED
  BY <1>1, <1>2, QuietKeeps, CaughtFacts DEF IInv, TypeOK, HandlerOK, Codes

LEMMA SessionControlRepliesKeeps ==
    ASSUME IInv, SessionControlReplies
    PROVE  IInv'
<1>1. /\ UNCHANGED <<store, up, handshakes, adapter, faults, told, toldRev, accepted, done, pending>>
      /\ h.pc = "calling" /\ CallOf(h.req) \in done
  BY DEF SessionControlReplies, reports, bounds, session
<1>2. CASE h' = [h EXCEPT !.pc = "called"]
  <2>1. /\ h' \in [pc : {"calling", "called", "caught"}, req : Request, id : OpIds, code : Codes]
        /\ h'.req = h.req /\ h'.id = h.id /\ h.req.type \in ScTypes
    BY <1>1, <1>2 DEF IInv, TypeOK, Idle, HandlerOK
  <2>2. QED
    BY <1>1, <2>1, QuietKeeps DEF IInv, TypeOK
<1>3. CASE \E code \in ExecutedFailCodes : h' = [h EXCEPT !.pc = "caught", !.code = code]
  BY <1>1, <1>3, QuietKeeps, CaughtFacts, FailCodesAssumption DEF IInv, TypeOK, HandlerOK, Codes
<1>4. QED
  BY <1>2, <1>3 DEF SessionControlReplies

LEMMA ReplyLostKeeps ==
    ASSUME IInv, ReplyLost
    PROVE  IInv'
  BY QuietKeeps, CaughtFacts
     DEF ReplyLost, session, reports, bounds, IInv, TypeOK, HandlerOK, Codes

LEMMA FinishScheduleKeeps ==
    ASSUME IInv, FinishSchedule
    PROVE  IInv'
<1>1. h.pc = "called" /\ FinishOperation("completed", "NONE") /\ adapter' = adapter
  BY DEF FinishSchedule
<1>2. CallOf(h.req) \in done
  BY <1>1 DEF IInv, HandlerOK
<1>3. AdapterIsBound' /\ adapter' \in Bodies \cup {NoBody}
  BY <1>1, FinishKeepsFinal, AdapterKept DEF IInv, TypeOK, States, Codes, Final
<1>4. QED
  BY <1>1, <1>2, <1>3, FinishOperationKeeps DEF States, Codes, Final

LEMMA FinishProjectKeeps ==
    ASSUME IInv, FinishProject
    PROVE  IInv'
<1>1. PICK state \in {"completed", "partial"} :
         \/ /\ WriteOk(SetState(mem, h.id, state, "NONE"))
            /\ Report(h.req.src, mem', {h.id})
            /\ h' = Idle
         \/ /\ WriteFails(SetState(mem, h.id, state, "NONE"))
            /\ h' = [h EXCEPT !.pc = "caught", !.code = "INTERNAL_ERROR"]
            /\ UNCHANGED reports
  BY DEF FinishProject
<1>2. /\ h.pc = "called" /\ h.req.type = "project.open"
      /\ UNCHANGED <<up, handshakes, adapter, session, accepted>>
  BY DEF FinishProject
<1>3. /\ CallOf(h.req) \in done /\ state \in States \ {"running"} /\ "NONE" \in Codes
      /\ h.req.type \in ScTypes
  BY <1>2 DEF IInv, HandlerOK, States, Codes, Final, ScTypes
<1>4. CASE h' = Idle /\ WriteOk(SetState(mem, h.id, state, "NONE")) /\ Report(h.req.src, mem', {h.id})
  <2>1. FinishOperation(state, "NONE") /\ adapter' = adapter
    BY <1>2, <1>4 DEF FinishOperation
  <2>2. AdapterIsBound' /\ adapter' \in Bodies \cup {NoBody}
    BY <1>2, <1>3, <2>1, FinishKeepsFinal, AdapterKept DEF IInv, TypeOK
  <2>3. QED
    BY <1>2, <1>3, <2>1, <2>2, FinishOperationKeeps
<1>5. CASE /\ WriteFails(SetState(mem, h.id, state, "NONE"))
           /\ h' = [h EXCEPT !.pc = "caught", !.code = "INTERNAL_ERROR"]
           /\ UNCHANGED reports
  <2> DEFINE next == SetState(mem, h.id, state, "NONE")
  <2>1. /\ up
        /\ h \in [pc : {"created", "calling", "called", "caught"},
                  req : Request, id : OpIds, code : Codes]
        /\ Recorded(mem, h.id) /\ mem \in HostState /\ faults \in Nat
        /\ Recorded(disk, h.id) /\ CallOf(disk.ops[h.id]) = CallOf(h.req)
        /\ CallOf(mem.ops[h.id]) = CallOf(h.req)
        /\ mem.ops[h.id].state = "running"
    BY <1>2 DEF IInv, HandlerOK, TypeOK, Idle
  <2>2. /\ next \in HostState
        /\ next.rev = mem.rev + 1
        /\ Recorded(next, h.id)
        /\ CallOf(next.ops[h.id]) = CallOf(mem.ops[h.id])
        /\ \A p \in OpIds \ {h.id} : next.ops[p] = mem.ops[p]
    BY <1>3, <2>1, SetStateFacts
  <2>3. StoreOK(next, told, pending \cup done, done)
    <3>1. told \in SUBSET Reports
      BY DEF IInv, TypeOK, Reports
    <3>2. QED
      BY <1>3, <2>1, <3>1, SetStateKeepsStore DEF IInv, Final
  <2>4. FinalKept(mem, next)
    BY <2>1, <2>2 DEF FinalKept, Final
  <2> HIDE DEF next
  <2>5. WriteFails(next)
    BY <1>5 DEF next
  <2>6. /\ disk' \in HostState /\ mem' \in HostState
        /\ disk' \in {disk, next}
        /\ StoreOK(disk', told, pending \cup done, done)
        /\ StoreOK(mem', told, pending \cup done, done)
        /\ FinalIsDurable'
        /\ mem.rev <= mem'.rev /\ mem'.rev <= disk'.rev
    BY <2>2, <2>3, <2>4, <2>5, WriteKeeps
  <2>7. mem' = mem /\ faults' = faults + 1
        /\ UNCHANGED <<up, handshakes, adapter, pending, done, told, toldRev, accepted>>
    BY <1>2, <1>5, <2>5 DEF WriteFails, session, reports
  <2>8. h' = [pc |-> "caught", req |-> h.req, id |-> h.id, code |-> "INTERNAL_ERROR"]
    BY <1>5, <2>1
  <2>9. TypeOK'
    BY <2>1, <2>6, <2>7, <2>8 DEF IInv, TypeOK, Codes
  <2>10. HandlerOK'
    BY <1>2, <1>3, <2>1, <2>2, <2>6, <2>7, <2>8 DEF IInv, HandlerOK
  <2>11. Revisions' /\ DownOK' /\ OnlyHandlerRuns' /\ AdapterIsBound'
    BY <2>1, <2>6, <2>7 DEF IInv, Revisions, DownOK, OnlyHandlerRuns, AdapterIsBound
  <2>12. QED
    BY <2>6, <2>7, <2>9, <2>10, <2>11 DEF IInv
<1>6. QED
  BY <1>1, <1>4, <1>5

LEMMA RecordErrorKeeps ==
    ASSUME IInv, RecordError
    PROVE  IInv'
<1>1. h.pc = "caught" /\ FinishOperation(OutcomeOf(h.code), h.code) /\ adapter' = adapter
  BY DEF RecordError
<1>2. OutcomeOf(h.code) \in {"needs-attention", "failed"}
  BY DEF OutcomeOf
<1>3. h.code \in Codes
  BY <1>1 DEF IInv, TypeOK, Idle
<1>4. OutcomeOf(h.code) \in States \ {"running"}
  BY <1>2 DEF States, Final
<1>5. AdapterIsBound' /\ adapter' \in Bodies \cup {NoBody}
  BY <1>1, <1>3, <1>4, FinishKeepsFinal, AdapterKept DEF IInv, TypeOK
<1>6. QED
  BY <1>1, <1>2, <1>3, <1>4, <1>5, FinishOperationKeeps

LEMMA FinishBindingKeeps ==
    ASSUME IInv, FinishBinding
    PROVE  IInv'
<1>1. /\ h.pc = "created" /\ h.req.type = "gateway.bind" /\ FinishOperation("completed", "NONE")
      /\ adapter' = IF mem' # mem THEN h.req.body ELSE adapter
  BY DEF FinishBinding
<1>2. /\ h.id \in OpIds /\ h.req \in Request /\ Recorded(mem, h.id) /\ mem \in HostState
      /\ CallOf(mem.ops[h.id]) = CallOf(h.req) /\ mem.ops[h.id].body = h.req.body
  BY <1>1 DEF IInv, HandlerOK, TypeOK, Idle
<1>3. "completed" \in States \ {"running"} /\ "NONE" \in Codes
  BY DEF States, Final, Codes
<1>4. adapter' \in Bodies \cup {NoBody}
  BY <1>1, <1>2 DEF IInv, TypeOK, Request
<1>5. AdapterIsBound'
  <2>1. CASE mem' = mem
    BY <1>1, <2>1 DEF IInv, AdapterIsBound
  <2>2. CASE mem' # mem
    <3>1. mem' = SetState(mem, h.id, "completed", "NONE")
      BY <1>1, <2>2 DEF FinishOperation, WriteOk, WriteFails
    <3>2. /\ Recorded(mem', h.id) /\ mem'.ops[h.id].type = mem.ops[h.id].type
          /\ mem'.ops[h.id].body = h.req.body /\ mem'.ops[h.id].state = "completed"
      BY <1>2, <1>3, <3>1, SetStateFacts
    <3>3. mem'.ops[h.id].type = "gateway.bind"
      BY <1>1, <1>2, <3>2 DEF CallOf
    <3>4. adapter' = h.req.body
      BY <1>1, <2>2
    <3>5. QED
      BY <1>2, <3>2, <3>3, <3>4 DEF AdapterIsBound
  <2>3. QED
    BY <2>1, <2>2
<1>6. h.req.type \notin ScTypes
  BY <1>1 DEF ScTypes
<1>7. QED
  BY <1>1, <1>3, <1>4, <1>5, <1>6, FinishOperationKeeps

LEMMA CrashKeeps ==
    ASSUME IInv, Crash
    PROVE  IInv'
<1>1. /\ up' = FALSE /\ mem' = disk /\ disk' = disk /\ h' = Idle /\ handshakes' = {}
      /\ adapter' = NoBody
      /\ UNCHANGED <<pending, done, told, toldRev, accepted, faults>>
  BY DEF Crash, session, reports, bounds
<1>2. TypeOK'
  BY <1>1 DEF IInv, TypeOK
<1>3. Revisions'
  BY <1>1 DEF IInv, Revisions, TypeOK, HostState
<1>4. QED
  BY <1>1, <1>2, <1>3
     DEF IInv, FinalIsDurable, FinalKept, HandlerOK, DownOK, OnlyHandlerRuns, AdapterIsBound, Idle

LEMMA RestartKeeps ==
    ASSUME IInv, Restart
    PROVE  IInv'
<1> DEFINE next == MarkInterrupted(disk)
<1>1. ~up /\ mem = disk /\ h = Idle /\ adapter = NoBody /\ disk \in HostState
      /\ told \in SUBSET Reports /\ faults \in Nat
  BY DEF Restart, IInv, DownOK, TypeOK, Reports
<1>2. UNCHANGED <<h, handshakes, adapter, pending, done, told, toldRev, accepted>>
  BY DEF Restart, session, reports
<1>3. /\ next \in HostState /\ next.rev \in {disk.rev, disk.rev + 1} /\ Interrupted(next) = {}
  BY <1>1, InterruptFacts
<1>4. StoreOK(next, told, pending \cup done, done)
  BY <1>1, InterruptKeepsStore DEF IInv
<1>5. /\ mem' = disk' /\ disk' \in {disk, next} /\ faults' \in Nat
      /\ \/ up' = TRUE /\ mem' = next
         \/ up' = up
  BY <1>1 DEF Restart, WriteOk
<1> HIDE DEF next
<1>6. TypeOK'
  BY <1>1, <1>2, <1>3, <1>5 DEF IInv, TypeOK
<1>7. StoreOK(disk', told', (pending \cup done)', done') /\ StoreOK(mem', told', (pending \cup done)', done')
  BY <1>2, <1>4, <1>5 DEF IInv
<1>8. Revisions'
  BY <1>1, <1>2, <1>3, <1>5 DEF IInv, Revisions, TypeOK, HostState
<1>9. FinalIsDurable' /\ HandlerOK' /\ DownOK' /\ OnlyHandlerRuns' /\ AdapterIsBound'
  BY <1>1, <1>2, <1>3, <1>5
     DEF FinalIsDurable, FinalKept, HandlerOK, DownOK, OnlyHandlerRuns, AdapterIsBound, Idle
<1>10. QED
  BY <1>5, <1>6, <1>7, <1>8, <1>9 DEF IInv

-----------------------------------------------------------------------------
(* The theorems.                                                              *)

\* Every step keeps the inductive invariant, provided that a source that repeats
\* an operation id repeats its idempotency key too.
LEMMA NextKeeps ==
    ASSUME IInv, SameKeyPerId, [Next]_vars
    PROVE  IInv'
<1>1. CASE \E r \in Request : CreateRecord(r) \/ RetryRecord(r) \/ AnswerFromRecord(r)
  BY <1>1, CreateRecordKeeps, RetryRecordKeeps, AnswerFromRecordKeeps
<1>2. CASE \E src \in Sources : Hello(src) \/ ReadOperations(src)
  BY <1>2, HelloKeeps, ReadOperationsKeeps
<1>3. CASE Handler
  BY <1>3, RefuseUnreadyKeeps, PrepareFailsKeeps, CallSessionControlKeeps, SessionControlRepliesKeeps,
     ReplyLostKeeps, FinishScheduleKeeps, FinishProjectKeeps, RecordErrorKeeps,
     FinishBindingKeeps DEF Handler
<1>4. CASE \E c \in Call : SessionControlActs(c) \/ SessionControlRefuses(c)
  BY <1>4, SessionControlActsKeeps, SessionControlRefusesKeeps
<1>5. CASE Crash \/ Restart
  BY <1>5, CrashKeeps, RestartKeeps
<1>6. CASE UNCHANGED vars
  BY <1>6 DEF vars, store, control, session, reports, bounds, IInv, TypeOK, FinalIsDurable,
              Revisions, HandlerOK, DownOK, OnlyHandlerRuns, AdapterIsBound
<1>7. QED
  BY <1>1, <1>2, <1>3, <1>4, <1>5, <1>6 DEF Next

\* IInv is an invariant of the daemon.
THEOREM Inductive ==
    ASSUME SameKeyPerId
    PROVE  Spec => []IInv
<1>1. Init => IInv
  BY InitEstablishes
<1>2. IInv /\ [Next]_vars => IInv'
  BY NextKeeps
<1>3. QED
  BY <1>1, <1>2, PTL DEF Spec

\* The variables keep their types: in particular no record ever carries a state or
\* a code the store would refuse to load.
THEOREM TypeCorrect ==
    ASSUME SameKeyPerId
    PROVE  Spec => []TypeOK
<1>1. IInv => TypeOK
  BY DEF IInv
<1>2. QED
  BY <1>1, Inductive, PTL

\* One operation per source, type and idempotency key, whatever ids retries carry and
\* wherever writes fail or the process stops.
THEOREM NoDuplicateOperation ==
    ASSUME SameKeyPerId
    PROVE  Spec => []OneOperationPerKey
<1>1. IInv => OneOperationPerKey
  BY DEF IInv, StoreOK, OneOperationPerKey
<1>2. QED
  BY <1>1, Inductive, PTL

\* A reported final state is never lost or changed, on disk or in memory.
THEOREM ReportsAreDurable ==
    ASSUME SameKeyPerId
    PROVE  Spec => []ToldIsDurable
<1>1. IInv => ToldIsDurable
  BY DEF IInv, StoreOK, Keeps, ToldIsDurable
<1>2. QED
  BY <1>1, Inductive, PTL

\* Outcomes are reported to the operation's own source only.
THEOREM ReportsAreOwned ==
    ASSUME SameKeyPerId
    PROVE  Spec => []OnlyOwnerIsTold
<1>1. IInv => OnlyOwnerIsTold
  BY DEF IInv, StoreOK, Keeps, OnlyOwnerIsTold
<1>2. QED
  BY <1>1, Inductive, PTL

\* A reported revision is never ahead of the durable one.
THEOREM RevisionsAreDurable ==
    ASSUME SameKeyPerId
    PROVE  Spec => []RevisionsNeverRegress
<1>1. IInv => RevisionsNeverRegress
  BY DEF IInv, StoreOK, Revisions, RevisionsNeverRegress
<1>2. QED
  BY <1>1, Inductive, PTL

\* Every call to Session Control, and every effect there, has a record on disk.
THEOREM CallsAreLogged ==
    ASSUME SameKeyPerId
    PROVE  Spec => []WriteAhead
<1>1. IInv => WriteAhead
  BY DEF IInv, StoreOK, WriteAhead
<1>2. QED
  BY <1>1, Inductive, PTL

\* Success is recorded only of what Session Control did.
THEOREM SuccessIsProven ==
    ASSUME SameKeyPerId
    PROVE  Spec => []SuccessMeansEffect
<1>1. IInv => SuccessMeansEffect
  BY DEF IInv, StoreOK, SuccessMeansEffect
<1>2. QED
  BY <1>1, Inductive, PTL

\* While no write fails, a serving daemon at rest has settled all its operations.
THEOREM NothingLeftRunning ==
    ASSUME SameKeyPerId
    PROVE  Spec => []IdleMeansSettled
<1>1. IInv => IdleMeansSettled
  BY DEF IInv, OnlyHandlerRuns, IdleMeansSettled
<1>2. QED
  BY <1>1, Inductive, PTL

\* The gateway adapter only ever uses a binding whose operation completed.
THEOREM AdapterUsesABinding ==
    ASSUME SameKeyPerId
    PROVE  Spec => []AdapterIsBound
<1>1. IInv => AdapterIsBound
  BY DEF IInv
<1>2. QED
  BY <1>1, Inductive, PTL

\* What connectors were told holds, whatever fails (lib/remote-host.mjs:477-490).
THEOREM ReportsAreKept ==
    ASSUME SameKeyPerId
    PROVE  Spec => []ReportsHold
<1>1. IInv => ReportsHold
  BY DEF IInv, StoreOK, Keeps, Revisions, ToldIsDurable, OnlyOwnerIsTold,
         RevisionsNeverRegress, ReportsHold
<1>2. QED
  BY <1>1, Inductive, PTL

\* The records on disk and in memory say what happened at Session Control
\* (lib/remote-host.mjs:153-373).
THEOREM RecordsAreTrue ==
    ASSUME SameKeyPerId
    PROVE  Spec => []RecordsAreHonest
<1>1. IInv => RecordsAreHonest
  BY DEF IInv, StoreOK, WriteAhead, SuccessMeansEffect, RecordsAreHonest
<1>2. QED
  BY <1>1, Inductive, PTL
-----------------------------------------------------------------------------
(* The daemon implements the ledger.                                          *)

\* What the ledger sees of a step: where a record and the effects are as they were, its
\* status and effect are.
LEMMA SameView ==
    ASSUME NEW o \in OpIds, mem'.ops[o] = mem.ops[o], done' = done
    PROVE  /\ StatusOf(o)' = StatusOf(o)
           /\ EffectOf(o)' = EffectOf(o)
  BY DEF StatusOf, EffectOf, Recorded

\* A step that leaves the records and the effects alone is a stutter of the ledger.
LEMMA QuietIsStutter ==
    ASSUME mem'.ops = mem.ops, done' = done
    PROVE  UNCHANGED Ledger!ledger
<1>1. \A o \in OpIds : StatusOf(o)' = StatusOf(o) /\ EffectOf(o)' = EffectOf(o)
  BY SameView
<1>2. QED
  BY <1>1 DEF Ledger!ledger

\* A call that has happened has its record, so that a record without it is not begun
\* with its effect already there.
LEMMA NewHasNoEffect ==
    ASSUME IInv, IInv', NEW o \in OpIds, ~Recorded(mem, o), Recorded(mem', o),
           mem'.ops[o].state = "running", \A p \in OpIds \ {o} : mem'.ops[p] = mem.ops[p],
           done' = done
    PROVE  ~EffectOf(o)'
<1>1. SUFFICES ASSUME mem'.ops[o].type \in ScTypes, CallOf(mem'.ops[o]) \in done
               PROVE  FALSE
  BY DEF EffectOf
<1>2. PICK p \in OpIds : Recorded(mem, p) /\ CallOf(mem.ops[p]) = CallOf(mem'.ops[o])
  BY <1>1 DEF IInv, StoreOK, HasRecord
<1>3. p # o /\ Recorded(mem', p) /\ CallOf(mem'.ops[p]) = CallOf(mem'.ops[o])
  BY <1>2 DEF Recorded
<1>4. QED
  BY <1>3 DEF IInv, StoreOK, KeysUnique

\* One update of the served state is a step of the ledger, whichever action makes it: an
\* operation begun, settled or reopened.
LEMMA UpdateIsLedgerStep ==
    ASSUME IInv, IInv', OneStepFrom(mem, mem'), done' = done
    PROVE  [Ledger!LedgerNext]_(Ledger!ledger)
<1>1. CASE mem'.ops = mem.ops
  BY <1>1, QuietIsStutter
<1>2. CASE mem'.ops # mem.ops
  <2>1. PICK o \in OpIds :
          /\ \A p \in OpIds \ {o} : mem'.ops[p] = mem.ops[p]
          /\ Recorded(mem', o)
          /\ IF Recorded(mem, o)
             THEN /\ CallOf(mem'.ops[o]) = CallOf(mem.ops[o])
                  /\ IF mem'.ops[o].state = "running"
                     THEN mem.ops[o].state = "needs-attention" /\ mem.ops[o].type \in ScTypes
                     ELSE /\ mem.ops[o].state = "running"
                          /\ mem.ops[o].type \in ScTypes \/ mem'.ops[o].state # "partial"
             ELSE mem'.ops[o].state = "running"
    BY <1>2 DEF OneStepFrom
  <2> DEFINE st == [p \in OpIds |-> StatusOf(p)]
             ef == [p \in OpIds |-> EffectOf(p)]
  <2>2. st' = [st EXCEPT ![o] = mem'.ops[o].state]
    <3>1. \A p \in OpIds \ {o} : StatusOf(p)' = StatusOf(p)
      BY <2>1, SameView
    <3>2. StatusOf(o)' = mem'.ops[o].state
      BY <2>1 DEF StatusOf
    <3>3. QED
      BY <3>1, <3>2
  <2>3. \A p \in OpIds \ {o} : EffectOf(p)' = EffectOf(p)
    BY <2>1, SameView
  <2>4. CASE ~Recorded(mem, o)
    <3>1. ~EffectOf(o) /\ ~EffectOf(o)'
      BY <2>1, <2>4, NewHasNoEffect DEF EffectOf
    <3>2. EffectOf(o)' = EffectOf(o)
      BY <3>1 DEF EffectOf
    <3>3. ef' = ef
      BY <2>3, <3>2
    <3>4. st[o] = "absent" /\ ~ef[o]
      BY <2>4, <3>1 DEF StatusOf
    <3>5. Ledger!Begin(o)
      BY <2>1, <2>2, <2>4, <3>3, <3>4 DEF Ledger!Begin
    <3>6. QED
      BY <3>5 DEF Ledger!LedgerNext
  <2>5. CASE Recorded(mem, o) /\ mem'.ops[o].state = "running"
    <3>1. mem'.ops[o].type = mem.ops[o].type /\ CallOf(mem'.ops[o]) = CallOf(mem.ops[o])
      BY <2>1, <2>5 DEF CallOf
    <3>2. EffectOf(o)' = EffectOf(o)
      BY <2>1, <2>5, <3>1 DEF EffectOf
    <3>3. ef' = ef
      BY <2>3, <3>2
    <3>4. st[o] = "needs-attention"
      BY <2>1, <2>5 DEF StatusOf
    <3>5. Ledger!Reopen(o)
      BY <2>2, <2>5, <3>3, <3>4 DEF Ledger!Reopen
    <3>6. QED
      BY <3>5 DEF Ledger!LedgerNext
  <2>6. CASE Recorded(mem, o) /\ mem'.ops[o].state # "running"
    <3> DEFINE s == mem'.ops[o].state
    <3>1. mem'.ops[o].type = mem.ops[o].type /\ CallOf(mem'.ops[o]) = CallOf(mem.ops[o])
          /\ mem.ops[o].state = "running"
      BY <2>1, <2>6 DEF CallOf
    <3>2. mem'.ops[o] \in Operation
      BY <2>1 DEF IInv, TypeOK, HostState, Recorded
    <3>3. s \in Ledger!Success \cup {"failed", "needs-attention"}
      BY <2>6, <3>2 DEF Operation, States, Final, Ledger!Success
    <3>4. s \in Ledger!Success => EffectOf(o)'
      <4>1. SUFFICES ASSUME s \in Ledger!Success PROVE EffectOf(o)'
        OBVIOUS
      <4>2. CASE mem.ops[o].type \in ScTypes
        BY <2>1, <3>1, <4>1, <4>2 DEF EffectOf, IInv, StoreOK, SuccessIn, Ledger!Success
      <4>3. CASE mem.ops[o].type \notin ScTypes
        BY <2>1, <2>6, <3>1, <4>1, <4>3 DEF EffectOf, Ledger!Success
      <4>4. QED
        BY <4>2, <4>3
    <3>5. EffectOf(o) => EffectOf(o)'
      BY <2>1, <3>1 DEF EffectOf
    <3>6. ef' \in {ef, [ef EXCEPT ![o] = TRUE]}
      <4>1. CASE EffectOf(o)'
        <5>1. EffectOf(o)' = TRUE
          BY <4>1 DEF EffectOf
        <5>2. ef' = [ef EXCEPT ![o] = TRUE]
          BY <2>3, <5>1
        <5>3. QED
          BY <5>2
      <4>2. CASE ~EffectOf(o)'
        <5>1. EffectOf(o)' = EffectOf(o)
          BY <3>5, <4>2 DEF EffectOf
        <5>2. ef' = ef
          BY <2>3, <5>1
        <5>3. QED
          BY <5>2
      <4>3. QED
        BY <4>1, <4>2
    <3>7. s \in Ledger!Success => ef'[o]
      BY <3>4
    <3>8. st[o] = "running"
      BY <2>6, <3>1 DEF StatusOf
    <3>9. Ledger!Settle(o, s)
      BY <2>2, <3>3, <3>6, <3>7, <3>8 DEF Ledger!Settle
    <3>10. s \in Ledger!Statuses
      BY <3>3 DEF Ledger!Statuses, Ledger!Success
    <3>11. QED
      BY <3>9, <3>10 DEF Ledger!LedgerNext
  <2>7. QED
    BY <2>4, <2>5, <2>6
<1>3. QED
  BY <1>1, <1>2

\* An effect at Session Control is the effect of the one operation recorded for its call.
LEMMA EffectIsLedgerStep ==
    ASSUME IInv, NEW c \in Call, SessionControlActs(c)
    PROVE  [Ledger!LedgerNext]_(Ledger!ledger)
<1>1. mem' = mem /\ done' = done \cup {c} /\ c \in pending
  BY DEF SessionControlActs, store
<1>2. PICK o \in OpIds : Recorded(mem, o) /\ CallOf(mem.ops[o]) = c
  BY <1>1 DEF IInv, StoreOK, HasRecord
<1> DEFINE st == [p \in OpIds |-> StatusOf(p)]
           ef == [p \in OpIds |-> EffectOf(p)]
<1>3. st' = st
  BY <1>1 DEF StatusOf, Recorded
<1>4. ASSUME NEW p \in OpIds \ {o} PROVE EffectOf(p)' = EffectOf(p)
  <2>1. Recorded(mem, p) => CallOf(mem.ops[p]) # c
    BY <1>2 DEF IInv, StoreOK, KeysUnique
  <2>2. QED
    BY <1>1, <2>1 DEF EffectOf, Recorded
<1>5. CASE mem.ops[o].type \in ScTypes
  <2>1. EffectOf(o)' = TRUE
    BY <1>1, <1>2, <1>5 DEF EffectOf, Recorded
  <2>2. ef' = [ef EXCEPT ![o] = TRUE]
    BY <1>4, <2>1
  <2>3. st[o] # "absent"
    <3>1. mem.ops[o].state \in States
      BY <1>2 DEF IInv, TypeOK, HostState, Recorded, Operation
    <3>2. QED
      BY <1>2, <3>1 DEF StatusOf, States, Final
  <2>4. Ledger!TakeEffect(o)
    BY <1>3, <2>2, <2>3 DEF Ledger!TakeEffect
  <2>5. QED
    BY <2>4 DEF Ledger!LedgerNext
<1>6. CASE mem.ops[o].type \notin ScTypes
  <2>1. EffectOf(o)' = EffectOf(o)
    BY <1>1, <1>6 DEF EffectOf, Recorded
  <2>2. ef' = ef
    BY <1>4, <2>1
  <2>3. QED
    BY <1>3, <2>2 DEF Ledger!ledger
<1>7. QED
  BY <1>5, <1>6

\* The restart's sweep is the ledger's: every running operation is interrupted, and no
\* effect is added or lost by it.
LEMMA RestartIsLedgerStep ==
    ASSUME IInv, Restart
    PROVE  [Ledger!LedgerNext]_(Ledger!ledger)
<1> DEFINE next == MarkInterrupted(mem)
           st == [p \in OpIds |-> StatusOf(p)]
           ef == [p \in OpIds |-> EffectOf(p)]
<1>1. mem = disk /\ mem \in HostState
  BY DEF Restart, IInv, DownOK, TypeOK
<1>2. mem' \in {mem, next} /\ done' = done
  BY <1>1 DEF Restart, WriteOk, session
<1>3. CASE mem' = mem
  BY <1>2, <1>3, QuietIsStutter
<1>4. CASE mem' = next
  <2>1. /\ Interrupted(next) = {} /\ next \in HostState
        /\ \A o \in OpIds :
             /\ Recorded(next, o) <=> Recorded(mem, o)
             /\ Recorded(mem, o) =>
                  /\ CallOf(next.ops[o]) = CallOf(mem.ops[o])
                  /\ next.ops[o].type = mem.ops[o].type
                  /\ next.ops[o].state # "needs-attention" => next.ops[o].state = mem.ops[o].state
             /\ Recorded(mem, o) /\ mem.ops[o].state # "running" => next.ops[o] = mem.ops[o]
    BY <1>1, InterruptFacts
  <2> HIDE DEF next
  <2>2. ASSUME NEW o \in OpIds
        PROVE  /\ StatusOf(o)' = IF StatusOf(o) = "running" THEN "needs-attention" ELSE StatusOf(o)
               /\ EffectOf(o)' = EffectOf(o)
    <3>1. CASE ~Recorded(mem, o)
      BY <1>4, <2>1, <3>1 DEF StatusOf, EffectOf
    <3>2. CASE Recorded(mem, o) /\ mem.ops[o].state # "running"
      BY <1>2, <1>4, <2>1, <3>2 DEF StatusOf, EffectOf
    <3>3. CASE Recorded(mem, o) /\ mem.ops[o].state = "running"
      <4>1. Recorded(next, o) /\ next.ops[o].state = "needs-attention"
        BY <2>1, <3>3 DEF Interrupted
      <4>2. QED
        BY <1>2, <1>4, <2>1, <3>3, <4>1 DEF StatusOf, EffectOf
    <3>4. QED
      BY <3>1, <3>2, <3>3
  <2>3. st' = [o \in OpIds |-> IF st[o] = "running" THEN "needs-attention" ELSE st[o]]
    BY <2>2
  <2>4. ef' = ef
    BY <2>2
  <2>5. Ledger!Interrupt
    BY <2>3, <2>4 DEF Ledger!Interrupt
  <2>6. QED
    BY <2>5 DEF Ledger!LedgerNext
<1>5. QED
  BY <1>2, <1>3, <1>4

\* A write that succeeds makes one update of the served state; one that fails leaves it
\* to the disk.
LEMMA WriteIsStep ==
    ASSUME DiskOneStepAhead, NEW next, OneStepFrom(mem, next),
           WriteOk(next) \/ WriteFails(next)
    PROVE  OneStepFrom(mem, mem') /\ DiskOneStepAhead'
  BY DEF DiskOneStepAhead, OneStepFrom, WriteOk, WriteFails

\* Every record the handler settles was running, and "partial" is project.open's alone.
LEMMA SettleIsStep ==
    ASSUME IInv, h.pc # "idle", NEW state \in States \ {"running"}, NEW code \in Codes,
           state = "partial" => h.req.type \in ScTypes
    PROVE  OneStepFrom(mem, SetState(mem, h.id, state, code))
<1> DEFINE next == SetState(mem, h.id, state, code)
<1>1. /\ h.id \in OpIds /\ Recorded(mem, h.id) /\ mem \in HostState
      /\ CallOf(mem.ops[h.id]) = CallOf(h.req)
      /\ mem.ops[h.id].state = "running"
  BY DEF IInv, HandlerOK, TypeOK, Idle
<1>2. /\ Recorded(next, h.id)
      /\ CallOf(next.ops[h.id]) = CallOf(mem.ops[h.id])
      /\ next.ops[h.id].state = state
      /\ \A p \in OpIds \ {h.id} : next.ops[p] = mem.ops[p]
  BY <1>1, SetStateFacts
<1>3. mem.ops[h.id].type = h.req.type
  BY <1>1 DEF CallOf
<1> HIDE DEF next
<1>4. QED
  BY <1>1, <1>2, <1>3 DEF OneStepFrom, next

LEMMA FinishIsStep ==
    ASSUME IInv, DiskOneStepAhead, h.pc # "idle", NEW state \in States \ {"running"},
           NEW code \in Codes, state = "partial" => h.req.type \in ScTypes,
           FinishOperation(state, code)
    PROVE  OneStepFrom(mem, mem') /\ DiskOneStepAhead' /\ done' = done
<1>1. OneStepFrom(mem, SetState(mem, h.id, state, code))
  BY SettleIsStep
<1>2. WriteOk(SetState(mem, h.id, state, code)) \/ WriteFails(SetState(mem, h.id, state, code))
  BY DEF FinishOperation
<1>3. QED
  BY <1>1, <1>2, WriteIsStep DEF FinishOperation, session

LEMMA RequestIsStep ==
    ASSUME IInv, DiskOneStepAhead, NEW r \in Request,
           CreateRecord(r) \/ RetryRecord(r) \/ AnswerFromRecord(r)
    PROVE  OneStepFrom(mem, mem') /\ DiskOneStepAhead' /\ done' = done
<1>1. mem \in HostState /\ r.id \in OpIds
  BY DEF IInv, TypeOK, Request
<1>2. CASE CreateRecord(r)
  <2> DEFINE next == CreateOperation(mem, r)
  <2>1. ~Recorded(mem, r.id)
    BY <1>2 DEF CreateRecord, Existing
  <2>2. /\ Recorded(next, r.id) /\ next.ops[r.id].state = "running"
        /\ \A p \in OpIds \ {r.id} : next.ops[p] = mem.ops[p]
    BY <1>1, CreateFacts
  <2>3. WriteOk(next) \/ WriteFails(next)
    BY <1>2 DEF CreateRecord
  <2> HIDE DEF next
  <2>4. OneStepFrom(mem, next)
    BY <1>1, <2>1, <2>2 DEF OneStepFrom
  <2>5. QED
    BY <1>2, <2>3, <2>4, WriteIsStep DEF CreateRecord, session
<1>3. CASE RetryRecord(r)
  <2>1. PICK o \in Existing(mem, r) :
          /\ CanRetry(mem.ops[o])
          /\ \/ WriteOk(SetState(mem, o, "running", "NONE"))
             \/ WriteFails(SetState(mem, o, "running", "NONE"))
    BY <1>3 DEF RetryRecord
  <2> DEFINE next == SetState(mem, o, "running", "NONE")
  <2>2. o \in OpIds /\ Recorded(mem, o)
    BY <1>1 DEF Existing, Matches
  <2>3. /\ Recorded(next, o) /\ next.ops[o].state = "running"
        /\ CallOf(next.ops[o]) = CallOf(mem.ops[o])
        /\ \A p \in OpIds \ {o} : next.ops[p] = mem.ops[p]
    BY <1>1, <2>2, SetStateFacts DEF States, Codes
  <2>4. WriteOk(next) \/ WriteFails(next)
    BY <2>1
  <2> HIDE DEF next
  <2>5. OneStepFrom(mem, next)
    BY <2>1, <2>2, <2>3 DEF OneStepFrom, CanRetry
  <2>6. QED
    BY <1>3, <2>4, <2>5, WriteIsStep DEF RetryRecord, session
<1>4. CASE AnswerFromRecord(r)
  BY <1>4 DEF AnswerFromRecord, store, session, DiskOneStepAhead, OneStepFrom
<1>5. QED
  BY <1>2, <1>3, <1>4

LEMMA HandlerIsStep ==
    ASSUME IInv, DiskOneStepAhead, Handler
    PROVE  OneStepFrom(mem, mem') /\ DiskOneStepAhead' /\ done' = done
<1>1. {"completed", "partial", "failed", "needs-attention"} \subseteq States \ {"running"}
      /\ {"NONE", "PRECONDITION"} \subseteq Codes
  BY DEF States, Final, Codes
<1>2. CASE RefuseUnready
  BY <1>1, <1>2, FinishIsStep DEF RefuseUnready
<1>3. CASE FinishSchedule
  BY <1>1, <1>3, FinishIsStep DEF FinishSchedule
<1>4. CASE FinishBinding
  BY <1>1, <1>4, FinishIsStep DEF FinishBinding
<1>5. CASE RecordError
  <2>1. h.code \in Codes /\ OutcomeOf(h.code) \in {"failed", "needs-attention"} /\ h.pc # "idle"
    BY <1>5 DEF RecordError, OutcomeOf, IInv, TypeOK, Idle
  <2>2. FinishOperation(OutcomeOf(h.code), h.code)
    BY <1>5 DEF RecordError
  <2>3. OutcomeOf(h.code) # "partial"
    BY <2>1
  <2> QED
    BY <1>1, <2>1, <2>2, <2>3, FinishIsStep
<1>6. CASE FinishProject
  <2>1. PICK state \in {"completed", "partial"} :
          \/ WriteOk(SetState(mem, h.id, state, "NONE"))
          \/ WriteFails(SetState(mem, h.id, state, "NONE"))
    BY <1>6 DEF FinishProject
  <2>2. h.pc # "idle" /\ h.req.type \in ScTypes /\ done' = done
    BY <1>6 DEF FinishProject, ScTypes, session
  <2>3. OneStepFrom(mem, SetState(mem, h.id, state, "NONE"))
    BY <1>1, <2>2, SettleIsStep
  <2>4. QED
    BY <2>1, <2>2, <2>3, WriteIsStep
<1>7. CASE PrepareFails \/ CallSessionControl \/ SessionControlReplies \/ ReplyLost
  <2>1. mem' = mem /\ disk' = disk /\ done' = done
    BY <1>7 DEF PrepareFails, CallSessionControl, SessionControlReplies, ReplyLost, store, session
  <2>2. QED
    BY <2>1 DEF DiskOneStepAhead, OneStepFrom
<1>8. QED
  BY <1>2, <1>3, <1>4, <1>5, <1>6, <1>7 DEF Handler

\* Every step of the daemon, its environment and its crashes is a step of the ledger or
\* none of its concern, and keeps the disk at most one update ahead.
LEMMA NextIsLedgerStep ==
    ASSUME IInv, IInv', DiskOneStepAhead, [Next]_vars
    PROVE  [Ledger!LedgerNext]_(Ledger!ledger) /\ DiskOneStepAhead'
<1>1. CASE \E r \in Request : CreateRecord(r) \/ RetryRecord(r) \/ AnswerFromRecord(r)
  BY <1>1, RequestIsStep, UpdateIsLedgerStep
<1>2. CASE \E src \in Sources : Hello(src) \/ ReadOperations(src)
  <2>1. mem' = mem /\ disk' = disk /\ done' = done
    BY <1>2 DEF Hello, ReadOperations, store, session
  <2>2. QED
    BY <2>1, QuietIsStutter DEF DiskOneStepAhead
<1>3. CASE Handler
  BY <1>3, HandlerIsStep, UpdateIsLedgerStep
<1>4. CASE \E c \in Call : SessionControlActs(c)
  BY <1>4, EffectIsLedgerStep DEF SessionControlActs, store, DiskOneStepAhead
<1>5. CASE \E c \in Call : SessionControlRefuses(c)
  <2>1. mem' = mem /\ disk' = disk /\ done' = done
    BY <1>5 DEF SessionControlRefuses, store
  <2>2. QED
    BY <2>1, QuietIsStutter DEF DiskOneStepAhead
<1>6. CASE Crash
  <2>1. mem' = disk /\ disk' = disk /\ done' = done
    BY <1>6 DEF Crash, session
  <2>2. OneStepFrom(mem, mem') /\ DiskOneStepAhead'
    BY <2>1 DEF DiskOneStepAhead, OneStepFrom
  <2>3. QED
    BY <2>1, <2>2, UpdateIsLedgerStep
<1>7. CASE Restart
  <2>1. disk' = mem'
    BY <1>7 DEF Restart, WriteOk
  <2>2. QED
    BY <1>7, <2>1, RestartIsLedgerStep DEF DiskOneStepAhead, OneStepFrom
<1>8. CASE UNCHANGED vars
  <2>1. mem' = mem /\ disk' = disk /\ done' = done
    BY <1>8 DEF vars, store, session
  <2>2. QED
    BY <2>1, QuietIsStutter DEF DiskOneStepAhead
<1>9. QED
  BY <1>1, <1>2, <1>3, <1>4, <1>5, <1>6, <1>7, <1>8 DEF Next

\* The Remote Host implements the ledger (OperationLedger): through failed writes, crashes
\* and restarts every operation a connector sees is begun once and before its effect, ends
\* in a state that stays, and is only run again when its outcome was not proven
\* (lib/remote-host.mjs:134-373, lib/state-store.mjs:65-76).
THEOREM LedgerImplemented ==
    ASSUME SameKeyPerId
    PROVE  Spec => ImplementsLedger
<1>1. Init => DiskOneStepAhead /\ Ledger!LedgerInit
  <2> SUFFICES ASSUME Init PROVE DiskOneStepAhead /\ Ledger!LedgerInit
    OBVIOUS
  <2>1. mem = disk /\ \A o \in OpIds : ~Recorded(mem, o)
    BY DEF Init, EmptyState, Recorded
  <2>2. \A o \in OpIds : StatusOf(o) = "absent" /\ EffectOf(o) = FALSE
    BY <2>1 DEF StatusOf, EffectOf
  <2>3. QED
    BY <2>1, <2>2 DEF DiskOneStepAhead, OneStepFrom, Ledger!LedgerInit
<1>2. DiskOneStepAhead /\ IInv /\ IInv' /\ [Next]_vars
        => DiskOneStepAhead' /\ [Ledger!LedgerNext]_(Ledger!ledger)
  BY NextIsLedgerStep
<1>3. QED
  BY <1>1, <1>2, Inductive, PTL DEF Spec, ImplementsLedger, Ledger!LedgerSpec

-----------------------------------------------------------------------------
(* What the ledger promises, and the Remote Host with it.                     *)

LEMMA LedgerStep ==
    Ledger!LedgerTypeOK /\ Ledger!SuccessHadEffect /\ [Ledger!LedgerNext]_(Ledger!ledger)
        => Ledger!LedgerTypeOK' /\ Ledger!SuccessHadEffect'
<1> SUFFICES ASSUME Ledger!LedgerTypeOK, Ledger!SuccessHadEffect,
                    [Ledger!LedgerNext]_(Ledger!ledger)
             PROVE  Ledger!LedgerTypeOK' /\ Ledger!SuccessHadEffect'
  OBVIOUS
<1> USE DEF Ledger!LedgerTypeOK, Ledger!SuccessHadEffect, Ledger!Statuses, Ledger!Success
<1>1. CASE UNCHANGED Ledger!ledger
  BY <1>1 DEF Ledger!ledger
<1>2. ASSUME NEW o \in OpIds, Ledger!Begin(o)
      PROVE  Ledger!LedgerTypeOK' /\ Ledger!SuccessHadEffect'
  BY <1>2 DEF Ledger!Begin
<1>3. ASSUME NEW o \in OpIds, Ledger!TakeEffect(o)
      PROVE  Ledger!LedgerTypeOK' /\ Ledger!SuccessHadEffect'
  BY <1>3 DEF Ledger!TakeEffect
<1>4. ASSUME NEW o \in OpIds, NEW s \in Ledger!Statuses, Ledger!Settle(o, s)
      PROVE  Ledger!LedgerTypeOK' /\ Ledger!SuccessHadEffect'
  BY <1>4 DEF Ledger!Settle
<1>5. ASSUME NEW o \in OpIds, Ledger!Reopen(o)
      PROVE  Ledger!LedgerTypeOK' /\ Ledger!SuccessHadEffect'
  BY <1>5 DEF Ledger!Reopen
<1>6. CASE Ledger!Interrupt
  BY <1>6 DEF Ledger!Interrupt
<1>7. QED
  BY <1>1, <1>2, <1>3, <1>4, <1>5, <1>6 DEF Ledger!LedgerNext

\* In the ledger, success has had its effect whatever is reopened and interrupted.
LEMMA LedgerKeeps ==
    Ledger!LedgerSpec => [](Ledger!LedgerTypeOK /\ Ledger!SuccessHadEffect)
<1>1. Ledger!LedgerInit => Ledger!LedgerTypeOK /\ Ledger!SuccessHadEffect
  BY DEF Ledger!LedgerInit, Ledger!LedgerTypeOK, Ledger!SuccessHadEffect, Ledger!Statuses,
         Ledger!Success
<1>2. QED
  BY <1>1, LedgerStep, PTL DEF Ledger!LedgerSpec

\* Of what a connector can see, through failed writes, crashes, restarts and late answers:
\* a success is that of an operation Session Control executed
\* (lib/remote-host.mjs:134-373).
THEOREM VisibleSuccessHadEffect ==
    ASSUME SameKeyPerId
    PROVE  Spec => []Ledger!SuccessHadEffect
BY LedgerImplemented, LedgerKeeps, PTL DEF ImplementsLedger

\* And a completed, partial or failed operation stays what it is, and what was executed
\* is not undone (lib/remote-host.mjs:134-373, lib/state-store.mjs:65-76).
THEOREM VisibleOutcomeStays ==
    ASSUME SameKeyPerId
    PROVE  Spec => Ledger!FinalStays
<1>1. Ledger!LedgerTypeOK /\ [Ledger!LedgerNext]_(Ledger!ledger) => Ledger!KeepsOutcomes
  <2> SUFFICES ASSUME Ledger!LedgerTypeOK, [Ledger!LedgerNext]_(Ledger!ledger)
               PROVE  Ledger!KeepsOutcomes
    OBVIOUS
  <2> USE DEF Ledger!KeepsOutcomes, Ledger!LedgerTypeOK, Ledger!Statuses, Ledger!Success
  <2>1. CASE UNCHANGED Ledger!ledger
    BY <2>1 DEF Ledger!ledger
  <2>2. ASSUME NEW o \in OpIds, Ledger!Begin(o) PROVE Ledger!KeepsOutcomes
    BY <2>2 DEF Ledger!Begin
  <2>3. ASSUME NEW o \in OpIds, Ledger!TakeEffect(o) PROVE Ledger!KeepsOutcomes
    BY <2>3 DEF Ledger!TakeEffect
  <2>4. ASSUME NEW o \in OpIds, NEW s \in Ledger!Statuses, Ledger!Settle(o, s) PROVE Ledger!KeepsOutcomes
    BY <2>4 DEF Ledger!Settle
  <2>5. ASSUME NEW o \in OpIds, Ledger!Reopen(o) PROVE Ledger!KeepsOutcomes
    BY <2>5 DEF Ledger!Reopen
  <2>6. CASE Ledger!Interrupt
    BY <2>6 DEF Ledger!Interrupt
  <2>7. QED
    BY <2>1, <2>2, <2>3, <2>4, <2>5, <2>6 DEF Ledger!LedgerNext
<1>2. Ledger!LedgerSpec => Ledger!FinalStays
  BY <1>1, LedgerKeeps, PTL DEF Ledger!LedgerSpec, Ledger!FinalStays
<1>3. QED
  BY <1>2, LedgerImplemented, PTL DEF ImplementsLedger
=============================================================================
