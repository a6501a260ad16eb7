----------------------------- MODULE RemoteHost -----------------------------
(***************************************************************************)
(* The Remote Host daemon (lib/remote-host.mjs) over its durable state     *)
(* store (lib/state-store.mjs): one process that serialises its requests,  *)
(* records every operation before it acts, calls the official Session      *)
(* Control service for the effect, and records the outcome.                *)
(*                                                                         *)
(* What is concurrent here: the daemon against Session Control (a call     *)
(* that timed out may still execute later), against crashes and restarts   *)
(* at every await, and against a disk whose write can fail before or after *)
(* the rename that publishes it.  Connectors are the environment: they may *)
(* send any request, repeat it, and reuse or confuse identifiers.          *)
(*                                                                         *)
(* A project.open request is taken without runtimeAuthTickets here; the    *)
(* reservation of tickets is the subject of RuntimeAuth.               *)
(***************************************************************************)
EXTENDS Naturals, FiniteSets

CONSTANTS
    Sources,            \* connector identities <sourceHostId, sourceSessionId>
    OpIds,              \* operation identifiers
    Keys,               \* idempotency keys
    Bodies,             \* values of bodySha256; for gateway.bind also the token it binds
    OpTypes,            \* the operation types this instance exercises
    ExecutedFailCodes,  \* errors raised only after Session Control has acted
    SameKeyPerId,       \* whether a source that repeats an operation id repeats its key too
    NoOp,               \* "no record under this id"
    NoBody,             \* "no gateway bound"
    MaxRequests,        \* bound: operation requests accepted in a behaviour
    MaxFaults           \* bound: store writes that fail in a behaviour

ScTypes == {"project.open", "schedule.create", "schedule.delete"}

ASSUME OpTypesAssumption == OpTypes \subseteq ScTypes \cup {"gateway.bind"}
ASSUME FailCodesAssumption ==
    ExecutedFailCodes \subseteq
        {"SESSION_CONTROL_FRAME_TOO_LARGE", "SESSION_CONTROL_TARGET_MISMATCH"}
ASSUME NoBodyAssumption == NoBody \notin Bodies
ASSUME KeyDisciplineAssumption == SameKeyPerId \in BOOLEAN
ASSUME BoundsAssumption == MaxRequests \in Nat /\ MaxFaults \in Nat

VARIABLES
    disk,       \* host-state.json: [rev, ops, gw]
    mem,        \* the store's in-memory state; equal to disk while the daemon is down
    up,         \* whether the daemon process runs
    h,          \* the handler in progress: [pc, req, id, code]
    handshakes, \* sources that said hello to this process
    adapter,    \* body of the binding the in-memory gateway adapter uses
    pending,    \* Session Control calls written to the socket, not yet acted on
    done,       \* Session Control effects
    told,       \* final states reported to connectors: [src, id, state]
    toldRev,    \* highest revision reported to a connector
    accepted,   \* counts accepted requests
    faults      \* counts failed writes

store == <<disk, mem>>
control == <<up, h, handshakes, adapter>>
session == <<pending, done>>
reports == <<told, toldRev>>
bounds == <<accepted, faults>>
vars == <<store, control, session, reports, bounds>>

-----------------------------------------------------------------------------
(* Records. *)

Final == {"completed", "partial", "failed"}
States == Final \cup {"running", "needs-attention"}

\* "UNKNOWN_TERMINAL" stands for every code the daemon takes for an unproven
\* outcome: TRANSPORT_ERROR, UNKNOWN_TERMINAL_STATE, TIMEOUT and the
\* SESSION_CONTROL_ UNAVAILABLE / FRAME_INVALID / RESPONSE_INVALID / RESULT_INVALID.
Codes == {"NONE", "UNKNOWN_TERMINAL", "HOST_RESTART_INTERRUPTED", "PRECONDITION",
          "SESSION_CONTROL_REJECTED", "SESSION_CONTROL_FRAME_TOO_LARGE",
          "SESSION_CONTROL_TARGET_MISMATCH", "INTERNAL_ERROR"}

Request == [type : OpTypes, id : OpIds, key : Keys, src : Sources, body : Bodies,
            ready : BOOLEAN]    \* ready: sync receipts completed and runtimes satisfied

Operation == [type : OpTypes, key : Keys, src : Sources, body : Bodies,
              state : States, code : Codes, rev : Nat]

HostState == [rev : Nat, ops : [OpIds -> Operation \cup {NoOp}], gw : Bodies \cup {NoBody}]

Call == [type : OpTypes, src : Sources, key : Keys]

ASSUME NoOpAssumption == NoOp \notin Operation

Recorded(s, o) == s.ops[o] # NoOp
CallOf(r) == [type |-> r.type, src |-> r.src, key |-> r.key]

EmptyState == [rev |-> 0, ops |-> [o \in OpIds |-> NoOp], gw |-> NoBody]

-----------------------------------------------------------------------------
(* What a store update makes of the state it is given. *)

\* The record of request or record x in a new state.
RecordAt(x, state, code, rev) ==
    [type |-> x.type, key |-> x.key, src |-> x.src, body |-> x.body,
     state |-> state, code |-> code, rev |-> rev]

CreateOperation(s, r) ==
    [rev |-> s.rev + 1,
     ops |-> [s.ops EXCEPT ![r.id] = RecordAt(r, "running", "NONE", s.rev + 1)],
     gw  |-> IF r.type = "gateway.bind" THEN r.body ELSE s.gw]

SetState(s, o, state, code) ==
    [rev |-> s.rev + 1,
     ops |-> [s.ops EXCEPT ![o] = RecordAt(s.ops[o], state, code, s.rev + 1)],
     gw  |-> s.gw]

Interrupted(s) == {o \in OpIds : Recorded(s, o) /\ s.ops[o].state = "running"}

MarkInterruptedForgetful(s) ==      \* mutant: interrupted records are dropped
    [rev |-> s.rev + 1, gw |-> s.gw,
     ops |-> [o \in OpIds |-> IF o \in Interrupted(s) THEN NoOp ELSE s.ops[o]]]
MarkInterruptedNothing(s) == s      \* mutant: a restart leaves running records alone

MarkInterrupted(s) ==
    IF Interrupted(s) = {} THEN s
    ELSE [rev |-> s.rev + 1,
          ops |-> [o \in OpIds |->
                     IF o \in Interrupted(s)
                     THEN RecordAt(s.ops[o], "needs-attention", "HOST_RESTART_INTERRUPTED",
                                   s.rev + 1)
                     ELSE s.ops[o]],
          gw  |-> s.gw]

\* JsonStateStore.update: the new state is published by a rename and then kept in
\* memory.  A failed update leaves memory alone; the disk holds the old state when
\* the failure came before the rename and the new one when it came after
\* (the fsync of the directory).
WriteOk(next) == disk' = next /\ mem' = next /\ UNCHANGED faults
WriteFailsEager(next) ==    \* mutant: memory is replaced before the write
    /\ faults < MaxFaults
    /\ faults' = faults + 1
    /\ disk' \in {disk, next}
    /\ mem' = next

WriteFails(next) ==
    /\ faults < MaxFaults
    /\ faults' = faults + 1
    /\ disk' \in {disk, next}
    /\ UNCHANGED mem

-----------------------------------------------------------------------------
(* Looking up an earlier operation. *)

OwnedBy(op, src) == op.src = src

Matches(s, o, r) ==
    /\ Recorded(s, o)
    /\ OwnedBy(s.ops[o], r.src)
    /\ s.ops[o].key = r.key
    /\ s.ops[o].type = r.type

ExistingById(s, r) ==       \* mutant: the idempotency key is not looked up
    IF Recorded(s, r.id) THEN {r.id} ELSE {}

\* The record a request falls on: the one with its id, else one with its key.
Existing(s, r) ==
    IF Recorded(s, r.id) THEN {r.id} ELSE {o \in OpIds : Matches(s, o, r)}

\* An id of another source, or a key bound to another body, is refused.
Compatible(s, o, r) ==
    /\ OwnedBy(s.ops[o], r.src)
    /\ s.ops[o].body = r.body
    /\ s.ops[o].type = r.type

CanRetryFailed(op) ==       \* mutant: also what failed is run again
    op.type \in ScTypes /\ op.state \in {"needs-attention", "failed"}

CanRetry(op) ==
    /\ op.type \in ScTypes
    /\ op.state = "needs-attention"
    /\ op.code \in {"UNKNOWN_TERMINAL", "HOST_RESTART_INTERRUPTED"}

RestoresAdapterAlways(op) == op.type = "gateway.bind"      \* mutant: in any state

RestoresAdapter(op) == op.type = "gateway.bind" /\ op.state = "completed"

\* The state an error leads to: the daemon's list of unproven outcomes.
OutcomeUnlisted(code) ==    \* mutant: a sync status recorded as an operation state
    IF code = "UNKNOWN_TERMINAL" THEN "persistence-unknown" ELSE "failed"

OutcomeOf(code) == IF code = "UNKNOWN_TERMINAL" THEN "needs-attention" ELSE "failed"

-----------------------------------------------------------------------------
(* Handlers.  Each store update, and each wait for Session Control, is a step. *)

Idle == [pc |-> "idle", req |-> NoOp, id |-> NoOp, code |-> "NONE"]
At(pc, r, o, code) == [pc |-> pc, req |-> r, id |-> o, code |-> code]

Report(src, s, os) ==
    /\ told' = told \cup {[src |-> src, id |-> o, state |-> s.ops[o].state] :
                            o \in {x \in os : s.ops[x].state \in Final}}
    /\ toldRev' = IF s.rev > toldRev THEN s.rev ELSE toldRev

\* The shipped Connector draws a fresh operation id for every call, so that an id
\* never comes with a second key; the daemon itself does not look at the key then.
Admit(r) ==
    /\ up
    /\ h.pc = "idle"
    /\ r.src \in handshakes
    /\ SameKeyPerId /\ Recorded(mem, r.id) /\ OwnedBy(mem.ops[r.id], r.src)
         => mem.ops[r.id].key = r.key
    /\ accepted < MaxRequests
    /\ accepted' = accepted + 1

Hello(src) ==
    /\ up
    /\ h.pc = "idle"
    /\ handshakes' = handshakes \cup {src}
    /\ Report(src, mem, {})
    /\ UNCHANGED <<store, up, h, adapter, session, bounds>>

\* operation.get, operation.list and state.reconcile: the source's own records.
ReadOperations(src) ==
    /\ up
    /\ h.pc = "idle"
    /\ src \in handshakes
    /\ Report(src, mem, {o \in OpIds : Recorded(mem, o) /\ OwnedBy(mem.ops[o], src)})
    /\ UNCHANGED <<store, control, session, bounds>>

\* A request seen for the first time: record it, then act on it.
CreateRecord(r) ==
    /\ Admit(r)
    /\ Existing(mem, r) = {}
    /\ \/ WriteOk(CreateOperation(mem, r)) /\ h' = At("created", r, r.id, "NONE")
       \/ WriteFails(CreateOperation(mem, r)) /\ h' = Idle
    /\ UNCHANGED <<up, handshakes, adapter, session, reports>>

\* A request whose operation ended with an unproven outcome: run it again, under
\* the operation id of the first attempt.
RetryRecord(r) ==
    /\ Admit(r)
    /\ \E o \in Existing(mem, r) :
         /\ Compatible(mem, o, r)
         /\ CanRetry(mem.ops[o])
         /\ \/ WriteOk(SetState(mem, o, "running", "NONE")) /\ h' = At("created", r, o, "NONE")
            \/ WriteFails(SetState(mem, o, "running", "NONE")) /\ h' = Idle
    /\ UNCHANGED <<up, handshakes, adapter, session, reports>>

\* Any other repeated request: answer with the record as it is.  A completed
\* gateway.bind also restores the in-memory adapter.
AnswerFromRecord(r) ==
    /\ Admit(r)
    /\ \E o \in Existing(mem, r) :
         /\ Compatible(mem, o, r)
         /\ ~CanRetry(mem.ops[o])
         /\ Report(r.src, mem, {o})
         /\ adapter' = IF RestoresAdapter(mem.ops[o]) THEN r.body ELSE adapter
    /\ UNCHANGED <<store, up, h, handshakes, session, faults>>

\* finishOperation: a write whose failure escapes the handler, so that the record
\* keeps its earlier state.
FinishOperation(state, code) ==
    /\ \/ /\ WriteOk(SetState(mem, h.id, state, code))
          /\ Report(h.req.src, mem', {h.id})
       \/ WriteFails(SetState(mem, h.id, state, code)) /\ UNCHANGED reports
    /\ h' = Idle
    /\ UNCHANGED <<up, handshakes, session, accepted>>

\* project.open whose receipts or runtimes do not satisfy its desired state.
RefuseUnready ==
    /\ up
    /\ h.pc = "created"
    /\ h.req.type = "project.open"
    /\ ~h.req.ready
    /\ FinishOperation("needs-attention", "PRECONDITION")
    /\ UNCHANGED adapter

\* project.open whose preparation throws (the runtime manager, the reservation of
\* tickets): nothing was asked of Session Control.
PrepareFails ==
    /\ up
    /\ h.pc = "created"
    /\ h.req.type = "project.open"
    /\ h.req.ready
    /\ h' = [h EXCEPT !.pc = "caught", !.code = "INTERNAL_ERROR"]
    /\ UNCHANGED <<store, up, handshakes, adapter, session, reports, bounds>>

CallSessionControl ==
    /\ up
    /\ h.pc = "created"
    /\ h.req.type \in ScTypes
    /\ h.req.type = "project.open" => h.req.ready
    /\ h' = [h EXCEPT !.pc = "calling"]
    /\ pending' = pending \cup {CallOf(h.req)}
    /\ UNCHANGED <<store, up, handshakes, adapter, done, reports, bounds>>

\* The calls Session Control deduplicates: by source, type and idempotency key.
SessionControlActs(c) ==
    /\ c \in pending
    /\ pending' = pending \ {c}
    /\ done' = done \cup {c}
    /\ UNCHANGED <<store, control, reports, bounds>>

SessionControlRefuses(c) ==
    /\ c \in pending
    /\ c \notin done
    /\ pending' = pending \ {c}
    /\ h' = IF up /\ h.pc = "calling" /\ CallOf(h.req) = c
            THEN [h EXCEPT !.pc = "caught", !.code = "SESSION_CONTROL_REJECTED"]
            ELSE h
    /\ UNCHANGED <<store, up, handshakes, adapter, done, reports, bounds>>

SessionControlReplies ==
    /\ up
    /\ h.pc = "calling"
    /\ CallOf(h.req) \in done \ pending
    /\ \/ h' = [h EXCEPT !.pc = "called"]
       \/ \E code \in ExecutedFailCodes : h' = [h EXCEPT !.pc = "caught", !.code = code]
    /\ UNCHANGED <<store, up, handshakes, adapter, session, reports, bounds>>

\* The socket closes, times out or delivers an unreadable answer, whatever
\* Session Control did or will still do with the call.
ReplyLost ==
    /\ up
    /\ h.pc = "calling"
    /\ h' = [h EXCEPT !.pc = "caught", !.code = "UNKNOWN_TERMINAL"]
    /\ UNCHANGED <<store, up, handshakes, adapter, session, reports, bounds>>

\* schedule.create and schedule.delete finish outside their own catch.
FinishSchedule ==
    /\ up
    /\ h.pc = "called"
    /\ h.req.type # "project.open"
    /\ FinishOperation("completed", "NONE")
    /\ UNCHANGED adapter

\* project.open finishes inside its catch: a failed write is an error like another.
FinishProject ==
    /\ up
    /\ h.pc = "called"
    /\ h.req.type = "project.open"
    /\ \E state \in {"completed", "partial"} :
         \/ /\ WriteOk(SetState(mem, h.id, state, "NONE"))
            /\ Report(h.req.src, mem', {h.id})
            /\ h' = Idle
         \/ /\ WriteFails(SetState(mem, h.id, state, "NONE"))
            /\ h' = [h EXCEPT !.pc = "caught", !.code = "INTERNAL_ERROR"]
            /\ UNCHANGED reports
    /\ UNCHANGED <<up, handshakes, adapter, session, accepted>>

RecordError ==
    /\ up
    /\ h.pc = "caught"
    /\ FinishOperation(OutcomeOf(h.code), h.code)
    /\ UNCHANGED adapter

\* gateway.bind: the second of its two updates, then the in-memory adapter.
FinishBinding ==
    /\ up
    /\ h.pc = "created"
    /\ h.req.type = "gateway.bind"
    /\ FinishOperation("completed", "NONE")
    /\ adapter' = IF mem' # mem THEN h.req.body ELSE adapter

-----------------------------------------------------------------------------
(* The process. *)

Crash ==
    /\ up
    /\ up' = FALSE
    /\ mem' = disk
    /\ h' = Idle
    /\ handshakes' = {}
    /\ adapter' = NoBody
    /\ UNCHANGED <<disk, session, reports, bounds>>

\* RemoteHostDaemon.create: load, settle what the last process left running, serve.
Restart ==
    /\ ~up
    /\ \/ WriteOk(MarkInterrupted(disk)) /\ up' = TRUE
       \/ /\ faults < MaxFaults
          /\ faults' = faults + 1
          /\ disk' \in {disk, MarkInterrupted(disk)}
          /\ mem' = disk'
          /\ UNCHANGED up
    /\ UNCHANGED <<h, handshakes, adapter, session, reports, accepted>>

Init ==
    /\ disk = EmptyState
    /\ mem = EmptyState
    /\ up = FALSE
    /\ h = Idle
    /\ handshakes = {}
    /\ adapter = NoBody
    /\ pending = {}
    /\ done = {}
    /\ told = {}
    /\ toldRev = 0
    /\ accepted = 0
    /\ faults = 0

Handler ==
    \/ RefuseUnready
    \/ PrepareFails
    \/ CallSessionControl
    \/ SessionControlReplies
    \/ ReplyLost
    \/ FinishSchedule
    \/ FinishProject
    \/ RecordError
    \/ FinishBinding

Next ==
    \/ \E r \in Request : CreateRecord(r) \/ RetryRecord(r) \/ AnswerFromRecord(r)
    \/ \E src \in Sources : Hello(src) \/ ReadOperations(src)
    \/ Handler
    \/ \E c \in Call : SessionControlActs(c) \/ SessionControlRefuses(c)
    \/ Crash
    \/ Restart

Spec == Init /\ [][Next]_vars

\* A started handler runs on (every wait it has ends in a reply, an error or the
\* port's timeout) and a stopped daemon is started again by the next bridge.
Fairness == WF_vars(Handler) /\ WF_vars(Restart)
FairSpec == Spec /\ Fairness

-----------------------------------------------------------------------------
(* Properties. *)

TypeOK ==
    /\ disk \in HostState
    /\ mem \in HostState
    /\ up \in BOOLEAN
    /\ h = Idle \/ h \in [pc : {"created", "calling", "called", "caught"},
                          req : Request, id : OpIds, code : Codes]
    /\ handshakes \subseteq Sources
    /\ adapter \in Bodies \cup {NoBody}
    /\ pending \subseteq Call
    /\ done \subseteq Call
    /\ told \subseteq [src : Sources, id : OpIds, state : Final]
    /\ toldRev \in Nat
    /\ accepted \in Nat
    /\ faults \in Nat

-----------------------------------------------------------------------------
(* What a state of the store must satisfy: the parts of the invariants that     *)
(* speak of one state, so that they can be said of memory and of disk alike.    *)

KeysUnique(s) ==
    \A o, p \in OpIds :
        Recorded(s, o) /\ Recorded(s, p) /\ CallOf(s.ops[o]) = CallOf(s.ops[p]) => o = p

RevsBounded(s) == \A o \in OpIds : Recorded(s, o) => s.ops[o].rev <= s.rev

HasRecord(s, c) == \E o \in OpIds : Recorded(s, o) /\ CallOf(s.ops[o]) = c

SuccessIn(s, effects) ==
    \A o \in OpIds :
        /\ Recorded(s, o)
        /\ s.ops[o].type \in ScTypes
        /\ s.ops[o].state \in {"completed", "partial"}
        => CallOf(s.ops[o]) \in effects

\* A source's idempotency key names one operation of a type, in memory and on
\* disk: whatever ids its retries carry, the operation is never recorded twice.
OneOperationPerKey == KeysUnique(disk) /\ KeysUnique(mem)

\* What a connector was told is final stays so, through failed writes, crashes
\* and restarts: both the serving state and the one a restart would load agree.
ToldIsDurable ==
    \A t \in told : \A s \in {disk, mem} :
        Recorded(s, t.id) /\ s.ops[t.id].state = t.state

\* A connector only hears the outcome of its own operations, even when it sends
\* the operation id or the key of another source.
OnlyOwnerIsTold ==
    \A t \in told : Recorded(mem, t.id) /\ OwnedBy(mem.ops[t.id], t.src)

\* The revision a connector has seen never exceeds the durable one, so that a
\* restart cannot serve an older revision under the same incarnation.
RevisionsNeverRegress ==
    /\ toldRev <= mem.rev
    /\ mem.rev <= disk.rev
    /\ RevsBounded(disk)

\* Whatever fails, crashes and restarts, what connectors were told holds: outcomes are
\* final and their own, revisions are durable (lib/remote-host.mjs:477-490,
\* lib/state-store.mjs:65-76).
ReportsHold == ToldIsDurable /\ OnlyOwnerIsTold /\ RevisionsNeverRegress

\* Nothing is asked of Session Control, and nothing happens there, without a
\* record on disk that a restart will find and settle.
WriteAhead == \A c \in pending \cup done : HasRecord(disk, c)

\* The daemon records success only of what Session Control did.
SuccessMeansEffect == SuccessIn(disk, done) /\ SuccessIn(mem, done)

\* The records say what happened at Session Control: all that was asked of it, before it
\* was asked, and success only of what it did (lib/remote-host.mjs:153-373).
RecordsAreHonest == WriteAhead /\ SuccessMeansEffect

\* A serving daemon at rest has no operation running, unless the write that
\* should have settled it failed: no request is answered "running" for ever.
IdleMeansSettled ==
    up /\ h.pc = "idle" /\ faults = 0 => Interrupted(mem) = {}

\* The in-memory gateway adapter uses a binding whose operation completed.
AdapterIsBound ==
    adapter # NoBody =>
        \E o \in OpIds :
            /\ Recorded(mem, o)
            /\ mem.ops[o].type = "gateway.bind"
            /\ mem.ops[o].state = "completed"
            /\ mem.ops[o].body = adapter

\* Every operation recorded as running is settled in the end, whatever crashes
\* come between: by its handler, or as interrupted by the restart.  Only a write
\* that fails may leave it running (until a restart).
RunningSettles ==
    \A o \in OpIds :
        (Recorded(mem, o) /\ mem.ops[o].state = "running")
            ~> \/ up /\ Recorded(mem, o) /\ mem.ops[o].state # "running"
               \/ faults > 0

\* The code's own outcome list against the contract: an operation Session Control
\* carried out is never recorded as failed.
ExecutedIsNeverFailed ==
    \A o \in OpIds :
        Recorded(mem, o) /\ mem.ops[o].state = "failed" => CallOf(mem.ops[o]) \notin done

\* The README's replay rule: an operation Session Control carried out, whose
\* record needs attention, can be replayed by its source.
ExecutedStaysReplayable ==
    \A o \in OpIds :
        /\ Recorded(mem, o)
        /\ mem.ops[o].state = "needs-attention"
        /\ CallOf(mem.ops[o]) \in done
        => CanRetry(mem.ops[o])

-----------------------------------------------------------------------------
(* The daemon implements the ledger: a connector sees the serving state, and   *)
(* while the daemon is down the one on disk, which mem then equals.            *)

StatusOf(o) == IF Recorded(mem, o) THEN mem.ops[o].state ELSE "absent"
EffectOf(o) ==
    /\ Recorded(mem, o)
    /\ IF mem.ops[o].type \in ScTypes
       THEN CallOf(mem.ops[o]) \in done
       ELSE mem.ops[o].state = "completed"

Ledger == INSTANCE OperationLedger
            WITH status <- [o \in OpIds |-> StatusOf(o)],
                 effect <- [o \in OpIds |-> EffectOf(o)]

ImplementsLedger == Ledger!LedgerSpec
=============================================================================
