----------------------------- MODULE RuntimeAuth -----------------------------
(***************************************************************************)
(* The tickets that let a project use an external runtime: issued by the   *)
(* Remote Host daemon after Session Control has confirmed a challenge      *)
(* (lib/remote-host.mjs, runtimeAuthBegin and runtimeAuthConfirm), bound   *)
(* to one project.open operation (openProject), staged, committed to the   *)
(* Session that Session Control opened, and restored after a restart by    *)
(* the runtime manager (lib/runtime-manager.mjs).                          *)
(*                                                                         *)
(* The daemon serves one request at a time.  Time (a ticket's deadline and *)
(* the end of a lease), crashes, failing writes and Session Control come   *)
(* between any two of its steps.  What a request is looked up by, and the  *)
(* receipts it carries, are the subject of RemoteHost: an operation has    *)
(* one request here, which may be repeated.                                *)
(***************************************************************************)
EXTENDS Naturals, FiniteSets

CONSTANTS
    Ops,            \* project.open operations
    Sources,        \* connector identities; a source session belongs to one source host
    Runtimes,       \* the runtimes every project of the instance requires
    Tickets,        \* challenge and ticket identifiers, drawn at random by the daemon
    Sessions,       \* Sessions of Session Control
    None,
    MaxRequests,    \* bound: project.open requests
    MaxFaults       \* bound: store writes that fail

ASSUME NoneAssumption == None \notin Ops \cup Tickets \cup Sessions
ASSUME BoundsAssumption == MaxRequests \in Nat /\ MaxFaults \in Nat

VARIABLES
    disk, mem,      \* the state file and the store in memory: [ops, rows]
    up,
    h,              \* the project.open in progress: [pc, op, code]
    tickets,        \* runtimeAuthChallenges and runtimeAuthTickets
    pending,        \* pendingAuthConfirmations, by operation and runtime
    commits,        \* authReservationCommits, by operation and runtime
    leases,         \* authLeases
    calls,          \* calls written to Session Control and not acted on
    asked,          \* history: operations ever asked of Session Control
    effect,         \* the Session that Session Control opened for an operation
    issued,         \* history: what each ticket ever drawn was issued for
    late,           \* tickets past their deadline, of those in memory or reserved
    over,           \* tickets whose lease has run out
    requests, faults

store == <<disk, mem>>
manager == <<pending, commits, leases>>
session == <<calls, asked, effect>>
time == <<late, over>>
bounds == <<requests, faults>>
vars == <<store, up, h, tickets, manager, session, issued, time, bounds>>

-----------------------------------------------------------------------------
(* Records. *)

Request == [src : Sources, target : Sessions \cup {None},
            tickets : [Runtimes -> Tickets \cup {None}]]

\* UNKNOWN stands for the codes of an unproven outcome, RESERVATION for those of
\* commitAuthReservation, PRECONDITION for the refusals before Session Control.
Codes == {"NONE", "UNKNOWN", "HOST_RESTART_INTERRUPTED", "PRECONDITION", "RESERVATION",
          "SESSION_CONTROL_REJECTED", "INTERNAL_ERROR"}

Operation == [req : Request, state : {"running", "completed", "failed", "needs-attention"},
              code : Codes]

\* A durable reservation, state.authReservations.
Row == [op : Ops, rt : Runtimes, src : Sources, target : Sessions \cup {None},
        status : {"reserved", "committed", "consumed"}, attempted : BOOLEAN]

HostState == [ops : [Ops -> Operation \cup {None}], rows : [Tickets -> Row \cup {None}]]

Ticket == [rt : Runtimes, src : Sources, target : Sessions \cup {None},
           status : {"challenged", "issued", "reserved", "committed"},
           op : Ops \cup {None}, attempted : BOOLEAN]

Issue == [rt : Runtimes, src : Sources, target : Sessions \cup {None}]
Pending == [ticket : Tickets, target : Sessions \cup {None}, recoverable : BOOLEAN]
Committed == [ticket : Tickets, session : Sessions]
LeaseKey == [rt : Runtimes, src : Sources, session : Sessions]
Lease == [ticket : Tickets, op : Ops]

ASSUME NoneIsNoRecord ==
    None \notin Operation \cup Row \cup Ticket \cup Issue \cup Pending \cup Committed \cup Lease

EmptyState == [ops |-> [o \in Ops |-> None], rows |-> [t \in Tickets |-> None]]
NoTickets == [t \in Tickets |-> None]
PerReservation == [o \in Ops |-> [r \in Runtimes |-> None]]
NoLeases == [k \in LeaseKey |-> None]

Idle == [pc |-> "idle", op |-> None, code |-> "NONE"]
At(pc) == [h EXCEPT !.pc = pc]
Caught(code) == [h EXCEPT !.pc = "caught", !.code = code]

Recorded(s, o) == s.ops[o] # None
TicketOf(s, o, r) == s.ops[o].req.tickets[r]

\* The runtimes for which the operation brought a ticket.
Reserving(s, o) == {r \in Runtimes : TicketOf(s, o, r) # None}
TicketsOf(s, o) == {TicketOf(s, o, r) : r \in Reserving(s, o)}

CanRetry(op) ==
    /\ op.state = "needs-attention"
    /\ op.code \in {"UNKNOWN", "HOST_RESTART_INTERRUPTED"}

-----------------------------------------------------------------------------
(* What a store update makes of the state it is given. *)

SetState(s, o, state, code) ==
    [s EXCEPT !.ops[o].state = state, !.ops[o].code = code]

CreateOperation(s, o, r) ==
    [s EXCEPT !.ops[o] = [req |-> r, state |-> "running", code |-> "NONE"]]

RowFor(s, o, t) ==
    [op |-> o, rt |-> tickets[t].rt, src |-> s.ops[o].req.src, target |-> tickets[t].target,
     status |-> IF tickets[t].status = "committed" THEN "committed" ELSE "reserved",
     attempted |-> tickets[t].attempted]

\* The rows of the operation's tickets are replaced by those of rows.
WithRows(s, o, rows) ==
    [s EXCEPT !.rows = [t \in Tickets |-> IF t \in TicketsOf(s, o) THEN rows[t] ELSE @[t]]]

ReserveRows(s, o) == WithRows(s, o, [t \in Tickets |-> RowFor(s, o, t)])

AttemptRowsNever(s, o) == s     \* mutant: the attempt is not written ahead

AttemptRows(s, o) == WithRows(s, o, [t \in Tickets |-> [s.rows[t] EXCEPT !.attempted = TRUE]])

CommitRows(s, o) ==
    WithRows(s, o, [t \in Tickets |->
        [s.rows[t] EXCEPT !.status = "committed", !.target = tickets[t].target]])

ConsumeRows(s, o) ==
    SetState(WithRows(s, o, [t \in Tickets |-> [s.rows[t] EXCEPT !.status = "consumed"]]),
             o, "completed", "NONE")

\* RemoteHostDaemon.create: what a former process left running is interrupted.
MarkInterrupted(s) ==
    [s EXCEPT !.ops = [o \in Ops |->
        IF Recorded(s, o) /\ s.ops[o].state = "running"
        THEN [s.ops[o] EXCEPT !.state = "needs-attention", !.code = "HOST_RESTART_INTERRUPTED"]
        ELSE s.ops[o]]]

\* As in RemoteHost: a failed write leaves memory alone, and the disk in the old
\* state or in the new one.
WriteOk(next) == disk' = next /\ mem' = next /\ UNCHANGED faults
WriteFails(next) ==
    /\ faults < MaxFaults
    /\ faults' = faults + 1
    /\ disk' \in {disk, next}
    /\ UNCHANGED mem

-----------------------------------------------------------------------------
(* Challenges. *)

\* Session Control registers the challenge.  A challenge is a ticket to be.
Begin(t, r, src, target) ==
    /\ up /\ h.pc = "idle"
    /\ issued[t] = None
    /\ issued' = [issued EXCEPT ![t] = [rt |-> r, src |-> src, target |-> target]]
    /\ tickets' = [tickets EXCEPT ![t] =
           [rt |-> r, src |-> src, target |-> target, status |-> "challenged",
            op |-> None, attempted |-> FALSE]]
    /\ UNCHANGED <<store, up, h, manager, session, time, bounds>>

\* Session Control approved the challenge: it becomes a ticket.
Confirm(t) ==
    /\ up /\ h.pc = "idle"
    /\ tickets[t] # None
    /\ tickets[t].status = "challenged"
    /\ tickets' = [tickets EXCEPT ![t].status = "issued"]
    /\ UNCHANGED <<store, up, h, manager, session, issued, time, bounds>>

-----------------------------------------------------------------------------
(* project.open. *)

\* A request names no ticket before it is drawn.  (Nor one twice: a ticket is for one
\* runtime, the other is refused as for any ticket of another runtime.)
Open(o, r) ==
    /\ up /\ h.pc = "idle"
    /\ \A x \in Runtimes : r.tickets[x] # None => issued[r.tickets[x]] # None
    /\ \A x, y \in Runtimes : r.tickets[x] # None /\ x # y => r.tickets[x] # r.tickets[y]
    /\ requests < MaxRequests /\ requests' = requests + 1
    /\ ~Recorded(mem, o)
    /\ \/ WriteOk(CreateOperation(mem, o, r)) /\ h' = [pc |-> "created", op |-> o, code |-> "NONE"]
       \/ WriteFails(CreateOperation(mem, o, r)) /\ UNCHANGED h
    /\ UNCHANGED <<up, tickets, manager, session, issued, time>>

Retry(o) ==
    /\ up /\ h.pc = "idle"
    /\ requests < MaxRequests /\ requests' = requests + 1
    /\ Recorded(mem, o) /\ CanRetry(mem.ops[o])
    /\ \/ /\ WriteOk(SetState(mem, o, "running", "NONE"))
          /\ h' = [pc |-> "created", op |-> o, code |-> "NONE"]
       \/ WriteFails(SetState(mem, o, "running", "NONE")) /\ UNCHANGED h
    /\ UNCHANGED <<up, tickets, manager, session, issued, time>>

\* The receipts of the request do not satisfy the desired state.
Unready ==
    /\ up /\ h.pc = "created"
    /\ h' = At("refused")
    /\ UNCHANGED <<store, up, tickets, manager, session, issued, time, bounds>>

\* A ticket past its deadline still serves the operation that went to Session
\* Control under it.
Recoverable(t, o) == tickets[t].op = o /\ tickets[t].attempted

OtherOperationNever(owner, o) == FALSE      \* mutant: a ticket is good for two operations

\* What is bound to owner may not be used by o.
OtherOperation(owner, o) == owner \notin {None, o}

Usable(t, r, o) ==
    /\ tickets[t] # None
    /\ tickets[t].status # "challenged"
    /\ tickets[t].rt = r
    /\ tickets[t].src = mem.ops[o].req.src
    /\ tickets[t].target = None \/ mem.ops[o].req.target = None
         \/ tickets[t].target = mem.ops[o].req.target
    /\ ~OtherOperation(tickets[t].op, o)
    /\ t \notin late \/ Recoverable(t, o)

Bound(T, o) ==
    [t \in Tickets |->
        IF t \in T
        THEN [tickets[t] EXCEPT !.op = o, !.status = IF @ = "committed" THEN @ ELSE "reserved"]
        ELSE tickets[t]]

Targets(o) == {tickets[t].target : t \in TicketsOf(mem, o)} \ {None}

TargetsConflict(o) ==
    \/ Cardinality(Targets(o)) > 1
    \/ Targets(o) # {} /\ mem.ops[o].req.target # None /\ mem.ops[o].req.target \notin Targets(o)

\* The loop over the runtimes stops at the first ticket it cannot use; those before
\* it stay bound.
Bind ==
    /\ up /\ h.pc = "created"
    /\ LET Good == {r \in Reserving(mem, h.op) : Usable(TicketOf(mem, h.op, r), r, h.op)}
       IN  IF Good = Reserving(mem, h.op)
           THEN /\ tickets' = Bound(TicketsOf(mem, h.op), h.op)
                /\ h' = At(IF TargetsConflict(h.op) THEN "refused" ELSE "bound")
           ELSE \E before \in SUBSET Good :
                /\ tickets' = Bound({TicketOf(mem, h.op, r) : r \in before}, h.op)
                /\ h' = At("refused")
    /\ UNCHANGED <<store, up, manager, session, issued, time, bounds>>

\* Some ticket has a durable reservation of another operation.
RowConflict(o) ==
    \E t \in TicketsOf(mem, o) : mem.rows[t] # None /\ OtherOperation(mem.rows[t].op, o)

\* The reservations go to disk before the runtimes are looked at.  The update
\* function throws on a conflict, so that nothing is written.
Reserve ==
    /\ up /\ h.pc = "bound"
    /\ Reserving(mem, h.op) # {}
    /\ IF RowConflict(h.op) THEN h' = Caught("RESERVATION") /\ UNCHANGED <<store, faults>>
       ELSE \/ WriteOk(ReserveRows(mem, h.op)) /\ h' = At("reserved")
            \/ WriteFails(ReserveRows(mem, h.op)) /\ h' = Caught("INTERNAL_ERROR")
    /\ UNCHANGED <<up, tickets, manager, session, issued, time, requests>>

LiveLease(r, src, s) ==
    /\ s # None
    /\ leases[[rt |-> r, src |-> src, session |-> s]] # None
    /\ leases[[rt |-> r, src |-> src, session |-> s]].ticket \notin over

\* The target a lease is looked up by: the request's, or else its tickets'.
RuntimeTarget(o) ==
    IF mem.ops[o].req.target # None THEN mem.ops[o].req.target
    ELSE IF Targets(o) = {} THEN None ELSE CHOOSE s \in Targets(o) : TRUE

\* stageAuthConfirmation refuses a confirmation past its deadline, unless it is
\* that of a recovery; what was staged before stays staged.
Staged(o, r) ==
    LET t == TicketOf(mem, o, r)
    IN  IF t # None /\ (t \notin late \/ tickets[t].attempted)
        THEN [ticket |-> t, target |-> tickets[t].target, recoverable |-> tickets[t].attempted]
        ELSE pending[o][r]

\* RuntimeManager.ensure, with every runtime installed, or with one that is not.
\* The daemon is started without a probe of the logins: they are all unverified.
Ensure ==
    /\ up
    /\ \/ h.pc = "reserved"
       \/ h.pc = "bound" /\ Reserving(mem, h.op) = {}
    /\ \/ /\ pending' = [pending EXCEPT ![h.op] = [r \in Runtimes |-> Staged(h.op, r)]]
          /\ h' = At(IF \A r \in Runtimes :
                           \/ pending'[h.op][r] # None
                           \/ LiveLease(r, mem.ops[h.op].req.src, RuntimeTarget(h.op))
                     THEN "ensured" ELSE "refused")
       \/ UNCHANGED pending /\ h' = At("refused")
    /\ UNCHANGED <<store, up, tickets, commits, leases, session, issued, time, bounds>>

\* finishOperation after a refusal; a failed write escapes and leaves the operation
\* running.
Refuse ==
    /\ up /\ h.pc = "refused"
    /\ LET next == SetState(mem, h.op, "needs-attention", "PRECONDITION")
       IN  WriteOk(next) \/ WriteFails(next)
    /\ h' = Idle
    /\ UNCHANGED <<up, tickets, manager, session, issued, time, requests>>

\* The update function marks the tickets in memory whether or not its write succeeds.
Attempt ==
    /\ up /\ h.pc = "ensured"
    /\ Reserving(mem, h.op) # {}
    /\ \/ WriteOk(AttemptRows(mem, h.op)) /\ h' = At("attempted")
       \/ WriteFails(AttemptRows(mem, h.op)) /\ h' = Caught("INTERNAL_ERROR")
    /\ tickets' = [t \in Tickets |-> IF t \in TicketsOf(mem, h.op)
                                     THEN [tickets[t] EXCEPT !.attempted = TRUE] ELSE tickets[t]]
    /\ UNCHANGED <<up, manager, session, issued, time, requests>>

CallSessionControl ==
    /\ up
    /\ \/ h.pc = "attempted"
       \/ h.pc = "ensured" /\ Reserving(mem, h.op) = {}
    /\ calls' = calls \cup {h.op}
    /\ asked' = asked \cup {h.op}
    /\ h' = At("calling")
    /\ UNCHANGED <<store, up, tickets, manager, effect, issued, time, bounds>>

\* Session Control opens one Session per idempotency key, the requested one if any.
SessionControlActs(o, s) ==
    /\ o \in calls
    /\ calls' = calls \ {o}
    /\ IF effect[o] # None THEN s = effect[o]
       ELSE LET target == disk.ops[o].req.target IN target = None \/ s = target
    /\ effect' = [effect EXCEPT ![o] = s]
    /\ UNCHANGED <<store, up, h, tickets, manager, asked, issued, time, bounds>>

SessionControlRefuses(o) ==
    /\ o \in calls
    /\ effect[o] = None
    /\ calls' = calls \ {o}
    /\ h' = IF up /\ h.pc = "calling" /\ h.op = o THEN Caught("SESSION_CONTROL_REJECTED") ELSE h
    /\ UNCHANGED <<store, up, tickets, manager, asked, effect, issued, time, bounds>>

SessionControlReplies ==
    /\ up /\ h.pc = "calling"
    /\ h.op \notin calls /\ effect[h.op] # None
    /\ h' = At("called")
    /\ UNCHANGED <<store, up, tickets, manager, session, issued, time, bounds>>

ReplyLost ==
    /\ up /\ h.pc = "calling"
    /\ h' = Caught("UNKNOWN")
    /\ UNCHANGED <<store, up, tickets, manager, session, issued, time, bounds>>

-----------------------------------------------------------------------------
(* Committing the reservations to the Session that was opened. *)

CommitsAnyTarget(o, r, s) ==    \* mutant: whatever was staged is committed
    pending[o][r] # None \/ commits[o][r] # None

\* commitAuthReservation: once committed it is repeated for the same Session only;
\* before that it wants a valid confirmation for this Session.
Commits(o, r, s) ==
    \/ commits[o][r] = [ticket |-> TicketOf(mem, o, r), session |-> s]
    \/ /\ commits[o][r] = None
       /\ pending[o][r] # None
       /\ pending[o][r].ticket = TicketOf(mem, o, r)
       /\ pending[o][r].ticket \notin late \/ pending[o][r].recoverable
       /\ pending[o][r].target \in {None, s}

\* The commits of the runtimes rs, in memory.
CommitAll(o, rs, s) ==
    LET new == {r \in rs : commits[o][r] = None}
        KeyOf(r) == [rt |-> r, src |-> mem.ops[o].req.src, session |-> s]
    IN  /\ leases' = [k \in LeaseKey |->
               IF k.rt \in new /\ k = KeyOf(k.rt)
               THEN [ticket |-> TicketOf(mem, o, k.rt), op |-> o] ELSE leases[k]]
        /\ over' = over \ {TicketOf(mem, o, r) : r \in new}
        /\ commits' = [commits EXCEPT ![o] = [r \in Runtimes |->
               IF r \in new THEN [ticket |-> TicketOf(mem, o, r), session |-> s] ELSE @[r]]]
        /\ pending' = [pending EXCEPT ![o] = [r \in Runtimes |-> IF r \in new THEN None ELSE @[r]]]
        /\ tickets' = [t \in Tickets |->
               IF t \in {TicketOf(mem, o, r) : r \in rs}
               THEN [tickets[t] EXCEPT !.status = "committed", !.target = s] ELSE tickets[t]]

\* The loop stops at the first reservation that cannot be committed.
Commit ==
    /\ up /\ h.pc = "called"
    /\ LET s == effect[h.op]
           Good == {r \in Reserving(mem, h.op) : Commits(h.op, r, s)}
       IN  IF Good = Reserving(mem, h.op)
           THEN CommitAll(h.op, Good, s) /\ h' = At("committed")
           ELSE \E before \in SUBSET Good :
                    CommitAll(h.op, before, s) /\ h' = Caught("RESERVATION")
    /\ UNCHANGED <<store, up, session, issued, late, bounds>>

RecordCommit ==
    /\ up /\ h.pc = "committed"
    /\ Reserving(mem, h.op) # {}
    /\ \/ WriteOk(CommitRows(mem, h.op)) /\ h' = At("recorded")
       \/ WriteFails(CommitRows(mem, h.op)) /\ h' = Caught("INTERNAL_ERROR")
    /\ UNCHANGED <<up, tickets, manager, session, issued, time, requests>>

\* The project, the outcome and the end of the reservations are one write.
Finish ==
    /\ up
    /\ \/ h.pc = "recorded"
       \/ h.pc = "committed" /\ Reserving(mem, h.op) = {}
    /\ LET next == ConsumeRows(mem, h.op)
       IN  \/ /\ WriteOk(next)
              /\ tickets' = [t \in Tickets |-> IF t \in TicketsOf(mem, h.op) THEN None
                                               ELSE tickets[t]]
              /\ late' = late \ TicketsOf(mem, h.op)
              /\ h' = Idle
           \/ WriteFails(next) /\ h' = Caught("INTERNAL_ERROR") /\ UNCHANGED <<tickets, late>>
    /\ UNCHANGED <<up, manager, session, issued, over, requests>>

OutcomePending(code) == "pending"      \* mutant: not one of the states of a record

\* The daemon's list of outcomes it takes for unproven.
OutcomeOf(code) == IF code \in {"UNKNOWN", "RESERVATION"} THEN "needs-attention" ELSE "failed"

RecordError ==
    /\ up /\ h.pc = "caught"
    /\ LET next == SetState(mem, h.op, OutcomeOf(h.code), h.code)
       IN  WriteOk(next) \/ WriteFails(next)
    /\ h' = Idle
    /\ UNCHANGED <<up, tickets, manager, session, issued, time, requests>>

-----------------------------------------------------------------------------
(* Time and the process. *)

RestoredCommitted(row) == row # None /\ row.status = "committed"    \* mutant: not the reserved ones

Restored(row) == row # None /\ row.status \in {"reserved", "committed"}

\* A challenge past its deadline is answered like an unknown one.
ChallengeEnds(t) ==
    /\ tickets[t] # None /\ tickets[t].status = "challenged"
    /\ tickets' = [tickets EXCEPT ![t] = None]
    /\ UNCHANGED <<store, up, h, manager, session, issued, time, bounds>>

\* Only the deadlines of tickets are looked at, those in memory and those a restart
\* finds in their reservations.
Deadline(t) ==
    /\ \/ tickets[t] # None /\ tickets[t].status # "challenged"
       \/ Restored(disk.rows[t])
    /\ t \notin late
    /\ late' = late \cup {t}
    /\ UNCHANGED <<store, up, h, tickets, manager, session, issued, over, bounds>>

LeaseEnds(t) ==
    /\ t \notin over
    /\ \E k \in LeaseKey : leases[k] # None /\ leases[k].ticket = t
    /\ over' = over \cup {t}
    /\ UNCHANGED <<store, up, h, tickets, manager, session, issued, late, bounds>>

Crash ==
    /\ up
    /\ up' = FALSE
    /\ mem' = disk
    /\ h' = Idle
    /\ tickets' = NoTickets
    /\ pending' = PerReservation
    /\ commits' = PerReservation
    /\ leases' = NoLeases
    /\ late' = {t \in late : Restored(disk.rows[t])}
    /\ over' = {t \in over : Restored(disk.rows[t])}
    /\ UNCHANGED <<disk, session, issued, bounds>>

RestoredTicket(row) ==
    [rt |-> row.rt, src |-> row.src, target |-> row.target, status |-> row.status,
     op |-> row.op, attempted |-> row.attempted]

\* The row of an operation for a runtime, among those that are restored.
RowsOf(s, o, r, status) ==
    {t \in Tickets : /\ Restored(s.rows[t]) /\ s.rows[t].status = status
                     /\ s.rows[t].op = o /\ s.rows[t].rt = r}

\* The tickets whose committed rows each bring back the lease of k; the last one stays.
PaidFor(s, k) ==
    {t \in Tickets : /\ Restored(s.rows[t]) /\ s.rows[t].status = "committed"
                     /\ k = [rt |-> s.rows[t].rt, src |-> s.rows[t].src,
                             session |-> s.rows[t].target]}

\* The daemon's constructor and restoreAuthReservation, from the state it loaded.
Restore(s) ==
    /\ tickets' = [t \in Tickets |-> IF Restored(s.rows[t]) THEN RestoredTicket(s.rows[t]) ELSE None]
    /\ pending' = [o \in Ops |-> [r \in Runtimes |->
           IF RowsOf(s, o, r, "reserved") = {} THEN None
           ELSE LET t == CHOOSE t \in RowsOf(s, o, r, "reserved") : TRUE
                IN  [ticket |-> t, target |-> s.rows[t].target,
                     recoverable |-> s.rows[t].attempted]]]
    /\ commits' = [o \in Ops |-> [r \in Runtimes |->
           IF RowsOf(s, o, r, "committed") = {} THEN None
           ELSE LET t == CHOOSE t \in RowsOf(s, o, r, "committed") : TRUE
                IN  [ticket |-> t, session |-> s.rows[t].target]]]
    /\ LET Paid == {k \in LeaseKey : PaidFor(s, k) # {}}
       IN  \E f \in [Paid -> Tickets] :
               /\ \A k \in Paid : f[k] \in PaidFor(s, k)
               /\ leases' = [k \in LeaseKey |->
                      IF k \in Paid THEN [ticket |-> f[k], op |-> s.rows[f[k]].op] ELSE None]

Restart ==
    /\ ~up
    /\ \/ WriteOk(MarkInterrupted(disk)) /\ up' = TRUE /\ Restore(disk)
       \/ /\ faults < MaxFaults /\ faults' = faults + 1
          /\ disk' \in {disk, MarkInterrupted(disk)}
          /\ mem' = disk'
          /\ UNCHANGED <<up, tickets, pending, commits, leases>>
    /\ UNCHANGED <<h, session, issued, time, requests>>

Init ==
    /\ disk = EmptyState
    /\ mem = EmptyState
    /\ up = FALSE
    /\ h = Idle
    /\ tickets = NoTickets
    /\ pending = PerReservation
    /\ commits = PerReservation
    /\ leases = NoLeases
    /\ calls = {}
    /\ asked = {}
    /\ effect = [o \in Ops |-> None]
    /\ issued = NoTickets
    /\ late = {}
    /\ over = {}
    /\ requests = 0
    /\ faults = 0

Handler ==
    \/ Unready
    \/ Bind
    \/ Reserve
    \/ Ensure
    \/ Refuse
    \/ Attempt
    \/ CallSessionControl
    \/ SessionControlReplies
    \/ ReplyLost
    \/ Commit
    \/ RecordCommit
    \/ Finish
    \/ RecordError

Next ==
    \/ \E t \in Tickets, r \in Runtimes, src \in Sources, target \in Sessions \cup {None} :
           Begin(t, r, src, target)
    \/ \E t \in Tickets : Confirm(t) \/ ChallengeEnds(t) \/ Deadline(t) \/ LeaseEnds(t)
    \/ \E o \in Ops, r \in Request : Open(o, r)
    \/ \E o \in Ops : Retry(o) \/ SessionControlRefuses(o)
    \/ \E o \in Ops, s \in Sessions : SessionControlActs(o, s)
    \/ Handler
    \/ Crash
    \/ Restart

Spec == Init /\ [][Next]_vars

-----------------------------------------------------------------------------
(* Properties. *)

\* The type invariant of the store, the daemon and the runtime manager.
TypeOK ==
    /\ disk \in HostState
    /\ mem \in HostState
    /\ up \in BOOLEAN
    /\ h = Idle \/ h \in [pc : {"created", "bound", "reserved", "ensured", "attempted", "calling",
                                "called", "committed", "recorded", "refused", "caught"},
                          op : Ops, code : Codes]
    /\ tickets \in [Tickets -> Ticket \cup {None}]
    /\ pending \in [Ops -> [Runtimes -> Pending \cup {None}]]
    /\ commits \in [Ops -> [Runtimes -> Committed \cup {None}]]
    /\ leases \in [LeaseKey -> Lease \cup {None}]
    /\ calls \subseteq Ops
    /\ asked \subseteq Ops
    /\ effect \in [Ops -> Sessions \cup {None}]
    /\ issued \in [Tickets -> Issue \cup {None}]
    /\ late \subseteq Tickets
    /\ over \subseteq Tickets
    /\ requests \in Nat
    /\ faults \in Nat

\* A ticket is good for one operation: no two operations ever reach Session Control
\* with the same ticket, across retries, failed writes, crashes and restarts.
OneOperationPerTicket ==
    \A o, p \in asked : o # p => TicketsOf(disk, o) \cap TicketsOf(disk, p) = {}

\* Before Session Control is asked, the disk says for which tickets: a restart finds
\* every reservation an operation may have been executed under.
CallsAreReserved ==
    \A o \in asked : \A t \in TicketsOf(disk, o) :
        /\ disk.rows[t] # None
        /\ disk.rows[t].op = o
        /\ disk.rows[t].attempted

\* A lease was paid for by a ticket that was issued for its runtime, its source and its
\* Session (or for any), under an operation of that source for which Session Control
\* opened this Session.
LeaseIsEarned ==
    \A k \in LeaseKey : leases[k] # None =>
        LET o == leases[k].op
            i == issued[leases[k].ticket]
        IN  /\ i # None
            /\ i.rt = k.rt /\ i.src = k.src /\ i.target \in {None, k.session}
            /\ Recorded(disk, o)
            /\ disk.ops[o].req.src = k.src
            /\ TicketOf(disk, o, k.rt) = leases[k].ticket
            /\ o \in asked
            /\ effect[o] = k.session

\* A completed operation leaves no ticket behind: its reservations are consumed on
\* disk, so that no restart brings them back, and they are gone from memory.
CompletedIsConsumed ==
    \A o \in Ops :
        /\ Recorded(disk, o) /\ disk.ops[o].state = "completed"
             => \A t \in TicketsOf(disk, o) : disk.rows[t] # None /\ disk.rows[t].status = "consumed"
        /\ Recorded(mem, o) /\ mem.ops[o].state = "completed"
             => \A t \in TicketsOf(mem, o) : tickets[t] = None

\* An operation that Session Control was asked for and that may be replayed keeps
\* its tickets, past their deadline and across restarts.
RecoverableKeepsTickets ==
    up /\ h.pc = "idle" =>
        \A o \in asked :
            Recorded(mem, o) /\ CanRetry(mem.ops[o])
                => \A r \in Reserving(mem, o) : Usable(TicketOf(mem, o, r), r, o)

\* Tickets follow the outcome of their operation: none of a completed one comes back, and
\* none of a recoverable one is lost (lib/remote-host.mjs:352-372,
\* lib/runtime-manager.mjs:353-410).
TicketsFollowOutcome == CompletedIsConsumed /\ RecoverableKeepsTickets
=============================================================================
