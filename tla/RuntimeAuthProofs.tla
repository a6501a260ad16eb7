-------------------------- MODULE RuntimeAuthProofs --------------------------
(***************************************************************************)
(* Proofs about RuntimeAuth: the inductive invariant; the ways a state of  *)
(* the store is changed and what they keep of StoreOK; the invariant       *)
(* carried through every action; the theorems.                             *)
(***************************************************************************)
EXTENDS RuntimeAuth, TLAPS

-----------------------------------------------------------------------------
(* The inductive invariant.                                                *)

\* Ticket t was issued for runtime r, source src and this target, or for any target.
IssuedFor(t, r, src, target) ==
    /\ issued[t] # None
    /\ issued[t].rt = r
    /\ issued[t].src = src
    /\ issued[t].target \in {None, target}

\* A target that agrees with the one a request asks for.
Fits(target, req) == target = None \/ req.target = None \/ target = req.target

\* What is committed to a Session was committed to the one opened for its operation.
CommittedTo(o, target) == o \in asked /\ target # None /\ effect[o] = target

\* A reservation is its operation's, for a ticket that the operation brought.
RowOK(s, t) ==
    LET w == s.rows[t]
    IN  /\ Recorded(s, w.op)
        /\ TicketOf(s, w.op, w.rt) = t
        /\ w.src = s.ops[w.op].req.src
        /\ IssuedFor(t, w.rt, w.src, w.target)
        /\ Fits(w.target, s.ops[w.op].req)
        /\ w.status = "committed" => CommittedTo(w.op, w.target)
        /\ w.status = "consumed" => s.ops[w.op].state = "completed"

\* An operation brings drawn tickets, each for one runtime.
RequestOK(s, o) ==
    /\ \A t \in TicketsOf(s, o) : issued[t] # None
    /\ \A x, y \in Reserving(s, o) : TicketOf(s, o, x) = TicketOf(s, o, y) => x = y

AskedOK(s, o) ==
    /\ Recorded(s, o)
    /\ \A t \in TicketsOf(s, o) : s.rows[t] # None /\ s.rows[t].op = o /\ s.rows[t].attempted

CompletedOK(s, o) ==
    /\ o \in asked
    /\ \A t \in TicketsOf(s, o) : s.rows[t] # None /\ s.rows[t].status = "consumed"

StoreOK(s) ==
    /\ \A t \in Tickets : s.rows[t] # None => RowOK(s, t)
    /\ \A o \in Ops : Recorded(s, o) => RequestOK(s, o)
    /\ \A o \in asked : AskedOK(s, o)
    /\ \A o \in Ops : Recorded(s, o) /\ s.ops[o].state = "completed" => CompletedOK(s, o)

\* The disk may be ahead of memory, but never with another request of an operation.
SameRequests ==
    \A o \in Ops : Recorded(mem, o) => Recorded(disk, o) /\ disk.ops[o].req = mem.ops[o].req

SessionOK ==
    /\ calls \subseteq asked
    /\ \A o \in Ops : effect[o] # None => o \in asked /\ Fits(effect[o], disk.ops[o].req)

TicketsOK ==
    \A t \in Tickets : tickets[t] # None =>
        /\ IssuedFor(t, tickets[t].rt, tickets[t].src, tickets[t].target)
        /\ tickets[t].status = "committed" =>
             tickets[t].op # None /\ CommittedTo(tickets[t].op, tickets[t].target)

\* Ticket t serves operation o, for runtime r.
Holds(t, r, o) ==
    /\ tickets[t] # None
    /\ tickets[t].status \in {"reserved", "committed"}
    /\ tickets[t].op = o
    /\ tickets[t].rt = r
    /\ tickets[t].src = mem.ops[o].req.src
    /\ Fits(tickets[t].target, mem.ops[o].req)

Brought(o, r, t) == Recorded(mem, o) /\ t # None /\ TicketOf(mem, o, r) = t

PendingOK ==
    \A o \in Ops, r \in Runtimes : pending[o][r] # None =>
        /\ Brought(o, r, pending[o][r].ticket)
        /\ IssuedFor(pending[o][r].ticket, r, mem.ops[o].req.src, pending[o][r].target)

CommitsOK ==
    \A o \in Ops, r \in Runtimes : commits[o][r] # None =>
        /\ Brought(o, r, commits[o][r].ticket)
        /\ IssuedFor(commits[o][r].ticket, r, mem.ops[o].req.src, commits[o][r].session)
        /\ CommittedTo(o, commits[o][r].session)

\* The serving daemon has the tickets of what was asked of Session Control, until the
\* operation completes, and then it has none of them.
AskedHolds ==
    \A o \in Ops : Recorded(mem, o) =>
        IF mem.ops[o].state = "completed"
        THEN \A t \in TicketsOf(mem, o) : tickets[t] = None
        ELSE up /\ o \in asked =>
                \A r \in Reserving(mem, o) :
                    Holds(TicketOf(mem, o, r), r, o) /\ tickets[TicketOf(mem, o, r)].attempted

\* The stages of project.open, each with what it has made sure of.
Asking == {"calling", "called", "committed", "recorded"}
Trying == Asking \cup {"attempted"}
Reserved == Trying \cup {"reserved", "ensured"}
Holding == Reserved \cup {"bound"}

HandlerOK ==
    h.pc # "idle" =>
        /\ up
        /\ Recorded(mem, h.op) /\ mem.ops[h.op].state = "running"
        /\ h.pc # "caught" => disk = mem
        /\ h.pc \in Holding =>
             \A r \in Reserving(mem, h.op) : Holds(TicketOf(mem, h.op, r), r, h.op)
        /\ h.pc \in Reserved =>
             \A t \in TicketsOf(mem, h.op) : mem.rows[t] # None /\ mem.rows[t].op = h.op
        /\ h.pc \in Trying =>
             \A t \in TicketsOf(mem, h.op) : mem.rows[t].attempted /\ tickets[t].attempted
        /\ h.pc \in Asking => h.op \in asked
        /\ h.pc \in Asking \ {"calling"} => effect[h.op] # None
        /\ h.pc \in {"committed", "recorded"} =>
             \A t \in TicketsOf(mem, h.op) : tickets[t].status = "committed"

DownOK ==
    ~up => /\ mem = disk
           /\ h = Idle
           /\ tickets = NoTickets
           /\ pending = PerReservation
           /\ commits = PerReservation
           /\ leases = NoLeases

IInv ==
    /\ TypeOK
    /\ StoreOK(disk)
    /\ StoreOK(mem)
    /\ SameRequests
    /\ SessionOK
    /\ TicketsOK
    /\ PendingOK
    /\ CommitsOK
    /\ AskedHolds
    /\ LeaseIsEarned
    /\ HandlerOK
    /\ DownOK

-----------------------------------------------------------------------------
(* Changes of a store state.                                                  *)

OpStates == {"running", "completed", "failed", "needs-attention"}

\* A recorded operation, its tickets and their runtimes.
LEMMA RecordedFacts ==
    ASSUME NEW s \in HostState, NEW o \in Ops, Recorded(s, o)
    PROVE  /\ s.ops[o] \in Operation
           /\ s.ops[o].req \in Request
           /\ \A r \in Runtimes : TicketOf(s, o, r) \in Tickets \cup {None}
           /\ \A r \in Reserving(s, o) : r \in Runtimes /\ TicketOf(s, o, r) \in TicketsOf(s, o)
           /\ TicketsOf(s, o) \subseteq Tickets
           /\ \A t \in TicketsOf(s, o) : \E r \in Reserving(s, o) : t = TicketOf(s, o, r)
           /\ None \notin TicketsOf(s, o)
<1>1. s.ops[o] \in Operation /\ s.ops[o].req \in Request
  BY DEF HostState, Recorded, Operation
<1>2. \A r \in Runtimes : TicketOf(s, o, r) \in Tickets \cup {None}
  BY <1>1 DEF Request, TicketOf
<1>3. QED
  BY <1>1, <1>2, NoneAssumption DEF Reserving, TicketsOf

\* An operation in another state.
LEMMA OutcomeFacts ==
    ASSUME NEW r \in Operation, NEW state \in OpStates, NEW code \in Codes, NEW n,
           n = [r EXCEPT !.state = state, !.code = code]
    PROVE  n = [req |-> r.req, state |-> state, code |-> code]
  BY DEF Operation, OpStates

\* Setting a state keeps the request, the other operations and the reservations.
LEMMA SetStateFacts ==
    ASSUME NEW s \in HostState, NEW o \in Ops, Recorded(s, o),
           NEW state \in OpStates, NEW code \in Codes
    PROVE  LET n == SetState(s, o, state, code) IN
           /\ n \in HostState
           /\ n.rows = s.rows
           /\ Recorded(n, o)
           /\ n.ops[o].req = s.ops[o].req
           /\ n.ops[o].state = state
           /\ \A p \in Ops \ {o} : n.ops[p] = s.ops[p]
<1> DEFINE n == SetState(s, o, state, code)
           op == [req |-> s.ops[o].req, state |-> state, code |-> code]
<1>1. s.ops[o] \in Operation /\ s.ops \in [Ops -> Operation \cup {None}]
      /\ s.rows \in [Tickets -> Row \cup {None}] /\ s = [ops |-> s.ops, rows |-> s.rows]
  BY DEF HostState, Recorded
<1>2. op \in Operation /\ op # None
  BY <1>1, NoneIsNoRecord DEF Operation, OpStates
<1>3. n = [ops |-> [s.ops EXCEPT ![o] = op], rows |-> s.rows]
  <2>1. op = [s.ops[o] EXCEPT !.state = state, !.code = code]
    BY <1>1, OutcomeFacts
  <2>2. n = [s EXCEPT !.ops = [s.ops EXCEPT ![o] = [s.ops[o] EXCEPT !.state = state, !.code = code]]]
    BY <1>1 DEF SetState
  <2> HIDE DEF op, n
  <2>3. QED
    BY <1>1, <2>1, <2>2
<1> HIDE DEF op, n
<1>4. n \in HostState /\ n.rows = s.rows /\ n.ops = [s.ops EXCEPT ![o] = op]
  BY <1>1, <1>2, <1>3 DEF HostState
<1>5. n.ops[o] = op /\ \A p \in Ops \ {o} : n.ops[p] = s.ops[p]
  BY <1>1, <1>4
<1>6. op.req = s.ops[o].req /\ op.state = state
  BY DEF op
<1>7. QED
  BY <1>2, <1>4, <1>5, <1>6 DEF Recorded, n

\* A new record leaves the other operations and the reservations alone.
LEMMA CreateFacts ==
    ASSUME NEW s \in HostState, NEW o \in Ops, NEW r \in Request
    PROVE  LET n == CreateOperation(s, o, r) IN
           /\ n \in HostState
           /\ n.rows = s.rows
           /\ Recorded(n, o)
           /\ n.ops[o].req = r
           /\ n.ops[o].state = "running"
           /\ \A p \in Ops \ {o} : n.ops[p] = s.ops[p]
<1> DEFINE n == CreateOperation(s, o, r)
           op == [req |-> r, state |-> "running", code |-> "NONE"]
<1>1. s.ops \in [Ops -> Operation \cup {None}]
      /\ s.rows \in [Tickets -> Row \cup {None}] /\ s = [ops |-> s.ops, rows |-> s.rows]
  BY DEF HostState
<1>2. op \in Operation /\ op # None
  BY <1>1, NoneIsNoRecord DEF Operation, Codes
<1>3. n = [ops |-> [s.ops EXCEPT ![o] = op], rows |-> s.rows]
  BY <1>1 DEF CreateOperation
<1> HIDE DEF op, n
<1>4. n \in HostState /\ n.rows = s.rows /\ n.ops = [s.ops EXCEPT ![o] = op]
  BY <1>1, <1>2, <1>3 DEF HostState
<1>5. n.ops[o] = op /\ \A p \in Ops \ {o} : n.ops[p] = s.ops[p]
  BY <1>1, <1>4
<1>6. op.req = r /\ op.state = "running"
  BY DEF op
<1>7. QED
  BY <1>2, <1>4, <1>5, <1>6 DEF Recorded, n

\* The rows of an operation's tickets are replaced, and nothing else.
LEMMA WithRowsFacts ==
    ASSUME NEW s \in HostState, NEW o \in Ops, Recorded(s, o), NEW rows,
           \A t \in TicketsOf(s, o) : rows[t] \in Row
    PROVE  LET n == WithRows(s, o, rows) IN
           /\ n \in HostState
           /\ n.ops = s.ops
           /\ \A t \in Tickets : n.rows[t] = IF t \in TicketsOf(s, o) THEN rows[t] ELSE s.rows[t]
<1> DEFINE n == WithRows(s, o, rows)
           new == [t \in Tickets |-> IF t \in TicketsOf(s, o) THEN rows[t] ELSE s.rows[t]]
<1>1. s.ops \in [Ops -> Operation \cup {None}]
      /\ s.rows \in [Tickets -> Row \cup {None}] /\ s = [ops |-> s.ops, rows |-> s.rows]
  BY DEF HostState
<1>2. n = [ops |-> s.ops, rows |-> new]
  BY <1>1 DEF WithRows
<1>3. new \in [Tickets -> Row \cup {None}]
  BY <1>1
<1>4. \A t \in Tickets : new[t] = IF t \in TicketsOf(s, o) THEN rows[t] ELSE s.rows[t]
  OBVIOUS
<1> HIDE DEF n, new
<1>5. QED
  BY <1>1, <1>2, <1>3, <1>4 DEF HostState, n

\* A restart interrupts what runs.
LEMMA InterruptFacts ==
    ASSUME NEW s \in HostState
    PROVE  LET n == MarkInterrupted(s) IN
           /\ n \in HostState
           /\ n.rows = s.rows
           /\ \A o \in Ops :
                /\ Recorded(n, o) <=> Recorded(s, o)
                /\ Recorded(s, o) => n.ops[o].req = s.ops[o].req
                /\ Recorded(s, o) => (n.ops[o].state = "completed" <=> s.ops[o].state = "completed")
<1> DEFINE n == MarkInterrupted(s)
           op(o) == [req |-> s.ops[o].req, state |-> "needs-attention",
                     code |-> "HOST_RESTART_INTERRUPTED"]
           new == [o \in Ops |-> IF Recorded(s, o) /\ s.ops[o].state = "running" THEN op(o)
                                 ELSE s.ops[o]]
<1>1. s.ops \in [Ops -> Operation \cup {None}]
      /\ s.rows \in [Tickets -> Row \cup {None}] /\ s = [ops |-> s.ops, rows |-> s.rows]
  BY DEF HostState
<1>2. ASSUME NEW o \in Ops, Recorded(s, o)
      PROVE  /\ op(o) \in Operation /\ op(o) # None
             /\ op(o) = [s.ops[o] EXCEPT !.state = "needs-attention",
                                         !.code = "HOST_RESTART_INTERRUPTED"]
             /\ op(o).req = s.ops[o].req /\ op(o).state = "needs-attention"
  <2>1. s.ops[o] \in Operation
    BY <1>1, <1>2 DEF Recorded
  <2>2. op(o) = [s.ops[o] EXCEPT !.state = "needs-attention",
                                 !.code = "HOST_RESTART_INTERRUPTED"]
    BY <2>1, OutcomeFacts DEF OpStates, Codes
  <2>3. op(o) \in Operation
    BY <2>1 DEF Operation, Codes
  <2>4. QED
    BY <2>2, <2>3, NoneIsNoRecord
<1>3. n = [ops |-> new, rows |-> s.rows]
  <2>1. new = [o \in Ops |->
                 IF Recorded(s, o) /\ s.ops[o].state = "running"
                 THEN [s.ops[o] EXCEPT !.state = "needs-attention",
                                       !.code = "HOST_RESTART_INTERRUPTED"]
                 ELSE s.ops[o]]
    BY <1>2
  <2> HIDE DEF new, op
  <2>2. n = [s EXCEPT !.ops = new]
    BY <2>1 DEF MarkInterrupted
  <2> HIDE DEF n
  <2>3. QED
    BY <1>1, <2>2
<1>4. \A o \in Ops : new[o] = IF Recorded(s, o) /\ s.ops[o].state = "running" THEN op(o)
                              ELSE s.ops[o]
  OBVIOUS
<1>5. new \in [Ops -> Operation \cup {None}]
  BY <1>1, <1>2
<1> HIDE DEF n, op, new
<1>6. n \in HostState /\ n.rows = s.rows /\ n.ops = new
  BY <1>1, <1>3, <1>5 DEF HostState
<1>7. QED
  BY <1>2, <1>4, <1>6 DEF Recorded, n

-----------------------------------------------------------------------------
(* What each change keeps of StoreOK.                                         *)

\* An operation with the same request has the same tickets.
LEMMA SameTickets ==
    ASSUME NEW s, NEW n, NEW o, n.ops[o].req = s.ops[o].req
    PROVE  /\ \A r : TicketOf(n, o, r) = TicketOf(s, o, r)
           /\ Reserving(n, o) = Reserving(s, o)
           /\ TicketsOf(n, o) = TicketsOf(s, o)
<1>1. \A r : TicketOf(n, o, r) = TicketOf(s, o, r)
  BY SMTT(30) DEF TicketOf
<1>2. QED
  BY <1>1 DEF Reserving, TicketsOf

\* Row t of s is row t of n, of an operation with the same request.
LEMMA RowKept ==
    ASSUME NEW s, NEW n, NEW t \in Tickets, n.rows[t] = s.rows[t], RowOK(s, t),
           Recorded(n, s.rows[t].op), n.ops[s.rows[t].op].req = s.ops[s.rows[t].op].req,
           s.ops[s.rows[t].op].state = "completed" => n.ops[s.rows[t].op].state = "completed"
    PROVE  RowOK(n, t)
<1>1. TicketOf(n, s.rows[t].op, s.rows[t].rt) = TicketOf(s, s.rows[t].op, s.rows[t].rt)
  BY DEF TicketOf
<1>2. QED
  BY <1>1 DEF RowOK

\* A change made for one operation o that had not completed: it may replace rows that
\* nobody had or that are its own.
LEMMA ChangeKeeps ==
    ASSUME asked \subseteq Ops,
           NEW s \in HostState, NEW n \in HostState, StoreOK(s),
           NEW o \in Ops, Recorded(s, o), s.ops[o].state # "completed",
           \A p \in Ops \ {o} : n.ops[p] = s.ops[p],
           Recorded(n, o), n.ops[o].req = s.ops[o].req,
           \A t \in Tickets :
             \/ n.rows[t] = s.rows[t]
             \/ /\ n.rows[t] # None /\ n.rows[t].op = o /\ RowOK(n, t)
                /\ s.rows[t] # None => s.rows[t].op = o
                /\ o \in asked => n.rows[t].attempted,
           n.ops[o].state = "completed" => CompletedOK(n, o)
    PROVE  StoreOK(n)
<1>1. ASSUME NEW p \in Ops, Recorded(n, p)
      PROVE  /\ Recorded(s, p) /\ n.ops[p].req = s.ops[p].req
             /\ TicketsOf(n, p) = TicketsOf(s, p) /\ Reserving(n, p) = Reserving(s, p)
             /\ \A r : TicketOf(n, p, r) = TicketOf(s, p, r)
  <2>1. Recorded(s, p) /\ n.ops[p].req = s.ops[p].req
    BY <1>1 DEF Recorded
  <2>2. QED
    BY <2>1, SameTickets, SMTT(30)
<1>2. ASSUME NEW t \in Tickets, s.rows[t] # None, n.rows[t] = s.rows[t]
      PROVE  RowOK(n, t)
  <2>1. RowOK(s, t) /\ s.rows[t].op \in Ops
    BY <1>2, SMTT(30) DEF StoreOK, HostState, Row
  <2>2. Recorded(n, s.rows[t].op) /\ n.ops[s.rows[t].op].req = s.ops[s.rows[t].op].req
        /\ (s.ops[s.rows[t].op].state = "completed" => n.ops[s.rows[t].op].state = "completed")
    BY <2>1 DEF RowOK, Recorded
  <2>3. QED
    BY <1>2, <2>1, <2>2, RowKept
<1>3. \A t \in Tickets : n.rows[t] # None => RowOK(n, t)
  BY <1>2
<1>4. \A p \in Ops : Recorded(n, p) => RequestOK(n, p)
  BY <1>1 DEF StoreOK, RequestOK
<1>5. ASSUME NEW p \in asked PROVE AskedOK(n, p)
  <2>1. AskedOK(s, p) /\ p \in Ops
    BY <1>5 DEF StoreOK
  <2>2. Recorded(n, p)
    BY <2>1 DEF AskedOK, Recorded
  <2>3. TicketsOf(n, p) = TicketsOf(s, p) /\ TicketsOf(s, p) \subseteq Tickets
    BY <1>1, <2>1, <2>2, RecordedFacts DEF AskedOK
  <2>4. QED
    BY <2>1, <2>2, <2>3 DEF AskedOK
<1>6. ASSUME NEW p \in Ops, Recorded(n, p), n.ops[p].state = "completed"
      PROVE  CompletedOK(n, p)
  <2>1. CASE p = o
    BY <1>6, <2>1
  <2>2. CASE p # o
    <3>1. Recorded(s, p) /\ s.ops[p].state = "completed" /\ TicketsOf(n, p) = TicketsOf(s, p)
          /\ TicketsOf(s, p) \subseteq Tickets
      BY <1>1, <1>6, <2>2, RecordedFacts
    <3>2. CompletedOK(s, p) /\ AskedOK(s, p)
      BY <3>1 DEF StoreOK, CompletedOK
    <3>3. \A t \in TicketsOf(s, p) : n.rows[t] = s.rows[t]
      BY <2>2, <3>1, <3>2 DEF AskedOK
    <3>4. QED
      BY <3>1, <3>2, <3>3 DEF CompletedOK
  <2>3. QED
    BY <2>1, <2>2
<1>7. QED
  BY <1>3, <1>4, <1>5, <1>6 DEF StoreOK

\* The operations of s are in n, with their requests.
Extends(s, n) ==
    \A o \in Ops : Recorded(s, o) => Recorded(n, o) /\ n.ops[o].req = s.ops[o].req

Completed(s, o) == Recorded(s, o) /\ s.ops[o].state = "completed"

LEMMA SetStateKeeps ==
    ASSUME asked \subseteq Ops, NEW s \in HostState, StoreOK(s),
           NEW o \in Ops, Recorded(s, o), s.ops[o].state # "completed",
           NEW state \in OpStates \ {"completed"}, NEW code \in Codes
    PROVE  LET n == SetState(s, o, state, code) IN
           /\ n \in HostState
           /\ StoreOK(n)
           /\ Extends(s, n)
           /\ \A p \in Ops : Completed(n, p) <=> Completed(s, p)
<1> DEFINE n == SetState(s, o, state, code)
<1>1. /\ n \in HostState
      /\ n.rows = s.rows
      /\ Recorded(n, o)
      /\ n.ops[o].req = s.ops[o].req
      /\ n.ops[o].state = state
      /\ \A p \in Ops \ {o} : n.ops[p] = s.ops[p]
  BY SetStateFacts
<1> HIDE DEF n
<1>2. StoreOK(n)
  BY <1>1, ChangeKeeps
<1>3. Extends(s, n)
  BY <1>1 DEF Extends, Recorded
<1>4. \A p \in Ops : Completed(n, p) <=> Completed(s, p)
  BY <1>1 DEF Completed, Recorded
<1>5. QED
  BY <1>1, <1>2, <1>3, <1>4 DEF n

\* A new operation, of a request that brings drawn tickets, each for one runtime.
LEMMA CreateKeeps ==
    ASSUME asked \subseteq Ops, NEW s \in HostState, StoreOK(s),
           NEW o \in Ops, ~Recorded(s, o), NEW r \in Request,
           \A x \in Runtimes : r.tickets[x] # None => issued[r.tickets[x]] # None,
           \A x, y \in Runtimes : r.tickets[x] # None /\ x # y => r.tickets[x] # r.tickets[y]
    PROVE  LET n == CreateOperation(s, o, r) IN
           /\ n \in HostState
           /\ StoreOK(n)
           /\ Extends(s, n)
           /\ \A p \in Ops : Completed(n, p) <=> Completed(s, p)
<1> DEFINE n == CreateOperation(s, o, r)
<1>1. /\ n \in HostState
      /\ n.rows = s.rows
      /\ Recorded(n, o)
      /\ n.ops[o].req = r
      /\ n.ops[o].state = "running"
      /\ \A p \in Ops \ {o} : n.ops[p] = s.ops[p]
  BY CreateFacts
<1> HIDE DEF n
<1>2. ASSUME NEW p \in Ops, Recorded(s, p)
      PROVE  /\ p # o /\ Recorded(n, p) /\ n.ops[p] = s.ops[p] /\ n.ops[p].req = s.ops[p].req
             /\ TicketsOf(n, p) = TicketsOf(s, p) /\ Reserving(n, p) = Reserving(s, p)
             /\ \A x : TicketOf(n, p, x) = TicketOf(s, p, x)
  <2>1. p # o /\ Recorded(n, p) /\ n.ops[p] = s.ops[p]
    BY <1>1, <1>2 DEF Recorded
  <2>2. n.ops[p].req = s.ops[p].req
    BY <2>1
  <2>3. QED
    BY <2>1, <2>2, SameTickets
<1>3. RequestOK(n, o)
  <2>1. \A x : TicketOf(n, o, x) = r.tickets[x]
    BY <1>1 DEF TicketOf
  <2>2. QED
    BY <2>1 DEF RequestOK, Reserving, TicketsOf
<1>4. \A p \in Ops : Recorded(n, p) => RequestOK(n, p)
  <2>1. ASSUME NEW p \in Ops, Recorded(n, p), p # o PROVE RequestOK(n, p)
    <3>1. Recorded(s, p)
      BY <1>1, <2>1 DEF Recorded
    <3>2. RequestOK(s, p)
      BY <3>1, SMTT(30) DEF StoreOK
    <3>3. QED
      BY <1>2, <3>1, <3>2 DEF RequestOK
  <2>2. QED
    BY <1>3, <2>1
<1>5. ASSUME NEW t \in Tickets, n.rows[t] # None PROVE RowOK(n, t)
  <2>1. RowOK(s, t) /\ s.rows[t].op \in Ops
    BY <1>1, <1>5, SMTT(30) DEF StoreOK, HostState, Row
  <2>2. /\ Recorded(n, s.rows[t].op) /\ n.ops[s.rows[t].op].req = s.ops[s.rows[t].op].req
        /\ s.ops[s.rows[t].op].state = "completed" => n.ops[s.rows[t].op].state = "completed"
    BY <1>2, <2>1 DEF RowOK
  <2>3. QED
    BY <1>1, <2>1, <2>2, RowKept
<1>6. \A p \in asked : AskedOK(n, p)
  BY <1>1, <1>2 DEF StoreOK, AskedOK
<1>7. ASSUME NEW p \in Ops, Recorded(n, p), n.ops[p].state = "completed"
      PROVE  CompletedOK(n, p)
  <2>1. p # o /\ Recorded(s, p)
    BY <1>1, <1>7 DEF Recorded
  <2>2. CompletedOK(s, p)
    BY <1>2, <1>7, <2>1 DEF StoreOK
  <2>3. QED
    BY <1>1, <1>2, <2>1, <2>2 DEF CompletedOK
<1>8. StoreOK(n)
  BY <1>4, <1>5, <1>6, <1>7 DEF StoreOK
<1>9. Extends(s, n)
  BY <1>2 DEF Extends
<1>10. \A p \in Ops : Completed(n, p) <=> Completed(s, p)
  BY <1>1, <1>2 DEF Completed, Recorded
<1>11. QED
  BY <1>1, <1>8, <1>9, <1>10 DEF n

\* A restart's sweep changes no request, no reservation and no completion.
LEMMA InterruptKeeps ==
    ASSUME asked \subseteq Ops, NEW s \in HostState, StoreOK(s)
    PROVE  LET n == MarkInterrupted(s) IN
           /\ n \in HostState
           /\ n.rows = s.rows
           /\ StoreOK(n)
           /\ Extends(s, n) /\ Extends(n, s)
           /\ \A p \in Ops : Completed(n, p) <=> Completed(s, p)
<1> DEFINE n == MarkInterrupted(s)
<1>1. /\ n \in HostState
      /\ n.rows = s.rows
      /\ \A o \in Ops :
           /\ Recorded(n, o) <=> Recorded(s, o)
           /\ Recorded(s, o) => n.ops[o].req = s.ops[o].req
           /\ Recorded(s, o) => (n.ops[o].state = "completed" <=> s.ops[o].state = "completed")
  BY InterruptFacts
<1> HIDE DEF n
<1>2. ASSUME NEW p \in Ops, Recorded(s, p)
      PROVE  /\ Recorded(n, p) /\ n.ops[p].req = s.ops[p].req
             /\ TicketsOf(n, p) = TicketsOf(s, p) /\ Reserving(n, p) = Reserving(s, p)
             /\ \A x : TicketOf(n, p, x) = TicketOf(s, p, x)
  BY <1>1, <1>2, SameTickets, SMTT(30)
<1>3. ASSUME NEW t \in Tickets, n.rows[t] # None PROVE RowOK(n, t)
  <2>1. RowOK(s, t) /\ s.rows[t].op \in Ops
    BY <1>1, <1>3, SMTT(30) DEF StoreOK, HostState, Row
  <2>2. /\ Recorded(n, s.rows[t].op) /\ n.ops[s.rows[t].op].req = s.ops[s.rows[t].op].req
        /\ s.ops[s.rows[t].op].state = "completed" => n.ops[s.rows[t].op].state = "completed"
    BY <1>1, <2>1 DEF RowOK
  <2>3. QED
    BY <1>1, <2>1, <2>2, RowKept
<1>4. \A p \in Ops : Recorded(n, p) => RequestOK(n, p)
  BY <1>1, <1>2 DEF StoreOK, RequestOK
<1>5. \A p \in asked : AskedOK(n, p)
  BY <1>1, <1>2 DEF StoreOK, AskedOK
<1>6. \A p \in Ops : Recorded(n, p) /\ n.ops[p].state = "completed" => CompletedOK(n, p)
  BY <1>1, <1>2 DEF StoreOK, CompletedOK
<1>7. StoreOK(n)
  BY <1>3, <1>4, <1>5, <1>6 DEF StoreOK
<1>8. QED
  BY <1>1, <1>7 DEF Extends, Completed, n

\* The runtime that an operation has a ticket for is the one of the ticket and of its row.
LEMMA RuntimeOfTicket ==
    ASSUME NEW s \in HostState, StoreOK(s), NEW o \in Ops, Recorded(s, o), NEW t \in TicketsOf(s, o)
    PROVE  /\ t \in Tickets
           /\ \E r \in Reserving(s, o) :
                /\ t = TicketOf(s, o, r)
                /\ s.rows[t] # None /\ s.rows[t].op = o => s.rows[t].rt = r
<1>1. PICK r \in Reserving(s, o) : t = TicketOf(s, o, r)
  BY RecordedFacts
<1>2. t \in Tickets /\ t # None
  BY RecordedFacts
<1>3. ASSUME s.rows[t] # None, s.rows[t].op = o PROVE s.rows[t].rt = r
  <2>1. TicketOf(s, o, s.rows[t].rt) = t /\ s.rows[t].rt \in Runtimes
    BY <1>2, <1>3 DEF StoreOK, RowOK, HostState, Row
  <2>2. s.rows[t].rt \in Reserving(s, o)
    BY <1>2, <2>1 DEF Reserving
  <2>3. QED
    BY <1>1, <2>1, <2>2 DEF StoreOK, RequestOK
<1>4. QED
  BY <1>1, <1>2, <1>3

\* The reservations of an operation that holds its tickets, when no other has them.
LEMMA ReserveKeeps ==
    ASSUME TypeOK, StoreOK(mem), TicketsOK, AskedHolds, up,
           NEW o \in Ops, Recorded(mem, o), mem.ops[o].state # "completed", ~RowConflict(o),
           \A r \in Reserving(mem, o) : Holds(TicketOf(mem, o, r), r, o)
    PROVE  LET n == ReserveRows(mem, o) IN
           /\ n \in HostState
           /\ n.ops = mem.ops
           /\ StoreOK(n)
           /\ \A t \in TicketsOf(mem, o) : n.rows[t] # None /\ n.rows[t].op = o
<1> DEFINE rows == [t \in Tickets |-> RowFor(mem, o, t)]
           n == ReserveRows(mem, o)
<1>1. mem \in HostState /\ asked \subseteq Ops /\ TicketsOf(mem, o) \subseteq Tickets
      /\ mem.ops[o].req \in Request
  BY RecordedFacts DEF TypeOK
<1>2. ASSUME NEW t \in TicketsOf(mem, o)
      PROVE  /\ RowFor(mem, o, t) \in Row
             /\ RowFor(mem, o, t).op = o
             /\ RowFor(mem, o, t).src = mem.ops[o].req.src
             /\ TicketOf(mem, o, RowFor(mem, o, t).rt) = t
             /\ IssuedFor(t, RowFor(mem, o, t).rt, RowFor(mem, o, t).src, RowFor(mem, o, t).target)
             /\ Fits(RowFor(mem, o, t).target, mem.ops[o].req)
             /\ RowFor(mem, o, t).status = "committed" => CommittedTo(o, RowFor(mem, o, t).target)
             /\ RowFor(mem, o, t).status # "consumed"
             /\ o \in asked => RowFor(mem, o, t).attempted
  <2>1. PICK r \in Reserving(mem, o) : t = TicketOf(mem, o, r)
    BY <1>1, RecordedFacts
  <2>2. t \in Tickets /\ Holds(t, r, o) /\ tickets[t] \in Ticket
    BY <1>1, <2>1 DEF Holds, TypeOK
  <2>3. /\ IssuedFor(t, tickets[t].rt, tickets[t].src, tickets[t].target)
        /\ tickets[t].status = "committed" => CommittedTo(o, tickets[t].target)
    BY <2>2 DEF TicketsOK, Holds
  <2>4. o \in asked => tickets[t].attempted
    BY <2>1 DEF AskedHolds
  <2>5. /\ RowFor(mem, o, t).op = o /\ RowFor(mem, o, t).rt = r
        /\ RowFor(mem, o, t).src = mem.ops[o].req.src
        /\ RowFor(mem, o, t).target = tickets[t].target
        /\ RowFor(mem, o, t).attempted = tickets[t].attempted
        /\ RowFor(mem, o, t).status \in {"reserved", "committed"}
        /\ RowFor(mem, o, t).status = "committed" => tickets[t].status = "committed"
    BY <2>2 DEF RowFor, Holds
  <2>6. mem.ops[o].req.src \in Sources
    BY <1>1 DEF Request
  <2>7. RowFor(mem, o, t) \in Row
    BY <2>2, <2>6 DEF RowFor, Row, Ticket
  <2>8. QED
    BY <2>1, <2>2, <2>3, <2>4, <2>5, <2>7 DEF Holds
<1>3. \A t \in TicketsOf(mem, o) : rows[t] = RowFor(mem, o, t)
  BY <1>1
<1>4. /\ n \in HostState
      /\ n.ops = mem.ops
      /\ \A t \in Tickets : n.rows[t] = IF t \in TicketsOf(mem, o) THEN rows[t] ELSE mem.rows[t]
  BY <1>1, <1>2, <1>3, WithRowsFacts DEF ReserveRows
<1> HIDE DEF rows, n
<1>5. ASSUME NEW t \in TicketsOf(mem, o)
      PROVE  /\ n.rows[t] # None /\ n.rows[t].op = o /\ RowOK(n, t)
             /\ mem.rows[t] # None => mem.rows[t].op = o
             /\ o \in asked => n.rows[t].attempted
  <2>1. n.rows[t] = RowFor(mem, o, t) /\ t \in Tickets
    BY <1>1, <1>3, <1>4
  <2>2. \A r : TicketOf(n, o, r) = TicketOf(mem, o, r)
    BY <1>4 DEF TicketOf
  <2>3. n.rows[t] # None
    BY <1>2, <2>1, NoneIsNoRecord
  <2>4. RowOK(n, t)
    BY <1>2, <1>4, <2>1, <2>2 DEF RowOK, Recorded
  <2>5. mem.rows[t] # None => mem.rows[t].op = o
    <3>1. mem.rows[t] # None => mem.rows[t].op \in Ops
      BY <2>1 DEF TypeOK, HostState, Row
    <3>2. QED
      BY <3>1, NoneAssumption DEF RowConflict, OtherOperation
  <2>6. QED
    BY <1>2, <2>1, <2>3, <2>4, <2>5
<1>6. StoreOK(n)
  BY <1>1, <1>4, <1>5, ChangeKeeps DEF Recorded
<1>7. QED
  BY <1>4, <1>5, <1>6 DEF n

\* A change of the rows of an operation's own tickets: each stays its operation's, and in
\* order.
LEMMA OwnRowsKeep ==
    ASSUME TypeOK, StoreOK(mem), NEW o \in Ops, Recorded(mem, o),
           mem.ops[o].state # "completed", NEW rows,
           \A t \in TicketsOf(mem, o) : mem.rows[t] # None /\ mem.rows[t].op = o,
           \A t \in TicketsOf(mem, o) :
             /\ rows[t] \in Row
             /\ rows[t].op = o /\ rows[t].rt = mem.rows[t].rt /\ rows[t].src = mem.rows[t].src
             /\ o \in asked => rows[t].attempted
             /\ IssuedFor(t, rows[t].rt, rows[t].src, rows[t].target)
             /\ Fits(rows[t].target, mem.ops[o].req)
             /\ rows[t].status = "committed" => CommittedTo(o, rows[t].target)
             /\ rows[t].status # "consumed"
    PROVE  LET n == WithRows(mem, o, rows) IN
           /\ n \in HostState
           /\ n.ops = mem.ops
           /\ StoreOK(n)
           /\ \A t \in TicketsOf(mem, o) : n.rows[t] = rows[t] /\ n.rows[t] # None
<1> DEFINE n == WithRows(mem, o, rows)
<1>1. mem \in HostState /\ asked \subseteq Ops /\ TicketsOf(mem, o) \subseteq Tickets
  BY RecordedFacts DEF TypeOK
<1>2. /\ n \in HostState
      /\ n.ops = mem.ops
      /\ \A t \in Tickets : n.rows[t] = IF t \in TicketsOf(mem, o) THEN rows[t] ELSE mem.rows[t]
  BY <1>1, WithRowsFacts
<1> HIDE DEF n
<1>3. ASSUME NEW t \in TicketsOf(mem, o)
      PROVE  n.rows[t] = rows[t] /\ n.rows[t] # None /\ RowOK(n, t)
  <2>1. n.rows[t] = rows[t] /\ n.rows[t] # None
    BY <1>1, <1>2, NoneIsNoRecord
  <2>2. \A r : TicketOf(n, o, r) = TicketOf(mem, o, r)
    BY <1>2 DEF TicketOf
  <2>3. TicketOf(mem, o, rows[t].rt) = t /\ rows[t].src = mem.ops[o].req.src
    BY <1>1 DEF StoreOK, RowOK
  <2>4. Recorded(n, o) /\ n.ops[o] = mem.ops[o]
    BY <1>2 DEF Recorded
  <2>5. RowOK(n, t)
    BY <2>1, <2>2, <2>3, <2>4 DEF RowOK
  <2>6. QED
    BY <2>1, <2>5
<1>4. StoreOK(n)
  BY <1>1, <1>2, <1>3, ChangeKeeps DEF Recorded
<1>5. QED
  BY <1>2, <1>3, <1>4 DEF n

\* What the row of an operation that has not completed says.
LEMMA OwnRowFacts ==
    ASSUME TypeOK, StoreOK(mem), NEW o \in Ops, Recorded(mem, o),
           NEW t \in TicketsOf(mem, o), mem.rows[t] # None, mem.rows[t].op = o
    PROVE  /\ t \in Tickets /\ mem.rows[t] \in Row
           /\ mem.rows[t].status = "consumed" => mem.ops[o].state = "completed"
           /\ IssuedFor(t, mem.rows[t].rt, mem.rows[t].src, mem.rows[t].target)
           /\ Fits(mem.rows[t].target, mem.ops[o].req)
           /\ mem.rows[t].status = "committed" => CommittedTo(o, mem.rows[t].target)
<1>1. t \in Tickets
  BY RecordedFacts DEF TypeOK
<1>2. QED
  BY <1>1 DEF TypeOK, HostState, StoreOK, RowOK

LEMMA AttemptKeeps ==
    ASSUME TypeOK, StoreOK(mem), NEW o \in Ops, Recorded(mem, o),
           mem.ops[o].state # "completed",
           \A t \in TicketsOf(mem, o) : mem.rows[t] # None /\ mem.rows[t].op = o
    PROVE  LET n == AttemptRows(mem, o) IN
           /\ n \in HostState
           /\ n.ops = mem.ops
           /\ StoreOK(n)
           /\ \A t \in TicketsOf(mem, o) :
                n.rows[t] # None /\ n.rows[t].op = o /\ n.rows[t].attempted
<1> DEFINE rows == [t \in Tickets |-> [mem.rows[t] EXCEPT !.attempted = TRUE]]
           n == AttemptRows(mem, o)
<1>1. ASSUME NEW t \in TicketsOf(mem, o)
      PROVE  /\ rows[t] \in Row
             /\ rows[t].op = o /\ rows[t].rt = mem.rows[t].rt /\ rows[t].src = mem.rows[t].src
             /\ rows[t].attempted
             /\ IssuedFor(t, rows[t].rt, rows[t].src, rows[t].target)
             /\ Fits(rows[t].target, mem.ops[o].req)
             /\ rows[t].status = "committed" => CommittedTo(o, rows[t].target)
             /\ rows[t].status # "consumed"
  <2> DEFINE w == mem.rows[t]
             v == [op |-> w.op, rt |-> w.rt, src |-> w.src, target |-> w.target,
                   status |-> w.status, attempted |-> TRUE]
  <2>1. /\ t \in Tickets /\ w \in Row /\ w.op = o /\ w.status # "consumed"
        /\ IssuedFor(t, w.rt, w.src, w.target) /\ Fits(w.target, mem.ops[o].req)
        /\ w.status = "committed" => CommittedTo(o, w.target)
    BY OwnRowFacts
  <2>2. rows[t] = [w EXCEPT !.attempted = TRUE]
    BY <2>1
  <2> HIDE DEF rows, w
  <2>3. rows[t] = v
    BY <2>1, <2>2 DEF Row
  <2>4. v \in Row
    BY <2>1 DEF Row
  <2>5. QED
    BY <2>1, <2>3, <2>4 DEF w
<1>2. n = WithRows(mem, o, rows)
  BY DEF AttemptRows
<1> HIDE DEF rows, n
<1>3. /\ n \in HostState
      /\ n.ops = mem.ops
      /\ StoreOK(n)
      /\ \A t \in TicketsOf(mem, o) : n.rows[t] = rows[t] /\ n.rows[t] # None
  BY <1>1, <1>2, OwnRowsKeep
<1>4. QED
  BY <1>1, <1>3 DEF n

LEMMA CommitRowsKeeps ==
    ASSUME TypeOK, StoreOK(mem), TicketsOK, NEW o \in Ops, Recorded(mem, o),
           mem.ops[o].state # "completed",
           \A t \in TicketsOf(mem, o) :
             mem.rows[t] # None /\ mem.rows[t].op = o /\ mem.rows[t].attempted,
           \A r \in Reserving(mem, o) : Holds(TicketOf(mem, o, r), r, o),
           \A t \in TicketsOf(mem, o) : tickets[t].status = "committed"
    PROVE  LET n == CommitRows(mem, o) IN
           /\ n \in HostState
           /\ n.ops = mem.ops
           /\ StoreOK(n)
           /\ \A t \in TicketsOf(mem, o) :
                n.rows[t] # None /\ n.rows[t].op = o /\ n.rows[t].attempted
<1> DEFINE rows == [t \in Tickets |-> [mem.rows[t] EXCEPT !.status = "committed",
                                                          !.target = tickets[t].target]]
           n == CommitRows(mem, o)
<1>1. ASSUME NEW t \in TicketsOf(mem, o)
      PROVE  /\ rows[t] \in Row
             /\ rows[t].op = o /\ rows[t].rt = mem.rows[t].rt /\ rows[t].src = mem.rows[t].src
             /\ rows[t].attempted
             /\ IssuedFor(t, rows[t].rt, rows[t].src, rows[t].target)
             /\ Fits(rows[t].target, mem.ops[o].req)
             /\ CommittedTo(o, rows[t].target)
             /\ rows[t].status # "consumed"
  <2> DEFINE w == mem.rows[t]
             v == [op |-> w.op, rt |-> w.rt, src |-> w.src, target |-> tickets[t].target,
                   status |-> "committed", attempted |-> w.attempted]
  <2>1. /\ t \in Tickets /\ w \in Row /\ w.op = o /\ w.attempted
        /\ IssuedFor(t, w.rt, w.src, w.target)
    BY OwnRowFacts
  <2>2. PICK r \in Reserving(mem, o) : t = TicketOf(mem, o, r) /\ w.rt = r
    BY RuntimeOfTicket DEF TypeOK
  <2>3. Holds(t, r, o) /\ tickets[t] \in Ticket /\ tickets[t].status = "committed"
    BY <2>1, <2>2 DEF Holds, TypeOK
  <2>4. /\ IssuedFor(t, w.rt, w.src, tickets[t].target)
        /\ Fits(tickets[t].target, mem.ops[o].req)
        /\ CommittedTo(o, tickets[t].target)
    BY <2>1, <2>2, <2>3 DEF TicketsOK, Holds, IssuedFor
  <2>5. rows[t] = [w EXCEPT !.status = "committed", !.target = tickets[t].target]
    BY <2>1
  <2>6. tickets[t].target \in Sessions \cup {None}
    BY <2>3 DEF Ticket
  <2> HIDE DEF rows, w
  <2>7. rows[t] = v
    BY <2>1, <2>5, <2>6 DEF Row
  <2>8. v \in Row
    BY <2>1, <2>6 DEF Row
  <2>9. QED
    BY <2>1, <2>4, <2>7, <2>8 DEF w
<1>2. n = WithRows(mem, o, rows)
  BY DEF CommitRows
<1> HIDE DEF rows, n
<1>3. /\ n \in HostState
      /\ n.ops = mem.ops
      /\ StoreOK(n)
      /\ \A t \in TicketsOf(mem, o) : n.rows[t] = rows[t] /\ n.rows[t] # None
  BY <1>1, <1>2, OwnRowsKeep
<1>4. QED
  BY <1>1, <1>3 DEF n

\* The last write: the operation completes and its reservations are consumed with it.
LEMMA ConsumeKeeps ==
    ASSUME TypeOK, StoreOK(mem), NEW o \in Ops, o \in asked, Recorded(mem, o),
           mem.ops[o].state # "completed",
           \A t \in TicketsOf(mem, o) :
             mem.rows[t] # None /\ mem.rows[t].op = o /\ mem.rows[t].attempted
    PROVE  LET n == ConsumeRows(mem, o) IN
           /\ n \in HostState
           /\ StoreOK(n)
           /\ Extends(mem, n)
           /\ \A p \in Ops : Completed(n, p) <=> p = o \/ Completed(mem, p)
<1> DEFINE rows == [t \in Tickets |-> [mem.rows[t] EXCEPT !.status = "consumed"]]
           m == WithRows(mem, o, rows)
           n == ConsumeRows(mem, o)
<1>1. mem \in HostState /\ asked \subseteq Ops /\ TicketsOf(mem, o) \subseteq Tickets
  BY RecordedFacts DEF TypeOK
<1>2. ASSUME NEW t \in TicketsOf(mem, o)
      PROVE  /\ rows[t] \in Row
             /\ rows[t].op = o /\ rows[t].rt = mem.rows[t].rt /\ rows[t].src = mem.rows[t].src
             /\ rows[t].attempted
             /\ IssuedFor(t, rows[t].rt, rows[t].src, rows[t].target)
             /\ Fits(rows[t].target, mem.ops[o].req)
             /\ rows[t].status = "consumed"
  <2> DEFINE w == mem.rows[t]
             v == [op |-> w.op, rt |-> w.rt, src |-> w.src, target |-> w.target,
                   status |-> "consumed", attempted |-> w.attempted]
  <2>1. /\ t \in Tickets /\ w \in Row /\ w.op = o /\ w.attempted
        /\ IssuedFor(t, w.rt, w.src, w.target) /\ Fits(w.target, mem.ops[o].req)
    BY OwnRowFacts
  <2>2. rows[t] = [w EXCEPT !.status = "consumed"]
    BY <2>1
  <2> HIDE DEF rows, w
  <2>3. rows[t] = v
    BY <2>1, <2>2, ZenonT(60) DEF Row
  <2>4. v \in Row
    BY <2>1 DEF Row
  <2>5. QED
    BY <2>1, <2>3, <2>4 DEF w
<1>3. n = SetState(m, o, "completed", "NONE")
  BY DEF ConsumeRows
<1> HIDE DEF rows
<1>4. /\ m \in HostState
      /\ m.ops = mem.ops
      /\ \A t \in Tickets : m.rows[t] = IF t \in TicketsOf(mem, o) THEN rows[t] ELSE mem.rows[t]
  BY <1>1, <1>2, WithRowsFacts
<1> HIDE DEF m, n
<1>5. /\ n \in HostState
      /\ n.rows = m.rows
      /\ Recorded(n, o)
      /\ n.ops[o].req = mem.ops[o].req
      /\ n.ops[o].state = "completed"
      /\ \A p \in Ops \ {o} : n.ops[p] = mem.ops[p]
  <2>1. Recorded(m, o) /\ "completed" \in OpStates /\ "NONE" \in Codes
    BY <1>4 DEF Recorded, OpStates, Codes
  <2>2. /\ n \in HostState
        /\ n.rows = m.rows
        /\ Recorded(n, o)
        /\ n.ops[o].req = m.ops[o].req
        /\ n.ops[o].state = "completed"
        /\ \A p \in Ops \ {o} : n.ops[p] = m.ops[p]
    BY <1>3, <1>4, <2>1, SetStateFacts
  <2>3. QED
    BY <1>4, <2>2
<1>6. TicketsOf(n, o) = TicketsOf(mem, o) /\ \A r : TicketOf(n, o, r) = TicketOf(mem, o, r)
  BY <1>5, SameTickets
<1>7. ASSUME NEW t \in TicketsOf(mem, o)
      PROVE  /\ n.rows[t] = rows[t] /\ n.rows[t] # None /\ RowOK(n, t)
  <2>1. n.rows[t] = rows[t] /\ n.rows[t] # None /\ t \in Tickets
    BY <1>1, <1>2, <1>4, <1>5, NoneIsNoRecord
  <2>2. TicketOf(mem, o, rows[t].rt) = t /\ rows[t].src = mem.ops[o].req.src
    BY <1>2, <2>1 DEF StoreOK, RowOK
  <2>3. RowOK(n, t)
    BY <1>2, <1>5, <1>6, <2>1, <2>2 DEF RowOK
  <2>4. QED
    BY <2>1, <2>3
<1>8. CompletedOK(n, o)
  BY <1>2, <1>6, <1>7 DEF CompletedOK
<1>9. StoreOK(n)
  BY <1>1, <1>2, <1>4, <1>5, <1>7, <1>8, ChangeKeeps
<1>10. Extends(mem, n)
  BY <1>5 DEF Extends, Recorded
<1>11. \A p \in Ops : Completed(n, p) <=> p = o \/ Completed(mem, p)
  BY <1>5 DEF Completed, Recorded
<1>12. QED
  BY <1>5, <1>9, <1>10, <1>11 DEF n

-----------------------------------------------------------------------------
(* What a step keeps of the invariant, by the variables it changes.           *)

Stages == {"created", "bound", "reserved", "ensured", "attempted", "calling", "called",
           "committed", "recorded", "refused", "caught"}

LEMMA CaughtFacts ==
    ASSUME NEW r \in [pc : Stages, op : Ops, code : Codes], NEW code \in Codes, NEW n,
           n = [r EXCEPT !.pc = "caught", !.code = code]
    PROVE  n = [pc |-> "caught", op |-> r.op, code |-> code]
  OBVIOUS

\* The daemon, when it serves a request.
LEMMA HandlerFacts ==
    ASSUME TypeOK, h.pc # "idle"
    PROVE  /\ h \in [pc : Stages, op : Ops, code : Codes]
           /\ h.op \in Ops /\ h.code \in Codes
           /\ \A pc \in Stages : At(pc) = [pc |-> pc, op |-> h.op, code |-> h.code]
           /\ \A code \in Codes : Caught(code) = [pc |-> "caught", op |-> h.op, code |-> code]
<1>1. h \in [pc : Stages, op : Ops, code : Codes]
  BY DEF TypeOK, Idle, Stages
<1>2. ASSUME NEW pc \in Stages PROVE At(pc) = [pc |-> pc, op |-> h.op, code |-> h.code]
  BY <1>1 DEF At
<1>3. ASSUME NEW code \in Codes
      PROVE  Caught(code) = [pc |-> "caught", op |-> h.op, code |-> code]
  <2> DEFINE n == Caught(code)
  <2>1. n = [h EXCEPT !.pc = "caught", !.code = code]
    BY DEF Caught
  <2> HIDE DEF n
  <2>2. QED
    BY <1>1, <2>1, CaughtFacts DEF n
<1>4. QED
  BY <1>1, <1>2, <1>3

\* What was asked is recorded, on disk and in memory, as the same request.
LEMMA AskedIsRecorded ==
    ASSUME IInv, NEW o \in asked
    PROVE  /\ o \in Ops
           /\ Recorded(mem, o) /\ Recorded(disk, o)
           /\ disk.ops[o].req = mem.ops[o].req
           /\ \A r : TicketOf(disk, o, r) = TicketOf(mem, o, r)
  BY DEF IInv, TypeOK, StoreOK, AskedOK, SameRequests, TicketOf

\* What was issued, asked and opened stays so.
Grows ==
    /\ asked \subseteq asked'
    /\ \A o \in Ops : effect[o] # None => effect'[o] = effect[o]
    /\ \A t \in Tickets : issued[t] # None => issued'[t] = issued[t]

LEMMA IssuedStays ==
    ASSUME Grows, NEW t \in Tickets, NEW r, NEW src, NEW target, IssuedFor(t, r, src, target)
    PROVE  /\ issued'[t] # None
           /\ issued'[t].rt = r
           /\ issued'[t].src = src
           /\ issued'[t].target \in {None, target}
  BY DEF Grows, IssuedFor

LEMMA CommittedStays ==
    ASSUME Grows, NEW o \in Ops, NEW target, CommittedTo(o, target)
    PROVE  o \in asked' /\ target # None /\ effect'[o] = target
  BY DEF Grows, CommittedTo

\* A store state that is in order stays in order when more was issued and asked.
OrderAfter(s) ==
    /\ \A t \in Tickets : s.rows[t] # None =>
         LET w == s.rows[t]
         IN  /\ Recorded(s, w.op)
             /\ TicketOf(s, w.op, w.rt) = t
             /\ w.src = s.ops[w.op].req.src
             /\ issued'[t] # None /\ issued'[t].rt = w.rt /\ issued'[t].src = w.src
             /\ issued'[t].target \in {None, w.target}
             /\ Fits(w.target, s.ops[w.op].req)
             /\ w.status = "committed" =>
                  w.op \in asked' /\ w.target # None /\ effect'[w.op] = w.target
             /\ w.status = "consumed" => s.ops[w.op].state = "completed"
    /\ \A o \in Ops : Recorded(s, o) =>
         /\ \A t \in TicketsOf(s, o) : issued'[t] # None
         /\ \A x, y \in Reserving(s, o) : TicketOf(s, o, x) = TicketOf(s, o, y) => x = y
    /\ \A o \in asked' : AskedOK(s, o)
    /\ \A o \in Ops : Recorded(s, o) /\ s.ops[o].state = "completed" =>
         o \in asked' /\ \A t \in TicketsOf(s, o) : s.rows[t] # None /\ s.rows[t].status = "consumed"

LEMMA OrderGrows ==
    ASSUME TypeOK, Grows, NEW s \in HostState, StoreOK(s), \A o \in asked' \ asked : AskedOK(s, o)
    PROVE  OrderAfter(s)
<1>1. ASSUME NEW t \in Tickets, s.rows[t] # None
      PROVE  LET w == s.rows[t]
             IN  /\ Recorded(s, w.op)
                 /\ TicketOf(s, w.op, w.rt) = t
                 /\ w.src = s.ops[w.op].req.src
                 /\ issued'[t] # None /\ issued'[t].rt = w.rt /\ issued'[t].src = w.src
                 /\ issued'[t].target \in {None, w.target}
                 /\ Fits(w.target, s.ops[w.op].req)
                 /\ w.status = "committed" =>
                      w.op \in asked' /\ w.target # None /\ effect'[w.op] = w.target
                 /\ w.status = "consumed" => s.ops[w.op].state = "completed"
  <2>1. RowOK(s, t) /\ s.rows[t].op \in Ops
    BY <1>1, SMTT(30) DEF StoreOK, HostState, Row
  <2>2. IssuedFor(t, s.rows[t].rt, s.rows[t].src, s.rows[t].target)
    BY <2>1 DEF RowOK
  <2>3. /\ issued'[t] # None /\ issued'[t].rt = s.rows[t].rt /\ issued'[t].src = s.rows[t].src
        /\ issued'[t].target \in {None, s.rows[t].target}
    BY <2>2, IssuedStays
  <2>4. s.rows[t].status = "committed" =>
          /\ s.rows[t].op \in asked' /\ s.rows[t].target # None
          /\ effect'[s.rows[t].op] = s.rows[t].target
    <3>1. s.rows[t].status = "committed" => CommittedTo(s.rows[t].op, s.rows[t].target)
      BY <2>1 DEF RowOK
    <3>2. QED
      BY <2>1, <3>1, CommittedStays, SMTT(30)
  <2>5. QED
    BY <2>1, <2>3, <2>4 DEF RowOK
<1>2. ASSUME NEW o \in Ops, Recorded(s, o)
      PROVE  /\ \A t \in TicketsOf(s, o) : issued'[t] # None
             /\ \A x, y \in Reserving(s, o) : TicketOf(s, o, x) = TicketOf(s, o, y) => x = y
  <2>1. RequestOK(s, o) /\ TicketsOf(s, o) \subseteq Tickets
    BY <1>2, RecordedFacts DEF StoreOK
  <2>2. QED
    BY <2>1 DEF RequestOK, Grows
<1>3. \A o \in asked' : AskedOK(s, o)
  BY DEF StoreOK
<1>4. ASSUME NEW o \in Ops, Recorded(s, o), s.ops[o].state = "completed"
      PROVE  /\ o \in asked'
             /\ \A t \in TicketsOf(s, o) : s.rows[t] # None /\ s.rows[t].status = "consumed"
  BY <1>4, SMTT(30) DEF StoreOK, CompletedOK, Grows
<1>5. QED
  BY <1>1, <1>2, <1>3, <1>4, SMTT(30) DEF OrderAfter

LEMMA OrderOnDisk ==
    ASSUME OrderAfter(disk') PROVE StoreOK(disk)'
  BY ZenonT(60) DEF OrderAfter, StoreOK, RowOK, RequestOK, AskedOK, CompletedOK, CommittedTo, IssuedFor,
         Recorded, Reserving, TicketOf, TicketsOf, Fits

LEMMA OrderInMemory ==
    ASSUME OrderAfter(mem') PROVE StoreOK(mem)'
  BY DEF OrderAfter, StoreOK, RowOK, RequestOK, AskedOK, CompletedOK, CommittedTo, IssuedFor,
         Recorded, Reserving, TicketOf, TicketsOf, Fits

\* A step of the store: what it leaves of the order of both states, and of the requests.
StoreStep ==
    /\ disk' \in HostState /\ mem' \in HostState
    /\ faults' \in Nat
    /\ StoreOK(disk)' /\ StoreOK(mem)'
    /\ SameRequests'
    /\ Extends(mem, mem')
    /\ \A o \in asked : disk'.ops[o].req = disk.ops[o].req

\* A step that writes nothing.
LEMMA NothingWritten ==
    ASSUME IInv, Grows, UNCHANGED <<disk, mem, faults>>,
           \A o \in asked' \ asked : AskedOK(disk, o) /\ AskedOK(mem, o)
    PROVE  StoreStep
<1>1. TypeOK /\ StoreOK(disk) /\ StoreOK(mem) /\ disk \in HostState /\ mem \in HostState
  BY DEF IInv, TypeOK
<1>2. OrderAfter(disk) /\ OrderAfter(mem)
  BY <1>1, OrderGrows
<1>3. StoreOK(disk)' /\ StoreOK(mem)'
  BY <1>2, OrderOnDisk, OrderInMemory
<1>4. SameRequests'
  BY DEF IInv, SameRequests, Recorded
<1>5. QED
  BY <1>1, <1>3, <1>4 DEF StoreStep, TypeOK, Extends

\* An update of the store, whether its write succeeds or fails.
LEMMA Written ==
    ASSUME IInv, UNCHANGED <<asked, effect, issued>>,
           NEW next \in HostState, StoreOK(next), Extends(mem, next),
           WriteOk(next) \/ WriteFails(next)
    PROVE  StoreStep /\ (mem' = mem \/ mem' = next)
<1>1. TypeOK /\ StoreOK(disk) /\ StoreOK(mem) /\ disk \in HostState /\ mem \in HostState
      /\ SameRequests
  BY DEF IInv, TypeOK
<1>2. Grows
  BY DEF Grows
<1>3. OrderAfter(disk) /\ OrderAfter(mem) /\ OrderAfter(next)
  BY <1>1, <1>2, OrderGrows
<1>4. disk' \in {disk, next} /\ (mem' = mem \/ (mem' = next /\ disk' = next))
  BY DEF WriteOk, WriteFails
<1>5. StoreOK(disk)' /\ StoreOK(mem)'
  BY <1>3, <1>4, OrderOnDisk, OrderInMemory
<1>6. \A o \in Ops : Recorded(mem', o) => Recorded(disk', o) /\ disk'.ops[o].req = mem'.ops[o].req
  BY <1>1, <1>4 DEF SameRequests, Extends
<1>7. SameRequests'
  BY ONLY <1>6 DEF SameRequests, Recorded
<1>8. faults' \in Nat
  BY <1>1 DEF WriteOk, WriteFails, TypeOK
<1>9. \A o \in asked : disk'.ops[o].req = disk.ops[o].req
  BY <1>4, AskedIsRecorded DEF Extends
<1>10. Extends(mem, mem')
  BY <1>4 DEF Extends
<1>11. QED
  BY <1>1, <1>4, <1>5, <1>7, <1>8, <1>9, <1>10 DEF StoreStep

\* What a step of the store keeps of the parts whose own variables it leaves alone.
LEMMA StoreStepKeeps ==
    ASSUME IInv, Grows, StoreStep
    PROVE  /\ UNCHANGED <<asked, effect>> /\ calls' \subseteq calls => SessionOK'
           /\ UNCHANGED pending => PendingOK'
           /\ UNCHANGED commits => CommitsOK'
           /\ UNCHANGED leases => LeaseIsEarned'
           /\ UNCHANGED tickets => TicketsOK'
           /\ /\ UNCHANGED <<asked, up, tickets>>
              /\ \A p \in Ops : Completed(mem', p) <=> Completed(mem, p)
              => AskedHolds'
<1>1. \A o \in Ops : Recorded(mem, o) =>
        /\ Recorded(mem', o) /\ mem'.ops[o].req = mem.ops[o].req
        /\ Reserving(mem', o) = Reserving(mem, o) /\ TicketsOf(mem', o) = TicketsOf(mem, o)
        /\ \A r : TicketOf(mem', o, r) = TicketOf(mem, o, r)
  BY SameTickets DEF StoreStep, Extends
<1>2. ASSUME UNCHANGED <<asked, effect>>, calls' \subseteq calls PROVE SessionOK'
  <2>1. \A o \in Ops : effect[o] # None => o \in asked /\ Fits(effect[o], disk'.ops[o].req)
    BY DEF IInv, SessionOK, StoreStep
  <2>2. QED
    BY <1>2, <2>1 DEF IInv, SessionOK, Fits
<1>3. ASSUME UNCHANGED pending PROVE PendingOK'
  <2>1. ASSUME NEW o \in Ops, NEW r \in Runtimes, pending[o][r] # None
        PROVE  /\ Brought(o, r, pending[o][r].ticket)'
               /\ IssuedFor(pending[o][r].ticket, r, mem.ops[o].req.src, pending[o][r].target)'
    <3>1. /\ Brought(o, r, pending[o][r].ticket)
          /\ IssuedFor(pending[o][r].ticket, r, mem.ops[o].req.src, pending[o][r].target)
          /\ pending[o][r].ticket \in Tickets
      BY <2>1 DEF IInv, PendingOK, TypeOK, Pending
    <3>2. /\ Recorded(mem', o) /\ mem'.ops[o].req = mem.ops[o].req
          /\ TicketOf(mem', o, r) = pending[o][r].ticket
      BY <1>1, <3>1 DEF Brought
    <3>3. LET t == pending[o][r].ticket IN
          /\ issued'[t] # None /\ issued'[t].rt = r
          /\ issued'[t].src = mem'.ops[o].req.src
          /\ issued'[t].target \in {None, pending[o][r].target}
      BY <3>1, <3>2, IssuedStays
    <3>4. QED
      BY <1>3, <3>1, <3>2, <3>3 DEF Brought, IssuedFor, Recorded, TicketOf
  <2>2. QED
    BY <1>3, <2>1 DEF PendingOK
<1>4. ASSUME UNCHANGED commits PROVE CommitsOK'
  <2>1. ASSUME NEW o \in Ops, NEW r \in Runtimes, commits[o][r] # None
        PROVE  /\ Brought(o, r, commits[o][r].ticket)'
               /\ IssuedFor(commits[o][r].ticket, r, mem.ops[o].req.src, commits[o][r].session)'
               /\ CommittedTo(o, commits[o][r].session)'
    <3>1. /\ Brought(o, r, commits[o][r].ticket)
          /\ IssuedFor(commits[o][r].ticket, r, mem.ops[o].req.src, commits[o][r].session)
          /\ CommittedTo(o, commits[o][r].session)
          /\ commits[o][r].ticket \in Tickets
      BY <2>1 DEF IInv, CommitsOK, TypeOK, Committed
    <3>2. /\ Recorded(mem', o) /\ mem'.ops[o].req = mem.ops[o].req
          /\ TicketOf(mem', o, r) = commits[o][r].ticket
      BY <1>1, <3>1 DEF Brought
    <3>3. LET t == commits[o][r].ticket IN
          /\ issued'[t] # None /\ issued'[t].rt = r
          /\ issued'[t].src = mem'.ops[o].req.src
          /\ issued'[t].target \in {None, commits[o][r].session}
      BY <3>1, <3>2, IssuedStays
    <3>4. /\ o \in asked' /\ commits[o][r].session # None
          /\ effect'[o] = commits[o][r].session
      BY <3>1, CommittedStays
    <3>5. QED
      BY <1>4, <3>1, <3>2, <3>3, <3>4 DEF Brought, IssuedFor, CommittedTo, Recorded, TicketOf
  <2>2. QED
    BY <1>4, <2>1 DEF CommitsOK
<1>5. ASSUME UNCHANGED leases PROVE LeaseIsEarned'
  <2>1. ASSUME NEW k \in LeaseKey, leases[k] # None
        PROVE  LET o == leases[k].op
                   t == leases[k].ticket
               IN  /\ issued'[t] # None
                   /\ issued'[t].rt = k.rt /\ issued'[t].src = k.src
                   /\ issued'[t].target \in {None, k.session}
                   /\ Recorded(disk', o)
                   /\ disk'.ops[o].req.src = k.src
                   /\ TicketOf(disk', o, k.rt) = t
                   /\ o \in asked'
                   /\ effect'[o] = k.session
    <3> DEFINE o == leases[k].op
               t == leases[k].ticket
    <3>1. leases[k] \in Lease /\ k.session # None /\ k.session \in Sessions
      BY <2>1, NoneAssumption DEF IInv, TypeOK, LeaseKey
    <3>2. /\ issued[t] # None
          /\ issued[t].rt = k.rt /\ issued[t].src = k.src /\ issued[t].target \in {None, k.session}
          /\ disk.ops[o].req.src = k.src
          /\ TicketOf(disk, o, k.rt) = t
          /\ o \in asked
          /\ effect[o] = k.session
      BY <2>1 DEF IInv, LeaseIsEarned
    <3>3. o \in Ops /\ t \in Tickets
      BY <3>1 DEF Lease
    <3> HIDE DEF o, t
    <3>4. issued'[t] = issued[t] /\ o \in asked' /\ effect'[o] = effect[o]
      BY <3>1, <3>2, <3>3 DEF Grows
    <3>5. Recorded(mem, o) /\ disk'.ops[o].req = disk.ops[o].req
      BY <3>2, AskedIsRecorded DEF StoreStep
    <3>6. Recorded(disk', o)
      <4>1. Recorded(mem', o)
        BY <1>1, <3>3, <3>5
      <4>2. \A p \in Ops : Recorded(mem', p) => Recorded(disk', p)
        BY DEF StoreStep, SameRequests, Recorded
      <4>3. QED
        BY <3>3, <4>1, <4>2
    <3>7. TicketOf(disk', o, k.rt) = TicketOf(disk, o, k.rt)
      BY <3>5 DEF TicketOf
    <3>8. QED
      BY <3>2, <3>4, <3>5, <3>6, <3>7 DEF o, t
  <2>2. QED
    BY <1>5, <2>1 DEF LeaseIsEarned, Recorded, TicketOf
<1>6. ASSUME UNCHANGED tickets PROVE TicketsOK'
  <2>1. ASSUME NEW t \in Tickets, tickets[t] # None
        PROVE  /\ issued'[t] # None /\ issued'[t].rt = tickets[t].rt
               /\ issued'[t].src = tickets[t].src
               /\ issued'[t].target \in {None, tickets[t].target}
               /\ tickets[t].status = "committed" =>
                    /\ tickets[t].op # None /\ tickets[t].op \in asked'
                    /\ tickets[t].target # None /\ effect'[tickets[t].op] = tickets[t].target
    <3>1. /\ IssuedFor(t, tickets[t].rt, tickets[t].src, tickets[t].target)
          /\ tickets[t].status = "committed" =>
               tickets[t].op # None /\ CommittedTo(tickets[t].op, tickets[t].target)
          /\ tickets[t].op \in Ops \cup {None}
      BY <2>1 DEF IInv, TicketsOK, TypeOK, Ticket
    <3>2. /\ issued'[t] # None /\ issued'[t].rt = tickets[t].rt
          /\ issued'[t].src = tickets[t].src
          /\ issued'[t].target \in {None, tickets[t].target}
      BY <3>1, IssuedStays
    <3>3. ASSUME tickets[t].status = "committed"
          PROVE  /\ tickets[t].op # None /\ tickets[t].op \in asked'
                 /\ tickets[t].target # None /\ effect'[tickets[t].op] = tickets[t].target
      BY <3>1, <3>3, CommittedStays
    <3>4. QED
      BY <3>2, <3>3
  <2>2. QED
    BY <1>6, <2>1 DEF TicketsOK, IssuedFor, CommittedTo
<1>7. ASSUME UNCHANGED <<asked, up, tickets>>,
             \A p \in Ops : Completed(mem', p) <=> Completed(mem, p)
      PROVE  AskedHolds'
  <2>1. ASSUME NEW o \in Ops, Recorded(mem', o), mem'.ops[o].state = "completed"
        PROVE  \A t \in TicketsOf(mem', o) : tickets[t] = None
    <3>1. Completed(mem, o)
      BY <1>7, <2>1, SMTT(30) DEF Completed
    <3>2. QED
      BY <1>1, <3>1 DEF IInv, AskedHolds, Completed
  <2>2. ASSUME NEW o \in Ops, Recorded(mem', o), mem'.ops[o].state # "completed", up, o \in asked,
               NEW r \in Reserving(mem', o)
        PROVE  Holds(TicketOf(mem, o, r), r, o)' /\ tickets'[TicketOf(mem', o, r)].attempted
    <3>1. Recorded(mem, o) /\ o \in Ops
      BY <2>2, AskedIsRecorded
    <3>2. mem.ops[o].state # "completed"
      BY <1>7, <2>2, <3>1 DEF Completed
    <3>3. /\ r \in Reserving(mem, o) /\ TicketOf(mem', o, r) = TicketOf(mem, o, r)
          /\ mem'.ops[o].req = mem.ops[o].req
      BY <1>1, <2>2, <3>1
    <3>4. Holds(TicketOf(mem, o, r), r, o) /\ tickets[TicketOf(mem, o, r)].attempted
      BY <2>2, <3>1, <3>2, <3>3 DEF IInv, AskedHolds
    <3>5. tickets' = tickets
      BY <1>7
    <3>6. QED
      BY <3>3, <3>4, <3>5 DEF Holds, TicketOf, Fits
  <2>3. ASSUME NEW o \in Ops, Recorded(mem', o), mem'.ops[o].state # "completed", up', o \in asked'
        PROVE  \A r \in Reserving(mem', o) :
                 Holds(TicketOf(mem, o, r), r, o)' /\ tickets'[TicketOf(mem', o, r)].attempted
    BY <1>7, <2>2, <2>3
  <2>4. ASSUME NEW o \in Ops, Recorded(mem', o)
        PROVE  IF mem'.ops[o].state = "completed"
               THEN \A t \in TicketsOf(mem', o) : tickets'[t] = None
               ELSE up' /\ o \in asked' =>
                    \A r \in Reserving(mem', o) :
                      Holds(TicketOf(mem, o, r), r, o)' /\ tickets'[TicketOf(mem', o, r)].attempted
    BY <1>7, <2>1, <2>3, <2>4
  <2>5. QED
    BY <2>4 DEF AskedHolds, Recorded, Reserving, TicketOf, TicketsOf
<1>8. QED
  BY <1>2, <1>3, <1>4, <1>5, <1>6, <1>7

\* A step that leaves the tickets and the runtime manager alone.
LEMMA StepKeeps ==
    ASSUME IInv, UNCHANGED <<up, tickets, manager, asked, effect, issued>>, calls' \subseteq calls,
           StoreStep, \A p \in Ops : Completed(mem', p) <=> Completed(mem, p),
           late' \subseteq Tickets, over' \subseteq Tickets, requests' \in Nat,
           h' = Idle \/ h' \in [pc : Stages, op : Ops, code : Codes],
           HandlerOK', DownOK'
    PROVE  IInv'
<1>1. Grows
  BY DEF Grows
<1>2. SessionOK' /\ TicketsOK' /\ PendingOK' /\ CommitsOK' /\ AskedHolds' /\ LeaseIsEarned'
  BY <1>1, StoreStepKeeps DEF manager
<1>3. TypeOK'
  BY DEF IInv, TypeOK, StoreStep, manager, Stages
<1>4. QED
  BY <1>2, <1>3 DEF IInv, StoreStep

\* The daemon is idle, or it ends an attempt without having changed the operation.
LEMMA HandlerEnds ==
    ASSUME IInv, up', UNCHANGED <<disk, mem>>,
           h'.pc # "idle" =>
             /\ h.pc # "idle" /\ h'.op = h.op
             /\ h'.pc = "caught" \/ (h'.pc = "refused" /\ h.pc # "caught")
    PROVE  HandlerOK' /\ DownOK'
  BY DEF IInv, HandlerOK, DownOK, Recorded, Holding, Reserved, Trying, Asking

LEMMA OpenKeeps ==
    ASSUME IInv, NEW o \in Ops, NEW r \in Request, Open(o, r)
    PROVE  IInv'
<1> DEFINE n == CreateOperation(mem, o, r)
<1>1. mem \in HostState /\ asked \subseteq Ops /\ StoreOK(mem) /\ requests \in Nat
  BY DEF IInv, TypeOK
<1>2. /\ n \in HostState /\ StoreOK(n) /\ Extends(mem, n)
      /\ \A p \in Ops : Completed(n, p) <=> Completed(mem, p)
      /\ Recorded(n, o) /\ n.ops[o].state = "running"
  BY <1>1, CreateKeeps, CreateFacts DEF Open
<1>3. /\ up /\ h.pc = "idle" /\ requests' \in Nat
      /\ \/ WriteOk(n) /\ h' = [pc |-> "created", op |-> o, code |-> "NONE"]
         \/ WriteFails(n) /\ UNCHANGED h
      /\ UNCHANGED <<up, tickets, manager, session, issued, time>>
  BY <1>1 DEF Open
<1> HIDE DEF n
<1>4. StoreStep /\ (mem' = mem \/ mem' = n)
  BY <1>2, <1>3, Written DEF session
<1>5. HandlerOK' /\ DownOK'
  <2>1. CASE WriteOk(n) /\ h' = [pc |-> "created", op |-> o, code |-> "NONE"]
    BY <1>2, <1>3, <2>1 DEF WriteOk, HandlerOK, DownOK, Recorded, Holding, Reserved, Trying, Asking
  <2>2. CASE WriteFails(n) /\ UNCHANGED h
    BY <1>3, <2>2 DEF HandlerOK, DownOK
  <2>3. QED
    BY <1>3, <2>1, <2>2
<1>6. h' = Idle \/ h' \in [pc : Stages, op : Ops, code : Codes]
  BY <1>3 DEF IInv, TypeOK, Stages, Codes
<1>7. QED
  BY <1>2, <1>3, <1>4, <1>5, <1>6, StepKeeps DEF IInv, TypeOK, session, time

LEMMA RetryKeeps ==
    ASSUME IInv, NEW o \in Ops, Retry(o)
    PROVE  IInv'
<1> DEFINE n == SetState(mem, o, "running", "NONE")
<1>1. /\ mem \in HostState /\ asked \subseteq Ops /\ StoreOK(mem) /\ requests \in Nat
      /\ Recorded(mem, o) /\ mem.ops[o].state # "completed"
      /\ "running" \in OpStates \ {"completed"} /\ "NONE" \in Codes
  BY DEF IInv, TypeOK, Retry, CanRetry, OpStates, Codes
<1>2. /\ n \in HostState /\ StoreOK(n) /\ Extends(mem, n)
      /\ \A p \in Ops : Completed(n, p) <=> Completed(mem, p)
      /\ Recorded(n, o) /\ n.ops[o].state = "running"
  BY <1>1, SetStateKeeps, SetStateFacts
<1>3. /\ up /\ h.pc = "idle" /\ requests' \in Nat
      /\ \/ WriteOk(n) /\ h' = [pc |-> "created", op |-> o, code |-> "NONE"]
         \/ WriteFails(n) /\ UNCHANGED h
      /\ UNCHANGED <<up, tickets, manager, session, issued, time>>
  BY <1>1 DEF Retry
<1> HIDE DEF n
<1>4. StoreStep /\ (mem' = mem \/ mem' = n)
  BY <1>2, <1>3, Written DEF session
<1>5. HandlerOK' /\ DownOK'
  <2>1. CASE WriteOk(n) /\ h' = [pc |-> "created", op |-> o, code |-> "NONE"]
    BY <1>2, <1>3, <2>1 DEF WriteOk, HandlerOK, DownOK, Recorded, Holding, Reserved, Trying, Asking
  <2>2. CASE WriteFails(n) /\ UNCHANGED h
    BY <1>3, <2>2 DEF HandlerOK, DownOK
  <2>3. QED
    BY <1>3, <2>1, <2>2
<1>6. h' = Idle \/ h' \in [pc : Stages, op : Ops, code : Codes]
  BY <1>3 DEF IInv, TypeOK, Stages, Codes
<1>7. QED
  BY <1>2, <1>3, <1>4, <1>5, <1>6, StepKeeps DEF IInv, TypeOK, session, time

\* A step that writes nothing and leaves tickets, manager and Session Control alone, but
\* for calls that are taken.
LEMMA QuietKeeps ==
    ASSUME IInv, UNCHANGED <<store, up, tickets, manager, asked, effect, issued, bounds>>,
           calls' \subseteq calls, late' \subseteq Tickets, over' \subseteq Tickets,
           h' = Idle \/ h' \in [pc : Stages, op : Ops, code : Codes],
           HandlerOK', DownOK'
    PROVE  IInv'
<1>1. StoreStep
  BY NothingWritten DEF Grows, store, bounds
<1>2. \A p \in Ops : Completed(mem', p) <=> Completed(mem, p)
  BY DEF store, Completed, Recorded
<1>3. QED
  BY <1>1, <1>2, StepKeeps DEF bounds, IInv, TypeOK

\* What HandlerOK says of a daemon that is serving.
LEMMA HandlerStays ==
    ASSUME IInv, UNCHANGED <<disk, mem, up, h, tickets, pending, commits, leases>>, Grows
    PROVE  HandlerOK' /\ DownOK'
<1>1. DownOK'
  BY SMTT(30) DEF IInv, DownOK, Idle, NoTickets, PerReservation, NoLeases
<1>2. ASSUME h.pc # "idle", h.pc \in Holding, NEW r \in Reserving(mem, h.op)
      PROVE  Holds(TicketOf(mem, h.op, r), r, h.op)'
  BY <1>2 DEF IInv, HandlerOK, Holds, TicketOf, Fits
<1>3. \A r \in Reserving(mem, h.op)' : r \in Reserving(mem, h.op)
  BY DEF Reserving, TicketOf
<1>4. \A t \in TicketsOf(mem, h.op)' : t \in TicketsOf(mem, h.op)
  BY DEF Reserving, TicketsOf, TicketOf
<1>5. h.pc # "idle" => h.op \in Ops
  BY HandlerFacts DEF IInv
<1>6. HandlerOK'
  BY <1>2, <1>3, <1>4, <1>5
     DEF IInv, HandlerOK, Grows, Recorded, Holding, Reserved, Trying, Asking
<1>7. QED
  BY <1>1, <1>6

\* Ticket t serves operation o after the step, when the step leaves its request alone.
HoldsAfter(t, r, o) ==
    /\ tickets'[t] # None
    /\ tickets'[t].status \in {"reserved", "committed"}
    /\ tickets'[t].op = o
    /\ tickets'[t].rt = r
    /\ tickets'[t].src = mem.ops[o].req.src
    /\ Fits(tickets'[t].target, mem.ops[o].req)

\* The daemon goes on with its operation.
LEMMA HandlerAdvances ==
    ASSUME IInv, up', h.pc # "idle", h'.op = h.op, mem'.ops = mem.ops,
           h'.pc # "caught" => disk' = mem',
           h'.pc \in Holding =>
             \A r \in Reserving(mem, h.op) : HoldsAfter(TicketOf(mem, h.op, r), r, h.op),
           h'.pc \in Reserved =>
             \A t \in TicketsOf(mem, h.op) : mem'.rows[t] # None /\ mem'.rows[t].op = h.op,
           h'.pc \in Trying =>
             \A t \in TicketsOf(mem, h.op) : mem'.rows[t].attempted /\ tickets'[t].attempted,
           h'.pc \in Asking => h.op \in asked',
           h'.pc \in Asking \ {"calling"} => effect'[h.op] # None,
           h'.pc \in {"committed", "recorded"} =>
             \A t \in TicketsOf(mem, h.op) : tickets'[t].status = "committed"
    PROVE  HandlerOK' /\ DownOK'
<1>1. DownOK'
  BY SMTT(30) DEF DownOK
<1>2. ASSUME h'.pc \in Holding, NEW r \in Reserving(mem, h.op)
      PROVE  Holds(TicketOf(mem, h.op, r), r, h.op)'
  <2>1. HoldsAfter(TicketOf(mem, h.op, r), r, h.op)
    BY <1>2
  <2>2. mem'.ops[h'.op] = mem.ops[h.op]
    OBVIOUS
  <2>3. QED
    BY ONLY <2>1, <2>2, h'.op = h.op DEF HoldsAfter, Holds, TicketOf, Fits
<1>3. \A r \in Reserving(mem, h.op)' : r \in Reserving(mem, h.op)
  BY DEF Reserving, TicketOf
<1>4. \A t \in TicketsOf(mem, h.op)' : t \in TicketsOf(mem, h.op)
  BY DEF Reserving, TicketsOf, TicketOf
<1>5. Recorded(mem, h.op)' /\ (mem.ops[h.op].state = "running")'
  BY DEF IInv, HandlerOK, Recorded
<1>6. HandlerOK'
  BY <1>2, <1>3, <1>4, <1>5 DEF HandlerOK, Holding, Reserved, Trying, Asking
<1>7. QED
  BY <1>1, <1>6

\* What the daemon has made sure of.
LEMMA HandlerKnows ==
    ASSUME IInv, h.pc # "idle"
    PROVE  /\ up /\ h.op \in Ops /\ Recorded(mem, h.op) /\ mem.ops[h.op].state = "running"
           /\ h.pc # "caught" => disk = mem
           /\ TicketsOf(mem, h.op) \subseteq Tickets
           /\ \A r \in Reserving(mem, h.op) :
                r \in Runtimes /\ TicketOf(mem, h.op, r) \in TicketsOf(mem, h.op)
           /\ \A t \in TicketsOf(mem, h.op) :
                \E r \in Reserving(mem, h.op) : t = TicketOf(mem, h.op, r)
           /\ h.pc \in Holding =>
                \A r \in Reserving(mem, h.op) : Holds(TicketOf(mem, h.op, r), r, h.op)
           /\ h.pc \in Holding /\ UNCHANGED tickets =>
                \A r \in Reserving(mem, h.op) : HoldsAfter(TicketOf(mem, h.op, r), r, h.op)
           /\ h.pc \in Reserved =>
                \A t \in TicketsOf(mem, h.op) : mem.rows[t] # None /\ mem.rows[t].op = h.op
           /\ h.pc \in Trying =>
                \A t \in TicketsOf(mem, h.op) : mem.rows[t].attempted /\ tickets[t].attempted
           /\ h.pc \in Asking => h.op \in asked
           /\ h.pc \in Asking \ {"calling"} => effect[h.op] # None
           /\ h.pc \in {"committed", "recorded"} =>
                \A t \in TicketsOf(mem, h.op) : tickets[t].status = "committed"
<1>1. h.op \in Ops /\ Recorded(mem, h.op) /\ mem \in HostState
  BY HandlerFacts DEF IInv, TypeOK, HandlerOK
<1>2. /\ TicketsOf(mem, h.op) \subseteq Tickets
      /\ \A r \in Reserving(mem, h.op) :
           r \in Runtimes /\ TicketOf(mem, h.op, r) \in TicketsOf(mem, h.op)
      /\ \A t \in TicketsOf(mem, h.op) : \E r \in Reserving(mem, h.op) : t = TicketOf(mem, h.op, r)
  BY <1>1, RecordedFacts
<1>3. ASSUME h.pc \in Holding, UNCHANGED tickets, NEW r \in Reserving(mem, h.op)
      PROVE  HoldsAfter(TicketOf(mem, h.op, r), r, h.op)
  BY <1>3 DEF IInv, HandlerOK, Holds, HoldsAfter
<1>4. QED
  BY <1>1, <1>2, <1>3 DEF IInv, HandlerOK

LEMMA UnreadyKeeps ==
    ASSUME IInv, Unready PROVE IInv'
<1>1. h' = [pc |-> "refused", op |-> h.op, code |-> h.code] /\ h.op \in Ops /\ h.code \in Codes
  BY HandlerFacts DEF IInv, Unready, Stages
<1>2. HandlerOK' /\ DownOK'
  BY <1>1, HandlerEnds DEF Unready, store
<1>3. QED
  BY <1>1, <1>2, QuietKeeps DEF Unready, session, time, IInv, TypeOK, Stages

LEMMA ReplyLostKeeps ==
    ASSUME IInv, ReplyLost PROVE IInv'
<1>1. h' = [pc |-> "caught", op |-> h.op, code |-> "UNKNOWN"] /\ h.op \in Ops
      /\ "UNKNOWN" \in Codes
  BY HandlerFacts DEF IInv, ReplyLost, Codes
<1>2. HandlerOK' /\ DownOK'
  BY <1>1, HandlerEnds DEF ReplyLost, store
<1>3. QED
  BY <1>1, <1>2, QuietKeeps DEF ReplyLost, session, time, IInv, TypeOK, Stages

LEMMA SessionControlRefusesKeeps ==
    ASSUME IInv, NEW o \in Ops, SessionControlRefuses(o) PROVE IInv'
<1>1. CASE up /\ h.pc = "calling" /\ h.op = o
  <2>1. /\ h' = [pc |-> "caught", op |-> h.op, code |-> "SESSION_CONTROL_REJECTED"]
        /\ h.op \in Ops /\ "SESSION_CONTROL_REJECTED" \in Codes
    BY <1>1, HandlerFacts DEF IInv, SessionControlRefuses, Codes
  <2>2. HandlerOK' /\ DownOK'
    BY <1>1, <2>1, HandlerEnds DEF SessionControlRefuses, store
  <2>3. QED
    BY <2>1, <2>2, QuietKeeps DEF SessionControlRefuses, time, IInv, TypeOK, Stages
<1>2. CASE ~(up /\ h.pc = "calling" /\ h.op = o)
  <2>1. HandlerOK' /\ DownOK' /\ UNCHANGED h
    BY <1>2, HandlerStays DEF SessionControlRefuses, Grows, store, manager
  <2>2. QED
    BY <2>1, QuietKeeps DEF SessionControlRefuses, time, IInv, TypeOK, Stages
<1>3. QED
  BY <1>1, <1>2

LEMMA SessionControlRepliesKeeps ==
    ASSUME IInv, SessionControlReplies PROVE IInv'
<1>1. h' = [pc |-> "called", op |-> h.op, code |-> h.code] /\ h.op \in Ops /\ h.code \in Codes
  BY HandlerFacts DEF IInv, SessionControlReplies, Stages
<1>2. HandlerOK' /\ DownOK'
  BY <1>1, HandlerKnows, HandlerAdvances
     DEF SessionControlReplies, session, store, Holding, Reserved, Trying, Asking
<1>3. QED
  BY <1>1, <1>2, QuietKeeps DEF SessionControlReplies, session, time, IInv, TypeOK, Stages

LEMMA TimeKeeps ==
    ASSUME IInv, NEW t \in Tickets, Deadline(t) \/ LeaseEnds(t) PROVE IInv'
<1>1. /\ UNCHANGED <<store, up, h, tickets, manager, session, issued, bounds>>
      /\ late' \subseteq Tickets /\ over' \subseteq Tickets
  BY DEF Deadline, LeaseEnds, IInv, TypeOK
<1>2. HandlerOK' /\ DownOK'
  BY <1>1, HandlerStays DEF Grows, session, store, manager
<1>3. QED
  BY <1>1, <1>2, QuietKeeps DEF session, IInv, TypeOK, Stages

\* The writes that end a request: the outcome of an operation that had not completed.
LEMMA OutcomeKeeps ==
    ASSUME IInv, up, h.pc # "idle", NEW state \in OpStates \ {"completed"}, NEW code \in Codes,
           WriteOk(SetState(mem, h.op, state, code)) \/ WriteFails(SetState(mem, h.op, state, code)),
           h' = Idle, UNCHANGED <<up, tickets, manager, session, issued, time, requests>>
    PROVE  IInv'
<1> DEFINE n == SetState(mem, h.op, state, code)
<1>1. /\ mem \in HostState /\ asked \subseteq Ops /\ StoreOK(mem)
      /\ h.op \in Ops /\ Recorded(mem, h.op) /\ mem.ops[h.op].state # "completed"
  BY HandlerFacts DEF IInv, TypeOK, HandlerOK
<1>2. /\ n \in HostState /\ StoreOK(n) /\ Extends(mem, n)
      /\ \A p \in Ops : Completed(n, p) <=> Completed(mem, p)
  BY <1>1, SetStateKeeps
<1>3. WriteOk(n) \/ WriteFails(n)
  OBVIOUS
<1> HIDE DEF n
<1>4. StoreStep /\ (mem' = mem \/ mem' = n)
  BY <1>2, <1>3, Written DEF session
<1>5. HandlerOK' /\ DownOK'
  BY DEF HandlerOK, DownOK, Idle
<1>6. QED
  BY <1>2, <1>4, <1>5, StepKeeps DEF session, time, IInv, TypeOK

LEMMA RefuseKeeps ==
    ASSUME IInv, Refuse PROVE IInv'
<1>1. "needs-attention" \in OpStates \ {"completed"} /\ "PRECONDITION" \in Codes
  BY DEF OpStates, Codes
<1>2. QED
  BY <1>1, OutcomeKeeps DEF Refuse

LEMMA RecordErrorKeeps ==
    ASSUME IInv, RecordError PROVE IInv'
<1>1. OutcomeOf(h.code) \in OpStates \ {"completed"} /\ h.code \in Codes
  BY HandlerFacts DEF IInv, RecordError, OutcomeOf, OpStates
<1>2. QED
  BY <1>1, OutcomeKeeps DEF RecordError

\* A write of reservations.
LEMMA RowsWritten ==
    ASSUME IInv, NEW n \in HostState, n.ops = mem.ops, StoreOK(n), WriteOk(n) \/ WriteFails(n),
           UNCHANGED <<asked, effect, issued>>
    PROVE  /\ StoreStep
           /\ mem'.ops = mem.ops
           /\ \A p \in Ops : Completed(mem', p) <=> Completed(mem, p)
<1>1. Extends(mem, n)
  BY DEF Extends, Recorded
<1>2. StoreStep /\ (mem' = mem \/ mem' = n)
  BY <1>1, Written
<1>3. QED
  BY <1>2 DEF Completed, Recorded

LEMMA ReserveStepKeeps ==
    ASSUME IInv, Reserve PROVE IInv'
<1> DEFINE n == ReserveRows(mem, h.op)
<1>1. /\ h.pc = "bound" /\ h.pc # "idle" /\ h.pc # "caught" /\ h.pc \in Holding
      /\ "reserved" \in Stages /\ "RESERVATION" \in Codes /\ "INTERNAL_ERROR" \in Codes
      /\ UNCHANGED <<up, tickets, manager, asked, effect, issued, requests>>
      /\ calls' \subseteq calls /\ late' \subseteq Tickets /\ over' \subseteq Tickets
      /\ requests' \in Nat
  BY DEF Reserve, Holding, Reserved, Trying, Asking, Stages, Codes, session, time, IInv, TypeOK
<1>2. /\ h.op \in Ops /\ h.code \in Codes
      /\ At("reserved") = [pc |-> "reserved", op |-> h.op, code |-> h.code]
      /\ Caught("RESERVATION") = [pc |-> "caught", op |-> h.op, code |-> "RESERVATION"]
      /\ Caught("INTERNAL_ERROR") = [pc |-> "caught", op |-> h.op, code |-> "INTERNAL_ERROR"]
  BY <1>1, HandlerFacts DEF IInv
<1>3. CASE RowConflict(h.op)
  <2>1. h' = [pc |-> "caught", op |-> h.op, code |-> "RESERVATION"]
        /\ UNCHANGED <<store, faults, bounds>>
    BY <1>2, <1>3 DEF Reserve, bounds
  <2>2. HandlerOK' /\ DownOK'
    BY <1>1, <2>1, HandlerEnds DEF Reserve, store
  <2>3. QED
    BY <1>1, <1>2, <2>1, <2>2, QuietKeeps DEF Stages
<1>4. CASE ~RowConflict(h.op)
  <2>1. /\ n \in HostState
        /\ n.ops = mem.ops
        /\ StoreOK(n)
        /\ \A t \in TicketsOf(mem, h.op) : n.rows[t] # None /\ n.rows[t].op = h.op
    BY <1>1, <1>4, HandlerKnows, ReserveKeeps DEF IInv
  <2>2. \/ WriteOk(n) /\ h' = [pc |-> "reserved", op |-> h.op, code |-> h.code]
        \/ WriteFails(n) /\ h' = [pc |-> "caught", op |-> h.op, code |-> "INTERNAL_ERROR"]
    BY <1>2, <1>4 DEF Reserve
  <2> HIDE DEF n
  <2>3. StoreStep /\ mem'.ops = mem.ops /\ \A p \in Ops : Completed(mem', p) <=> Completed(mem, p)
    BY <1>1, <2>1, <2>2, RowsWritten
  <2>4. HandlerOK' /\ DownOK'
    <3>1. CASE WriteOk(n) /\ h' = [pc |-> "reserved", op |-> h.op, code |-> h.code]
      BY <1>1, <2>1, <2>3, <3>1, HandlerKnows, HandlerAdvances
         DEF WriteOk, Holding, Reserved, Trying, Asking
    <3>2. CASE h' = [pc |-> "caught", op |-> h.op, code |-> "INTERNAL_ERROR"]
      BY <1>1, <2>3, <3>2, HandlerKnows, HandlerAdvances DEF Holding, Reserved, Trying, Asking
    <3>3. QED
      BY <2>2, <3>1, <3>2
  <2>5. h' \in [pc : Stages, op : Ops, code : Codes]
    BY <1>1, <1>2, <2>2 DEF Stages
  <2>6. QED
    BY <1>1, <2>3, <2>4, <2>5, StepKeeps
<1>5. QED
  BY <1>3, <1>4

LEMMA RecordCommitKeeps ==
    ASSUME IInv, RecordCommit PROVE IInv'
<1> DEFINE n == CommitRows(mem, h.op)
<1>1. /\ h.pc = "committed" /\ h.pc # "idle" /\ h.pc # "caught"
      /\ h.pc \in Holding /\ h.pc \in Reserved /\ h.pc \in Trying /\ h.pc \in Asking
      /\ "recorded" \in Stages /\ "INTERNAL_ERROR" \in Codes
      /\ UNCHANGED <<up, tickets, manager, asked, effect, issued, requests>>
      /\ calls' \subseteq calls /\ late' \subseteq Tickets /\ over' \subseteq Tickets
      /\ requests' \in Nat
  BY DEF RecordCommit, Holding, Reserved, Trying, Asking, Stages, Codes, session, time, IInv, TypeOK
<1>2. /\ h.op \in Ops /\ h.code \in Codes
      /\ At("recorded") = [pc |-> "recorded", op |-> h.op, code |-> h.code]
      /\ Caught("INTERNAL_ERROR") = [pc |-> "caught", op |-> h.op, code |-> "INTERNAL_ERROR"]
  BY <1>1, HandlerFacts DEF IInv
<1>3. /\ n \in HostState
      /\ n.ops = mem.ops
      /\ StoreOK(n)
      /\ \A t \in TicketsOf(mem, h.op) :
           n.rows[t] # None /\ n.rows[t].op = h.op /\ n.rows[t].attempted
  BY <1>1, HandlerKnows, CommitRowsKeeps DEF IInv
<1>4. \/ WriteOk(n) /\ h' = [pc |-> "recorded", op |-> h.op, code |-> h.code]
      \/ WriteFails(n) /\ h' = [pc |-> "caught", op |-> h.op, code |-> "INTERNAL_ERROR"]
  BY <1>2 DEF RecordCommit
<1> HIDE DEF n
<1>5. StoreStep /\ mem'.ops = mem.ops /\ \A p \in Ops : Completed(mem', p) <=> Completed(mem, p)
  BY <1>1, <1>3, <1>4, RowsWritten
<1>6. HandlerOK' /\ DownOK'
  <2>1. CASE WriteOk(n) /\ h' = [pc |-> "recorded", op |-> h.op, code |-> h.code]
    BY <1>1, <1>3, <1>5, <2>1, HandlerKnows, HandlerAdvances
       DEF WriteOk, Holding, Reserved, Trying, Asking
  <2>2. CASE h' = [pc |-> "caught", op |-> h.op, code |-> "INTERNAL_ERROR"]
    BY <1>1, <1>5, <2>2, HandlerKnows, HandlerAdvances DEF Holding, Reserved, Trying, Asking
  <2>3. QED
    BY <1>4, <2>1, <2>2
<1>7. h' \in [pc : Stages, op : Ops, code : Codes]
  BY <1>1, <1>2, <1>4 DEF Stages
<1>8. QED
  BY <1>1, <1>5, <1>6, <1>7, StepKeeps

\* The tickets after a step that changes some of them, and no operation.
LEMMA AskedHoldsAfter ==
    ASSUME IInv, UNCHANGED <<up, asked>>, mem'.ops = mem.ops,
           \A o \in Ops : Completed(mem, o) => \A t \in TicketsOf(mem, o) : tickets'[t] = None,
           \A o \in asked : Recorded(mem, o) /\ mem.ops[o].state # "completed" /\ up =>
             \A r \in Reserving(mem, o) :
               HoldsAfter(TicketOf(mem, o, r), r, o) /\ tickets'[TicketOf(mem, o, r)].attempted
    PROVE  AskedHolds'
<1>1. /\ \A o : Recorded(mem', o) = Recorded(mem, o)
      /\ \A o : Reserving(mem', o) = Reserving(mem, o) /\ TicketsOf(mem', o) = TicketsOf(mem, o)
      /\ \A o, r : TicketOf(mem', o, r) = TicketOf(mem, o, r)
  BY DEF Recorded, Reserving, TicketsOf, TicketOf
<1>2. ASSUME NEW o \in Ops, Recorded(mem', o), mem'.ops[o].state = "completed"
      PROVE  \A t \in TicketsOf(mem', o) : tickets'[t] = None
  BY <1>1, <1>2, SMTT(30) DEF Completed
<1>3. ASSUME NEW o \in Ops, Recorded(mem', o), mem'.ops[o].state # "completed", up', o \in asked',
             NEW r \in Reserving(mem', o)
      PROVE  Holds(TicketOf(mem, o, r), r, o)' /\ tickets'[TicketOf(mem', o, r)].attempted
  <2>1. HoldsAfter(TicketOf(mem, o, r), r, o) /\ tickets'[TicketOf(mem, o, r)].attempted
    BY <1>1, <1>3
  <2>2. QED
    BY ONLY <1>1, <2>1, mem'.ops = mem.ops DEF HoldsAfter, Holds, TicketOf, Fits
<1>4. ASSUME NEW o \in Ops, Recorded(mem', o)
      PROVE  IF mem'.ops[o].state = "completed"
             THEN \A t \in TicketsOf(mem', o) : tickets'[t] = None
             ELSE up' /\ o \in asked' =>
                  \A r \in Reserving(mem', o) :
                    Holds(TicketOf(mem, o, r), r, o)' /\ tickets'[TicketOf(mem', o, r)].attempted
  BY <1>2, <1>3, <1>4
<1>5. QED
  BY <1>4 DEF AskedHolds, Recorded, Reserving, TicketOf, TicketsOf

\* The tickets of a completed operation are gone, and those of one that Session Control
\* was asked for are held.
LEMMA TicketsOfAsked ==
    ASSUME IInv
    PROVE  /\ \A o \in Ops : Completed(mem, o) => \A t \in TicketsOf(mem, o) : tickets[t] = None
           /\ \A o \in asked : Recorded(mem, o) /\ mem.ops[o].state # "completed" /\ up =>
                \A r \in Reserving(mem, o) :
                  /\ TicketOf(mem, o, r) \in Tickets
                  /\ Holds(TicketOf(mem, o, r), r, o) /\ tickets[TicketOf(mem, o, r)].attempted
<1>1. \A o \in Ops : Completed(mem, o) => \A t \in TicketsOf(mem, o) : tickets[t] = None
  BY DEF IInv, AskedHolds, Completed
<1>2. ASSUME NEW o \in asked, Recorded(mem, o), mem.ops[o].state # "completed", up,
             NEW r \in Reserving(mem, o)
      PROVE  /\ TicketOf(mem, o, r) \in Tickets
             /\ Holds(TicketOf(mem, o, r), r, o) /\ tickets[TicketOf(mem, o, r)].attempted
  <2>1. o \in Ops /\ mem \in HostState
    BY DEF IInv, TypeOK
  <2>2. TicketOf(mem, o, r) \in Tickets
    BY <1>2, <2>1, RecordedFacts
  <2>3. QED
    BY <1>2, <2>1, <2>2 DEF IInv, AskedHolds
<1>3. QED
  BY <1>1, <1>2

LEMMA AttemptStepKeeps ==
    ASSUME IInv, Attempt PROVE IInv'
<1> DEFINE n == AttemptRows(mem, h.op)
<1>1. /\ h.pc = "ensured" /\ h.pc # "idle" /\ h.pc # "caught"
      /\ h.pc \in Holding /\ h.pc \in Reserved /\ up
      /\ "attempted" \in Stages /\ "caught" \in Stages /\ "INTERNAL_ERROR" \in Codes
      /\ UNCHANGED <<up, manager, calls, asked, effect, issued, late, over, requests>>
  BY DEF Attempt, Holding, Reserved, Trying, Asking, Stages, Codes, session, time
<1>2. /\ h.op \in Ops /\ h.code \in Codes
      /\ At("attempted") = [pc |-> "attempted", op |-> h.op, code |-> h.code]
      /\ Caught("INTERNAL_ERROR") = [pc |-> "caught", op |-> h.op, code |-> "INTERNAL_ERROR"]
  BY <1>1, HandlerFacts DEF IInv
<1>3. /\ n \in HostState
      /\ n.ops = mem.ops
      /\ StoreOK(n)
      /\ \A t \in TicketsOf(mem, h.op) :
           n.rows[t] # None /\ n.rows[t].op = h.op /\ n.rows[t].attempted
  BY <1>1, HandlerKnows, AttemptKeeps DEF IInv
<1>4. \/ WriteOk(n) /\ h' = [pc |-> "attempted", op |-> h.op, code |-> h.code]
      \/ WriteFails(n) /\ h' = [pc |-> "caught", op |-> h.op, code |-> "INTERNAL_ERROR"]
  BY <1>2 DEF Attempt
<1> HIDE DEF n
<1>5. StoreStep /\ mem'.ops = mem.ops
  BY <1>1, <1>3, <1>4, RowsWritten
<1>6. ASSUME NEW t \in Tickets
      PROVE  /\ tickets[t] = None => tickets'[t] = None
             /\ tickets[t] # None =>
                  /\ tickets'[t] \in Ticket
                  /\ tickets'[t] # None
                  /\ tickets'[t].rt = tickets[t].rt
                  /\ tickets'[t].src = tickets[t].src
                  /\ tickets'[t].target = tickets[t].target
                  /\ tickets'[t].status = tickets[t].status
                  /\ tickets'[t].op = tickets[t].op
                  /\ tickets[t].attempted => tickets'[t].attempted
                  /\ t \in TicketsOf(mem, h.op) => tickets'[t].attempted
  <2>1. tickets'[t] = IF t \in TicketsOf(mem, h.op) THEN [tickets[t] EXCEPT !.attempted = TRUE]
                      ELSE tickets[t]
    BY DEF Attempt
  <2>2. t \in TicketsOf(mem, h.op) => tickets[t] # None
    BY <1>1, HandlerKnows DEF Holds
  <2>3. tickets[t] # None => tickets[t] \in Ticket
    BY DEF IInv, TypeOK
  <2>4. ASSUME NEW w \in Ticket, NEW v, v = [w EXCEPT !.attempted = TRUE]
        PROVE  v = [rt |-> w.rt, src |-> w.src, target |-> w.target, status |-> w.status,
                    op |-> w.op, attempted |-> TRUE]
    BY <2>4 DEF Ticket
  <2>5. CASE t \in TicketsOf(mem, h.op)
    <3>1. tickets'[t] = [rt |-> tickets[t].rt, src |-> tickets[t].src,
                         target |-> tickets[t].target, status |-> tickets[t].status,
                         op |-> tickets[t].op, attempted |-> TRUE]
      BY <2>1, <2>2, <2>3, <2>4, <2>5
    <3>2. tickets'[t] \in Ticket
      BY <2>2, <2>3, <2>5, <3>1 DEF Ticket
    <3>3. tickets'[t] # None
      BY <3>2, NoneIsNoRecord
    <3>4. /\ tickets'[t].rt = tickets[t].rt
          /\ tickets'[t].src = tickets[t].src
          /\ tickets'[t].target = tickets[t].target
          /\ tickets'[t].status = tickets[t].status
          /\ tickets'[t].op = tickets[t].op
          /\ tickets'[t].attempted
      BY <3>1
    <3>5. QED
      BY <2>2, <2>5, <3>2, <3>3, <3>4
  <2>6. CASE t \notin TicketsOf(mem, h.op)
    BY <2>1, <2>3, <2>6
  <2>7. QED
    BY <2>5, <2>6
<1>7. tickets' \in [Tickets -> Ticket \cup {None}]
  <2>1. tickets' = [t \in Tickets |-> tickets'[t]]
    BY DEF Attempt
  <2>2. \A t \in Tickets : tickets'[t] \in Ticket \cup {None}
    BY <1>6
  <2>3. QED
    BY <2>1, <2>2
<1>8. TicketsOK'
  <2>1. \A t \in Tickets : tickets'[t] # None =>
          /\ IssuedFor(t, tickets'[t].rt, tickets'[t].src, tickets'[t].target)
          /\ tickets'[t].status = "committed" =>
               tickets'[t].op # None /\ CommittedTo(tickets'[t].op, tickets'[t].target)
    BY <1>6 DEF IInv, TicketsOK
  <2>2. QED
    BY <1>1, <2>1 DEF TicketsOK, IssuedFor, CommittedTo
<1>9. ASSUME NEW o \in Ops, NEW r \in Reserving(mem, o), TicketOf(mem, o, r) \in Tickets,
             Holds(TicketOf(mem, o, r), r, o)
      PROVE  HoldsAfter(TicketOf(mem, o, r), r, o)
  BY <1>6, <1>9 DEF Holds, HoldsAfter
<1>10. AskedHolds'
  <2>1. \A o \in Ops : Completed(mem, o) => \A t \in TicketsOf(mem, o) : tickets'[t] = None
    <3>1. \A o \in Ops : Completed(mem, o) => TicketsOf(mem, o) \subseteq Tickets
      BY RecordedFacts DEF IInv, TypeOK, Completed
    <3>2. QED
      BY <1>6, <3>1, TicketsOfAsked
  <2>2. \A o \in asked : Recorded(mem, o) /\ mem.ops[o].state # "completed" /\ up =>
             \A r \in Reserving(mem, o) :
               HoldsAfter(TicketOf(mem, o, r), r, o) /\ tickets'[TicketOf(mem, o, r)].attempted
    BY <1>6, <1>9, TicketsOfAsked DEF IInv, TypeOK, Holds
  <2>3. QED
    BY <1>1, <1>5, <2>1, <2>2, AskedHoldsAfter
<1>11. HandlerOK' /\ DownOK'
  <2>1. CASE WriteOk(n) /\ h' = [pc |-> "attempted", op |-> h.op, code |-> h.code]
    <3>1. \A r \in Reserving(mem, h.op) : HoldsAfter(TicketOf(mem, h.op, r), r, h.op)
      BY <1>1, <1>2, <1>9, HandlerKnows
    <3>2. \A t \in TicketsOf(mem, h.op) : tickets'[t].attempted
      BY <1>1, <1>6, HandlerKnows DEF Holds
    <3>3. QED
      BY <1>1, <1>3, <1>5, <2>1, <3>1, <3>2, HandlerAdvances
         DEF WriteOk, Holding, Reserved, Trying, Asking
  <2>2. CASE h' = [pc |-> "caught", op |-> h.op, code |-> "INTERNAL_ERROR"]
    BY <1>1, <1>5, <2>2, HandlerKnows, HandlerAdvances DEF Holding, Reserved, Trying, Asking
  <2>3. QED
    BY <1>4, <2>1, <2>2
<1>12. SessionOK' /\ PendingOK' /\ CommitsOK' /\ LeaseIsEarned'
  BY <1>1, <1>5, StoreStepKeeps DEF Grows, manager
<1>13. h' \in [pc : Stages, op : Ops, code : Codes]
  BY <1>1, <1>2, <1>4
<1>14. TypeOK'
  BY <1>1, <1>5, <1>7, <1>13 DEF IInv, TypeOK, StoreStep, manager, Stages
<1>15. QED
  BY <1>5, <1>8, <1>10, <1>11, <1>12, <1>14 DEF IInv, StoreStep

LEMMA CallKeeps ==
    ASSUME IInv, CallSessionControl PROVE IInv'
<1>1. /\ h.pc # "idle" /\ h.pc # "caught" /\ h.pc \in Reserved /\ h.pc \in Holding /\ up
      /\ "calling" \in Stages
      /\ h.pc = "attempted" \/ (h.pc = "ensured" /\ Reserving(mem, h.op) = {})
      /\ UNCHANGED <<disk, mem, up, tickets, pending, commits, leases, effect, issued, late, over,
                     requests, faults>>
      /\ calls' = calls \cup {h.op} /\ asked' = asked \cup {h.op}
  BY DEF CallSessionControl, Holding, Reserved, Trying, Asking, Stages, time, store, manager, bounds
<1>2. /\ h.op \in Ops /\ h.code \in Codes
      /\ h' = [pc |-> "calling", op |-> h.op, code |-> h.code]
  BY <1>1, HandlerFacts DEF IInv, CallSessionControl
<1>3. Grows
  BY <1>1 DEF Grows
<1>4. Recorded(mem, h.op) /\ mem.ops[h.op].state = "running" /\ disk = mem
  BY <1>1, HandlerKnows
<1>5. \A t \in TicketsOf(mem, h.op) :
        mem.rows[t] # None /\ mem.rows[t].op = h.op /\ mem.rows[t].attempted /\ tickets[t].attempted
  <2>1. CASE h.pc = "attempted"
    BY <1>1, <2>1, HandlerKnows DEF Trying
  <2>2. CASE Reserving(mem, h.op) = {}
    BY <2>2 DEF TicketsOf
  <2>3. QED
    BY <1>1, <2>1, <2>2
<1>6. AskedOK(disk, h.op) /\ AskedOK(mem, h.op)
  BY <1>4, <1>5 DEF AskedOK
<1>7. StoreStep /\ mem'.ops = mem.ops
  BY <1>1, <1>3, <1>6, NothingWritten
<1>8. TicketsOK' /\ PendingOK' /\ CommitsOK' /\ LeaseIsEarned'
  BY <1>1, <1>3, <1>7, StoreStepKeeps
<1>9. SessionOK'
  BY <1>1 DEF IInv, SessionOK, Fits
<1>10. AskedHolds'
  <2>1. ASSUME NEW o \in Ops, Recorded(mem, o), mem.ops[o].state # "completed", up, o \in asked',
               NEW r \in Reserving(mem, o)
        PROVE  Holds(TicketOf(mem, o, r), r, o) /\ tickets[TicketOf(mem, o, r)].attempted
    <3>1. CASE o \in asked
      BY <2>1, <3>1, TicketsOfAsked
    <3>2. CASE o = h.op
      BY <1>1, <1>5, <2>1, <3>2, HandlerKnows, SMTT(30)
    <3>3. QED
      BY <1>1, <2>1, <3>1, <3>2
  <2>2. ASSUME NEW o \in Ops, NEW r, Holds(TicketOf(mem, o, r), r, o)
        PROVE  Holds(TicketOf(mem, o, r), r, o)'
    BY <1>1, <2>2 DEF Holds, TicketOf, Fits
  <2>3. ASSUME NEW o \in Ops, Recorded(mem, o)
        PROVE  IF mem.ops[o].state = "completed"
               THEN \A t \in TicketsOf(mem, o) : tickets'[t] = None
               ELSE up' /\ o \in asked' =>
                    \A r \in Reserving(mem, o) :
                      Holds(TicketOf(mem, o, r), r, o)' /\ tickets'[TicketOf(mem, o, r)].attempted
    BY <1>1, <2>1, <2>2, <2>3, TicketsOfAsked DEF Completed
  <2>4. mem' = mem
    BY <1>1
  <2>5. QED
    BY ONLY <2>3, <2>4 DEF AskedHolds, Recorded, Reserving, TicketOf, TicketsOf
<1>11. HandlerOK' /\ DownOK'
  BY <1>1, <1>2, <1>4, <1>5, <1>7, HandlerKnows, HandlerAdvances
     DEF Holding, Reserved, Trying, Asking
<1>12. h' \in [pc : Stages, op : Ops, code : Codes]
  BY <1>1, <1>2
<1>13. TypeOK'
  BY <1>1, <1>2, <1>7, <1>12 DEF IInv, TypeOK, StoreStep, Stages
<1>14. QED
  BY <1>7, <1>8, <1>9, <1>10, <1>11, <1>13 DEF IInv, StoreStep

LEMMA SessionControlActsKeeps ==
    ASSUME IInv, NEW o \in Ops, NEW s \in Sessions, SessionControlActs(o, s) PROVE IInv'
<1>1. /\ UNCHANGED <<disk, mem, up, h, tickets, pending, commits, leases, asked, issued, late, over,
                     requests, faults>>
      /\ o \in calls /\ calls' \subseteq calls /\ o \in asked
      /\ effect' = [effect EXCEPT ![o] = s] /\ effect \in [Ops -> Sessions \cup {None}]
      /\ effect[o] # None => s = effect[o]
      /\ effect[o] = None => Fits(s, disk.ops[o].req)
      /\ s # None
  BY NoneAssumption
     DEF SessionControlActs, time, store, manager, bounds, IInv, TypeOK, SessionOK, Fits
<1>2. Grows
  BY <1>1 DEF Grows
<1>3. StoreStep
  BY <1>1, <1>2, NothingWritten
<1>4. \A p \in Ops : Completed(mem', p) <=> Completed(mem, p)
  BY <1>1 DEF Completed, Recorded
<1>5. TicketsOK' /\ PendingOK' /\ CommitsOK' /\ LeaseIsEarned' /\ AskedHolds'
  BY <1>1, <1>2, <1>3, <1>4, StoreStepKeeps
<1>6. SessionOK'
  <2>1. \A p \in Ops : effect'[p] # None => p \in asked /\ Fits(effect'[p], disk.ops[p].req)
    BY <1>1 DEF IInv, SessionOK
  <2>2. QED
    BY <1>1, <2>1 DEF IInv, SessionOK, Fits
<1>7. HandlerOK' /\ DownOK'
  BY <1>1, <1>2, HandlerStays
<1>8. TypeOK'
  BY <1>1, <1>3 DEF IInv, TypeOK, StoreStep
<1>9. QED
  BY <1>3, <1>5, <1>6, <1>7, <1>8 DEF IInv, StoreStep

LEMMA EnsureKeeps ==
    ASSUME IInv, Ensure PROVE IInv'
<1>1. /\ h.pc # "idle" /\ h.pc # "caught" /\ h.pc \in Holding /\ up
      /\ "ensured" \in Stages /\ "refused" \in Stages
      /\ h.pc = "reserved" \/ (h.pc = "bound" /\ Reserving(mem, h.op) = {})
      /\ UNCHANGED <<disk, mem, up, tickets, commits, leases, calls, asked, effect, issued, late,
                     over, requests, faults>>
  BY DEF Ensure, Holding, Reserved, Trying, Asking, Stages, time, store, session, bounds
<1>2. /\ h.op \in Ops /\ h.code \in Codes
      /\ \/ h' = [pc |-> "ensured", op |-> h.op, code |-> h.code]
         \/ h' = [pc |-> "refused", op |-> h.op, code |-> h.code]
  BY <1>1, HandlerFacts DEF IInv, Ensure
<1>3. Grows
  BY <1>1 DEF Grows
<1>4. StoreStep /\ mem'.ops = mem.ops
  BY <1>1, <1>3, NothingWritten
<1>5. \A p \in Ops : Completed(mem', p) <=> Completed(mem, p)
  BY <1>1 DEF Completed, Recorded
<1>6. SessionOK' /\ TicketsOK' /\ CommitsOK' /\ LeaseIsEarned' /\ AskedHolds'
  BY <1>1, <1>3, <1>4, <1>5, StoreStepKeeps
<1>7. HandlerOK' /\ DownOK'
  <2>1. \A t \in TicketsOf(mem, h.op) : mem.rows[t] # None /\ mem.rows[t].op = h.op
    <3>1. CASE h.pc = "reserved"
      BY <1>1, <3>1, HandlerKnows DEF Reserved
    <3>2. CASE Reserving(mem, h.op) = {}
      BY <3>2 DEF TicketsOf
    <3>3. QED
      BY <1>1, <3>1, <3>2
  <2>2. QED
    BY <1>1, <1>2, <1>4, <2>1, HandlerKnows, HandlerAdvances DEF Holding, Reserved, Trying, Asking
<1>8. h' \in [pc : Stages, op : Ops, code : Codes]
  BY <1>1, <1>2
<1>9. CASE UNCHANGED pending
  <2>1. PendingOK'
    BY <1>3, <1>4, <1>9, StoreStepKeeps
  <2>2. TypeOK'
    BY <1>1, <1>4, <1>8, <1>9 DEF IInv, TypeOK, StoreStep, Stages
  <2>3. QED
    BY <1>4, <1>6, <1>7, <2>1, <2>2 DEF IInv, StoreStep
<1>10. CASE pending' = [pending EXCEPT ![h.op] = [r \in Runtimes |-> Staged(h.op, r)]]
  <2>1. ASSUME NEW r \in Runtimes
        PROVE  /\ Staged(h.op, r) \in Pending \cup {None}
               /\ Staged(h.op, r) # None =>
                    /\ Brought(h.op, r, Staged(h.op, r).ticket)
                    /\ IssuedFor(Staged(h.op, r).ticket, r, mem.ops[h.op].req.src,
                                 Staged(h.op, r).target)
    <3> DEFINE t == TicketOf(mem, h.op, r)
               c == [ticket |-> t, target |-> tickets[t].target,
                     recoverable |-> tickets[t].attempted]
    <3>1. CASE t # None /\ (t \notin late \/ tickets[t].attempted)
      <4>1. Staged(h.op, r) = c
        BY <3>1 DEF Staged
      <4>2. r \in Reserving(mem, h.op)
        BY <3>1 DEF Reserving
      <4>3. t \in Tickets /\ Holds(t, r, h.op) /\ Recorded(mem, h.op)
        BY <1>1, <4>2, HandlerKnows
      <4>4. tickets[t] \in Ticket /\ IssuedFor(t, r, mem.ops[h.op].req.src, tickets[t].target)
        BY <4>3 DEF Holds, IInv, TypeOK, TicketsOK
      <4>5. c \in Pending
        BY <4>3, <4>4 DEF Pending, Ticket
      <4>6. c.ticket = t /\ c.target = tickets[t].target
        OBVIOUS
      <4> HIDE DEF c
      <4>7. QED
        BY <3>1, <4>1, <4>3, <4>4, <4>5, <4>6 DEF Brought
    <3>2. CASE ~(t # None /\ (t \notin late \/ tickets[t].attempted))
      <4>1. Staged(h.op, r) = pending[h.op][r]
        BY <3>2 DEF Staged
      <4>2. QED
        BY <1>2, <4>1 DEF IInv, TypeOK, PendingOK
    <3>3. QED
      BY <3>1, <3>2
  <2>2. /\ pending \in [Ops -> [Runtimes -> Pending \cup {None}]]
        /\ \A o \in Ops, r \in Runtimes :
             pending'[o][r] = IF o = h.op THEN Staged(h.op, r) ELSE pending[o][r]
    BY <1>10 DEF IInv, TypeOK
  <2>3. pending' \in [Ops -> [Runtimes -> Pending \cup {None}]]
    <3>1. [r \in Runtimes |-> Staged(h.op, r)] \in [Runtimes -> Pending \cup {None}]
      BY <2>1
    <3>2. QED
      BY <1>2, <1>10, <2>2, <3>1
  <2>4. \A o \in Ops, r \in Runtimes : pending'[o][r] # None =>
          /\ Brought(o, r, pending'[o][r].ticket)
          /\ IssuedFor(pending'[o][r].ticket, r, mem.ops[o].req.src, pending'[o][r].target)
    BY <2>1, <2>2 DEF IInv, PendingOK
  <2>5. PendingOK'
    BY ONLY <1>1, <2>4 DEF PendingOK, Brought, IssuedFor, Recorded, TicketOf
  <2>6. TypeOK'
    BY <1>1, <1>4, <1>8, <2>3 DEF IInv, TypeOK, StoreStep, Stages
  <2>7. QED
    BY <1>4, <1>6, <1>7, <2>5, <2>6 DEF IInv, StoreStep
<1>11. QED
  BY <1>9, <1>10 DEF Ensure

\* A change of one ticket that serves no operation.
LEMMA FreeTicketKeeps ==
    ASSUME IInv, Grows, NEW t \in Tickets,
           UNCHANGED <<disk, mem, up, h, pending, commits, leases, calls, asked, effect, late, over,
                       requests, faults>>,
           tickets' \in [Tickets -> Ticket \cup {None}],
           issued' \in [Tickets -> Issue \cup {None}],
           \A u \in Tickets \ {t} : tickets'[u] = tickets[u],
           tickets[t] = None \/ tickets[t].status = "challenged",
           tickets'[t] # None => up,
           tickets'[t] # None =>
             /\ issued'[t] # None /\ issued'[t].rt = tickets'[t].rt
             /\ issued'[t].src = tickets'[t].src
             /\ issued'[t].target \in {None, tickets'[t].target}
             /\ tickets'[t].status # "committed",
           \A o \in Ops : Completed(mem, o) /\ t \in TicketsOf(mem, o) => tickets'[t] = None
    PROVE  IInv'
<1>1. StoreStep /\ mem'.ops = mem.ops
  BY NothingWritten
<1>2. SessionOK' /\ PendingOK' /\ CommitsOK' /\ LeaseIsEarned'
  BY <1>1, StoreStepKeeps
<1>3. TicketsOK'
  <2>1. ASSUME NEW u \in Tickets \ {t}, tickets[u] # None
        PROVE  /\ issued'[u] # None /\ issued'[u].rt = tickets[u].rt
               /\ issued'[u].src = tickets[u].src
               /\ issued'[u].target \in {None, tickets[u].target}
               /\ tickets[u].status = "committed" =>
                    /\ tickets[u].op # None /\ CommittedTo(tickets[u].op, tickets[u].target)
    <3>1. /\ IssuedFor(u, tickets[u].rt, tickets[u].src, tickets[u].target)
          /\ tickets[u].status = "committed" =>
               tickets[u].op # None /\ CommittedTo(tickets[u].op, tickets[u].target)
      BY <2>1 DEF IInv, TicketsOK
    <3>2. QED
      BY <3>1, IssuedStays
  <2>2. QED
    BY <2>1 DEF TicketsOK, IssuedFor, CommittedTo
<1>4. ASSUME NEW u \in Tickets, NEW r, NEW o, Holds(u, r, o)
      PROVE  HoldsAfter(u, r, o) /\ tickets'[u] = tickets[u]
  <2>1. u # t
    BY <1>4 DEF Holds
  <2>2. QED
    BY <1>4, <2>1 DEF Holds, HoldsAfter
<1>5. AskedHolds'
  <2>1. \A o \in Ops : Completed(mem, o) => \A u \in TicketsOf(mem, o) : tickets'[u] = None
    <3>1. \A o \in Ops : Completed(mem, o) => TicketsOf(mem, o) \subseteq Tickets
      BY RecordedFacts DEF IInv, TypeOK, Completed
    <3>2. QED
      BY <3>1, TicketsOfAsked
  <2>2. \A o \in asked : Recorded(mem, o) /\ mem.ops[o].state # "completed" /\ up =>
             \A r \in Reserving(mem, o) :
               HoldsAfter(TicketOf(mem, o, r), r, o) /\ tickets'[TicketOf(mem, o, r)].attempted
    BY <1>4, TicketsOfAsked
  <2>3. QED
    BY <1>1, <2>1, <2>2, AskedHoldsAfter
<1>6. HandlerOK' /\ DownOK'
  <2>1. CASE h.pc = "idle"
    <3>1. up => DownOK'
      BY DEF DownOK
    <3>2. ~up => DownOK'
      <4>1. ASSUME ~up PROVE tickets' = NoTickets
        <5>1. \A u \in Tickets : u # t => tickets'[u] = None
          BY <4>1 DEF IInv, DownOK, NoTickets
        <5>2. QED
          BY <4>1, <5>1 DEF NoTickets
      <4>2. QED
        BY <4>1 DEF IInv, DownOK, Idle, NoTickets, PerReservation, NoLeases
    <3>3. QED
      BY <2>1, <3>1, <3>2 DEF HandlerOK
  <2>2. CASE h.pc # "idle"
    <3>1. h.pc \in Holding =>
            \A r \in Reserving(mem, h.op) :
              HoldsAfter(TicketOf(mem, h.op, r), r, h.op)
      BY <1>4, <2>2, HandlerKnows
    <3>2. h.pc \in Holding => \A u \in TicketsOf(mem, h.op) : tickets'[u] = tickets[u]
      BY <1>4, <2>2, HandlerKnows
    <3>3. QED
      BY <1>1, <2>2, <3>1, <3>2, HandlerKnows, HandlerAdvances DEF Holding, Reserved, Trying, Asking
  <2>3. QED
    BY <2>1, <2>2
<1>7. TypeOK'
  BY <1>1 DEF IInv, TypeOK, StoreStep
<1>8. QED
  BY <1>1, <1>2, <1>3, <1>5, <1>6, <1>7 DEF IInv, StoreStep

LEMMA BeginKeeps ==
    ASSUME IInv, NEW t \in Tickets, NEW r \in Runtimes, NEW src \in Sources,
           NEW target \in Sessions \cup {None}, Begin(t, r, src, target)
    PROVE  IInv'
<1> DEFINE c == [rt |-> r, src |-> src, target |-> target, status |-> "challenged",
                 op |-> None, attempted |-> FALSE]
           i == [rt |-> r, src |-> src, target |-> target]
<1>1. c \in Ticket /\ i \in Issue /\ i # None /\ c.status = "challenged"
      /\ i.rt = c.rt /\ i.src = c.src /\ i.target = c.target
  BY NoneIsNoRecord DEF Ticket, Issue
<1>2. /\ up /\ issued[t] = None
      /\ issued' = [issued EXCEPT ![t] = i] /\ tickets' = [tickets EXCEPT ![t] = c]
      /\ issued \in [Tickets -> Issue \cup {None}] /\ tickets \in [Tickets -> Ticket \cup {None}]
      /\ UNCHANGED <<disk, mem, up, h, pending, commits, leases, calls, asked, effect, late, over,
                     requests, faults>>
  BY DEF Begin, store, manager, session, time, bounds, IInv, TypeOK
<1> HIDE DEF c, i
<1>3. Grows
  BY <1>2 DEF Grows
<1>4. tickets[t] = None
  BY <1>2 DEF IInv, TicketsOK, IssuedFor
<1>5. \A o \in Ops : Completed(mem, o) => t \notin TicketsOf(mem, o)
  BY <1>2 DEF IInv, StoreOK, RequestOK, Completed
<1>6. QED
  BY <1>1, <1>2, <1>3, <1>4, <1>5, FreeTicketKeeps

LEMMA ConfirmKeeps ==
    ASSUME IInv, NEW t \in Tickets, Confirm(t)
    PROVE  IInv'
<1> DEFINE w == tickets[t]
           v == [rt |-> w.rt, src |-> w.src, target |-> w.target, status |-> "issued",
                 op |-> w.op, attempted |-> w.attempted]
<1>1. /\ up /\ w # None /\ w \in Ticket /\ w.status = "challenged"
      /\ tickets' = [tickets EXCEPT ![t] = [w EXCEPT !.status = "issued"]]
      /\ issued \in [Tickets -> Issue \cup {None}] /\ tickets \in [Tickets -> Ticket \cup {None}]
      /\ IssuedFor(t, w.rt, w.src, w.target)
      /\ UNCHANGED <<disk, mem, up, h, pending, commits, leases, calls, asked, effect, issued, late,
                     over, requests, faults>>
  BY DEF Confirm, store, manager, session, time, bounds, IInv, TypeOK, TicketsOK
<1>2. \A o \in Ops : Completed(mem, o) => t \notin TicketsOf(mem, o)
  BY <1>1, TicketsOfAsked
<1> HIDE DEF w
<1>3. [w EXCEPT !.status = "issued"] = v
  BY <1>1 DEF Ticket
<1>4. v \in Ticket
  BY <1>1 DEF Ticket
<1>5. v.rt = w.rt /\ v.src = w.src /\ v.target = w.target /\ v.status = "issued"
  OBVIOUS
<1> HIDE DEF v
<1>6. Grows
  BY <1>1 DEF Grows
<1>7. tickets[t] = w
  BY DEF w
<1>8. QED
  BY <1>1, <1>2, <1>3, <1>4, <1>5, <1>6, <1>7, FreeTicketKeeps DEF IssuedFor

LEMMA ChallengeEndsKeeps ==
    ASSUME IInv, NEW t \in Tickets, ChallengeEnds(t)
    PROVE  IInv'
<1>1. /\ tickets' = [tickets EXCEPT ![t] = None]
      /\ issued \in [Tickets -> Issue \cup {None}] /\ tickets \in [Tickets -> Ticket \cup {None}]
      /\ tickets[t].status = "challenged"
      /\ UNCHANGED <<disk, mem, up, h, pending, commits, leases, calls, asked, effect, issued, late,
                     over, requests, faults>>
  BY DEF ChallengeEnds, store, manager, session, time, bounds, IInv, TypeOK
<1>2. Grows
  BY <1>1 DEF Grows
<1>3. QED
  BY <1>1, <1>2, FreeTicketKeeps

\* A ticket bound to an operation.
LEMMA BoundFacts ==
    ASSUME NEW w \in Ticket, NEW o \in Ops, NEW v,
           v = [w EXCEPT !.op = o, !.status = IF @ = "committed" THEN @ ELSE "reserved"]
    PROVE  v = [rt |-> w.rt, src |-> w.src, target |-> w.target,
                status |-> IF w.status = "committed" THEN "committed" ELSE "reserved",
                op |-> o, attempted |-> w.attempted]
  BY DEF Ticket

\* The tickets that a bind takes, all of them when it goes on.
LEMMA BindTakes ==
    ASSUME IInv, Bind
    PROVE  \E T \in SUBSET TicketsOf(mem, h.op) :
             /\ tickets' = Bound(T, h.op)
             /\ \A t \in T : \E r \in Reserving(mem, h.op) :
                  t = TicketOf(mem, h.op, r) /\ Usable(t, r, h.op)
             /\ \/ h' = At("refused")
                \/ /\ h' = At("bound")
                   /\ \A r \in Reserving(mem, h.op) :
                        /\ TicketOf(mem, h.op, r) \in T
                        /\ Usable(TicketOf(mem, h.op, r), r, h.op)
<1> DEFINE Good == {r \in Reserving(mem, h.op) : Usable(TicketOf(mem, h.op, r), r, h.op)}
<1>1. \A r \in Reserving(mem, h.op) : TicketOf(mem, h.op, r) \in TicketsOf(mem, h.op)
  BY DEF TicketsOf
<1>2. CASE Good = Reserving(mem, h.op)
  <2>1. /\ tickets' = Bound(TicketsOf(mem, h.op), h.op)
        /\ h' = At("refused") \/ h' = At("bound")
    BY <1>2 DEF Bind
  <2>2. \A r \in Reserving(mem, h.op) : Usable(TicketOf(mem, h.op, r), r, h.op)
    BY <1>2
  <2>3. \A t \in TicketsOf(mem, h.op) : \E r \in Reserving(mem, h.op) :
          t = TicketOf(mem, h.op, r) /\ Usable(t, r, h.op)
    BY <2>2 DEF TicketsOf
  <2>4. QED
    BY <1>1, <2>1, <2>2, <2>3
<1>3. CASE Good # Reserving(mem, h.op)
  <2>1. PICK before \in SUBSET Good :
          /\ tickets' = Bound({TicketOf(mem, h.op, r) : r \in before}, h.op)
          /\ h' = At("refused")
    BY <1>3 DEF Bind
  <2>2. {TicketOf(mem, h.op, r) : r \in before} \in SUBSET TicketsOf(mem, h.op)
    BY <1>1
  <2>3. \A t \in {TicketOf(mem, h.op, r) : r \in before} : \E r \in Reserving(mem, h.op) :
          t = TicketOf(mem, h.op, r) /\ Usable(t, r, h.op)
    OBVIOUS
  <2>4. QED
    BY <2>1, <2>2, <2>3
<1>4. QED
  BY <1>2, <1>3

LEMMA BindKeeps ==
    ASSUME IInv, Bind PROVE IInv'
<1>1. /\ h.pc = "created" /\ h.pc # "idle" /\ h.pc # "caught" /\ up
      /\ "bound" \in Stages /\ "refused" \in Stages
      /\ UNCHANGED <<disk, mem, up, pending, commits, leases, calls, asked, effect, issued, late,
                     over, requests, faults>>
  BY DEF Bind, Stages, store, manager, session, time, bounds
<1>2. PICK T \in SUBSET TicketsOf(mem, h.op) :
        /\ tickets' = Bound(T, h.op)
        /\ \A t \in T : \E r \in Reserving(mem, h.op) :
             t = TicketOf(mem, h.op, r) /\ Usable(t, r, h.op)
        /\ \/ h' = At("refused")
           \/ /\ h' = At("bound")
              /\ \A r \in Reserving(mem, h.op) :
                   /\ TicketOf(mem, h.op, r) \in T
                   /\ Usable(TicketOf(mem, h.op, r), r, h.op)
  BY BindTakes
<1>3. /\ h.op \in Ops /\ h.code \in Codes
      /\ At("bound") = [pc |-> "bound", op |-> h.op, code |-> h.code]
      /\ At("refused") = [pc |-> "refused", op |-> h.op, code |-> h.code]
  BY <1>1, HandlerFacts DEF IInv
<1>4. T \subseteq Tickets
  BY <1>1, HandlerKnows
<1>5. Grows
  BY <1>1 DEF Grows
<1>6. StoreStep /\ mem'.ops = mem.ops
  BY <1>1, <1>5, NothingWritten
<1>7. ASSUME NEW t \in T
      PROVE  /\ tickets[t] # None /\ tickets[t] \in Ticket
             /\ tickets[t].op \in {None, h.op}
             /\ tickets[t].src = mem.ops[h.op].req.src
             /\ Fits(tickets[t].target, mem.ops[h.op].req)
             /\ tickets'[t] \in Ticket /\ tickets'[t] # None
             /\ tickets'[t].rt = tickets[t].rt
             /\ tickets'[t].src = tickets[t].src
             /\ tickets'[t].target = tickets[t].target
             /\ tickets'[t].op = h.op
             /\ tickets'[t].status \in {"reserved", "committed"}
             /\ tickets'[t].status = "committed" => tickets[t].status = "committed"
             /\ tickets'[t].attempted = tickets[t].attempted
  <2>1. PICK r \in Reserving(mem, h.op) : Usable(t, r, h.op)
    BY <1>2
  <2>2. /\ tickets[t] # None
        /\ tickets[t].op \in {None, h.op}
        /\ tickets[t].src = mem.ops[h.op].req.src
        /\ Fits(tickets[t].target, mem.ops[h.op].req)
    BY <2>1 DEF Usable, OtherOperation, Fits
  <2>3. tickets[t] \in Ticket /\ t \in Tickets
    BY <1>4, <2>2 DEF IInv, TypeOK
  <2> DEFINE w == tickets[t]
             v == [rt |-> w.rt, src |-> w.src, target |-> w.target,
                   status |-> IF w.status = "committed" THEN "committed" ELSE "reserved",
                   op |-> h.op, attempted |-> w.attempted]
  <2>4. tickets'[t] = [tickets[t] EXCEPT !.op = h.op,
                                         !.status = IF @ = "committed" THEN @ ELSE "reserved"]
    BY <1>2, <2>3 DEF Bound
  <2>5. tickets'[t] = v
    BY <1>3, <2>3, <2>4, BoundFacts
  <2>6. v \in Ticket
    BY <1>3, <2>3 DEF Ticket
  <2>7. v # None
    BY <2>6, NoneIsNoRecord
  <2>8. /\ v.rt = w.rt /\ v.src = w.src /\ v.target = w.target /\ v.op = h.op
        /\ v.status \in {"reserved", "committed"}
        /\ v.status = "committed" => w.status = "committed"
        /\ v.attempted = w.attempted
    OBVIOUS
  <2> HIDE DEF v
  <2>9. QED
    BY <2>2, <2>3, <2>5, <2>6, <2>7, <2>8
<1>8. \A t \in Tickets \ T : tickets'[t] = tickets[t]
  BY <1>2 DEF Bound
<1>9. tickets' \in [Tickets -> Ticket \cup {None}]
  <2>1. tickets' = [t \in Tickets |-> tickets'[t]]
    BY <1>2 DEF Bound
  <2>2. \A t \in Tickets : tickets'[t] \in Ticket \cup {None}
    BY <1>7, <1>8 DEF IInv, TypeOK
  <2>3. QED
    BY <2>1, <2>2
<1>10. TicketsOK'
  <2>1. ASSUME NEW t \in Tickets, tickets'[t] # None
        PROVE  /\ IssuedFor(t, tickets'[t].rt, tickets'[t].src, tickets'[t].target)
               /\ tickets'[t].status = "committed" =>
                    tickets'[t].op # None /\ CommittedTo(tickets'[t].op, tickets'[t].target)
    <3>1. CASE t \in T
      <4>1. /\ IssuedFor(t, tickets[t].rt, tickets[t].src, tickets[t].target)
            /\ tickets[t].status = "committed" =>
                 tickets[t].op # None /\ CommittedTo(tickets[t].op, tickets[t].target)
        BY <1>7, <3>1, <2>1 DEF IInv, TicketsOK
      <4>2. QED
        BY <1>7, <3>1, <4>1
    <3>2. CASE t \notin T
      BY <1>8, <2>1, <3>2 DEF IInv, TicketsOK
    <3>3. QED
      BY <3>1, <3>2
  <2>2. QED
    BY <1>1, <2>1 DEF TicketsOK, IssuedFor, CommittedTo
<1>11. AskedHolds'
  <2>1. \A o \in Ops : Completed(mem, o) => \A t \in TicketsOf(mem, o) : tickets'[t] = None
    <3>1. \A o \in Ops : Completed(mem, o) => TicketsOf(mem, o) \subseteq Tickets
      BY RecordedFacts DEF IInv, TypeOK, Completed
    <3>2. QED
      BY <1>7, <1>8, <3>1, TicketsOfAsked
  <2>2. ASSUME NEW o \in asked, Recorded(mem, o), mem.ops[o].state # "completed", up,
               NEW r \in Reserving(mem, o)
        PROVE  HoldsAfter(TicketOf(mem, o, r), r, o) /\ tickets'[TicketOf(mem, o, r)].attempted
    <3> DEFINE t == TicketOf(mem, o, r)
    <3>1. t \in Tickets /\ Holds(t, r, o) /\ tickets[t].attempted /\ o \in Ops
      BY <2>2, TicketsOfAsked, AskedIsRecorded
    <3>2. CASE t \in T
      <4>1. o = h.op
        BY <1>7, <3>1, <3>2, NoneAssumption DEF Holds
      <4>2. QED
        BY <1>7, <3>1, <3>2, <4>1 DEF Holds, HoldsAfter
    <3>3. CASE t \notin T
      BY <1>8, <3>1, <3>3 DEF Holds, HoldsAfter
    <3>4. QED
      BY <3>2, <3>3
  <2>3. QED
    BY <1>1, <1>6, <2>1, <2>2, AskedHoldsAfter
<1>12. HandlerOK' /\ DownOK'
  <2>1. CASE h' = At("refused")
    BY <1>1, <1>3, <1>6, <2>1, HandlerKnows, HandlerAdvances DEF Holding, Reserved, Trying, Asking
  <2>2. CASE /\ h' = At("bound")
             /\ \A r \in Reserving(mem, h.op) :
                  /\ TicketOf(mem, h.op, r) \in T
                  /\ Usable(TicketOf(mem, h.op, r), r, h.op)
    <3>1. \A r \in Reserving(mem, h.op) : HoldsAfter(TicketOf(mem, h.op, r), r, h.op)
      BY <1>7, <2>2 DEF HoldsAfter, Usable
    <3>2. QED
      BY <1>1, <1>3, <1>6, <2>2, <3>1, HandlerKnows, HandlerAdvances
         DEF Holding, Reserved, Trying, Asking
  <2>3. QED
    BY <1>2, <2>1, <2>2
<1>13. SessionOK' /\ PendingOK' /\ CommitsOK' /\ LeaseIsEarned'
  BY <1>1, <1>5, <1>6, StoreStepKeeps
<1>14. h' \in [pc : Stages, op : Ops, code : Codes]
  BY <1>1, <1>2, <1>3
<1>15. TypeOK'
  BY <1>1, <1>6, <1>9, <1>14 DEF IInv, TypeOK, StoreStep, Stages
<1>16. QED
  BY <1>6, <1>10, <1>11, <1>12, <1>13, <1>15 DEF IInv, StoreStep

\* The reservations that a commit takes, all of them when it goes on.
LEMMA CommitTakes ==
    ASSUME IInv, Commit
    PROVE  \E rs \in SUBSET Reserving(mem, h.op) :
             /\ CommitAll(h.op, rs, effect[h.op])
             /\ \A r \in rs : Commits(h.op, r, effect[h.op])
             /\ \/ h' = Caught("RESERVATION")
                \/ h' = At("committed") /\ rs = Reserving(mem, h.op)
<1> DEFINE Good == {r \in Reserving(mem, h.op) : Commits(h.op, r, effect[h.op])}
<1>1. CASE Good = Reserving(mem, h.op)
  <2>1. CommitAll(h.op, Reserving(mem, h.op), effect[h.op]) /\ h' = At("committed")
    BY <1>1 DEF Commit
  <2>2. \A r \in Reserving(mem, h.op) : Commits(h.op, r, effect[h.op])
    BY <1>1
  <2>3. QED
    BY <2>1, <2>2
<1>2. CASE Good # Reserving(mem, h.op)
  <2>1. PICK before \in SUBSET Good :
          CommitAll(h.op, before, effect[h.op]) /\ h' = Caught("RESERVATION")
    BY <1>2 DEF Commit
  <2>2. before \in SUBSET Reserving(mem, h.op) /\ \A r \in before : Commits(h.op, r, effect[h.op])
    OBVIOUS
  <2>3. QED
    BY <2>1, <2>2
<1>3. QED
  BY <1>1, <1>2

\* A ticket committed to a Session.
LEMMA CommittedFacts ==
    ASSUME NEW w \in Ticket, NEW s \in Sessions, NEW v,
           v = [w EXCEPT !.status = "committed", !.target = s]
    PROVE  v = [rt |-> w.rt, src |-> w.src, target |-> s, status |-> "committed",
                op |-> w.op, attempted |-> w.attempted]
  BY DEF Ticket

LEMMA CommitKeeps ==
    ASSUME IInv, Commit PROVE IInv'
<1> DEFINE o == h.op
           s == effect[h.op]
<1>1. /\ h.pc = "called" /\ h.pc # "idle" /\ h.pc # "caught" /\ up
      /\ h.pc \in Holding /\ h.pc \in Reserved /\ h.pc \in Trying /\ h.pc \in Asking
      /\ h.pc \in Asking \ {"calling"}
      /\ "committed" \in Stages /\ "caught" \in Stages /\ "RESERVATION" \in Codes
      /\ UNCHANGED <<disk, mem, up, calls, asked, effect, issued, late, requests, faults>>
  BY DEF Commit, Stages, Codes, Holding, Reserved, Trying, Asking, store, session, bounds
<1>2. /\ o \in Ops /\ h.code \in Codes
      /\ At("committed") = [pc |-> "committed", op |-> o, code |-> h.code]
      /\ Caught("RESERVATION") = [pc |-> "caught", op |-> o, code |-> "RESERVATION"]
  BY <1>1, HandlerFacts DEF IInv
<1>3. /\ Recorded(mem, o) /\ mem.ops[o].state = "running" /\ disk = mem
      /\ o \in asked /\ s # None
      /\ TicketsOf(mem, o) \subseteq Tickets
      /\ \A r \in Reserving(mem, o) : r \in Runtimes /\ TicketOf(mem, o, r) \in TicketsOf(mem, o)
      /\ \A t \in TicketsOf(mem, o) : \E r \in Reserving(mem, o) : t = TicketOf(mem, o, r)
      /\ \A r \in Reserving(mem, o) : Holds(TicketOf(mem, o, r), r, o)
      /\ \A t \in TicketsOf(mem, o) :
           mem.rows[t] # None /\ mem.rows[t].op = o /\ mem.rows[t].attempted /\ tickets[t].attempted
  BY <1>1, HandlerKnows
<1>4. s \in Sessions /\ Fits(s, mem.ops[o].req) /\ CommittedTo(o, s)
  BY <1>2, <1>3 DEF IInv, TypeOK, SessionOK, CommittedTo
<1>5. PICK rs \in SUBSET Reserving(mem, o) :
        /\ CommitAll(o, rs, s)
        /\ \A r \in rs : Commits(o, r, s)
        /\ \/ h' = Caught("RESERVATION")
           \/ h' = At("committed") /\ rs = Reserving(mem, o)
  BY CommitTakes
<1> DEFINE new == {r \in rs : commits[o][r] = None}
           T == {TicketOf(mem, o, r) : r \in rs}
           src == mem.ops[o].req.src
<1> HIDE DEF o, s
<1>6. /\ \A k \in LeaseKey :
           leases'[k] = IF k.rt \in new /\ k = [rt |-> k.rt, src |-> src, session |-> s]
                        THEN [ticket |-> TicketOf(mem, o, k.rt), op |-> o] ELSE leases[k]
      /\ leases' = [k \in LeaseKey |-> leases'[k]]
      /\ over' = over \ {TicketOf(mem, o, r) : r \in new}
      /\ commits' = [commits EXCEPT ![o] = [r \in Runtimes |->
           IF r \in new THEN [ticket |-> TicketOf(mem, o, r), session |-> s] ELSE @[r]]]
      /\ pending' = [pending EXCEPT ![o] = [r \in Runtimes |-> IF r \in new THEN None ELSE @[r]]]
      /\ \A t \in Tickets :
           tickets'[t] = IF t \in T THEN [tickets[t] EXCEPT !.status = "committed", !.target = s]
                         ELSE tickets[t]
      /\ tickets' = [t \in Tickets |-> tickets'[t]]
  BY <1>5 DEF CommitAll
<1>7. T \subseteq TicketsOf(mem, o) /\ T \subseteq Tickets
  BY <1>3
<1>8. Grows
  BY <1>1 DEF Grows
<1>9. StoreStep /\ mem'.ops = mem.ops
  BY <1>1, <1>8, NothingWritten
\* What was staged or committed before was issued for this Session.
<1>10. ASSUME NEW r \in rs
       PROVE  /\ TicketOf(mem, o, r) \in Tickets /\ r \in Runtimes
              /\ IssuedFor(TicketOf(mem, o, r), r, src, s)
  <2>1. TicketOf(mem, o, r) \in Tickets /\ r \in Runtimes
    BY <1>3
  <2>2. Commits(o, r, s)
    BY <1>5
  <2>3. CASE commits[o][r] = [ticket |-> TicketOf(mem, o, r), session |-> s]
    <3>1. commits[o][r] \in Committed
      BY <1>4, <2>1, <2>3 DEF Committed
    <3>2. commits[o][r] # None
      BY <3>1, NoneIsNoRecord
    <3>3. commits[o][r].ticket = TicketOf(mem, o, r) /\ commits[o][r].session = s
      BY <2>3
    <3>4. QED
      BY <1>2, <2>1, <3>2, <3>3 DEF IInv, CommitsOK
  <2>4. CASE /\ pending[o][r] # None
             /\ pending[o][r].ticket = TicketOf(mem, o, r)
             /\ pending[o][r].target \in {None, s}
    BY <1>2, <2>1, <2>4 DEF IInv, PendingOK, IssuedFor
  <2>5. QED
    BY <2>1, <2>2, <2>3, <2>4 DEF Commits
<1>11. ASSUME NEW t \in T
       PROVE  /\ tickets[t] # None /\ tickets[t] \in Ticket /\ tickets[t].op = o
              /\ IssuedFor(t, tickets[t].rt, tickets[t].src, s)
              /\ tickets'[t] \in Ticket /\ tickets'[t] # None
              /\ tickets'[t].rt = tickets[t].rt
              /\ tickets'[t].src = tickets[t].src
              /\ tickets'[t].target = s
              /\ tickets'[t].op = o
              /\ tickets'[t].status = "committed"
              /\ tickets'[t].attempted = tickets[t].attempted
  <2>1. PICK r \in rs : t = TicketOf(mem, o, r)
    OBVIOUS
  <2>2. Holds(t, r, o) /\ IssuedFor(t, r, src, s) /\ t \in Tickets
    BY <1>3, <1>10, <2>1
  <2>3. /\ tickets[t] # None /\ tickets[t] \in Ticket /\ tickets[t].op = o
        /\ IssuedFor(t, tickets[t].rt, tickets[t].src, s)
    BY <2>2 DEF Holds, IInv, TypeOK
  <2> DEFINE w == tickets[t]
             v == [rt |-> w.rt, src |-> w.src, target |-> s, status |-> "committed",
                   op |-> w.op, attempted |-> w.attempted]
  <2>4. tickets'[t] = [tickets[t] EXCEPT !.status = "committed", !.target = s]
    BY <1>6, <2>2
  <2>5. tickets'[t] = v
    BY <1>4, <2>3, <2>4, CommittedFacts
  <2>6. v \in Ticket
    BY <1>4, <2>3 DEF Ticket
  <2>7. v # None
    BY <2>6, NoneIsNoRecord
  <2>8. /\ v.rt = w.rt /\ v.src = w.src /\ v.target = s /\ v.op = w.op
        /\ v.status = "committed"
        /\ v.attempted = w.attempted
    OBVIOUS
  <2> HIDE DEF v
  <2>9. QED
    BY <2>3, <2>5, <2>6, <2>7, <2>8
<1>12. \A t \in Tickets \ T : tickets'[t] = tickets[t]
  BY <1>6
<1> HIDE DEF T
<1>13. tickets' \in [Tickets -> Ticket \cup {None}]
  <2>1. \A t \in Tickets : tickets'[t] \in Ticket \cup {None}
    BY <1>11, <1>12 DEF IInv, TypeOK
  <2>2. QED
    BY <1>6, <2>1
<1>14. TicketsOK'
  <2>1. ASSUME NEW t \in Tickets, tickets'[t] # None
        PROVE  /\ IssuedFor(t, tickets'[t].rt, tickets'[t].src, tickets'[t].target)
               /\ tickets'[t].status = "committed" =>
                    tickets'[t].op # None /\ CommittedTo(tickets'[t].op, tickets'[t].target)
    <3>1. CASE t \in T
      BY <1>2, <1>4, <1>11, <3>1, NoneAssumption
    <3>2. CASE t \notin T
      BY <1>12, <2>1, <3>2 DEF IInv, TicketsOK
    <3>3. QED
      BY <3>1, <3>2
  <2>2. QED
    BY <1>1, <2>1 DEF TicketsOK, IssuedFor, CommittedTo
<1>15. ASSUME NEW p \in Ops, NEW r \in Reserving(mem, p), TicketOf(mem, p, r) \in Tickets,
              Holds(TicketOf(mem, p, r), r, p), tickets[TicketOf(mem, p, r)].attempted
       PROVE  HoldsAfter(TicketOf(mem, p, r), r, p) /\ tickets'[TicketOf(mem, p, r)].attempted
  <2> DEFINE t == TicketOf(mem, p, r)
  <2>1. CASE t \in T
    <3>1. p = o
      BY <1>11, <1>15, <2>1 DEF Holds
    <3>2. QED
      BY <1>4, <1>11, <1>15, <2>1, <3>1 DEF Holds, HoldsAfter
  <2>2. CASE t \notin T
    BY <1>12, <1>15, <2>2 DEF Holds, HoldsAfter
  <2>3. QED
    BY <2>1, <2>2
<1>16. AskedHolds'
  <2>1. \A p \in Ops : Completed(mem, p) => \A t \in TicketsOf(mem, p) : tickets'[t] = None
    <3>1. \A p \in Ops : Completed(mem, p) => TicketsOf(mem, p) \subseteq Tickets
      BY RecordedFacts DEF IInv, TypeOK, Completed
    <3>2. QED
      BY <1>11, <1>12, <3>1, TicketsOfAsked
  <2>2. \A p \in asked : Recorded(mem, p) /\ mem.ops[p].state # "completed" /\ up =>
             \A r \in Reserving(mem, p) :
               HoldsAfter(TicketOf(mem, p, r), r, p) /\ tickets'[TicketOf(mem, p, r)].attempted
    BY <1>15, TicketsOfAsked, AskedIsRecorded
  <2>3. QED
    BY <1>1, <1>9, <2>1, <2>2, AskedHoldsAfter
<1>17. h'.op = o /\ h' \in [pc : Stages, op : Ops, code : Codes]
       /\ (h'.pc = "caught" \/ (h'.pc = "committed" /\ rs = Reserving(mem, o)))
  BY <1>1, <1>2, <1>5
<1>18. HandlerOK' /\ DownOK'
  <2>1. \A r \in Reserving(mem, o) :
          HoldsAfter(TicketOf(mem, o, r), r, o) /\ tickets'[TicketOf(mem, o, r)].attempted
    BY <1>2, <1>3, <1>15
  <2>2. rs = Reserving(mem, o) => \A t \in TicketsOf(mem, o) : tickets'[t].status = "committed"
    BY <1>3, <1>11 DEF T
  <2>3. \A t \in TicketsOf(mem, o) : tickets'[t].attempted
    BY <1>3, <2>1
  <2>4. o = h.op /\ s = effect[h.op]
    BY DEF o, s
  <2>5. QED
    BY <1>1, <1>3, <1>9, <1>17, <2>1, <2>2, <2>3, <2>4, HandlerAdvances
       DEF Holding, Reserved, Trying, Asking
<1>19. SessionOK'
  BY <1>1, <1>8, <1>9, StoreStepKeeps
<1>20. /\ \A p \in Ops, r \in Runtimes :
            commits'[p][r] = IF p = o /\ r \in new
                             THEN [ticket |-> TicketOf(mem, o, r), session |-> s]
                             ELSE commits[p][r]
       /\ commits' \in [Ops -> [Runtimes -> Committed \cup {None}]]
  <2> DEFINE c == [r \in Runtimes |-> IF r \in new
                     THEN [ticket |-> TicketOf(mem, o, r), session |-> s] ELSE commits[o][r]]
  <2>1. commits \in [Ops -> [Runtimes -> Committed \cup {None}]]
    BY DEF IInv, TypeOK
  <2>2. commits' = [commits EXCEPT ![o] = c]
    BY <1>2, <1>6, <2>1
  <2>3. \A r \in new : [ticket |-> TicketOf(mem, o, r), session |-> s] \in Committed
    BY <1>4, <1>10 DEF Committed
  <2>4. c \in [Runtimes -> Committed \cup {None}]
    BY <1>2, <2>1, <2>3
  <2>5. \A r \in Runtimes : c[r] = IF r \in new
                     THEN [ticket |-> TicketOf(mem, o, r), session |-> s] ELSE commits[o][r]
    OBVIOUS
  <2> HIDE DEF c, new
  <2>6. QED
    BY <1>2, <2>1, <2>2, <2>4, <2>5
<1>21. /\ \A p \in Ops, r \in Runtimes :
            pending'[p][r] = IF p = o /\ r \in new THEN None ELSE pending[p][r]
       /\ pending' \in [Ops -> [Runtimes -> Pending \cup {None}]]
  <2> DEFINE c == [r \in Runtimes |-> IF r \in new THEN None ELSE pending[o][r]]
  <2>1. pending \in [Ops -> [Runtimes -> Pending \cup {None}]]
    BY DEF IInv, TypeOK
  <2>2. pending' = [pending EXCEPT ![o] = c]
    BY <1>2, <1>6, <2>1
  <2>3. c \in [Runtimes -> Pending \cup {None}]
    BY <1>2, <2>1
  <2>4. \A r \in Runtimes : c[r] = IF r \in new THEN None ELSE pending[o][r]
    OBVIOUS
  <2> HIDE DEF c, new
  <2>5. QED
    BY <1>2, <2>1, <2>2, <2>3, <2>4
<1>22. CommitsOK'
  <2>1. ASSUME NEW p \in Ops, NEW r \in Runtimes, commits'[p][r] # None
        PROVE  /\ Brought(p, r, commits'[p][r].ticket)
               /\ IssuedFor(commits'[p][r].ticket, r, mem.ops[p].req.src, commits'[p][r].session)
               /\ CommittedTo(p, commits'[p][r].session)
    <3>1. CASE p = o /\ r \in new
      <4>1. commits'[p][r] = [ticket |-> TicketOf(mem, o, r), session |-> s]
        BY ONLY <1>20, <3>1, p \in Ops, r \in Runtimes
      <4>2. commits'[p][r].ticket = TicketOf(mem, o, r) /\ commits'[p][r].session = s
        BY ONLY <4>1
      <4>3. IssuedFor(TicketOf(mem, o, r), r, src, s) /\ TicketOf(mem, o, r) \in Tickets
        BY <1>10, <3>1
      <4>4. QED
        BY <1>3, <1>4, <3>1, <4>2, <4>3, NoneAssumption DEF Brought
    <3>2. CASE ~(p = o /\ r \in new)
      BY <1>20, <2>1, <3>2 DEF IInv, CommitsOK
    <3>3. QED
      BY <3>1, <3>2
  <2>2. mem' = mem /\ UNCHANGED <<asked, effect, issued>>
    BY <1>1
  <2>3. QED
    BY ONLY <2>1, <2>2 DEF CommitsOK, Brought, IssuedFor, CommittedTo, Recorded, TicketOf
<1>23. PendingOK'
  <2>1. ASSUME NEW p \in Ops, NEW r \in Runtimes, pending'[p][r] # None
        PROVE  /\ Brought(p, r, pending'[p][r].ticket)
               /\ IssuedFor(pending'[p][r].ticket, r, mem.ops[p].req.src, pending'[p][r].target)
    BY <1>21, <2>1 DEF IInv, PendingOK
  <2>2. mem' = mem /\ UNCHANGED issued
    BY <1>1
  <2>3. QED
    BY ONLY <2>1, <2>2 DEF PendingOK, Brought, IssuedFor, Recorded, TicketOf
<1>24. ASSUME NEW k \in LeaseKey, k.rt \in new, k = [rt |-> k.rt, src |-> src, session |-> s]
       PROVE  /\ leases'[k].op = o /\ leases'[k].ticket = TicketOf(mem, o, k.rt)
              /\ leases'[k] \in Lease
              /\ k.src = src /\ k.session = s
              /\ IssuedFor(TicketOf(mem, o, k.rt), k.rt, k.src, k.session)
  <2>1. leases'[k] = [ticket |-> TicketOf(mem, o, k.rt), op |-> o]
    BY <1>6, <1>24
  <2>2. k.src = src /\ k.session = s
    BY <1>24
  <2>3. TicketOf(mem, o, k.rt) \in Tickets /\ IssuedFor(TicketOf(mem, o, k.rt), k.rt, src, s)
    BY <1>10, <1>24
  <2>4. QED
    BY <1>2, <2>1, <2>2, <2>3 DEF Lease
<1>25. \A k \in LeaseKey :
         ~(k.rt \in new /\ k = [rt |-> k.rt, src |-> src, session |-> s]) => leases'[k] = leases[k]
  BY <1>6
<1>26. LeaseIsEarned'
  <2>1. ASSUME NEW k \in LeaseKey, leases'[k] # None
        PROVE  LET p == leases'[k].op
                   t == leases'[k].ticket
               IN  /\ IssuedFor(t, k.rt, k.src, k.session)
                   /\ Recorded(disk, p)
                   /\ disk.ops[p].req.src = k.src
                   /\ TicketOf(disk, p, k.rt) = t
                   /\ p \in asked
                   /\ effect[p] = k.session
    <3>1. CASE k.rt \in new /\ k = [rt |-> k.rt, src |-> src, session |-> s]
      BY <1>3, <1>4, <1>24, <3>1 DEF CommittedTo
    <3>2. CASE ~(k.rt \in new /\ k = [rt |-> k.rt, src |-> src, session |-> s])
      BY <1>25, <2>1, <3>2 DEF IInv, LeaseIsEarned, IssuedFor
    <3>3. QED
      BY <3>1, <3>2
  <2>2. disk' = disk /\ UNCHANGED <<asked, effect, issued>>
    BY <1>1
  <2>3. QED
    BY ONLY <2>1, <2>2 DEF LeaseIsEarned, IssuedFor, Recorded, TicketOf
<1>27. leases' \in [LeaseKey -> Lease \cup {None}]
  <2>1. \A k \in LeaseKey : leases'[k] \in Lease \cup {None}
    BY <1>24, <1>25 DEF IInv, TypeOK
  <2>2. QED
    BY <1>6, <2>1
<1>28. over' \subseteq Tickets
  BY <1>6 DEF IInv, TypeOK
<1> HIDE DEF new
<1>29. TypeOK'
  BY <1>1, <1>9, <1>13, <1>17, <1>20, <1>21, <1>27, <1>28 DEF IInv, TypeOK, StoreStep, Stages
<1>30. QED
  BY <1>9, <1>14, <1>16, <1>18, <1>19, <1>22, <1>23, <1>26, <1>29 DEF IInv, StoreStep

LEMMA FinishKeeps ==
    ASSUME IInv, Finish PROVE IInv'
<1> DEFINE o == h.op
           n == ConsumeRows(mem, h.op)
<1>1. /\ h.pc # "idle" /\ h.pc # "caught" /\ up
      /\ h.pc \in Trying /\ h.pc \in Reserved /\ h.pc \in Holding /\ h.pc \in Asking
      /\ "INTERNAL_ERROR" \in Codes
      /\ UNCHANGED <<up, pending, commits, leases, calls, asked, effect, issued, over, requests>>
  BY DEF Finish, Codes, Holding, Reserved, Trying, Asking, manager, session
<1>2. o \in Ops
      /\ Caught("INTERNAL_ERROR") = [pc |-> "caught", op |-> o, code |-> "INTERNAL_ERROR"]
  BY <1>1, HandlerFacts DEF IInv
<1>3. /\ Recorded(mem, o) /\ mem.ops[o].state = "running" /\ disk = mem /\ o \in asked
      /\ TicketsOf(mem, o) \subseteq Tickets
      /\ \A r \in Reserving(mem, o) : Holds(TicketOf(mem, o, r), r, o)
      /\ \A t \in TicketsOf(mem, o) : \E r \in Reserving(mem, o) : t = TicketOf(mem, o, r)
      /\ \A t \in TicketsOf(mem, o) : mem.rows[t] # None /\ mem.rows[t].op = o /\ mem.rows[t].attempted
  BY <1>1, HandlerKnows
<1>4. /\ n \in HostState /\ StoreOK(n) /\ Extends(mem, n)
      /\ \A p \in Ops : Completed(n, p) <=> p = o \/ Completed(mem, p)
  BY <1>2, <1>3, ConsumeKeeps DEF IInv
<1>5. \/ /\ WriteOk(n)
         /\ tickets' = [t \in Tickets |-> IF t \in TicketsOf(mem, o) THEN None ELSE tickets[t]]
         /\ late' = late \ TicketsOf(mem, o)
         /\ h' = Idle
      \/ /\ WriteFails(n)
         /\ h' = [pc |-> "caught", op |-> o, code |-> "INTERNAL_ERROR"]
         /\ UNCHANGED <<tickets, late>>
  BY <1>2 DEF Finish
<1> HIDE DEF n, o
<1>6. StoreStep
  BY <1>1, <1>4, <1>5, Written
<1>7. CASE WriteFails(n) /\ h' = [pc |-> "caught", op |-> o, code |-> "INTERNAL_ERROR"]
           /\ UNCHANGED <<tickets, late>>
  <2>1. mem' = mem
    BY <1>7 DEF WriteFails
  <2>2. HandlerOK' /\ DownOK'
    BY <1>1, <1>7, <2>1, HandlerKnows, HandlerAdvances DEF Holding, Reserved, Trying, Asking, o
  <2>3. \A p \in Ops : Completed(mem', p) <=> Completed(mem, p)
    BY <2>1
  <2>4. h' \in [pc : Stages, op : Ops, code : Codes]
    BY <1>1, <1>2, <1>7 DEF Stages
  <2>5. QED
    BY <1>1, <1>6, <1>7, <2>2, <2>3, <2>4, StepKeeps DEF manager, IInv, TypeOK
<1>8. CASE /\ WriteOk(n)
           /\ tickets' = [t \in Tickets |-> IF t \in TicketsOf(mem, o) THEN None ELSE tickets[t]]
           /\ late' = late \ TicketsOf(mem, o)
           /\ h' = Idle
  <2>1. mem' = n
    BY <1>8 DEF WriteOk
  <2>2. Grows
    BY <1>1 DEF Grows
  <2>3. SessionOK' /\ PendingOK' /\ CommitsOK' /\ LeaseIsEarned'
    BY <1>1, <1>6, <2>2, StoreStepKeeps
  <2>4. \A t \in Tickets : tickets'[t] = IF t \in TicketsOf(mem, o) THEN None ELSE tickets[t]
    BY <1>8
  <2>5. TicketsOK'
    <3>1. \A t \in Tickets : tickets'[t] # None =>
            /\ IssuedFor(t, tickets'[t].rt, tickets'[t].src, tickets'[t].target)
            /\ tickets'[t].status = "committed" =>
                 tickets'[t].op # None /\ CommittedTo(tickets'[t].op, tickets'[t].target)
      BY <2>4 DEF IInv, TicketsOK
    <3>2. QED
      BY <1>1, <3>1 DEF TicketsOK, IssuedFor, CommittedTo
  <2>6. \A p \in Ops : Recorded(mem, p) =>
          /\ Recorded(n, p) /\ n.ops[p].req = mem.ops[p].req
          /\ Reserving(n, p) = Reserving(mem, p) /\ TicketsOf(n, p) = TicketsOf(mem, p)
          /\ \A r : TicketOf(n, p, r) = TicketOf(mem, p, r)
    BY <1>4, SameTickets DEF Extends
  <2>7. ASSUME NEW p \in Ops, Completed(n, p), NEW t \in TicketsOf(n, p)
        PROVE  tickets'[t] = None
    <3>1. CASE p = o
      BY <1>3, <2>4, <2>6, <2>7, <3>1
    <3>2. CASE p # o
      <4>1. Completed(mem, p)
        BY <1>4, <2>7, <3>2
      <4>2. t \in TicketsOf(mem, p) /\ TicketsOf(mem, p) \subseteq Tickets
        BY <2>6, <2>7, <4>1, RecordedFacts DEF Completed, IInv, TypeOK
      <4>3. QED
        BY <2>4, <4>1, <4>2, TicketsOfAsked
    <3>3. QED
      BY <3>1, <3>2
  <2>8. ASSUME NEW p \in asked, Recorded(n, p), n.ops[p].state # "completed", up,
               NEW r \in Reserving(n, p)
        PROVE  Holds(TicketOf(mem, p, r), r, p)' /\ tickets'[TicketOf(n, p, r)].attempted
    <3> DEFINE t == TicketOf(mem, p, r)
    <3>1. p \in Ops /\ Recorded(mem, p)
      BY AskedIsRecorded
    <3>2. ~Completed(n, p) /\ p # o /\ ~Completed(mem, p)
      BY <1>4, <2>8, <3>1 DEF Completed
    <3>3. r \in Reserving(mem, p) /\ TicketOf(n, p, r) = t
      BY <2>6, <2>8, <3>1
    <3>4. t \in Tickets /\ Holds(t, r, p) /\ tickets[t].attempted
      BY <2>8, <3>1, <3>2, <3>3, TicketsOfAsked DEF Completed
    <3>5. t \notin TicketsOf(mem, o)
      BY <1>3, <3>2, <3>4 DEF Holds
    <3>6. tickets'[t] = tickets[t]
      BY <2>4, <3>4, <3>5
    <3>7. TicketOf(mem', p, r) = t /\ mem'.ops[p].req = mem.ops[p].req
      BY <2>1, <2>6, <3>1, SMTT(30)
    <3>8. Holds(TicketOf(mem, p, r), r, p)'
      <4>1. tickets'[TicketOf(mem', p, r)] = tickets[t]
        BY <3>6, <3>7
      <4>2. QED
        BY <3>4, <3>7, <4>1 DEF Holds, TicketOf, Fits
    <3>9. QED
      BY <3>3, <3>4, <3>6, <3>8
  <2>9. AskedHolds'
    <3>1. ASSUME NEW p \in Ops, Recorded(mem', p)
          PROVE  IF mem'.ops[p].state = "completed"
                 THEN \A t \in TicketsOf(mem', p) : tickets'[t] = None
                 ELSE up' /\ p \in asked' =>
                      \A r \in Reserving(mem', p) :
                        Holds(TicketOf(mem, p, r), r, p)' /\ tickets'[TicketOf(mem', p, r)].attempted
      BY <1>1, <2>1, <2>7, <2>8, <3>1 DEF Completed
    <3>2. QED
      BY <3>1 DEF AskedHolds, Recorded, Reserving, TicketOf, TicketsOf
  <2>10. HandlerOK' /\ DownOK'
    BY <1>1, <1>8 DEF HandlerOK, DownOK, Idle
  <2>11. tickets' \in [Tickets -> Ticket \cup {None}]
    BY <1>8 DEF IInv, TypeOK
  <2>12. TypeOK'
    BY <1>1, <1>6, <1>8, <2>11 DEF IInv, TypeOK, StoreStep
  <2>13. QED
    BY <1>6, <2>3, <2>5, <2>9, <2>10, <2>12 DEF IInv, StoreStep
<1>9. QED
  BY <1>5, <1>7, <1>8

LEMMA CrashKeeps ==
    ASSUME IInv, Crash PROVE IInv'
<1>1. /\ UNCHANGED <<disk, calls, asked, effect, issued, requests, faults>>
      /\ up' = FALSE /\ mem' = disk /\ h' = Idle /\ tickets' = NoTickets
      /\ pending' = PerReservation /\ commits' = PerReservation /\ leases' = NoLeases
      /\ late' \subseteq Tickets /\ over' \subseteq Tickets
  BY DEF Crash, session, bounds, IInv, TypeOK
<1>2. Grows /\ disk \in HostState
  BY <1>1 DEF Grows, IInv, TypeOK
<1>3. OrderAfter(disk)
  BY <1>1, <1>2, OrderGrows DEF IInv
<1>4. StoreOK(disk)' /\ StoreOK(mem)'
  BY <1>1, <1>3, OrderOnDisk, OrderInMemory
<1>5. SameRequests'
  BY <1>1 DEF SameRequests, Recorded
<1>6. Extends(mem, mem')
  BY <1>1 DEF IInv, SameRequests, Extends
<1>7. StoreStep
  BY <1>1, <1>2, <1>4, <1>5, <1>6 DEF StoreStep, IInv, TypeOK
<1>8. SessionOK'
  BY <1>1, <1>2, <1>7, StoreStepKeeps
<1>9. /\ \A t \in Tickets : tickets'[t] = None
      /\ \A o \in Ops, r \in Runtimes : pending'[o][r] = None /\ commits'[o][r] = None
      /\ \A k \in LeaseKey : leases'[k] = None
  BY <1>1 DEF NoTickets, PerReservation, NoLeases
<1>10. TicketsOK' /\ PendingOK' /\ CommitsOK' /\ LeaseIsEarned'
  BY <1>9 DEF TicketsOK, PendingOK, CommitsOK, LeaseIsEarned
<1>11. AskedHolds'
  <2>1. \A o \in Ops : Recorded(mem', o) => \A t \in TicketsOf(mem', o) : tickets'[t] = None
    <3>1. \A o \in Ops : Recorded(disk, o) => TicketsOf(disk, o) \subseteq Tickets
      BY <1>2, RecordedFacts
    <3>2. QED
      BY <1>1, <1>9, <3>1
  <2>2. ~up'
    BY <1>1
  <2>3. QED
    BY ONLY <2>1, <2>2 DEF AskedHolds, Recorded, Reserving, TicketOf, TicketsOf
<1>12. HandlerOK'
  BY <1>1 DEF HandlerOK, Idle
<1>13. DownOK'
  BY <1>1 DEF DownOK, Idle, NoTickets, PerReservation, NoLeases
<1>14. TypeOK'
  <2>1. /\ tickets' \in [Tickets -> Ticket \cup {None}]
        /\ pending' \in [Ops -> [Runtimes -> Pending \cup {None}]]
        /\ commits' \in [Ops -> [Runtimes -> Committed \cup {None}]]
        /\ leases' \in [LeaseKey -> Lease \cup {None}]
    BY <1>1 DEF NoTickets, PerReservation, NoLeases
  <2>2. (h = Idle)'
    BY <1>1 DEF Idle
  <2>3. QED
    BY <1>1, <1>7, <2>1, <2>2 DEF IInv, TypeOK, StoreStep
<1>15. QED
  BY <1>7, <1>8, <1>10, <1>11, <1>12, <1>13, <1>14 DEF IInv, StoreStep

\* The tickets, the confirmations, the commits and the leases that a restart finds in a
\* store that is in order.
LEMMA RestoredRow ==
    ASSUME IInv, NEW t \in Tickets, Restored(disk.rows[t])
    PROVE  LET w == disk.rows[t] IN
           /\ w \in Row /\ w # None /\ w.status \in {"reserved", "committed"}
           /\ w.op \in Ops /\ w.rt \in Runtimes
           /\ Recorded(disk, w.op)
           /\ TicketOf(disk, w.op, w.rt) = t
           /\ w.src = disk.ops[w.op].req.src
           /\ IssuedFor(t, w.rt, w.src, w.target)
           /\ Fits(w.target, disk.ops[w.op].req)
           /\ w.status = "committed" => CommittedTo(w.op, w.target)
<1>1. disk.rows[t] # None /\ disk.rows[t] \in Row /\ RowOK(disk, t)
      /\ disk.rows[t].status \in {"reserved", "committed"}
  BY DEF Restored, IInv, TypeOK, HostState, StoreOK
<1>2. disk.rows[t].op \in Ops /\ disk.rows[t].rt \in Runtimes
  BY <1>1 DEF Row
<1>3. QED
  BY <1>1, <1>2 DEF RowOK

\* The tickets of an operation that Session Control was asked for come back.
LEMMA AskedIsRestored ==
    ASSUME IInv, NEW o \in asked, disk.ops[o].state # "completed", NEW r \in Reserving(disk, o)
    PROVE  LET t == TicketOf(disk, o, r)
               w == disk.rows[t]
           IN  /\ t \in Tickets /\ Restored(w)
               /\ w.op = o /\ w.rt = r /\ w.src = disk.ops[o].req.src
               /\ w.status \in {"reserved", "committed"}
               /\ Fits(w.target, disk.ops[o].req)
               /\ w.attempted
<1> DEFINE t == TicketOf(disk, o, r)
<1>1. o \in Ops /\ Recorded(disk, o) /\ disk \in HostState /\ StoreOK(disk)
  BY AskedIsRecorded DEF IInv, TypeOK
<1>2. t \in TicketsOf(disk, o) /\ t \in Tickets /\ t # None
  BY <1>1, RecordedFacts
<1>3. disk.rows[t] # None /\ disk.rows[t].op = o /\ disk.rows[t].attempted
  BY <1>1, <1>2 DEF StoreOK, AskedOK
<1>4. disk.rows[t] \in Row /\ RowOK(disk, t)
  BY <1>1, <1>2, <1>3 DEF StoreOK, HostState
<1>5. Restored(disk.rows[t])
  BY <1>3, <1>4 DEF Restored, RowOK, Row
<1>6. disk.rows[t].rt = r
  <2>1. PICK x \in Reserving(disk, o) :
          /\ t = TicketOf(disk, o, x)
          /\ disk.rows[t] # None /\ disk.rows[t].op = o => disk.rows[t].rt = x
    BY <1>1, <1>2, RuntimeOfTicket
  <2>2. x = r
    BY <1>1, <2>1 DEF StoreOK, RequestOK
  <2>3. QED
    BY <1>3, <2>1, <2>2
<1>7. QED
  BY <1>2, <1>3, <1>4, <1>5, <1>6, RestoredRow DEF Restored

LEMMA RestartFails ==
    ASSUME IInv, ~up, faults' = faults + 1, disk' \in {disk, MarkInterrupted(disk)}, mem' = disk',
           UNCHANGED <<up, tickets, pending, commits, leases, h, session, issued, time, requests>>
    PROVE  IInv'
<1> DEFINE n == MarkInterrupted(disk)
<1>1. /\ mem = disk /\ disk \in HostState /\ StoreOK(disk) /\ TypeOK
      /\ h = Idle /\ asked \subseteq Ops
      /\ UNCHANGED <<up, tickets, pending, commits, leases, h, calls, asked, effect, issued, late, over,
                     requests>>
  BY DEF IInv, DownOK, TypeOK, session, time
<1>2. /\ n \in HostState /\ StoreOK(n) /\ Extends(disk, n)
      /\ \A p \in Ops : Completed(n, p) <=> Completed(disk, p)
  BY <1>1, InterruptKeeps
<1>3. disk' \in {disk, n} /\ mem' = disk'
  OBVIOUS
<1> HIDE DEF n
<1>4. Grows
  BY <1>1 DEF Grows
<1>5. OrderAfter(disk) /\ OrderAfter(n)
  BY <1>1, <1>2, <1>4, OrderGrows
<1>6. StoreOK(disk)' /\ StoreOK(mem)'
  BY <1>3, <1>5, OrderOnDisk, OrderInMemory
<1>7. SameRequests'
  BY <1>3 DEF SameRequests, Recorded
<1>8. Extends(mem, mem')
  BY <1>1, <1>2, <1>3 DEF Extends
<1>9. faults' \in Nat
  BY <1>1 DEF TypeOK
<1>10. \A o \in asked : disk'.ops[o].req = disk.ops[o].req
  BY <1>1, <1>3, <1>8, AskedIsRecorded DEF Extends
<1>11. StoreStep
  BY <1>1, <1>2, <1>3, <1>6, <1>7, <1>8, <1>9, <1>10 DEF StoreStep
<1>12. \A p \in Ops : Completed(mem', p) <=> Completed(mem, p)
  BY <1>1, <1>2, <1>3
<1>13. HandlerOK'
  BY <1>1 DEF HandlerOK, Idle
<1>14. DownOK'
  BY <1>1, <1>3 DEF IInv, DownOK, Idle, NoTickets, PerReservation, NoLeases
<1>15. QED
  BY <1>1, <1>11, <1>12, <1>13, <1>14, StepKeeps DEF manager, TypeOK

LEMMA RestartKeeps ==
    ASSUME IInv, Restart PROVE IInv'
<1> DEFINE n == MarkInterrupted(disk)
<1>1. /\ mem = disk /\ disk \in HostState /\ StoreOK(disk) /\ TypeOK
      /\ h = Idle /\ asked \subseteq Ops /\ ~up
      /\ UNCHANGED <<h, calls, asked, effect, issued, late, over, requests>>
      /\ UNCHANGED <<h, session, issued, time, requests>>
  BY DEF IInv, DownOK, TypeOK, Restart, session, time
<1>2. CASE WriteOk(MarkInterrupted(disk)) /\ up' = TRUE /\ Restore(disk)
  <2>1. /\ n \in HostState /\ n.rows = disk.rows /\ StoreOK(n) /\ Extends(disk, n)
        /\ Extends(n, disk)
        /\ \A p \in Ops : Completed(n, p) <=> Completed(disk, p)
    BY <1>1, InterruptKeeps
  <2>2. disk' = n /\ mem' = n /\ UNCHANGED faults /\ up' = TRUE /\ Restore(disk)
    BY <1>2 DEF WriteOk
  <2> HIDE DEF n
  <2>3. Grows
    BY <1>1 DEF Grows
  <2>4. OrderAfter(n)
    BY <1>1, <2>1, <2>3, OrderGrows
  <2>5. StoreOK(disk)' /\ StoreOK(mem)'
    BY <2>2, <2>4, OrderOnDisk, OrderInMemory
  <2>6. SameRequests'
    BY <2>2 DEF SameRequests, Recorded
  <2>7. \A o \in asked : disk'.ops[o].req = disk.ops[o].req
    BY <1>1, <2>1, <2>2, AskedIsRecorded DEF Extends
  <2>8. StoreStep
    BY <1>1, <2>1, <2>2, <2>5, <2>6, <2>7 DEF StoreStep, TypeOK
  <2>9. SessionOK'
    BY <1>1, <2>3, <2>8, StoreStepKeeps
  <2>10. \A o \in Ops : Recorded(disk, o) =>
           /\ Recorded(n, o) /\ n.ops[o].req = disk.ops[o].req
           /\ Reserving(n, o) = Reserving(disk, o) /\ TicketsOf(n, o) = TicketsOf(disk, o)
           /\ \A r : TicketOf(n, o, r) = TicketOf(disk, o, r)
    <3>1. \A o \in Ops : Recorded(disk, o) => Recorded(n, o) /\ n.ops[o].req = disk.ops[o].req
      BY <2>1 DEF Extends
    <3>2. QED
      BY <3>1, SameTickets
  \* The tickets.
  <2>11. ASSUME NEW t \in Tickets
         PROVE  /\ ~Restored(disk.rows[t]) => tickets'[t] = None
                /\ Restored(disk.rows[t]) =>
                     LET w == disk.rows[t] IN
                     /\ tickets'[t] \in Ticket /\ tickets'[t] # None
                     /\ tickets'[t].rt = w.rt /\ tickets'[t].src = w.src
                     /\ tickets'[t].target = w.target /\ tickets'[t].status = w.status
                     /\ tickets'[t].op = w.op /\ tickets'[t].attempted = w.attempted
    <3>1. tickets'[t] = IF Restored(disk.rows[t]) THEN RestoredTicket(disk.rows[t]) ELSE None
      BY <2>2 DEF Restore
    <3>2. CASE Restored(disk.rows[t])
      <4> DEFINE w == disk.rows[t]
      <4>1. w \in Row /\ w.status \in {"reserved", "committed"}
        BY <3>2, RestoredRow
      <4>2. tickets'[t] = [rt |-> w.rt, src |-> w.src, target |-> w.target, status |-> w.status,
                           op |-> w.op, attempted |-> w.attempted]
        BY <3>1, <3>2 DEF RestoredTicket
      <4> HIDE DEF w
      <4>3. tickets'[t] \in Ticket
        BY <4>1, <4>2 DEF Row, Ticket
      <4>4. tickets'[t] # None
        BY <4>3, NoneIsNoRecord
      <4>5. QED
        BY <3>2, <4>2, <4>3, <4>4 DEF w
    <3>3. QED
      BY <3>1, <3>2
  <2>12. tickets' \in [Tickets -> Ticket \cup {None}]
    <3>1. tickets' = [t \in Tickets |-> tickets'[t]]
      BY <2>2 DEF Restore
    <3>2. \A t \in Tickets : tickets'[t] \in Ticket \cup {None}
      BY <2>11
    <3>3. QED
      BY <3>1, <3>2
  <2>13. TicketsOK'
    <3>1. ASSUME NEW t \in Tickets, tickets'[t] # None
          PROVE  /\ IssuedFor(t, tickets'[t].rt, tickets'[t].src, tickets'[t].target)
                 /\ tickets'[t].status = "committed" =>
                      tickets'[t].op # None /\ CommittedTo(tickets'[t].op, tickets'[t].target)
      <4>1. Restored(disk.rows[t])
        BY <2>11, <3>1
      <4>2. QED
        BY <2>11, <4>1, RestoredRow, NoneAssumption
    <3>2. QED
      BY <1>1, <3>1 DEF TicketsOK, IssuedFor, CommittedTo
  <2>14. AskedHolds'
    <3>1. ASSUME NEW o \in Ops, Completed(n, o), NEW t \in TicketsOf(n, o)
          PROVE  tickets'[t] = None
      <4>1. Completed(disk, o) /\ TicketsOf(n, o) = TicketsOf(disk, o)
            /\ TicketsOf(disk, o) \subseteq Tickets
        BY <1>1, <2>1, <2>10, <3>1, RecordedFacts DEF Completed
      <4>2. disk.rows[t].status = "consumed"
        BY <1>1, <3>1, <4>1 DEF StoreOK, CompletedOK, Completed
      <4>3. QED
        BY <2>11, <3>1, <4>1, <4>2 DEF Restored
    <3>2. ASSUME NEW o \in asked, n.ops[o].state # "completed", NEW r \in Reserving(n, o)
          PROVE  Holds(TicketOf(mem, o, r), r, o)' /\ tickets'[TicketOf(n, o, r)].attempted
      <4> DEFINE t == TicketOf(disk, o, r)
      <4>1. o \in Ops /\ Recorded(disk, o)
        BY AskedIsRecorded
      <4>2. /\ n.ops[o].req = disk.ops[o].req
            /\ r \in Reserving(disk, o) /\ TicketOf(n, o, r) = t
        BY <2>10, <3>2, <4>1
      <4>3. disk.ops[o].state # "completed"
        BY <2>1, <2>10, <3>2, <4>1 DEF Completed
      <4>4. LET w == disk.rows[t] IN
            /\ t \in Tickets /\ Restored(w)
            /\ w.op = o /\ w.rt = r /\ w.src = disk.ops[o].req.src
            /\ w.status \in {"reserved", "committed"}
            /\ Fits(w.target, disk.ops[o].req)
            /\ w.attempted
        BY <4>2, <4>3, AskedIsRestored
      <4>5. /\ tickets'[t] # None /\ tickets'[t].status \in {"reserved", "committed"}
            /\ tickets'[t].op = o /\ tickets'[t].rt = r
            /\ tickets'[t].src = disk.ops[o].req.src
            /\ Fits(tickets'[t].target, disk.ops[o].req)
            /\ tickets'[t].attempted
        BY <2>11, <4>4
      <4>6. TicketOf(mem', o, r) = t /\ mem'.ops[o].req = disk.ops[o].req
        BY <2>2, <4>2, SMTT(30)
      <4>7. Holds(TicketOf(mem, o, r), r, o)'
        BY ONLY <4>5, <4>6 DEF Holds, TicketOf, Fits
      <4>8. QED
        BY <4>2, <4>5, <4>7
    <3>3. ASSUME NEW o \in Ops, Recorded(mem', o)
          PROVE  IF mem'.ops[o].state = "completed"
                 THEN \A t \in TicketsOf(mem', o) : tickets'[t] = None
                 ELSE up' /\ o \in asked' =>
                      \A r \in Reserving(mem', o) :
                        Holds(TicketOf(mem, o, r), r, o)' /\ tickets'[TicketOf(mem', o, r)].attempted
      BY <1>1, <2>2, <3>1, <3>2, <3>3 DEF Completed
    <3>4. QED
      BY <3>3 DEF AskedHolds, Recorded, Reserving, TicketOf, TicketsOf
  \* The confirmations and the commits.
  <2>15. ASSUME NEW o \in Ops, NEW r \in Runtimes
         PROVE  /\ pending'[o][r] \in Pending \cup {None}
                /\ pending'[o][r] # None =>
                     LET t == pending'[o][r].ticket IN
                     /\ Recorded(disk, o) /\ t # None /\ TicketOf(disk, o, r) = t
                     /\ IssuedFor(t, r, disk.ops[o].req.src, pending'[o][r].target)
    <3> DEFINE R == RowsOf(disk, o, r, "reserved")
               t == CHOOSE x \in R : TRUE
               w == disk.rows[t]
               c == [ticket |-> t, target |-> w.target, recoverable |-> w.attempted]
    <3>1. pending'[o][r] = IF R = {} THEN None ELSE c
      BY <2>2 DEF Restore
    <3>2. CASE R # {}
      <4>1. t \in R
        BY <3>2
      <4> HIDE DEF t
      <4>2. t \in Tickets /\ Restored(disk.rows[t]) /\ w.op = o /\ w.rt = r
        BY <4>1 DEF RowsOf
      <4>3. /\ w \in Row /\ Recorded(disk, o) /\ TicketOf(disk, o, r) = t
            /\ w.src = disk.ops[o].req.src /\ IssuedFor(t, r, w.src, w.target)
        BY <4>2, RestoredRow
      <4> HIDE DEF w
      <4>4. c \in Pending
        BY <4>2, <4>3 DEF Pending, Row
      <4>5. c.ticket = t /\ c.target = w.target /\ t # None
        BY <4>2, NoneAssumption
      <4> HIDE DEF c, R
      <4>6. QED
        BY <3>1, <3>2, <4>3, <4>4, <4>5
    <3>3. QED
      BY <3>1, <3>2
  <2>16. ASSUME NEW o \in Ops, NEW r \in Runtimes
         PROVE  /\ commits'[o][r] \in Committed \cup {None}
                /\ commits'[o][r] # None =>
                     LET t == commits'[o][r].ticket IN
                     /\ Recorded(disk, o) /\ t # None /\ TicketOf(disk, o, r) = t
                     /\ IssuedFor(t, r, disk.ops[o].req.src, commits'[o][r].session)
                     /\ CommittedTo(o, commits'[o][r].session)
    <3> DEFINE R == RowsOf(disk, o, r, "committed")
               t == CHOOSE x \in R : TRUE
               w == disk.rows[t]
               c == [ticket |-> t, session |-> w.target]
    <3>1. commits'[o][r] = IF R = {} THEN None ELSE c
      BY <2>2 DEF Restore
    <3>2. CASE R # {}
      <4>1. t \in R
        BY <3>2
      <4> HIDE DEF t
      <4>2. t \in Tickets /\ Restored(disk.rows[t]) /\ w.op = o /\ w.rt = r /\ w.status = "committed"
        BY <4>1 DEF RowsOf
      <4>3. /\ w \in Row /\ Recorded(disk, o) /\ TicketOf(disk, o, r) = t
            /\ w.src = disk.ops[o].req.src /\ IssuedFor(t, r, w.src, w.target)
            /\ CommittedTo(o, w.target)
        BY <4>2, RestoredRow
      <4> HIDE DEF w
      <4>4. w.target \in Sessions
        BY <4>3 DEF Row, CommittedTo
      <4>5. c \in Committed
        BY <4>2, <4>4 DEF Committed
      <4>6. c.ticket = t /\ c.session = w.target /\ t # None
        BY <4>2, NoneAssumption
      <4> HIDE DEF c, R
      <4>7. QED
        BY <3>1, <3>2, <4>3, <4>5, <4>6
    <3>3. QED
      BY <3>1, <3>2
  <2>17. PendingOK'
    <3>1. \A o \in Ops, r \in Runtimes : pending'[o][r] # None =>
            LET t == pending'[o][r].ticket IN
            /\ Recorded(mem', o) /\ t # None /\ TicketOf(mem', o, r) = t
            /\ IssuedFor(t, r, mem'.ops[o].req.src, pending'[o][r].target)
      BY <2>2, <2>10, <2>15
    <3>2. UNCHANGED issued
      BY <1>1
    <3>3. QED
      BY ONLY <3>1, <3>2 DEF PendingOK, Brought, IssuedFor, Recorded, TicketOf
  <2>18. CommitsOK'
    <3>1. \A o \in Ops, r \in Runtimes : commits'[o][r] # None =>
            LET t == commits'[o][r].ticket IN
            /\ Recorded(mem', o) /\ t # None /\ TicketOf(mem', o, r) = t
            /\ IssuedFor(t, r, mem'.ops[o].req.src, commits'[o][r].session)
            /\ CommittedTo(o, commits'[o][r].session)
      BY <2>2, <2>10, <2>16
    <3>2. UNCHANGED <<issued, asked, effect>>
      BY <1>1
    <3>3. QED
      BY ONLY <3>1, <3>2 DEF CommitsOK, Brought, IssuedFor, CommittedTo, Recorded, TicketOf
  <2>19. /\ pending' \in [Ops -> [Runtimes -> Pending \cup {None}]]
         /\ commits' \in [Ops -> [Runtimes -> Committed \cup {None}]]
    <3>1. /\ pending' = [o \in Ops |-> [r \in Runtimes |-> pending'[o][r]]]
          /\ commits' = [o \in Ops |-> [r \in Runtimes |-> commits'[o][r]]]
      BY <2>2 DEF Restore
    <3>2. QED
      BY <2>15, <2>16, <3>1
  \* The leases.
  <2>20. PICK f : /\ \A k \in {x \in LeaseKey : PaidFor(disk, x) # {}} : f[k] \in PaidFor(disk, k)
                  /\ leases' = [k \in LeaseKey |->
                       IF k \in {x \in LeaseKey : PaidFor(disk, x) # {}}
                       THEN [ticket |-> f[k], op |-> disk.rows[f[k]].op] ELSE None]
    BY <2>2 DEF Restore
  <2>21. ASSUME NEW k \in LeaseKey
         PROVE  /\ leases'[k] \in Lease \cup {None}
                /\ leases'[k] # None =>
                     LET o == leases'[k].op
                         t == leases'[k].ticket
                     IN  /\ o \in Ops
                         /\ IssuedFor(t, k.rt, k.src, k.session)
                         /\ Recorded(disk, o)
                         /\ disk.ops[o].req.src = k.src
                         /\ TicketOf(disk, o, k.rt) = t
                         /\ CommittedTo(o, k.session)
    <3> DEFINE t == f[k]
               w == disk.rows[t]
               c == [ticket |-> t, op |-> w.op]
    <3>1. CASE PaidFor(disk, k) # {}
      <4>1. leases'[k] = c
        BY <2>20, <3>1
      <4>2. t \in PaidFor(disk, k)
        BY <2>20, <3>1
      <4>3. /\ t \in Tickets /\ Restored(disk.rows[t]) /\ w.status = "committed"
            /\ k = [rt |-> w.rt, src |-> w.src, session |-> w.target]
        BY <4>2 DEF PaidFor
      <4>4. k.rt = w.rt /\ k.src = w.src /\ k.session = w.target
        BY <4>3
      <4>5. /\ w.op \in Ops /\ Recorded(disk, w.op) /\ TicketOf(disk, w.op, w.rt) = t
            /\ w.src = disk.ops[w.op].req.src /\ IssuedFor(t, w.rt, w.src, w.target)
            /\ CommittedTo(w.op, w.target)
        BY <4>3, RestoredRow, SMTT(30)
      <4> HIDE DEF w
      <4>6. c \in Lease /\ c.ticket = t /\ c.op = w.op
        BY <4>3, <4>5 DEF Lease
      <4> HIDE DEF c
      <4>7. QED
        BY <4>1, <4>4, <4>5, <4>6
    <3>2. CASE PaidFor(disk, k) = {}
      BY <2>20, <3>2
    <3>3. QED
      BY <3>1, <3>2
  <2>22. LeaseIsEarned'
    <3>1. \A k \in LeaseKey : leases'[k] # None =>
            LET o == leases'[k].op
                t == leases'[k].ticket
            IN  /\ IssuedFor(t, k.rt, k.src, k.session)
                /\ Recorded(disk', o)
                /\ disk'.ops[o].req.src = k.src
                /\ TicketOf(disk', o, k.rt) = t
                /\ CommittedTo(o, k.session)
      BY <2>2, <2>10, <2>21
    <3>2. UNCHANGED <<issued, asked, effect>>
      BY <1>1
    <3>3. QED
      BY ONLY <3>1, <3>2 DEF LeaseIsEarned, IssuedFor, CommittedTo, Recorded, TicketOf
  <2>23. leases' \in [LeaseKey -> Lease \cup {None}]
    <3>1. leases' = [k \in LeaseKey |-> leases'[k]]
      BY <2>20
    <3>2. QED
      BY <2>21, <3>1
  <2>24. HandlerOK' /\ DownOK'
    BY <1>1, <2>2 DEF HandlerOK, DownOK, Idle
  <2>25. TypeOK'
    BY <1>1, <2>2, <2>8, <2>12, <2>19, <2>23 DEF TypeOK, StoreStep, Idle
  <2>26. QED
    BY <2>8, <2>9, <2>13, <2>14, <2>17, <2>18, <2>22, <2>24, <2>25 DEF IInv, StoreStep
<1>3. CASE /\ faults' = faults + 1
           /\ disk' \in {disk, MarkInterrupted(disk)}
           /\ mem' = disk'
           /\ UNCHANGED <<up, tickets, pending, commits, leases>>
  BY <1>1, <1>3, RestartFails
<1>4. QED
  BY <1>2, <1>3 DEF Restart

-----------------------------------------------------------------------------
(* The theorems.                                                              *)

LEMMA Initially ==
    Init => IInv
<1> SUFFICES ASSUME Init PROVE IInv
  OBVIOUS
<1>1. /\ disk = EmptyState /\ mem = EmptyState /\ up = FALSE /\ h = Idle
      /\ tickets = NoTickets /\ pending = PerReservation /\ commits = PerReservation
      /\ leases = NoLeases /\ calls = {} /\ asked = {} /\ effect = [o \in Ops |-> None]
      /\ issued = NoTickets /\ late = {} /\ over = {} /\ requests = 0 /\ faults = 0
  BY DEF Init
<1>2. EmptyState \in HostState /\ (\A o \in Ops : ~Recorded(EmptyState, o))
      /\ \A t \in Tickets : EmptyState.rows[t] = None
  BY DEF EmptyState, HostState, Recorded
<1>3. StoreOK(EmptyState)
  BY <1>1, <1>2 DEF StoreOK
<1>4. /\ \A t \in Tickets : tickets[t] = None
      /\ \A o \in Ops, r \in Runtimes : pending[o][r] = None /\ commits[o][r] = None
      /\ \A k \in LeaseKey : leases[k] = None
      /\ \A o \in Ops : effect[o] = None
  BY <1>1 DEF NoTickets, PerReservation, NoLeases
<1>5. /\ tickets \in [Tickets -> Ticket \cup {None}]
      /\ pending \in [Ops -> [Runtimes -> Pending \cup {None}]]
      /\ commits \in [Ops -> [Runtimes -> Committed \cup {None}]]
      /\ leases \in [LeaseKey -> Lease \cup {None}]
      /\ effect \in [Ops -> Sessions \cup {None}]
      /\ issued \in [Tickets -> Issue \cup {None}]
  BY <1>1 DEF NoTickets, PerReservation, NoLeases
<1>6. TypeOK
  BY <1>1, <1>2, <1>5 DEF TypeOK
<1>7. SameRequests /\ SessionOK /\ TicketsOK /\ PendingOK /\ CommitsOK /\ AskedHolds /\ LeaseIsEarned
  BY <1>1, <1>2, <1>4
     DEF SameRequests, SessionOK, TicketsOK, PendingOK, CommitsOK, AskedHolds, LeaseIsEarned
<1>8. HandlerOK /\ DownOK
  BY <1>1 DEF HandlerOK, DownOK, Idle
<1>9. QED
  BY <1>1, <1>3, <1>6, <1>7, <1>8 DEF IInv

LEMMA NextKeeps ==
    IInv /\ [Next]_vars => IInv'
<1> SUFFICES ASSUME IInv, [Next]_vars PROVE IInv'
  OBVIOUS
<1>1. CASE UNCHANGED vars
  <2>1. /\ UNCHANGED <<store, up, tickets, manager, asked, effect, issued, bounds>>
        /\ UNCHANGED <<disk, mem, up, h, tickets, pending, commits, leases>>
        /\ UNCHANGED <<calls, late, over>>
    BY <1>1 DEF vars, session, time, store, manager, bounds
  <2>2. Grows /\ HandlerOK' /\ DownOK'
    <3>1. UNCHANGED <<asked, effect, issued>>
      BY <2>1
    <3>2. Grows
      BY <3>1 DEF Grows
    <3>3. QED
      BY <2>1, <3>2, HandlerStays
  <2>3. QED
    BY <2>1, <2>2, QuietKeeps DEF IInv, TypeOK, Stages
<1>2. CASE \E t \in Tickets, r \in Runtimes, src \in Sources, target \in Sessions \cup {None} :
             Begin(t, r, src, target)
  BY <1>2, BeginKeeps
<1>3. CASE \E t \in Tickets : Confirm(t) \/ ChallengeEnds(t) \/ Deadline(t) \/ LeaseEnds(t)
  BY <1>3, ConfirmKeeps, ChallengeEndsKeeps, TimeKeeps
<1>4. CASE \E o \in Ops, r \in Request : Open(o, r)
  BY <1>4, OpenKeeps
<1>5. CASE \E o \in Ops : Retry(o) \/ SessionControlRefuses(o)
  BY <1>5, RetryKeeps, SessionControlRefusesKeeps
<1>6. CASE \E o \in Ops, s \in Sessions : SessionControlActs(o, s)
  BY <1>6, SessionControlActsKeeps
<1>7. CASE Handler
  BY <1>7, UnreadyKeeps, BindKeeps, ReserveStepKeeps, EnsureKeeps, RefuseKeeps, AttemptStepKeeps,
     CallKeeps, SessionControlRepliesKeeps, ReplyLostKeeps, CommitKeeps, RecordCommitKeeps,
     FinishKeeps, RecordErrorKeeps
     DEF Handler
<1>8. CASE Crash
  BY <1>8, CrashKeeps
<1>9. CASE Restart
  BY <1>9, RestartKeeps
<1>10. QED
  BY <1>1, <1>2, <1>3, <1>4, <1>5, <1>6, <1>7, <1>8, <1>9 DEF Next

\* The invariant holds in every reachable state, however many operations, tickets and
\* Sessions there are (lib/remote-host.mjs:154-380, lib/runtime-manager.mjs:306-420).
THEOREM Inductive ==
    Spec => []IInv
<1>1. Init => IInv
  BY Initially
<1>2. IInv /\ [Next]_vars => IInv'
  BY NextKeeps
<1>3. QED
  BY <1>1, <1>2, PTL DEF Spec

\* The store, the tickets, the manager and Session Control stay in their types.
THEOREM TypeCorrect ==
    Spec => []TypeOK
<1>1. IInv => TypeOK
  BY DEF IInv
<1>2. QED
  BY <1>1, Inductive, PTL

\* No two operations ever reach Session Control with the same ticket, however often they
\* are tried, and whatever writes fail and restarts come between
\* (lib/remote-host.mjs:212-278, the reservations openProject writes).
THEOREM TicketsServeOneOperation ==
    Spec => []OneOperationPerTicket
<1>1. IInv => OneOperationPerTicket
  <2> SUFFICES ASSUME IInv, NEW o \in asked, NEW p \in asked, o # p,
                      NEW t \in TicketsOf(disk, o) \cap TicketsOf(disk, p)
               PROVE  FALSE
    BY DEF OneOperationPerTicket
  <2>1. AskedOK(disk, o) /\ AskedOK(disk, p)
    BY DEF IInv, StoreOK
  <2>2. QED
    BY <2>1 DEF AskedOK
<1>2. QED
  BY <1>1, Inductive, PTL

\* Session Control is asked for an operation only when its reservations are on disk, and
\* they stay there (lib/remote-host.mjs, openProject).
THEOREM CallsStayReserved ==
    Spec => []CallsAreReserved
<1>1. IInv => CallsAreReserved
  BY DEF IInv, StoreOK, AskedOK, CallsAreReserved
<1>2. QED
  BY <1>1, Inductive, PTL

\* A lease was paid for by a ticket of its runtime, its source and its Session, under an
\* operation that opened this Session (lib/runtime-manager.mjs, commitAuthReservation and
\* restoreAuthReservation).
THEOREM LeasesAreEarned ==
    Spec => []LeaseIsEarned
<1>1. IInv => LeaseIsEarned
  BY DEF IInv
<1>2. QED
  BY <1>1, Inductive, PTL

\* The tickets of a completed operation are spent for good, and those of one that may be
\* replayed are kept, past their deadline and across restarts (lib/remote-host.mjs,
\* openProject; lib/runtime-manager.mjs, restoreAuthReservation).
THEOREM OutcomesDecideTickets ==
    Spec => []TicketsFollowOutcome
<1>1. IInv => CompletedIsConsumed
  BY DEF IInv, StoreOK, CompletedOK, AskedHolds, CompletedIsConsumed
<1>2. IInv => RecoverableKeepsTickets
  <2> SUFFICES ASSUME IInv, up, NEW o \in asked, Recorded(mem, o), CanRetry(mem.ops[o]),
                      NEW r \in Reserving(mem, o)
               PROVE  Usable(TicketOf(mem, o, r), r, o)
    BY DEF RecoverableKeepsTickets
  <2>1. mem.ops[o].state # "completed"
    BY DEF CanRetry
  <2>2. Holds(TicketOf(mem, o, r), r, o) /\ tickets[TicketOf(mem, o, r)].attempted
    BY <2>1, TicketsOfAsked
  <2>3. QED
    BY <2>2 DEF Holds, Usable, Fits, OtherOperation, Recoverable
<1>3. QED
  BY <1>1, <1>2, Inductive, PTL DEF TicketsFollowOutcome
=============================================================================
