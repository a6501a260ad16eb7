------------------------------- MODULE HostLink -------------------------------
(***************************************************************************)
(* The link between the control machine and a Remote Host: the connector   *)
(* (lib/connector.mjs) sends requests through the SSH stdio bridge         *)
(* (SshStdioBridge in lib/ssh.mjs), which starts an ssh child whenever it  *)
(* has none; each child runs a Remote Host process of its own              *)
(* (bin/dsh-remote-host.mjs) that handles the frames one by one.           *)
(*                                                                         *)
(* The bridge replaces a lost child by itself, the connector does not      *)
(* greet again: what a Remote Host process knows of its clients dies with  *)
(* it.  A bridge numbers its requests and never reuses a number, so a call *)
(* stands for its number.  Writes, the operations and their crashes are    *)
(* RemoteHost; here an operation happens at once and keeps the revision it *)
(* got, perhaps in an earlier life of the control machine.  Two processes  *)
(* may serve at the same time, each from its own copy of the state file,   *)
(* when the lock between them fails (StateLock).                           *)
(***************************************************************************)
EXTENDS Naturals, FiniteSets, SequencesExt

CONSTANTS
    MaxCalls,       \* bound: requests made
    Keys,           \* idempotency keys of operations
    None,
    FirstRev,       \* the revision found when it all begins
    MaxPending,     \* the bridge's limit of requests in progress
    MaxChildren,    \* bound: ssh children started
    MaxFaults       \* bound: lost links, bad frames, dying processes, failing locks

ASSUME NoneAssumption == None \notin Keys \cup {"hello", "operation", "read"}
ASSUME KeysAssumption == IsFiniteSet(Keys)
ASSUME LimitsAssumption ==
    /\ MaxPending \in Nat \ {0}
    /\ MaxCalls \in Nat /\ FirstRev \in Nat /\ MaxChildren \in Nat /\ MaxFaults \in Nat

VARIABLES
    call,       \* each request: [state, kind, child]; its child is a history
    conn,       \* the connector: [up, child, last]; child is a history, where it greeted
    bridge,     \* [child, pending, started]
    ssh,        \* each child on the control machine
    wire,       \* each child's frames: [in, out], requests and answers
    daemon,     \* each child's Remote Host process: [state, known]
    store,      \* the state file and each process's copy: the revision, and the one
                \* each operation got, 0 before
    faults

control == <<call, conn, bridge>>
remote == <<daemon, store>>
vars == <<control, ssh, wire, remote, faults>>

Calls == 1..MaxCalls
Children == 1..MaxChildren
NoChild == 0
File == NoChild
Kinds == {"hello", "operation", "read"}
States == {"new", "sent", "ok", "refused", "lost"}

Frame == [id : Calls, kind : {"hello", "read"}, key : {None}]
         \cup [id : Calls, kind : {"operation"}, key : Keys]
MostRev == FirstRev + Cardinality(Keys)
Answer == [id : Calls, ok : BOOLEAN, rev : 0..MostRev]
Process == [state : {"none", "starting", "serving", "stopping", "dead"},
            known : BOOLEAN]

\* No operation is beyond the revision, and only operations done for the first time
\* advance it.
Counted(s) ==
    /\ s \in [rev : Nat, ops : [Keys -> Nat]]
    /\ \A key \in Keys : s.ops[key] <= s.rev
    /\ s.rev + Cardinality({key \in Keys : s.ops[key] = 0}) <= MostRev

\* The type invariant: every part has its values; in the file and in every copy a
\* repeated operation has been counted once.
TypeOK ==
    /\ call \in [Calls -> [state : States, kind : Kinds \cup {None}, child : 0..MaxChildren]]
    /\ \A c \in Calls : call[c].kind = None <=> call[c].state # "sent"
    /\ conn \in [up : BOOLEAN, child : 0..MaxChildren, last : 0..MostRev]
    /\ bridge \in [child : 0..MaxChildren, pending : SUBSET Calls, started : 0..MaxChildren]
    /\ bridge.child <= bridge.started
    /\ ssh \in [Children -> {"none", "live", "killed", "gone"}]
    /\ \A k \in Children : ssh[k] = "none" <=> k > bridge.started
    /\ bridge.child # NoChild => ssh[bridge.child] = "live"
    /\ wire \in [Children -> [in : Seq(Frame), out : Seq(Answer)]]
    /\ daemon \in [Children -> Process]
    /\ DOMAIN store = 0..MaxChildren /\ \A j \in 0..MaxChildren : Counted(store[j])
    /\ faults \in 0..MaxFaults

Init ==
    /\ call = [c \in Calls |-> [state |-> "new", kind |-> None, child |-> NoChild]]
    /\ conn = [up |-> FALSE, child |-> NoChild, last |-> 0]
    /\ bridge = [child |-> NoChild, pending |-> {}, started |-> 0]
    /\ ssh = [k \in Children |-> "none"]
    /\ wire = [k \in Children |-> [in |-> <<>>, out |-> <<>>]]
    /\ daemon = [k \in Children |-> [state |-> "none", known |-> FALSE]]
    /\ \E ops \in [Keys -> 0..FirstRev] :
          store = [j \in 0..MaxChildren |-> [rev |-> FirstRev, ops |-> ops]]
    /\ faults = 0

Fault == faults < MaxFaults /\ faults' = faults + 1

-----------------------------------------------------------------------------
(* Sending. *)

New(c) == call[c].state = "new" /\ \A d \in 1..(c - 1) : call[d].state # "new"

Greeting == \E c \in bridge.pending : call[c].kind = "hello"

Settled(answer) == [state |-> answer, kind |-> None, child |-> NoChild]

Starting(k) == daemon[k].state = "starting"
Owner(k) == daemon[k].state \in {"serving", "stopping"}

\* The bridge starts a child when it has none, and writes the frame to its stdin.
Write(c, kind, key) ==
    LET fresh == bridge.child = NoChild
        k == IF fresh THEN bridge.started + 1 ELSE bridge.child IN
    /\ k \in Children
    /\ bridge' = [child |-> k, pending |-> bridge.pending \cup {c},
                  started |-> IF fresh THEN k ELSE bridge.started]
    /\ ssh' = [ssh EXCEPT ![k] = "live"]
    /\ daemon' = IF fresh THEN [daemon EXCEPT ![k].state = "starting"] ELSE daemon
    /\ wire' = [wire EXCEPT ![k].in = Append(@, [id |-> c, kind |-> kind, key |-> key])]
    /\ call' = [call EXCEPT ![c] = [state |-> "sent", kind |-> kind, child |-> k]]

\* A connection greets once, when it is made.
Connect(c) ==
    /\ New(c) /\ ~conn.up /\ ~Greeting
    /\ Write(c, "hello", None)
    /\ UNCHANGED <<conn, store, faults>>

AnyTime == TRUE         \* mutant: no #assertConnected
Connected == conn.up

Request(c, kind, key) ==
    /\ New(c) /\ Connected
    /\ Cardinality(bridge.pending) < MaxPending
    /\ Write(c, kind, key)
    /\ UNCHANGED <<conn, store, faults>>

\* Too many requests in progress.
RequestRefused(c) ==
    /\ New(c) /\ Connected
    /\ Cardinality(bridge.pending) >= MaxPending
    /\ call' = [call EXCEPT ![c] = Settled("lost")]
    /\ UNCHANGED <<conn, bridge, ssh, wire, remote, faults>>

-----------------------------------------------------------------------------
(* The Remote Host processes. *)

\* The lock is free, or its owner is robbed of it, as StateLock lets it happen: starts
\* overlap, its file cannot be read, or one robbed before releases it.  The process
\* serves from what it reads.  One that stops may have released the lock already.
DaemonStarts(k) ==
    /\ Starting(k)
    /\ \/ UNCHANGED faults /\ \A j \in Children : daemon[j].state # "serving"
       \/ Fault /\ \E j \in Children : daemon[j].state = "serving"
    /\ daemon' = [daemon EXCEPT ![k].state = "serving"]
    /\ store' = [store EXCEPT ![k] = store[File]]
    /\ UNCHANGED <<control, ssh, wire>>

\* Another process is alive and has, or takes, the lock: this one ends.
DaemonRefused(k) ==
    /\ Starting(k)
    /\ \E j \in Children \ {k} : Starting(j) \/ Owner(j)
    /\ daemon' = [daemon EXCEPT ![k].state = "dead"]
    /\ UNCHANGED <<control, ssh, wire, store, faults>>

Reply(c, ok, r) == [id |-> c, ok |-> ok, rev |-> r]

Done(s, key) == [rev |-> s.rev + 1, ops |-> [s.ops EXCEPT ![key] = s.rev + 1]]

ExecutedAgain(s, key) == Done(s, key)   \* mutant: the record of the key is not looked for

\* A repeated key gets the operation it named the first time, with its revision.
Executed(s, key) == IF s.ops[key] = 0 THEN Done(s, key) ELSE s

\* An update rewrites the file from the process's copy.
Written(k, s) == [j \in 0..MaxChildren |-> IF j \in {k, File} THEN s ELSE store[j]]

\* One frame at a time.  Anything but a greeting is refused from a client that never
\* greeted this process.
Handle(k) ==
    LET f == Head(wire[k].in)
        s == store[k]
        done == Executed(s, f.key)
        answers(ok, r) == wire' = [wire EXCEPT ![k].in = Tail(@),
                                               ![k].out = Append(@, Reply(f.id, ok, r))] IN
    /\ daemon[k].state = "serving" /\ wire[k].in # <<>>
    /\ \/ /\ f.kind = "hello"
          /\ answers(TRUE, s.rev)
          /\ daemon' = [daemon EXCEPT ![k].known = TRUE]
          /\ UNCHANGED store
       \/ /\ f.kind # "hello" /\ ~daemon[k].known
          /\ answers(FALSE, 0)
          /\ UNCHANGED remote
       \/ /\ f.kind = "operation" /\ daemon[k].known
          /\ answers(TRUE, done.ops[f.key])
          /\ store' = IF done = s THEN store ELSE Written(k, done)
          /\ UNCHANGED daemon
       \/ /\ f.kind = "read" /\ daemon[k].known
          /\ answers(TRUE, s.rev)
          /\ UNCHANGED remote
    /\ UNCHANGED <<control, ssh, faults>>

\* Its stdin ends, after any time: the process stops and releases the state.
DaemonStops(k) ==
    /\ ssh[k] \in {"killed", "gone"}
    /\ Owner(k)
    /\ daemon' = [daemon EXCEPT ![k].known = FALSE,
           ![k].state = IF @ = "serving" THEN "stopping" ELSE "dead"]
    /\ UNCHANGED <<control, ssh, wire, store, faults>>

\* It dies, or is refused the lock for an error or for a pid another program has.
DaemonDies(k) ==
    /\ Fault /\ daemon[k].state \in {"starting", "serving"}
    /\ daemon' = [daemon EXCEPT ![k].state = "dead", ![k].known = FALSE]
    /\ UNCHANGED <<control, ssh, wire, store>>

-----------------------------------------------------------------------------
(* Receiving. *)

Remembered(c) == bridge.pending         \* mutant: the entry stays
Forgotten(c) == bridge.pending \ {c}

Later(r) == IF r < conn.last THEN conn.last ELSE r

\* An answer to nobody is dropped.
Deliver(k) ==
    LET f == Head(wire[k].out)
        c == f.id IN
    /\ ssh[k] \in {"live", "killed"} /\ wire[k].out # <<>>
    /\ wire' = [wire EXCEPT ![k].out = Tail(@)]
    /\ IF c \in bridge.pending
       THEN /\ bridge' = [bridge EXCEPT !.pending = @ \ {c}]
            /\ call' = [call EXCEPT ![c] = Settled(IF f.ok THEN "ok" ELSE "refused")]
            /\ conn' = IF ~f.ok THEN conn
                       ELSE IF call[c].kind = "hello"
                            THEN [up |-> TRUE, child |-> k, last |-> Later(f.rev)]
                            ELSE [conn EXCEPT !.last = Later(f.rev)]
       ELSE UNCHANGED control
    /\ UNCHANGED <<ssh, remote, faults>>

Unsettled(calls) ==
    [c \in Calls |-> IF c \in calls THEN Settled("lost") ELSE call[c]]

\* Whatever the child it is about, the current one goes and takes all requests along;
\* the connector does not hear of it.
Reset ==
    /\ bridge' = [bridge EXCEPT !.child = NoChild, !.pending = {}]
    /\ call' = Unsettled(bridge.pending)
    /\ UNCHANGED conn

Killed == IF bridge.child = NoChild THEN ssh ELSE [ssh EXCEPT ![bridge.child] = "killed"]

GreetingTimesOut(c) ==      \* mutant: other requests wait for as long as it takes
    /\ c \in bridge.pending /\ call[c].kind = "hello"
    /\ Reset /\ ssh' = Killed
    /\ UNCHANGED <<wire, remote, faults>>

\* A greeting that fails closes the bridge (lib/managed-host.mjs #connection).
TimesOut(c) ==
    /\ c \in bridge.pending
    /\ IF call[c].kind = "hello" THEN Reset /\ ssh' = Killed
       ELSE /\ bridge' = [bridge EXCEPT !.pending = Forgotten(c)]
            /\ call' = [call EXCEPT ![c] = Settled("lost")]
            /\ UNCHANGED <<conn, ssh>>
    /\ UNCHANGED <<wire, remote, faults>>

\* The exit event of a child, the current one or one killed before.
Exits(k) ==
    /\ ssh' = [(IF bridge.child = k THEN ssh ELSE Killed) EXCEPT ![k] = "gone"]
    /\ Reset
    /\ UNCHANGED <<wire, remote>>

ChildEnds(k) ==
    /\ ssh[k] = "killed" \/ (ssh[k] = "live" /\ daemon[k].state = "dead")
    /\ Exits(k)
    /\ UNCHANGED faults

LinkLost(k) == Fault /\ ssh[k] = "live" /\ Exits(k)

\* A line that is no frame, or too long.
BadFrame ==
    /\ Fault /\ bridge.child # NoChild
    /\ Reset /\ ssh' = Killed
    /\ UNCHANGED <<wire, remote>>

Next ==
    \/ \E c \in Calls :
          \/ Connect(c) \/ TimesOut(c)
          \/ \E key \in Keys : Request(c, "operation", key)
          \/ Request(c, "read", None) \/ RequestRefused(c)
    \/ \E k \in Children :
          \/ DaemonStarts(k) \/ DaemonRefused(k) \/ Handle(k)
          \/ DaemonStops(k) \/ DaemonDies(k)
          \/ Deliver(k) \/ ChildEnds(k) \/ LinkLost(k)
    \/ BadFrame

Spec == Init /\ [][Next]_vars

\* Every request has a timer; nothing makes the remote side act.
FairSpec == Spec /\ \A c \in Calls : WF_vars(TimesOut(c))

-----------------------------------------------------------------------------
(* Properties. *)

\* The bridge holds the requests in progress and no others, through timeouts, resets and
\* late answers: a leaked entry counts against its limit for ever, a lost one is a call
\* that never returns (lib/ssh.mjs:226-262).
PendingIsInProgress == bridge.pending = {c \in Calls : call[c].state = "sent"}

Refuses(c) == call[c].state = "sent" /\ call'[c].state = "refused"

\* While the child that was greeted is the bridge's child, its process knows the
\* connector: a request may be refused for want of a greeting only after that child was
\* replaced (lib/connector.mjs:47-64, lib/ssh.mjs:216-224, bin/dsh-remote-host.mjs:62-112).
RefusedOnlyAfterLoss == [][\A c \in Calls :
    Refuses(c) => conn.up /\ call[c].child # conn.child]_vars

\* Every request returns, whatever the remote side does (lib/ssh.mjs:226-239).
CallsSettle == \A c \in Calls : call[c].state = "sent" ~> call[c].state # "sent"

\* What the tool remote_project_reconcile promises (lib/dsh-plugin.mjs:123): it reads the
\* remote state again after a lost connection, so a Remote Host that answers does not
\* refuse it.
ReconcileRecovers == [][\A c \in Calls : call[c].kind = "read" => ~Refuses(c)]_vars
=============================================================================
