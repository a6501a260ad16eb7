-------------------------- MODULE ProjectController --------------------------
(***************************************************************************)
(* The control machine's side of remote projects, in one DSH process: the  *)
(* calls of the remote tools (lib/remote-project-controller.mjs) over the  *)
(* host registry (lib/host-registry.mjs) and the connections to the hosts  *)
(* (lib/managed-host.mjs).                                                 *)
(*                                                                         *)
(* A call is an asynchronous function: it runs alone from one await to the *)
(* next, and any other call may run at an await.  Calls that work on a     *)
(* project take the host's promise chain; the others do not.  Every        *)
(* registry update goes through one queue.                                 *)
(***************************************************************************)
EXTENDS Naturals, Sequences

CONSTANTS
    Calls,          \* tool calls; each is made once
    Hosts,          \* host ids
    Targets,        \* ssh targets, each with a host key of its own
    Roots,          \* values of the rest of a profile
    None,
    MaxFaults       \* bound: writes of the registry file that fail

Profile == [target : Targets, root : Roots]

ASSUME NoneAssumption == None \notin Calls \cup Hosts \cup Targets \cup Profile
ASSUME FaultsAssumption == MaxFaults \in Nat

\* What a call may name a host by (its hostId is another spelling of its id).
Names == Hosts \cup Targets

VARIABLES
    reg,        \* the registry in memory: profiles by host id
    file,       \* the registry file
    pin,        \* known_hosts file of each host id: the target whose key it has
    queue,      \* registry updates under way, in order
    call,       \* each call: [op, name, host, work, prof, pc, conn]; host is the one its
                \* name matched when it was made, work the one it matched at its turn
    tail,       \* hostLocks: the last call in each host's chain
    after,      \* the call each call waits for in its chain
    cache,      \* connections: the connection of each host, by the call that made it
    conn,       \* connections made: [host, prof, readying, up]
    disposed,
    disturbed,  \* history: hosts with overlapping calls, a failed registry write or a
                \* call made for another host
    faults

registry == <<reg, file, pin, queue>>
chains == <<tail, after>>
links == <<cache, conn, disposed>>
history == <<disturbed, faults>>
vars == <<registry, call, chains, links, history>>

-----------------------------------------------------------------------------

LockedOps == {"open", "reconcile"}      \* openProject, createSchedule, deleteSchedule
AdminOps == {"add", "update", "remove"}
Ops == LockedOps \cup AdminOps \cup {"status"}

Ended == {"done", "failed"}
Active(c) == call[c].pc \notin Ended \cup {"new"}
Locked(c) == call[c].op \in LockedOps
Host(c) == call[c].host
Registered(h) == reg[h] # None

\* The hosts a name matches: with none, or several, a call that needs the host fails.
Matches(n) == {h \in Hosts : Registered(h) /\ (h = n \/ reg[h].target = n)}
Resolves(n) == \E h \in Hosts : Matches(n) = {h}

NoCall == [op |-> "status", name |-> None, host |-> None, work |-> None, prof |-> None,
           pc |-> "new", conn |-> None]
NoConnection == [host |-> None, prof |-> None, readying |-> FALSE, up |-> FALSE]

Enter(c, op, n, h, prof, pc) ==
    /\ call[c].pc = "new"
    /\ ~disposed
    /\ call' = [call EXCEPT ![c] =
           [op |-> op, name |-> n, host |-> h, work |-> None, prof |-> prof, pc |-> pc,
            conn |-> None]]
    /\ disturbed' =
           IF \E d \in Calls : Active(d) /\ Host(d) = h
                                /\ ~(op \in LockedOps /\ Locked(d))
           THEN disturbed \cup {h} ELSE disturbed
    /\ UNCHANGED faults

\* What is left of a call is how it ended.
Over(result) == [NoCall EXCEPT !.pc = result]
At(c, pc) == call' = [call EXCEPT ![c] = IF pc \in Ended THEN Over(pc) ELSE [@ EXCEPT !.pc = pc]]

ForgetAnyTail(c) == Locked(c)       \* mutant: whoever ends empties the chain
ForgetTail(c) == Locked(c) /\ tail[Host(c)] = c

\* A call ends; the last one of a chain removes the chain.
End(c, result) ==
    /\ At(c, result)
    /\ tail' = IF ForgetTail(c) THEN [tail EXCEPT ![Host(c)] = None] ELSE tail
    /\ UNCHANGED after

Closed(h) == [k \in Calls |-> IF cache[h] = k THEN [conn[k] EXCEPT !.up = FALSE] ELSE conn[k]]
Drop(h) == cache' = [cache EXCEPT ![h] = None] /\ conn' = Closed(h)
KeepConnection(h) == UNCHANGED <<cache, conn>>      \* mutant: the connection stays cached
DropForUpdate(h) == Drop(h)

-----------------------------------------------------------------------------
(* Administration: none of these takes the host's chain. *)

ConflictsById(h, t) == {g \in Hosts : Registered(g) /\ g = h}   \* mutant: targets are not compared
Conflicts(h, t) == {g \in Hosts : Registered(g) /\ (g = h \/ reg[g].target = t)}

Vacant(h, t) == Conflicts(h, t) = {}

AddHost(c, h, prof) ==
    /\ Vacant(h, prof.target)
    /\ Enter(c, "add", None, h, prof, "probing")
    /\ UNCHANGED <<registry, chains, links>>

\* The host key was probed and chosen: its known_hosts file is written.
StageKnownHost(c) ==
    /\ call[c].pc = "probing"
    /\ \/ At(c, "staged") /\ pin' = [pin EXCEPT ![Host(c)] = call[c].prof.target]
       \/ At(c, "failed") /\ UNCHANGED pin
    /\ UNCHANGED <<reg, file, queue, chains, links, history>>

\* The system was probed: the profile goes to the registry.
SubmitAdd(c) ==
    /\ call[c].pc = "staged"
    /\ \/ At(c, "queued") /\ queue' = Append(queue, c)
       \/ At(c, "discarding") /\ UNCHANGED queue
    /\ UNCHANGED <<reg, file, pin, chains, links, history>>

DiscardStagedKnownHost(c) ==
    /\ call[c].pc = "discarding"
    /\ pin' = [pin EXCEPT ![Host(c)] = None]
    /\ End(c, "failed")
    /\ UNCHANGED <<reg, file, queue, links, history>>

\* The connection is closed before the update is queued, in one step.
UpdateHost(c, n, h, root) ==
    /\ Matches(n) = {h}
    /\ Enter(c, "update", None, h, [reg[h] EXCEPT !.root = root], "queued")
    /\ DropForUpdate(h)
    /\ queue' = Append(queue, c)
    /\ UNCHANGED <<reg, file, pin, chains, disposed>>

\* The registry looks the host up once more, by its id, when its connection is closed.
RemoveHost(c, n, h) ==
    /\ Matches(n) = {h}
    /\ Drop(h)
    /\ \/ /\ Resolves(h)
          /\ Enter(c, "remove", None, h, reg[h], "queued")
          /\ queue' = Append(queue, c)
       \/ /\ ~Resolves(h)
          /\ Enter(c, "remove", None, h, reg[h], "failed")
          /\ UNCHANGED queue
    /\ UNCHANGED <<reg, file, pin, chains, disposed>>

-----------------------------------------------------------------------------
(* The registry's update queue. *)

\* What the update of call c is refused for, when its turn comes.
Refused(c) ==
    LET h == Host(c)
        t == call[c].prof.target
    IN  \/ call[c].op = "add" /\ Conflicts(h, t) # {}
        \/ call[c].op = "update" /\ \/ Conflicts(h, t) \ {h} # {}
                                    \/ Registered(h) /\ reg[h].target # t

Kept(c) == IF call[c].op = "remove" THEN None ELSE call[c].prof
Failure(c) == IF call[c].op = "add" THEN "discarding" ELSE "failed"

\* The known_hosts file is written or removed before the registry file is.
ApplyUpdate(c) ==
    /\ queue # <<>> /\ c = Head(queue)
    /\ queue' = Tail(queue)
    /\ IF Refused(c)
       THEN At(c, Failure(c)) /\ UNCHANGED <<reg, file, pin, history>>
       ELSE LET next == [reg EXCEPT ![Host(c)] = Kept(c)]
            IN  /\ pin' = [pin EXCEPT ![Host(c)] =
                               IF call[c].op = "remove" THEN None ELSE call[c].prof.target]
                /\ \/ /\ At(c, "done")
                      /\ reg' = next /\ file' = next
                      /\ UNCHANGED history
                   \/ /\ faults < MaxFaults
                      /\ faults' = faults + 1
                      /\ disturbed' = disturbed \cup {Host(c)}
                      /\ file' \in {file, next}
                      /\ At(c, Failure(c))
                      /\ UNCHANGED reg
    /\ UNCHANGED <<chains, links>>

-----------------------------------------------------------------------------
(* Work on a host. *)

PrecedingSelf(c, h) == c        \* mutant: the chain is read after it was extended
PrecedingUnset(c, h) ==         \* mutant: a host without a chain has no promise to wait for
    IF tail[h] = None THEN "undefined" ELSE tail[h]
Preceding(c, h) == tail[h]

\* openProject, createSchedule, deleteSchedule, reconcile: join the chain of the host
\* that the name matches now.
JoinChain(c, op, n, h) ==
    /\ op \in LockedOps
    /\ Matches(n) = {h}
    /\ Enter(c, op, n, h, None, "waiting")
    /\ after' = [after EXCEPT ![c] = Preceding(c, h)]
    /\ tail' = [tail EXCEPT ![h] = c]
    /\ UNCHANGED <<registry, links>>

\* runtimeStatus works beside the chain.
RuntimeStatus(c, n, h) ==
    /\ Matches(n) = {h}
    /\ Enter(c, "status", n, h, None, "waiting")
    /\ UNCHANGED <<registry, chains, links>>

HasTurn(c) ==
    /\ call[c].pc = "waiting"
    /\ after[c] # None => call[after[c]].pc \in Ended

\* A call that has a connection waits for it to be ready, or makes it so.
Use(c, k, h, cs) ==
    /\ call' = [call EXCEPT ![c].pc = IF cs[k].up THEN "sent" ELSE "readying",
                            ![c].conn = k, ![c].work = h]
    /\ conn' = [cs EXCEPT ![k].readying = ~cs[k].up]

\* The name is looked up again, and may match another host by now.  Then the cached
\* connection, or a profile to make one of after the artifacts are there.
FindConnection(c) ==
    /\ HasTurn(c)
    /\ \E h \in Hosts :
        /\ Matches(call[c].name) = {h}
        /\ IF cache[h] # None
           THEN Use(c, cache[h], h, conn)
           ELSE /\ call' = [call EXCEPT ![c].pc = "preparing", ![c].prof = reg[h],
                                        ![c].work = h]
                /\ UNCHANGED conn
        /\ disturbed' = disturbed \cup ({h} \ {Host(c)})
    /\ UNCHANGED <<registry, chains, cache, disposed, faults>>

\* The artifacts are there: the connection is cached whatever happened meanwhile.
MakeConnection(c) ==
    /\ call[c].pc = "preparing"
    /\ cache' = [cache EXCEPT ![call[c].work] = c]
    /\ LET made == [conn EXCEPT ![c] = [host |-> call[c].work, prof |-> call[c].prof,
                                        readying |-> FALSE, up |-> FALSE]]
       IN  IF call[c].op = "open" \/ Resolves(call[c].name)
           THEN Use(c, c, call[c].work, made) /\ UNCHANGED chains
           ELSE conn' = made /\ End(c, "failed")
    /\ UNCHANGED <<registry, disposed, history>>

\* ensureReady ended well: everyone who awaits it goes on.
ConnectionReady(k) ==
    /\ conn[k].readying
    /\ conn' = [conn EXCEPT ![k].readying = FALSE, ![k].up = TRUE]
    /\ call' = [c \in Calls |-> IF call[c].pc = "readying" /\ call[c].conn = k
                                THEN [call[c] EXCEPT !.pc = "sent"] ELSE call[c]]
    /\ UNCHANGED <<registry, chains, cache, disposed, history>>

\* ensureReady failed: it closes the connection, and everyone who awaits it fails.
ConnectionFails(k) ==
    /\ conn[k].readying
    /\ conn' = [conn EXCEPT ![k].readying = FALSE, ![k].up = FALSE]
    /\ call' = [c \in Calls |-> IF call[c].pc = "readying" /\ call[c].conn = k
                                THEN [call[c] EXCEPT !.pc = "broken"] ELSE call[c]]
    /\ UNCHANGED <<registry, chains, cache, disposed, history>>

\* The host answers; open and schedule calls look the name up once more.
Answer(c) ==
    /\ call[c].pc = "sent"
    /\ conn[call[c].conn].up
    /\ End(c, IF call[c].op # "open" \/ Resolves(call[c].name) THEN "done" ELSE "failed")
    /\ UNCHANGED <<registry, links, history>>

\* A name that matches no host any more, or several, no artifacts, a failed connection or
\* request.
Fail(c) ==
    /\ \/ HasTurn(c) /\ ~Resolves(call[c].name)
       \/ call[c].pc \in {"preparing", "broken", "sent"}
    /\ End(c, "failed")
    /\ UNCHANGED <<registry, links, history>>

Dispose ==
    /\ ~disposed
    /\ disposed' = TRUE
    /\ cache' = [h \in Hosts |-> None]
    /\ conn' = [k \in Calls |-> IF \E h \in Hosts : cache[h] = k
                                THEN [conn[k] EXCEPT !.up = FALSE] ELSE conn[k]]
    /\ disturbed' = disturbed \cup {Host(c) : c \in {d \in Calls : Active(d)}}
    /\ UNCHANGED <<registry, call, chains, faults>>

\* The DSH process ends, disposed or not, and another one opens the registry file.
Restart ==
    /\ reg' = file
    /\ queue' = <<>>
    /\ call' = [c \in Calls |-> IF Active(c) THEN Over("failed") ELSE call[c]]
    /\ tail' = [h \in Hosts |-> None]
    /\ cache' = [h \in Hosts |-> None]
    /\ conn' = [k \in Calls |-> NoConnection]
    /\ disposed' = FALSE
    /\ disturbed' = disturbed \cup {Host(c) : c \in {d \in Calls : Active(d)}}
    /\ UNCHANGED <<file, pin, after, faults>>

-----------------------------------------------------------------------------

\* The registry file as a former process left it.
Init ==
    /\ reg \in [Hosts -> Profile \cup {None}]
    /\ \A g, h \in Hosts : reg[g] # None /\ reg[h] # None /\ reg[g].target = reg[h].target => g = h
    /\ file = reg
    /\ pin = [h \in Hosts |-> IF reg[h] = None THEN None ELSE reg[h].target]
    /\ queue = <<>>
    /\ call = [c \in Calls |-> NoCall]
    /\ tail = [h \in Hosts |-> None]
    /\ after = [c \in Calls |-> None]
    /\ cache = [h \in Hosts |-> None]
    /\ conn = [c \in Calls |-> NoConnection]
    /\ disposed = FALSE
    /\ disturbed = {}
    /\ faults = 0

Begin(c) ==
    \E h \in Hosts :
        \/ \E prof \in Profile : AddHost(c, h, prof)
        \/ \E n \in Names :
            \/ \E root \in Roots : UpdateHost(c, n, h, root)
            \/ RemoveHost(c, n, h)
            \/ \E op \in LockedOps : JoinChain(c, op, n, h)
            \/ RuntimeStatus(c, n, h)

Proceed(c) ==
    \/ StageKnownHost(c) \/ SubmitAdd(c) \/ DiscardStagedKnownHost(c) \/ ApplyUpdate(c)
    \/ FindConnection(c) \/ MakeConnection(c)
    \/ ConnectionReady(c) \/ ConnectionFails(c) \/ Answer(c) \/ Fail(c)

Next == Dispose \/ Restart \/ \E c \in Calls : Begin(c) \/ Proceed(c)

Spec == Init /\ [][Next]_vars

-----------------------------------------------------------------------------
(* Properties. *)

Working == {"preparing", "readying", "sent", "broken"}
Places == Working \cup Ended \cup
          {"new", "probing", "staged", "discarding", "queued", "waiting"}

TypeOK ==
    /\ reg \in [Hosts -> Profile \cup {None}]
    /\ file \in [Hosts -> Profile \cup {None}]
    /\ pin \in [Hosts -> Targets \cup {None}]
    /\ queue \in Seq(Calls)
    /\ call \in [Calls -> [op : Ops, name : Names \cup {None}, host : Hosts \cup {None},
                           work : Hosts \cup {None}, prof : Profile \cup {None},
                           pc : Places, conn : Calls \cup {None}]]
    /\ tail \in [Hosts -> Calls \cup {None}]
    /\ after \in [Calls -> Calls \cup {None}]
    /\ cache \in [Hosts -> Calls \cup {None}]
    /\ conn \in [Calls -> [host : Hosts \cup {None}, prof : Profile \cup {None},
                           readying : BOOLEAN, up : BOOLEAN]]
    /\ disposed \in BOOLEAN
    /\ disturbed \subseteq Hosts
    /\ faults \in Nat

\* Of the calls that take a host's chain, one at a time is at work, however many are made
\* while others fail, wait or end, and whatever each named the host by; and one at a time
\* works on a host, unless a call reached it that was made for another host, which its
\* name matched then (lib/remote-project-controller.mjs:193-200).
OneAtATime ==
    \A c, d \in Calls :
        /\ Locked(c) /\ call[c].pc \in Working
        /\ Locked(d) /\ call[d].pc \in Working
        /\ \/ Host(c) = Host(d)
           \/ call[c].work = call[d].work /\ call[c].work \notin disturbed
        => c = d

\* Two registered hosts never share an ssh target, in memory or in the file, with
\* any number of calls between their check and their turn in the queue.
TargetsUnique ==
    \A s \in {reg, file} : \A g, h \in Hosts :
        s[g] # None /\ s[h] # None /\ s[g].target = s[h].target => g = h

\* A registered host has the known_hosts file with the key it was registered with.
Pinned(h) == Registered(h) => pin[h] = reg[h].target
PinnedUnlessDisturbed == \A h \in Hosts \ disturbed : Pinned(h)
AlwaysPinned == \A h \in Hosts : Pinned(h)

\* A host whose calls do not overlap, but for those in its chain, is only reached
\* under the profile it is registered with, over one connection that is cached.
ConnectionsFollowRegistry ==
    \A h \in Hosts \ disturbed :
        /\ cache[h] # None => Registered(h) /\ conn[cache[h]].prof = reg[h]
        /\ \A k \in Calls : conn[k].host = h /\ (conn[k].up \/ conn[k].readying) => cache[h] = k

\* An undisturbed host is what its registration says: its key is pinned, and it is reached
\* under its profile over one connection (lib/host-registry.mjs:130-178,
\* lib/remote-project-controller.mjs:176-200).
UndisturbedHostsAgree == PinnedUnlessDisturbed /\ ConnectionsFollowRegistry

\* Nothing the call awaits is still to come.
CanProceed(c) ==
    \/ call[c].pc \in {"probing", "staged", "discarding", "preparing", "broken", "sent"}
    \/ queue # <<>> /\ c = Head(queue)
    \/ HasTurn(c)
    \/ conn[c].readying

\* The calls never wait on each other all together.
SomeoneCanProceed == (\E c \in Calls : Active(c)) => \E c \in Calls : CanProceed(c)

\* No call is left waiting for ever, whatever became of those before it in the chain
\* or the queue: while any has not ended, one has all it awaits, and one that has takes
\* a step (lib/remote-project-controller.mjs: #withHostLock).
SomeoneProceeds ==
    SomeoneCanProceed /\ \A c \in Calls : CanProceed(c) => ENABLED Proceed(c)
=============================================================================
