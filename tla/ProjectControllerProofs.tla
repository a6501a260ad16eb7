----------------------- MODULE ProjectControllerProofs -----------------------
(***************************************************************************)
(* What the project controller keeps for any number of calls, hosts,       *)
(* targets and failed writes: a target for each registration, one call of  *)
(* a host's chain at work at a time, for the hosts whose calls do not      *)
(* overlap the registered key and one connection under the profile, and    *)
(* somebody who can go on.  The last part is about the lock file of the    *)
(* registry, and of the Remote Host's state store, with any number of      *)
(* processes: two owners, and a lost update, only after a lock was         *)
(* unlinked by a process that had crossed with another's start or release; *)
(* refusals only by a process id in use or by a file operation that fails. *)
(***************************************************************************)
EXTENDS ProjectController, StateLock, TLAPS

-----------------------------------------------------------------------------
(* Types, and what each place of a call says of it. *)

Shaped(c) ==
    /\ call[c].pc = "new" => call[c].op = "status"
    /\ Active(c) => Host(c) \in Hosts
    /\ call[c].pc \in {"probing", "staged", "discarding"} => call[c].op = "add"
    /\ call[c].pc = "queued" => call[c].op \in AdminOps
    /\ call[c].pc \in {"waiting"} \cup Working => call[c].op \in LockedOps \cup {"status"}
    /\ Active(c) /\ call[c].op \in {"add", "update"} => call[c].prof \in Profile
    /\ call[c].pc = "preparing" => call[c].prof \in Profile
    /\ call[c].pc \in Working => call[c].work \in Hosts
    /\ call[c].pc = "sent" => call[c].conn \in Calls

QueueHoldsTheQueued ==
    /\ \A i \in 1 .. Len(queue) : call[queue[i]].pc = "queued"
    /\ \A i, j \in 1 .. Len(queue) : queue[i] = queue[j] => i = j

CallRecord == [op : Ops, name : Names \cup {None}, host : Hosts \cup {None},
               work : Hosts \cup {None}, prof : Profile \cup {None},
               pc : Places, conn : Calls \cup {None}]

ConnRecord == [host : Hosts \cup {None}, prof : Profile \cup {None},
               readying : BOOLEAN, up : BOOLEAN]

TypeInv == TypeOK /\ (\A c \in Calls : Shaped(c)) /\ QueueHoldsTheQueued

LEMMA TypeInvInit == Init => TypeInv
<1> SUFFICES ASSUME Init PROVE TypeInv
  OBVIOUS
<1>1. pin \in [Hosts -> Targets \cup {None}]
  BY DEF Init, Profile
<1>2. call \in [Calls -> CallRecord]
  BY DEF Init, CallRecord, Places, Ops, NoCall
<1>3. conn \in [Calls -> [host : Hosts \cup {None}, prof : Profile \cup {None},
                         readying : BOOLEAN, up : BOOLEAN]]
  BY DEF Init, NoConnection
<1>4. /\ reg \in [Hosts -> Profile \cup {None}] /\ file = reg
      /\ faults \in Nat /\ disposed \in BOOLEAN /\ disturbed \subseteq Hosts
  BY DEF Init
<1>6. queue \in Seq(Calls)
  BY DEF Init
<1>5. /\ tail \in [Hosts -> Calls \cup {None}]
      /\ after \in [Calls -> Calls \cup {None}]
      /\ cache \in [Hosts -> Calls \cup {None}]
  BY DEF Init
<1>7. TypeOK
  BY <1>1, <1>2, <1>3, <1>4, <1>5, <1>6, Zenon DEF TypeOK, CallRecord
<1> QED BY <1>7 DEF Init, TypeInv, Shaped, QueueHoldsTheQueued, Working, NoCall, Active

\* What an entering call is made of.
Beginnings == {"probing", "queued", "waiting", "failed"}
Entered(c, op, h, prof, place) ==
    /\ call'[c].op = op /\ call'[c].host = h /\ call'[c].prof = prof
    /\ call'[c].pc = place /\ call'[c].conn = None

\* A call enters with what its operation needs.
LEMMA EnterTypes ==
    ASSUME TypeInv, NEW c \in Calls, NEW op \in Ops, NEW n \in Names \cup {None}, NEW h \in Hosts,
           NEW prof \in Profile \cup {None}, NEW place \in Beginnings,
           Enter(c, op, n, h, prof, place)
    PROVE  /\ call' \in [Calls -> CallRecord]
           /\ call[c].pc = "new" /\ Entered(c, op, h, prof, place)
           /\ \A d \in Calls \ {c} : call'[d] = call[d]
           /\ disturbed' \in SUBSET Hosts
           /\ faults' \in Nat
BY DEF TypeInv, TypeOK, Enter, Entered, Places, Ended, CallRecord, Beginnings

\* What a call keeps when it moves: all it is made of, or nothing when it ends.
Moved(c) ==
    \/ /\ call'[c].op = call[c].op /\ call'[c].host = call[c].host
       /\ call'[c].name = call[c].name /\ call'[c].work = call[c].work
       /\ call'[c].prof = call[c].prof /\ call'[c].conn = call[c].conn
    \/ call'[c].pc \in Ended /\ call'[c].op = "status"

\* What is left of a call that ended.
LEMMA OverTypes ==
    ASSUME NEW result \in Ended
    PROVE  Over(result) \in CallRecord /\ Over(result).pc = result /\ Over(result).op = "status"
BY DEF Over, NoCall, CallRecord, Places, Ops

\* A call moves: nothing else of it changes.
LEMMA MoveTypes ==
    ASSUME TypeInv, NEW c \in Calls, NEW place \in Places, At(c, place)
    PROVE  /\ call' \in [Calls -> CallRecord]
           /\ call'[c].pc = place /\ Moved(c)
           /\ \A d \in Calls \ {c} : call'[d] = call[d]
<1>1. call \in [Calls -> CallRecord]
  BY DEF TypeInv, TypeOK, CallRecord
<1>2. [call[c] EXCEPT !.pc = place] \in CallRecord
  BY <1>1 DEF CallRecord
<1> DEFINE next == IF place \in Ended THEN Over(place) ELSE [call[c] EXCEPT !.pc = place]
<1>3. call' = [call EXCEPT ![c] = next]
  BY <1>1 DEF At
<1>4. /\ next \in CallRecord /\ next.pc = place
      /\ place \in Ended => next.op = "status"
      /\ place \notin Ended => next = [call[c] EXCEPT !.pc = place]
  BY <1>1, <1>2, OverTypes DEF CallRecord
<1> HIDE DEF next
<1>5. /\ call' \in [Calls -> CallRecord] /\ call'[c] = next
      /\ \A d \in Calls \ {c} : call'[d] = call[d]
  BY <1>1, <1>3, <1>4
<1> QED BY <1>1, <1>4, <1>5 DEF Moved, CallRecord

\* A call that ends may empty its chain.
LEMMA EndTypes ==
    ASSUME TypeInv, NEW c \in Calls, NEW place \in Ended, End(c, place)
    PROVE  /\ At(c, place)
           /\ tail' \in [Hosts -> Calls \cup {None}]
           /\ after' \in [Calls -> Calls \cup {None}]
BY DEF TypeInv, TypeOK, End

\* Closing a host's connection leaves every connection what it is otherwise.
LEMMA ClosedTypes ==
    ASSUME TypeInv, NEW h \in Hosts
    PROVE  Closed(h) \in [Calls -> ConnRecord]
<1>1. conn \in [Calls -> ConnRecord]
  BY DEF TypeInv, TypeOK, ConnRecord
<1>2. \A k \in Calls : [conn[k] EXCEPT !.up = FALSE] \in ConnRecord
  BY <1>1 DEF ConnRecord
<1> QED BY <1>1, <1>2 DEF Closed

\* What stays of the queue when a call that was not in it moves or enters.
LEMMA QueueStays ==
    ASSUME TypeInv, UNCHANGED queue, \A d \in Calls : call[d].pc = "queued" => call'[d].pc = "queued"
    PROVE  QueueHoldsTheQueued'
<1>1. \A i \in 1 .. Len(queue) : queue[i] \in Calls
  BY DEF TypeInv, TypeOK
<1> QED BY <1>1 DEF TypeInv, QueueHoldsTheQueued

LEMMA QueueGrows ==
    ASSUME TypeInv, NEW c \in Calls, call[c].pc # "queued", queue' = Append(queue, c),
           call'[c].pc = "queued", \A d \in Calls \ {c} : call'[d] = call[d]
    PROVE  QueueHoldsTheQueued' /\ queue' \in Seq(Calls)
<1>1. \A i \in 1 .. Len(queue) : queue[i] \in Calls /\ call[queue[i]].pc = "queued"
  BY DEF TypeInv, TypeOK, QueueHoldsTheQueued
<1>2. /\ Len(queue') = Len(queue) + 1 /\ Len(queue) \in Nat
      /\ \A i \in 1 .. Len(queue) : queue'[i] = queue[i]
      /\ queue'[Len(queue) + 1] = c
      /\ queue' \in Seq(Calls)
  BY DEF TypeInv, TypeOK
<1> QED BY <1>1, <1>2 DEF TypeInv, QueueHoldsTheQueued

LEMMA QueueShrinks ==
    ASSUME TypeInv, queue # <<>>, queue' = Tail(queue),
           \A d \in Calls \ {Head(queue)} : call'[d] = call[d]
    PROVE  /\ QueueHoldsTheQueued' /\ queue' \in Seq(Calls)
           /\ Head(queue) \in Calls /\ call[Head(queue)].pc = "queued"
<1>1. /\ Len(queue) \in Nat \ {0} /\ Head(queue) = queue[1]
      /\ \A i \in 1 .. Len(queue) : queue[i] \in Calls /\ call[queue[i]].pc = "queued"
  BY DEF TypeInv, TypeOK, QueueHoldsTheQueued
<1>2. /\ Len(queue') = Len(queue) - 1
      /\ \A i \in 1 .. Len(queue) - 1 : queue'[i] = queue[i + 1]
      /\ queue' \in Seq(Calls)
  BY <1>1 DEF TypeInv, TypeOK
<1>3. \A i \in 1 .. Len(queue) - 1 : queue[i + 1] # queue[1]
  BY <1>1 DEF TypeInv, QueueHoldsTheQueued
<1>4. \A i \in 1 .. Len(queue') : queue'[i] \in Calls /\ call'[queue'[i]].pc = "queued"
  BY <1>1, <1>2, <1>3
<1>5. \A i, j \in 1 .. Len(queue') : queue'[i] = queue'[j] => i = j
  BY <1>1, <1>2 DEF TypeInv, QueueHoldsTheQueued
<1> QED BY <1>1, <1>2, <1>4, <1>5 DEF QueueHoldsTheQueued

\* A record whose fields change stays a record of its set.
LEMMA CallRecords ==
    ASSUME NEW r \in CallRecord, NEW place \in Places, NEW k \in Calls \cup {None},
           NEW prof \in Profile \cup {None}, NEW h \in Hosts \cup {None}
    PROVE  /\ [r EXCEPT !.pc = place] \in CallRecord
           /\ [r EXCEPT !.pc = place, !.conn = k, !.work = h] \in CallRecord
           /\ [r EXCEPT !.pc = place, !.prof = prof, !.work = h] \in CallRecord
BY DEF CallRecord

\* A call that takes a connection, cached or made.
LEMMA UseTypes ==
    ASSUME TypeInv, NEW c \in Calls, NEW k \in Calls, NEW h \in Hosts,
           NEW cs \in [Calls -> ConnRecord],
           Use(c, k, h, cs), call[c].pc \in {"waiting", "preparing"}, UNCHANGED queue
    PROVE  /\ call' \in [Calls -> CallRecord] /\ conn' \in [Calls -> ConnRecord]
           /\ QueueHoldsTheQueued' /\ \A d \in Calls : Shaped(d)'
<1>1. /\ call' \in [Calls -> CallRecord]
      /\ call'[c].pc \in {"sent", "readying"} /\ call'[c].conn = k /\ call'[c].work = h
      /\ call'[c].op = call[c].op /\ call'[c].host = call[c].host
      /\ \A d \in Calls \ {c} : call'[d] = call[d]
  <2>1. call \in [Calls -> CallRecord] /\ k \in Calls \cup {None}
    BY DEF TypeInv, TypeOK, CallRecord
  <2>2. PICK place \in {"sent", "readying"} :
            call' = [call EXCEPT ![c].pc = place, ![c].conn = k, ![c].work = h]
    BY DEF Use
  <2>3. call' = [call EXCEPT ![c] = [call[c] EXCEPT !.pc = place, !.conn = k, !.work = h]]
    BY <2>1, <2>2
  <2>4. [call[c] EXCEPT !.pc = place, !.conn = k, !.work = h] \in CallRecord
    BY <2>1, CallRecords DEF Places, Working
  <2> QED BY <2>1, <2>3, <2>4 DEF CallRecord
<1>2. conn' \in [Calls -> ConnRecord]
  BY DEF Use, ConnRecord
<1>3. QueueHoldsTheQueued'
  BY <1>1, QueueStays
<1>4. \A d \in Calls : Shaped(d)'
  BY <1>1 DEF TypeInv, Shaped, Host, Working, LockedOps, AdminOps, Active, Ended
<1> QED BY <1>1, <1>2, <1>3, <1>4

\* What ensureReady's outcome does to the calls that await it.
LEMMA AnsweredTypes ==
    ASSUME TypeInv, NEW k \in Calls, UNCHANGED queue,
           NEW place \in {"sent", "broken"}, NEW up \in BOOLEAN,
           conn' = [conn EXCEPT ![k].readying = FALSE, ![k].up = up],
           call' = [c \in Calls |-> IF call[c].pc = "readying" /\ call[c].conn = k
                                    THEN [call[c] EXCEPT !.pc = place] ELSE call[c]]
    PROVE  /\ call' \in [Calls -> CallRecord] /\ conn' \in [Calls -> ConnRecord]
           /\ QueueHoldsTheQueued' /\ \A d \in Calls : Shaped(d)'
<1>1. \A c \in Calls : [call[c] EXCEPT !.pc = place] \in CallRecord
  <2>1. call \in [Calls -> CallRecord] /\ place \in Places
    BY DEF TypeInv, TypeOK, CallRecord, Places, Working
  <2> QED BY <2>1, CallRecords
<1>2. call' \in [Calls -> CallRecord]
  BY <1>1 DEF TypeInv, TypeOK, CallRecord
<1>3. conn' \in [Calls -> ConnRecord]
  <2>1. conn \in [Calls -> ConnRecord]
    BY DEF TypeInv, TypeOK, ConnRecord
  <2>2. [conn[k] EXCEPT !.readying = FALSE, !.up = up] \in ConnRecord
    BY <2>1 DEF ConnRecord
  <2>3. conn' = [conn EXCEPT ![k] = [conn[k] EXCEPT !.readying = FALSE, !.up = up]]
    BY <2>1
  <2> QED BY <2>1, <2>2, <2>3
<1>4. \A c \in Calls :
          \/ call'[c] = call[c]
          \/ /\ call[c].pc = "readying" /\ call[c].conn = k /\ call'[c].pc = place /\ Moved(c)
  BY DEF Moved, TypeInv, TypeOK
<1>5. QueueHoldsTheQueued'
  BY <1>4, QueueStays
<1>6. \A d \in Calls : Shaped(d)'
  BY <1>4 DEF TypeInv, Shaped, Moved, Host, Working, Active, Ended
<1> QED BY <1>2, <1>3, <1>5, <1>6

\* A name that matches one host matches a registered one.
LEMMA MatchesAre ==
    ASSUME NEW n, NEW h \in Hosts, Matches(n) = {h}
    PROVE  Registered(h)
<1>1. h \in Matches(n)
  OBVIOUS
<1> QED BY <1>1 DEF Matches

\* What a call does whose turn it is and whose name matches a host.
Finds(c, h) ==
    /\ Matches(call[c].name) = {h}
    /\ IF cache[h] # None
       THEN Use(c, cache[h], h, conn)
       ELSE /\ call' = [call EXCEPT ![c].pc = "preparing", ![c].prof = reg[h], ![c].work = h]
            /\ UNCHANGED conn
    /\ disturbed' = disturbed \cup ({h} \ {Host(c)})

LEMMA FoundAre ==
    ASSUME NEW c, FindConnection(c)
    PROVE  \E h \in Hosts : Finds(c, h)
BY Zenon DEF FindConnection, Finds

\* Every action keeps the types and the shapes.
LEMMA TypeInvStep == TypeInv /\ [Next]_vars => TypeInv'
<1> SUFFICES ASSUME TypeInv, [Next]_vars PROVE TypeInv'
  OBVIOUS
<1> USE DEF registry, chains, links, history
<1> DEFINE OthersOK == /\ reg' \in [Hosts -> Profile \cup {None}]
                       /\ file' \in [Hosts -> Profile \cup {None}]
                       /\ pin' \in [Hosts -> Targets \cup {None}]
                       /\ tail' \in [Hosts -> Calls \cup {None}]
                       /\ after' \in [Calls -> Calls \cup {None}]
                       /\ cache' \in [Hosts -> Calls \cup {None}]
                       /\ conn' \in [Calls -> ConnRecord]
                       /\ disposed' \in BOOLEAN
                       /\ disturbed' \in SUBSET Hosts
                       /\ faults' \in Nat
<1>0. ASSUME OthersOK, queue' \in Seq(Calls), call' \in [Calls -> CallRecord],
             QueueHoldsTheQueued', \A d \in Calls : Shaped(d)'
      PROVE  TypeInv'
  BY <1>0 DEF TypeInv, TypeOK, CallRecord, ConnRecord
<1>1. CASE UNCHANGED vars
  BY <1>1 DEF vars, TypeInv, TypeOK, Shaped, QueueHoldsTheQueued, Host, Active
<1>2. ASSUME NEW c \in Calls, NEW h \in Hosts, NEW prof \in Profile, AddHost(c, h, prof)
      PROVE  TypeInv'
  <2>1. Enter(c, "add", None, h, prof, "probing") /\ UNCHANGED <<registry, chains, links>>
    BY <1>2 DEF AddHost
  <2>2. "add" \in Ops /\ "probing" \in Beginnings
    BY DEF Ops, AdminOps, Beginnings
  <2>3. /\ call' \in [Calls -> CallRecord] /\ call[c].pc = "new"
        /\ Entered(c, "add", h, prof, "probing")
        /\ \A d \in Calls \ {c} : call'[d] = call[d]
        /\ disturbed' \in SUBSET Hosts /\ faults' \in Nat
    BY <2>1, <2>2, EnterTypes
  <2>4. QueueHoldsTheQueued'
    BY <2>1, <2>2, <2>3, QueueStays
  <2>5. OthersOK /\ queue' \in Seq(Calls)
    BY <2>1, <2>2, <2>3 DEF TypeInv, TypeOK, ConnRecord
  <2>6. \A d \in Calls : Shaped(d)'
    BY <2>1, <2>2, <2>3 DEF TypeInv, Shaped, Entered, Host, AdminOps, LockedOps, Working, Active, Ended
  <2> QED BY <1>0, <2>1, <2>2, <2>4, <2>5, <2>6, <2>3
<1>3. ASSUME NEW c \in Calls, StageKnownHost(c) PROVE TypeInv'
  <2>1. /\ call[c].pc = "probing" /\ call[c].op = "add" /\ call[c].prof \in Profile
        /\ Host(c) \in Hosts
    BY <1>3 DEF StageKnownHost, TypeInv, Shaped, Active, Ended
  <2>2. PICK place \in {"staged", "failed"} : At(c, place)
    BY <1>3 DEF StageKnownHost
  <2>3. /\ call' \in [Calls -> CallRecord] /\ call'[c].pc = place /\ Moved(c)
        /\ \A d \in Calls \ {c} : call'[d] = call[d]
    BY <2>2, MoveTypes DEF Places, Ended
  <2>4. pin' \in [Hosts -> Targets \cup {None}]
    BY <1>3, <2>1 DEF StageKnownHost, TypeInv, TypeOK, Profile
  <2>5. OthersOK /\ queue' \in Seq(Calls)
    BY <1>3, <2>4 DEF StageKnownHost, TypeInv, TypeOK, ConnRecord
  <2>6. QueueHoldsTheQueued'
    BY <1>3, <2>1, <2>3, QueueStays DEF StageKnownHost
  <2>7. \A d \in Calls : Shaped(d)'
    BY <2>1, <2>2, <2>3 DEF TypeInv, Shaped, Moved, Host, Working, Active, Ended
  <2> QED BY <1>0, <2>3, <2>5, <2>6, <2>7
<1>4. ASSUME NEW c \in Calls, SubmitAdd(c) PROVE TypeInv'
  <2>1. call[c].pc = "staged" /\ call[c].op = "add"
    BY <1>4 DEF SubmitAdd, TypeInv, Shaped
  <2>2. PICK place \in {"queued", "discarding"} :
            At(c, place) /\ queue' = IF place = "queued" THEN Append(queue, c) ELSE queue
    BY <1>4 DEF SubmitAdd
  <2>3. /\ call' \in [Calls -> CallRecord] /\ call'[c].pc = place /\ Moved(c)
        /\ \A d \in Calls \ {c} : call'[d] = call[d]
    BY <2>2, MoveTypes DEF Places
  <2>5. OthersOK
    BY <1>4 DEF SubmitAdd, TypeInv, TypeOK, ConnRecord
  <2>6. QueueHoldsTheQueued' /\ queue' \in Seq(Calls)
    <3>1. CASE place = "queued"
      BY <2>1, <2>2, <2>3, <3>1, QueueGrows
    <3>2. CASE place # "queued"
      BY <2>1, <2>2, <2>3, <3>2, QueueStays DEF TypeInv, TypeOK
    <3> QED BY <3>1, <3>2
  <2>7. \A d \in Calls : Shaped(d)'
    BY <2>1, <2>2, <2>3 DEF TypeInv, Shaped, Moved, Host, Working, AdminOps, Active, Ended
  <2> QED BY <1>0, <2>3, <2>5, <2>6, <2>7
<1>5. ASSUME NEW c \in Calls, DiscardStagedKnownHost(c) PROVE TypeInv'
  <2>1. call[c].pc = "discarding" /\ call[c].op = "add" /\ End(c, "failed")
    BY <1>5 DEF DiscardStagedKnownHost, TypeInv, Shaped
  <2>2. At(c, "failed") /\ "failed" \in Ended /\ Ended \subseteq Places
    BY <2>1 DEF End, Ended, Places
  <2>3. /\ call' \in [Calls -> CallRecord] /\ call'[c].pc = "failed" /\ Moved(c)
        /\ \A d \in Calls \ {c} : call'[d] = call[d]
    BY <2>2, MoveTypes
  <2>4. OthersOK /\ queue' \in Seq(Calls)
    BY <1>5, <2>1, <2>2, EndTypes DEF DiscardStagedKnownHost, TypeInv, TypeOK, ConnRecord
  <2>5. QueueHoldsTheQueued'
    BY <1>5, <2>1, <2>3, QueueStays DEF DiscardStagedKnownHost
  <2>6. \A d \in Calls : Shaped(d)'
    BY <2>1, <2>3 DEF TypeInv, Shaped, Moved, Host, Working, Active, Ended
  <2> QED BY <1>0, <2>3, <2>4, <2>5, <2>6
<1>6. ASSUME NEW c \in Calls, NEW n \in Names, NEW h \in Hosts, NEW root \in Roots,
             UpdateHost(c, n, h, root)
      PROVE  TypeInv'
  <2>1. /\ Enter(c, "update", None, h, [reg[h] EXCEPT !.root = root], "queued")
        /\ queue' = Append(queue, c) /\ UNCHANGED <<reg, file, pin, chains, disposed>>
        /\ cache' = [cache EXCEPT ![h] = None] /\ conn' = Closed(h)
        /\ reg[h] \in Profile
    BY <1>6, MatchesAre DEF UpdateHost, DropForUpdate, Drop, Registered, TypeInv, TypeOK
  <2>2. "update" \in Ops /\ [reg[h] EXCEPT !.root = root] \in Profile /\ "queued" \in Beginnings
    BY <2>1 DEF Ops, AdminOps, Profile, Beginnings
  <2>3. /\ call' \in [Calls -> CallRecord] /\ call[c].pc = "new"
        /\ Entered(c, "update", h, [reg[h] EXCEPT !.root = root], "queued")
        /\ \A d \in Calls \ {c} : call'[d] = call[d]
        /\ disturbed' \in SUBSET Hosts /\ faults' \in Nat
    BY <2>1, <2>2, EnterTypes
  <2>4. QueueHoldsTheQueued' /\ queue' \in Seq(Calls)
    BY <2>1, <2>2, <2>3, QueueGrows DEF Entered
  <2>5. conn' \in [Calls -> ConnRecord]
    BY <2>1, ClosedTypes
  <2>6. OthersOK
    BY <2>1, <2>2, <2>5, <2>3 DEF TypeInv, TypeOK
  <2>7. \A d \in Calls : Shaped(d)'
    BY <2>1, <2>2, <2>3 DEF TypeInv, Shaped, Entered, Host, AdminOps, LockedOps, Working, Active, Ended
  <2> QED BY <1>0, <2>1, <2>2, <2>4, <2>6, <2>7, <2>3
<1>7. ASSUME NEW c \in Calls, NEW n \in Names, NEW h \in Hosts, RemoveHost(c, n, h) PROVE TypeInv'
  <2>1. PICK place \in {"queued", "failed"} :
            /\ Enter(c, "remove", None, h, reg[h], place)
            /\ queue' = IF place = "queued" THEN Append(queue, c) ELSE queue
    BY <1>7 DEF RemoveHost
  <2>8. /\ UNCHANGED <<reg, file, pin, chains, disposed>>
        /\ cache' = [cache EXCEPT ![h] = None] /\ conn' = Closed(h)
        /\ reg[h] \in Profile \cup {None}
    BY <1>7 DEF RemoveHost, Drop, TypeInv, TypeOK
  <2>2. "remove" \in Ops /\ place \in Beginnings
    BY DEF Ops, AdminOps, Beginnings
  <2>3. /\ call' \in [Calls -> CallRecord] /\ call[c].pc = "new"
        /\ Entered(c, "remove", h, reg[h], place)
        /\ \A d \in Calls \ {c} : call'[d] = call[d]
        /\ disturbed' \in SUBSET Hosts /\ faults' \in Nat
    BY <2>1, <2>2, <2>8, EnterTypes
  <2>4. QueueHoldsTheQueued' /\ queue' \in Seq(Calls)
    <3>1. CASE place = "queued"
      BY <2>1, <2>3, <3>1, QueueGrows DEF Entered
    <3>2. CASE place = "failed"
      BY <2>1, <2>3, <3>2, QueueStays DEF TypeInv, TypeOK
    <3> QED BY <3>1, <3>2
  <2>5. conn' \in [Calls -> ConnRecord]
    BY <2>8, ClosedTypes
  <2>6. OthersOK
    BY <2>8, <2>2, <2>5, <2>3 DEF TypeInv, TypeOK
  <2>7. \A d \in Calls : Shaped(d)'
    BY <2>1, <2>2, <2>3 DEF TypeInv, Shaped, Entered, Host, AdminOps, LockedOps, Working, Active, Ended
  <2> QED BY <1>0, <2>4, <2>6, <2>7, <2>3
<1>8. ASSUME NEW c \in Calls, ApplyUpdate(c) PROVE TypeInv'
  <2>1. queue # <<>> /\ c = Head(queue) /\ queue' = Tail(queue) /\ UNCHANGED <<chains, links>>
    BY <1>8 DEF ApplyUpdate
  <2>2. PICK place \in {"done", "failed", "discarding"} :
            At(c, place) /\ (place = "discarding" => call[c].op = "add")
    BY <1>8 DEF ApplyUpdate, Failure
  <2>3. /\ call' \in [Calls -> CallRecord] /\ call'[c].pc = place /\ Moved(c)
        /\ \A d \in Calls \ {c} : call'[d] = call[d]
    BY <2>2, MoveTypes DEF Places, Ended
  <2>4. QueueHoldsTheQueued' /\ queue' \in Seq(Calls) /\ call[c].pc = "queued"
    BY <2>1, <2>3, QueueShrinks
  <2>5. /\ call[c].op \in AdminOps /\ Host(c) \in Hosts
        /\ call[c].op # "remove" => call[c].prof \in Profile
    BY <2>4 DEF TypeInv, Shaped, AdminOps, Active, Ended
  <2>6. /\ [reg EXCEPT ![Host(c)] = Kept(c)] \in [Hosts -> Profile \cup {None}]
        /\ [pin EXCEPT ![Host(c)] = IF call[c].op = "remove" THEN None ELSE call[c].prof.target]
               \in [Hosts -> Targets \cup {None}]
    BY <2>5 DEF Kept, Profile, TypeInv, TypeOK
  <2>7. /\ reg' \in [Hosts -> Profile \cup {None}] /\ file' \in [Hosts -> Profile \cup {None}]
        /\ pin' \in [Hosts -> Targets \cup {None}]
    BY <1>8, <2>6 DEF ApplyUpdate, TypeInv, TypeOK
  <2>8. disturbed' \in SUBSET Hosts /\ faults' \in Nat
    BY <1>8, <2>5 DEF ApplyUpdate, TypeInv, TypeOK
  <2>9. OthersOK
    BY <2>1, <2>7, <2>8 DEF TypeInv, TypeOK, ConnRecord
  <2>10. \A d \in Calls : Shaped(d)'
    BY <2>2, <2>3, <2>4 DEF TypeInv, Shaped, Moved, Host, Working, Active, Ended
  <2> QED BY <1>0, <2>3, <2>4, <2>9, <2>10
<1>9. ASSUME NEW c \in Calls, NEW op \in LockedOps, NEW n \in Names, NEW h \in Hosts,
             JoinChain(c, op, n, h)
      PROVE  TypeInv'
  <2>1. /\ Enter(c, op, n, h, None, "waiting") /\ UNCHANGED <<registry, links>>
        /\ after' = [after EXCEPT ![c] = tail[h]] /\ tail' = [tail EXCEPT ![h] = c]
    BY <1>9 DEF JoinChain, Preceding
  <2>2. op \in Ops /\ "waiting" \in Beginnings
    BY DEF Ops, Beginnings
  <2>3. /\ call' \in [Calls -> CallRecord] /\ call[c].pc = "new"
        /\ Entered(c, op, h, None, "waiting")
        /\ \A d \in Calls \ {c} : call'[d] = call[d]
        /\ disturbed' \in SUBSET Hosts /\ faults' \in Nat
    BY <2>1, <2>2, EnterTypes
  <2>4. QueueHoldsTheQueued'
    BY <2>1, <2>2, <2>3, QueueStays
  <2>5. OthersOK /\ queue' \in Seq(Calls)
    BY <2>1, <2>2, <2>3 DEF TypeInv, TypeOK, ConnRecord
  <2>6. \A d \in Calls : Shaped(d)'
    BY <2>1, <2>2, <2>3 DEF TypeInv, Shaped, Entered, Host, AdminOps, LockedOps, Working, Active, Ended
  <2> QED BY <1>0, <2>1, <2>2, <2>4, <2>5, <2>6, <2>3
<1>10. ASSUME NEW c \in Calls, NEW n \in Names, NEW h \in Hosts, RuntimeStatus(c, n, h)
       PROVE  TypeInv'
  <2>1. Enter(c, "status", n, h, None, "waiting") /\ UNCHANGED <<registry, chains, links>>
    BY <1>10 DEF RuntimeStatus
  <2>2. "status" \in Ops /\ "waiting" \in Beginnings
    BY DEF Ops, Beginnings
  <2>3. /\ call' \in [Calls -> CallRecord] /\ call[c].pc = "new"
        /\ Entered(c, "status", h, None, "waiting")
        /\ \A d \in Calls \ {c} : call'[d] = call[d]
        /\ disturbed' \in SUBSET Hosts /\ faults' \in Nat
    BY <2>1, <2>2, EnterTypes
  <2>4. QueueHoldsTheQueued'
    BY <2>1, <2>2, <2>3, QueueStays
  <2>5. OthersOK /\ queue' \in Seq(Calls)
    BY <2>1, <2>2, <2>3 DEF TypeInv, TypeOK, ConnRecord
  <2>6. \A d \in Calls : Shaped(d)'
    BY <2>1, <2>2, <2>3 DEF TypeInv, Shaped, Entered, Host, AdminOps, LockedOps, Working, Active, Ended
  <2> QED BY <1>0, <2>1, <2>2, <2>4, <2>5, <2>6, <2>3
<1>11. ASSUME NEW c \in Calls, FindConnection(c) PROVE TypeInv'
  <2>4. PICK h \in Hosts : Finds(c, h)
    BY <1>11, FoundAre
  <2>1. /\ call[c].pc = "waiting" /\ reg[h] \in Profile
        /\ UNCHANGED <<registry, chains, cache, disposed, faults>>
        /\ disturbed' \in SUBSET Hosts
    BY <1>11, <2>4, MatchesAre DEF FindConnection, Finds, HasTurn, Registered, TypeInv, TypeOK
  <2>2. CASE cache[h] # None
    <3>1. cache[h] \in Calls /\ Use(c, cache[h], h, conn)
      BY <2>2, <2>4 DEF Finds, TypeInv, TypeOK
    <3>2. conn \in [Calls -> ConnRecord]
      BY DEF TypeInv, TypeOK, ConnRecord
    <3> QED BY <1>0, <2>1, <3>1, <3>2, UseTypes DEF TypeInv, TypeOK
  <2>3. CASE cache[h] = None
    <3>1. /\ call' = [call EXCEPT ![c].pc = "preparing", ![c].prof = reg[h], ![c].work = h]
          /\ UNCHANGED conn
      BY <2>3, <2>4 DEF Finds
    <3>2. /\ call' \in [Calls -> CallRecord]
          /\ call'[c].pc = "preparing" /\ call'[c].prof = reg[h] /\ call'[c].work = h
          /\ call'[c].op = call[c].op /\ call'[c].host = call[c].host
          /\ \A d \in Calls \ {c} : call'[d] = call[d]
      <4>1. call \in [Calls -> CallRecord] /\ "preparing" \in Places
        BY DEF TypeInv, TypeOK, CallRecord, Places, Working
      <4>2. call' = [call EXCEPT ![c] = [call[c] EXCEPT !.pc = "preparing", !.prof = reg[h], !.work = h]]
        BY <3>1, <4>1
      <4>3. [call[c] EXCEPT !.pc = "preparing", !.prof = reg[h], !.work = h] \in CallRecord
        BY <2>1, <4>1, CallRecords
      <4> QED BY <4>1, <4>2, <4>3 DEF CallRecord
    <3>3. QueueHoldsTheQueued'
      BY <2>1, <3>2, QueueStays
    <3>4. \A d \in Calls : Shaped(d)'
      BY <2>1, <3>2 DEF TypeInv, Shaped, Host, Working, Active, Ended
    <3>5. OthersOK /\ queue' \in Seq(Calls)
      BY <2>1, <3>1 DEF TypeInv, TypeOK, ConnRecord
    <3> QED BY <1>0, <3>2, <3>3, <3>4, <3>5
  <2> QED BY <2>2, <2>3
<1>12. ASSUME NEW c \in Calls, MakeConnection(c) PROVE TypeInv'
  <2> DEFINE made == [conn EXCEPT ![c] = [host |-> call[c].work, prof |-> call[c].prof,
                                          readying |-> FALSE, up |-> FALSE]]
  <2>1. /\ call[c].pc = "preparing" /\ call[c].work \in Hosts
        /\ cache' = [cache EXCEPT ![call[c].work] = c]
        /\ UNCHANGED <<registry, disposed, history>>
    BY <1>12 DEF MakeConnection, TypeInv, Shaped, Working
  <2>2. made \in [Calls -> ConnRecord] /\ cache' \in [Hosts -> Calls \cup {None}]
    BY <2>1 DEF TypeInv, TypeOK, Shaped, ConnRecord
  <2>3. CASE Use(c, c, call[c].work, made) /\ UNCHANGED chains
    BY <1>0, <2>1, <2>2, <2>3, UseTypes DEF TypeInv, TypeOK
  <2>4. CASE conn' = made /\ End(c, "failed")
    <3>1. At(c, "failed") /\ "failed" \in Ended /\ Ended \subseteq Places
      BY <2>4 DEF End, Ended, Places
    <3>2. /\ call' \in [Calls -> CallRecord] /\ call'[c].pc = "failed" /\ Moved(c)
          /\ \A d \in Calls \ {c} : call'[d] = call[d]
      BY <3>1, MoveTypes
    <3>3. OthersOK /\ queue' \in Seq(Calls)
      BY <2>1, <2>2, <2>4, <3>1, EndTypes DEF TypeInv, TypeOK
    <3>4. QueueHoldsTheQueued'
      BY <2>1, <3>2, QueueStays
    <3>5. \A d \in Calls : Shaped(d)'
      BY <2>1, <3>2 DEF TypeInv, Shaped, Moved, Host, Working, Active, Ended
    <3> QED BY <1>0, <3>2, <3>3, <3>4, <3>5
  <2> QED BY <1>12, <2>3, <2>4 DEF MakeConnection
<1>13. ASSUME NEW k \in Calls, ConnectionReady(k) PROVE TypeInv'
  BY <1>0, <1>13, AnsweredTypes DEF ConnectionReady, TypeInv, TypeOK
<1>14. ASSUME NEW k \in Calls, ConnectionFails(k) PROVE TypeInv'
  BY <1>0, <1>14, AnsweredTypes DEF ConnectionFails, TypeInv, TypeOK
<1>15. ASSUME NEW c \in Calls, NEW result \in Ended, End(c, result),
              call[c].pc \in Working \cup {"waiting"},
              UNCHANGED <<registry, links, history>>
       PROVE  TypeInv'
  <2>1. At(c, result) /\ Ended \subseteq Places
    BY <1>15 DEF End, Places
  <2>2. /\ call' \in [Calls -> CallRecord] /\ call'[c].pc = result /\ Moved(c)
        /\ \A d \in Calls \ {c} : call'[d] = call[d]
    BY <2>1, MoveTypes
  <2>3. OthersOK /\ queue' \in Seq(Calls)
    BY <1>15, <2>1, EndTypes DEF TypeInv, TypeOK, ConnRecord
  <2>4. QueueHoldsTheQueued'
    BY <1>15, <2>2, QueueStays DEF Working
  <2>5. \A d \in Calls : Shaped(d)'
    BY <1>15, <2>2 DEF TypeInv, Shaped, Moved, Host, Working, Ended, Active
  <2> QED BY <1>0, <2>2, <2>3, <2>4, <2>5
<1>16. ASSUME NEW c \in Calls, Answer(c) PROVE TypeInv'
  <2>1. PICK result \in Ended : End(c, result)
    BY <1>16 DEF Answer, Ended
  <2> QED BY <1>15, <1>16, <2>1 DEF Answer, Working
<1>17. ASSUME NEW c \in Calls, Fail(c) PROVE TypeInv'
  BY <1>15, <1>17 DEF Fail, HasTurn, Working, Ended
<1>18. CASE Dispose
  <2>1. conn' \in [Calls -> ConnRecord]
    <3>1. conn \in [Calls -> ConnRecord]
      BY DEF TypeInv, TypeOK, ConnRecord
    <3>2. \A k \in Calls : [conn[k] EXCEPT !.up = FALSE] \in ConnRecord
      BY <3>1 DEF ConnRecord
    <3> QED BY <1>18, <3>1, <3>2 DEF Dispose
  <2>2. disturbed' \in SUBSET Hosts
    <3>1. \A c \in Calls : Active(c) => Host(c) \in Hosts
      BY DEF TypeInv, Shaped, Active
    <3>2. disturbed' = disturbed \cup {Host(c) : c \in {d \in Calls : Active(d)}}
      BY <1>18 DEF Dispose
    <3>3. disturbed \in SUBSET Hosts
      BY DEF TypeInv, TypeOK
    <3> QED BY <3>1, <3>2, <3>3
  <2>3. OthersOK /\ queue' \in Seq(Calls) /\ call' \in [Calls -> CallRecord]
    BY <1>18, <2>1, <2>2 DEF Dispose, TypeInv, TypeOK, CallRecord
  <2>4. QueueHoldsTheQueued' /\ \A d \in Calls : Shaped(d)'
    BY <1>18, QueueStays DEF Dispose, TypeInv, Shaped, Host, Active
  <2> QED BY <1>0, <2>3, <2>4
<1>19. CASE Restart
  <2>1. \A c \in Calls : \/ call'[c] = call[c] /\ call[c].pc \in Ended \cup {"new"}
                         \/ call'[c] = Over("failed")
    BY <1>19 DEF Restart, Active
  <2>2. call' \in [Calls -> CallRecord]
    <3>1. call \in [Calls -> CallRecord] /\ "failed" \in Places
      BY DEF TypeInv, TypeOK, CallRecord, Places, Ended
    <3>2. Over("failed") \in CallRecord
      BY OverTypes DEF Ended
    <3> QED BY <1>19, <3>1, <3>2 DEF Restart
  <2>3. conn' \in [Calls -> ConnRecord]
    BY <1>19 DEF Restart, NoConnection, ConnRecord
  <2>4. disturbed' \in SUBSET Hosts
    <3>1. \A c \in Calls : Active(c) => Host(c) \in Hosts
      BY DEF TypeInv, Shaped, Active
    <3>2. disturbed' = disturbed \cup {Host(c) : c \in {d \in Calls : Active(d)}}
      BY <1>19 DEF Restart
    <3>3. disturbed \in SUBSET Hosts
      BY DEF TypeInv, TypeOK
    <3> QED BY <3>1, <3>2, <3>3
  <2>5. OthersOK
    BY <1>19, <2>3, <2>4 DEF Restart, TypeInv, TypeOK
  <2>6. QueueHoldsTheQueued' /\ queue' \in Seq(Calls)
    BY <1>19 DEF Restart, QueueHoldsTheQueued
  <2>7. \A d \in Calls : Shaped(d)'
    <3>1. Over("failed").pc = "failed"
      BY OverTypes DEF Ended
    <3> QED BY <2>1, <3>1 DEF TypeInv, Shaped, Host, Working, Ended, Active
  <2> QED BY <1>0, <2>2, <2>5, <2>6, <2>7
<1> QED
  BY <1>1, <1>2, <1>3, <1>4, <1>5, <1>6, <1>7, <1>8, <1>9, <1>10, <1>11, <1>12, <1>13, <1>14,
     <1>16, <1>17, <1>18, <1>19 DEF Next, Begin, Proceed

\* The registry, the calls, their chains and the connections are well formed
\* (lib/remote-project-controller.mjs: RemoteProjectController).
THEOREM Types == Spec => []TypeOK
<1>1. Spec => []TypeInv
  BY TypeInvInit, TypeInvStep, PTL DEF Spec
<1> QED BY <1>1, PTL DEF TypeInv

-----------------------------------------------------------------------------
(* Registrations. *)

\* Only the update queue and a restart change the registry, in memory or on disk.
LEMMA OnlyUpdatesRegister ==
    ASSUME Next, ~Restart, \A c \in Calls : ~ApplyUpdate(c)
    PROVE  UNCHANGED <<reg, file>>
<1> USE DEF registry, chains, links, history
<1>1. CASE Dispose
  BY <1>1 DEF Dispose
<1>2. ASSUME NEW c \in Calls, Begin(c) PROVE UNCHANGED <<reg, file>>
  BY <1>2 DEF Begin, AddHost, UpdateHost, RemoveHost, JoinChain, RuntimeStatus
<1>3. ASSUME NEW c \in Calls, Proceed(c) PROVE UNCHANGED <<reg, file>>
  BY <1>3 DEF Proceed, StageKnownHost, SubmitAdd, DiscardStagedKnownHost, FindConnection,
              MakeConnection, ConnectionReady, ConnectionFails, Answer, Fail, Drop, DropForUpdate
<1> QED BY <1>1, <1>2, <1>3 DEF Next

LEMMA TargetsStep ==
    ASSUME TypeInv, TargetsUnique, [Next]_vars
    PROVE  TargetsUnique'
<1>1. CASE UNCHANGED <<reg, file>>
  BY <1>1 DEF TargetsUnique
<1>2. ASSUME NEW c \in Calls, ApplyUpdate(c) PROVE TargetsUnique'
  <2> DEFINE next == [reg EXCEPT ![Host(c)] = Kept(c)]
  <2>1. /\ Host(c) \in Hosts /\ call[c].op \in AdminOps
        /\ call[c].op # "remove" => call[c].prof \in Profile
    <3>1. \A d \in Calls \ {c} : call'[d] = call[d]
      BY <1>2 DEF ApplyUpdate, At, TypeInv, TypeOK
    <3>2. call[c].pc = "queued"
      BY <1>2, <3>1, QueueShrinks DEF ApplyUpdate
    <3> QED BY <3>2 DEF TypeInv, Shaped, AdminOps, Active, Ended
  <2>2. CASE Refused(c)
    BY <1>2, <2>2 DEF ApplyUpdate, TargetsUnique, registry
  <2>3. CASE ~Refused(c)
    <3>1. call[c].op # "remove" =>
              \A g \in Hosts \ {Host(c)} : reg[g] # None => reg[g].target # call[c].prof.target
      BY <2>1, <2>3 DEF Refused, Conflicts, Registered, AdminOps
    <3>2. \A g, h \in Hosts : /\ next[g] # None /\ next[h] # None
                              /\ next[g].target = next[h].target
                              => g = h
      BY <2>1, <3>1 DEF Kept, TargetsUnique, TypeInv, TypeOK
    <3>3. reg' \in {reg, next} /\ file' \in {file, next}
      BY <1>2, <2>3 DEF ApplyUpdate
    <3> HIDE DEF next
    <3>4. \A s \in {reg, file, next} : \A g, h \in Hosts :
              s[g] # None /\ s[h] # None /\ s[g].target = s[h].target => g = h
      BY <3>2 DEF TargetsUnique
    <3>5. reg' \in {reg, file, next} /\ file' \in {reg, file, next}
      BY <3>3
    <3> QED BY <3>4, <3>5 DEF TargetsUnique
  <2> QED BY <2>2, <2>3
<1>3. CASE Restart
  BY <1>3 DEF Restart, TargetsUnique
<1> QED BY <1>1, <1>2, <1>3, OnlyUpdatesRegister DEF vars, registry

\* No two registered hosts share an ssh target, whatever calls overlap and whatever
\* writes fail (lib/host-registry.mjs: HostRegistry.add).
THEOREM OneTargetEach == Spec => []TargetsUnique
<1>1. Init => TargetsUnique
  BY DEF Init, TargetsUnique
<1>2. TypeInv /\ TargetsUnique /\ [Next]_vars => TypeInv' /\ TargetsUnique'
  BY TypeInvStep, TargetsStep
<1> QED BY TypeInvInit, <1>1, <1>2, PTL DEF Spec

-----------------------------------------------------------------------------
(* The chains of the hosts. *)

Chained(h) == {c \in Calls : Locked(c) /\ Active(c) /\ Host(c) = h}
Turn(c) == after[c] # None => call[after[c]].pc \in Ended

\* Each call of a chain waits for another of its host, no two for the same.
Linked ==
    /\ \A c \in Calls : Locked(c) => call[c].pc # "new"
    /\ \A c \in Calls : after[c] # None =>
           /\ call[c].pc # "new" /\ call[after[c]].pc # "new" /\ after[c] # c
           /\ Active(c) => Locked(c)
           /\ Active(c) /\ Active(after[c]) => Locked(after[c]) /\ Host(after[c]) = Host(c)
    /\ \A c, d \in Calls : after[c] = after[d] /\ after[c] # None => c = d

\* The tail is at work or waits, nobody waits for it, and without one nobody is chained.
Tailed ==
    \A h \in Hosts :
        /\ tail[h] # None => tail[h] \in Chained(h) /\ \A c \in Calls : after[c] # tail[h]
        /\ tail[h] = None => Chained(h) = {}

\* One call of a chain at most has its turn, and who works has it.
OneTurn ==
    /\ \A h \in Hosts : \A c, d \in Chained(h) : Turn(c) /\ Turn(d) => c = d
    /\ \A c \in Calls : Locked(c) /\ call[c].pc \in Working => Turn(c)

\* Waiting goes back to somebody: no set of chained calls waits within itself.
Grounded ==
    \A h \in Hosts : \A S \in SUBSET Chained(h) : S # {} => \E c \in S : after[c] \notin S

ChainInv == Linked /\ Tailed /\ OneTurn /\ Grounded

LEMMA ChainInvInit == Init => ChainInv
BY DEF Init, ChainInv, Linked, Tailed, OneTurn, Grounded, Chained, Active, Locked, LockedOps, Working,
       NoCall

\* A step that ends no call of a chain and starts none keeps the chains.
LEMMA ChainsStay ==
    ASSUME TypeInv, ChainInv, UNCHANGED <<tail, after>>,
           \A d \in Calls : call'[d].op \in LockedOps <=> Locked(d),
           \A d \in Calls : call[d].pc \in Ended => call'[d].pc \in Ended,
           \A d \in Calls : call'[d].pc = "new" => call[d].pc = "new",
           \A d \in Calls : Active(d)' /\ after[d] # None => Active(d),
           \A d \in Calls : Locked(d) =>
               /\ call'[d].host = call[d].host /\ call'[d].pc # "new"
               /\ call'[d].pc \in Ended <=> call[d].pc \in Ended
               /\ call'[d].pc \in Working => call[d].pc \in Working \/ Turn(d)
    PROVE  ChainInv'
<1>1. \A h \in Hosts : Chained(h)' = Chained(h)
  BY DEF ChainInv, Linked, Chained, Active, Locked, Host
<1>6. \A c \in Calls : after[c] \in Calls \cup {None}
  BY DEF TypeInv, TypeOK
<1>2. \A c \in Calls : Locked(c) /\ Active(c) => (Turn(c)' <=> Turn(c))
  BY <1>6 DEF ChainInv, Linked, Turn, Locked, Active
<1>3. Linked'
  BY <1>6 DEF ChainInv, Linked, Locked, Host, Active
<1>4. Tailed' /\ Grounded'
  BY <1>1 DEF ChainInv, Tailed, Grounded
<1>5. OneTurn'
  <2>1. \A h \in Hosts : \A c, d \in Chained(h)' : Turn(c)' /\ Turn(d)' => c = d
    BY <1>1, <1>2 DEF ChainInv, OneTurn, Chained
  <2>2. ASSUME NEW c \in Calls, Locked(c)', call'[c].pc \in Working PROVE Turn(c)'
    <3>1. Locked(c) /\ (call[c].pc \in Working \/ Turn(c))
      BY <2>2 DEF Locked
    <3>2. call[c].pc # "new" /\ call[c].pc \notin Ended
      BY <2>2, <3>1 DEF ChainInv, Linked, Working, Ended
    <3>3. Turn(c)
      BY <3>1 DEF ChainInv, OneTurn
    <3> QED BY <1>2, <3>1, <3>2, <3>3 DEF Active
  <2> QED BY <2>1, <2>2 DEF OneTurn
<1> QED BY <1>3, <1>4, <1>5 DEF ChainInv

\* A call whose turn it is ends: the turn passes to the one that waits for it.
LEMMA ChainsEnd ==
    ASSUME TypeInv, ChainInv, NEW c \in Calls, NEW result \in Ended,
           Locked(c), Active(c), Turn(c), End(c, result)
    PROVE  ChainInv'
<1>0. PICK h \in Hosts : h = Host(c)
  BY DEF TypeInv, Shaped, Active
<1>1. /\ call'[c].pc \in Ended
      /\ \A d \in Calls \ {c} : call'[d] = call[d]
      /\ UNCHANGED after
      /\ tail' = IF tail[h] = c THEN [tail EXCEPT ![h] = None] ELSE tail
  BY <1>0, MoveTypes DEF End, ForgetTail, Places
<1>2. /\ \A d \in Calls \ {c} : (Locked(d)' <=> Locked(d)) /\ (Active(d)' <=> Active(d))
      /\ \A d \in Calls \ {c} : Host(d)' = Host(d)
      /\ ~Active(c)'
  BY <1>1 DEF Locked, Host, Active
<1>3. /\ Chained(h)' = Chained(h) \ {c} /\ c \in Chained(h)
      /\ \A g \in Hosts \ {h} : Chained(g)' = Chained(g)
  BY <1>0, <1>1, <1>2 DEF Chained, Active
<1>4. \A d \in Calls : after[d] \in Calls \cup {None}
  BY DEF TypeInv, TypeOK
<1>5. Linked'
  <2>1. call'[c].pc # "new"
    BY <1>1 DEF Ended
  <2>2. \A d \in Calls : call[d].pc # "new" => call'[d].pc # "new"
    BY <1>1, <2>1
  <2>3. \A d \in Calls : Locked(d)' => call'[d].pc # "new"
    BY <1>1, <1>2, <2>1 DEF ChainInv, Linked
  <2> QED BY <1>1, <1>2, <1>4, <2>2, <2>3 DEF ChainInv, Linked
<1>6. \A d \in Calls \ {c} : Turn(d)' => Turn(d) \/ after[d] = c
  BY <1>1, <1>4 DEF Turn
<1>7. \A d \in Chained(h) : Turn(d) => d = c
  BY <1>1, <1>3 DEF ChainInv, OneTurn
<1>8. Tailed'
  <2>1. ASSUME tail[h] = c PROVE Chained(h)' = {}
    <3>1. \A d \in Calls : after[d] # c
      BY <1>1, <2>1, NoneAssumption DEF ChainInv, Tailed
    <3>2. SUFFICES ASSUME Chained(h) \ {c} # {} PROVE FALSE
      BY <1>3
    <3>3. PICK d \in Chained(h) \ {c} : after[d] \notin Chained(h) \ {c}
      BY <1>1, <3>2 DEF ChainInv, Grounded
    <3>4. ~Turn(d)
      BY <1>7, <3>3
    <3>5. after[d] \in Calls /\ after[d] \in Chained(h)
      BY <1>4, <3>3, <3>4 DEF ChainInv, Linked, Chained, Turn, Active, Ended
    <3> QED BY <3>1, <3>3, <3>5 DEF Chained
  <2>2. ASSUME NEW g \in Hosts, g # h PROVE tail'[g] = tail[g] /\ tail[g] # c
    BY <1>0, <1>1, <2>2, NoneAssumption DEF ChainInv, Tailed, Chained, TypeInv, TypeOK
  <2>3. tail[h] = c => tail'[h] = None
    BY <1>1 DEF TypeInv, TypeOK
  <2>4. \A g \in Hosts \ {h} : tail'[g] = tail[g] /\ Chained(g)' = Chained(g)
    BY <1>3, <2>2
  <2>5. tail[h] # c => tail'[h] = tail[h] /\ Chained(h)' = Chained(h) \ {c} /\ tail[h] # None
    BY <1>1, <1>3 DEF ChainInv, Tailed
  <2>6. \A g \in Hosts : tail[g] # None => tail[g] \in Chained(g) /\ \A d \in Calls : after[d] # tail[g]
    BY DEF ChainInv, Tailed
  <2> QED BY <1>1, <2>1, <2>3, <2>4, <2>5, <2>6 DEF ChainInv, Tailed
<1>9. OneTurn'
  <2>1. ASSUME NEW d \in Calls, NEW e \in Calls, d \in Chained(h)', e \in Chained(h)',
               Turn(d)', Turn(e)'
        PROVE  d = e
    BY <1>3, <1>4, <1>6, <1>7, <2>1, NoneAssumption DEF ChainInv, Linked
  <2>2. ASSUME NEW g \in Hosts \ {h}, NEW d \in Calls, d \in Chained(g), Turn(d)'
        PROVE  Turn(d)
    <3>1. d # c /\ Host(d) = g /\ Locked(d)
      BY <1>3, <2>2 DEF Chained
    <3>2. after[d] # c
      BY <1>0, <2>2, <3>1, NoneAssumption DEF ChainInv, Linked, Chained
    <3> QED BY <1>6, <2>2, <3>1, <3>2
  <2>3. ASSUME NEW g \in Hosts, NEW d \in Calls, NEW e \in Calls, d \in Chained(g)', e \in Chained(g)',
               Turn(d)', Turn(e)'
        PROVE  d = e
    <3>1. CASE g = h
      BY <2>1, <2>3, <3>1
    <3>2. CASE g # h
      BY <1>3, <2>2, <2>3, <3>2 DEF ChainInv, OneTurn
    <3> QED BY <3>1, <3>2
  <2>4. ASSUME NEW d \in Calls, Locked(d)', call'[d].pc \in Working PROVE Turn(d)'
    <3>1. d # c /\ Locked(d) /\ call[d].pc \in Working
      BY <1>1, <1>2, <2>4 DEF Working, Ended
    <3>2. Turn(d)
      BY <3>1 DEF ChainInv, OneTurn
    <3> QED BY <1>1, <1>4, <3>2 DEF Turn
  <2>5. \A g \in Hosts : \A d \in Chained(g)' : d \in Calls
    BY DEF Chained
  <2> QED BY <2>3, <2>4, <2>5 DEF OneTurn
<1>10. Grounded'
  <2>1. \A g \in Hosts : Chained(g)' \subseteq Chained(g)
    BY <1>3
  <2> QED BY <1>1, <2>1 DEF ChainInv, Grounded
<1> QED BY <1>5, <1>8, <1>9, <1>10 DEF ChainInv

\* A call that joins a chain waits for its tail, or has its turn when there is none.
LEMMA ChainsGrow ==
    ASSUME TypeInv, ChainInv, NEW c \in Calls, NEW op \in LockedOps, NEW h \in Hosts,
           NEW n \in Names, JoinChain(c, op, n, h)
    PROVE  ChainInv'
<1>1. /\ call[c].pc = "new" /\ ~Locked(c)
      /\ call'[c].op = op /\ call'[c].host = h /\ call'[c].pc = "waiting"
      /\ \A d \in Calls \ {c} : call'[d] = call[d]
      /\ after' = [after EXCEPT ![c] = tail[h]] /\ tail' = [tail EXCEPT ![h] = c]
  <2>1. /\ Enter(c, op, n, h, None, "waiting") /\ op \in Ops /\ "waiting" \in Beginnings
        /\ after' = [after EXCEPT ![c] = tail[h]] /\ tail' = [tail EXCEPT ![h] = c]
    BY DEF JoinChain, Preceding, Ops, Beginnings
  <2>2. /\ call[c].pc = "new" /\ Entered(c, op, h, None, "waiting")
        /\ \A d \in Calls \ {c} : call'[d] = call[d]
    BY <2>1, EnterTypes
  <2> QED BY <2>1, <2>2 DEF Entered, ChainInv, Linked
<1>2. /\ \A d \in Calls : after[d] \in Calls \cup {None}
      /\ after'[c] = tail[h] /\ tail'[h] = c /\ tail[h] \in Calls \cup {None}
      /\ \A d \in Calls \ {c} : after'[d] = after[d]
      /\ \A g \in Hosts \ {h} : tail'[g] = tail[g]
  BY <1>1 DEF TypeInv, TypeOK
<1>3. \A d \in Calls : after[d] # c
  BY <1>1, NoneAssumption DEF ChainInv, Linked
<1>4. /\ Chained(h)' = Chained(h) \cup {c} /\ c \notin Chained(h)
      /\ \A g \in Hosts \ {h} : Chained(g)' = Chained(g) /\ c \notin Chained(g)
  BY <1>1 DEF Chained, Active, Locked, Host, Ended
<1>5. tail[h] # None => tail[h] \in Chained(h) /\ \A d \in Calls : after[d] # tail[h]
  BY DEF ChainInv, Tailed
<1>6. tail[h] # None => Locked(tail[h]) /\ Host(tail[h]) = h /\ tail[h] # c
  BY <1>1, <1>5 DEF Chained
<1>7. \A d \in Calls \ {c} : (Locked(d)' <=> Locked(d)) /\ Host(d)' = Host(d)
                             /\ (Active(d)' <=> Active(d)) /\ call'[d].pc = call[d].pc
  BY <1>1 DEF Locked, Host, Active
<1>8. Locked(c)' /\ Host(c)' = h /\ call'[c].pc # "new"
  BY <1>1 DEF Locked, Host
<1>9. Linked'
  <2>1. \A d \in Calls : Locked(d)' => call'[d].pc # "new"
    BY <1>1, <1>7 DEF ChainInv, Linked
  <2>2. ASSUME NEW d \in Calls, after'[d] # None
        PROVE  /\ call'[d].pc # "new" /\ call'[after'[d]].pc # "new" /\ after'[d] # d
               /\ Active(d)' => Locked(d)'
               /\ Active(d)' /\ call'[after'[d]].pc \notin Ended \cup {"new"} =>
                      call'[after'[d]].op \in LockedOps /\ call'[after'[d]].host = Host(d)'
    <3>1. CASE d = c
      <4>1. tail[h] # None /\ after'[d] = tail[h] /\ tail[h] \in Calls
        BY <1>2, <2>2, <3>1
      <4>2. call[tail[h]].pc # "new" /\ call'[tail[h]] = call[tail[h]]
        BY <1>1, <1>5, <1>6, <4>1 DEF Chained, Active
      <4> QED BY <1>6, <1>8, <3>1, <4>1, <4>2 DEF Locked, Host
    <3>2. CASE d # c
      <4>1. /\ after'[d] = after[d] /\ after[d] \in Calls /\ after[d] # c
            /\ call'[d] = call[d] /\ call'[after[d]] = call[after[d]]
        BY <1>1, <1>2, <1>3, <2>2, <3>2
      <4> QED BY <2>2, <4>1 DEF ChainInv, Linked, Locked, Host, Active
    <3> QED BY <3>1, <3>2
  <2>3. \A d, e \in Calls : after'[d] = after'[e] /\ after'[d] # None => d = e
    BY <1>2, <1>5 DEF ChainInv, Linked
  <2>4. \A d \in Calls : after'[d] # None /\ Active(d)' => Locked(d)'
    BY <2>2
  <2> QED BY <2>1, <2>2, <2>3, <2>4 DEF Linked, Locked, Host, Active
<1>10. Tailed'
  <2>1. tail'[h] \in Chained(h)' /\ \A d \in Calls : after'[d] # tail'[h]
    BY <1>2, <1>3, <1>4, <1>6, NoneAssumption
  <2>2. ASSUME NEW g \in Hosts \ {h}
        PROVE  /\ tail'[g] # None => tail'[g] \in Chained(g)' /\ \A d \in Calls : after'[d] # tail'[g]
               /\ tail'[g] = None => Chained(g)' = {}
    <3>1. tail[g] # None => tail[g] # tail[h]
      BY <1>5 DEF ChainInv, Tailed, Chained
    <3> QED BY <1>2, <1>4, <3>1 DEF ChainInv, Tailed
  <2>3. tail'[h] # None
    BY <1>2, NoneAssumption
  <2> QED BY <2>1, <2>2, <2>3 DEF Tailed
<1>11. \A d \in Calls \ {c} : Turn(d)' <=> Turn(d)
  BY <1>1, <1>2, <1>3 DEF Turn
<1>12. OneTurn'
  <2>1. tail[h] = None => Chained(h) = {}
    BY DEF ChainInv, Tailed
  <2>2. tail[h] # None => ~Turn(c)'
    BY <1>1, <1>2, <1>5, <1>6 DEF Turn, Chained, Active
  <2>3. ASSUME NEW g \in Hosts, NEW d \in Chained(g)', NEW e \in Chained(g)', Turn(d)', Turn(e)'
        PROVE  d = e
    <3>1. d \in Calls /\ e \in Calls
      BY DEF Chained
    <3>2. CASE g = h
      BY <1>4, <1>11, <2>1, <2>2, <2>3, <3>1, <3>2 DEF ChainInv, OneTurn
    <3>3. CASE g # h
      BY <1>4, <1>11, <2>3, <3>1, <3>3 DEF ChainInv, OneTurn
    <3> QED BY <3>2, <3>3
  <2>4. \A d \in Calls : Locked(d)' /\ call'[d].pc \in Working => Turn(d)'
    BY <1>1, <1>7, <1>11 DEF ChainInv, OneTurn, Working
  <2> QED BY <2>3, <2>4 DEF OneTurn
<1>13. Grounded'
  <2>1. ASSUME NEW g \in Hosts, NEW S \in SUBSET Chained(g)', S # {}
        PROVE  \E d \in S : after'[d] \notin S
    <3>1. S \subseteq Calls
      BY <2>1 DEF Chained
    <3>2. CASE S \ {c} = {}
      BY <1>2, <1>6, <2>1, <3>2, NoneAssumption
    <3>3. CASE S \ {c} # {}
      <4>1. S \ {c} \in SUBSET Chained(g)
        BY <1>4, <2>1
      <4>2. PICK d \in S \ {c} : after[d] \notin S \ {c}
        BY <3>3, <4>1 DEF ChainInv, Grounded
      <4> QED BY <1>2, <1>3, <3>1, <4>2
    <3> QED BY <3>2, <3>3
  <2> QED BY <2>1 DEF Grounded
<1> QED BY <1>9, <1>10, <1>12, <1>13 DEF ChainInv

\* A call outside the chains ends.
LEMMA UnlockedEnds ==
    ASSUME TypeInv, NEW c \in Calls, NEW result \in Ended, End(c, result), ~Locked(c)
    PROVE  UNCHANGED <<tail, after>> /\ At(c, result)
BY DEF End, ForgetTail

\* Every action keeps the chains: those of the chain's calls as above, the rest by
\* leaving its calls where they are.
LEMMA ChainInvStep == TypeInv /\ ChainInv /\ [Next]_vars => ChainInv'
<1> SUFFICES ASSUME TypeInv, ChainInv, [Next]_vars PROVE ChainInv'
  OBVIOUS
<1> USE DEF registry, chains, links, history
<1>0. ASSUME UNCHANGED <<call, tail, after>> PROVE ChainInv'
  BY <1>0, ChainsStay DEF ChainInv, Linked, Locked, Active
<1>1. ASSUME NEW c \in Calls, ~Locked(c), call'[c].op \notin LockedOps, UNCHANGED <<tail, after>>,
             \A d \in Calls \ {c} : call'[d] = call[d],
             call[c].pc \notin Ended, call'[c].pc # "new"
      PROVE  ChainInv'
  <2>1. after[c] # None => Active(c)
    BY <1>1 DEF ChainInv, Linked, Active
  <2>2. \A d \in Calls : Active(d)' /\ after[d] # None => Active(d)
    BY <1>1, <2>1 DEF Active
  <2>3. \A d \in Calls : call'[d].op \in LockedOps <=> Locked(d)
    BY <1>1 DEF Locked
  <2>4. \A d \in Calls : Locked(d) => d # c /\ call'[d] = call[d] /\ call[d].pc # "new"
    BY <1>1 DEF ChainInv, Linked
  <2> QED BY <1>1, <2>2, <2>3, <2>4, ChainsStay
<1>2. ASSUME NEW c \in Calls, NEW place \in Places \ {"new"}, call[c].op \notin LockedOps, At(c, place),
             UNCHANGED <<tail, after>>, call[c].pc \notin Ended
      PROVE  ChainInv'
  <2>1. call'[c].op \notin LockedOps /\ call'[c].pc # "new"
    BY <1>2, MoveTypes DEF Moved, LockedOps
  <2> QED BY <1>1, <1>2, <2>1, MoveTypes DEF Locked
<1>3. ASSUME NEW c \in Calls, NEW result \in Ended, End(c, result),
             HasTurn(c) \/ call[c].pc \in Working
      PROVE  ChainInv'
  <2>1. Active(c) /\ Ended \subseteq Places \ {"new"}
    BY <1>3 DEF HasTurn, Active, Working, Ended, Places
  <2>2. Locked(c) => Turn(c)
    BY <1>3 DEF HasTurn, Turn, ChainInv, OneTurn
  <2>3. CASE Locked(c)
    BY <1>3, <2>1, <2>2, <2>3, ChainsEnd
  <2>4. CASE ~Locked(c)
    BY <1>2, <1>3, <2>1, <2>4, UnlockedEnds DEF Locked, Active
  <2> QED BY <2>3, <2>4
<1>4. ASSUME NEW c \in Calls, NEW n \in Names \cup {None}, NEW h \in Hosts, NEW op \in Ops \ LockedOps,
             NEW prof \in Profile \cup {None}, NEW place \in Beginnings,
             Enter(c, op, n, h, prof, place), UNCHANGED chains
      PROVE  ChainInv'
  <2>1. /\ call[c].pc = "new" /\ call'[c].op = op /\ call'[c].pc = place
        /\ \A d \in Calls \ {c} : call'[d] = call[d]
    BY <1>4, EnterTypes DEF Entered
  <2>2. place # "new" /\ "new" \notin Ended
    BY DEF Beginnings, Ended
  <2> QED BY <1>1, <1>4, <2>1, <2>2 DEF ChainInv, Linked
<1>5. ASSUME NEW c \in Calls, Begin(c) PROVE ChainInv'
  <2> USE DEF Ops, LockedOps, AdminOps, Beginnings
  <2>1. ASSUME NEW h \in Hosts, NEW prof \in Profile, AddHost(c, h, prof) PROVE ChainInv'
    BY <1>4, <2>1 DEF AddHost
  <2>2. ASSUME NEW n \in Names, NEW h \in Hosts, NEW root \in Roots, UpdateHost(c, n, h, root)
        PROVE  ChainInv'
    <3>0. Registered(h)
      BY <2>2, MatchesAre DEF UpdateHost
    <3>1. reg[h] \in Profile
      BY <3>0 DEF Registered, TypeInv, TypeOK
    <3>2. [reg[h] EXCEPT !.root = root] \in Profile
      BY <3>1 DEF Profile
    <3> QED BY <1>4, <2>2, <3>2 DEF UpdateHost
  <2>3. ASSUME NEW n \in Names, NEW h \in Hosts, RemoveHost(c, n, h) PROVE ChainInv'
    <3>1. reg[h] \in Profile \cup {None}
      BY DEF TypeInv, TypeOK
    <3>2. PICK place \in Beginnings : Enter(c, "remove", None, h, reg[h], place)
      BY <2>3 DEF RemoveHost
    <3> QED BY <1>4, <2>3, <3>1, <3>2 DEF RemoveHost
  <2>4. ASSUME NEW n \in Names, NEW h \in Hosts, NEW op \in LockedOps, JoinChain(c, op, n, h)
        PROVE  ChainInv'
    BY <2>4, ChainsGrow
  <2>5. ASSUME NEW n \in Names, NEW h \in Hosts, RuntimeStatus(c, n, h) PROVE ChainInv'
    BY <1>4, <2>5 DEF RuntimeStatus
  <2> QED BY <1>5, <2>1, <2>2, <2>3, <2>4, <2>5 DEF Begin
<1>6. ASSUME NEW c \in Calls, StageKnownHost(c) \/ SubmitAdd(c) PROVE ChainInv'
  <2>1. call[c].op = "add" /\ call[c].pc \notin Ended
    BY <1>6 DEF StageKnownHost, SubmitAdd, TypeInv, Shaped, Ended
  <2>2. PICK place \in Places \ {"new"} : At(c, place)
    BY <1>6 DEF StageKnownHost, SubmitAdd, Places, Ended
  <2> QED BY <1>2, <1>6, <2>1, <2>2 DEF StageKnownHost, SubmitAdd, LockedOps
<1>7. ASSUME NEW c \in Calls, DiscardStagedKnownHost(c) PROVE ChainInv'
  <2>1. call[c].op \notin LockedOps /\ ~Locked(c) /\ End(c, "failed") /\ call[c].pc \notin Ended
    BY <1>7 DEF DiscardStagedKnownHost, TypeInv, Shaped, LockedOps, Locked, Ended
  <2> QED BY <1>2, <2>1, UnlockedEnds DEF Ended, Places
<1>8. ASSUME NEW c \in Calls, ApplyUpdate(c) PROVE ChainInv'
  <2>1. PICK place \in Places \ {"new"} : At(c, place)
    BY <1>8 DEF ApplyUpdate, Failure, Places, Ended
  <2>2. \A d \in Calls \ {c} : call'[d] = call[d]
    BY <2>1, MoveTypes
  <2>3. call[c].pc = "queued"
    BY <1>8, <2>2, QueueShrinks DEF ApplyUpdate
  <2>4. call[c].op \notin LockedOps /\ call[c].pc \notin Ended
    BY <2>3 DEF TypeInv, Shaped, LockedOps, AdminOps, Ended
  <2> QED BY <1>2, <1>8, <2>1, <2>4 DEF ApplyUpdate
<1>9. ASSUME NEW c \in Calls, NEW place \in Working, HasTurn(c) \/ call[c].pc \in Working,
             call'[c].op = call[c].op, call'[c].host = call[c].host, call'[c].pc = place,
             UNCHANGED <<tail, after>>, \A d \in Calls \ {c} : call'[d] = call[d]
      PROVE  ChainInv'
  <2>1. (Locked(c) => Turn(c)) /\ call[c].pc \notin Ended /\ Active(c)
    BY <1>9 DEF HasTurn, Turn, ChainInv, OneTurn, Working, Ended, Active
  <2>2. place # "new" /\ place \notin Ended
    BY DEF Working, Ended
  <2>3. \A d \in Calls : Active(d)' /\ after[d] # None => Active(d)
    BY <1>9, <2>1 DEF Active
  <2> QED BY <1>9, <2>1, <2>2, <2>3, ChainsStay DEF ChainInv, Linked, Locked
<1>10. ASSUME NEW c \in Calls, NEW k \in Calls, NEW h, NEW cs, Use(c, k, h, cs),
              HasTurn(c) \/ call[c].pc \in Working, UNCHANGED <<tail, after>>
       PROVE  ChainInv'
  <2>1. PICK place \in Working :
            call' = [call EXCEPT ![c].pc = place, ![c].conn = k, ![c].work = h]
    BY <1>10 DEF Use, Working
  <2>2. /\ call'[c].op = call[c].op /\ call'[c].host = call[c].host /\ call'[c].pc = place
        /\ \A d \in Calls \ {c} : call'[d] = call[d]
    BY <2>1 DEF TypeInv, TypeOK
  <2> QED BY <1>9, <1>10, <2>2
<1>11. ASSUME NEW c \in Calls, FindConnection(c) PROVE ChainInv'
  <2>3. PICK h \in Hosts : Finds(c, h)
    BY <1>11, FoundAre
  <2>4. HasTurn(c) /\ UNCHANGED <<tail, after>>
    BY <1>11 DEF FindConnection
  <2>1. CASE cache[h] # None
    <3>1. cache[h] \in Calls
      BY <2>1 DEF TypeInv, TypeOK
    <3> QED BY <1>10, <2>1, <2>3, <2>4, <3>1 DEF Finds
  <2>2. CASE cache[h] = None
    <3>1. call' = [call EXCEPT ![c].pc = "preparing", ![c].prof = reg[h], ![c].work = h]
      BY <2>2, <2>3 DEF Finds
    <3>2. /\ call'[c].op = call[c].op /\ call'[c].host = call[c].host
          /\ call'[c].pc = "preparing"
          /\ \A d \in Calls \ {c} : call'[d] = call[d]
      BY <3>1 DEF TypeInv, TypeOK
    <3> QED BY <1>9, <2>4, <3>2 DEF Working
  <2> QED BY <2>1, <2>2
<1>12. ASSUME NEW c \in Calls, MakeConnection(c) PROVE ChainInv'
  BY <1>3, <1>10, <1>12 DEF MakeConnection, Working, Ended
<1>13. ASSUME NEW k \in Calls, ConnectionReady(k) \/ ConnectionFails(k) PROVE ChainInv'
  <2>1. PICK place \in {"sent", "broken"} :
            call' = [c \in Calls |-> IF call[c].pc = "readying" /\ call[c].conn = k
                                     THEN [call[c] EXCEPT !.pc = place] ELSE call[c]]
    BY <1>13 DEF ConnectionReady, ConnectionFails
  <2>2. \A c \in Calls : call'[c] = call[c] \/ (call[c].pc = "readying" /\ call'[c].pc = place /\ Moved(c))
    BY <2>1 DEF Moved, TypeInv, TypeOK
  <2>6. \A d \in Calls : /\ call[d].pc \in Ended => call'[d].pc \in Ended
                         /\ call'[d].pc = "new" => call[d].pc = "new"
                         /\ Active(d)' => Active(d)
    BY <2>2 DEF Active, Ended
  <2>3. UNCHANGED <<tail, after>>
    BY <1>13 DEF ConnectionReady, ConnectionFails
  <2>4. \A d \in Calls : call'[d].op = call[d].op /\ call'[d].host = call[d].host
    BY <2>2 DEF Moved, Ended
  <2>5. \A d \in Calls : Locked(d) =>
            /\ call'[d].pc # "new"
            /\ call'[d].pc \in Ended <=> call[d].pc \in Ended
            /\ call'[d].pc \in Working => call[d].pc \in Working
    BY <2>2 DEF Working, Ended, ChainInv, Linked
  <2> QED BY <2>3, <2>4, <2>5, <2>6, ChainsStay DEF Locked
<1>14. ASSUME NEW c \in Calls, Answer(c) PROVE ChainInv'
  <2>1. PICK result \in Ended : End(c, result)
    BY <1>14 DEF Answer, Ended
  <2> QED BY <1>3, <1>14, <2>1 DEF Answer, Working
<1>15. ASSUME NEW c \in Calls, Fail(c) PROVE ChainInv'
  BY <1>3, <1>15 DEF Fail, Working, Ended
<1>16. CASE Dispose
  BY <1>0, <1>16 DEF Dispose
<1>17. CASE UNCHANGED vars
  BY <1>0, <1>17 DEF vars
<1>18. CASE Restart
  <2>7. Over("failed").pc = "failed" /\ Over("failed").op = "status"
    BY OverTypes DEF Ended
  <2>1. \A c \in Calls : /\ ~Active(c)'
                         /\ call[c].pc # "new" => call'[c].pc # "new"
                         /\ call'[c].pc \notin Working
    BY <1>18, <2>7 DEF Restart, Active, Working, Ended
  <2>2. \A c \in Calls : Locked(c)' => Locked(c)
    BY <1>18, <2>7 DEF Restart, Locked, LockedOps
  <2>3. after' = after /\ \A h \in Hosts : tail'[h] = None
    BY <1>18 DEF Restart
  <2>4. \A c \in Calls : after[c] \in Calls \cup {None}
    BY DEF TypeInv, TypeOK
  <2>5. Linked'
    BY <2>1, <2>2, <2>3, <2>4 DEF ChainInv, Linked, Active
  <2>6. \A h \in Hosts : Chained(h)' = {}
    BY <2>1 DEF Chained
  <2> QED BY <2>1, <2>3, <2>5, <2>6 DEF ChainInv, Tailed, OneTurn, Grounded
<1> QED
  BY <1>5, <1>6, <1>7, <1>8, <1>11, <1>12, <1>13, <1>14, <1>15, <1>16, <1>17, <1>18 DEF Next, Proceed

\* What begins is Enter, whatever the operation.
LEMMA BeginEnters ==
    ASSUME TypeInv, NEW c \in Calls, Begin(c)
    PROVE  \E op \in Ops, n \in Names \cup {None}, h \in Hosts, prof \in Profile \cup {None},
              place \in Beginnings : Enter(c, op, n, h, prof, place)
<1> USE DEF Ops, LockedOps, AdminOps, Beginnings
<1>1. ASSUME NEW n \in Names, NEW h \in Hosts, NEW root \in Roots, UpdateHost(c, n, h, root)
      PROVE  Enter(c, "update", None, h, [reg[h] EXCEPT !.root = root], "queued")
             /\ [reg[h] EXCEPT !.root = root] \in Profile
  <2>0. Registered(h)
    BY <1>1, MatchesAre DEF UpdateHost
  <2>1. reg[h] \in Profile
    BY <2>0 DEF Registered, TypeInv, TypeOK
  <2> QED BY <1>1, <2>1 DEF UpdateHost, Profile
<1>2. ASSUME NEW n \in Names, NEW h \in Hosts, RemoveHost(c, n, h)
      PROVE  \E place \in Beginnings : Enter(c, "remove", None, h, reg[h], place)
  BY <1>2 DEF RemoveHost
<1>6. \A h \in Hosts : reg[h] \in Profile \cup {None}
  BY DEF TypeInv, TypeOK
<1>3. ASSUME NEW h \in Hosts, NEW prof \in Profile, AddHost(c, h, prof)
      PROVE  Enter(c, "add", None, h, prof, "probing")
  BY <1>3 DEF AddHost
<1>4. ASSUME NEW n \in Names, NEW h \in Hosts, NEW op \in LockedOps, JoinChain(c, op, n, h)
      PROVE  Enter(c, op, n, h, None, "waiting")
  BY <1>4 DEF JoinChain
<1>5. ASSUME NEW n \in Names, NEW h \in Hosts, RuntimeStatus(c, n, h)
      PROVE  Enter(c, "status", n, h, None, "waiting")
  BY <1>5 DEF RuntimeStatus
<1>7. CASE \E n \in Names, h \in Hosts, root \in Roots : UpdateHost(c, n, h, root)
  BY <1>1, <1>7
<1>8. CASE \E n \in Names, h \in Hosts : RemoveHost(c, n, h)
  BY <1>2, <1>6, <1>8
<1>9. CASE \E h \in Hosts, prof \in Profile : AddHost(c, h, prof)
  BY <1>3, <1>9
<1>10. CASE \E n \in Names, h \in Hosts, op \in LockedOps : JoinChain(c, op, n, h)
  BY <1>4, <1>10
<1>11. CASE \E n \in Names, h \in Hosts : RuntimeStatus(c, n, h)
  BY <1>5, <1>11
<1> QED BY <1>7, <1>8, <1>9, <1>10, <1>11 DEF Begin

\* A call at work is at the host whose chain it is in, or has disturbed another.
AtHome ==
    \A c \in Calls : call[c].pc \in Working => call[c].work \in {Host(c)} \cup disturbed

LEMMA AtHomeStep == TypeInv /\ AtHome /\ [Next]_vars => AtHome'
<1> SUFFICES ASSUME TypeInv, AtHome, [Next]_vars PROVE AtHome'
  OBVIOUS
<1> USE DEF registry, chains, links, history
\* A step that takes nobody to work, and keeps where those at work are.
<1>0. ASSUME disturbed \subseteq disturbed',
             \A d \in Calls : call'[d].pc \in Working =>
                 /\ call[d].pc \in Working /\ call'[d].work = call[d].work
                 /\ call'[d].host = call[d].host
      PROVE  AtHome'
  BY <1>0 DEF AtHome, Host
<1>1. CASE UNCHANGED vars \/ Dispose
  <2>1. UNCHANGED call /\ disturbed \subseteq disturbed'
    BY <1>1 DEF vars, Dispose
  <2> QED BY <1>0, <2>1
<1>2. CASE Restart
  <2>1. \A c \in Calls : call'[c].pc \notin Working
    <3>1. Over("failed").pc = "failed"
      BY OverTypes DEF Ended
    <3> QED BY <1>2, <3>1 DEF Restart, Active, Working, Ended
  <2> QED BY <2>1 DEF AtHome
<1>3. ASSUME NEW c \in Calls, Begin(c) PROVE AtHome'
  <2>1. PICK op \in Ops, n \in Names \cup {None}, h \in Hosts, prof \in Profile \cup {None},
             place \in Beginnings : Enter(c, op, n, h, prof, place)
    BY <1>3, BeginEnters
  <2>2. call'[c].pc = place /\ \A d \in Calls \ {c} : call'[d] = call[d]
    BY <2>1, EnterTypes DEF Entered
  <2>3. disturbed \subseteq disturbed' /\ place \notin Working
    BY <2>1 DEF Enter, Beginnings, Working
  <2> QED BY <1>0, <2>2, <2>3
<1>4. ASSUME NEW c \in Calls, NEW place \in Places \ Working, At(c, place), disturbed \subseteq disturbed'
      PROVE  AtHome'
  BY <1>0, <1>4, MoveTypes
<1>5. ASSUME NEW c \in Calls, NEW k \in Calls, NEW h \in Hosts, NEW cs, Use(c, k, h, cs),
             h \in {Host(c)} \cup disturbed', disturbed \subseteq disturbed'
      PROVE  AtHome'
  <2>1. /\ call'[c].work = h /\ call'[c].host = call[c].host
        /\ \A d \in Calls \ {c} : call'[d] = call[d]
    BY <1>5 DEF Use, TypeInv, TypeOK
  <2> QED BY <1>5, <2>1 DEF AtHome, Host
<1>6. ASSUME NEW c \in Calls, StageKnownHost(c) \/ SubmitAdd(c) \/ DiscardStagedKnownHost(c)
                              \/ ApplyUpdate(c) \/ Answer(c) \/ Fail(c)
      PROVE  AtHome'
  <2>1. PICK place \in Places \ Working : At(c, place)
    BY <1>6 DEF StageKnownHost, SubmitAdd, DiscardStagedKnownHost, ApplyUpdate, Failure, Answer, Fail,
                End, Places, Ended, Working
  <2>2. disturbed \subseteq disturbed'
    BY <1>6 DEF StageKnownHost, SubmitAdd, DiscardStagedKnownHost, ApplyUpdate, Answer, Fail
  <2> QED BY <1>4, <2>1, <2>2
<1>7. ASSUME NEW c \in Calls, FindConnection(c) PROVE AtHome'
  <2>1. PICK h \in Hosts : Finds(c, h)
    BY <1>7, FoundAre
  <2>2. disturbed' = disturbed \cup ({h} \ {Host(c)})
    BY <2>1 DEF Finds
  <2>3. CASE cache[h] # None
    <3>1. cache[h] \in Calls
      BY <2>3 DEF TypeInv, TypeOK
    <3> QED BY <1>5, <2>1, <2>2, <2>3, <3>1 DEF Finds
  <2>4. CASE cache[h] = None
    <3>1. call' = [call EXCEPT ![c].pc = "preparing", ![c].prof = reg[h], ![c].work = h]
      BY <2>1, <2>4 DEF Finds
    <3>2. /\ call'[c].work = h /\ call'[c].host = call[c].host
          /\ \A d \in Calls \ {c} : call'[d] = call[d]
      BY <3>1 DEF TypeInv, TypeOK
    <3> QED BY <2>2, <3>2 DEF AtHome, Host
  <2> QED BY <2>3, <2>4
<1>8. ASSUME NEW c \in Calls, MakeConnection(c) PROVE AtHome'
  <2>1. PICK made :
            Use(c, c, call[c].work, made) \/ End(c, "failed")
    BY <1>8 DEF MakeConnection
  <2>2. /\ call[c].work \in Hosts /\ call[c].work \in {Host(c)} \cup disturbed
        /\ disturbed' = disturbed
    BY <1>8 DEF MakeConnection, AtHome, TypeInv, Shaped, Working
  <2>3. CASE End(c, "failed")
    BY <1>4, <2>2, <2>3 DEF End, Places, Ended, Working
  <2> QED BY <1>5, <2>1, <2>2, <2>3
<1>9. ASSUME NEW k \in Calls, ConnectionReady(k) \/ ConnectionFails(k) PROVE AtHome'
  <2>1. \A d \in Calls : \/ call'[d] = call[d]
                         \/ /\ call[d].pc = "readying" /\ call'[d].work = call[d].work
                            /\ call'[d].host = call[d].host
    BY <1>9 DEF ConnectionReady, ConnectionFails, TypeInv, TypeOK
  <2>2. disturbed' = disturbed
    BY <1>9 DEF ConnectionReady, ConnectionFails
  <2> QED BY <1>0, <2>1, <2>2 DEF Working
<1> QED BY <1>1, <1>2, <1>3, <1>6, <1>7, <1>8, <1>9 DEF Next, Proceed

\* Of the calls that take a host's chain one at a time is at work, however many wait and
\* whichever fail, whatever each named the host by; and one at a time works on a host that
\* no call has reached from another one's chain
\* (lib/remote-project-controller.mjs: #withHostLock).
THEOREM Chains == Spec => []OneAtATime
<1>3. Init => AtHome
  BY DEF Init, AtHome, NoCall, Working
<1>1. Spec => [](TypeInv /\ ChainInv /\ AtHome)
  BY TypeInvInit, ChainInvInit, TypeInvStep, ChainInvStep, <1>3, AtHomeStep, PTL DEF Spec
<1>2. TypeInv /\ ChainInv /\ AtHome => OneAtATime
  <2> SUFFICES ASSUME TypeInv, ChainInv, NEW c \in Calls, NEW d \in Calls,
                      Locked(c), call[c].pc \in Working, Locked(d), call[d].pc \in Working,
                      Host(c) = Host(d)
               PROVE  c = d
    BY DEF OneAtATime, AtHome
  <2>1. c \in Chained(Host(c)) /\ d \in Chained(Host(c)) /\ Host(c) \in Hosts
    BY DEF Chained, Active, Working, Ended, TypeInv, Shaped
  <2>2. Turn(c) /\ Turn(d)
    BY DEF ChainInv, OneTurn
  <2> QED BY <2>1, <2>2 DEF ChainInv, OneTurn
<1> QED BY <1>1, <1>2, PTL

-----------------------------------------------------------------------------
(* Hosts whose calls do not overlap. *)

\* A cached connection is its host's, a connection in preparation is awaited, and a
\* call that has not made its connection yet has none.
Wired ==
    /\ \A h \in Hosts : cache[h] # None => conn[cache[h]].host = h
    /\ \A k \in Calls : conn[k].readying =>
           \E c \in Calls : call[c].pc = "readying" /\ call[c].conn = k /\ call[c].work = conn[k].host
    /\ \A c \in Calls : call[c].pc \in {"new", "waiting", "preparing"} =>
           ~conn[c].up /\ ~conn[c].readying /\ \A h \in Hosts : cache[h] # c

\* The calls under way for an undisturbed host are those of its chain, or one other.
Alone ==
    \A c, d \in Calls :
        Active(c) /\ Active(d) /\ Host(c) = Host(d) /\ Host(c) \notin disturbed /\ c # d
        => Locked(c) /\ Locked(d)

\* What holds of an undisturbed host between the steps of its calls.
Settled(h) ==
    /\ file[h] = reg[h]
    /\ Pinned(h)
    /\ cache[h] # None => Registered(h) /\ conn[cache[h]].prof = reg[h]
    /\ \A k \in Calls : conn[k].host = h /\ (conn[k].up \/ conn[k].readying) => cache[h] = k
    /\ \A c \in Calls : Active(c) /\ Host(c) = h =>
           /\ call[c].op = "add" => ~Registered(h)
           /\ call[c].op \in {"update", "remove"} => cache[h] = None
    /\ \A c \in Calls : call[c].pc = "preparing" /\ call[c].work = h =>
           Registered(h) /\ call[c].prof = reg[h] /\ cache[h] = None

QuietInv == Wired /\ Alone /\ AtHome /\ \A h \in Hosts \ disturbed : Settled(h)

LEMMA QuietInvInit == Init => QuietInv
<1> SUFFICES ASSUME Init PROVE QuietInv
  OBVIOUS
<1>1. \A c \in Calls : call[c].pc = "new" /\ ~conn[c].up /\ ~conn[c].readying /\ ~Active(c)
  BY DEF Init, NoConnection, NoCall, Active
<1>2. \A h \in Hosts : cache[h] = None /\ Pinned(h) /\ file[h] = reg[h]
  BY DEF Init, Pinned, Registered
<1>3. Wired
  BY <1>1, <1>2, NoneAssumption DEF Wired
<1>4. Alone
  BY <1>1 DEF Alone
<1>5. \A h \in Hosts : Settled(h)
  BY <1>1, <1>2 DEF Settled
<1>6. AtHome
  BY <1>1 DEF AtHome, Working
<1> QED BY <1>3, <1>4, <1>5, <1>6 DEF QuietInv

\* A call that proceeds and does not end keeps its operation and its host, and no call
\* becomes active.
LEMMA ProceedMoves ==
    ASSUME TypeInv, NEW c \in Calls, Proceed(c)
    PROVE  /\ \A d \in Calls : call'[d].pc \notin Ended \cup {"new"} =>
                  Active(d) /\ call'[d].op = call[d].op /\ call'[d].host = call[d].host
           /\ disturbed \subseteq disturbed'
<1> USE DEF registry, chains, links, history
<1>1. ASSUME NEW place \in Places \ {"new"}, At(c, place), Active(c)
      PROVE  \A d \in Calls : call'[d].pc \notin Ended \cup {"new"} =>
                  Active(d) /\ call'[d].op = call[d].op /\ call'[d].host = call[d].host
  BY <1>1, MoveTypes DEF Moved, Active
<1>2. ASSUME NEW k, NEW h, NEW cs, Use(c, k, h, cs), Active(c)
      PROVE  \A d \in Calls : call'[d].pc \notin Ended \cup {"new"} =>
                  Active(d) /\ call'[d].op = call[d].op /\ call'[d].host = call[d].host
  BY <1>2 DEF Use, Active, TypeInv, TypeOK
<1>3. CASE StageKnownHost(c)
  BY <1>1, <1>3 DEF StageKnownHost, Active, Ended, Places
<1>4. CASE SubmitAdd(c)
  BY <1>1, <1>4 DEF SubmitAdd, Active, Ended, Places
<1>5. CASE DiscardStagedKnownHost(c)
  BY <1>1, <1>5 DEF DiscardStagedKnownHost, End, Active, Ended, Places
<1>6. CASE ApplyUpdate(c)
  <2>1. PICK place \in Places \ {"new"} : At(c, place)
    BY <1>6 DEF ApplyUpdate, Failure, Places, Ended
  <2>2. \A d \in Calls \ {c} : call'[d] = call[d]
    BY <2>1, MoveTypes
  <2>3. Active(c)
    BY <1>6, <2>2, QueueShrinks DEF ApplyUpdate, Active, Ended
  <2> QED BY <1>1, <1>6, <2>1, <2>3 DEF ApplyUpdate
<1>7. CASE FindConnection(c)
  <2>4. PICK h \in Hosts : Finds(c, h)
    BY <1>7, FoundAre
  <2>1. Active(c) /\ disturbed \subseteq disturbed'
    BY <1>7, <2>4 DEF FindConnection, Finds, HasTurn, Active, Ended
  <2>2. CASE cache[h] # None
    BY <1>2, <2>1, <2>2, <2>4 DEF Finds
  <2>3. CASE cache[h] = None
    <3>1. call' = [call EXCEPT ![c].pc = "preparing", ![c].prof = reg[h], ![c].work = h]
      BY <2>3, <2>4 DEF Finds
    <3>2. /\ call'[c].op = call[c].op /\ call'[c].host = call[c].host
          /\ \A d \in Calls \ {c} : call'[d] = call[d]
      BY <3>1 DEF TypeInv, TypeOK
    <3> QED BY <2>1, <3>2 DEF Active
  <2> QED BY <2>2, <2>3
<1>8. CASE MakeConnection(c)
  <2>1. Active(c) /\ disturbed' = disturbed
    BY <1>8 DEF MakeConnection, Active, Ended
  <2> QED BY <1>1, <1>2, <1>8, <2>1 DEF MakeConnection, End, Ended, Places
<1>9. CASE ConnectionReady(c) \/ ConnectionFails(c)
  <2>1. \A d \in Calls : \/ call'[d] = call[d]
                         \/ call[d].pc = "readying" /\ Moved(d)
    BY <1>9 DEF ConnectionReady, ConnectionFails, Moved, TypeInv, TypeOK
  <2>2. disturbed' = disturbed
    BY <1>9 DEF ConnectionReady, ConnectionFails
  <2> QED BY <2>1, <2>2 DEF Moved, Active, Ended
<1>10. CASE Answer(c)
  <2>1. PICK result \in Ended : End(c, result)
    BY <1>10 DEF Answer, Ended
  <2>2. result \in Places \ {"new"} /\ Active(c) /\ At(c, result)
    BY <1>10, <2>1 DEF Answer, Ended, Places, Active, End
  <2> QED BY <1>1, <1>10, <2>2 DEF Answer
<1>11. CASE Fail(c)
  BY <1>1, <1>11 DEF Fail, HasTurn, End, Active, Ended, Places
<1> QED
  BY <1>3, <1>4, <1>5, <1>6, <1>7, <1>8, <1>9, <1>10, <1>11 DEF Proceed

LEMMA AloneStep ==
    ASSUME TypeInv, Alone, [Next]_vars
    PROVE  Alone'
<1>1. CASE UNCHANGED vars
  BY <1>1 DEF vars, history, Alone, Active, Locked, Host
<1>2. CASE Dispose
  <2>1. UNCHANGED call /\ disturbed \subseteq disturbed'
    BY <1>2 DEF Dispose
  <2> QED BY <2>1 DEF Alone, Active, Locked, Host
<1>3. ASSUME NEW c \in Calls, Proceed(c) PROVE Alone'
  <2>1. \A d \in Calls : Active(d)' => Active(d)
    BY <1>3, ProceedMoves DEF Active
  <2>2. \A d \in Calls : Active(d)' => (Locked(d)' <=> Locked(d)) /\ Host(d)' = Host(d)
    BY <1>3, ProceedMoves DEF Locked, Host, Active
  <2>3. disturbed \subseteq disturbed'
    BY <1>3, ProceedMoves
  <2> QED BY <2>1, <2>2, <2>3 DEF Alone
<1>4. ASSUME NEW c \in Calls, Begin(c) PROVE Alone'
  <2>1. PICK op \in Ops, n \in Names \cup {None}, h \in Hosts, prof \in Profile \cup {None},
             place \in Beginnings : Enter(c, op, n, h, prof, place)
    BY <1>4, BeginEnters
  <2>2. /\ call'[c].op = op /\ call'[c].host = h
        /\ \A d \in Calls \ {c} : call'[d] = call[d]
    <3>1. Entered(c, op, h, prof, place) /\ \A d \in Calls \ {c} : call'[d] = call[d]
      BY <2>1, EnterTypes
    <3> QED BY <3>1 DEF Entered
  <2>3. /\ disturbed \subseteq disturbed'
        /\ \A d \in Calls : Active(d) /\ Host(d) = h /\ h \notin disturbed'
                            => op \in LockedOps /\ Locked(d)
    BY <2>1 DEF Enter
  <2>4. \A d \in Calls \ {c} : /\ Active(d)' <=> Active(d)
                               /\ Locked(d)' <=> Locked(d)
                               /\ Host(d)' = Host(d)
    BY <2>2 DEF Active, Locked, Host
  <2>5. (Locked(c)' <=> op \in LockedOps) /\ Host(c)' = h
    BY <2>2 DEF Locked, Host
  <2> QED BY <2>3, <2>4, <2>5 DEF Alone
<1>5. CASE Restart
  <2>1. \A c \in Calls : ~Active(c)'
    BY <1>5, OverTypes DEF Restart, Active, Ended, TypeInv, TypeOK
  <2> QED BY <2>1 DEF Alone
<1> QED BY <1>1, <1>2, <1>3, <1>4, <1>5 DEF Next

\* A step that leaves cache and connections alone keeps them wired when no call that
\* awaits a connection moves and none goes back.
LEMMA WiresStay ==
    ASSUME TypeInv, Wired, UNCHANGED <<cache, conn>>,
           \A d \in Calls : call[d].pc = "readying" =>
               /\ call'[d].pc = "readying" /\ call'[d].conn = call[d].conn
               /\ call'[d].work = call[d].work,
           \A d \in Calls : call'[d].pc \in {"new", "waiting", "preparing"} =>
               call[d].pc \in {"new", "waiting", "preparing"}
    PROVE  Wired'
BY DEF Wired

\* A host's connection is closed: it is not ready, but may be in preparation.
LEMMA WiresDrop ==
    ASSUME TypeInv, Wired, NEW h \in Hosts, Drop(h),
           \A d \in Calls : call[d].pc = "readying" =>
               /\ call'[d].pc = "readying" /\ call'[d].conn = call[d].conn
               /\ call'[d].work = call[d].work,
           \A d \in Calls : call'[d].pc \in {"new", "waiting", "preparing"} =>
               call[d].pc \in {"new", "waiting", "preparing"}
    PROVE  Wired'
<1>1. /\ cache'[h] = None /\ \A g \in Hosts \ {h} : cache'[g] = cache[g]
      /\ \A k \in Calls : /\ conn'[k].host = conn[k].host
                          /\ conn'[k].readying = conn[k].readying
                          /\ conn'[k].up => conn[k].up
  BY DEF Drop, Closed, TypeInv, TypeOK
<1>2. \A g \in Hosts : cache[g] \in Calls \cup {None}
  BY DEF TypeInv, TypeOK
<1>3. \A g \in Hosts : cache'[g] # None => cache[g] = cache'[g] /\ cache[g] \in Calls
  BY <1>1, <1>2
<1> QED BY <1>1, <1>3, NoneAssumption DEF Wired, Host

\* A call that uses a connection of its host becomes one of those that await it.
LEMMA WiresUsed ==
    ASSUME TypeInv, NEW c \in Calls, NEW k \in Calls, NEW g \in Hosts,
           NEW cs \in [Calls -> ConnRecord],
           Use(c, k, g, cs), call[c].pc \in {"waiting", "preparing"}, cs[k].host = g,
           \A h \in Hosts : cache'[h] # None => cs[cache'[h]].host = h,
           \A h \in Hosts : cache'[h] \in Calls \cup {None},
           \A j \in Calls : cs[j].readying =>
               \E d \in Calls : call[d].pc = "readying" /\ call[d].conn = j /\ call[d].work = cs[j].host,
           k = c \/ call[k].pc \notin {"new", "waiting", "preparing"},
           \A d \in Calls \ {c} : call[d].pc \in {"new", "waiting", "preparing"} =>
               ~cs[d].up /\ ~cs[d].readying /\ \A h \in Hosts : cache'[h] # d
    PROVE  Wired'
<1>1. /\ call'[c].pc = IF cs[k].up THEN "sent" ELSE "readying"
      /\ call'[c].conn = k /\ call'[c].work = g
      /\ \A d \in Calls \ {c} : call'[d] = call[d]
  BY DEF Use, TypeInv, TypeOK
<1>2. /\ \A j \in Calls : conn'[j].host = cs[j].host /\ conn'[j].up = cs[j].up
      /\ conn'[k].readying = ~cs[k].up
      /\ \A j \in Calls \ {k} : conn'[j] = cs[j]
  BY DEF Use, ConnRecord
<1>3. \A h \in Hosts : cache'[h] # None => conn'[cache'[h]].host = h
  BY <1>2
<1>4. \A j \in Calls : conn'[j].readying =>
          \E d \in Calls : call'[d].pc = "readying" /\ call'[d].conn = j /\ call'[d].work = conn'[j].host
  <2>1. ASSUME NEW j \in Calls, j # k, conn'[j].readying
        PROVE  \E d \in Calls : call'[d].pc = "readying" /\ call'[d].conn = j
                                /\ call'[d].work = conn'[j].host
    <3>1. PICK d \in Calls : call[d].pc = "readying" /\ call[d].conn = j /\ call[d].work = cs[j].host
      BY <1>2, <2>1
    <3> QED BY <1>1, <1>2, <3>1
  <2>2. conn'[k].readying => call'[c].pc = "readying" /\ call'[c].conn = k /\ call'[c].work = conn'[k].host
    BY <1>1, <1>2
  <2> QED BY <2>1, <2>2
<1>5. \A d \in Calls : call'[d].pc \in {"new", "waiting", "preparing"} =>
          ~conn'[d].up /\ ~conn'[d].readying /\ \A h \in Hosts : cache'[h] # d
  BY <1>1, <1>2
<1> QED BY <1>3, <1>4, <1>5 DEF Wired

LEMMA WiredStep ==
    ASSUME TypeInv, Wired, [Next]_vars
    PROVE  Wired'
<1> USE DEF registry, chains, links, history
<1>1. CASE UNCHANGED vars
  BY <1>1, WiresStay DEF vars
<1>2. CASE Dispose
  <2>1. /\ UNCHANGED call /\ \A h \in Hosts : cache'[h] = None
        /\ \A k \in Calls : /\ conn'[k].host = conn[k].host
                            /\ conn'[k].readying = conn[k].readying
                            /\ conn'[k].up => conn[k].up
    BY <1>2 DEF Dispose, TypeInv, TypeOK
  <2> QED BY <2>1, NoneAssumption DEF Wired
<1>3. ASSUME NEW c \in Calls, Begin(c) PROVE Wired'
  <2>1. PICK op \in Ops, n \in Names \cup {None}, h \in Hosts, prof \in Profile \cup {None},
             place \in Beginnings : Enter(c, op, n, h, prof, place)
    BY <1>3, BeginEnters
  <2>2. /\ call[c].pc = "new" /\ call'[c].pc = place
        /\ \A d \in Calls \ {c} : call'[d] = call[d]
    BY <2>1, EnterTypes DEF Entered
  <2>3. /\ \A d \in Calls : call[d].pc = "readying" =>
               /\ call'[d].pc = "readying" /\ call'[d].conn = call[d].conn
               /\ call'[d].work = call[d].work
        /\ \A d \in Calls : call'[d].pc \in {"new", "waiting", "preparing"} =>
               call[d].pc \in {"new", "waiting", "preparing"}
    BY <2>2
  <2>4. UNCHANGED <<cache, conn>> \/ \E g \in Hosts : Drop(g)
    BY <1>3 DEF Begin, AddHost, UpdateHost, DropForUpdate, RemoveHost, JoinChain, RuntimeStatus
  <2>5. CASE UNCHANGED <<cache, conn>>
    BY <2>3, <2>5, WiresStay
  <2>6. ASSUME NEW g \in Hosts, Drop(g) PROVE Wired'
    BY <2>3, <2>6, WiresDrop
  <2> QED BY <2>4, <2>5, <2>6
<1>4. ASSUME NEW c \in Calls, NEW place \in Places \ {"new", "waiting", "preparing"}, At(c, place),
             call[c].pc # "readying", UNCHANGED <<cache, conn>>
      PROVE  Wired'
  <2>1. /\ call'[c].pc = place /\ \A d \in Calls \ {c} : call'[d] = call[d]
    BY <1>4, MoveTypes
  <2> QED BY <1>4, <2>1, WiresStay
<1>5. ASSUME NEW c \in Calls,
             StageKnownHost(c) \/ SubmitAdd(c) \/ DiscardStagedKnownHost(c) \/ Fail(c)
      PROVE  Wired'
  BY <1>4, <1>5 DEF StageKnownHost, SubmitAdd, DiscardStagedKnownHost, Fail, HasTurn, End,
                    Places, Ended
<1>6. ASSUME NEW c \in Calls, Answer(c) PROVE Wired'
  <2>1. PICK result \in Ended : End(c, result)
    BY <1>6 DEF Answer, Ended
  <2> QED BY <1>4, <1>6, <2>1 DEF Answer, End, Places, Ended
<1>7. ASSUME NEW c \in Calls, ApplyUpdate(c) PROVE Wired'
  <2>1. PICK place \in {"done", "failed", "discarding"} : At(c, place)
    BY <1>7 DEF ApplyUpdate, Failure
  <2>2. \A d \in Calls \ {c} : call'[d] = call[d]
    BY <2>1, MoveTypes DEF Places, Ended
  <2>3. call[c].pc = "queued"
    BY <1>7, <2>2, QueueShrinks DEF ApplyUpdate
  <2> QED BY <1>4, <1>7, <2>1, <2>3 DEF ApplyUpdate, Places, Ended
<1>8. ASSUME NEW c \in Calls, FindConnection(c) PROVE Wired'
  <2>1. call[c].pc = "waiting" /\ UNCHANGED cache
    BY <1>8 DEF FindConnection, HasTurn
  <2>4. PICK h \in Hosts : Finds(c, h)
    BY <1>8, FoundAre
  <2>2. CASE cache[h] # None
    <3>1. /\ cache[h] \in Calls /\ Use(c, cache[h], h, conn)
          /\ conn \in [Calls -> ConnRecord]
          /\ \A g \in Hosts : cache[g] \in Calls \cup {None}
      BY <2>2, <2>4 DEF Finds, TypeInv, TypeOK, ConnRecord
    <3>2. /\ conn[cache[h]].host = h
          /\ call[cache[h]].pc \notin {"new", "waiting", "preparing"}
      BY <2>1, <2>2, <3>1 DEF Wired
    <3> QED BY <2>1, <3>1, <3>2, WiresUsed DEF Wired
  <2>3. CASE cache[h] = None
    <3>1. call' = [call EXCEPT ![c].pc = "preparing", ![c].prof = reg[h], ![c].work = h]
          /\ UNCHANGED conn
      BY <2>3, <2>4 DEF Finds
    <3>2. \A d \in Calls \ {c} : call'[d] = call[d]
      BY <3>1 DEF TypeInv, TypeOK
    <3> QED BY <2>1, <3>1, <3>2, WiresStay
  <2> QED BY <2>2, <2>3
<1>9. ASSUME NEW c \in Calls, MakeConnection(c) PROVE Wired'
  <2>1. PICK made : made = [conn EXCEPT ![c] = [host |-> call[c].work, prof |-> call[c].prof,
                                                readying |-> FALSE, up |-> FALSE]]
    OBVIOUS
  <2>2. /\ call[c].work \in Hosts /\ call[c].pc = "preparing"
        /\ cache' = [cache EXCEPT ![call[c].work] = c]
        /\ Use(c, c, call[c].work, made) \/ (conn' = made /\ End(c, "failed"))
    BY <1>9, <2>1 DEF MakeConnection, TypeInv, Shaped, Working
  <2>3. /\ made \in [Calls -> ConnRecord] /\ \A k \in Calls \ {c} : made[k] = conn[k]
        /\ made[c].host = call[c].work /\ ~made[c].up /\ ~made[c].readying
    BY <2>1, <2>2 DEF TypeInv, TypeOK, Shaped, ConnRecord
  <2>4. /\ cache'[call[c].work] = c /\ \A h \in Hosts \ {call[c].work} : cache'[h] = cache[h]
        /\ \A h \in Hosts : cache'[h] \in Calls \cup {None}
        /\ \A h \in Hosts : cache[h] # c
    BY <2>2 DEF TypeInv, TypeOK, Wired
  <2>5. \A h \in Hosts : cache'[h] # None => made[cache'[h]].host = h
    BY <2>3, <2>4 DEF Wired, TypeInv, TypeOK
  <2>6. \A j \in Calls : made[j].readying =>
            \E d \in Calls : call[d].pc = "readying" /\ call[d].conn = j /\ call[d].work = made[j].host
    BY <2>3 DEF Wired
  <2>7. \A d \in Calls \ {c} : call[d].pc \in {"new", "waiting", "preparing"} =>
            ~made[d].up /\ ~made[d].readying /\ \A h \in Hosts : cache'[h] # d
    BY <2>3, <2>4 DEF Wired
  <2>8. CASE Use(c, c, call[c].work, made)
    BY <2>2, <2>3, <2>4, <2>5, <2>6, <2>7, <2>8, WiresUsed
  <2>9. CASE conn' = made /\ End(c, "failed")
    <3>1. /\ call'[c].pc = "failed" /\ \A d \in Calls \ {c} : call'[d] = call[d]
      BY <2>9, MoveTypes DEF End, Places, Ended
    <3>2. \A j \in Calls : made[j].readying =>
            \E d \in Calls : call'[d].pc = "readying" /\ call'[d].conn = j /\ call'[d].work = made[j].host
      <4>1. SUFFICES ASSUME NEW j \in Calls, made[j].readying
                     PROVE  \E d \in Calls : call'[d].pc = "readying" /\ call'[d].conn = j
                                             /\ call'[d].work = made[j].host
        OBVIOUS
      <4>2. PICK d \in Calls : call[d].pc = "readying" /\ call[d].conn = j /\ call[d].work = made[j].host
        BY <2>6, <4>1
      <4> QED BY <2>2, <3>1, <4>2
    <3> QED BY <2>5, <2>7, <2>9, <3>1, <3>2 DEF Wired
  <2> QED BY <2>2, <2>8, <2>9
<1>10. ASSUME NEW k \in Calls, ConnectionReady(k) \/ ConnectionFails(k) PROVE Wired'
  <2>1. /\ conn[k].readying /\ UNCHANGED cache
        /\ \A j \in Calls \ {k} : conn'[j] = conn[j]
        /\ conn'[k].host = conn[k].host /\ ~conn'[k].readying
        /\ \A d \in Calls : \/ call'[d] = call[d]
                            \/ call[d].conn = k /\ call'[d].pc \in {"sent", "broken"}
    BY <1>10 DEF ConnectionReady, ConnectionFails, TypeInv, TypeOK
  <2>2. call[k].pc \notin {"new", "waiting", "preparing"}
    BY <2>1 DEF Wired
  <2>3. \A h \in Hosts : cache'[h] # None => conn'[cache'[h]].host = h
    BY <2>1 DEF Wired, TypeInv, TypeOK
  <2>4. \A j \in Calls : conn'[j].readying =>
            \E d \in Calls : call'[d].pc = "readying" /\ call'[d].conn = j /\ call'[d].work = conn'[j].host
    <3>1. SUFFICES ASSUME NEW j \in Calls, conn'[j].readying
                   PROVE  \E d \in Calls : call'[d].pc = "readying" /\ call'[d].conn = j
                                           /\ call'[d].work = conn'[j].host
      OBVIOUS
    <3>2. j # k /\ conn'[j] = conn[j] /\ conn[j].readying
      BY <2>1, <3>1
    <3>3. PICK d \in Calls : call[d].pc = "readying" /\ call[d].conn = j /\ call[d].work = conn[j].host
      BY <3>2 DEF Wired
    <3> QED BY <2>1, <3>2, <3>3
  <2>5. \A d \in Calls : call'[d].pc \in {"new", "waiting", "preparing"} =>
            ~conn'[d].up /\ ~conn'[d].readying /\ \A h \in Hosts : cache'[h] # d
    BY <2>1, <2>2 DEF Wired
  <2> QED BY <2>3, <2>4, <2>5 DEF Wired
<1>11. CASE Restart
  <2>1. \A h \in Hosts : cache'[h] = None
    BY <1>11 DEF Restart
  <2>2. \A k \in Calls : ~conn'[k].up /\ ~conn'[k].readying
    BY <1>11 DEF Restart, NoConnection
  <2> QED BY <2>1, <2>2, NoneAssumption DEF Wired
<1> QED
  BY <1>1, <1>2, <1>3, <1>5, <1>6, <1>7, <1>8, <1>9, <1>10, <1>11 DEF Next, Proceed

\* A host that the step leaves alone, with no call that becomes active or prepares.
LEMMA SettledStays ==
    ASSUME NEW h \in Hosts, Settled(h), reg'[h] = reg[h], file'[h] = file[h], pin'[h] = pin[h], cache'[h] = cache[h],
           cache[h] # None => conn'[cache[h]].prof = conn[cache[h]].prof,
           \A k \in Calls : conn'[k].host = h /\ (conn'[k].up \/ conn'[k].readying) =>
               conn[k].host = h /\ (conn[k].up \/ conn[k].readying),
           \A d \in Calls : Active(d)' /\ Host(d)' = h =>
               Active(d) /\ Host(d) = h /\ call'[d].op = call[d].op,
           \A d \in Calls : call'[d].pc = "preparing" /\ call'[d].work = h =>
               call[d].pc = "preparing" /\ call'[d].prof = call[d].prof /\ call[d].work = h
    PROVE  Settled(h)'
BY DEF Settled, Pinned, Registered

\* A host without a call under way has its connection cached or none.
LEMMA Idle ==
    ASSUME TypeInv, Wired, AtHome, NEW h \in Hosts, h \notin disturbed, Settled(h),
           \A d \in Calls : Active(d) => Host(d) # h
    PROVE  \A k \in Calls : conn[k].host = h => ~conn[k].readying /\ (conn[k].up => cache[h] = k)
<1>1. \A d \in Calls : call[d].pc = "readying" => call[d].work # h
  BY DEF AtHome, Active, Working, Ended
<1> QED BY <1>1 DEF Wired, Settled

\* A call that begins finds an undisturbed host without calls, or only those of its chain.
LEMMA SettledBegins ==
    ASSUME TypeInv, QuietInv, NEW c \in Calls, Begin(c), NEW g \in Hosts, g \notin disturbed'
    PROVE  Settled(g)'
<1> USE DEF registry, chains, links, history
<1>0. ASSUME NEW op \in Ops, NEW n \in Names \cup {None}, NEW h \in Hosts,
             NEW prof \in Profile \cup {None}, NEW place \in Beginnings,
             Enter(c, op, n, h, prof, place)
      PROVE  /\ Settled(g) /\ g \notin disturbed
             /\ call'[c].op = op /\ call'[c].host = h /\ call'[c].pc = place
             /\ \A d \in Calls \ {c} : call'[d] = call[d]
             /\ g = h => \A d \in Calls : Active(d) /\ Host(d) = h => op \in LockedOps /\ Locked(d)
  <2>1. /\ call'[c].op = op /\ call'[c].host = h /\ call'[c].pc = place
        /\ \A d \in Calls \ {c} : call'[d] = call[d]
    BY <1>0, EnterTypes DEF Entered
  <2>2. disturbed \subseteq disturbed'
    BY <1>0 DEF Enter
  <2>3. g = h => \A d \in Calls : Active(d) /\ Host(d) = h => op \in LockedOps /\ Locked(d)
    BY <1>0 DEF Enter
  <2> QED BY <2>1, <2>2, <2>3 DEF QuietInv
<1>1. ASSUME NEW op \in {"open", "reconcile", "status"}, NEW n \in Names, NEW h \in Hosts,
             Enter(c, op, n, h, None, "waiting"), UNCHANGED <<registry, links>>
      PROVE  Settled(g)'
  <2>1. /\ Settled(g)
        /\ call'[c].op = op /\ call'[c].host = h /\ call'[c].pc = "waiting"
        /\ \A d \in Calls \ {c} : call'[d] = call[d]
    BY <1>0, <1>1 DEF Ops, LockedOps, Beginnings
  <2> QED BY <1>1, <2>1 DEF Settled, Pinned, Registered, Active, Host
<1>2. ASSUME NEW h \in Hosts, NEW prof \in Profile, AddHost(c, h, prof) PROVE Settled(g)'
  <2>1. Enter(c, "add", None, h, prof, "probing") /\ UNCHANGED <<registry, chains, links>> /\ ~Registered(h)
    BY <1>2 DEF AddHost, Vacant, Conflicts
  <2>2. /\ Settled(g)
        /\ call'[c].op = "add" /\ call'[c].host = h /\ call'[c].pc = "probing"
        /\ \A d \in Calls \ {c} : call'[d] = call[d]
    BY <1>0, <2>1 DEF Ops, AdminOps, Beginnings
  <2> QED BY <2>1, <2>2 DEF Settled, Pinned, Registered, Active, Host
<1>3. ASSUME NEW h \in Hosts, NEW op \in {"update", "remove"}, NEW prof \in Profile \cup {None},
             NEW place \in {"queued", "failed"},
             Enter(c, op, None, h, prof, place), Drop(h), UNCHANGED <<reg, file, pin>>
      PROVE  Settled(g)'
  <2>1. /\ Settled(g) /\ g \notin disturbed
        /\ call'[c].op = op /\ call'[c].host = h /\ call'[c].pc = place
        /\ \A d \in Calls \ {c} : call'[d] = call[d]
        /\ g = h => \A d \in Calls : Active(d) => Host(d) # h
    BY <1>0, <1>3 DEF Ops, AdminOps, LockedOps, Beginnings
  <2>2. /\ cache'[h] = None /\ \A f \in Hosts \ {h} : cache'[f] = cache[f]
        /\ \A k \in Calls : /\ conn'[k].host = conn[k].host
                            /\ conn'[k].prof = conn[k].prof
                            /\ conn'[k].readying = conn[k].readying
                            /\ conn'[k].up => conn[k].up /\ cache[h] # k
    BY <1>3 DEF Drop, Closed, TypeInv, TypeOK
  <2>3. CASE g = h
    <3>1. \A k \in Calls : conn[k].host = h => ~conn[k].readying /\ (conn[k].up => cache[h] = k)
      BY <2>1, <2>3, Idle DEF QuietInv
    <3>2. \A k \in Calls : conn'[k].host = h => ~conn'[k].up /\ ~conn'[k].readying
      BY <2>2, <3>1
    <3>3. \A d \in Calls : Active(d)' /\ Host(d)' = h => d = c
      BY <2>1, <2>3 DEF Active, Host
    <3>4. Pinned(h)' /\ file'[h] = reg'[h]
      BY <1>3, <2>1, <2>3 DEF Settled, Pinned, Registered
    <3>5. \A d \in Calls : ~(call'[d].pc = "preparing" /\ call'[d].work = h)
      <4>1. \A d \in Calls : ~(call[d].pc = "preparing" /\ call[d].work = h)
        BY <2>1, <2>3 DEF QuietInv, AtHome, Active, Working, Ended
      <4> QED BY <2>1, <4>1
    <3> QED BY <2>1, <2>2, <2>3, <3>2, <3>3, <3>4, <3>5 DEF Settled
  <2>4. CASE g # h
    <3>1. cache[g] # None => cache[g] \in Calls
      BY DEF TypeInv, TypeOK
    <3>2. \A d \in Calls : Active(d)' /\ Host(d)' = g => d # c /\ Active(d) /\ Host(d) = g /\ call'[d] = call[d]
      BY <2>1, <2>4 DEF Active, Host
    <3>3. \A d \in Calls : call'[d].pc = "preparing" => call'[d] = call[d]
      BY <2>1
    <3> QED BY <1>3, <2>1, <2>2, <2>4, <3>1, <3>2, <3>3, SettledStays
  <2> QED BY <2>3, <2>4
<1>4. ASSUME NEW n \in Names, NEW h \in Hosts, NEW root \in Roots, UpdateHost(c, n, h, root)
      PROVE  Settled(g)'
  <2>0. Registered(h)
    BY <1>4, MatchesAre DEF UpdateHost
  <2>1. reg[h] \in Profile
    BY <2>0 DEF Registered, TypeInv, TypeOK
  <2>2. [reg[h] EXCEPT !.root = root] \in Profile
    BY <2>1 DEF Profile
  <2> QED BY <1>3, <1>4, <2>2 DEF UpdateHost, DropForUpdate
<1>5. ASSUME NEW n \in Names, NEW h \in Hosts, RemoveHost(c, n, h) PROVE Settled(g)'
  <2>1. reg[h] \in Profile \cup {None}
    BY DEF TypeInv, TypeOK
  <2>2. PICK place \in {"queued", "failed"} : Enter(c, "remove", None, h, reg[h], place)
    BY <1>5 DEF RemoveHost
  <2> QED BY <1>3, <1>5, <2>1, <2>2 DEF RemoveHost
<1> QED
  BY <1>1, <1>2, <1>4, <1>5 DEF Begin, JoinChain, RuntimeStatus, LockedOps

\* A call that proceeds leaves the undisturbed hosts settled.
LEMMA SettledProceeds ==
    ASSUME TypeInv, ChainInv, QuietInv, NEW c \in Calls, Proceed(c), NEW g \in Hosts, g \notin disturbed'
    PROVE  Settled(g)'
<1> USE DEF registry, chains, links, history
<1>0. /\ Settled(g) /\ g \notin disturbed
      /\ \A d \in Calls : Active(d)' => Active(d) /\ call'[d].op = call[d].op /\ Host(d)' = Host(d)
  BY ProceedMoves DEF QuietInv, Active, Host
<1>1. ASSUME \A d \in Calls : call'[d].pc = "preparing" =>
                 /\ call[d].pc = "preparing" /\ call'[d].prof = call[d].prof
                 /\ call'[d].work = call[d].work,
             UNCHANGED <<reg, file, cache, conn>>, pin'[g] = pin[g]
      PROVE  Settled(g)'
  BY <1>0, <1>1, SettledStays
<1>2. ASSUME NEW place \in Places \ {"preparing"}, At(c, place)
      PROVE  \A d \in Calls : call'[d].pc = "preparing" =>
                 /\ call[d].pc = "preparing" /\ call'[d].prof = call[d].prof
                 /\ call'[d].work = call[d].work
  BY <1>2, MoveTypes
\* An add that is under way is alone with its host, which is not registered.
<1>3. ASSUME call[c].op = "add", Active(c), Host(c) = g, UNCHANGED <<reg, file, cache, conn>>,
             NEW place \in Places \ {"preparing"}, At(c, place)
      PROVE  Settled(g)'
  <2>1. ~Registered(g)
    BY <1>0, <1>3 DEF Settled
  <2> QED BY <1>0, <1>2, <1>3, <2>1 DEF Settled, Pinned, Registered
<1>4. CASE StageKnownHost(c)
  <2>1. PICK place \in {"staged", "failed"} : At(c, place)
    BY <1>4 DEF StageKnownHost
  <2>2. place \in Places \ {"preparing"} /\ call[c].op = "add" /\ Active(c) /\ Host(c) \in Hosts
    BY <1>4 DEF StageKnownHost, TypeInv, Shaped, Places, Ended, Active
  <2>3. CASE Host(c) = g
    BY <1>3, <1>4, <2>1, <2>2, <2>3 DEF StageKnownHost
  <2>4. CASE Host(c) # g
    <3>1. pin'[g] = pin[g]
      BY <1>4, <2>4 DEF StageKnownHost, TypeInv, TypeOK
    <3> QED BY <1>1, <1>2, <1>4, <2>1, <2>2, <3>1 DEF StageKnownHost
  <2> QED BY <2>3, <2>4
<1>5. CASE SubmitAdd(c)
  <2>1. PICK place \in {"queued", "discarding"} : At(c, place)
    BY <1>5 DEF SubmitAdd
  <2> QED BY <1>1, <1>2, <1>5, <2>1 DEF SubmitAdd, Places
<1>6. CASE DiscardStagedKnownHost(c)
  <2>1. /\ At(c, "failed") /\ "failed" \in Places \ {"preparing"}
        /\ call[c].op = "add" /\ Active(c) /\ Host(c) \in Hosts
    BY <1>6 DEF DiscardStagedKnownHost, End, TypeInv, Shaped, Places, Ended, Active
  <2>2. CASE Host(c) = g
    BY <1>3, <1>6, <2>1, <2>2 DEF DiscardStagedKnownHost
  <2>3. CASE Host(c) # g
    <3>1. pin'[g] = pin[g]
      BY <1>6, <2>3 DEF DiscardStagedKnownHost, TypeInv, TypeOK
    <3> QED BY <1>1, <1>2, <1>6, <2>1, <3>1 DEF DiscardStagedKnownHost
  <2> QED BY <2>2, <2>3
<1>7. CASE ApplyUpdate(c)
  <2>1. PICK place \in {"done", "failed", "discarding"} : At(c, place)
    BY <1>7 DEF ApplyUpdate, Failure
  <2>2. place \in Places \ {"preparing"}
    BY DEF Places, Ended
  <2>3. /\ call[c].pc = "queued" /\ Active(c) /\ Host(c) \in Hosts /\ call[c].op \in AdminOps
        /\ call[c].op # "remove" => call[c].prof \in Profile
    <3>1. \A d \in Calls \ {c} : call'[d] = call[d]
      BY <2>1, <2>2, MoveTypes
    <3>2. call[c].pc = "queued"
      BY <1>7, <3>1, QueueShrinks DEF ApplyUpdate
    <3> QED BY <3>2 DEF TypeInv, Shaped, Active, Ended, AdminOps
  <2>4. CASE Refused(c)
    BY <1>1, <1>2, <1>7, <2>1, <2>2, <2>4 DEF ApplyUpdate
  <2>5. CASE ~Refused(c) /\ Host(c) # g
    <3>1. /\ reg'[g] = reg[g] /\ pin'[g] = pin[g] /\ UNCHANGED <<cache, conn>>
          /\ file'[g] \in {file[g], reg[g]}
      BY <1>7, <2>3, <2>5 DEF ApplyUpdate, TypeInv, TypeOK
    <3>2. file'[g] = file[g]
      BY <1>0, <3>1 DEF Settled
    <3> QED BY <1>0, <1>2, <2>1, <2>2, <3>1, <3>2, SettledStays
  <2>6. CASE ~Refused(c) /\ Host(c) = g
    <3>1. /\ reg' = [reg EXCEPT ![g] = Kept(c)] /\ file' = reg'
          /\ pin' = [pin EXCEPT ![g] = IF call[c].op = "remove" THEN None ELSE call[c].prof.target]
          /\ call'[c].pc = "done" /\ UNCHANGED <<cache, conn>>
      BY <1>7, <2>6, MoveTypes DEF ApplyUpdate, Places, Ended
    <3>2. /\ reg'[g] = Kept(c)
          /\ pin'[g] = IF call[c].op = "remove" THEN None ELSE call[c].prof.target
      BY <3>1 DEF TypeInv, TypeOK
    <3>3. Pinned(g)'
      BY <2>3, <3>2 DEF Pinned, Registered, Kept
    <3>4. cache[g] = None
      BY <1>0, <2>3, <2>6 DEF Settled, AdminOps
    <3>5. \A d \in Calls : Active(d)' => Host(d)' # g
      BY <1>0, <2>3, <2>6, <3>1 DEF QuietInv, Alone, Locked, LockedOps, AdminOps, Active, Ended
    <3>6. \A d \in Calls : call'[d].pc = "preparing" => call'[d].work # g
      <4>1. ASSUME NEW d \in Calls, call[d].pc = "preparing", call[d].work = g PROVE FALSE
        <5>1. Active(d) /\ Host(d) = g
          BY <1>0, <4>1 DEF QuietInv, AtHome, Active, Working, Ended
        <5>2. d # c
          BY <2>3, <4>1
        <5> QED BY <1>0, <2>3, <2>6, <5>1, <5>2
                DEF QuietInv, Alone, Locked, LockedOps, AdminOps
      <4> QED BY <1>2, <2>1, <2>2, <4>1
    <3> QED BY <1>0, <3>1, <3>3, <3>4, <3>5, <3>6 DEF Settled
  <2> QED BY <2>4, <2>5, <2>6
<1>8. CASE FindConnection(c)
  <2>4. PICK h \in Hosts : Finds(c, h)
    BY <1>8, FoundAre
  <2>1. call[c].pc = "waiting" /\ UNCHANGED <<reg, file, pin, cache>>
        /\ Registered(h) /\ Active(c)
    BY <1>8, <2>4, MatchesAre DEF FindConnection, Finds, HasTurn, Active, Ended
  <2>2. CASE cache[h] # None
    <3>1. cache[h] \in Calls /\ Use(c, cache[h], h, conn)
      BY <2>2, <2>4 DEF Finds, TypeInv, TypeOK
    <3>2. /\ call'[c].pc \in {"sent", "readying"} /\ \A d \in Calls \ {c} : call'[d] = call[d]
          /\ conn'[cache[h]].host = conn[cache[h]].host
          /\ conn'[cache[h]].prof = conn[cache[h]].prof
          /\ \A k \in Calls \ {cache[h]} : conn'[k] = conn[k]
      BY <3>1 DEF Use, TypeInv, TypeOK
    <3>3. conn[cache[h]].host = h
      BY <2>1, <2>2 DEF QuietInv, Wired
    <3>4. \A k \in Calls : conn'[k].host = g /\ (conn'[k].up \/ conn'[k].readying) => cache[g] = k
      BY <1>0, <3>2, <3>3 DEF Settled
    <3>5. cache[g] # None => cache[g] \in Calls
      BY DEF TypeInv, TypeOK
    <3>6. cache'[g] # None => Registered(g)' /\ conn'[cache[g]].prof = reg'[g]
      BY <1>0, <2>1, <3>2, <3>5 DEF Settled, Registered
    <3>7. Pinned(g)'
      BY <1>0, <2>1 DEF Settled, Pinned, Registered
    <3> QED BY <1>0, <2>1, <3>2, <3>4, <3>6, <3>7 DEF Settled, Registered
  <2>3. CASE cache[h] = None
    <3>1. call' = [call EXCEPT ![c].pc = "preparing", ![c].prof = reg[h], ![c].work = h]
          /\ UNCHANGED conn
      BY <2>3, <2>4 DEF Finds
    <3>2. /\ call'[c].prof = reg[h] /\ call'[c].work = h
          /\ call'[c].op = call[c].op
          /\ \A d \in Calls \ {c} : call'[d] = call[d]
      BY <3>1 DEF TypeInv, TypeOK
    <3>3. \A d \in Calls : Active(d)' /\ Host(d)' = g =>
              /\ call'[d].op = "add" => ~Registered(g)
              /\ call'[d].op \in {"update", "remove"} => cache[g] = None
      BY <1>0 DEF Settled
    <3>4. \A d \in Calls : call'[d].pc = "preparing" /\ call'[d].work = g =>
              Registered(g) /\ call'[d].prof = reg[g] /\ cache[g] = None
      BY <1>0, <2>1, <2>3, <3>2 DEF Settled
    <3>5. Pinned(g)' /\ (Registered(g)' <=> Registered(g))
      BY <1>0, <2>1 DEF Settled, Pinned, Registered
    <3> QED BY <1>0, <2>1, <3>1, <3>3, <3>4, <3>5 DEF Settled
  <2> QED BY <2>2, <2>3
<1>9. CASE MakeConnection(c)
  <2>1. PICK made : made = [conn EXCEPT ![c] = [host |-> call[c].work, prof |-> call[c].prof,
                                                readying |-> FALSE, up |-> FALSE]]
    OBVIOUS
  <2>2. /\ call[c].work \in Hosts /\ call[c].pc = "preparing" /\ Active(c)
        /\ cache' = [cache EXCEPT ![call[c].work] = c] /\ UNCHANGED <<reg, file, pin>>
        /\ Use(c, c, call[c].work, made) \/ (conn' = made /\ End(c, "failed"))
    BY <1>9, <2>1 DEF MakeConnection, TypeInv, Shaped, Active, Working, Ended
  <2>3. /\ conn'[c].host = call[c].work /\ conn'[c].prof = call[c].prof
        /\ \A k \in Calls \ {c} : conn'[k] = conn[k]
    BY <2>1, <2>2 DEF Use, TypeInv, TypeOK
  <2>4. call'[c].pc # "preparing" /\ \A d \in Calls \ {c} : call'[d] = call[d]
    <3>1. CASE Use(c, c, call[c].work, made)
      BY <3>1 DEF Use, TypeInv, TypeOK
    <3>2. CASE End(c, "failed")
      BY <3>2, MoveTypes DEF End, Places, Ended
    <3> QED BY <2>2, <3>1, <3>2
  <2>5. CASE call[c].work # g
    <3>1. cache'[g] = cache[g] /\ cache[g] # c
      BY <2>2, <2>5 DEF TypeInv, TypeOK, QuietInv, Wired
    <3>2. cache[g] # None => conn'[cache[g]].prof = conn[cache[g]].prof
      BY <2>3, <3>1 DEF TypeInv, TypeOK
    <3> QED BY <1>0, <2>2, <2>3, <2>4, <2>5, <3>1, <3>2, SettledStays
  <2>6. CASE call[c].work = g
    <3>0. Host(c) = g
      BY <1>0, <2>2, <2>6 DEF QuietInv, AtHome, Working
    <3>1. Registered(g) /\ call[c].prof = reg[g] /\ cache[g] = None
      BY <1>0, <2>2, <2>6 DEF Settled
    <3>2. cache'[g] = c
      BY <2>2, <2>6 DEF TypeInv, TypeOK
    <3>3. \A k \in Calls \ {c} : conn'[k].host = g => ~conn'[k].up /\ ~conn'[k].readying
      BY <1>0, <2>3, <3>1, NoneAssumption DEF Settled
    \* Another call at work for the host would be one of its chain, whose turn is c's.
    <3>4. \A d \in Calls : Active(d) /\ Host(d) = g /\ d # c => Locked(c) /\ Locked(d)
      BY <1>0, <2>2, <3>0 DEF QuietInv, Alone
    <3>5. \A d \in Calls : Active(d)' /\ Host(d)' = g =>
              /\ call'[d].op \notin {"add", "update", "remove"}
              /\ call'[d].pc # "preparing"
      <4>1. SUFFICES ASSUME NEW d \in Calls, Active(d)', Host(d)' = g
                     PROVE  call'[d].op \notin {"add", "update", "remove"} /\ call'[d].pc # "preparing"
        OBVIOUS
      <4>2. CASE d = c
        <5>1. call[c].op \in LockedOps \cup {"status"}
          BY <2>2 DEF TypeInv, Shaped, Working
        <5>2. call'[c].op \in {call[c].op, "status"}
          <6>1. CASE Use(c, c, call[c].work, made)
            BY <6>1 DEF Use, TypeInv, TypeOK
          <6>2. CASE End(c, "failed")
            BY <6>2, MoveTypes DEF End, Places, Ended, Moved
          <6> QED BY <2>2, <6>1, <6>2
        <5> QED BY <2>4, <4>2, <5>1, <5>2 DEF LockedOps
      <4>3. CASE d # c
        <5>1. Locked(c) /\ Locked(d) /\ Host(d) = g /\ Active(d)
          BY <1>0, <3>4, <4>1, <4>3
        <5>2. ~(call[d].pc = "preparing")
          <6>1. SUFFICES ASSUME call[d].pc = "preparing" PROVE FALSE
            OBVIOUS
          <6>2. c \in Chained(g) /\ d \in Chained(g) /\ Turn(c) /\ Turn(d)
            BY <2>2, <3>0, <5>1, <6>1 DEF Chained, ChainInv, OneTurn, Working
          <6> QED BY <4>3, <6>2 DEF ChainInv, OneTurn
        <5> QED BY <2>4, <4>3, <5>1, <5>2 DEF Locked, LockedOps
      <4> QED BY <4>2, <4>3
    <3>6. Pinned(g)' /\ Registered(g)' /\ file'[g] = reg'[g] /\ conn'[c].prof = reg'[g]
      BY <1>0, <2>2, <2>3, <3>1 DEF Settled, Pinned, Registered
    <3>7. \A d \in Calls : call'[d].pc = "preparing" => call'[d].work # g
      <4>1. SUFFICES ASSUME NEW d \in Calls, call'[d].pc = "preparing", call'[d].work = g
                     PROVE  FALSE
        OBVIOUS
      <4>2. d # c /\ call'[d] = call[d]
        BY <2>4, <4>1
      <4>3. Host(d) = g
        BY <1>0, <4>1, <4>2 DEF QuietInv, AtHome, Working
      <4> QED BY <3>5, <4>1, <4>2, <4>3 DEF Active, Host, Ended
    <3> QED BY <3>2, <3>3, <3>5, <3>6, <3>7 DEF Settled
  <2> QED BY <2>5, <2>6
<1>10. CASE ConnectionReady(c) \/ ConnectionFails(c)
  <2>1. /\ conn[c].readying /\ UNCHANGED <<reg, file, pin, cache>>
        /\ \A j \in Calls \ {c} : conn'[j] = conn[j]
        /\ conn'[c].host = conn[c].host /\ conn'[c].prof = conn[c].prof
        /\ \A d \in Calls : call'[d] = call[d] \/ call'[d].pc \in {"sent", "broken"}
    BY <1>10 DEF ConnectionReady, ConnectionFails, TypeInv, TypeOK
  <2>2. cache[g] # None => conn'[cache[g]].prof = conn[cache[g]].prof
    BY <2>1 DEF TypeInv, TypeOK
  <2> QED BY <1>0, <2>1, <2>2, SettledStays
<1>11. CASE Answer(c)
  <2>1. PICK result \in Ended : End(c, result)
    BY <1>11 DEF Answer, Ended
  <2> QED BY <1>1, <1>2, <1>11, <2>1 DEF Answer, End, Places, Ended
<1>12. CASE Fail(c)
  BY <1>1, <1>2, <1>12 DEF Fail, End, Places, Ended
<1> QED
  BY <1>4, <1>5, <1>6, <1>7, <1>8, <1>9, <1>10, <1>11, <1>12 DEF Proceed

LEMMA QuietInvStep == TypeInv /\ ChainInv /\ QuietInv /\ [Next]_vars => QuietInv'
<1> SUFFICES ASSUME TypeInv, ChainInv, QuietInv, [Next]_vars PROVE QuietInv'
  OBVIOUS
<1>1. Wired' /\ Alone' /\ AtHome'
  BY WiredStep, AloneStep, AtHomeStep DEF QuietInv
<1>2. ASSUME NEW g \in Hosts, g \notin disturbed' PROVE Settled(g)'
  <2>1. CASE UNCHANGED vars
    BY <1>2, <2>1 DEF vars, registry, chains, links, history, QuietInv, Settled, Pinned, Registered,
                      Active, Host
  <2>2. CASE Dispose
    <3>1. /\ Settled(g) /\ UNCHANGED <<reg, file, pin, call>> /\ cache'[g] = None
          /\ \A d \in Calls : Active(d) => Host(d) # g
          /\ g \notin disturbed
      BY <1>2, <2>2 DEF Dispose, registry, QuietInv
    <3>2. \A k \in Calls : conn[k].host = g => ~conn[k].readying /\ (conn[k].up => cache[g] = k)
      BY <3>1, Idle DEF QuietInv
    <3>3. \A k \in Calls : conn'[k].host = g => ~conn'[k].readying /\ ~conn'[k].up
      BY <2>2, <3>2 DEF Dispose, TypeInv, TypeOK
    <3> QED BY <3>1, <3>3 DEF Settled, Pinned, Registered, Active, Host
  <2>3. ASSUME NEW c \in Calls, Begin(c) PROVE Settled(g)'
    BY <1>2, <2>3, SettledBegins
  <2>4. ASSUME NEW c \in Calls, Proceed(c) PROVE Settled(g)'
    BY <1>2, <2>4, SettledProceeds
  <2>5. CASE Restart
    <3>1. Settled(g) /\ reg' = file /\ UNCHANGED <<file, pin>> /\ cache'[g] = None
      BY <1>2, <2>5 DEF Restart, QuietInv
    <3>2. \A k \in Calls : ~conn'[k].up /\ ~conn'[k].readying
      BY <2>5 DEF Restart, NoConnection
    <3>3. \A d \in Calls : ~Active(d)' /\ call'[d].pc # "preparing"
      <4>1. Over("failed").pc = "failed"
        BY OverTypes DEF Ended
      <4> QED BY <2>5, <4>1 DEF Restart, Active, Ended
    <3> QED BY <3>1, <3>2, <3>3 DEF Settled, Pinned, Registered
  <2> QED BY <2>1, <2>2, <2>3, <2>4, <2>5 DEF Next
<1> QED BY <1>1, <1>2 DEF QuietInv

LEMMA Quiet == Spec => [](TypeInv /\ ChainInv /\ QuietInv)
BY TypeInvInit, ChainInvInit, QuietInvInit, TypeInvStep, ChainInvStep, QuietInvStep, PTL DEF Spec

\* A registered host whose calls do not overlap keeps the known_hosts file with its key
\* (lib/remote-project-controller.mjs: addHost, removeHost).
THEOREM Pins == Spec => []PinnedUnlessDisturbed
<1>1. QuietInv => PinnedUnlessDisturbed
  BY DEF QuietInv, Settled, PinnedUnlessDisturbed
<1> QED BY Quiet, <1>1, PTL

\* And it is only reached under the profile it is registered with, over the one
\* connection that is cached (lib/remote-project-controller.mjs: #connection).
THEOREM Connections == Spec => []ConnectionsFollowRegistry
<1>1. QuietInv => ConnectionsFollowRegistry
  BY DEF QuietInv, Settled, ConnectionsFollowRegistry
<1> QED BY Quiet, <1>1, PTL

\* Both together: nothing another call did comes between a registration, its key and its
\* connection (lib/remote-project-controller.mjs:176-200).
THEOREM Undisturbed == Spec => []UndisturbedHostsAgree
BY Pins, Connections, PTL DEF UndisturbedHostsAgree

-----------------------------------------------------------------------------
(* Who waits is awaited: the updates, the connections and the turns.          *)

\* An update under way has its place in the queue.
Enqueued == \A c \in Calls : call[c].pc = "queued" => \E i \in 1 .. Len(queue) : queue[i] = c

\* Who awaits a connection awaits one that is being prepared.
Readied ==
    /\ \A c \in Calls : call[c].pc = "readying" => call[c].conn \in Calls /\ conn[call[c].conn].readying
    /\ \A k \in Calls : ~(conn[k].up /\ conn[k].readying)

Attended == Enqueued /\ Readied

LEMMA AttendedInit == Init => Attended
BY DEF Init, Attended, Enqueued, Readied, NoConnection, NoCall

\* Nobody enters the queue, and it keeps those that stay.
LEMMA EnqueuedStays ==
    ASSUME Enqueued, UNCHANGED queue, \A d \in Calls : call'[d].pc = "queued" => call[d].pc = "queued"
    PROVE  Enqueued'
BY DEF Enqueued

LEMMA EnqueuedGrows ==
    ASSUME TypeInv, Enqueued, NEW c \in Calls, queue' = Append(queue, c),
           \A d \in Calls \ {c} : call'[d].pc = "queued" => call[d].pc = "queued"
    PROVE  Enqueued'
<1>1. /\ Len(queue') = Len(queue) + 1 /\ Len(queue) \in Nat
      /\ \A i \in 1 .. Len(queue) : queue'[i] = queue[i]
      /\ queue'[Len(queue) + 1] = c
  BY DEF TypeInv, TypeOK
<1> QED BY <1>1 DEF Enqueued

\* The head leaves the queue, and its call moves on.
LEMMA EnqueuedShrinks ==
    ASSUME TypeInv, Enqueued, queue # <<>>, queue' = Tail(queue), call'[Head(queue)].pc # "queued",
           \A d \in Calls \ {Head(queue)} : call'[d].pc = "queued" => call[d].pc = "queued"
    PROVE  Enqueued'
<1>1. /\ Len(queue) \in Nat \ {0} /\ Len(queue') = Len(queue) - 1 /\ Head(queue) = queue[1]
      /\ \A i \in 1 .. Len(queue') : queue'[i] = queue[i + 1]
  BY DEF TypeInv, TypeOK
<1>2. ASSUME NEW d \in Calls, call'[d].pc = "queued"
      PROVE  \E i \in 1 .. Len(queue') : queue'[i] = d
  <2>1. d # Head(queue) /\ call[d].pc = "queued"
    BY <1>2
  <2>2. PICK i \in 1 .. Len(queue) : queue[i] = d
    BY <2>1 DEF Enqueued
  <2>3. i # 1 /\ i - 1 \in 1 .. Len(queue') /\ (i - 1) + 1 = i
    BY <1>1, <2>1, <2>2
  <2> QED BY <1>1, <2>2, <2>3
<1> QED BY <1>2 DEF Enqueued

\* Preparations stay under way, and nobody begins to await one.
LEMMA ReadiedStays ==
    ASSUME TypeInv, Readied,
           \A k \in Calls : conn'[k].readying = conn[k].readying /\ (conn'[k].up => conn[k].up),
           \A d \in Calls : call'[d].pc = "readying" => call'[d] = call[d]
    PROVE  Readied'
BY DEF Readied

\* A connection is used that is up, is being prepared or is prepared from now on.
LEMMA ReadiedUsed ==
    ASSUME TypeInv, NEW c \in Calls, NEW k \in Calls, NEW h, NEW cs \in [Calls -> ConnRecord],
           \A d \in Calls : call[d].pc = "readying" =>
               call[d].conn \in Calls /\ cs[call[d].conn].readying,
           \A d \in Calls : ~(cs[d].up /\ cs[d].readying),
           Use(c, k, h, cs)
    PROVE  Readied' /\ \A d \in Calls : call'[d].pc = "queued" => call[d].pc = "queued"
<1>1. /\ call'[c].pc = IF cs[k].up THEN "sent" ELSE "readying"
      /\ call'[c].conn = k
      /\ \A d \in Calls \ {c} : call'[d] = call[d]
  BY DEF Use, TypeInv, TypeOK
<1>2. /\ conn'[k].readying = ~cs[k].up /\ conn'[k].up = cs[k].up
      /\ \A d \in Calls \ {k} : conn'[d] = cs[d]
  BY DEF Use, ConnRecord
<1>3. cs[k].readying => ~cs[k].up
  OBVIOUS
<1>4. ASSUME NEW d \in Calls, call'[d].pc = "readying"
      PROVE  call'[d].conn \in Calls /\ conn'[call'[d].conn].readying
  <2>1. CASE d = c
    BY <1>1, <1>2, <1>4, <2>1
  <2>2. CASE d # c
    <3>1. call[d].conn \in Calls /\ cs[call[d].conn].readying /\ call'[d].conn = call[d].conn
      BY <1>1, <1>4, <2>2
    <3>2. CASE call[d].conn = k
      <4>1. conn'[k].readying = ~cs[k].up /\ ~cs[k].up
        BY <1>2, <1>3, <3>1, <3>2
      <4> QED BY <3>1, <3>2, <4>1
    <3>3. CASE call[d].conn # k
      BY <1>2, <3>1, <3>3
    <3> QED BY <3>2, <3>3
  <2> QED BY <2>1, <2>2
<1>5. ASSUME NEW d \in Calls PROVE ~(conn'[d].up /\ conn'[d].readying)
  BY <1>2
<1>6. \A d \in Calls : call'[d].pc = "queued" => call[d].pc = "queued"
  BY <1>1
<1> QED BY <1>4, <1>5, <1>6 DEF Readied

LEMMA AttendedStep == TypeInv /\ Wired /\ Attended /\ [Next]_vars => Attended'
<1> SUFFICES ASSUME TypeInv, Wired, Attended, [Next]_vars PROVE Attended'
  OBVIOUS
<1> USE DEF registry, chains, links, history
<1>a. Enqueued /\ Readied
  BY DEF Attended
<1>b. {"probing", "queued", "waiting", "failed"} \subseteq Beginnings
  BY DEF Beginnings
<1>e. ASSUME NEW c \in Calls, NEW op \in Ops, NEW n \in Names \cup {None}, NEW h \in Hosts,
             NEW prof \in Profile \cup {None}, NEW place \in Beginnings,
             Enter(c, op, n, h, prof, place)
      PROVE  /\ call'[c].pc = place
             /\ \A d \in Calls \ {c} : call'[d] = call[d]
             /\ \A d \in Calls : call'[d].pc = "readying" => call'[d] = call[d]
  <2>1. call'[c].pc = place /\ \A d \in Calls \ {c} : call'[d] = call[d]
    BY <1>e, EnterTypes DEF Entered
  <2>2. place # "readying"
    BY DEF Beginnings
  <2> QED BY <2>1, <2>2
<1>m. ASSUME NEW c \in Calls, NEW place \in Places, At(c, place)
      PROVE  call'[c].pc = place /\ \A d \in Calls \ {c} : call'[d] = call[d]
  BY <1>m, MoveTypes
<1>c. ASSUME NEW h \in Hosts, Drop(h)
      PROVE  \A k \in Calls : conn'[k].readying = conn[k].readying /\ (conn'[k].up => conn[k].up)
  BY <1>c DEF Drop, Closed, TypeInv, TypeOK
<1>1. CASE UNCHANGED vars
  BY <1>1, <1>a DEF vars, Attended, Enqueued, Readied
<1>2. ASSUME NEW c \in Calls, NEW h \in Hosts, NEW prof \in Profile, AddHost(c, h, prof)
      PROVE  Attended'
  <2>1. Enter(c, "add", None, h, prof, "probing") /\ UNCHANGED <<registry, chains, links>> /\ "add" \in Ops
    BY <1>2 DEF AddHost, Ops, AdminOps
  <2>2. Enqueued'
    BY <1>a, <1>b, <1>e, <2>1, EnqueuedStays
  <2>3. Readied'
    BY <1>a, <1>b, <1>e, <2>1, ReadiedStays
  <2> QED BY <2>2, <2>3 DEF Attended
<1>3. ASSUME NEW c \in Calls, NEW n \in Names, NEW h \in Hosts, NEW root \in Roots,
             UpdateHost(c, n, h, root)
      PROVE  Attended'
  <2>1. /\ Enter(c, "update", None, h, [reg[h] EXCEPT !.root = root], "queued")
        /\ Drop(h) /\ queue' = Append(queue, c) /\ "update" \in Ops
    BY <1>3 DEF UpdateHost, DropForUpdate, Ops, AdminOps
  <2>2. [reg[h] EXCEPT !.root = root] \in Profile
    <3>0. Registered(h)
      BY <1>3, MatchesAre DEF UpdateHost
    <3>1. reg[h] \in Profile
      BY <3>0 DEF Registered, TypeInv, TypeOK
    <3> QED BY <3>1 DEF Profile
  <2>3. Enqueued'
    BY <1>a, <1>b, <1>e, <2>1, <2>2, EnqueuedGrows
  <2>4. Readied'
    BY <1>a, <1>b, <1>c, <1>e, <2>1, <2>2, ReadiedStays
  <2> QED BY <2>3, <2>4 DEF Attended
<1>4. ASSUME NEW c \in Calls, NEW n \in Names, NEW h \in Hosts, RemoveHost(c, n, h) PROVE Attended'
  <2>1. PICK place \in {"queued", "failed"} :
            /\ Enter(c, "remove", None, h, reg[h], place)
            /\ queue' = IF place = "queued" THEN Append(queue, c) ELSE queue
    BY <1>4 DEF RemoveHost
  <2>2. Drop(h) /\ "remove" \in Ops /\ reg[h] \in Profile \cup {None}
    BY <1>4 DEF RemoveHost, Ops, AdminOps, TypeInv, TypeOK
  <2>3. /\ call'[c].pc = place /\ \A d \in Calls \ {c} : call'[d] = call[d]
        /\ \A d \in Calls : call'[d].pc = "readying" => call'[d] = call[d]
    <3>1. place \in Beginnings /\ Enter(c, "remove", None, h, reg[h], place)
      BY <1>b, <2>1
    <3> QED BY <1>e, <2>2, <3>1
  <2>4. Enqueued'
    <3>1. CASE place = "queued"
      BY <1>a, <2>1, <2>3, <3>1, EnqueuedGrows
    <3>2. CASE place = "failed"
      BY <1>a, <2>1, <2>3, <3>2, EnqueuedStays
    <3> QED BY <3>1, <3>2
  <2>5. Readied'
    BY <1>a, <1>c, <2>2, <2>3, ReadiedStays
  <2> QED BY <2>4, <2>5 DEF Attended
<1>5. ASSUME NEW c \in Calls, NEW n \in Names, NEW h \in Hosts,
             (\E op \in LockedOps : JoinChain(c, op, n, h)) \/ RuntimeStatus(c, n, h)
      PROVE  Attended'
  <2>1. PICK op \in Ops : Enter(c, op, n, h, None, "waiting")
    BY <1>5 DEF JoinChain, RuntimeStatus, Ops
  <2>2. UNCHANGED <<queue, conn>>
    BY <1>5 DEF JoinChain, RuntimeStatus
  <2>3. Enqueued'
    BY <1>a, <1>b, <1>e, <2>1, <2>2, EnqueuedStays
  <2>4. Readied'
    BY <1>a, <1>b, <1>e, <2>1, <2>2, ReadiedStays
  <2> QED BY <2>3, <2>4 DEF Attended
<1>6. ASSUME NEW c \in Calls, NEW place \in Places \ {"queued", "readying"}, At(c, place),
             UNCHANGED <<queue, conn>>
      PROVE  Attended'
  <2>1. Enqueued'
    BY <1>6, <1>a, <1>m, EnqueuedStays
  <2>2. Readied'
    BY <1>6, <1>a, <1>m, ReadiedStays
  <2> QED BY <2>1, <2>2 DEF Attended
<1>7. ASSUME NEW c \in Calls, SubmitAdd(c) PROVE Attended'
  <2>1. CASE At(c, "queued") /\ queue' = Append(queue, c)
    <3>1. Enqueued'
      BY <1>a, <1>m, <2>1, EnqueuedGrows DEF Places
    <3>2. UNCHANGED conn
      BY <1>7 DEF SubmitAdd
    <3>3. Readied'
      BY <1>a, <1>m, <2>1, <3>2, ReadiedStays DEF Places
    <3> QED BY <3>1, <3>3 DEF Attended
  <2>2. CASE At(c, "discarding") /\ UNCHANGED queue
    BY <1>6, <1>7, <2>2 DEF SubmitAdd, Places
  <2> QED BY <1>7, <2>1, <2>2 DEF SubmitAdd
<1>8. ASSUME NEW c \in Calls,
             StageKnownHost(c) \/ DiscardStagedKnownHost(c) \/ Answer(c) \/ Fail(c)
      PROVE  Attended'
  <2>1. PICK place \in Places \ {"queued", "readying"} : At(c, place)
    BY <1>8 DEF StageKnownHost, DiscardStagedKnownHost, Answer, Fail, End, Places, Ended
  <2>2. UNCHANGED <<queue, conn>>
    BY <1>8 DEF StageKnownHost, DiscardStagedKnownHost, Answer, Fail
  <2> QED BY <1>6, <2>1, <2>2
<1>9. ASSUME NEW c \in Calls, ApplyUpdate(c) PROVE Attended'
  <2>1. PICK place \in {"done", "discarding", "failed"} : At(c, place)
    BY <1>9 DEF ApplyUpdate, Failure
  <2>2. /\ queue # <<>> /\ c = Head(queue) /\ queue' = Tail(queue) /\ UNCHANGED conn
    BY <1>9 DEF ApplyUpdate
  <2>3. call'[c].pc = place /\ \A d \in Calls \ {c} : call'[d] = call[d]
    BY <1>m, <2>1 DEF Places, Ended
  <2>4. Enqueued'
    BY <1>a, <2>2, <2>3, EnqueuedShrinks
  <2>5. Readied'
    BY <1>a, <2>2, <2>3, ReadiedStays
  <2> QED BY <2>4, <2>5 DEF Attended
<1>10. ASSUME NEW c \in Calls, FindConnection(c) PROVE Attended'
  <2>1. UNCHANGED queue
    BY <1>10 DEF FindConnection
  <2>4. PICK h \in Hosts : Finds(c, h)
    BY <1>10, FoundAre
  <2>2. CASE cache[h] # None
    <3>1. Use(c, cache[h], h, conn) /\ cache[h] \in Calls
      BY <2>2, <2>4 DEF Finds, TypeInv, TypeOK
    <3>2. conn \in [Calls -> ConnRecord]
      BY DEF TypeInv, TypeOK, ConnRecord
    <3>3. Readied' /\ \A d \in Calls : call'[d].pc = "queued" => call[d].pc = "queued"
      BY <1>a, <3>1, <3>2, ReadiedUsed DEF Readied
    <3> QED BY <1>a, <2>1, <3>3, EnqueuedStays DEF Attended
  <2>3. CASE cache[h] = None
    <3>1. /\ call' = [call EXCEPT ![c].pc = "preparing", ![c].prof = reg[h], ![c].work = h]
          /\ UNCHANGED conn
      BY <2>3, <2>4 DEF Finds
    <3>2. call'[c].pc = "preparing" /\ \A d \in Calls \ {c} : call'[d] = call[d]
      BY <3>1 DEF TypeInv, TypeOK
    <3> QED BY <1>a, <2>1, <3>1, <3>2, EnqueuedStays, ReadiedStays DEF Attended
  <2> QED BY <2>2, <2>3
<1>11. ASSUME NEW c \in Calls, MakeConnection(c) PROVE Attended'
  <2> DEFINE made == [conn EXCEPT ![c] = [host |-> call[c].work, prof |-> call[c].prof,
                                          readying |-> FALSE, up |-> FALSE]]
  <2>1. call[c].pc = "preparing" /\ UNCHANGED queue
    BY <1>11 DEF MakeConnection
  <2>2. /\ made \in [Calls -> ConnRecord] /\ \A k \in Calls \ {c} : made[k] = conn[k]
        /\ ~made[c].readying /\ ~made[c].up
    <3>1. call[c].work \in Hosts /\ call[c].prof \in Profile
      BY <2>1 DEF TypeInv, Shaped, Working
    <3> QED BY <3>1 DEF TypeInv, TypeOK, ConnRecord
  <2>3. ~conn[c].readying /\ ~conn[c].up
    BY <2>1 DEF Wired
  <2>4. CASE Use(c, c, call[c].work, made)
    <3>1. Readied' /\ \A d \in Calls : call'[d].pc = "queued" => call[d].pc = "queued"
      <4>1. \A d \in Calls : call[d].pc = "readying" =>
                call[d].conn \in Calls /\ made[call[d].conn].readying
        BY <1>a, <2>2, <2>3 DEF Readied
      <4>2. \A d \in Calls : ~(made[d].up /\ made[d].readying)
        BY <1>a, <2>2 DEF Readied
      <4> HIDE DEF made
      <4> QED BY <2>2, <2>4, <4>1, <4>2, ReadiedUsed
    <3> QED BY <1>a, <2>1, <3>1, EnqueuedStays DEF Attended
  <2>5. CASE conn' = made /\ End(c, "failed")
    <3>1. call'[c].pc = "failed" /\ \A d \in Calls \ {c} : call'[d] = call[d]
      BY <1>m, <2>5 DEF End, Places, Ended
    <3>2. \A k \in Calls : conn'[k].readying = conn[k].readying /\ (conn'[k].up => conn[k].up)
      <4>1. \A k \in Calls : conn[k].readying \in BOOLEAN
        BY DEF TypeInv, TypeOK
      <4> QED BY <2>2, <2>3, <2>5, <4>1
    <3> QED BY <1>a, <2>1, <3>1, <3>2, EnqueuedStays, ReadiedStays DEF Attended
  <2> QED BY <1>11, <2>4, <2>5 DEF MakeConnection
<1>12. ASSUME NEW k \in Calls, ConnectionReady(k) \/ ConnectionFails(k) PROVE Attended'
  <2>1. /\ UNCHANGED queue
        /\ ~conn'[k].readying /\ \A j \in Calls \ {k} : conn'[j] = conn[j]
    BY <1>12 DEF ConnectionReady, ConnectionFails, TypeInv, TypeOK
  <2>2. \A d \in Calls : IF call[d].pc = "readying" /\ call[d].conn = k
                         THEN call'[d].pc \in {"sent", "broken"} ELSE call'[d] = call[d]
    BY <1>12 DEF ConnectionReady, ConnectionFails, TypeInv, TypeOK
  <2>3. Readied'
    BY <1>a, <2>1, <2>2 DEF Readied
  <2>4. Enqueued'
    BY <1>a, <2>1, <2>2, EnqueuedStays
  <2> QED BY <2>3, <2>4 DEF Attended
<1>13. CASE Dispose
  <2>1. UNCHANGED <<queue, call>>
        /\ \A k \in Calls : conn'[k].readying = conn[k].readying /\ (conn'[k].up => conn[k].up)
    BY <1>13 DEF Dispose, TypeInv, TypeOK
  <2> QED BY <1>a, <2>1, EnqueuedStays, ReadiedStays DEF Attended
<1>14. CASE Restart
  <2>1. \A d \in Calls : call'[d].pc \in Ended \cup {"new"}
    BY <1>14, OverTypes DEF Restart, Active, Ended, TypeInv, TypeOK
  <2>2. \A k \in Calls : ~conn'[k].up
    BY <1>14 DEF Restart, NoConnection
  <2> QED BY <2>1, <2>2 DEF Attended, Enqueued, Readied, Ended
<1> QED
  BY <1>1, <1>2, <1>3, <1>4, <1>5, <1>7, <1>8, <1>9, <1>10, <1>11, <1>12, <1>13, <1>14
  DEF Next, Begin, Proceed

\* Who is under way and not in a chain's queue, or has its turn, waits for somebody
\* that can go on, or for nobody.
LEMMA OutsideTheChains ==
    ASSUME TypeInv, Attended, NEW c \in Calls, Active(c), call[c].pc = "waiting" => HasTurn(c)
    PROVE  \E d \in Calls : CanProceed(d)
<1>1. CASE call[c].pc = "queued"
  <2>1. PICK i \in 1 .. Len(queue) : queue[i] = c
    BY <1>1 DEF Attended, Enqueued
  <2>2. queue # <<>> /\ Head(queue) \in Calls
    BY <2>1 DEF TypeInv, TypeOK
  <2> QED BY <2>2 DEF CanProceed
<1>2. CASE call[c].pc = "readying"
  BY <1>2 DEF Attended, Readied, CanProceed
<1>3. CASE call[c].pc \notin {"queued", "readying"}
  <2>1. call[c].pc \in Places
    BY DEF TypeInv, TypeOK
  <2> QED BY <1>3, <2>1 DEF CanProceed, Places, Working, Active
<1> QED BY <1>1, <1>2, <1>3

\* While any call has not ended, one has all it awaits: whoever waits for its turn waits,
\* in the end, for one of its chain that has it, and nobody awaits an update or a
\* connection that is not on its way (lib/remote-project-controller.mjs: #withHostLock,
\* lib/host-registry.mjs: #update).
THEOREM NoCircularWait == Spec => []SomeoneCanProceed
<1>1. TypeInv /\ ChainInv /\ Attended => SomeoneCanProceed
  <2> SUFFICES ASSUME TypeInv, ChainInv, Attended, NEW c \in Calls, Active(c)
               PROVE  \E d \in Calls : CanProceed(d)
    BY DEF SomeoneCanProceed
  <2>1. CASE call[c].pc = "waiting" => HasTurn(c)
    BY <2>1, OutsideTheChains
  <2>2. CASE call[c].pc = "waiting" /\ ~HasTurn(c)
    <3> DEFINE h == Host(c)
               S == {d \in Chained(h) : call[d].pc = "waiting" /\ ~HasTurn(d)}
    <3>1. h \in Hosts /\ c \in S /\ S \in SUBSET Chained(h)
      <4>1. after[c] # None
        BY <2>2 DEF HasTurn
      <4> QED BY <2>2, <4>1 DEF ChainInv, Linked, TypeInv, Shaped, Chained, Active
    <3>2. PICK d \in S : after[d] \notin S
      BY <3>1 DEF ChainInv, Grounded
    <3>3. /\ d \in Calls /\ after[d] \in Calls /\ Active(after[d])
          /\ Locked(after[d]) /\ Host(after[d]) = h
      BY <3>2 DEF HasTurn, Chained, ChainInv, Linked, TypeInv, TypeOK, Active
    <3>4. after[d] \in Chained(h)
      BY <3>3 DEF Chained
    <3>5. call[after[d]].pc = "waiting" => HasTurn(after[d])
      BY <3>2, <3>4
    <3> QED BY <3>3, <3>4, <3>5, OutsideTheChains
  <2> QED BY <2>1, <2>2
<1>2. QuietInv => Wired
  BY DEF QuietInv
<1>3. Spec => []Attended
  BY AttendedInit, AttendedStep, Quiet, <1>2, PTL DEF Spec
<1> QED BY Quiet, <1>1, <1>3, PTL

-----------------------------------------------------------------------------
(* The lock file: the inductive invariant of ownership. *)

\* Two processes that take the lock at the same time know of each other.
CrossersKnow ==
    \A p, q \in Procs :
        p # q /\ pc[p] \in Taking /\ pc[q] \in Taking => q \in crossed[p]

CreatorsCreated == lock # NoLock => pc[lock.by] \notin Waiting \cup {"new"}

Owns(p) == lock # NoLock /\ lock.by = p

HoldersHold ==
    \A p \in Procs :
        /\ pc[p] \in Holding => Robbed(p) \/ Owns(p)
        /\ pc[p] \in {"load", "own"} /\ Owns(p) => lock.stamped

\* A process about to remove the lock of a holder has an excuse.
HoldersAreSpared ==
    \A p, q \in Procs :
        pc[p] \in {"probe", "unlink"} /\ pc[q] \in Holding /\ Owns(q)
        => q \in crossed[p] \/ p \in failed \/ (pc[p] = "probe" /\ q \in seen[p])

CopyIsFile ==
    robberies = {} /\ ~overrun
    => acked \subseteq disk /\ \A p \in Procs : pc[p] = "own" => mem[p] = disk

LockInv ==
    /\ LockTypeOK /\ CrossersKnow /\ CreatorsCreated /\ HoldersHold
    /\ HoldersAreSpared /\ RobbersCrossed /\ CopyIsFile

-----------------------------------------------------------------------------
(* The lock file: the inductive invariant of refusals. *)

MetTheLiving ==
    \A p, q \in Procs : p # q /\ pc[p] \in Taking /\ InUse(q) => q \in met[p]

\* A lock that appears or disappears behind the back of a waiting process is the
\* work of one that is alive.
RacedByTheLiving ==
    \A p \in Procs :
        \/ pc[p] = "create" /\ retried[p] /\ lock # NoLock
        \/ pc[p] \in {"inspect", "probe", "unlink"} /\ lock = NoLock
        => met[p] # {}

SeenOthers == \A p \in Procs : pc[p] = "probe" => p \notin seen[p]

FirstAttempt == \A p \in Procs : pc[p] = "new" => ~retried[p]

RefusedAreOver == \A p \in refused : pc[p] \in {"over", "gone"}

RefusalInv ==
    /\ LockTypeOK /\ MetTheLiving /\ CreatorsCreated /\ RacedByTheLiving
    /\ SeenOthers /\ FirstAttempt /\ RefusedAreOver /\ RefusedByTheLiving

-----------------------------------------------------------------------------
(* The lock file: types. *)

LEMMA LockTypesInit == LockInit => LockTypeOK
BY WritesAssumption DEF LockInit, LockTypeOK, Running, Taking, Waiting, Updates

\* A removal leaves no lock and a new pair at most.
LEMMA RemoveFacts ==
    ASSUME NEW p \in Procs, LockTypeOK, Remove(p)
    PROVE  /\ lock' = NoLock /\ overrun' = overrun
           /\ robberies' \subseteq Procs \X Procs
           /\ robberies \subseteq robberies'
           /\ \A q \in Procs : pc[q] \in Holding /\ Owns(q) /\ q # p => <<p, q>> \in robberies'
           /\ \A q, r \in Procs : <<q, r>> \in robberies' => 
                \/ <<q, r>> \in robberies
                \/ q = p /\ r # p /\ pc[r] \in Holding /\ Owns(r)
BY DEF Remove, LockTypeOK, Owns

LEMMA StampedFacts ==
    ASSUME NEW p \in Procs, LockTypeOK
    PROVE  /\ Stamped(p) \in [by : Procs, stamped : BOOLEAN] \cup {NoLock}
           /\ Stamped(p) = NoLock <=> lock = NoLock
           /\ lock # NoLock => Stamped(p).by = lock.by
           /\ lock # NoLock /\ (lock.by = p \/ lock.stamped) => Stamped(p).stamped
<1>1. CASE lock # NoLock /\ lock.by = p
  <2>1. Stamped(p) = [lock EXCEPT !.stamped = TRUE]
    BY <1>1 DEF Stamped
  <2>2. Stamped(p) \in [by : Procs, stamped : BOOLEAN]
    BY <1>1, <2>1 DEF LockTypeOK
  <2> QED BY <1>1, <2>1, <2>2, NoLockAssumption DEF LockTypeOK
<1>2. CASE ~(lock # NoLock /\ lock.by = p)
  BY <1>2 DEF Stamped, LockTypeOK
<1> QED BY <1>1, <1>2

\* Every action keeps every variable in its type.
LEMMA LockTypesStep == LockTypeOK /\ [LockNext]_lockVars => LockTypeOK'
<1> SUFFICES ASSUME LockTypeOK, [LockNext]_lockVars PROVE LockTypeOK'
  OBVIOUS
<1> USE DEF LockTypeOK, taking, data, attempts, losses, Go, Step
<1>1. CASE UNCHANGED lockVars
  BY <1>1 DEF lockVars
<1>2. ASSUME NEW p \in Procs, Start(p) PROVE LockTypeOK'
  BY <1>2 DEF Start, Noticed, Running, Taking, Waiting
<1>3. ASSUME NEW p \in Procs, Create(p) PROVE LockTypeOK'
  BY <1>3 DEF Create, Running, Taking
<1>4. ASSUME NEW p \in Procs, CreateFails(p) PROVE LockTypeOK'
  BY <1>4 DEF CreateFails, Refuse, Running, Taking, Waiting
<1>5. ASSUME NEW p \in Procs, Stamp(p) PROVE LockTypeOK'
  BY <1>5, StampedFacts DEF Stamp, Running, Holding
<1>6. ASSUME NEW p \in Procs, Errs(p) PROVE LockTypeOK'
  BY <1>6, StampedFacts DEF Errs, Refuse, Running
<1>7. ASSUME NEW p \in Procs, Inspect(p) PROVE LockTypeOK'
  BY <1>7 DEF Inspect, Running, Taking, Waiting
<1>8. ASSUME NEW p \in Procs, InspectFails(p) PROVE LockTypeOK'
  BY <1>8 DEF InspectFails, Running, Taking, Waiting
<1>9. ASSUME NEW p \in Procs, Probe(p) PROVE LockTypeOK'
  BY <1>9 DEF Probe, Refuse, Running, Taking, Waiting
<1>10. ASSUME NEW p \in Procs, Unlink(p) PROVE LockTypeOK'
  <2>1. CASE lock = NoLock /\ ~Forced
    BY <1>10, <2>1 DEF Unlink, Refuse, Running
  <2>2. CASE ~(lock = NoLock /\ ~Forced)
    <3>1. Remove(p) /\ pc' = [pc EXCEPT ![p] = "create"]
          /\ retried' = [retried EXCEPT ![p] = TRUE]
          /\ UNCHANGED <<seen, reused, data, attempts>>
      BY <1>10, <2>2 DEF Unlink
    <3> QED BY <3>1, RemoveFacts DEF Running, Taking, Waiting
  <2> QED BY <2>1, <2>2
<1>11. ASSUME NEW p \in Procs, Load(p) PROVE LockTypeOK'
  BY <1>11 DEF Load, Loaded, Running, Holding
<1>12. ASSUME NEW p \in Procs, LoadFails(p) PROVE LockTypeOK'
  BY <1>12, RemoveFacts DEF LoadFails, Unlock, Running
<1>13. ASSUME NEW p \in Procs, Update(p) PROVE LockTypeOK'
  BY <1>13 DEF Update
<1>14. ASSUME NEW p \in Procs, Release(p) PROVE LockTypeOK'
  BY <1>14, RemoveFacts DEF Release, Unlock, Running
<1>15. ASSUME NEW p \in Procs, Exit(p) PROVE LockTypeOK'
  BY <1>15 DEF Exit
<1>16. ASSUME NEW p \in Procs, PidTaken(p) \/ PidFreed(p) PROVE LockTypeOK'
  BY <1>16 DEF PidTaken, PidFreed, Noticed
<1> QED
  BY <1>1, <1>2, <1>3, <1>4, <1>5, <1>6, <1>7, <1>8, <1>9, <1>10, <1>11, <1>12, <1>13,
     <1>14, <1>15, <1>16 DEF LockNext

\* The state of the lock, the processes and the copies is well formed
\* (lib/state-store.mjs: JsonStateStore).
THEOREM LockTypes == LockSpec => []LockTypeOK
BY LockTypesInit, LockTypesStep, PTL DEF LockSpec

-----------------------------------------------------------------------------
(* One owner. *)

LEMMA LocksAreLocks ==
    ASSUME NEW p \in Procs, NEW b \in BOOLEAN
    PROVE  [by |-> p, stamped |-> b] # NoLock
<1>1. [by |-> p, stamped |-> b] \in [by : Procs, stamped : BOOLEAN]
  OBVIOUS
<1> QED BY <1>1, NoLockAssumption

LEMMA LockInvInit == LockInit => LockInv
BY LockTypesInit DEF LockInit, LockInv, CrossersKnow, CreatorsCreated, HoldersHold,
   HoldersAreSpared, RobbersCrossed, CopyIsFile, Taking, Waiting, Holding

\* Steps that leave the lock file, the places of the attempt and the robberies alone.
LEMMA QuietStep ==
    ASSUME LockInv, LockTypeOK', NEW p \in Procs, NEW place,
           place \in {"over", "gone", "closing"},
           pc' = [pc EXCEPT ![p] = place],
           \/ lock' = lock
           \/ pc[p] = "stamp" /\ lock' = Stamped(p),
           seen' = [seen EXCEPT ![p] = {}] \/ seen' = seen,
           failed \subseteq failed',
           UNCHANGED <<crossed, robberies, overrun, mem, disk, acked>>
    PROVE  LockInv'
<1> USE DEF LockInv
<1>1. \A q \in Procs : pc'[q] = (IF q = p THEN place ELSE pc[q])
  BY DEF LockTypeOK
<1>2. \A q \in Procs : Owns(q)' <=> Owns(q)
  BY StampedFacts DEF Owns
<1>3. lock # NoLock /\ lock.stamped => lock'.stamped
  BY StampedFacts
<1>4. CrossersKnow'
  BY <1>1 DEF CrossersKnow, Taking, Waiting
<1>5. CreatorsCreated'
  BY <1>1, StampedFacts DEF CreatorsCreated, Taking, Waiting, LockTypeOK
<1>6. HoldersHold'
  BY <1>1, <1>2, <1>3 DEF HoldersHold, Holding, Robbed, Owns
<1>7. HoldersAreSpared'
  BY <1>1, <1>2 DEF HoldersAreSpared, Holding, LockTypeOK
<1>8. RobbersCrossed'
  BY DEF RobbersCrossed, Robbed
<1>9. CopyIsFile'
  BY <1>1 DEF CopyIsFile
<1> QED BY <1>4, <1>5, <1>6, <1>7, <1>8, <1>9

\* A lock that is removed: its holder is robbed, by somebody with an excuse.
LEMMA RemovingStep ==
    ASSUME LockInv, LockTypeOK', NEW p \in Procs, Remove(p), NEW place,
           pc' = [pc EXCEPT ![p] = place],
           \/ pc[p] = "unlink" /\ place = "create"
           \/ pc[p] \in {"load", "own"} /\ place \in {"over", "closing"},
           UNCHANGED <<seen, data, failed, crossed>>
    PROVE  LockInv'
<1> USE DEF LockInv
<1>1. \A q \in Procs : pc'[q] = (IF q = p THEN place ELSE pc[q])
  BY DEF LockTypeOK
<1>2. /\ lock' = NoLock /\ overrun' = overrun
      /\ robberies \subseteq robberies'
      /\ \A q \in Procs : pc[q] \in Holding /\ Owns(q) /\ q # p => <<p, q>> \in robberies'
      /\ \A q, r \in Procs : <<q, r>> \in robberies' =>
            \/ <<q, r>> \in robberies
            \/ q = p /\ r # p /\ pc[r] \in Holding /\ Owns(r)
  BY RemoveFacts
<1>3. CrossersKnow'
  BY <1>1 DEF CrossersKnow, Taking, Waiting
<1>4. CreatorsCreated' /\ HoldersAreSpared'
  BY <1>2 DEF CreatorsCreated, HoldersAreSpared, Owns
<1>5. \A q \in Procs : Robbed(q) => Robbed(q)'
  BY <1>2 DEF Robbed
<1>6. HoldersHold'
  <2> SUFFICES ASSUME NEW q \in Procs, pc'[q] \in Holding PROVE Robbed(q)'
    BY <1>2 DEF HoldersHold, Owns
  <2>1. q # p /\ pc[q] \in Holding
    BY <1>1 DEF Holding
  <2>2. Robbed(q) \/ Owns(q)
    BY <2>1 DEF HoldersHold
  <2> QED BY <1>2, <1>5, <2>1, <2>2 DEF Robbed
<1>7. RobbersCrossed'
  <2> SUFFICES ASSUME NEW q \in Procs, NEW r \in Procs, <<q, r>> \in robberies'
               PROVE  r \in crossed[q] \/ q \in failed \/ Robbed(q)'
    BY DEF RobbersCrossed, attempts
  <2>1. CASE <<q, r>> \in robberies
    BY <1>5, <2>1 DEF RobbersCrossed
  <2>2. CASE q = p /\ r # p /\ pc[r] \in Holding /\ Owns(r)
    <3>1. CASE pc[p] = "unlink"
      BY <2>2, <3>1 DEF HoldersAreSpared
    <3>2. CASE pc[p] \in {"load", "own"}
      <4>1. Robbed(p) \/ Owns(p)
        BY <3>2 DEF HoldersHold, Holding
      <4> QED BY <1>5, <2>2, <4>1 DEF Owns
    <3> QED BY <3>1, <3>2
  <2> QED BY <1>2, <2>1, <2>2
<1>8. CopyIsFile'
  <2> SUFFICES ASSUME robberies' = {}, ~overrun' PROVE CopyIsFile'
    BY DEF CopyIsFile
  <2>1. robberies = {} /\ ~overrun
    BY <1>2
  <2>2. acked \subseteq disk /\ \A q \in Procs : pc[q] = "own" => mem[q] = disk
    BY <2>1 DEF CopyIsFile
  <2>3. \A q \in Procs : pc'[q] = "own" => pc[q] = "own"
    BY <1>1
  <2> QED BY <2>2, <2>3 DEF CopyIsFile, data
<1> QED BY <1>3, <1>4, <1>6, <1>7, <1>8

\* The lock file names whoever holds it, until somebody with an excuse removes it.
LEMMA LockInvStep ==
    ASSUME LockInv, [LockNext]_lockVars
    PROVE  LockInv'
<1> USE DEF LockInv, taking, data, attempts, losses, Go, Step
<1>0. LockTypeOK'
  BY LockTypesStep
<1>1. CASE UNCHANGED lockVars
  BY <1>0, <1>1 DEF lockVars, LockTypeOK, CrossersKnow, CreatorsCreated, HoldersHold,
     HoldersAreSpared, RobbersCrossed, CopyIsFile, Owns, Robbed
<1>2. ASSUME NEW p \in Procs, Start(p) PROVE LockInv'
  <2>1. \A q \in Procs : pc'[q] = (IF q = p THEN "create" ELSE pc[q])
    BY <1>2 DEF Start, LockTypeOK
  <2>2. /\ \A r \in Procs : pc[r] \in Taking => r \in crossed'[p]
        /\ \A q \in Procs : crossed[q] \subseteq crossed'[q]
        /\ \A q \in Procs \ {p} : pc[q] \in Taking => p \in crossed'[q]
    BY <1>2 DEF Start, LockTypeOK
  <2>3. /\ UNCHANGED <<lock, seen, failed, robberies, overrun, mem, disk, acked>>
        /\ pc[p] = "new"
    BY <1>2 DEF Start
  <2>4. CrossersKnow'
    BY <2>1, <2>2 DEF CrossersKnow
  <2>5. CreatorsCreated'
    BY <2>1, <2>3 DEF CreatorsCreated, LockTypeOK
  <2>6. HoldersHold' /\ CopyIsFile'
    BY <2>1, <2>3 DEF HoldersHold, CopyIsFile, Holding, Robbed, Owns
  <2>7. HoldersAreSpared'
    BY <2>1, <2>2, <2>3 DEF HoldersAreSpared, Holding, Owns
  <2>8. RobbersCrossed'
    <3> SUFFICES ASSUME NEW q \in Procs, NEW r \in Procs, <<q, r>> \in robberies
                 PROVE  r \in crossed'[q] \/ q \in failed \/ Robbed(q)
      BY <2>3 DEF RobbersCrossed, Robbed
    <3>1. r \in crossed[q] \/ q \in failed \/ Robbed(q)
      BY DEF RobbersCrossed
    <3> QED BY <2>2, <3>1
  <2> QED BY <1>0, <2>4, <2>5, <2>6, <2>7, <2>8
<1>3. ASSUME NEW p \in Procs, Create(p) PROVE LockInv'
  <2>1. /\ pc[p] = "create" /\ lock = NoLock
        /\ lock' = [by |-> p, stamped |-> FALSE]
        /\ UNCHANGED <<seen, failed, crossed, robberies, overrun, mem, disk, acked>>
        /\ \A q \in Procs : pc'[q] = (IF q = p THEN "stamp" ELSE pc[q])
    BY <1>3 DEF Create, LockTypeOK
  <2>2. lock' # NoLock /\ lock'.by = p
    BY <2>1, LocksAreLocks
  <2>3. CrossersKnow'
    BY <2>1 DEF CrossersKnow, Taking, Waiting
  <2>4. CreatorsCreated'
    BY <2>1, <2>2 DEF CreatorsCreated, Waiting
  <2>5. HoldersHold'
    BY <2>1, <2>2 DEF HoldersHold, Holding, Robbed, Owns
  <2>6. HoldersAreSpared'
    BY <2>1, <2>2 DEF HoldersAreSpared, CrossersKnow, Owns, Taking, Waiting
  <2>7. RobbersCrossed' /\ CopyIsFile'
    BY <2>1 DEF RobbersCrossed, CopyIsFile, Robbed
  <2> QED BY <1>0, <2>3, <2>4, <2>5, <2>6, <2>7
<1>4. ASSUME NEW p \in Procs, CreateFails(p) PROVE LockInv'
  <2>1. CASE retried[p]
    BY <1>0, <1>4, <2>1, QuietStep DEF CreateFails, Refuse
  <2>2. CASE ~retried[p]
    <3>1. /\ UNCHANGED <<lock, seen, failed, crossed, robberies, overrun, mem, disk, acked>>
          /\ pc[p] = "create"
          /\ \A q \in Procs : pc'[q] = (IF q = p THEN "inspect" ELSE pc[q])
      BY <1>4, <2>2 DEF CreateFails, LockTypeOK
    <3>2. CrossersKnow' /\ RobbersCrossed' /\ CopyIsFile'
      BY <3>1 DEF CrossersKnow, RobbersCrossed, CopyIsFile, Robbed, Taking, Waiting
    <3>3. CreatorsCreated' /\ HoldersHold' /\ HoldersAreSpared'
      BY <3>1 DEF CreatorsCreated, HoldersHold, HoldersAreSpared, Owns, Robbed, Holding,
         Waiting, LockTypeOK
    <3> QED BY <1>0, <3>2, <3>3
  <2> QED BY <2>1, <2>2 DEF LockTypeOK
<1>5. ASSUME NEW p \in Procs, Stamp(p) PROVE LockInv'
  <2>1. /\ pc[p] = "stamp" /\ lock' = Stamped(p)
        /\ UNCHANGED <<seen, failed, crossed, robberies, overrun, mem, disk, acked>>
        /\ \A q \in Procs : pc'[q] = (IF q = p THEN "load" ELSE pc[q])
    BY <1>5 DEF Stamp, LockTypeOK
  <2>2. /\ \A q \in Procs : Owns(q)' <=> Owns(q)
        /\ lock # NoLock /\ (lock.by = p \/ lock.stamped) => lock'.stamped
    BY <2>1, StampedFacts DEF Owns
  <2>3. CrossersKnow' /\ RobbersCrossed' /\ CopyIsFile'
    BY <2>1 DEF CrossersKnow, RobbersCrossed, CopyIsFile, Robbed, Taking, Waiting
  <2>4. CreatorsCreated'
    BY <2>1, StampedFacts DEF CreatorsCreated, Waiting, LockTypeOK
  <2>5. HoldersHold'
    BY <2>1, <2>2 DEF HoldersHold, Holding, Robbed, Owns
  <2>6. HoldersAreSpared'
    BY <2>1, <2>2 DEF HoldersAreSpared, Holding
  <2> QED BY <1>0, <2>3, <2>4, <2>5, <2>6
<1>6. ASSUME NEW p \in Procs, Errs(p) PROVE LockInv'
  BY <1>0, <1>6, QuietStep DEF Errs, Refuse
<1>7. ASSUME NEW p \in Procs, Inspect(p) PROVE LockInv'
  <2>1. /\ UNCHANGED <<lock, failed, crossed, robberies, overrun, mem, disk, acked>>
        /\ pc[p] = "inspect"
        /\ \A q \in Procs : pc'[q] = (IF q = p THEN "probe" ELSE pc[q])
        /\ \A q \in Procs \ {p} : seen'[q] = seen[q]
        /\ lock # NoLock /\ lock.stamped => lock.by \in seen'[p]
    BY <1>7 DEF Inspect, LockTypeOK
  <2>2. CrossersKnow' /\ RobbersCrossed' /\ CopyIsFile'
    BY <2>1 DEF CrossersKnow, RobbersCrossed, CopyIsFile, Robbed, Taking, Waiting
  <2>3. CreatorsCreated' /\ HoldersHold'
    BY <2>1 DEF CreatorsCreated, HoldersHold, Owns, Robbed, Holding, Waiting, LockTypeOK
  <2>4. HoldersAreSpared'
    <3> SUFFICES ASSUME NEW q \in Procs, NEW r \in Procs,
                        pc'[q] \in {"probe", "unlink"}, pc'[r] \in Holding, Owns(r)
                 PROVE  r \in crossed[q] \/ q \in failed \/ (pc'[q] = "probe" /\ r \in seen'[q])
      BY <2>1 DEF HoldersAreSpared, Owns
    <3>1. r # p /\ pc[r] \in Holding
      BY <2>1 DEF Holding
    <3>2. CASE q # p
      BY <2>1, <3>1, <3>2 DEF HoldersAreSpared
    <3>3. CASE q = p /\ pc[r] = "stamp"
      BY <2>1, <3>1, <3>3 DEF CrossersKnow, Taking, Waiting
    <3>4. CASE q = p /\ pc[r] # "stamp"
      <4>1. lock.stamped
        BY <3>1, <3>4 DEF HoldersHold, Holding
      <4> QED BY <2>1, <3>4, <4>1 DEF Owns
    <3> QED BY <3>2, <3>3, <3>4
  <2> QED BY <1>0, <2>2, <2>3, <2>4
<1>8. ASSUME NEW p \in Procs, InspectFails(p) PROVE LockInv'
  <2>1. /\ UNCHANGED <<lock, crossed, robberies, overrun, mem, disk, acked>>
        /\ pc[p] = "inspect" /\ failed' = failed \cup {p}
        /\ \A q \in Procs : pc'[q] = (IF q = p THEN "probe" ELSE pc[q])
        /\ \A q \in Procs \ {p} : seen'[q] = seen[q]
    BY <1>8 DEF InspectFails, LockTypeOK
  <2>2. CrossersKnow' /\ RobbersCrossed' /\ CopyIsFile'
    BY <2>1 DEF CrossersKnow, RobbersCrossed, CopyIsFile, Robbed, Taking, Waiting
  <2>3. CreatorsCreated' /\ HoldersHold' /\ HoldersAreSpared'
    BY <2>1 DEF CreatorsCreated, HoldersHold, HoldersAreSpared, Owns, Robbed, Holding,
       Waiting, LockTypeOK
  <2> QED BY <1>0, <2>2, <2>3
<1>9. ASSUME NEW p \in Procs, Probe(p) PROVE LockInv'
  <2>1. CASE Held(p)
    BY <1>0, <1>9, <2>1, QuietStep DEF Probe, Refuse
  <2>2. CASE ~Held(p)
    <3>1. /\ UNCHANGED <<lock, failed, crossed, robberies, overrun, mem, disk, acked>>
          /\ pc[p] = "probe"
          /\ \A q \in Procs : pc'[q] = (IF q = p THEN "unlink" ELSE pc[q])
          /\ \A q \in Procs \ {p} : seen'[q] = seen[q]
      BY <1>9, <2>2 DEF Probe, LockTypeOK
    <3>2. CrossersKnow' /\ RobbersCrossed' /\ CopyIsFile'
      BY <3>1 DEF CrossersKnow, RobbersCrossed, CopyIsFile, Robbed, Taking, Waiting
    <3>3. CreatorsCreated' /\ HoldersHold'
      BY <3>1 DEF CreatorsCreated, HoldersHold, Owns, Robbed, Holding, Waiting, LockTypeOK
    <3>4. \A r \in Procs : pc[r] \in Holding => r \notin seen[p]
      BY <2>2 DEF Held, InUse, Alive, Running
    <3>5. HoldersAreSpared'
      BY <3>1, <3>4 DEF HoldersAreSpared, Owns, Holding
    <3> QED BY <1>0, <3>2, <3>3, <3>5
  <2> QED BY <2>1, <2>2
<1>10. ASSUME NEW p \in Procs, Unlink(p) PROVE LockInv'
  <2>1. CASE lock = NoLock /\ ~Forced
    BY <1>0, <1>10, <2>1, QuietStep DEF Unlink, Refuse
  <2>2. CASE ~(lock = NoLock /\ ~Forced)
    BY <1>0, <1>10, <2>2, RemovingStep DEF Unlink
  <2> QED BY <2>1, <2>2
<1>11. ASSUME NEW p \in Procs, Load(p) PROVE LockInv'
  <2>1. /\ pc[p] = "load"
        /\ UNCHANGED <<lock, seen, failed, crossed, robberies, overrun, disk, acked>>
        /\ \A q \in Procs : pc'[q] = (IF q = p THEN "own" ELSE pc[q])
        /\ \A q \in Procs : mem'[q] = (IF q = p THEN disk ELSE mem[q])
    BY <1>11 DEF Load, Loaded, LockTypeOK
  <2>2. CrossersKnow' /\ RobbersCrossed' /\ CopyIsFile'
    BY <2>1 DEF CrossersKnow, RobbersCrossed, CopyIsFile, Robbed, Taking, Waiting
  <2>3. CreatorsCreated' /\ HoldersHold' /\ HoldersAreSpared'
    BY <2>1 DEF CreatorsCreated, HoldersHold, HoldersAreSpared, Owns, Robbed, Holding,
       Waiting, LockTypeOK
  <2> QED BY <1>0, <2>2, <2>3
<1>12. ASSUME NEW p \in Procs, LoadFails(p) PROVE LockInv'
  <2>1. CASE Remove(p)
    BY <1>0, <1>12, <2>1, RemovingStep DEF LoadFails
  <2>2. CASE UNCHANGED <<lock, losses>>
    BY <1>0, <1>12, <2>2, QuietStep DEF LoadFails
  <2> QED BY <1>12, <2>1, <2>2 DEF LoadFails, Unlock
<1>13. ASSUME NEW p \in Procs, Update(p) PROVE LockInv'
  <2>1. PICK u \in Updates :
          /\ mem' = [mem EXCEPT ![p] = @ \cup {u}]
          /\ disk' = mem'[p]
          /\ acked' = acked \cup {u}
    BY <1>13 DEF Update
  <2>2. /\ UNCHANGED <<lock, pc, seen, failed, crossed, robberies>>
        /\ pc[p] \in {"own", "closing"}
        /\ overrun' = \/ overrun
                      \/ pc[p] = "closing" /\ (mem[p] # disk \/ \E q \in Procs : pc[q] = "own")
    BY <1>13 DEF Update
  <2>3. CopyIsFile'
    <3> SUFFICES ASSUME robberies = {}, ~overrun'
                 PROVE  acked' \subseteq disk' /\ \A q \in Procs : pc[q] = "own" => mem'[q] = disk'
      BY <2>2 DEF CopyIsFile
    <3>1. acked \subseteq disk /\ \A q \in Procs : pc[q] = "own" => mem[q] = disk
      BY <2>2 DEF CopyIsFile
    <3>2. mem[p] = disk /\ \A q \in Procs : pc[q] = "own" => q = p
      BY <2>2, <3>1 DEF HoldersHold, Holding, Robbed, Owns
    <3> QED BY <2>1, <3>1, <3>2 DEF LockTypeOK
  <2> QED BY <1>0, <2>2, <2>3 DEF CrossersKnow, CreatorsCreated, HoldersHold,
     HoldersAreSpared, RobbersCrossed, Owns, Robbed
<1>14. ASSUME NEW p \in Procs, Release(p) PROVE LockInv'
  <2>1. CASE Remove(p)
    BY <1>0, <1>14, <2>1, RemovingStep DEF Release
  <2>2. CASE UNCHANGED <<lock, losses>>
    BY <1>0, <1>14, <2>2, QuietStep DEF Release
  <2> QED BY <1>14, <2>1, <2>2 DEF Release, Unlock
<1>15. ASSUME NEW p \in Procs, Exit(p) PROVE LockInv'
  BY <1>0, <1>15, QuietStep DEF Exit
<1>16. ASSUME NEW p \in Procs, PidTaken(p) \/ PidFreed(p) PROVE LockInv'
  BY <1>0, <1>16 DEF PidTaken, PidFreed, CrossersKnow, CreatorsCreated, HoldersHold,
     HoldersAreSpared, RobbersCrossed, CopyIsFile, Owns, Robbed
<1> QED
  BY <1>1, <1>2, <1>3, <1>4, <1>5, <1>6, <1>7, <1>8, <1>9, <1>10, <1>11, <1>12, <1>13,
     <1>14, <1>15, <1>16 DEF LockNext

LEMMA LockInvImplies == LockInv => SoleOwner
BY DEF LockInv, HoldersHold, CopyIsFile, SoleOwner, TwoOwnersAreRobbed, LossesAreRobberies,
   NoLostUpdate, Holding, Owns

\* Two processes own the state only after a robbery, a robbery needs starts that cross,
\* a file that cannot be read or an earlier robbery, and without one a reported update is
\* only lost to a write after a release: in every behaviour of any number of processes
\* (lib/state-store.mjs: acquireLock, releaseLock, update).
THEOREM LockHasOneOwner == LockSpec => []SoleOwner
<1>1. LockInv /\ [LockNext]_lockVars => LockInv'
  BY LockInvStep
<1> QED BY LockInvInit, <1>1, LockInvImplies, PTL DEF LockSpec

-----------------------------------------------------------------------------
(* Refusals. *)

LEMMA RefusalInvInit == LockInit => RefusalInv
BY LockTypesInit DEF LockInit, RefusalInv, MetTheLiving, CreatorsCreated, RacedByTheLiving,
   SeenOthers, FirstAttempt, RefusedAreOver, RefusedByTheLiving, Taking, Waiting

\* A process that took or waited for the lock is told no: it met somebody, or failed.
LEMMA RefusingStep ==
    ASSUME RefusalInv, LockTypeOK', NEW p \in Procs, Refuse(p),
           pc[p] \in Taking,
           \/ lock' = lock
           \/ pc[p] = "stamp" /\ lock' = Stamped(p),
           seen' = [seen EXCEPT ![p] = {}] \/ seen' = seen,
           \/ failed' = failed \cup {p}
           \/ failed' = failed /\ met[p] # {}
    PROVE  RefusalInv'
<1> USE DEF RefusalInv
<1>1. /\ \A q \in Procs : pc'[q] = (IF q = p THEN "over" ELSE pc[q])
      /\ UNCHANGED <<retried, reused, met>>
      /\ refused' = refused \cup {p}
  BY DEF Refuse, Go, LockTypeOK
<1>2. /\ lock' # NoLock <=> lock # NoLock
      /\ lock # NoLock => lock'.by = lock.by
  BY StampedFacts
<1>3. MetTheLiving'
  BY <1>1 DEF MetTheLiving, InUse, Alive, Taking, Waiting, Running
<1>4. CreatorsCreated'
  BY <1>1, <1>2 DEF CreatorsCreated, Waiting, LockTypeOK
<1>5. RacedByTheLiving' /\ SeenOthers' /\ FirstAttempt'
  BY <1>1, <1>2 DEF RacedByTheLiving, SeenOthers, FirstAttempt, LockTypeOK
<1>6. RefusedAreOver' /\ RefusedByTheLiving'
  BY <1>1 DEF RefusedAreOver, RefusedByTheLiving, LockTypeOK
<1> QED BY <1>3, <1>4, <1>5, <1>6

\* Somebody at work removes the lock: whoever waits for it has met him.
LEMMA RemovalStep ==
    ASSUME RefusalInv, LockTypeOK', NEW p \in Procs, lock' = NoLock, NEW place,
           pc' = [pc EXCEPT ![p] = place],
           \/ pc[p] = "unlink" /\ place = "create"
           \/ pc[p] \in {"load", "own"} /\ place \in {"over", "closing"},
           UNCHANGED <<seen, reused, attempts>>,
           \A q \in Procs \ {p} : retried'[q] = retried[q]
    PROVE  RefusalInv'
<1> USE DEF RefusalInv, attempts
<1>1. \A q \in Procs : pc'[q] = (IF q = p THEN place ELSE pc[q])
  BY DEF LockTypeOK
<1>2. MetTheLiving'
  BY <1>1 DEF MetTheLiving, InUse, Alive, Taking, Waiting, Holding, Running
<1>3. CreatorsCreated' /\ SeenOthers' /\ FirstAttempt'
  BY <1>1 DEF CreatorsCreated, SeenOthers, FirstAttempt
<1>4. RacedByTheLiving'
  BY <1>1 DEF RacedByTheLiving, MetTheLiving, InUse, Alive, Taking, Waiting, Holding, Running
<1>5. RefusedAreOver' /\ RefusedByTheLiving'
  BY <1>1 DEF RefusedAreOver, RefusedByTheLiving, LockTypeOK
<1> QED BY <1>2, <1>3, <1>4, <1>5

\* A process goes on, or ends, without a word about the lock.
LEMMA LeavingStep ==
    ASSUME RefusalInv, LockTypeOK', NEW p \in Procs, NEW place,
           pc' = [pc EXCEPT ![p] = place],
           \/ pc[p] \in {"load", "own"} /\ place \in {"own", "over", "closing"}
           \/ Alive(p) /\ place = "gone",
           UNCHANGED <<lock, retried, seen, reused, attempts>>
    PROVE  RefusalInv'
<1> USE DEF RefusalInv, attempts
<1>1. \A q \in Procs : pc'[q] = (IF q = p THEN place ELSE pc[q])
  BY DEF LockTypeOK
<1>2. MetTheLiving'
  BY <1>1 DEF MetTheLiving, InUse, Alive, Running, Holding, Taking, Waiting
<1>3. /\ CreatorsCreated' /\ RacedByTheLiving' /\ SeenOthers' /\ FirstAttempt'
      /\ RefusedAreOver' /\ RefusedByTheLiving'
  BY <1>1 DEF CreatorsCreated, RacedByTheLiving, SeenOthers, FirstAttempt, RefusedAreOver,
     RefusedByTheLiving, Waiting, LockTypeOK
<1> QED BY <1>2, <1>3

LEMMA RefusalInvStep == RefusalInv /\ [LockNext]_lockVars => RefusalInv'
<1> SUFFICES ASSUME RefusalInv, [LockNext]_lockVars PROVE RefusalInv'
  OBVIOUS
<1> USE DEF RefusalInv, taking, data, attempts, losses, Go, Step
<1>0. LockTypeOK'
  BY LockTypesStep
<1>1. CASE UNCHANGED lockVars
  BY <1>0, <1>1 DEF lockVars, LockTypeOK, MetTheLiving, CreatorsCreated, RacedByTheLiving,
     SeenOthers, FirstAttempt, RefusedAreOver, RefusedByTheLiving, InUse, Alive
<1>2. ASSUME NEW p \in Procs, Start(p) PROVE RefusalInv'
  <2>1. /\ \A q \in Procs : pc'[q] = (IF q = p THEN "create" ELSE pc[q])
        /\ pc[p] = "new" /\ UNCHANGED <<lock, retried, seen, reused, refused, failed>>
    BY <1>2 DEF Start, LockTypeOK
  <2>2. /\ \A q \in Procs \ {p} : met[q] \subseteq met'[q]
        /\ \A q \in Procs \ {p} : pc[q] \in Taking => p \in met'[q]
        /\ \A q \in Procs \ {p} : InUse(q) => q \in met'[p]
    BY <1>2 DEF Start, Noticed, LockTypeOK
  <2>3. MetTheLiving'
    <3> SUFFICES ASSUME NEW q \in Procs, NEW r \in Procs, q # r, pc'[q] \in Taking, InUse(r)'
                 PROVE  r \in met'[q]
      BY DEF MetTheLiving
    <3>1. r # p => InUse(r)
      BY <2>1 DEF InUse, Alive
    <3>2. CASE q = p
      BY <2>2, <3>1, <3>2
    <3>3. CASE q # p /\ r = p
      BY <2>1, <2>2, <3>3
    <3>4. CASE q # p /\ r # p
      BY <2>1, <2>2, <3>1, <3>4 DEF MetTheLiving
    <3> QED BY <3>2, <3>3, <3>4
  <2>4. CreatorsCreated' /\ SeenOthers' /\ FirstAttempt'
    BY <2>1 DEF CreatorsCreated, SeenOthers, FirstAttempt, LockTypeOK
  <2>5. RacedByTheLiving'
    BY <2>1, <2>2 DEF RacedByTheLiving, FirstAttempt
  <2>6. RefusedAreOver' /\ RefusedByTheLiving'
    BY <2>1, <2>2 DEF RefusedAreOver, RefusedByTheLiving, LockTypeOK
  <2> QED BY <1>0, <2>3, <2>4, <2>5, <2>6
<1>3. ASSUME NEW p \in Procs, Create(p) PROVE RefusalInv'
  <2>1. /\ pc[p] = "create"
        /\ lock' = [by |-> p, stamped |-> FALSE]
        /\ UNCHANGED <<retried, seen, reused, refused, failed, met>>
        /\ \A q \in Procs : pc'[q] = (IF q = p THEN "stamp" ELSE pc[q])
    BY <1>3 DEF Create, LockTypeOK
  <2>2. lock' # NoLock /\ lock'.by = p
    BY <2>1, LocksAreLocks
  <2>3. MetTheLiving'
    BY <2>1 DEF MetTheLiving, InUse, Alive, Running, Taking, Waiting
  <2>4. CreatorsCreated' /\ SeenOthers' /\ FirstAttempt' /\ RefusedAreOver' /\ RefusedByTheLiving'
    BY <2>1, <2>2 DEF CreatorsCreated, SeenOthers, FirstAttempt, RefusedAreOver,
       RefusedByTheLiving, Waiting, LockTypeOK
  <2>5. RacedByTheLiving'
    BY <2>1, <2>2 DEF RacedByTheLiving, MetTheLiving, InUse, Alive, Running, Taking, Waiting
  <2> QED BY <1>0, <2>3, <2>4, <2>5
<1>4. ASSUME NEW p \in Procs, CreateFails(p) PROVE RefusalInv'
  <2>1. CASE retried[p]
    BY <1>0, <1>4, <2>1, RefusingStep DEF CreateFails, RacedByTheLiving, Taking, Waiting
  <2>2. CASE ~retried[p]
    <3>1. /\ UNCHANGED <<lock, retried, seen, reused, refused, failed, met>>
          /\ pc[p] = "create" /\ lock # NoLock
          /\ \A q \in Procs : pc'[q] = (IF q = p THEN "inspect" ELSE pc[q])
      BY <1>4, <2>2 DEF CreateFails, LockTypeOK
    <3>2. MetTheLiving'
      BY <3>1 DEF MetTheLiving, InUse, Alive, Running, Taking, Waiting
    <3>3. /\ CreatorsCreated' /\ RacedByTheLiving' /\ SeenOthers' /\ FirstAttempt'
          /\ RefusedAreOver' /\ RefusedByTheLiving'
      BY <3>1 DEF CreatorsCreated, RacedByTheLiving, SeenOthers, FirstAttempt, RefusedAreOver,
         RefusedByTheLiving, Waiting, LockTypeOK
    <3> QED BY <1>0, <3>2, <3>3
  <2> QED BY <2>1, <2>2
<1>5. ASSUME NEW p \in Procs, Stamp(p) PROVE RefusalInv'
  <2>1. /\ pc[p] = "stamp" /\ lock' = Stamped(p)
        /\ UNCHANGED <<retried, seen, reused, refused, failed, met>>
        /\ \A q \in Procs : pc'[q] = (IF q = p THEN "load" ELSE pc[q])
    BY <1>5 DEF Stamp, LockTypeOK
  <2>2. /\ lock' # NoLock <=> lock # NoLock
        /\ lock # NoLock => lock'.by = lock.by
    BY <2>1, StampedFacts
  <2>3. MetTheLiving'
    BY <2>1 DEF MetTheLiving, InUse, Alive, Running, Taking, Waiting
  <2>4. /\ CreatorsCreated' /\ RacedByTheLiving' /\ SeenOthers' /\ FirstAttempt'
        /\ RefusedAreOver' /\ RefusedByTheLiving'
    BY <2>1, <2>2 DEF CreatorsCreated, RacedByTheLiving, SeenOthers, FirstAttempt,
       RefusedAreOver, RefusedByTheLiving, Waiting, LockTypeOK
  <2> QED BY <1>0, <2>3, <2>4
<1>6. ASSUME NEW p \in Procs, Errs(p) PROVE RefusalInv'
  BY <1>0, <1>6, RefusingStep DEF Errs, Taking, Waiting
<1>7. ASSUME NEW p \in Procs, Inspect(p) \/ InspectFails(p) PROVE RefusalInv'
  <2>1. /\ UNCHANGED <<lock, retried, reused, refused, met>>
        /\ pc[p] = "inspect" /\ failed \subseteq failed'
        /\ \A q \in Procs : pc'[q] = (IF q = p THEN "probe" ELSE pc[q])
        /\ \A q \in Procs \ {p} : seen'[q] = seen[q]
        /\ p \in seen'[p] => lock # NoLock /\ lock.by = p
    BY <1>7 DEF Inspect, InspectFails, LockTypeOK
  <2>2. MetTheLiving'
    BY <2>1 DEF MetTheLiving, InUse, Alive, Running, Taking, Waiting
  <2>3. SeenOthers'
    BY <2>1 DEF SeenOthers, CreatorsCreated, Waiting
  <2>4. /\ CreatorsCreated' /\ RacedByTheLiving' /\ FirstAttempt'
        /\ RefusedAreOver' /\ RefusedByTheLiving'
    BY <2>1 DEF CreatorsCreated, RacedByTheLiving, FirstAttempt, RefusedAreOver,
       RefusedByTheLiving, Waiting, LockTypeOK
  <2> QED BY <1>0, <2>2, <2>3, <2>4
<1>8. ASSUME NEW p \in Procs, Probe(p) PROVE RefusalInv'
  <2>1. CASE Held(p)
    <3>1. met[p] # {}
      BY <1>8, <2>1 DEF Probe, Held, SeenOthers, MetTheLiving, Taking, Waiting, LockTypeOK
    <3> QED BY <1>0, <1>8, <2>1, <3>1, RefusingStep DEF Probe, Taking, Waiting
  <2>2. CASE ~Held(p)
    <3>1. /\ UNCHANGED <<lock, retried, reused, refused, failed, met>>
          /\ pc[p] = "probe"
          /\ \A q \in Procs : pc'[q] = (IF q = p THEN "unlink" ELSE pc[q])
          /\ \A q \in Procs \ {p} : seen'[q] = seen[q]
      BY <1>8, <2>2 DEF Probe, LockTypeOK
    <3>2. MetTheLiving'
      BY <3>1 DEF MetTheLiving, InUse, Alive, Running, Taking, Waiting
    <3>3. /\ CreatorsCreated' /\ RacedByTheLiving' /\ SeenOthers' /\ FirstAttempt'
          /\ RefusedAreOver' /\ RefusedByTheLiving'
      BY <3>1 DEF CreatorsCreated, RacedByTheLiving, SeenOthers, FirstAttempt, RefusedAreOver,
         RefusedByTheLiving, Waiting, LockTypeOK
    <3> QED BY <1>0, <3>2, <3>3
  <2> QED BY <2>1, <2>2
<1>9. ASSUME NEW p \in Procs, Unlink(p) PROVE RefusalInv'
  <2>1. CASE lock = NoLock /\ ~Forced
    BY <1>0, <1>9, <2>1, RefusingStep DEF Unlink, RacedByTheLiving, Taking, Waiting
  <2>2. CASE ~(lock = NoLock /\ ~Forced)
    <3>1. /\ lock' = NoLock /\ pc[p] = "unlink"
          /\ pc' = [pc EXCEPT ![p] = "create"]
          /\ \A q \in Procs \ {p} : retried'[q] = retried[q]
          /\ UNCHANGED <<seen, reused, attempts>>
      BY <1>9, <2>2 DEF Unlink, Remove, LockTypeOK
    <3> QED BY <1>0, <3>1, RemovalStep
  <2> QED BY <2>1, <2>2
<1>10. ASSUME NEW p \in Procs, Load(p) PROVE RefusalInv'
  BY <1>0, <1>10, LeavingStep DEF Load
<1>11. ASSUME NEW p \in Procs, LoadFails(p) \/ Release(p) PROVE RefusalInv'
  <2>1. CASE lock' = lock
    BY <1>0, <1>11, <2>1, LeavingStep DEF LoadFails, Release
  <2>2. CASE lock' # lock
    <3>1. lock' = NoLock
      BY <1>11, <2>2 DEF LoadFails, Release, Unlock, Remove
    <3> QED BY <1>0, <1>11, <3>1, RemovalStep DEF LoadFails, Release
  <2> QED BY <2>1, <2>2
<1>12. ASSUME NEW p \in Procs, Update(p) PROVE RefusalInv'
  BY <1>0, <1>12 DEF Update, MetTheLiving, CreatorsCreated, RacedByTheLiving, SeenOthers,
     FirstAttempt, RefusedAreOver, RefusedByTheLiving, InUse, Alive
<1>13. ASSUME NEW p \in Procs, Exit(p) PROVE RefusalInv'
  BY <1>0, <1>13, LeavingStep DEF Exit
<1>14. ASSUME NEW p \in Procs, PidTaken(p) PROVE RefusalInv'
  <2>1. /\ UNCHANGED <<lock, pc, retried, seen, refused, failed>>
        /\ \A q \in Procs : q \in reused' => q \in reused \/ q = p
        /\ \A q \in Procs : met[q] \subseteq met'[q]
        /\ \A q \in Procs : pc[q] \in Taking => p \in met'[q]
    BY <1>14 DEF PidTaken, Noticed, LockTypeOK
  <2>2. MetTheLiving'
    BY <2>1 DEF MetTheLiving, InUse, Alive
  <2>3. /\ CreatorsCreated' /\ RacedByTheLiving' /\ SeenOthers' /\ FirstAttempt'
        /\ RefusedAreOver' /\ RefusedByTheLiving'
    BY <2>1 DEF CreatorsCreated, RacedByTheLiving, SeenOthers, FirstAttempt, RefusedAreOver,
       RefusedByTheLiving, LockTypeOK
  <2> QED BY <1>0, <2>2, <2>3
<1>15. ASSUME NEW p \in Procs, PidFreed(p) PROVE RefusalInv'
  BY <1>0, <1>15 DEF PidFreed, MetTheLiving, CreatorsCreated, RacedByTheLiving, SeenOthers,
     FirstAttempt, RefusedAreOver, RefusedByTheLiving, InUse, Alive
<1> QED
  BY <1>1, <1>2, <1>3, <1>4, <1>5, <1>6, <1>7, <1>8, <1>9, <1>10, <1>11, <1>12, <1>13,
     <1>14, <1>15 DEF LockNext

\* However starts overlap and whatever dead processes left, a process is refused the
\* state only if it met a pid in use during its attempt, or an error of its own
\* (lib/state-store.mjs and lib/host-registry.mjs: acquireLock).
THEOREM RefusalsAreDue == LockSpec => []RefusedByTheLiving
<1>1. RefusalInv => RefusedByTheLiving
  BY DEF RefusalInv
<1> QED BY RefusalInvInit, RefusalInvStep, <1>1, PTL DEF LockSpec
=============================================================================
