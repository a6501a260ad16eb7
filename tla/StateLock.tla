----------------------------- MODULE StateLock -----------------------------
(***************************************************************************)
(* The lock file of the Remote Host's state store (lib/state-store.mjs),   *)
(* and of the control machine's host registry (lib/host-registry.mjs),     *)
(* which differs in how a stale lock is removed: each process creates the  *)
(* lock exclusively, writes its pid into it, and works on a copy of the    *)
(* state file that it loads once and rewrites whole with every update.     *)
(* Every SSH session starts a Remote Host process of its own.              *)
(***************************************************************************)
EXTENDS Naturals

CONSTANTS
    Procs,          \* processes; each runs once
    Forced,         \* the registry's rm --force, against the store's unlink
    NoLock,
    MaxWrites       \* bound: updates in a behaviour

ASSUME ForcedAssumption == Forced \in BOOLEAN
ASSUME NoLockAssumption == NoLock \notin [by : Procs, stamped : BOOLEAN]
ASSUME WritesAssumption == MaxWrites \in Nat

VARIABLES
    lock,       \* the lock file: its creator, and whether the pid is in it
    pc,         \* what each process does
    retried,    \* whether a process is in its second attempt
    seen,       \* whose pid a process has read in the lock: one process or none
    reused,     \* ended processes whose pid another program has now
    disk,       \* updates in the state file
    mem,        \* updates in each process's copy
    acked,      \* updates a process reported as written
    refused,    \* history: processes that were refused the lock
    failed,     \* history: processes whose file operation failed while they took the lock
    met,        \* history: processes whose pid was in use while each one took the lock
    crossed,    \* history: processes that took the lock at the same time as each one
    robberies,  \* history: pairs of who removed a lock and who was holding it
    overrun     \* history: an update landed after its writer's release, over a later owner

taking == <<pc, retried, seen>>
data == <<disk, mem, acked>>
attempts == <<refused, failed, met, crossed>>
losses == <<robberies, overrun>>
lockVars == <<lock, taking, reused, data, attempts, losses>>

Updates == 1..MaxWrites
Waiting == {"create", "inspect", "probe", "unlink"}
Taking == Waiting \cup {"stamp"}
Holding == {"stamp", "load", "own"}
Running == Taking \cup Holding \cup {"over", "closing"}

Alive(p) == pc[p] \in Running

\* What kill(pid, 0) answers: some program has the pid, which is the process that
\* wrote it or, when that has ended, any other (also the one that asks).
InUse(p) == Alive(p) \/ p \in reused

Go(p, place) == pc' = [pc EXCEPT ![p] = place]

\* Whoever takes the lock now may find the pid of p in use.
Noticed(p) == [q \in Procs |-> IF pc[q] \in Taking THEN met[q] \cup {p} ELSE met[q]]

-----------------------------------------------------------------------------
(* Taking the lock. *)

Start(p) ==
    /\ pc[p] = "new"
    /\ Go(p, "create")
    /\ met' = [Noticed(p) EXCEPT ![p] = {r \in Procs \ {p} : InUse(r)}]
    /\ crossed' = [q \in Procs |-> crossed[q] \cup
                     IF q = p THEN {r \in Procs : pc[r] \in Taking}
                     ELSE IF pc[q] \in Taking THEN {p} ELSE {}]
    /\ UNCHANGED <<lock, retried, seen, reused, data, refused, failed, losses>>

\* The process is told that another owns the state; it ends some time later.
Refuse(p) ==
    /\ Go(p, "over")
    /\ refused' = refused \cup {p}
    /\ UNCHANGED <<retried, reused, data, met, crossed, losses>>

Step(p, place) ==
    /\ Go(p, place)
    /\ UNCHANGED <<reused, data, attempts, losses>>

\* Exclusive creation; the file is empty until its creator writes the pid.
Create(p) ==
    /\ pc[p] = "create"
    /\ lock = NoLock
    /\ lock' = [by |-> p, stamped |-> FALSE]
    /\ Step(p, "stamp")
    /\ UNCHANGED <<retried, seen>>

CreateFails(p) ==
    /\ pc[p] = "create"
    /\ lock # NoLock
    /\ IF retried[p] THEN Refuse(p) /\ UNCHANGED failed
                     ELSE Step(p, "inspect") /\ UNCHANGED retried
    /\ UNCHANGED <<lock, seen>>

\* The lock as its creator's write leaves it: the pid goes into the file that was
\* created, which may have lost its name by now.
Stamped(p) == IF lock # NoLock /\ lock.by = p THEN [lock EXCEPT !.stamped = TRUE] ELSE lock

Stamp(p) ==
    /\ pc[p] = "stamp"
    /\ lock' = Stamped(p)
    /\ Step(p, "load")
    /\ UNCHANGED <<retried, seen>>

\* Any other error of the creation, the write or the sync is answered in the same
\* words; what was written of the lock file stays.
Errs(p) ==
    /\ \/ pc[p] = "create" /\ UNCHANGED lock
       \/ pc[p] = "stamp" /\ lock' \in {lock, Stamped(p)}
       \/ pc[p] = "unlink" /\ UNCHANGED lock
    /\ failed' = failed \cup {p}
    /\ Refuse(p)
    /\ UNCHANGED seen

\* The file is read: no pid when it is gone, or still empty.
Inspect(p) ==
    /\ pc[p] = "inspect"
    /\ seen' = [seen EXCEPT ![p] = IF lock # NoLock /\ lock.stamped THEN {lock.by} ELSE {}]
    /\ Step(p, "probe")
    /\ UNCHANGED <<lock, retried>>

\* A file that cannot be read counts as one without a pid.
InspectFails(p) ==
    /\ pc[p] = "inspect"
    /\ seen' = [seen EXCEPT ![p] = {}]
    /\ failed' = failed \cup {p}
    /\ Go(p, "probe")
    /\ UNCHANGED <<lock, retried, reused, data, refused, met, crossed, losses>>

HeldWithoutPid(p) == seen[p] = {} \/ \E q \in seen[p] : InUse(q)   \* mutant
HeldByItself(p) == p \in seen[p]        \* mutant: the probe asks for its own pid
Held(p) == \E q \in seen[p] : InUse(q)

Probe(p) ==
    /\ pc[p] = "probe"
    /\ IF Held(p) THEN Refuse(p) /\ UNCHANGED failed
                  ELSE Step(p, "unlink") /\ UNCHANGED retried
    /\ seen' = [seen EXCEPT ![p] = {}]
    /\ UNCHANGED lock

\* A lock file is removed by name, whosever it is by now.
Remove(p) ==
    /\ lock' = NoLock
    /\ robberies' = IF lock # NoLock /\ lock.by # p /\ pc[lock.by] \in Holding
                    THEN robberies \cup {<<p, lock.by>>} ELSE robberies
    /\ UNCHANGED overrun

Unlink(p) ==
    /\ pc[p] = "unlink"
    /\ IF lock = NoLock /\ ~Forced THEN Refuse(p) /\ UNCHANGED <<lock, seen, failed>>
       ELSE /\ Remove(p)
            /\ retried' = [retried EXCEPT ![p] = TRUE]
            /\ Go(p, "create")
            /\ UNCHANGED <<seen, reused, data, attempts>>

\* The release swallows an error: the file may stay.
Unlock(p) == Remove(p) \/ UNCHANGED <<lock, losses>>

Loaded(p) == disk

Load(p) ==
    /\ pc[p] = "load"
    /\ mem' = [mem EXCEPT ![p] = Loaded(p)]
    /\ Go(p, "own")
    /\ UNCHANGED <<lock, retried, seen, reused, disk, acked, attempts, losses>>

\* A state file that cannot be used: the lock is released (the registry's is not
\* when the file is not JSON).
LoadFails(p) ==
    /\ pc[p] = "load"
    /\ Unlock(p)
    /\ Go(p, "over")
    /\ UNCHANGED <<retried, seen, reused, data, attempts>>

-----------------------------------------------------------------------------
(* Owning it. *)

\* The whole file is rewritten from the process's copy; a request in progress still
\* does so after the release, which does not wait for it.
Update(p) ==
    /\ pc[p] \in {"own", "closing"}
    /\ \E u \in Updates :
         /\ acked = 1..(u - 1)
         /\ mem' = [mem EXCEPT ![p] = @ \cup {u}]
         /\ disk' = mem'[p]
         /\ acked' = acked \cup {u}
    /\ overrun' = \/ overrun
                  \/ pc[p] = "closing" /\ (mem[p] # disk \/ \E q \in Procs : pc[q] = "own")
    /\ UNCHANGED <<lock, taking, reused, attempts, robberies>>

ReleaseTruncates(p) ==      \* mutant: the lock file is emptied instead of removed
    /\ pc[p] = "own"
    /\ lock' = [by |-> NoLock, stamped |-> FALSE]
    /\ Step(p, "closing")
    /\ UNCHANGED <<retried, seen>>

\* The process ends later, when its other services have closed.
Release(p) ==
    /\ pc[p] = "own"
    /\ Unlock(p)
    /\ Go(p, "closing")
    /\ UNCHANGED <<retried, seen, reused, data, attempts>>

-----------------------------------------------------------------------------
(* The operating system. *)

\* The process exits or is killed, wherever it is.
Exit(p) ==
    /\ Alive(p)
    /\ Step(p, "gone")
    /\ UNCHANGED <<lock, retried, seen>>

\* A program the user runs gets the pid of a process that ended, at the latest
\* after a reboot.
PidTaken(p) ==
    /\ pc[p] = "gone" /\ p \notin reused
    /\ reused' = reused \cup {p}
    /\ met' = Noticed(p)
    /\ UNCHANGED <<lock, taking, data, refused, failed, crossed, losses>>

PidFreed(p) ==
    /\ p \in reused
    /\ reused' = reused \ {p}
    /\ UNCHANGED <<lock, taking, data, attempts, losses>>

LockInit ==
    /\ lock = NoLock
    /\ pc = [p \in Procs |-> "new"]
    /\ retried = [p \in Procs |-> FALSE]
    /\ seen = [p \in Procs |-> {}]
    /\ reused = {}
    /\ disk = {}
    /\ mem = [p \in Procs |-> {}]
    /\ acked = {}
    /\ refused = {}
    /\ failed = {}
    /\ met = [p \in Procs |-> {}]
    /\ crossed = [p \in Procs |-> {}]
    /\ robberies = {}
    /\ overrun = FALSE

LockNext ==
    \E p \in Procs :
        \/ Start(p) \/ Create(p) \/ CreateFails(p) \/ Stamp(p) \/ Errs(p)
        \/ Inspect(p) \/ InspectFails(p) \/ Probe(p) \/ Unlink(p)
        \/ Load(p) \/ LoadFails(p) \/ Update(p) \/ Release(p)
        \/ Exit(p) \/ PidTaken(p) \/ PidFreed(p)

LockSpec == LockInit /\ [][LockNext]_lockVars

-----------------------------------------------------------------------------
(* Properties. *)

LockTypeOK ==
    /\ lock \in [by : Procs, stamped : BOOLEAN] \cup {NoLock}
    /\ pc \in [Procs -> Running \cup {"new", "gone"}]
    /\ retried \in [Procs -> BOOLEAN]
    /\ seen \in [Procs -> SUBSET Procs]
    /\ reused \subseteq Procs
    /\ disk \subseteq Updates
    /\ mem \in [Procs -> SUBSET Updates]
    /\ acked \subseteq Updates
    /\ refused \subseteq Procs /\ failed \subseteq Procs
    /\ met \in [Procs -> SUBSET Procs] /\ crossed \in [Procs -> SUBSET Procs]
    /\ robberies \subseteq Procs \X Procs
    /\ overrun \in BOOLEAN

\* Somebody removed the lock of p while p was taking the state or owned it.
Robbed(p) == \E r \in Procs : <<r, p>> \in robberies

\* What test/state-store.test.mjs:10 says of the lock: the state file has one owner.
\* It has two when two starts cross (see SoleOwner).
AtMostOneOwner == \A p, q \in Procs : pc[p] = "own" /\ pc[q] = "own" => p = q

\* An update that was reported stays in the state file: no other process rewrites
\* the file from a copy that lacks it.
NoLostUpdate == acked \subseteq disk

TwoOwnersAreRobbed ==
    \A p, q \in Procs : pc[p] = "own" /\ pc[q] = "own" /\ p # q => Robbed(p) \/ Robbed(q)

RobbersCrossed ==
    \A p, q \in Procs :
        <<p, q>> \in robberies => q \in crossed[p] \/ p \in failed \/ Robbed(p)

LossesAreRobberies == robberies = {} /\ ~overrun => NoLostUpdate

\* Where the lock's promise ends, in every behaviour.  Two processes own the state only
\* after the lock of one was taken from it; a lock is only ever taken by a process whose
\* own start ran beside its holder's, that could not read the file, or that had been
\* robbed itself: a process that owns the state keeps it against every later start.
\* And while nobody was robbed, a reported update is only lost to one that lands after
\* its writer's release, over a later owner
\* (lib/state-store.mjs:31-81, :171-197; lib/host-registry.mjs:194-218).
SoleOwner == TwoOwnersAreRobbed /\ RobbersCrossed /\ LossesAreRobberies

\* A process is only told that another owns the state when it met one, or a program with
\* the pid of one, while it took the lock, or when a file operation of its own failed:
\* a dead process whose pid nobody has never keeps a Remote Host from starting
\* (lib/state-store.mjs:178-190; lib/host-registry.mjs:201-212).
RefusedByTheLiving == \A p \in refused : met[p] # {} \/ p \in failed
=============================================================================
