---------------------------- MODULE ArtifactSync ----------------------------
(***************************************************************************)
(* Synchronising artifacts to a remote machine: the synchronisers of the   *)
(* control machine (lib/plugin-sync.mjs, and RuntimeSynchronizer in        *)
(* lib/runtime-manager.mjs, which is the same algorithm with another       *)
(* staging directory) drive the artifact installer of the remote machine   *)
(* (lib/remote-artifact-installer.mjs) by one SSH command after another.   *)
(*                                                                         *)
(* A command may not be sent at all, when the pin of the host key does not *)
(* hold, or fail having done nothing, a part or all of its work, and       *)
(* a timeout ends only the local ssh process: the remote one may go on and *)
(* act later, when nobody waits for it.  A control machine that dies       *)
(* forgets its results; the remote machine forgets nothing.                *)
(***************************************************************************)
EXTENDS Naturals, Sequences, FiniteSets

CONSTANTS
    Items,          \* kind and id of an artifact
    Versions,       \* version and digest of an artifact
    Ops,            \* sync operation ids
    Plan,           \* actions of each operation: a sequence of [item, ver]
    StagingPerOp,   \* staging directory per operation (plugins) or per item (runtimes)
    Errors,         \* kinds of error a failing command raises
    LateCommands,   \* whether a timed-out command may act later
    Missing,        \* "no current version"
    Untouched,      \* "this sync has not changed the item"
    Unread,         \* "status not read"
    NoOp, NoResult,
    MaxFaults       \* bound: commands that fail in a behaviour

Actions == [item : Items, ver : Versions]

ASSUME PlanAssumption ==
    /\ Plan \in [Ops -> Seq(Actions)]
    /\ \A op \in Ops : \A j, k \in DOMAIN Plan[op] :
          Plan[op][j].item = Plan[op][k].item => j = k
ASSUME ErrorsAssumption == Errors \subseteq {"transport", "garbled", "oversized", "unsent"}
ASSUME FlagsAssumption == StagingPerOp \in BOOLEAN /\ LateCommands \in BOOLEAN
ASSUME NullsAssumption ==
    /\ {Missing, Untouched, Unread} \cap Versions = {}
    /\ Missing # Untouched /\ Missing # Unread
    /\ NoOp \notin Ops
ASSUME FaultsAssumption == MaxFaults \in Nat

VARIABLES
    remote,     \* the remote machine: [cur, vers, files, dirs]
    late,       \* commands still running remotely that nobody waits for
    strayed,    \* history: whether a command ever outlived its ssh
    sync,       \* the call in progress
    results,    \* the synchroniser's statuses map
    last,       \* history: operation of the last sync begun
    base,       \* history: remote.cur when it began
    hit,        \* history: whether a command of it failed or was refused after a fault
    faults      \* counts failed commands

outlived == <<late, strayed>>
control == <<sync, results>>
history == <<last, base, hit>>
vars == <<remote, outlived, control, history, faults>>

-----------------------------------------------------------------------------
(* The remote machine. *)

Receipt == Versions \cup {Missing}
Dirs == IF StagingPerOp THEN Ops ELSE Items
File == [dir : Dirs, item : Items, ver : Versions]
Forward == {"status", "mkdir", "upload", "install", "probe", "cleanup", "cleanupDir"}
Command == [do : Forward, item : Items, ver : Versions, dir : Dirs]
           \cup [do : {"rollback"}, item : Items, ver : Receipt, dir : Dirs]

FileOf(c) == [dir |-> c.dir, item |-> c.item, ver |-> c.ver]

WorksPlainMkdir(rm, c) ==       \* mutant: mkdir without -p
    /\ c.do = "mkdir" => c.dir \notin rm.dirs
    /\ c.do = "upload" => c.dir \in rm.dirs
    /\ c.do = "install" => FileOf(c) \in rm.files
    /\ c.do = "cleanupDir" => c.dir \in rm.dirs /\ ~\E f \in rm.files : f.dir = c.dir
    /\ c.do = "rollback" => c.ver \in rm.vers[c.item] \cup {Missing}

\* Whether a command can do its work; otherwise it exits with an error.
Works(rm, c) ==
    /\ c.do = "upload" => c.dir \in rm.dirs
    /\ c.do = "install" => FileOf(c) \in rm.files
    /\ c.do = "cleanupDir" => c.dir \in rm.dirs /\ ~\E f \in rm.files : f.dir = c.dir
    /\ c.do = "rollback" => c.ver \in rm.vers[c.item] \cup {Missing}

\* The installer publishes the version directory, then switches the pointer.
Published(rm, c) == [rm EXCEPT !.vers[c.item] = @ \cup {c.ver}]
Switched(rm, c) == [rm EXCEPT !.cur[c.item] = c.ver]

Effect(rm, c) ==
    CASE c.do = "mkdir"      -> [rm EXCEPT !.dirs = @ \cup {c.dir}]
      [] c.do = "upload"     -> [rm EXCEPT !.files = @ \cup {FileOf(c)}]
      [] c.do = "install"    -> Switched(Published(rm, c), c)
      [] c.do = "cleanup"    -> [rm EXCEPT !.files = @ \ {FileOf(c)}]
      [] c.do = "cleanupDir" -> [rm EXCEPT !.dirs = @ \ {c.dir}]
      [] c.do = "rollback"   -> Switched(rm, c)
      [] OTHER               -> rm

\* What a command that failed may have done.
Outcomes(rm, c) ==
    IF ~Works(rm, c) THEN {rm}
    ELSE {rm, Effect(rm, c)} \cup (IF c.do = "install" THEN {Published(rm, c)} ELSE {})

\* A command that failed because the local process gave up may still be running.
Leaves(c) ==
    \/ remote' \in Outcomes(remote, c) /\ UNCHANGED outlived
    \/ LateCommands /\ late' = late \cup {c} /\ strayed' = TRUE /\ UNCHANGED remote

FailsWith(kind, c) ==
    IF kind = "unsent" THEN UNCHANGED <<remote, outlived>> ELSE Leaves(c)

LateCommandActs(c) ==
    /\ c \in late
    /\ late' = late \ {c}
    /\ remote' \in Outcomes(remote, c)
    /\ UNCHANGED <<strayed, control, history, faults>>

-----------------------------------------------------------------------------
(* The call in progress. *)

Following == [mkdir |-> "upload", upload |-> "install", install |-> "probe",
              cleanup |-> "cleanupDir"]

NothingTouched == [i \in Items |-> Untouched]
NothingRead == [i \in Items |-> Unread]

Idle == [pc |-> "idle", op |-> NoOp, n |-> 1, prev |-> NothingTouched, todo |-> {},
         err |-> "none", rb |-> "not-attempted", seen |-> NothingRead]

Result(status, rb, prev, planned) ==
    [status |-> status, rb |-> rb, prev |-> prev, planned |-> planned]

Action == Plan[sync.op][sync.n]
StagingDir(op, i) == IF StagingPerOp THEN op ELSE i
CommandFor(do, op, a) ==
    [do |-> do, item |-> a.item, ver |-> a.ver, dir |-> StagingDir(op, a.item)]
Current == CommandFor(sync.pc, sync.op, Action)

Changed(prev) == {i \in Items : prev[i] # Untouched}

\* The action to roll back next: of those this sync may have changed, the last.
LastTodo ==
    CHOOSE i \in sync.todo : \E k \in DOMAIN Plan[sync.op] :
        /\ Plan[sync.op][k].item = i
        /\ \A j \in DOMAIN Plan[sync.op] : Plan[sync.op][j].item \in sync.todo => j <= k
RollbackCommand ==
    CommandFor("rollback", sync.op, [item |-> LastTodo, ver |-> sync.prev[LastTodo]])

InFlight ==
    IF sync.pc \in Forward THEN {Current}
    ELSE IF sync.pc = "rollback" /\ sync.todo # {} THEN {RollbackCommand} ELSE {}

Planned(op) == results[op] # NoResult /\ results[op].planned

ErrorsOf(do) ==
    Errors \ (IF do \in {"mkdir", "upload", "cleanup", "cleanupDir"} THEN {"garbled"} ELSE {})

-----------------------------------------------------------------------------
(* Synchronising. *)

\* The plugin synchroniser answers a completed operation from its results.
StartSync(op) ==
    /\ sync.pc = "idle"
    /\ ~(StagingPerOp /\ results[op] # NoResult /\ results[op].status = "completed")
    /\ sync' = IF Plan[op] = <<>> THEN Idle ELSE [Idle EXCEPT !.pc = "status", !.op = op]
    /\ results' = [results EXCEPT ![op] =
           Result(IF Plan[op] = <<>> THEN "completed" ELSE "running",
                  "not-attempted", NothingTouched, FALSE)]
    /\ last' = op
    /\ base' = remote.cur
    /\ hit' = FALSE
    /\ UNCHANGED <<remote, outlived, faults>>

\* A desired state the registry cannot resolve.
RejectPlan(op) ==
    /\ sync.pc = "idle"
    /\ ~(StagingPerOp /\ results[op] # NoResult /\ results[op].status = "completed")
    /\ results' = [results EXCEPT ![op] =
           Result("incompatible", "not-attempted", NothingTouched, FALSE)]
    /\ last' = NoOp
    /\ UNCHANGED <<remote, outlived, sync, base, hit, faults>>

NextAction ==
    IF sync.n = Len(Plan[sync.op])
    THEN /\ sync' = Idle
         /\ results' = [results EXCEPT ![sync.op] =
                Result("completed", "not-attempted", NothingTouched, FALSE)]
    ELSE /\ sync' = [sync EXCEPT !.pc = "status", !.n = @ + 1]
         /\ UNCHANGED results

\* An error of an action: roll back what this sync may have changed.
Broken(kind) ==
    /\ sync' = [sync EXCEPT !.pc = "rollback", !.err = kind, !.todo = Changed(sync.prev),
                            !.rb = IF Changed(sync.prev) = {} THEN "not-attempted"
                                                              ELSE "completed"]
    /\ UNCHANGED results

IsInstalledAny(rm, a) == rm.cur[a.item] # Missing     \* mutant: any version will do
IsInstalled(rm, a) == rm.cur[a.item] = a.ver

\* The receipt of what was current is taken before anything is changed.
ReadStatus ==
    /\ sync.pc = "status"
    /\ IF IsInstalled(remote, Action)
       THEN NextAction
       ELSE /\ sync' = [sync EXCEPT !.pc = "mkdir",
                                    !.prev[Action.item] = remote.cur[Action.item]]
            /\ UNCHANGED results
    /\ UNCHANGED <<remote, outlived, history, faults>>

RunCommand ==
    /\ sync.pc \in DOMAIN Following
    /\ Works(remote, Current)
    /\ remote' = Effect(remote, Current)
    /\ sync' = [sync EXCEPT !.pc = Following[sync.pc]]
    /\ UNCHANGED <<outlived, results, history, faults>>

Probe ==
    /\ sync.pc = "probe"
    /\ IF IsInstalled(remote, Action)
       THEN sync' = [sync EXCEPT !.pc = "cleanup"] /\ UNCHANGED <<results, hit>>
       ELSE Broken("garbled") /\ hit' = TRUE
    /\ UNCHANGED <<remote, outlived, last, base, faults>>

CleanupDir ==
    /\ sync.pc = "cleanupDir"
    /\ Works(remote, Current)
    /\ remote' = Effect(remote, Current)
    /\ NextAction
    /\ UNCHANGED <<outlived, history, faults>>

\* A command the remote machine refuses is a failed ssh like any other.
CommandRefused ==
    /\ sync.pc \in Forward
    /\ ~Works(remote, Current)
    /\ Broken("transport")
    /\ UNCHANGED <<remote, outlived, history, faults>>

CommandFails ==
    /\ sync.pc \in Forward
    /\ faults < MaxFaults
    /\ faults' = faults + 1
    /\ \E kind \in ErrorsOf(sync.pc) : Broken(kind) /\ FailsWith(kind, Current)
    /\ hit' = TRUE
    /\ UNCHANGED <<last, base>>

-----------------------------------------------------------------------------
(* Rolling back. *)

WorseForgiving(rb, kind) == rb          \* mutant: an error leaves the rollback completed

\* An error of unknown effect makes the rollback unknown; "failed" is the rest.
Worse(rb, kind) ==
    IF kind \in {"transport", "garbled"} THEN "unknown"
    ELSE IF rb = "unknown" THEN rb ELSE "failed"

RolledBack(rb) ==
    sync' = [sync EXCEPT !.todo = @ \ {LastTodo}, !.rb = rb]

RollBack ==
    /\ sync.pc = "rollback"
    /\ sync.todo # {}
    /\ IF Works(remote, RollbackCommand)
       THEN remote' = Effect(remote, RollbackCommand) /\ RolledBack(sync.rb)
       ELSE UNCHANGED remote /\ RolledBack(Worse(sync.rb, "transport"))
    /\ UNCHANGED <<outlived, results, history, faults>>

RollBackFails ==
    /\ sync.pc = "rollback"
    /\ sync.todo # {}
    /\ faults < MaxFaults
    /\ faults' = faults + 1
    /\ \E kind \in Errors :
          RolledBack(Worse(sync.rb, kind)) /\ FailsWith(kind, RollbackCommand)
    /\ UNCHANGED <<results, history>>

StatusAfterPartial(err, rb) ==      \* mutant: a status no receipt check knows
    IF rb = "unknown" THEN "persistence-unknown" ELSE "partially-synced"

StatusAfter(err, rb) ==
    IF rb = "unknown" \/ (err = "transport" /\ rb # "completed")
    THEN "persistence-unknown" ELSE "needs-attention"

SettleFailure ==
    /\ sync.pc = "rollback"
    /\ sync.todo = {}
    /\ results' = [results EXCEPT ![sync.op] =
           Result(StatusAfter(sync.err, sync.rb), sync.rb, sync.prev, TRUE)]
    /\ sync' = Idle
    /\ UNCHANGED <<remote, outlived, history, faults>>

-----------------------------------------------------------------------------
(* Reconciling a sync that failed: read every item once, then judge. *)

StartReconcile(op) ==
    /\ sync.pc = "idle"
    /\ Planned(op)
    /\ sync' = [Idle EXCEPT !.pc = "observe", !.op = op, !.prev = results[op].prev]
    /\ UNCHANGED <<remote, outlived, results, history, faults>>

Observe ==
    /\ sync.pc = "observe"
    /\ sync.n <= Len(Plan[sync.op])
    /\ \/ /\ sync' = [sync EXCEPT !.n = @ + 1, !.seen[Action.item] = remote.cur[Action.item]]
          /\ UNCHANGED faults
       \/ /\ faults < MaxFaults
          /\ faults' = faults + 1
          /\ sync' = [sync EXCEPT !.n = @ + 1]
    /\ UNCHANGED <<remote, outlived, results, history>>

Verified == \A k \in DOMAIN Plan[sync.op] :
                sync.seen[Plan[sync.op][k].item] = Plan[sync.op][k].ver

RestoredAsSeen ==
    IF \E i \in Changed(sync.prev) : sync.seen[i] = Unread THEN "unknown"
    ELSE IF \E i \in Changed(sync.prev) : sync.seen[i] # sync.prev[i] THEN "failed"
    ELSE "completed"

Judged ==
    IF Changed(sync.prev) # {}
    THEN Result(IF RestoredAsSeen = "completed" THEN "needs-attention"
                ELSE "persistence-unknown", RestoredAsSeen, sync.prev, TRUE)
    ELSE Result(IF Verified THEN "completed" ELSE "needs-attention",
                "not-attempted", sync.prev, TRUE)

SettleReconcile ==
    /\ sync.pc = "observe"
    /\ sync.n > Len(Plan[sync.op])
    /\ results' = [results EXCEPT ![sync.op] = Judged]
    /\ sync' = Idle
    /\ UNCHANGED <<remote, outlived, history, faults>>

-----------------------------------------------------------------------------

\* The control process ends: what it remembered is gone, its command may run on.
ControlCrash ==
    /\ sync' = Idle
    /\ results' = [op \in Ops |-> NoResult]
    /\ last' = NoOp
    /\ \/ UNCHANGED <<remote, outlived, faults>>
       \/ /\ faults < MaxFaults
          /\ faults' = faults + 1
          /\ \E c \in InFlight : Leaves(c)
    /\ UNCHANGED <<base, hit>>

Init ==
    /\ remote \in [cur : {[i \in Items |-> Missing]},
                   vers : {[i \in Items |-> {}]}, files : {{}}, dirs : {{}}]
    /\ late = {}
    /\ strayed = FALSE
    /\ sync = Idle
    /\ results = [op \in Ops |-> NoResult]
    /\ last = NoOp
    /\ base = remote.cur
    /\ hit = FALSE
    /\ faults = 0

Next ==
    \/ \E op \in Ops : StartSync(op) \/ RejectPlan(op) \/ StartReconcile(op)
    \/ ReadStatus \/ RunCommand \/ Probe \/ CleanupDir
    \/ CommandRefused \/ CommandFails
    \/ RollBack \/ RollBackFails \/ SettleFailure
    \/ Observe \/ SettleReconcile
    \/ \E c \in late : LateCommandActs(c)
    \/ ControlCrash

Spec == Init /\ [][Next]_vars

-----------------------------------------------------------------------------
(* Properties. *)

Before == [Items -> Receipt \cup {Untouched}]
RollbackStatus == {"not-attempted", "completed", "failed", "unknown"}
Results == [status : {"running", "completed", "incompatible", "needs-attention",
                      "persistence-unknown"},
            rb : RollbackStatus, prev : Before, planned : BOOLEAN]

Machine == [cur : [Items -> Receipt], vers : [Items -> SUBSET Versions],
            files : SUBSET File, dirs : SUBSET Dirs]
Call == [pc : Forward \cup {"idle", "rollback", "observe"}, op : Ops \cup {NoOp}, n : Nat,
         prev : Before, todo : SUBSET Items,
         err : Errors \cup {"none", "transport", "garbled"}, rb : RollbackStatus,
         seen : [Items -> Receipt \cup {Unread}]]

\* The type invariant: every part has its values.
TypeOK ==
    /\ remote \in Machine /\ late \subseteq Command /\ strayed \in BOOLEAN
    /\ sync \in Call /\ results \in [Ops -> Results \cup {NoResult}]
    /\ last \in Ops \cup {NoOp} /\ base \in [Items -> Receipt] /\ hit \in BOOLEAN
    /\ faults \in Nat

\* An operation only becomes completed, by its sync or by reconciling it, when
\* every artifact of its plan is current: the receipt project.open relies on.  A
\* command that outlived its ssh may still undo it.
CompletedIsCurrent ==
    [][\A op \in Ops :
          /\ results'[op] # NoResult
          /\ results'[op].status = "completed"
          /\ results'[op] # results[op]
          /\ ~strayed
          => \A k \in DOMAIN Plan[op] : remote'.cur[Plan[op][k].item] = Plan[op][k].ver]_vars

\* A sync that failed and whose rollback is said to be complete, or not needed, left
\* every artifact as it found it, whatever its commands did before they failed, as
\* long as none outlived its ssh.
RestoredAsSaid ==
    /\ sync.pc = "idle" /\ last # NoOp /\ ~strayed
    /\ results[last].status \in {"needs-attention", "persistence-unknown"}
    /\ results[last].rb \in {"completed", "not-attempted"}
    => remote.cur = base

\* What a rollback goes back to is still installed: no rollback is refused for
\* want of its target, also when other syncs and late commands came in between.
RollbackTargetExists ==
    sync.pc = "rollback" /\ sync.todo # {} => Works(remote, RollbackCommand)

\* Rolling back does what it says: its targets are there, and a failed sync that claims to
\* have restored everything has (lib/plugin-sync.mjs:183-189, :270-288).
RollbacksRestore == RollbackTargetExists /\ RestoredAsSaid

\* A sync of one artifact none of whose commands failed completes, whatever earlier
\* ones left in the staging directory, as long as none outlived its ssh.  (With two,
\* the file an earlier attempt left for the second keeps the first one's rmdir from
\* working.)
HealthySyncCompletes ==
    sync.pc = "idle" /\ last # NoOp /\ ~hit /\ ~strayed /\ Len(Plan[last]) = 1
        => results[last].status = "completed"
=============================================================================
