-------------------------- MODULE ArtifactSyncProofs --------------------------
(***************************************************************************)
(* Proofs about ArtifactSync: where a sync is in its plan, what commands   *)
(* do to the remote machine, then the parts of the inductive invariant     *)
(* action by action, then the theorems.                                    *)
(***************************************************************************)
EXTENDS ArtifactSync, WellFoundedInduction, TLAPS

-----------------------------------------------------------------------------
(* The inductive invariant.                                                *)

Syncing == sync.pc \in Forward \cup {"rollback"}

\* Versions are never taken away: what is current, and what any sync would go back to,
\* is installed.
Installed(prev) == \A i \in Items : prev[i] \in remote.vers[i] \cup {Missing, Untouched}

VersionsKept ==
    /\ \A i \in Items : remote.cur[i] \in remote.vers[i] \cup {Missing}
    /\ Installed(sync.prev)
    /\ \A op \in Ops : results[op] # NoResult => Installed(results[op].prev)

\* Where the call in progress is in its plan: what it has changed are items it has come to.
ItemsUpTo(n) == {Plan[sync.op][k].item : k \in 1..n}

PlaceOK ==
    /\ sync.pc # "idle" => sync.op \in Ops
    /\ Syncing => /\ sync.op = last /\ sync.n \in 1..Len(Plan[sync.op])
                  /\ Changed(sync.prev) \subseteq
                         ItemsUpTo(IF sync.pc = "status" THEN sync.n - 1 ELSE sync.n)
    /\ sync.pc \in Forward \ {"status"} => Action.item \in Changed(sync.prev)
    /\ sync.pc = "rollback" =>
          /\ sync.todo \subseteq Changed(sync.prev)
          /\ Changed(sync.prev) = {} <=> sync.rb = "not-attempted"
    /\ sync.pc = "observe" => /\ sync.n \in 1..(Len(Plan[sync.op]) + 1)
                             /\ Planned(sync.op) /\ sync.prev = results[sync.op].prev

\* An item is as the sync found it, or the sync remembers how it found it.
Remembers(prev) ==
    \A i \in Items : IF prev[i] = Untouched THEN remote.cur[i] = base[i] ELSE prev[i] = base[i]

\* While no command acts behind its sync's back: what syncs remember, what they have
\* brought about, rolled back and seen.
Intact ==
    /\ late = {}
    /\ Syncing => Remembers(sync.prev)
    /\ ~Syncing /\ last # NoOp /\ Planned(last) => Remembers(results[last].prev)
    /\ sync.pc \in Forward =>
          \A k \in 1..(IF sync.pc \in {"cleanup", "cleanupDir"} THEN sync.n ELSE sync.n - 1) :
              IsInstalled(remote, Plan[sync.op][k])
    /\ sync.pc = "rollback" /\ sync.rb = "completed" =>
          \A i \in Changed(sync.prev) \ sync.todo : remote.cur[i] = base[i]
    /\ sync.pc = "observe" =>
          \A i \in Items : sync.seen[i] # Unread => sync.seen[i] = remote.cur[i]

\* A sync that failed and whose rollback is said to be complete, or not needed, has
\* restored what it found.
Restored ==
    /\ ~Syncing /\ last # NoOp
    /\ results[last].status \in {"needs-attention", "persistence-unknown"}
    /\ results[last].rb \in {"completed", "not-attempted"}
    => remote.cur = base

\* Only an operation's own artifacts are in its staging directory.
OwnFiles ==
    StagingPerOp => \A f \in remote.files : \E k \in DOMAIN Plan[f.dir] :
        f.item = Plan[f.dir][k].item /\ f.ver = Plan[f.dir][k].ver

\* The sync of one artifact that no fault hits: each command finds what the one before it
\* has left.
Alone == StagingPerOp /\ ~hit /\ last # NoOp /\ Len(Plan[last]) = 1

HealthyOK ==
    Alone =>
        /\ sync.pc # "rollback"
        /\ sync.pc \in Forward \ {"status", "mkdir"} => Current.dir \in remote.dirs
        /\ sync.pc = "install" => FileOf(Current) \in remote.files
        /\ sync.pc = "probe" => IsInstalled(remote, Action)
        /\ sync.pc = "cleanupDir" => FileOf(Current) \notin remote.files
        /\ ~Syncing => results[last].status = "completed" /\ ~results[last].planned

IInv ==
    /\ TypeOK
    /\ VersionsKept
    /\ PlaceOK
    /\ ~strayed => Intact /\ Restored /\ OwnFiles /\ HealthyOK

-----------------------------------------------------------------------------
(* Positions in a plan.                                                       *)

LEMMA FirstNumber ==
    ASSUME NEW T, T \subseteq Nat, T # {}
    PROVE  \E x \in T : \A y \in T : ~(y < x)
<1>1. IsWellFoundedOn(OpToRel(<, Nat), Nat)
  BY NatLessThanWellFounded
<1>2. \E x \in T : \A y \in T : ~(<<y, x>> \in OpToRel(<, Nat))
  BY <1>1, WFMin
<1>3. QED
  BY <1>2 DEF OpToRel

LEMMA LastNumber ==
    ASSUME NEW n \in Nat, NEW T, T \subseteq 1..n, T # {}
    PROVE  \E x \in T : \A y \in T : y <= x
<1> DEFINE D == {n - x : x \in T}
<1>1. D \subseteq Nat /\ D # {}
  <2>1. \A x \in T : n - x \in Nat
    OBVIOUS
  <2>2. QED
    BY <2>1
<1>2. PICK d \in D : \A e \in D : ~(e < d)
  BY <1>1, FirstNumber
<1>3. PICK x \in T : d = n - x
  BY <1>2
<1>4. ASSUME NEW y \in T PROVE y <= x
  <2>1. n - y \in D /\ ~(n - y < n - x)
    BY <1>2, <1>3
  <2>2. n \in Nat /\ x \in Nat /\ y \in Nat
    OBVIOUS
  <2>3. QED
    BY <2>1, <2>2
<1>5. QED
  BY <1>4

LEMMA PlanFacts ==
    ASSUME NEW op \in Ops
    PROVE  /\ Len(Plan[op]) \in Nat /\ DOMAIN Plan[op] = 1..Len(Plan[op])
           /\ \A k \in 1..Len(Plan[op]) : Plan[op][k] \in Actions
           /\ \A j, k \in 1..Len(Plan[op]) : Plan[op][j].item = Plan[op][k].item => j = k
           /\ Plan[op] # <<>> <=> Len(Plan[op]) # 0
<1>1. Plan[op] \in Seq(Actions)
  BY PlanAssumption
<1>2. /\ Len(Plan[op]) \in Nat /\ DOMAIN Plan[op] = 1..Len(Plan[op])
      /\ \A k \in 1..Len(Plan[op]) : Plan[op][k] \in Actions
      /\ Plan[op] # <<>> <=> Len(Plan[op]) # 0
  BY <1>1
<1>3. QED
  BY <1>2, PlanAssumption

\* While something is to be rolled back there is a last one.
LEMMA LastTodoFacts ==
    ASSUME TypeOK, PlaceOK, sync.pc = "rollback", sync.todo # {}
    PROVE  LastTodo \in sync.todo /\ LastTodo \in Changed(sync.prev) /\ LastTodo \in Items
<1> DEFINE P == Plan[sync.op]
           T == {k \in 1..Len(P) : P[k].item \in sync.todo}
<1>1. /\ sync.op \in Ops /\ sync.n \in 1..Len(P)
      /\ sync.todo \subseteq Changed(sync.prev) /\ Changed(sync.prev) \subseteq ItemsUpTo(sync.n)
  BY DEF PlaceOK, Syncing
<1>2. Len(P) \in Nat /\ DOMAIN P = 1..Len(P)
  BY <1>1, PlanFacts
<1>3. \A k \in 1..sync.n : k \in 1..Len(P)
  BY <1>1, <1>2
<1>4. T # {}
  <2>1. PICK i \in sync.todo : TRUE
    OBVIOUS
  <2>2. PICK k \in 1..sync.n : P[k].item = i
    BY <1>1, <2>1 DEF ItemsUpTo
  <2>3. QED
    BY <1>3, <2>2
<1>5. PICK x \in T : \A y \in T : y <= x
  BY <1>2, <1>4, LastNumber
<1>6. \E i \in sync.todo : \E k \in DOMAIN P :
          P[k].item = i /\ \A j \in DOMAIN P : P[j].item \in sync.todo => j <= k
  BY <1>2, <1>5
<1>7. LastTodo \in sync.todo
  BY <1>6 DEF LastTodo
<1>8. QED
  BY <1>1, <1>7 DEF Changed

-----------------------------------------------------------------------------
(* Commands and what they do.                                                 *)

LEMMA ActionFacts ==
    ASSUME TypeOK, sync.op \in Ops, sync.n \in 1..Len(Plan[sync.op])
    PROVE  Action \in Actions /\ Action.item \in Items /\ Action.ver \in Versions
  BY PlanFacts DEF Action, Actions

LEMMA StagingFacts ==
    ASSUME NEW op \in Ops, NEW i \in Items
    PROVE  StagingDir(op, i) \in Dirs
  BY DEF StagingDir, Dirs

\* The command at hand.
LEMMA CurrentFacts ==
    ASSUME TypeOK, PlaceOK, sync.pc \in Forward
    PROVE  /\ Current \in Command /\ Current.do = sync.pc /\ Current.ver \in Versions
           /\ Current.item = Action.item /\ Current.ver = Action.ver
           /\ Current.item \in Items
<1>1. sync.op \in Ops /\ sync.n \in 1..Len(Plan[sync.op])
  BY DEF PlaceOK, Syncing, Forward
<1>2. Action.item \in Items /\ Action.ver \in Versions
  BY <1>1, ActionFacts
<1>3. StagingDir(sync.op, Action.item) \in Dirs
  BY <1>1, <1>2, StagingFacts
<1>4. QED
  BY <1>2, <1>3 DEF Current, CommandFor, Command

LEMMA RollbackFacts ==
    ASSUME TypeOK, PlaceOK, sync.pc = "rollback", sync.todo # {}
    PROVE  /\ RollbackCommand \in Command /\ RollbackCommand.do = "rollback"
           /\ RollbackCommand.item = LastTodo /\ RollbackCommand.ver = sync.prev[LastTodo]
           /\ sync.prev[LastTodo] \in Receipt
<1>1. sync.op \in Ops /\ LastTodo \in Changed(sync.prev) /\ LastTodo \in Items
  BY LastTodoFacts DEF PlaceOK
<1>2. sync.prev[LastTodo] \in Receipt
  BY <1>1 DEF Changed, TypeOK, Call, Before
<1>3. StagingDir(sync.op, LastTodo) \in Dirs
  BY <1>1, StagingFacts
<1>4. QED
  BY <1>1, <1>2, <1>3 DEF RollbackCommand, CommandFor, Command

LEMMA PublishedFacts ==
    ASSUME NEW rm \in Machine, NEW i \in Items, NEW v \in Versions, NEW c,
           c.item = i, c.ver = v
    PROVE  /\ Published(rm, c) \in Machine
           /\ Published(rm, c).cur = rm.cur /\ Published(rm, c).files = rm.files
           /\ Published(rm, c).dirs = rm.dirs
           /\ Published(rm, c).vers = [rm.vers EXCEPT ![i] = @ \cup {v}]
<1>1. Published(rm, c) = [rm EXCEPT !.vers = [rm.vers EXCEPT ![i] = @ \cup {v}]]
  BY DEF Published, Machine
<1> DEFINE vs == [rm.vers EXCEPT ![i] = @ \cup {v}]
<1>2. vs \in [Items -> SUBSET Versions]
  BY DEF Machine
<1> HIDE DEF vs
<1>3. QED
  BY <1>1, <1>2 DEF Machine, vs

LEMMA SwitchedFacts ==
    ASSUME NEW rm \in Machine, NEW i \in Items, NEW v \in Receipt, NEW c,
           c.item = i, c.ver = v
    PROVE  /\ Switched(rm, c) \in Machine
           /\ Switched(rm, c).vers = rm.vers /\ Switched(rm, c).files = rm.files
           /\ Switched(rm, c).dirs = rm.dirs
           /\ Switched(rm, c).cur = [rm.cur EXCEPT ![i] = v]
<1> DEFINE cs == [rm.cur EXCEPT ![i] = v]
<1>1. Switched(rm, c) = [rm EXCEPT !.cur = cs]
  BY DEF Switched, Machine
<1>2. cs \in [Items -> Receipt]
  BY DEF Machine
<1> HIDE DEF cs
<1>3. QED
  BY <1>1, <1>2 DEF Machine, cs

\* What a command may have done: no version is taken away, only its item may have become
\* another, and it is still installed if it was.
Did(rm, c, new) ==
    /\ new \in Machine
    /\ \A i \in Items :
          /\ rm.vers[i] \subseteq new.vers[i]
          /\ i # c.item => new.cur[i] = rm.cur[i]
          /\ c.do \notin {"install", "rollback"} => new.cur[i] = rm.cur[i]
          /\ rm.cur[i] \in rm.vers[i] \cup {Missing} =>
                new.cur[i] \in new.vers[i] \cup {Missing}
    /\ c.do # "cleanupDir" => rm.dirs \subseteq new.dirs
    /\ \A f \in new.files : f \in rm.files \/ (c.do = "upload" /\ f = FileOf(c))

\* What it has done when it succeeded.
Completed(c, new) ==
    /\ c.do \in {"install", "rollback"} => new.cur[c.item] = c.ver
    /\ c.do = "mkdir" => c.dir \in new.dirs
    /\ c.do = "upload" => FileOf(c) \in new.files
    /\ c.do = "cleanup" => FileOf(c) \notin new.files

LEMMA DidNothing ==
    ASSUME NEW rm \in Machine, NEW c
    PROVE  Did(rm, c, rm)
  BY DEF Did

LEMMA CommandParts ==
    ASSUME NEW c \in Command
    PROVE  /\ c.item \in Items /\ c.ver \in Receipt /\ c.dir \in Dirs
           /\ c.do \in Forward \cup {"rollback"}
           /\ c.do \in Forward => c.ver \in Versions /\ FileOf(c) \in File
<1>1. CASE c \in [do : Forward, item : Items, ver : Versions, dir : Dirs]
  BY <1>1 DEF Receipt, FileOf, File
<1>2. CASE c \in [do : {"rollback"}, item : Items, ver : Receipt, dir : Dirs]
  BY <1>2 DEF Forward
<1>3. QED
  BY <1>1, <1>2 DEF Command

LEMMA PublishDid ==
    ASSUME NEW rm \in Machine, NEW c \in Command, c.do = "install"
    PROVE  Did(rm, c, Published(rm, c))
<1> DEFINE new == Published(rm, c)
<1>1. c.item \in Items /\ c.ver \in Versions
  BY CommandParts DEF Forward
<1>2. /\ new \in Machine /\ new.cur = rm.cur /\ new.files = rm.files /\ new.dirs = rm.dirs
      /\ new.vers = [rm.vers EXCEPT ![c.item] = @ \cup {c.ver}]
  BY <1>1, PublishedFacts
<1> HIDE DEF new
<1>3. \A i \in Items : rm.vers[i] \subseteq new.vers[i]
  BY <1>2 DEF Machine
<1>4. QED
  BY <1>2, <1>3 DEF Did, new

LEMMA InstallDid ==
    ASSUME NEW rm \in Machine, NEW c \in Command, c.do = "install"
    PROVE  LET new == Switched(Published(rm, c), c) IN Did(rm, c, new) /\ Completed(c, new)
<1> DEFINE mid == Published(rm, c)
           new == Switched(mid, c)
<1>1. c.item \in Items /\ c.ver \in Versions /\ c.ver \in Receipt
  BY CommandParts DEF Forward
<1>2. /\ mid \in Machine /\ mid.cur = rm.cur /\ mid.files = rm.files /\ mid.dirs = rm.dirs
      /\ mid.vers = [rm.vers EXCEPT ![c.item] = @ \cup {c.ver}]
  BY <1>1, PublishedFacts
<1> HIDE DEF mid
<1>3. /\ new \in Machine /\ new.vers = mid.vers /\ new.files = rm.files /\ new.dirs = rm.dirs
      /\ new.cur = [rm.cur EXCEPT ![c.item] = c.ver]
  BY <1>1, <1>2, SwitchedFacts
<1> HIDE DEF new
<1>4. \A i \in Items : rm.vers[i] \subseteq new.vers[i] /\ c.ver \in new.vers[c.item]
  BY <1>1, <1>2, <1>3 DEF Machine
<1>5. new.cur[c.item] = c.ver /\ \A i \in Items : i # c.item => new.cur[i] = rm.cur[i]
  BY <1>1, <1>3 DEF Machine
<1>6. \A i \in Items : rm.cur[i] \in rm.vers[i] \cup {Missing} =>
                          new.cur[i] \in new.vers[i] \cup {Missing}
  BY <1>4, <1>5
<1>7. Did(rm, c, new) /\ Completed(c, new)
  BY <1>3, <1>4, <1>5, <1>6 DEF Did, Completed
<1>8. QED
  BY <1>7 DEF new, mid

LEMMA RollbackDid ==
    ASSUME NEW rm \in Machine, NEW c \in Command, c.do = "rollback", Works(rm, c)
    PROVE  Did(rm, c, Switched(rm, c)) /\ Completed(c, Switched(rm, c))
<1> DEFINE new == Switched(rm, c)
<1>1. c.item \in Items /\ c.ver \in Receipt /\ c.ver \in rm.vers[c.item] \cup {Missing}
  BY CommandParts DEF Works
<1>2. /\ new \in Machine /\ new.vers = rm.vers /\ new.files = rm.files /\ new.dirs = rm.dirs
      /\ new.cur = [rm.cur EXCEPT ![c.item] = c.ver]
  BY <1>1, SwitchedFacts
<1> HIDE DEF new
<1>3. new.cur[c.item] = c.ver /\ \A i \in Items : i # c.item => new.cur[i] = rm.cur[i]
  BY <1>1, <1>2 DEF Machine
<1>4. \A i \in Items : rm.cur[i] \in rm.vers[i] \cup {Missing} =>
                          new.cur[i] \in new.vers[i] \cup {Missing}
  BY <1>1, <1>2, <1>3
<1>5. QED
  BY <1>2, <1>3, <1>4 DEF Did, Completed, new

LEMMA EffectFacts ==
    ASSUME NEW rm \in Machine, NEW c \in Command, Works(rm, c)
    PROVE  Did(rm, c, Effect(rm, c)) /\ Completed(c, Effect(rm, c))
<1> DEFINE new == Effect(rm, c)
<1>1. c.dir \in Dirs /\ c.do \in Forward \cup {"rollback"}
      /\ (c.do \in Forward => FileOf(c) \in File)
  BY CommandParts
<1>2. CASE c.do = "install"
  <2>1. new = Switched(Published(rm, c), c)
    BY <1>2 DEF Effect
  <2>2. QED
    BY <1>2, <2>1, InstallDid
<1>3. CASE c.do = "rollback"
  <2>1. new = Switched(rm, c)
    BY <1>3 DEF Effect
  <2>2. QED
    BY <1>3, <2>1, RollbackDid
<1>4. CASE c.do \in {"mkdir", "cleanupDir"}
  <2>1. PICK ds \in SUBSET Dirs : /\ new = [rm EXCEPT !.dirs = ds]
                                  /\ c.do = "mkdir" => ds = rm.dirs \cup {c.dir}
    BY <1>1, <1>4, ZenonT(60) DEF Effect, Machine
  <2>2. new = [rm EXCEPT !.dirs = ds] /\ ds \in SUBSET Dirs
    BY <2>1
  <2> HIDE DEF new
  <2>3. new \in Machine /\ new.cur = rm.cur /\ new.vers = rm.vers /\ new.files = rm.files
        /\ new.dirs = ds
    BY <2>2 DEF Machine
  <2>4. Did(rm, c, new) /\ Completed(c, new)
    BY <1>4, <2>1, <2>3 DEF Did, Completed
  <2>5. QED
    BY <2>4 DEF new
<1>5. CASE c.do \in {"upload", "cleanup"}
  <2>1. FileOf(c) \in File
    BY <1>1, <1>5 DEF Forward
  <2>2. PICK fs \in SUBSET File : /\ new = [rm EXCEPT !.files = fs]
                                  /\ c.do = "upload" => fs = rm.files \cup {FileOf(c)}
                                  /\ c.do = "cleanup" => fs = rm.files \ {FileOf(c)}
    <3>1. rm.files \cup {FileOf(c)} \in SUBSET File /\ rm.files \ {FileOf(c)} \in SUBSET File
      BY <2>1 DEF Machine
    <3>2. CASE c.do = "upload"
      <4>1. new = [rm EXCEPT !.files = rm.files \cup {FileOf(c)}]
        BY <3>2 DEF Effect, Machine
      <4>2. QED
        BY <3>1, <3>2, <4>1
    <3>3. CASE c.do = "cleanup"
      <4>1. new = [rm EXCEPT !.files = rm.files \ {FileOf(c)}]
        BY <3>3 DEF Effect, Machine
      <4>2. QED
        BY <3>1, <3>3, <4>1
    <3>4. QED
      BY <1>5, <3>2, <3>3
  <2>3. new = [rm EXCEPT !.files = fs] /\ fs \in SUBSET File
    BY <2>2
  <2> HIDE DEF new
  <2>4. new \in Machine /\ new.cur = rm.cur /\ new.vers = rm.vers /\ new.files = fs
        /\ new.dirs = rm.dirs
    BY <2>3 DEF Machine
  <2>5. Did(rm, c, new) /\ Completed(c, new)
    BY <1>5, <2>2, <2>4 DEF Did, Completed
  <2>6. QED
    BY <2>5 DEF new
<1>6. CASE c.do \in {"status", "probe"}
  <2>1. new = rm
    BY <1>6 DEF Effect
  <2>2. QED
    BY <1>6, <2>1 DEF Did, Completed
<1>7. QED
  BY <1>1, <1>2, <1>3, <1>4, <1>5, <1>6 DEF Forward

LEMMA OutcomeFacts ==
    ASSUME NEW rm \in Machine, NEW c \in Command, NEW new \in Outcomes(rm, c)
    PROVE  Did(rm, c, new)
<1>1. CASE new = rm
  BY <1>1, DidNothing
<1>2. CASE Works(rm, c) /\ new = Effect(rm, c)
  BY <1>2, EffectFacts
<1>3. CASE c.do = "install" /\ new = Published(rm, c)
  BY <1>3, PublishDid
<1>4. QED
  BY <1>1, <1>2, <1>3 DEF Outcomes

\* A command that failed, and may be running on.
LEMMA LeavesFacts ==
    ASSUME TypeOK, NEW c \in Command, Leaves(c)
    PROVE  /\ Did(remote, c, remote') /\ late' \subseteq Command /\ strayed' \in BOOLEAN
           /\ ~strayed' => ~strayed /\ late' = late
<1>1. remote \in Machine /\ late \subseteq Command /\ strayed \in BOOLEAN
  BY DEF TypeOK
<1>2. CASE remote' \in Outcomes(remote, c) /\ UNCHANGED outlived
  BY <1>1, <1>2, OutcomeFacts DEF outlived
<1>3. CASE late' = late \cup {c} /\ strayed' = TRUE /\ UNCHANGED remote
  <2>1. Did(remote, c, remote')
    BY <1>1, <1>3, DidNothing
  <2>2. QED
    BY <1>1, <1>3, <2>1
<1>4. QED
  BY <1>2, <1>3 DEF Leaves

LEMMA FailsWithFacts ==
    ASSUME TypeOK, NEW c \in Command, NEW kind, FailsWith(kind, c)
    PROVE  /\ Did(remote, c, remote') /\ late' \subseteq Command /\ strayed' \in BOOLEAN
           /\ ~strayed' => ~strayed /\ late' = late
<1>1. CASE UNCHANGED <<remote, outlived>>
  BY <1>1, DidNothing DEF outlived, TypeOK
<1>2. QED
  BY <1>1, LeavesFacts DEF FailsWith

-----------------------------------------------------------------------------
(* Types.                                                                     *)

LEMMA UntouchedType ==
    /\ NothingTouched \in Before /\ NothingRead \in [Items -> Receipt \cup {Unread}]
    /\ \A i \in Items : NothingTouched[i] = Untouched
    /\ Changed(NothingTouched) = {}
  BY DEF NothingTouched, NothingRead, Before, Changed

LEMMA IdleType ==
    /\ Idle \in Call /\ Idle.pc = "idle" /\ Idle.prev = NothingTouched
    /\ Idle.seen = NothingRead /\ Idle.n = 1
<1>1. /\ NothingTouched \in Before /\ NothingRead \in [Items -> Receipt \cup {Unread}]
      /\ 1 \in Nat /\ {} \in SUBSET Items /\ NoOp \in Ops \cup {NoOp}
      /\ "none" \in Errors \cup {"none", "transport", "garbled"}
      /\ "not-attempted" \in RollbackStatus /\ "idle" \in Forward \cup {"idle", "rollback", "observe"}
  BY UntouchedType DEF RollbackStatus
<1>2. QED
  BY <1>1 DEF Idle, Call

\* What a sync that begins, or ends without a rollback, leaves as its result.
LEMMA FreshResult ==
    ASSUME NEW status \in {"running", "completed", "incompatible"}
    PROVE  LET r == Result(status, "not-attempted", NothingTouched, FALSE)
           IN  r \in Results /\ r.status = status /\ r.prev = NothingTouched /\ r.planned = FALSE
<1>1. "not-attempted" \in RollbackStatus /\ NothingTouched \in Before
  BY UntouchedType DEF RollbackStatus
<1>2. QED
  BY <1>1 DEF Result, Results

\* One operation's result changes.
LEMMA ResultsType ==
    ASSUME TypeOK, NEW op \in Ops, NEW r \in Results, results' = [results EXCEPT ![op] = r]
    PROVE  /\ results' \in [Ops -> Results \cup {NoResult}]
           /\ results'[op] = r /\ \A o \in Ops \ {op} : results'[o] = results[o]
  BY DEF TypeOK

\* The call goes on to the next action, or is complete.
LEMMA NextActionFacts ==
    ASSUME TypeOK, sync.op \in Ops, sync.n \in 1..Len(Plan[sync.op]), NextAction
    PROVE  /\ sync' \in Call /\ results' \in [Ops -> Results \cup {NoResult}]
           /\ \/ /\ sync.n = Len(Plan[sync.op]) /\ sync' = Idle
                 /\ results' = [results EXCEPT ![sync.op] =
                        Result("completed", "not-attempted", NothingTouched, FALSE)]
              \/ /\ sync.n + 1 \in 1..Len(Plan[sync.op]) /\ results' = results
                 /\ sync'.pc = "status" /\ sync'.n = sync.n + 1 /\ sync'.op = sync.op
                 /\ sync'.prev = sync.prev
<1>1. sync \in Call /\ Len(Plan[sync.op]) \in Nat
  BY PlanFacts DEF TypeOK
<1>2. CASE sync.n = Len(Plan[sync.op])
  <2>1. /\ sync' = Idle
        /\ results' = [results EXCEPT ![sync.op] =
               Result("completed", "not-attempted", NothingTouched, FALSE)]
    BY <1>2 DEF NextAction
  <2>2. results' \in [Ops -> Results \cup {NoResult}]
    BY <2>1, FreshResult, ResultsType
  <2>3. QED
    BY <1>2, <2>1, <2>2, IdleType
<1>3. CASE sync.n # Len(Plan[sync.op])
  <2>1. sync' = [sync EXCEPT !.pc = "status", !.n = sync.n + 1] /\ results' = results
    BY <1>1, <1>3 DEF NextAction, Call
  <2>2. sync.n + 1 \in 1..Len(Plan[sync.op]) /\ sync.n + 1 \in Nat
    BY <1>1, <1>3
  <2> DEFINE m == sync.n + 1
  <2>3. sync' = [sync EXCEPT !.pc = "status", !.n = m] /\ m \in Nat
    BY <2>1, <2>2
  <2>4. "status" \in Forward \cup {"idle", "rollback", "observe"}
    BY DEF Forward
  <2> HIDE DEF m
  <2>5. /\ sync' \in Call /\ sync'.pc = "status" /\ sync'.n = m /\ sync'.op = sync.op
        /\ sync'.prev = sync.prev
    BY <1>1, <2>3, <2>4 DEF Call
  <2>6. results' \in [Ops -> Results \cup {NoResult}]
    BY <2>1 DEF TypeOK
  <2>7. QED
    BY <2>1, <2>2, <2>5, <2>6 DEF m
<1>4. QED
  BY <1>2, <1>3

\* The call turns to rolling back.
LEMMA BrokenFacts ==
    ASSUME TypeOK, NEW kind \in Errors \cup {"transport", "garbled"}, Broken(kind)
    PROVE  /\ sync' \in Call /\ results' = results
           /\ sync'.pc = "rollback" /\ sync'.op = sync.op /\ sync'.n = sync.n
           /\ sync'.prev = sync.prev /\ sync'.err = kind /\ sync'.todo = Changed(sync.prev)
           /\ sync'.rb = IF Changed(sync.prev) = {} THEN "not-attempted" ELSE "completed"
<1> DEFINE todo == Changed(sync.prev)
           rb == IF Changed(sync.prev) = {} THEN "not-attempted" ELSE "completed"
<1>1. /\ sync' = [sync EXCEPT !.pc = "rollback", !.err = kind, !.todo = todo, !.rb = rb]
      /\ results' = results
  BY DEF Broken
<1>2. /\ todo \in SUBSET Items /\ rb \in RollbackStatus
      /\ kind \in Errors \cup {"none", "transport", "garbled"} /\ sync \in Call
  BY DEF Changed, RollbackStatus, TypeOK
<1> HIDE DEF todo, rb
<1>3. /\ sync' \in Call
      /\ sync'.pc = "rollback" /\ sync'.op = sync.op /\ sync'.n = sync.n
      /\ sync'.prev = sync.prev /\ sync'.err = kind /\ sync'.todo = todo /\ sync'.rb = rb
  BY <1>1, <1>2 DEF Call
<1>4. QED
  BY <1>1, <1>3 DEF todo, rb

Stays == sync'.op = sync.op /\ sync'.n = sync.n /\ sync'.prev = sync.prev

LEMMA PcFacts ==
    ASSUME TypeOK, NEW pc \in Forward, sync' = [sync EXCEPT !.pc = pc]
    PROVE  sync' \in Call /\ sync'.pc = pc /\ Stays
<1>1. sync \in Call
  BY DEF TypeOK
<1>2. QED
  BY <1>1 DEF Call, Stays

LEMMA RolledBackFacts ==
    ASSUME TypeOK, NEW rb \in RollbackStatus, RolledBack(rb)
    PROVE  /\ sync' \in Call /\ Stays /\ sync'.pc = sync.pc /\ sync'.err = sync.err
           /\ sync'.todo = sync.todo \ {LastTodo} /\ sync'.rb = rb
<1> DEFINE todo == sync.todo \ {LastTodo}
<1>1. sync \in Call /\ todo \in SUBSET Items /\ sync' = [sync EXCEPT !.todo = todo, !.rb = rb]
  BY DEF RolledBack, TypeOK, Call
<1> HIDE DEF todo
<1>2. /\ sync' \in Call /\ Stays /\ sync'.pc = sync.pc /\ sync'.err = sync.err
      /\ sync'.todo = todo /\ sync'.rb = rb
  BY <1>1 DEF Call, Stays
<1>3. QED
  BY <1>2 DEF todo

LEMMA WorseFacts ==
    ASSUME TypeOK, NEW kind \in Errors \cup {"transport"}
    PROVE  Worse(sync.rb, kind) \in {"unknown", "failed"}
  BY DEF Worse

\* A version is read and not the wanted one: it is remembered before anything is changed.
LEMMA ReadStatusFacts ==
    ASSUME TypeOK, PlaceOK, ReadStatus
    PROVE  /\ sync' \in Call /\ results' \in [Ops -> Results \cup {NoResult}]
           /\ sync.op \in Ops /\ sync.n \in 1..Len(Plan[sync.op]) /\ Action.item \in Items
           /\ \/ IsInstalled(remote, Action) /\ NextAction
              \/ /\ results' = results /\ sync'.pc = "mkdir"
                 /\ sync'.op = sync.op /\ sync'.n = sync.n
                 /\ sync'.prev = [sync.prev EXCEPT ![Action.item] = remote.cur[Action.item]]
<1>1. /\ sync.op \in Ops /\ sync.n \in 1..Len(Plan[sync.op]) /\ sync.pc = "status"
  BY DEF PlaceOK, Syncing, Forward, ReadStatus
<1>2. Action.item \in Items
  BY <1>1, ActionFacts
<1>3. CASE IsInstalled(remote, Action)
  <2>1. NextAction
    BY <1>3 DEF ReadStatus
  <2>2. QED
    BY <1>1, <1>2, <1>3, <2>1, NextActionFacts
<1>4. CASE ~IsInstalled(remote, Action)
  <2> DEFINE prev == [sync.prev EXCEPT ![Action.item] = remote.cur[Action.item]]
  <2>1. sync \in Call /\ sync.prev \in Before /\ remote.cur[Action.item] \in Receipt
    BY <1>2 DEF TypeOK, Call, Machine
  <2>2. prev \in Before
    BY <2>1 DEF Before
  <2>3. sync' = [sync EXCEPT !.pc = "mkdir", !.prev = prev] /\ results' = results
    BY <1>4, <2>1 DEF ReadStatus, Call
  <2>4. "mkdir" \in Forward \cup {"idle", "rollback", "observe"}
    BY DEF Forward
  <2> HIDE DEF prev
  <2>5. /\ sync' \in Call /\ sync'.pc = "mkdir" /\ sync'.op = sync.op /\ sync'.n = sync.n
        /\ sync'.prev = prev
    BY <2>1, <2>2, <2>3, <2>4 DEF Call
  <2>6. results' \in [Ops -> Results \cup {NoResult}]
    BY <2>3 DEF TypeOK
  <2>7. QED
    BY <1>1, <1>2, <2>3, <2>5, <2>6 DEF prev
<1>5. QED
  BY <1>3, <1>4

\* A sync begins.
LEMMA StartSyncFacts ==
    ASSUME TypeOK, NEW op \in Ops, StartSync(op)
    PROVE  /\ sync' \in Call /\ sync'.prev = NothingTouched
           /\ IF Plan[op] = <<>> THEN sync' = Idle
              ELSE sync'.pc = "status" /\ sync'.op = op /\ sync'.n = 1
           /\ results' \in [Ops -> Results \cup {NoResult}]
           /\ results'[op].prev = NothingTouched /\ ~results'[op].planned
           /\ results'[op].status = IF Plan[op] = <<>> THEN "completed" ELSE "running"
           /\ \A o \in Ops \ {op} : results'[o] = results[o]
           /\ last' = op /\ base' = remote.cur /\ hit' = FALSE
           /\ sync.pc = "idle" /\ UNCHANGED <<remote, outlived, faults>>
<1>1. /\ sync' = IF Plan[op] = <<>> THEN Idle ELSE [Idle EXCEPT !.pc = "status", !.op = op]
      /\ last' = op /\ base' = remote.cur /\ hit' = FALSE
      /\ sync.pc = "idle" /\ UNCHANGED <<remote, outlived, faults>>
  BY DEF StartSync
<1> DEFINE status == IF Plan[op] = <<>> THEN "completed" ELSE "running"
           r == Result(status, "not-attempted", NothingTouched, FALSE)
<1>2. results' = [results EXCEPT ![op] = r]
  BY DEF StartSync
<1>3. status \in {"running", "completed", "incompatible"}
  OBVIOUS
<1> HIDE DEF status
<1>4. r \in Results /\ r.status = status /\ r.prev = NothingTouched /\ r.planned = FALSE
  BY <1>3, FreshResult
<1> HIDE DEF r
<1>5. /\ results' \in [Ops -> Results \cup {NoResult}]
      /\ results'[op] = r /\ \A o \in Ops \ {op} : results'[o] = results[o]
  BY <1>2, <1>4, ResultsType
<1>6. /\ sync' \in Call /\ sync'.prev = NothingTouched
      /\ IF Plan[op] = <<>> THEN sync' = Idle
         ELSE sync'.pc = "status" /\ sync'.op = op /\ sync'.n = 1
  <2>1. CASE Plan[op] = <<>>
    BY <1>1, <2>1, IdleType
  <2>2. CASE Plan[op] # <<>>
    <3>1. sync' = [Idle EXCEPT !.pc = "status", !.op = op]
      BY <1>1, <2>2
    <3>2. "status" \in Forward \cup {"idle", "rollback", "observe"} /\ op \in Ops \cup {NoOp}
      BY DEF Forward
    <3>3. Idle \in Call /\ Idle.prev = NothingTouched /\ Idle.n = 1
      BY IdleType
    <3>4. QED
      BY <2>2, <3>1, <3>2, <3>3 DEF Call
  <2>3. QED
    BY <2>1, <2>2
<1>7. QED
  BY <1>1, <1>4, <1>5, <1>6 DEF status

LEMMA RejectPlanFacts ==
    ASSUME TypeOK, NEW op \in Ops, RejectPlan(op)
    PROVE  /\ results' \in [Ops -> Results \cup {NoResult}]
           /\ results'[op].prev = NothingTouched /\ results'[op].status = "incompatible"
           /\ \A o \in Ops \ {op} : results'[o] = results[o]
           /\ last' = NoOp /\ sync.pc = "idle"
           /\ UNCHANGED <<remote, outlived, sync, base, hit, faults>>
<1>1. /\ results' = [results EXCEPT ![op] =
               Result("incompatible", "not-attempted", NothingTouched, FALSE)]
      /\ last' = NoOp /\ sync.pc = "idle"
      /\ UNCHANGED <<remote, outlived, sync, base, hit, faults>>
  BY DEF RejectPlan
<1> DEFINE r == Result("incompatible", "not-attempted", NothingTouched, FALSE)
<1>2. r \in Results /\ r.prev = NothingTouched /\ r.status = "incompatible"
  BY FreshResult
<1> HIDE DEF r
<1>3. /\ results' \in [Ops -> Results \cup {NoResult}]
      /\ results'[op] = r /\ \A o \in Ops \ {op} : results'[o] = results[o]
  BY <1>1, <1>2, ResultsType DEF r
<1>4. QED
  BY <1>1, <1>2, <1>3

\* A failed sync gets its result.
LEMMA SettleFailureFacts ==
    ASSUME TypeOK, PlaceOK, SettleFailure
    PROVE  LET op == sync.op IN
           /\ op \in Ops /\ results' \in [Ops -> Results \cup {NoResult}]
           /\ results'[op].prev = sync.prev /\ results'[op].planned
           /\ results'[op].rb = sync.rb /\ results'[op].status # "completed"
           /\ \A o \in Ops \ {op} : results'[o] = results[o]
           /\ sync' = Idle /\ sync.pc = "rollback" /\ sync.todo = {}
           /\ UNCHANGED <<remote, outlived, history, faults>>
<1> DEFINE status == StatusAfter(sync.err, sync.rb)
           r == Result(status, sync.rb, sync.prev, TRUE)
<1>1. /\ results' = [results EXCEPT ![sync.op] = r]
      /\ sync' = Idle /\ sync.pc = "rollback" /\ sync.todo = {}
      /\ UNCHANGED <<remote, outlived, history, faults>>
  BY DEF SettleFailure
<1>2. status \in {"needs-attention", "persistence-unknown"}
  BY DEF StatusAfter
<1>3. sync.op \in Ops /\ sync.rb \in RollbackStatus /\ sync.prev \in Before
  BY <1>1 DEF PlaceOK, TypeOK, Call
<1> HIDE DEF status
<1>4. r \in Results /\ r.rb = sync.rb /\ r.prev = sync.prev /\ r.planned = TRUE
      /\ r.status = status
  BY <1>2, <1>3 DEF Result, Results
<1> HIDE DEF r
<1>5. /\ results' \in [Ops -> Results \cup {NoResult}]
      /\ results'[sync.op] = r /\ \A o \in Ops \ {sync.op} : results'[o] = results[o]
  BY <1>1, <1>3, <1>4, ResultsType
<1>6. QED
  BY <1>1, <1>2, <1>3, <1>4, <1>5

LEMMA StartReconcileFacts ==
    ASSUME TypeOK, NEW op \in Ops, StartReconcile(op)
    PROVE  /\ sync' \in Call /\ sync'.pc = "observe" /\ sync'.op = op /\ sync'.n = 1
           /\ sync'.prev = results[op].prev /\ sync'.seen = NothingRead
           /\ Planned(op) /\ sync.pc = "idle"
           /\ UNCHANGED <<remote, outlived, results, history, faults>>
<1> DEFINE prev == results[op].prev
<1>1. sync' = [Idle EXCEPT !.pc = "observe", !.op = op, !.prev = prev]
  BY DEF StartReconcile
<1>2. prev \in Before
  <2>1. results[op] \in Results
    BY DEF StartReconcile, Planned, TypeOK
  <2>2. QED
    BY <2>1 DEF Results
<1> HIDE DEF prev
<1>3. Idle \in Call /\ Idle.n = 1 /\ Idle.seen = NothingRead
  BY IdleType
<1>4. /\ sync' \in Call /\ sync'.pc = "observe" /\ sync'.op = op /\ sync'.n = 1
      /\ sync'.prev = prev /\ sync'.seen = NothingRead
  BY <1>1, <1>2, <1>3 DEF Call
<1>5. QED
  BY <1>4 DEF StartReconcile, prev

\* An item is read, or cannot be read.
LEMMA ObserveFacts ==
    ASSUME TypeOK, PlaceOK, Observe
    PROVE  /\ sync' \in Call /\ sync'.pc = "observe" /\ sync'.op = sync.op
           /\ sync'.n = sync.n + 1 /\ sync'.prev = sync.prev
           /\ sync.pc = "observe" /\ sync.op \in Ops
           /\ sync.n \in 1..Len(Plan[sync.op]) /\ Action.item \in Items
           /\ \/ sync'.seen = [sync.seen EXCEPT ![Action.item] = remote.cur[Action.item]]
              \/ sync'.seen = sync.seen
           /\ faults' \in Nat
           /\ UNCHANGED <<remote, outlived, results, history>>
<1>1. /\ sync.pc = "observe" /\ sync.n <= Len(Plan[sync.op])
      /\ UNCHANGED <<remote, outlived, results, history>>
  BY DEF Observe
<1>2. sync.op \in Ops /\ sync.n \in 1..(Len(Plan[sync.op]) + 1)
  BY <1>1 DEF PlaceOK
<1>3. sync.n \in 1..Len(Plan[sync.op]) /\ sync.n + 1 \in Nat
  BY <1>1, <1>2, PlanFacts
<1>4. Action.item \in Items
  BY <1>2, <1>3, ActionFacts
<1>5. sync \in Call /\ remote.cur[Action.item] \in Receipt
      /\ sync.seen \in [Items -> Receipt \cup {Unread}]
  BY <1>4 DEF TypeOK, Call, Machine
<1>6. faults' \in Nat
  BY SMTT(30) DEF Observe, TypeOK
<1>7. PICK seen \in [Items -> Receipt \cup {Unread}] :
         /\ sync' = [sync EXCEPT !.n = sync.n + 1, !.seen = seen]
         /\ \/ seen = [sync.seen EXCEPT ![Action.item] = remote.cur[Action.item]]
            \/ seen = sync.seen
  <2>1. CASE sync' = [sync EXCEPT !.n = @ + 1,
                                  !.seen[Action.item] = remote.cur[Action.item]]
    <3> DEFINE seen == [sync.seen EXCEPT ![Action.item] = remote.cur[Action.item]]
    <3>1. seen \in [Items -> Receipt \cup {Unread}]
      BY <1>5
    <3>2. sync' = [sync EXCEPT !.n = sync.n + 1, !.seen = seen]
      BY <1>5, <2>1 DEF Call
    <3>3. QED
      BY <3>1, <3>2
  <2>2. CASE sync' = [sync EXCEPT !.n = @ + 1]
    <3>1. sync' = [sync EXCEPT !.n = sync.n + 1, !.seen = sync.seen]
      BY <1>5, <2>2 DEF Call
    <3>2. QED
      BY <1>5, <3>1
  <2>3. QED
    BY <2>1, <2>2 DEF Observe
<1> DEFINE m == sync.n + 1
<1>8. sync' = [sync EXCEPT !.n = m, !.seen = seen] /\ m \in Nat
  BY <1>3, <1>7
<1> HIDE DEF m
<1>9. /\ sync' \in Call /\ sync'.pc = sync.pc /\ sync'.op = sync.op /\ sync'.n = m
      /\ sync'.prev = sync.prev /\ sync'.seen = seen
  BY <1>5, <1>8 DEF Call
<1>10. QED
  BY <1>1, <1>2, <1>3, <1>4, <1>6, <1>7, <1>9 DEF m

\* What reconciling makes of what it has seen.
LEMMA JudgedFacts ==
    ASSUME TypeOK
    PROVE  /\ Judged \in Results /\ Judged.prev = sync.prev /\ Judged.planned
           /\ Judged.status = "completed" => Changed(sync.prev) = {} /\ Verified
           /\ Judged.rb \in {"completed", "not-attempted"} /\ Changed(sync.prev) # {} =>
                 RestoredAsSeen = "completed"
<1>1. sync.prev \in Before /\ "not-attempted" \in RollbackStatus
  BY DEF TypeOK, Call, RollbackStatus
<1>2. CASE Changed(sync.prev) # {}
  <2> DEFINE rb == RestoredAsSeen
             status == IF rb = "completed" THEN "needs-attention" ELSE "persistence-unknown"
  <2>1. Judged = Result(status, rb, sync.prev, TRUE)
    BY <1>2 DEF Judged
  <2>2. rb \in RollbackStatus \ {"not-attempted"}
    BY DEF RestoredAsSeen, RollbackStatus
  <2> HIDE DEF rb
  <2>3. status \in {"needs-attention", "persistence-unknown"}
    OBVIOUS
  <2> HIDE DEF status
  <2>4. Judged \in Results /\ Judged.prev = sync.prev /\ Judged.planned = TRUE
        /\ Judged.status = status /\ Judged.rb = rb
    BY <1>1, <2>1, <2>2, <2>3 DEF Result, Results
  <2>5. QED
    BY <1>2, <2>2, <2>3, <2>4 DEF rb
<1>3. CASE Changed(sync.prev) = {}
  <2> DEFINE status == IF Verified THEN "completed" ELSE "needs-attention"
  <2>1. Judged = Result(status, "not-attempted", sync.prev, TRUE)
    BY <1>3 DEF Judged
  <2>2. status \in {"completed", "needs-attention"} /\ (status = "completed" => Verified)
    OBVIOUS
  <2> HIDE DEF status
  <2>3. Judged \in Results /\ Judged.prev = sync.prev /\ Judged.planned = TRUE
        /\ Judged.status = status
    BY <1>1, <2>1, <2>2 DEF Result, Results
  <2>4. QED
    BY <1>3, <2>2, <2>3
<1>4. QED
  BY <1>2, <1>3

LEMMA SettleReconcileFacts ==
    ASSUME TypeOK, PlaceOK, SettleReconcile
    PROVE  LET op == sync.op IN
           /\ op \in Ops /\ results' \in [Ops -> Results \cup {NoResult}]
           /\ results'[op] = Judged /\ \A o \in Ops \ {op} : results'[o] = results[o]
           /\ sync' = Idle /\ sync.pc = "observe"
           /\ UNCHANGED <<remote, outlived, history, faults>>
<1> DEFINE r == Judged
<1>1. /\ results' = [results EXCEPT ![sync.op] = r] /\ sync' = Idle /\ sync.pc = "observe"
      /\ UNCHANGED <<remote, outlived, history, faults>>
  BY DEF SettleReconcile
<1>2. sync.op \in Ops
  BY <1>1 DEF PlaceOK
<1>3. r \in Results
  BY JudgedFacts
<1> HIDE DEF r
<1>4. /\ results' \in [Ops -> Results \cup {NoResult}]
      /\ results'[sync.op] = r /\ \A o \in Ops \ {sync.op} : results'[o] = results[o]
  BY <1>1, <1>2, <1>3, ResultsType
<1>5. QED
  BY <1>1, <1>2, <1>4 DEF r

-----------------------------------------------------------------------------
(* What every step does to the types and to the versions.                     *)

\* What syncs would go back to after the step is installed before it.
StillInstalled ==
    /\ Installed(sync'.prev)
    /\ \A op \in Ops : results'[op] # NoResult => Installed(results'[op].prev)

StepOK == TypeOK' /\ (\E c : Did(remote, c, remote')) /\ StillInstalled

LEMMA StepKeepsVersions ==
    ASSUME TypeOK, VersionsKept, StepOK
    PROVE  VersionsKept'
<1>1. PICK c : Did(remote, c, remote')
  BY DEF StepOK
<1>2. /\ remote \in Machine /\ remote' \in Machine
      /\ sync' \in Call /\ results' \in [Ops -> Results \cup {NoResult}]
  BY DEF TypeOK, StepOK
<1>3. \A i \in Items : remote.vers[i] \subseteq remote'.vers[i]
  BY <1>1 DEF Did
<1>4. \A i \in Items : remote'.cur[i] \in remote'.vers[i] \cup {Missing}
  BY <1>1 DEF Did, VersionsKept
<1>5. /\ \A i \in Items : sync'.prev[i] \in remote'.vers[i] \cup {Missing, Untouched}
      /\ \A op \in Ops : results'[op] # NoResult =>
            \A i \in Items : results'[op].prev[i] \in remote'.vers[i] \cup {Missing, Untouched}
  BY <1>3 DEF StepOK, StillInstalled, Installed
<1>6. QED
  BY <1>4, <1>5 DEF VersionsKept, Installed

LEMMA UntouchedInstalled ==
    ASSUME TypeOK
    PROVE  Installed(NothingTouched) /\ Installed(Idle.prev)
  BY UntouchedType, IdleType DEF Installed

\* The steps that change neither versions nor files.
LEMMA QuietRemote ==
    ASSUME TypeOK, UNCHANGED <<remote, outlived>>, sync' \in Call,
           results' \in [Ops -> Results \cup {NoResult}], last' \in Ops \cup {NoOp},
           base' \in [Items -> Receipt], hit' \in BOOLEAN, faults' \in Nat, StillInstalled
    PROVE  StepOK
<1>1. TypeOK'
  BY DEF TypeOK, outlived
<1>2. Did(remote, 0, remote')
  BY DidNothing DEF TypeOK
<1>3. QED
  BY <1>1, <1>2 DEF StepOK

LEMMA BeginStepOK ==
    ASSUME TypeOK, VersionsKept, NEW op \in Ops,
           StartSync(op) \/ RejectPlan(op) \/ StartReconcile(op)
    PROVE  StepOK
<1>1. CASE StartSync(op)
  <2>1. /\ sync' \in Call /\ sync'.prev = NothingTouched
        /\ results' \in [Ops -> Results \cup {NoResult}]
        /\ results'[op].prev = NothingTouched
        /\ \A o \in Ops \ {op} : results'[o] = results[o]
        /\ last' = op /\ base' = remote.cur /\ hit' = FALSE
        /\ UNCHANGED <<remote, outlived, faults>>
    BY <1>1, StartSyncFacts
  <2>2. StillInstalled
    BY <2>1, UntouchedInstalled DEF StillInstalled, VersionsKept
  <2>3. base' \in [Items -> Receipt] /\ hit' \in BOOLEAN /\ faults' \in Nat
    BY <2>1 DEF TypeOK, Machine
  <2>4. QED
    BY <2>1, <2>2, <2>3, QuietRemote
<1>2. CASE RejectPlan(op)
  <2>1. /\ results' \in [Ops -> Results \cup {NoResult}]
        /\ results'[op].prev = NothingTouched
        /\ \A o \in Ops \ {op} : results'[o] = results[o]
        /\ last' = NoOp
        /\ UNCHANGED <<remote, outlived, sync, base, hit, faults>>
    BY <1>2, RejectPlanFacts
  <2>2. StillInstalled
    BY <2>1, UntouchedInstalled DEF StillInstalled, VersionsKept
  <2>3. sync' \in Call /\ base' \in [Items -> Receipt] /\ hit' \in BOOLEAN /\ faults' \in Nat
    BY <2>1 DEF TypeOK
  <2>4. QED
    BY <2>1, <2>2, <2>3, QuietRemote
<1>3. CASE StartReconcile(op)
  <2>1. /\ sync' \in Call /\ sync'.prev = results[op].prev /\ results[op] # NoResult
        /\ UNCHANGED <<remote, outlived, results, history, faults>>
    BY <1>3, StartReconcileFacts DEF Planned
  <2>2. StillInstalled
    BY <2>1 DEF StillInstalled, VersionsKept
  <2>3. /\ results' \in [Ops -> Results \cup {NoResult}] /\ last' \in Ops \cup {NoOp}
        /\ base' \in [Items -> Receipt] /\ hit' \in BOOLEAN /\ faults' \in Nat
    BY <2>1 DEF TypeOK, history
  <2>4. QED
    BY <2>1, <2>2, <2>3, QuietRemote
<1>4. QED
  BY <1>1, <1>2, <1>3

LEMMA NextActionInstalled ==
    ASSUME TypeOK, VersionsKept, sync.op \in Ops, sync.n \in 1..Len(Plan[sync.op]), NextAction
    PROVE  StillInstalled
<1>1. CASE sync' = Idle /\ results' = [results EXCEPT ![sync.op] =
               Result("completed", "not-attempted", NothingTouched, FALSE)]
  <2> DEFINE r == Result("completed", "not-attempted", NothingTouched, FALSE)
  <2>1. r \in Results /\ r.prev = NothingTouched
    BY FreshResult
  <2> HIDE DEF r
  <2>2. results'[sync.op] = r /\ \A o \in Ops \ {sync.op} : results'[o] = results[o]
    BY <1>1, <2>1, ResultsType DEF r
  <2>3. QED
    BY <1>1, <2>1, <2>2, UntouchedInstalled DEF StillInstalled, VersionsKept
<1>2. CASE results' = results /\ sync'.prev = sync.prev
  BY <1>2 DEF StillInstalled, VersionsKept
<1>3. QED
  BY <1>1, <1>2, NextActionFacts

LEMMA ReadStatusStepOK ==
    ASSUME TypeOK, VersionsKept, PlaceOK, ReadStatus
    PROVE  StepOK
<1>1. /\ sync' \in Call /\ results' \in [Ops -> Results \cup {NoResult}]
      /\ sync.op \in Ops /\ sync.n \in 1..Len(Plan[sync.op]) /\ Action.item \in Items
      /\ \/ NextAction
         \/ /\ results' = results
            /\ sync'.prev = [sync.prev EXCEPT ![Action.item] = remote.cur[Action.item]]
  BY ReadStatusFacts
<1>2. UNCHANGED <<remote, outlived, history, faults>>
  BY DEF ReadStatus
<1>3. CASE NextAction
  <2>1. StillInstalled
    BY <1>1, <1>3, NextActionInstalled
  <2>2. QED
    BY <1>1, <1>2, <2>1, QuietRemote DEF TypeOK, history
<1>4. CASE /\ results' = results
           /\ sync'.prev = [sync.prev EXCEPT ![Action.item] = remote.cur[Action.item]]
  <2>1. sync.prev \in Before
    BY DEF TypeOK, Call
  <2>2. \A i \in Items : sync'.prev[i] = IF i = Action.item THEN remote.cur[i] ELSE sync.prev[i]
    BY <1>4, <2>1 DEF Before
  <2>3. StillInstalled
    BY <1>4, <2>2 DEF StillInstalled, Installed, VersionsKept
  <2>4. QED
    BY <1>1, <1>2, <2>3, QuietRemote DEF TypeOK, history
<1>5. QED
  BY <1>1, <1>3, <1>4

\* The steps that turn to rolling back, or settle.
LEMMA BrokenStepOK ==
    ASSUME TypeOK, VersionsKept, PlaceOK,
           Probe \/ CommandRefused \/ SettleFailure \/ Observe \/ SettleReconcile
    PROVE  StepOK
<1>1. CASE Probe
  <2>1. UNCHANGED <<remote, outlived, last, base, faults>> /\ hit' \in BOOLEAN
    BY <1>1 DEF Probe, TypeOK
  <2>2. sync' \in Call /\ results' = results /\ sync'.prev = sync.prev
    <3>1. CASE sync' = [sync EXCEPT !.pc = "cleanup"] /\ UNCHANGED <<results, hit>>
      BY <3>1, PcFacts DEF Forward, Stays
    <3>2. CASE Broken("garbled")
      BY <3>2, BrokenFacts
    <3>3. QED
      BY <1>1, <3>1, <3>2 DEF Probe
  <2>3. StillInstalled
    BY <2>2 DEF StillInstalled, VersionsKept
  <2>4. QED
    BY <2>1, <2>2, <2>3, QuietRemote DEF TypeOK
<1>2. CASE CommandRefused
  <2>1. UNCHANGED <<remote, outlived, history, faults>> /\ Broken("transport")
    BY <1>2 DEF CommandRefused
  <2>2. sync' \in Call /\ results' = results /\ sync'.prev = sync.prev
    BY <2>1, BrokenFacts
  <2>3. StillInstalled
    BY <2>2 DEF StillInstalled, VersionsKept
  <2>4. QED
    BY <2>1, <2>2, <2>3, QuietRemote DEF TypeOK, history
<1>3. CASE SettleFailure
  <2>1. /\ sync.op \in Ops /\ results' \in [Ops -> Results \cup {NoResult}]
        /\ results'[sync.op].prev = sync.prev
        /\ \A o \in Ops \ {sync.op} : results'[o] = results[o]
        /\ sync' = Idle /\ UNCHANGED <<remote, outlived, history, faults>>
    BY <1>3, SettleFailureFacts
  <2>2. StillInstalled
    BY <2>1, UntouchedInstalled DEF StillInstalled, VersionsKept
  <2>3. QED
    BY <2>1, <2>2, QuietRemote, IdleType DEF TypeOK, history
<1>4. CASE Observe
  <2>1. /\ sync' \in Call /\ sync'.prev = sync.prev /\ faults' \in Nat
        /\ UNCHANGED <<remote, outlived, results, history>>
    BY <1>4, ObserveFacts
  <2>2. StillInstalled
    BY <2>1 DEF StillInstalled, VersionsKept
  <2>3. QED
    BY <2>1, <2>2, QuietRemote DEF TypeOK, history
<1>5. CASE SettleReconcile
  <2>1. /\ sync.op \in Ops /\ results' \in [Ops -> Results \cup {NoResult}]
        /\ results'[sync.op].prev = sync.prev
        /\ \A o \in Ops \ {sync.op} : results'[o] = results[o]
        /\ sync' = Idle /\ UNCHANGED <<remote, outlived, history, faults>>
    BY <1>5, SettleReconcileFacts, JudgedFacts
  <2>2. StillInstalled
    BY <2>1, UntouchedInstalled DEF StillInstalled, VersionsKept
  <2>3. QED
    BY <2>1, <2>2, QuietRemote, IdleType DEF TypeOK, history
<1>6. QED
  BY <1>1, <1>2, <1>3, <1>4, <1>5

\* A command that succeeds, and what comes after it.
LEMMA FollowingFacts ==
    /\ DOMAIN Following = {"mkdir", "upload", "install", "cleanup"}
    /\ Following["mkdir"] = "upload" /\ Following["upload"] = "install"
    /\ Following["install"] = "probe" /\ Following["cleanup"] = "cleanupDir"
    /\ DOMAIN Following \subseteq Forward
    /\ \A pc \in DOMAIN Following : Following[pc] \in Forward \ {"status", "mkdir"}
  BY DEF Following, Forward

LEMMA RunCommandFacts ==
    ASSUME TypeOK, PlaceOK, RunCommand
    PROVE  /\ sync.pc \in {"mkdir", "upload", "install", "cleanup"} /\ sync.pc \in Forward
           /\ Did(remote, Current, remote') /\ Completed(Current, remote')
           /\ sync' \in Call /\ sync'.pc = Following[sync.pc] /\ Stays
           /\ UNCHANGED <<outlived, results, history, faults>>
<1>1. /\ sync.pc \in DOMAIN Following /\ Works(remote, Current)
      /\ remote' = Effect(remote, Current)
      /\ sync' = [sync EXCEPT !.pc = Following[sync.pc]]
      /\ UNCHANGED <<outlived, results, history, faults>>
  BY DEF RunCommand
<1>2. /\ sync.pc \in {"mkdir", "upload", "install", "cleanup"} /\ sync.pc \in Forward
      /\ Following[sync.pc] \in Forward
  BY <1>1, FollowingFacts
<1>3. Current \in Command /\ remote \in Machine
  BY <1>2, CurrentFacts DEF TypeOK
<1>4. Did(remote, Current, remote') /\ Completed(Current, remote')
  BY <1>1, <1>3, EffectFacts
<1>5. sync' \in Call /\ sync'.pc = Following[sync.pc] /\ Stays
  BY <1>1, <1>2, PcFacts
<1>6. QED
  BY <1>1, <1>2, <1>4, <1>5

LEMMA CleanupDirFacts ==
    ASSUME TypeOK, PlaceOK, CleanupDir
    PROVE  /\ sync.pc = "cleanupDir" /\ sync.pc \in Forward
           /\ Did(remote, Current, remote') /\ NextAction
           /\ sync.op \in Ops /\ sync.n \in 1..Len(Plan[sync.op])
           /\ UNCHANGED <<outlived, history, faults>>
<1>1. sync.pc = "cleanupDir" /\ sync.pc \in Forward
  BY DEF CleanupDir, Forward
<1>2. Current \in Command /\ remote \in Machine
  BY <1>1, CurrentFacts DEF TypeOK
<1>3. Did(remote, Current, remote')
  BY <1>2, EffectFacts DEF CleanupDir
<1>4. sync.op \in Ops /\ sync.n \in 1..Len(Plan[sync.op])
  BY <1>1 DEF PlaceOK, Syncing
<1>5. QED
  BY <1>1, <1>3, <1>4 DEF CleanupDir

LEMMA CommandFailsFacts ==
    ASSUME TypeOK, PlaceOK, CommandFails
    PROVE  /\ sync.pc \in Forward /\ \E kind \in Errors : Broken(kind)
           /\ Did(remote, Current, remote') /\ late' \subseteq Command /\ strayed' \in BOOLEAN
           /\ ~strayed' => ~strayed /\ late' = late
           /\ hit' = TRUE /\ faults' \in Nat /\ UNCHANGED <<last, base>>
<1>1. sync.pc \in Forward /\ \E kind \in Errors : Broken(kind) /\ FailsWith(kind, Current)
  BY DEF CommandFails, ErrorsOf
<1>2. Current \in Command
  BY <1>1, CurrentFacts
<1>3. /\ Did(remote, Current, remote') /\ late' \subseteq Command /\ strayed' \in BOOLEAN
      /\ ~strayed' => ~strayed /\ late' = late
  BY <1>1, <1>2, FailsWithFacts
<1>4. hit' = TRUE /\ faults' \in Nat /\ UNCHANGED <<last, base>>
  BY DEF CommandFails, TypeOK
<1>5. QED
  BY <1>1, <1>3, <1>4

\* A rollback works where its target is installed.
LEMMA RollbackWorks ==
    ASSUME TypeOK, VersionsKept, PlaceOK, sync.pc = "rollback", sync.todo # {}
    PROVE  Works(remote, RollbackCommand)
<1>1. /\ RollbackCommand.do = "rollback" /\ RollbackCommand.item = LastTodo
      /\ RollbackCommand.ver = sync.prev[LastTodo]
      /\ LastTodo \in Items /\ LastTodo \in Changed(sync.prev)
  BY RollbackFacts, LastTodoFacts
<1>2. sync.prev[LastTodo] \in remote.vers[LastTodo] \cup {Missing}
  BY <1>1 DEF Changed, VersionsKept, Installed
<1>3. QED
  BY <1>1, <1>2 DEF Works

LEMMA RollBackFacts ==
    ASSUME TypeOK, VersionsKept, PlaceOK, RollBack
    PROVE  /\ sync.pc = "rollback" /\ sync.todo # {}
           /\ Did(remote, RollbackCommand, remote')
           /\ remote'.cur[LastTodo] = sync.prev[LastTodo]
           /\ sync' \in Call /\ Stays /\ sync'.pc = sync.pc /\ sync'.rb = sync.rb
           /\ sync'.todo = sync.todo \ {LastTodo} /\ sync'.err = sync.err
           /\ UNCHANGED <<outlived, results, history, faults>>
<1>1. sync.pc = "rollback" /\ sync.todo # {} /\ UNCHANGED <<outlived, results, history, faults>>
  BY DEF RollBack
<1>2. Works(remote, RollbackCommand)
  BY <1>1, RollbackWorks
<1>3. remote' = Effect(remote, RollbackCommand) /\ RolledBack(sync.rb)
  BY <1>2 DEF RollBack
<1>4. /\ RollbackCommand \in Command /\ RollbackCommand.do = "rollback"
      /\ RollbackCommand.item = LastTodo /\ RollbackCommand.ver = sync.prev[LastTodo]
      /\ remote \in Machine /\ sync.rb \in RollbackStatus
  BY <1>1, RollbackFacts DEF TypeOK, Call
<1>5. Did(remote, RollbackCommand, remote') /\ Completed(RollbackCommand, remote')
  BY <1>2, <1>3, <1>4, EffectFacts
<1>6. remote'.cur[LastTodo] = sync.prev[LastTodo]
  BY <1>4, <1>5 DEF Completed
<1>7. QED
  BY <1>1, <1>3, <1>4, <1>5, <1>6, RolledBackFacts

LEMMA RollBackFailsFacts ==
    ASSUME TypeOK, PlaceOK, RollBackFails
    PROVE  /\ sync.pc = "rollback" /\ sync.todo # {}
           /\ Did(remote, RollbackCommand, remote')
           /\ sync' \in Call /\ Stays /\ sync'.pc = sync.pc /\ sync'.err = sync.err
           /\ sync'.todo = sync.todo \ {LastTodo} /\ sync'.rb \in {"unknown", "failed"}
           /\ late' \subseteq Command /\ strayed' \in BOOLEAN
           /\ ~strayed' => ~strayed /\ late' = late
           /\ faults' \in Nat /\ UNCHANGED <<results, history>>
<1>1. /\ sync.pc = "rollback" /\ sync.todo # {} /\ faults' \in Nat /\ UNCHANGED <<results, history>>
  BY DEF RollBackFails, TypeOK
<1>2. PICK kind \in Errors :
         RolledBack(Worse(sync.rb, kind)) /\ FailsWith(kind, RollbackCommand)
  BY DEF RollBackFails
<1>3. RollbackCommand \in Command
  BY <1>1, RollbackFacts
<1>4. /\ Did(remote, RollbackCommand, remote') /\ late' \subseteq Command /\ strayed' \in BOOLEAN
      /\ ~strayed' => ~strayed /\ late' = late
  BY <1>2, <1>3, FailsWithFacts
<1> DEFINE rb == Worse(sync.rb, kind)
<1>5. rb \in {"unknown", "failed"}
  BY WorseFacts
<1>6. RolledBack(rb) /\ rb \in RollbackStatus
  BY <1>2, <1>5 DEF RollbackStatus
<1> HIDE DEF rb
<1>7. /\ sync' \in Call /\ Stays /\ sync'.pc = sync.pc /\ sync'.err = sync.err
      /\ sync'.todo = sync.todo \ {LastTodo} /\ sync'.rb = rb
  BY <1>6, RolledBackFacts
<1>8. QED
  BY <1>1, <1>4, <1>5, <1>7

LEMMA ControlCrashFacts ==
    ASSUME TypeOK, PlaceOK, ControlCrash
    PROVE  /\ sync' = Idle /\ results' = [op \in Ops |-> NoResult] /\ last' = NoOp
           /\ (\E c : Did(remote, c, remote')) /\ late' \subseteq Command /\ strayed' \in BOOLEAN
           /\ ~strayed' => ~strayed /\ late' = late
           /\ ~strayed' => \A f \in remote'.files :
                 f \in remote.files \/ (sync.pc \in Forward /\ f = FileOf(Current))
           /\ faults' \in Nat /\ UNCHANGED <<base, hit>>
<1>1. /\ sync' = Idle /\ results' = [op \in Ops |-> NoResult] /\ last' = NoOp
      /\ faults' \in Nat /\ UNCHANGED <<base, hit>>
  BY DEF ControlCrash, TypeOK
<1>2. CASE UNCHANGED <<remote, outlived, faults>>
  <2>1. Did(remote, 0, remote')
    BY <1>2, DidNothing DEF TypeOK
  <2>2. QED
    BY <1>1, <1>2, <2>1 DEF outlived, TypeOK
<1>3. CASE \E c \in InFlight : Leaves(c)
  <2>1. PICK c \in InFlight : Leaves(c)
    BY <1>3
  <2>2. \/ sync.pc \in Forward /\ c = Current
        \/ sync.pc = "rollback" /\ sync.todo # {} /\ c = RollbackCommand
    BY <2>1 DEF InFlight
  <2>3. c \in Command /\ (c.do = "upload" => sync.pc \in Forward /\ c = Current)
    BY <2>2, CurrentFacts, RollbackFacts
  <2>4. /\ Did(remote, c, remote') /\ late' \subseteq Command /\ strayed' \in BOOLEAN
        /\ ~strayed' => ~strayed /\ late' = late
    BY <2>1, <2>3, LeavesFacts
  <2>5. \A f \in remote'.files : f \in remote.files \/ (sync.pc \in Forward /\ f = FileOf(Current))
    BY <2>3, <2>4 DEF Did
  <2>6. QED
    BY <1>1, <2>4, <2>5
<1>4. QED
  BY <1>2, <1>3 DEF ControlCrash

LEMMA CommandStepOK ==
    ASSUME TypeOK, VersionsKept, PlaceOK,
           RunCommand \/ CleanupDir \/ CommandFails \/ RollBack \/ RollBackFails
    PROVE  StepOK
<1>1. CASE RunCommand
  <2>1. /\ Did(remote, Current, remote') /\ sync' \in Call /\ sync'.prev = sync.prev
        /\ UNCHANGED <<outlived, results, history, faults>>
    BY <1>1, RunCommandFacts DEF Stays
  <2>2. remote' \in Machine
    BY <2>1 DEF Did
  <2>3. QED
    BY <2>1, <2>2 DEF StepOK, StillInstalled, VersionsKept, TypeOK, outlived, history
<1>2. CASE CleanupDir
  <2>1. /\ Did(remote, Current, remote') /\ NextAction
        /\ sync.op \in Ops /\ sync.n \in 1..Len(Plan[sync.op])
        /\ UNCHANGED <<outlived, history, faults>>
    BY <1>2, CleanupDirFacts
  <2>2. sync' \in Call /\ results' \in [Ops -> Results \cup {NoResult}] /\ StillInstalled
    BY <2>1, NextActionFacts, NextActionInstalled
  <2>3. remote' \in Machine
    BY <2>1 DEF Did
  <2>4. TypeOK'
    BY <2>1, <2>2, <2>3 DEF TypeOK, outlived, history
  <2>5. QED
    BY <2>1, <2>2, <2>4 DEF StepOK
<1>3. CASE CommandFails
  <2>1. /\ Did(remote, Current, remote') /\ late' \subseteq Command /\ strayed' \in BOOLEAN
        /\ hit' = TRUE /\ faults' \in Nat /\ UNCHANGED <<last, base>>
        /\ \E kind \in Errors : Broken(kind)
    BY <1>3, CommandFailsFacts
  <2>2. sync' \in Call /\ results' = results /\ sync'.prev = sync.prev
    BY <2>1, BrokenFacts
  <2>3. remote' \in Machine
    BY <2>1 DEF Did
  <2>4. TypeOK'
    BY <2>1, <2>2, <2>3 DEF TypeOK
  <2>5. StillInstalled
    BY <2>2 DEF StillInstalled, VersionsKept
  <2>6. QED
    BY <2>1, <2>4, <2>5 DEF StepOK
<1>4. CASE RollBack
  <2>1. /\ Did(remote, RollbackCommand, remote') /\ sync' \in Call /\ sync'.prev = sync.prev
        /\ UNCHANGED <<outlived, results, history, faults>>
    BY <1>4, RollBackFacts DEF Stays
  <2>2. remote' \in Machine
    BY <2>1 DEF Did
  <2>3. QED
    BY <2>1, <2>2 DEF StepOK, StillInstalled, VersionsKept, TypeOK, outlived, history
<1>5. CASE RollBackFails
  <2>1. /\ Did(remote, RollbackCommand, remote') /\ sync' \in Call /\ sync'.prev = sync.prev
        /\ late' \subseteq Command /\ strayed' \in BOOLEAN /\ faults' \in Nat
        /\ UNCHANGED <<results, history>>
    BY <1>5, RollBackFailsFacts DEF Stays
  <2>2. remote' \in Machine
    BY <2>1 DEF Did
  <2>3. QED
    BY <2>1, <2>2 DEF StepOK, StillInstalled, VersionsKept, TypeOK, history
<1>6. QED
  BY <1>1, <1>2, <1>3, <1>4, <1>5

LEMMA OutsideStepOK ==
    ASSUME TypeOK, VersionsKept, PlaceOK, ControlCrash \/ \E c \in late : LateCommandActs(c)
    PROVE  StepOK
<1>1. CASE ControlCrash
  <2>1. /\ sync' = Idle /\ results' = [op \in Ops |-> NoResult] /\ last' = NoOp
        /\ late' \subseteq Command /\ strayed' \in BOOLEAN
        /\ faults' \in Nat /\ UNCHANGED <<base, hit>>
    BY <1>1, ControlCrashFacts
  <2>2. PICK c : Did(remote, c, remote')
    BY <1>1, ControlCrashFacts
  <2>3. remote' \in Machine /\ sync' \in Call
    BY <2>1, <2>2, IdleType DEF Did
  <2>4. StillInstalled
    BY <2>1, UntouchedInstalled DEF StillInstalled
  <2>5. TypeOK'
    BY <2>1, <2>3 DEF TypeOK
  <2>6. QED
    BY <2>2, <2>4, <2>5 DEF StepOK
<1>2. CASE \E c \in late : LateCommandActs(c)
  <2>1. PICK c \in late : LateCommandActs(c)
    BY <1>2
  <2>2. /\ late' = late \ {c} /\ remote' \in Outcomes(remote, c)
        /\ UNCHANGED <<strayed, sync, results, last, base, hit, faults>>
    BY <2>1 DEF LateCommandActs, control, history
  <2>3. Did(remote, c, remote')
    BY <2>1, <2>2, OutcomeFacts DEF TypeOK
  <2>4. remote' \in Machine
    BY <2>3 DEF Did
  <2>5. QED
    BY <2>2, <2>3, <2>4 DEF StepOK, StillInstalled, VersionsKept, TypeOK
<1>3. QED
  BY <1>1, <1>2

LEMMA NextStepOK ==
    ASSUME TypeOK, VersionsKept, PlaceOK, Next
    PROVE  StepOK
  BY BeginStepOK, ReadStatusStepOK, BrokenStepOK, CommandStepOK, OutsideStepOK DEF Next

-----------------------------------------------------------------------------
(* Places.                                                                    *)

LEMMA PlaceOfIdle ==
    ASSUME sync' = Idle
    PROVE  PlaceOK'
  BY IdleType DEF PlaceOK, Syncing, Forward

\* A sync at a command, with what it has changed.
LEMMA PlaceOfSync ==
    ASSUME TypeOK, TypeOK', sync'.pc \in Forward, sync'.op \in Ops, sync'.op = last',
           sync'.n \in 1..Len(Plan[sync'.op]),
           Changed(sync'.prev) \subseteq
               {Plan[sync'.op][k].item : k \in 1..(IF sync'.pc = "status" THEN sync'.n - 1
                                                   ELSE sync'.n)},
           sync'.pc # "status" => Plan[sync'.op][sync'.n].item \in Changed(sync'.prev)
    PROVE  PlaceOK'
  BY DEF PlaceOK, Syncing, Forward, Action, ItemsUpTo

LEMMA PlaceOfRollback ==
    ASSUME TypeOK, TypeOK', PlaceOK, Syncing, sync'.pc = "rollback", Stays, last' = last,
           sync'.todo \subseteq Changed(sync.prev),
           Changed(sync.prev) = {} <=> sync'.rb = "not-attempted"
    PROVE  PlaceOK'
<1>1. /\ sync.pc # "idle" /\ sync.op \in Ops /\ sync.op = last
      /\ sync.n \in 1..Len(Plan[sync.op])
      /\ Changed(sync.prev) \subseteq
             ItemsUpTo(IF sync.pc = "status" THEN sync.n - 1 ELSE sync.n)
  BY DEF PlaceOK, Syncing, Forward
<1>2. Len(Plan[sync.op]) \in Nat
  BY <1>1, PlanFacts
<1>3. Changed(sync.prev) \subseteq {Plan[sync.op][k].item : k \in 1..sync.n}
  <2>1. \A k \in 1..(sync.n - 1) : k \in 1..sync.n
    BY <1>1, <1>2
  <2>2. QED
    BY <1>1, <2>1 DEF ItemsUpTo
<1>4. QED
  BY <1>1, <1>3 DEF PlaceOK, Syncing, Forward, Stays, ItemsUpTo

LEMMA NextActionPlace ==
    ASSUME TypeOK, TypeOK', PlaceOK, sync.pc \in {"status", "cleanupDir"}, NextAction,
           last' = last
    PROVE  PlaceOK'
<1>1. /\ sync.op \in Ops /\ sync.op = last /\ sync.n \in 1..Len(Plan[sync.op])
      /\ Changed(sync.prev) \subseteq
             ItemsUpTo(IF sync.pc = "status" THEN sync.n - 1 ELSE sync.n)
  BY DEF PlaceOK, Syncing, Forward
<1>2. Len(Plan[sync.op]) \in Nat
  BY <1>1, PlanFacts
<1>3. CASE sync' = Idle
  BY <1>3, PlaceOfIdle
<1>4. CASE /\ sync.n + 1 \in 1..Len(Plan[sync.op])
           /\ sync'.pc = "status" /\ sync'.n = sync.n + 1 /\ sync'.op = sync.op
           /\ sync'.prev = sync.prev
  <2>1. sync'.n - 1 = sync.n /\ \A k \in 1..(sync.n - 1) : k \in 1..sync.n
    BY <1>1, <1>2, <1>4
  <2>2. Changed(sync'.prev) \subseteq {Plan[sync.op][k].item : k \in 1..(sync'.n - 1)}
    BY <1>1, <1>4, <2>1 DEF ItemsUpTo
  <2>3. sync'.pc \in Forward
    BY <1>4 DEF Forward
  <2>4. QED
    BY <1>1, <1>4, <2>2, <2>3, PlaceOfSync
<1>5. QED
  BY <1>1, <1>3, <1>4, NextActionFacts

LEMMA BeginPlace ==
    ASSUME TypeOK, TypeOK', PlaceOK, NEW op \in Ops,
           StartSync(op) \/ RejectPlan(op) \/ StartReconcile(op)
    PROVE  PlaceOK'
<1>1. CASE StartSync(op)
  <2>1. /\ sync'.prev = NothingTouched /\ last' = op
        /\ IF Plan[op] = <<>> THEN sync' = Idle
           ELSE sync'.pc = "status" /\ sync'.op = op /\ sync'.n = 1
    BY <1>1, StartSyncFacts
  <2>2. CASE Plan[op] = <<>>
    BY <2>1, <2>2, PlaceOfIdle
  <2>3. CASE Plan[op] # <<>>
    <3>1. /\ sync'.pc = "status" /\ sync'.op = op /\ sync'.n = 1
          /\ Changed(sync'.prev) = {} /\ sync'.pc \in Forward
      BY <2>1, <2>3, UntouchedType DEF Forward
    <3>2. sync'.n \in 1..Len(Plan[op])
      BY <2>3, <3>1, PlanFacts
    <3>3. QED
      BY <2>1, <3>1, <3>2, PlaceOfSync
  <2>4. QED
    BY <2>2, <2>3
<1>2. CASE RejectPlan(op)
  <2>1. sync' = sync /\ sync.pc = "idle"
    BY <1>2, RejectPlanFacts
  <2>2. QED
    BY <2>1 DEF PlaceOK, Syncing, Forward
<1>3. CASE StartReconcile(op)
  <2>1. /\ sync'.pc = "observe" /\ sync'.op = op /\ sync'.n = 1
        /\ sync'.prev = results[op].prev /\ Planned(op) /\ results' = results
    BY <1>3, StartReconcileFacts
  <2>2. sync'.n \in 1..(Len(Plan[op]) + 1)
    BY <2>1, PlanFacts
  <2>3. QED
    BY <2>1, <2>2 DEF PlaceOK, Syncing, Forward, Planned
<1>4. QED
  BY <1>1, <1>2, <1>3

\* The item whose version was read is the one at hand, and is now remembered.
LEMMA ReadStatusPlace ==
    ASSUME TypeOK, TypeOK', PlaceOK, ReadStatus
    PROVE  PlaceOK'
<1>1. /\ sync.op \in Ops /\ sync.op = last /\ sync.n \in 1..Len(Plan[sync.op])
      /\ Changed(sync.prev) \subseteq ItemsUpTo(sync.n - 1) /\ sync.pc = "status"
  BY DEF PlaceOK, Syncing, Forward, ReadStatus
<1>2. last' = last
  BY DEF ReadStatus, history
<1>3. CASE NextAction
  BY <1>1, <1>2, <1>3, NextActionPlace
<1>4. CASE /\ sync'.pc = "mkdir" /\ sync'.op = sync.op /\ sync'.n = sync.n
           /\ sync'.prev = [sync.prev EXCEPT ![Action.item] = remote.cur[Action.item]]
  <2>1. Action.item \in Items /\ remote.cur[Action.item] \in Receipt /\ sync.prev \in Before
    BY <1>1, ActionFacts DEF TypeOK, Machine, Call
  <2>2. remote.cur[Action.item] # Untouched
    BY <2>1, NullsAssumption DEF Receipt
  <2>3. \A i \in Items : sync'.prev[i] = IF i = Action.item THEN remote.cur[i] ELSE sync.prev[i]
    BY <1>4, <2>1 DEF Before
  <2>4. Changed(sync'.prev) = Changed(sync.prev) \cup {Action.item}
    BY <2>1, <2>2, <2>3 DEF Changed
  <2>5. Len(Plan[sync.op]) \in Nat
    BY <1>1, PlanFacts
  <2>6. sync.n \in 1..sync.n /\ \A k \in 1..(sync.n - 1) : k \in 1..sync.n
    BY <1>1, <2>5
  <2>7. Changed(sync'.prev) \subseteq {Plan[sync.op][k].item : k \in 1..sync.n}
    BY <1>1, <2>4, <2>6 DEF ItemsUpTo, Action
  <2>8. Plan[sync.op][sync.n].item \in Changed(sync'.prev)
    BY <2>4 DEF Action
  <2>9. sync'.pc \in Forward /\ sync'.pc # "status"
    BY <1>4 DEF Forward
  <2>10. QED
    BY <1>1, <1>2, <1>4, <2>7, <2>8, <2>9, PlaceOfSync
<1>5. QED
  BY <1>3, <1>4, ReadStatusFacts

\* A command that is not the first of its action follows another in the same place.
LEMMA ForwardPlace ==
    ASSUME TypeOK, TypeOK', PlaceOK, sync.pc \in Forward \ {"status"},
           sync'.pc \in Forward \ {"status"}, Stays, last' = last
    PROVE  PlaceOK'
<1>1. /\ sync.op \in Ops /\ sync.op = last /\ sync.n \in 1..Len(Plan[sync.op])
      /\ Changed(sync.prev) \subseteq ItemsUpTo(sync.n) /\ Action.item \in Changed(sync.prev)
  <2>1. Syncing /\ sync.pc # "status" /\ sync.pc # "idle"
    BY DEF Syncing, Forward
  <2>2. QED
    BY <2>1 DEF PlaceOK
<1>2. Changed(sync.prev) \subseteq {Plan[sync.op][k].item : k \in 1..sync.n}
  BY <1>1 DEF ItemsUpTo
<1>3. /\ sync'.op \in Ops /\ sync'.op = last' /\ sync'.n \in 1..Len(Plan[sync'.op])
      /\ Changed(sync'.prev) \subseteq {Plan[sync'.op][k].item : k \in 1..sync'.n}
      /\ Plan[sync'.op][sync'.n].item \in Changed(sync'.prev)
  BY <1>1, <1>2 DEF Stays, Action
<1>4. QED
  BY <1>3, PlaceOfSync

LEMMA BrokenPlace ==
    ASSUME TypeOK, TypeOK', PlaceOK, sync.pc \in Forward,
           NEW kind \in Errors \cup {"transport", "garbled"}, Broken(kind), last' = last
    PROVE  PlaceOK'
<1>1. /\ sync'.pc = "rollback" /\ Stays /\ sync'.todo = Changed(sync.prev)
      /\ sync'.rb = IF Changed(sync.prev) = {} THEN "not-attempted" ELSE "completed"
  BY BrokenFacts DEF Stays
<1>2. Syncing
  BY DEF Syncing
<1>3. Changed(sync.prev) = {} <=> sync'.rb = "not-attempted"
  BY <1>1
<1>4. sync'.rb # "failed"
  BY <1>1
<1>5. QED
  BY <1>1, <1>2, <1>3, <1>4, PlaceOfRollback

LEMMA CommandPlace ==
    ASSUME TypeOK, TypeOK', PlaceOK,
           RunCommand \/ Probe \/ CleanupDir \/ CommandRefused \/ CommandFails
    PROVE  PlaceOK'
<1>1. CASE RunCommand
  <2>1. /\ sync.pc \in Forward \ {"status"} /\ sync'.pc = Following[sync.pc] /\ Stays
        /\ last' = last
    BY <1>1, RunCommandFacts DEF history
  <2>2. sync'.pc \in Forward \ {"status"}
    BY <1>1, <2>1, FollowingFacts, RunCommandFacts
  <2>3. QED
    BY <2>1, <2>2, ForwardPlace
<1>2. CASE Probe
  <2>1. sync.pc \in Forward \ {"status"} /\ last' = last
    BY <1>2 DEF Probe, Forward
  <2>2. CASE sync' = [sync EXCEPT !.pc = "cleanup"]
    <3>1. sync'.pc \in Forward \ {"status"} /\ Stays
      BY <2>2, PcFacts DEF Forward
    <3>2. QED
      BY <2>1, <3>1, ForwardPlace
  <2>3. CASE Broken("garbled")
    BY <2>1, <2>3, BrokenPlace
  <2>4. QED
    BY <1>2, <2>2, <2>3 DEF Probe
<1>3. CASE CleanupDir
  BY <1>3, CleanupDirFacts, NextActionPlace DEF history
<1>4. CASE CommandRefused
  BY <1>4, BrokenPlace DEF CommandRefused, history
<1>5. CASE CommandFails
  BY <1>5, BrokenPlace, CommandFailsFacts
<1>6. QED
  BY <1>1, <1>2, <1>3, <1>4, <1>5

LEMMA RollbackPlace ==
    ASSUME TypeOK, TypeOK', VersionsKept, PlaceOK, RollBack \/ RollBackFails
    PROVE  PlaceOK'
<1>1. /\ sync.pc = "rollback" /\ sync.todo # {} /\ Stays /\ sync'.pc = sync.pc
      /\ sync'.todo = sync.todo \ {LastTodo} /\ last' = last
      /\ \/ sync'.rb = sync.rb
         \/ sync'.rb \in {"unknown", "failed"}
  BY RollBackFacts, RollBackFailsFacts DEF history
<1>2. /\ sync.todo \subseteq Changed(sync.prev)
      /\ Changed(sync.prev) = {} <=> sync.rb = "not-attempted"
      /\ Syncing
  BY <1>1 DEF PlaceOK, Syncing
<1>3. sync.rb # "not-attempted" /\ Changed(sync.prev) # {}
  BY <1>1, <1>2
<1>4. /\ sync'.todo \subseteq Changed(sync.prev)
      /\ (Changed(sync.prev) = {} <=> sync'.rb = "not-attempted")
  BY <1>1, <1>2, <1>3
<1>5. QED
  BY <1>1, <1>2, <1>4, PlaceOfRollback

LEMMA OtherPlace ==
    ASSUME TypeOK, TypeOK', PlaceOK,
           SettleFailure \/ Observe \/ SettleReconcile \/ ControlCrash
             \/ \E c \in late : LateCommandActs(c)
    PROVE  PlaceOK'
<1>1. CASE SettleFailure \/ SettleReconcile \/ ControlCrash
  BY <1>1, PlaceOfIdle DEF SettleFailure, SettleReconcile, ControlCrash
<1>2. CASE Observe
  <2>1. /\ sync'.pc = "observe" /\ sync'.op = sync.op
        /\ sync'.n = sync.n + 1 /\ sync'.prev = sync.prev
        /\ sync.pc = "observe" /\ sync.op \in Ops
        /\ sync.n \in 1..Len(Plan[sync.op]) /\ results' = results
    BY <1>2, ObserveFacts
  <2>2. Planned(sync.op) /\ sync.prev = results[sync.op].prev
    BY <2>1 DEF PlaceOK
  <2>3. sync'.n \in 1..(Len(Plan[sync.op]) + 1)
    BY <2>1, PlanFacts
  <2>4. QED
    BY <2>1, <2>2, <2>3 DEF PlaceOK, Syncing, Forward, Planned
<1>3. CASE \E c \in late : LateCommandActs(c)
  <2>1. UNCHANGED <<sync, results, last>>
    BY <1>3 DEF LateCommandActs, control, history
  <2>2. QED
    BY <2>1 DEF PlaceOK, Syncing, Action, ItemsUpTo, Planned, Changed
<1>4. QED
  BY <1>1, <1>2, <1>3

LEMMA NextPlaceOK ==
    ASSUME TypeOK, TypeOK', VersionsKept, PlaceOK, Next
    PROVE  PlaceOK'
  BY BeginPlace, ReadStatusPlace, CommandPlace, RollbackPlace, OtherPlace DEF Next

-----------------------------------------------------------------------------
(* While no command outlives its ssh: what is remembered, restored and found. *)

Sound == Intact /\ Restored /\ OwnFiles /\ HealthyOK

\* Nothing acts behind the back of the sync.
LEMMA QuietFacts ==
    ASSUME TypeOK, VersionsKept, PlaceOK, Next, ~strayed', ~strayed => late = {}
    PROVE  ~strayed /\ late = {} /\ late' = {}
<1>1. CASE \E c \in late : LateCommandActs(c)
  <2>1. ~strayed
    BY <1>1 DEF LateCommandActs
  <2>2. QED
    BY <1>1, <2>1
<1>2. CASE CommandFails
  BY <1>2, CommandFailsFacts
<1>3. CASE RollBackFails
  BY <1>3, RollBackFailsFacts
<1>4. CASE ControlCrash
  BY <1>4, ControlCrashFacts, SMTT(30)
<1>5. ASSUME ~(\E c \in late : LateCommandActs(c)), ~CommandFails, ~RollBackFails, ~ControlCrash
      PROVE  UNCHANGED outlived
  BY <1>5 DEF Next, StartSync, RejectPlan, StartReconcile, ReadStatus, RunCommand, Probe,
              CleanupDir, CommandRefused, RollBack, SettleFailure, Observe, SettleReconcile
<1>6. QED
  BY <1>1, <1>2, <1>3, <1>4, <1>5 DEF outlived

\* What a command changes is remembered by the sync that sends it.
LEMMA StillRemembers ==
    ASSUME NEW c, Did(remote, c, remote'), NEW prev, Remembers(prev), base' = base,
           c.item \in Changed(prev) \/ c.do \notin {"install", "rollback"}
    PROVE  \A i \in Items : IF prev[i] = Untouched THEN remote'.cur[i] = base'[i]
                                                   ELSE prev[i] = base'[i]
  BY DEF Did, Remembers, Changed

LEMMA CurrentRemembered ==
    ASSUME TypeOK, PlaceOK, sync.pc \in Forward
    PROVE  Current.item \in Changed(sync.prev) \/ Current.do \notin {"install", "rollback"}
  BY CurrentFacts DEF PlaceOK

LEMMA AsFound ==
    ASSUME TypeOK, NEW prev, Remembers(prev),
           \A i \in Changed(prev) : remote.cur[i] = base[i]
    PROVE  remote.cur = base
<1>1. \A i \in Items : remote.cur[i] = base[i]
  BY DEF Remembers, Changed
<1>2. remote.cur \in [Items -> Receipt] /\ base \in [Items -> Receipt]
  BY DEF TypeOK, Machine
<1>3. QED
  BY <1>1, <1>2

LEMMA StillOwnFiles ==
    ASSUME TypeOK, PlaceOK, OwnFiles,
           \A f \in remote'.files :
              f \in remote.files \/ (sync.pc \in Forward /\ f = FileOf(Current))
    PROVE  OwnFiles'
<1> SUFFICES ASSUME StagingPerOp, NEW f \in remote'.files
             PROVE  \E k \in DOMAIN Plan[f.dir] :
                        f.item = Plan[f.dir][k].item /\ f.ver = Plan[f.dir][k].ver
  BY DEF OwnFiles
<1>1. CASE f \in remote.files
  BY <1>1 DEF OwnFiles
<1>2. CASE sync.pc \in Forward /\ f = FileOf(Current)
  <2>1. /\ sync.op \in Ops /\ sync.n \in 1..Len(Plan[sync.op])
        /\ DOMAIN Plan[sync.op] = 1..Len(Plan[sync.op])
    BY <1>2, PlanFacts DEF PlaceOK, Syncing, Forward
  <2>2. f.dir = sync.op /\ f.item = Action.item /\ f.ver = Action.ver
    BY <1>2 DEF FileOf, Current, CommandFor, StagingDir
  <2>3. QED
    BY <2>1, <2>2 DEF Action
<1>3. QED
  BY <1>1, <1>2

LEMMA SamePlace ==
    ASSUME TypeOK, PlaceOK, Syncing
    PROVE  /\ sync.op \in Ops /\ sync.op = last /\ sync.n \in 1..Len(Plan[sync.op])
           /\ Len(Plan[sync.op]) \in Nat /\ sync.n \in Nat /\ last # NoOp
           /\ sync.pc # "idle" /\ sync.pc # "observe"
<1>1. sync.pc # "idle" /\ sync.pc # "observe"
  BY DEF Syncing, Forward
<1>2. sync.op \in Ops /\ sync.op = last /\ sync.n \in 1..Len(Plan[sync.op])
  BY <1>1 DEF PlaceOK
<1>3. QED
  BY <1>1, <1>2, PlanFacts, NullsAssumption

LEMMA BeginSound ==
    ASSUME TypeOK, PlaceOK, Sound, late' = {}, NEW op \in Ops,
           StartSync(op) \/ RejectPlan(op) \/ StartReconcile(op)
    PROVE  Sound'
<1>1. CASE StartSync(op)
  <2>1. /\ sync'.prev = NothingTouched
        /\ IF Plan[op] = <<>> THEN sync' = Idle
           ELSE sync'.pc = "status" /\ sync'.op = op /\ sync'.n = 1
        /\ ~results'[op].planned
        /\ results'[op].status = IF Plan[op] = <<>> THEN "completed" ELSE "running"
        /\ last' = op /\ base' = remote.cur /\ remote' = remote
    BY <1>1, StartSyncFacts
  <2>2. OwnFiles'
    BY <2>1 DEF Sound, OwnFiles
  <2>3. CASE Plan[op] = <<>>
    <3>1. sync'.pc = "idle"
      BY <2>1, <2>3, IdleType
    <3>2. Intact'
      BY <2>1, <3>1 DEF Intact, Syncing, Forward, Planned
    <3>3. Restored'
      BY <2>1, <2>3 DEF Restored
    <3>4. HealthyOK'
      <4>1. Len(Plan[op]) # 1
        BY <2>3, PlanFacts
      <4>2. QED
        BY <2>1, <4>1 DEF HealthyOK, Alone
    <3>5. QED
      BY <2>2, <3>2, <3>3, <3>4 DEF Sound
  <2>4. CASE Plan[op] # <<>>
    <3>1. sync'.pc = "status" /\ sync'.n = 1 /\ Syncing'
      BY <2>1, <2>4 DEF Syncing, Forward
    <3>2. \A i \in Items : sync'.prev[i] = Untouched
      BY <2>1, UntouchedType
    <3>3. Remembers(sync.prev)'
      BY <2>1, <3>2 DEF Remembers
    <3>4. Intact'
      BY <3>1, <3>3 DEF Intact
    <3>5. Restored'
      BY <3>1 DEF Restored
    <3>6. HealthyOK'
      BY <3>1 DEF HealthyOK
    <3>7. QED
      BY <2>2, <3>4, <3>5, <3>6 DEF Sound
  <2>5. QED
    BY <2>3, <2>4
<1>2. CASE RejectPlan(op)
  <2>1. last' = NoOp /\ sync'.pc = "idle" /\ remote' = remote
    BY <1>2, RejectPlanFacts
  <2>2. OwnFiles'
    BY <2>1 DEF Sound, OwnFiles
  <2>3. QED
    BY <2>1, <2>2 DEF Sound, Intact, Restored, HealthyOK, Alone, Syncing, Forward
<1>3. CASE StartReconcile(op)
  <2>1. /\ sync'.pc = "observe" /\ sync'.seen = NothingRead /\ sync.pc = "idle"
        /\ UNCHANGED <<remote, results, last, base, hit>>
    BY <1>3, StartReconcileFacts DEF history
  <2>2. ~Syncing /\ ~Syncing'
    BY <2>1 DEF Syncing, Forward
  <2>3. \A i \in Items : sync'.seen[i] = Unread
    BY <2>1 DEF NothingRead
  <2>4. Intact'
    BY <2>1, <2>2, <2>3 DEF Sound, Intact, Syncing, Planned, Remembers
  <2>5. Restored' /\ OwnFiles' /\ HealthyOK'
    BY <2>1, <2>2 DEF Sound, Restored, OwnFiles, HealthyOK, Alone, Forward
  <2>6. QED
    BY <2>4, <2>5 DEF Sound
<1>4. QED
  BY <1>1, <1>2, <1>3

LEMMA ObserveSound ==
    ASSUME TypeOK, PlaceOK, Sound, late' = {}, Observe
    PROVE  Sound'
<1>1. /\ sync'.pc = "observe" /\ sync.pc = "observe" /\ Action.item \in Items
      /\ \/ sync'.seen = [sync.seen EXCEPT ![Action.item] = remote.cur[Action.item]]
         \/ sync'.seen = sync.seen
      /\ UNCHANGED <<remote, results, last, base, hit>>
  BY ObserveFacts DEF history
<1>2. ~Syncing /\ ~Syncing'
  BY <1>1 DEF Syncing, Forward
<1>3. \A i \in Items : sync'.seen[i] # Unread => sync'.seen[i] = remote'.cur[i]
  <2>1. \A i \in Items : sync.seen[i] # Unread => sync.seen[i] = remote.cur[i]
    BY <1>1 DEF Sound, Intact
  <2>2. sync.seen \in [Items -> Receipt \cup {Unread}]
    BY DEF TypeOK, Call
  <2>3. QED
    BY <1>1, <2>1, <2>2
<1>4. Intact'
  BY <1>1, <1>2, <1>3 DEF Sound, Intact, Syncing, Planned, Remembers
<1>5. Restored' /\ OwnFiles' /\ HealthyOK'
  BY <1>1, <1>2 DEF Sound, Restored, OwnFiles, HealthyOK, Alone, Forward
<1>6. QED
  BY <1>4, <1>5 DEF Sound

\* What reconciling finds restored is restored.
LEMMA JudgedRestored ==
    ASSUME TypeOK, Intact, sync.pc = "observe", Remembers(sync.prev),
           Judged.rb \in {"completed", "not-attempted"}
    PROVE  remote.cur = base
<1>1. CASE Changed(sync.prev) = {}
  BY <1>1, AsFound
<1>2. CASE Changed(sync.prev) # {}
  <2>1. RestoredAsSeen = "completed"
    BY <1>2, JudgedFacts
  <2>2. \A i \in Changed(sync.prev) : sync.seen[i] # Unread /\ sync.seen[i] = sync.prev[i]
    BY <2>1 DEF RestoredAsSeen
  <2>3. \A i \in Changed(sync.prev) : remote.cur[i] = base[i]
    BY <2>2 DEF Intact, Remembers, Changed
  <2>4. QED
    BY <2>3, AsFound
<1>3. QED
  BY <1>1, <1>2

LEMMA SettleReconcileSound ==
    ASSUME TypeOK, PlaceOK, Sound, late' = {}, SettleReconcile
    PROVE  Sound'
<1>1. /\ sync.op \in Ops /\ results'[sync.op] = Judged
      /\ \A o \in Ops \ {sync.op} : results'[o] = results[o]
      /\ sync' = Idle /\ sync.pc = "observe"
      /\ UNCHANGED <<remote, last, base, hit>>
  BY SettleReconcileFacts DEF history
<1>2. sync'.pc = "idle" /\ ~Syncing /\ ~Syncing'
  BY <1>1, IdleType DEF Syncing, Forward
<1>3. Planned(sync.op) /\ sync.prev = results[sync.op].prev
  BY <1>1 DEF PlaceOK
<1>4. Judged.prev = sync.prev
  BY JudgedFacts
<1>5. CASE last = sync.op
  <2>1. Remembers(sync.prev) /\ last # NoOp
    BY <1>1, <1>2, <1>3, <1>5, NullsAssumption DEF Sound, Intact
  <2>2. Remembers(results[last].prev)'
    BY <1>1, <1>4, <1>5, <2>1 DEF Remembers
  <2>3. Intact'
    BY <1>2, <2>2 DEF Intact, Syncing
  <2>4. Restored'
    BY <1>1, <1>5, <2>1, JudgedRestored DEF Sound, Restored
  <2>5. HealthyOK'
    <3>1. ~Alone
      BY <1>2, <1>3, <1>5 DEF Sound, HealthyOK, Planned
    <3>2. QED
      BY <1>1, <3>1 DEF HealthyOK, Alone
  <2>6. QED
    BY <1>1, <2>3, <2>4, <2>5 DEF Sound, OwnFiles
<1>6. CASE last # sync.op
  <2>1. last # NoOp => results'[last] = results[last]
    BY <1>1, <1>6 DEF TypeOK
  <2>2. Intact'
    BY <1>1, <1>2, <2>1 DEF Sound, Intact, Syncing, Planned, Remembers
  <2>3. Restored' /\ OwnFiles' /\ HealthyOK'
    BY <1>1, <1>2, <2>1 DEF Sound, Restored, OwnFiles, HealthyOK, Alone, Forward
  <2>4. QED
    BY <2>2, <2>3 DEF Sound
<1>7. QED
  BY <1>5, <1>6

\* An action is done, its artifact and those before it are current.
LEMMA NextActionSound ==
    ASSUME TypeOK, PlaceOK, Sound, late' = {}, sync.pc \in {"status", "cleanupDir"}, NextAction,
           UNCHANGED history, remote'.cur = remote.cur, OwnFiles',
           \A k \in 1..sync.n : IsInstalled(remote, Plan[sync.op][k])
    PROVE  Sound'
<1>1. UNCHANGED <<last, base, hit>>
  BY DEF history
<1>2. Syncing
  BY DEF Syncing, Forward
<1>3. /\ sync.op \in Ops /\ sync.op = last /\ sync.n \in 1..Len(Plan[sync.op])
      /\ Len(Plan[sync.op]) \in Nat /\ sync.n \in Nat /\ last # NoOp
  BY <1>2, SamePlace
<1>4. CASE sync' = Idle /\ results' = [results EXCEPT ![sync.op] =
               Result("completed", "not-attempted", NothingTouched, FALSE)]
  <2> DEFINE r == Result("completed", "not-attempted", NothingTouched, FALSE)
  <2>1. r \in Results /\ r.status = "completed" /\ ~r.planned
    BY FreshResult
  <2> HIDE DEF r
  <2>2. results'[last'] = r
    BY <1>1, <1>3, <1>4, <2>1, ResultsType DEF r
  <2>3. sync'.pc = "idle" /\ ~Syncing'
    BY <1>4, IdleType DEF Syncing, Forward
  <2>4. Intact'
    BY <2>1, <2>2, <2>3 DEF Intact, Syncing, Planned, Forward
  <2>5. Restored' /\ HealthyOK'
    BY <2>1, <2>2, <2>3 DEF Restored, HealthyOK, Forward
  <2>6. QED
    BY <2>4, <2>5 DEF Sound
<1>5. CASE /\ sync.n + 1 \in 1..Len(Plan[sync.op]) /\ results' = results
           /\ sync'.pc = "status" /\ sync'.n = sync.n + 1 /\ sync'.op = sync.op
           /\ sync'.prev = sync.prev
  <2>1. sync'.n - 1 = sync.n /\ Len(Plan[sync.op]) # 1
    <3>1. sync.n + 1 <= Len(Plan[sync.op]) /\ 1 <= sync.n
      BY <1>3, <1>5
    <3>2. sync'.n = sync.n + 1
      BY <1>5
    <3>3. sync.n \in Nat /\ Len(Plan[sync.op]) \in Nat
      BY <1>3
    <3>4. (sync.n + 1) - 1 = sync.n
      BY <3>3
    <3>5. Len(Plan[sync.op]) # 1
      <4>1. \A n, m \in Nat : 1 <= n /\ n + 1 <= m => m # 1
        OBVIOUS
      <4>2. QED
        BY <3>1, <3>3, <4>1
    <3>6. QED
      BY <3>2, <3>4, <3>5
  <2>2. Syncing'
    BY <1>5 DEF Syncing, Forward
  <2>3. Remembers(sync.prev)'
    BY <1>1, <1>2, <1>5 DEF Sound, Intact, Remembers
  <2>4. \A k \in 1..(sync'.n - 1) : remote'.cur[Plan[sync'.op][k].item] = Plan[sync'.op][k].ver
    BY <1>5, <2>1 DEF IsInstalled
  <2>5. Intact'
    BY <1>5, <2>2, <2>3, <2>4 DEF Intact, IsInstalled
  <2>6. Restored' /\ HealthyOK'
    BY <1>1, <1>3, <2>1, <2>2 DEF Restored, HealthyOK, Alone
  <2>7. QED
    BY <2>5, <2>6 DEF Sound
<1>6. QED
  BY <1>3, <1>4, <1>5, NextActionFacts

\* The version the sync reads is the one it found when it began.
LEMMA ReadStatusSound ==
    ASSUME TypeOK, PlaceOK, Sound, late' = {}, ReadStatus
    PROVE  Sound'
<1>1. sync.pc = "status" /\ Syncing /\ remote' = remote /\ UNCHANGED history
  BY DEF ReadStatus, Syncing, Forward
<1>2. /\ sync.op \in Ops /\ sync.op = last /\ sync.n \in 1..Len(Plan[sync.op])
      /\ Len(Plan[sync.op]) \in Nat /\ sync.n \in Nat
      /\ Changed(sync.prev) \subseteq ItemsUpTo(sync.n - 1)
  BY <1>1, SamePlace DEF PlaceOK
<1>3. OwnFiles'
  BY <1>1 DEF Sound, OwnFiles
<1>4. \A k \in 1..(sync.n - 1) : IsInstalled(remote, Plan[sync.op][k])
  BY <1>1 DEF Sound, Intact, Forward
<1>5. CASE IsInstalled(remote, Action) /\ NextAction
  <2>1. \A k \in 1..sync.n : k = sync.n \/ k \in 1..(sync.n - 1)
    BY <1>2
  <2>2. \A k \in 1..sync.n : IsInstalled(remote, Plan[sync.op][k])
    BY <1>4, <1>5, <2>1 DEF Action
  <2>3. QED
    BY <1>1, <1>3, <1>5, <2>2, NextActionSound
<1>6. CASE /\ results' = results /\ sync'.pc = "mkdir"
           /\ sync'.op = sync.op /\ sync'.n = sync.n
           /\ sync'.prev = [sync.prev EXCEPT ![Action.item] = remote.cur[Action.item]]
  <2>1. Action.item \in Items /\ remote.cur[Action.item] \in Receipt /\ sync.prev \in Before
    BY <1>2, ActionFacts DEF TypeOK, Machine, Call
  <2>2. remote.cur[Action.item] # Untouched
    BY <2>1, NullsAssumption DEF Receipt
  <2>3. \A i \in Items : sync'.prev[i] = IF i = Action.item THEN remote.cur[i] ELSE sync.prev[i]
    BY <1>6, <2>1 DEF Before
  <2>4. Action.item \notin Changed(sync.prev)
    <3>1. SUFFICES ASSUME NEW k \in 1..(sync.n - 1), Plan[sync.op][k].item = Action.item
                   PROVE  FALSE
      BY <1>2 DEF ItemsUpTo
    <3>2. k \in 1..Len(Plan[sync.op]) /\ k # sync.n
      BY <1>2
    <3>3. QED
      BY <1>2, <3>1, <3>2, PlanFacts DEF Action
  <2>5. remote.cur[Action.item] = base[Action.item]
    BY <1>1, <2>1, <2>4 DEF Sound, Intact, Remembers, Changed
  <2>6. Remembers(sync.prev)'
    BY <1>1, <2>2, <2>3, <2>5 DEF Sound, Intact, Remembers, history
  <2>7. Syncing' /\ sync'.pc \in Forward
    BY <1>6 DEF Syncing, Forward
  <2>8. Intact'
    BY <1>1, <1>4, <1>6, <2>6, <2>7 DEF Intact, IsInstalled
  <2>9. Restored' /\ HealthyOK'
    BY <1>6, <2>7 DEF Restored, HealthyOK
  <2>10. QED
    BY <1>3, <2>8, <2>9 DEF Sound
<1>7. QED
  BY <1>5, <1>6, ReadStatusFacts

\* What is current stays so while the command is about another artifact.
LEMMA StillCurrent ==
    ASSUME TypeOK, PlaceOK, sync.pc \in Forward, Did(remote, Current, remote'),
           NEW k \in 1..Len(Plan[sync.op]), IsInstalled(remote, Plan[sync.op][k]),
           k # sync.n \/ sync.pc # "install"
    PROVE  IsInstalled(remote', Plan[sync.op][k])
<1>1. sync.op \in Ops /\ sync.n \in 1..Len(Plan[sync.op])
  BY SamePlace DEF Syncing
<1>2. Plan[sync.op][k].item \in Items
  BY <1>1, PlanFacts DEF Actions
<1>3. CASE sync.pc = "install"
  <2>1. Plan[sync.op][k].item # Current.item
    BY <1>1, <1>3, PlanFacts, CurrentFacts DEF Action
  <2>2. QED
    BY <1>2, <2>1 DEF Did, IsInstalled
<1>4. CASE sync.pc # "install"
  <2>1. Current.do \notin {"install", "rollback"}
    BY <1>4, CurrentFacts DEF Forward
  <2>2. QED
    BY <1>2, <2>1 DEF Did, IsInstalled
<1>5. QED
  BY <1>3, <1>4

LEMMA RunCommandSound ==
    ASSUME TypeOK, PlaceOK, Sound, late' = {}, RunCommand
    PROVE  Sound'
<1>1. /\ sync.pc \in {"mkdir", "upload", "install", "cleanup"} /\ sync.pc \in Forward
      /\ Did(remote, Current, remote') /\ Completed(Current, remote')
      /\ sync'.pc = Following[sync.pc] /\ Stays
      /\ UNCHANGED <<results, last, base, hit>>
  BY RunCommandFacts DEF history
<1>2. Syncing /\ Syncing' /\ sync'.pc \in Forward \ {"status", "mkdir"}
  BY <1>1, FollowingFacts DEF Syncing
<1>3. /\ sync.op \in Ops /\ sync.op = last /\ sync.n \in 1..Len(Plan[sync.op])
      /\ Len(Plan[sync.op]) \in Nat /\ sync.n \in Nat
  BY <1>2, SamePlace
<1>4. \/ sync.pc = "mkdir" /\ sync'.pc = "upload"
      \/ sync.pc = "upload" /\ sync'.pc = "install"
      \/ sync.pc = "install" /\ sync'.pc = "probe"
      \/ sync.pc = "cleanup" /\ sync'.pc = "cleanupDir"
  BY <1>1, FollowingFacts
<1>5. Remembers(sync.prev)'
  <2>1. Remembers(sync.prev)
    BY <1>2 DEF Sound, Intact
  <2>2. QED
    BY <1>1, <2>1, CurrentRemembered, StillRemembers DEF Remembers, Stays
<1>6. \A k \in 1..(IF sync'.pc \in {"cleanup", "cleanupDir"} THEN sync.n ELSE sync.n - 1) :
          IsInstalled(remote', Plan[sync.op][k])
  <2> SUFFICES ASSUME NEW k \in 1..(IF sync'.pc \in {"cleanup", "cleanupDir"} THEN sync.n
                                                                             ELSE sync.n - 1)
               PROVE  IsInstalled(remote', Plan[sync.op][k])
    OBVIOUS
  <2>1. k \in 1..Len(Plan[sync.op]) /\ (sync'.pc # "cleanupDir" => k # sync.n)
    BY <1>3, <1>4
  <2>2. IsInstalled(remote, Plan[sync.op][k])
    BY <1>1, <1>4 DEF Sound, Intact
  <2>3. QED
    BY <1>1, <1>4, <2>1, <2>2, StillCurrent
<1>7. Intact'
  BY <1>1, <1>2, <1>5, <1>6 DEF Intact, Stays, Forward
<1>8. OwnFiles'
  BY <1>1, StillOwnFiles DEF Sound, Did
<1>9. HealthyOK'
  <2>1. ASSUME Alone' PROVE Alone /\ sync.pc \in Forward
    BY <1>1, <2>1 DEF Alone
  <2>2. Action' = Action /\ Current'.dir = Current.dir /\ FileOf(Current)' = FileOf(Current)
    BY <1>1 DEF Action, Current, CommandFor, FileOf, Stays
  <2>3. Current.do = sync.pc /\ Current.item = Action.item /\ Current.ver = Action.ver
    BY <1>1, CurrentFacts
  <2>4. ASSUME Alone' PROVE Current.dir \in remote'.dirs
    <3>1. CASE sync.pc = "mkdir"
      BY <1>1, <2>3, <3>1 DEF Completed
    <3>2. CASE sync.pc # "mkdir"
      <4>1. Current.dir \in remote.dirs
        BY <1>1, <2>1, <2>4, <3>2 DEF Sound, HealthyOK
      <4>2. remote.dirs \subseteq remote'.dirs
        BY <1>1, <2>3 DEF Did
      <4>3. QED
        BY <4>1, <4>2
    <3>3. QED
      BY <3>1, <3>2
  <2>5. /\ sync'.pc = "install" => FileOf(Current) \in remote'.files
        /\ sync'.pc = "probe" => IsInstalled(remote', Action)
        /\ sync'.pc = "cleanupDir" => FileOf(Current) \notin remote'.files
    BY <1>1, <1>4, <2>3 DEF Completed, IsInstalled
  <2>6. sync'.pc # "rollback"
    BY <1>4
  <2>7. QED
    BY <1>2, <2>2, <2>4, <2>5, <2>6 DEF HealthyOK
<1>10. QED
  BY <1>2, <1>7, <1>8, <1>9 DEF Sound, Restored

LEMMA CleanupDirSound ==
    ASSUME TypeOK, PlaceOK, Sound, late' = {}, CleanupDir
    PROVE  Sound'
<1>1. /\ sync.pc = "cleanupDir" /\ sync.pc \in Forward
      /\ Did(remote, Current, remote') /\ NextAction /\ UNCHANGED history
  BY CleanupDirFacts
<1>2. Current.do = "cleanupDir"
  BY <1>1, CurrentFacts
<1>3. remote'.cur = remote.cur
  <2>1. \A i \in Items : remote'.cur[i] = remote.cur[i]
    BY <1>1, <1>2 DEF Did
  <2>2. remote.cur \in [Items -> Receipt] /\ remote'.cur \in [Items -> Receipt]
    BY <1>1 DEF TypeOK, Machine, Did
  <2>3. QED
    BY <2>1, <2>2
<1>4. OwnFiles'
  BY <1>1, StillOwnFiles DEF Sound, Did
<1>5. \A k \in 1..sync.n : IsInstalled(remote, Plan[sync.op][k])
  BY <1>1 DEF Sound, Intact
<1>6. QED
  BY <1>1, <1>3, <1>4, <1>5, NextActionSound

\* Turning to rolling back forgets nothing.
LEMMA BrokenSound ==
    ASSUME TypeOK, PlaceOK, Sound, late' = {}, sync.pc \in Forward,
           NEW kind \in Errors \cup {"transport", "garbled"}, Broken(kind),
           Did(remote, Current, remote'), UNCHANGED <<last, base>>, ~Alone'
    PROVE  Sound'
<1>1. /\ sync'.pc = "rollback" /\ sync'.prev = sync.prev /\ sync'.todo = Changed(sync.prev)
  BY BrokenFacts
<1>2. Syncing /\ Syncing' /\ sync'.pc \notin Forward
  BY <1>1 DEF Syncing, Forward
<1>3. Remembers(sync.prev)'
  <2>1. Remembers(sync.prev)
    BY <1>2 DEF Sound, Intact
  <2>2. QED
    BY <1>1, <2>1, CurrentRemembered, StillRemembers DEF Remembers
<1>4. Intact'
  BY <1>1, <1>2, <1>3 DEF Intact, Changed
<1>5. OwnFiles'
  BY StillOwnFiles DEF Sound, Did
<1>6. QED
  BY <1>2, <1>4, <1>5 DEF Sound, Restored, HealthyOK

LEMMA ProbeSound ==
    ASSUME TypeOK, PlaceOK, Sound, late' = {}, Probe
    PROVE  Sound'
<1>1. /\ sync.pc = "probe" /\ sync.pc \in Forward /\ remote' = remote
      /\ UNCHANGED <<last, base>>
  BY DEF Probe, Forward
<1>2. Did(remote, Current, remote')
  BY <1>1, DidNothing DEF TypeOK
<1>3. CASE IsInstalled(remote, Action)
  <2>1. sync' = [sync EXCEPT !.pc = "cleanup"] /\ UNCHANGED <<results, hit>>
    BY <1>3 DEF Probe
  <2>2. sync'.pc = "cleanup" /\ Stays
    BY <2>1, PcFacts DEF Forward
  <2>3. Syncing /\ Syncing'
    BY <1>1, <2>2 DEF Syncing, Forward
  <2>4. /\ sync.op \in Ops /\ sync.op = last /\ sync.n \in 1..Len(Plan[sync.op])
        /\ Len(Plan[sync.op]) \in Nat /\ sync.n \in Nat
    BY <2>3, SamePlace
  <2>5. Remembers(sync.prev)'
    BY <1>1, <2>2, <2>3 DEF Sound, Intact, Remembers, Stays
  <2>6. \A k \in 1..sync.n : IsInstalled(remote', Plan[sync.op][k])
    <3>1. \A k \in 1..sync.n : k = sync.n \/ k \in 1..(sync.n - 1)
      BY <2>4
    <3>2. \A k \in 1..(sync.n - 1) : IsInstalled(remote, Plan[sync.op][k])
      BY <1>1 DEF Sound, Intact
    <3>3. QED
      BY <1>1, <1>3, <3>1, <3>2 DEF Action
  <2>7. Intact'
    BY <2>2, <2>3, <2>5, <2>6 DEF Intact, Stays, Forward
  <2>8. OwnFiles' /\ Restored'
    BY <1>1, <2>3 DEF Sound, OwnFiles, Restored
  <2>9. HealthyOK'
    <3>1. Action' = Action /\ Current'.dir = Current.dir
      BY <2>2 DEF Action, Current, CommandFor, Stays
    <3>2. Alone' => Current.dir \in remote.dirs
      BY <1>1, <2>1 DEF Sound, HealthyOK, Alone
    <3>3. QED
      BY <1>1, <2>2, <2>3, <3>1, <3>2 DEF HealthyOK
  <2>10. QED
    BY <2>7, <2>8, <2>9 DEF Sound
<1>4. CASE ~IsInstalled(remote, Action)
  <2>1. Broken("garbled") /\ ~Alone'
    BY <1>4 DEF Probe, Alone
  <2>2. QED
    BY <1>1, <1>2, <2>1, BrokenSound
<1>5. QED
  BY <1>3, <1>4

\* What a command of the sync of one artifact needs is there.
LEMMA AloneWorks ==
    ASSUME TypeOK, PlaceOK, Sound, Alone, sync.pc \in Forward
    PROVE  Works(remote, Current)
<1>1. /\ sync.op \in Ops /\ sync.op = last /\ sync.n \in 1..Len(Plan[sync.op])
  BY SamePlace DEF Syncing
<1>2. Current.do = sync.pc
  BY CurrentFacts
<1>3. sync.pc = "upload" => Current.dir \in remote.dirs
  BY DEF Sound, HealthyOK
<1>4. sync.pc = "install" => FileOf(Current) \in remote.files
  BY DEF Sound, HealthyOK
<1>5. ASSUME sync.pc = "cleanupDir"
      PROVE  Current.dir \in remote.dirs /\ ~\E f \in remote.files : f.dir = Current.dir
  <2>1. Current.dir \in remote.dirs /\ FileOf(Current) \notin remote.files
    BY <1>5 DEF Sound, HealthyOK
  <2>2. ASSUME NEW f \in remote.files, f.dir = Current.dir PROVE FALSE
    <3>1. Current.dir = sync.op
      BY DEF Alone, Current, CommandFor, StagingDir
    <3>2. PICK k \in DOMAIN Plan[sync.op] :
             f.item = Plan[sync.op][k].item /\ f.ver = Plan[sync.op][k].ver
      BY <2>2, <3>1 DEF Sound, OwnFiles, Alone
    <3>3. k = sync.n
      BY <1>1, <3>2, PlanFacts DEF Alone
    <3>4. f = FileOf(Current)
      <4>1. f \in File
        BY DEF TypeOK, Machine
      <4>2. f.item = Current.item /\ f.ver = Current.ver
        BY <3>2, <3>3, CurrentFacts DEF Action
      <4>3. QED
        BY <2>2, <4>1, <4>2 DEF File, FileOf
    <3>5. QED
      BY <2>1, <3>4
  <2>3. QED
    BY <2>1, <2>2
<1>6. sync.pc # "rollback"
  BY DEF Forward
<1>7. QED
  BY <1>2, <1>3, <1>4, <1>5, <1>6 DEF Works

LEMMA FailedSound ==
    ASSUME TypeOK, PlaceOK, Sound, late' = {}, CommandRefused \/ CommandFails
    PROVE  Sound'
<1>1. CASE CommandRefused
  <2>1. /\ sync.pc \in Forward /\ ~Works(remote, Current) /\ Broken("transport")
        /\ UNCHANGED <<remote, last, base, hit>>
    BY <1>1 DEF CommandRefused, history
  <2>2. ~Alone'
    BY <2>1, AloneWorks DEF Alone
  <2>3. Did(remote, Current, remote')
    BY <2>1, DidNothing DEF TypeOK
  <2>4. QED
    BY <2>1, <2>2, <2>3, BrokenSound
<1>2. CASE CommandFails
  <2>1. /\ sync.pc \in Forward /\ Did(remote, Current, remote') /\ hit' = TRUE
        /\ UNCHANGED <<last, base>>
    BY <1>2, CommandFailsFacts
  <2>2. PICK kind \in Errors : Broken(kind)
    BY <1>2, CommandFailsFacts
  <2>3. ~Alone'
    BY <2>1 DEF Alone
  <2>4. QED
    BY <2>1, <2>2, <2>3, BrokenSound
<1>3. QED
  BY <1>1, <1>2

\* A rollback puts back what was remembered.
LEMMA RollbackSound ==
    ASSUME TypeOK, VersionsKept, PlaceOK, Sound, late' = {}, RollBack \/ RollBackFails
    PROVE  Sound'
<1>1. /\ sync.pc = "rollback" /\ sync.todo # {} /\ sync'.pc = "rollback"
      /\ Did(remote, RollbackCommand, remote') /\ sync'.prev = sync.prev
      /\ sync'.todo = sync.todo \ {LastTodo}
      /\ UNCHANGED <<last, base, hit>>
      /\ \/ remote'.cur[LastTodo] = sync.prev[LastTodo] /\ sync'.rb = sync.rb
         \/ sync'.rb \in {"unknown", "failed"}
  BY RollBackFacts, RollBackFailsFacts DEF history, Stays
<1>2. Syncing /\ Syncing' /\ sync'.pc \notin Forward
  BY <1>1 DEF Syncing, Forward
<1>3. /\ RollbackCommand.item = LastTodo /\ RollbackCommand.do = "rollback"
      /\ LastTodo \in Changed(sync.prev)
  BY <1>1, RollbackFacts, LastTodoFacts
<1>4. Remembers(sync.prev)
  BY <1>2 DEF Sound, Intact
<1>5. Remembers(sync.prev)'
  BY <1>1, <1>3, <1>4, StillRemembers DEF Remembers
<1>6. ASSUME sync'.rb = "completed", NEW i \in Changed(sync.prev) \ sync'.todo
      PROVE  remote'.cur[i] = base[i]
  <2>1. remote'.cur[LastTodo] = sync.prev[LastTodo] /\ sync.rb = "completed"
    BY <1>1, <1>6
  <2>2. CASE i = LastTodo
    BY <1>3, <1>4, <2>1, <2>2 DEF Remembers, Changed
  <2>3. CASE i # LastTodo
    <3>1. i \in Changed(sync.prev) \ sync.todo /\ i \in Items
      BY <1>1, <1>6, <2>3 DEF Changed
    <3>2. remote.cur[i] = base[i]
      BY <1>1, <2>1, <3>1 DEF Sound, Intact
    <3>3. remote'.cur[i] = remote.cur[i]
      BY <1>1, <1>3, <2>3, <3>1 DEF Did
    <3>4. QED
      BY <3>2, <3>3
  <2>4. QED
    BY <2>2, <2>3
<1>7. Intact'
  BY <1>1, <1>2, <1>5, <1>6 DEF Intact, Changed
<1>8. OwnFiles'
  BY <1>1, <1>3, StillOwnFiles DEF Sound, Did
<1>9. ~Alone'
  BY <1>1 DEF Sound, HealthyOK, Alone
<1>10. QED
  BY <1>2, <1>7, <1>8, <1>9 DEF Sound, Restored, HealthyOK

\* A sync that has failed and says how has restored what it found.
LEMMA SettleFailureSound ==
    ASSUME TypeOK, PlaceOK, Sound, late' = {}, SettleFailure
    PROVE  Sound'
<1>1. /\ sync.op \in Ops /\ results'[sync.op].prev = sync.prev
      /\ results'[sync.op].rb = sync.rb
      /\ sync' = Idle /\ sync.pc = "rollback" /\ sync.todo = {}
      /\ UNCHANGED <<remote, last, base, hit>>
  BY SettleFailureFacts DEF history
<1>2. sync'.pc = "idle" /\ ~Syncing' /\ Syncing
  BY <1>1, IdleType DEF Syncing, Forward
<1>3. sync.op = last
  BY <1>2, SamePlace
<1>4. Remembers(sync.prev)
  BY <1>2 DEF Sound, Intact
<1>5. Remembers(results[last].prev)'
  BY <1>1, <1>3, <1>4 DEF Remembers
<1>6. Intact'
  BY <1>2, <1>5 DEF Intact, Syncing
<1>7. Restored'
  <2>1. SUFFICES ASSUME sync.rb \in {"not-attempted", "completed"}
                 PROVE  remote.cur = base
    BY <1>1, <1>3 DEF Restored
  <2>2. CASE sync.rb = "not-attempted"
    <3>1. Changed(sync.prev) = {}
      BY <1>1, <2>2 DEF PlaceOK
    <3>2. QED
      BY <1>4, <3>1, AsFound
  <2>3. CASE sync.rb = "completed"
    <3>1. \A i \in Changed(sync.prev) : remote.cur[i] = base[i]
      BY <1>1, <2>3 DEF Sound, Intact
    <3>2. QED
      BY <1>4, <3>1, AsFound
  <2>4. QED
    BY <2>1, <2>2, <2>3
<1>8. ~Alone'
  BY <1>1 DEF Sound, HealthyOK, Alone
<1>9. QED
  BY <1>1, <1>6, <1>7, <1>8 DEF Sound, OwnFiles, HealthyOK

LEMMA ControlCrashSound ==
    ASSUME TypeOK, PlaceOK, Sound, ~strayed', late' = {}, ControlCrash
    PROVE  Sound'
<1>1. /\ sync' = Idle /\ last' = NoOp
      /\ \A f \in remote'.files :
            f \in remote.files \/ (sync.pc \in Forward /\ f = FileOf(Current))
  BY ControlCrashFacts
<1>2. sync'.pc = "idle"
  BY <1>1, IdleType
<1>3. OwnFiles'
  BY <1>1, StillOwnFiles DEF Sound
<1>4. QED
  BY <1>1, <1>2, <1>3 DEF Sound, Intact, Restored, HealthyOK, Alone, Syncing, Forward

LEMMA NextSound ==
    ASSUME TypeOK, VersionsKept, PlaceOK, Sound, ~strayed', late = {}, late' = {}, Next
    PROVE  Sound'
<1>1. ~\E c \in late : LateCommandActs(c)
  OBVIOUS
<1>2. QED
  BY <1>1, BeginSound, ReadStatusSound, RunCommandSound, ProbeSound, CleanupDirSound,
     FailedSound, RollbackSound, SettleFailureSound, ObserveSound, SettleReconcileSound,
     ControlCrashSound DEF Next

-----------------------------------------------------------------------------
(* The theorems.                                                              *)

LEMMA InitSound ==
    ASSUME Init
    PROVE  IInv
<1>1. /\ remote \in [cur : {[i \in Items |-> Missing]},
                     vers : {[i \in Items |-> {}]}, files : {{}}, dirs : {{}}]
      /\ late = {} /\ strayed = FALSE /\ sync = Idle
      /\ results = [op \in Ops |-> NoResult] /\ last = NoOp /\ base = remote.cur
      /\ hit = FALSE /\ faults = 0
  BY DEF Init
<1>2. /\ remote.cur = [i \in Items |-> Missing] /\ remote.vers = [i \in Items |-> {}]
      /\ remote.files = {} /\ remote.dirs = {} /\ remote \in Machine
  BY <1>1 DEF Machine, Receipt
<1>3. sync \in Call /\ sync.pc = "idle" /\ sync.prev = NothingTouched
  BY <1>1, IdleType
<1>4. TypeOK
  BY <1>1, <1>2, <1>3 DEF TypeOK, Receipt
<1>5. VersionsKept
  BY <1>1, <1>2, <1>3, <1>4, UntouchedInstalled DEF VersionsKept
<1>6. PlaceOK
  BY <1>3 DEF PlaceOK, Syncing, Forward
<1>7. Intact /\ Restored /\ OwnFiles /\ HealthyOK
  BY <1>1, <1>2, <1>3 DEF Intact, Restored, OwnFiles, HealthyOK, Alone, Syncing, Forward
<1>8. QED
  BY <1>4, <1>5, <1>6, <1>7 DEF IInv

LEMMA IInvStep ==
    ASSUME IInv, [Next]_vars
    PROVE  IInv'
<1>1. CASE UNCHANGED vars
  <2>1. UNCHANGED <<remote, late, strayed, sync, results, last, base, hit, faults>>
    BY <1>1 DEF vars, outlived, control, history
  <2>2. TypeOK' /\ VersionsKept'
    BY <2>1 DEF IInv, TypeOK, VersionsKept, Installed
  <2>3. PlaceOK'
    BY <2>1 DEF IInv, PlaceOK, Syncing, Changed, ItemsUpTo, Action, Planned
  <2>4. ~strayed => Sound'
    <3>1. ~strayed => Intact'
      BY <2>1 DEF IInv, Intact, Syncing, Changed, Planned, Remembers, IsInstalled
    <3>2. ~strayed => Restored' /\ OwnFiles'
      BY <2>1 DEF IInv, Restored, OwnFiles, Syncing
    <3>3. ~strayed => HealthyOK'
      BY <2>1 DEF IInv, HealthyOK, Alone, Syncing, Current, CommandFor, Action, IsInstalled,
                  FileOf
    <3>4. QED
      BY <3>1, <3>2, <3>3 DEF Sound
  <2>5. QED
    BY <2>1, <2>2, <2>3, <2>4 DEF IInv, Sound
<1>2. CASE Next
  <2>1. StepOK /\ TypeOK'
    BY <1>2, NextStepOK DEF IInv, StepOK
  <2>2. VersionsKept'
    BY <2>1, StepKeepsVersions DEF IInv
  <2>3. PlaceOK'
    BY <1>2, <2>1, NextPlaceOK DEF IInv
  <2>4. ASSUME ~strayed' PROVE Sound'
    <3>1. ~strayed => late = {}
      BY DEF IInv, Intact
    <3>2. ~strayed /\ late = {} /\ late' = {}
      BY <1>2, <2>4, <3>1, QuietFacts DEF IInv
    <3>3. QED
      BY <1>2, <2>4, <3>2, NextSound DEF IInv, Sound
  <2>5. QED
    BY <2>1, <2>2, <2>3, <2>4 DEF IInv, Sound
<1>3. QED
  BY <1>1, <1>2

\* The inductive invariant: versions are only ever added, a sync is where its plan says, and
\* while no command outlives its ssh it remembers what it changed
\* (lib/plugin-sync.mjs:99-189, lib/remote-artifact-installer.mjs:120-241).
THEOREM Inductive == Spec => []IInv
<1>1. Init => IInv
  BY InitSound
<1>2. IInv /\ [Next]_vars => IInv'
  BY IInvStep
<1>3. QED
  BY <1>1, <1>2, PTL DEF Spec

\* Every part of the state has its values.
THEOREM TypeCorrect == Spec => []TypeOK
<1>1. IInv => TypeOK
  BY DEF IInv
<1>2. QED
  BY <1>1, Inductive, PTL

\* No rollback is refused for want of its target, whatever other syncs and late commands did
\* in between (lib/remote-artifact-installer.mjs:205-241).
THEOREM TargetsStayInstalled == Spec => []RollbackTargetExists
<1>1. IInv => RollbackTargetExists
  BY RollbackWorks DEF IInv, RollbackTargetExists
<1>2. QED
  BY <1>1, Inductive, PTL

\* A failed sync that claims to have restored everything has, unless a command outlived its
\* ssh: also where rollbacks were not sent or answered with too much
\* (lib/plugin-sync.mjs:183-189, :270-288).
THEOREM RollbacksDoRestore == Spec => []RollbacksRestore
<1>1. IInv => RollbacksRestore
  <2> SUFFICES ASSUME IInv PROVE RollbacksRestore
    OBVIOUS
  <2>1. RollbackTargetExists
    BY RollbackWorks DEF IInv, RollbackTargetExists
  <2>2. RestoredAsSaid
    BY DEF IInv, RestoredAsSaid, Restored, Syncing, Forward
  <2>3. QED
    BY <2>1, <2>2 DEF RollbacksRestore
<1>2. QED
  BY <1>1, Inductive, PTL

\* A sync of one artifact that no fault hits completes where every operation has a staging
\* directory of its own (lib/plugin-sync.mjs:99-165).
THEOREM HealthySyncsComplete ==
    ASSUME StagingPerOp
    PROVE  Spec => []HealthySyncCompletes
<1>1. IInv => HealthySyncCompletes
  BY DEF IInv, HealthySyncCompletes, HealthyOK, Alone, Syncing, Forward
<1>2. QED
  BY <1>1, Inductive, PTL

-----------------------------------------------------------------------------

\* An operation that becomes completed, by the last action of its plan or by having
\* everything seen in place, has its artifacts current.
LEMMA CompletedInstalled ==
    ASSUME IInv, ~strayed, sync.op \in Ops,
           \/ sync.pc = "status" /\ ReadStatus
           \/ sync.pc = "cleanupDir" /\ CleanupDir,
           sync' = Idle
    PROVE  \A k \in DOMAIN Plan[sync.op] :
              remote'.cur[Plan[sync.op][k].item] = Plan[sync.op][k].ver
<1> USE DEF IInv
<1>1. Syncing /\ sync.pc \in Forward
  BY DEF Syncing, Forward
<1>2. /\ sync.n \in 1..Len(Plan[sync.op]) /\ Len(Plan[sync.op]) \in Nat /\ sync.n \in Nat
      /\ DOMAIN Plan[sync.op] = 1..Len(Plan[sync.op])
  BY <1>1, SamePlace, PlanFacts
<1>3. Idle.pc = "idle"
  BY IdleType
<1>4. CASE sync.pc = "status" /\ ReadStatus
  <2>1. IsInstalled(remote, Action) /\ NextAction
    BY <1>3, <1>4, ReadStatusFacts
  <2>2. sync.n = Len(Plan[sync.op])
    BY <1>2, <1>3, <2>1, NextActionFacts
  <2>3. \A k \in 1..sync.n : k = sync.n \/ k \in 1..(sync.n - 1)
    BY <1>2
  <2>4. \A k \in 1..(sync.n - 1) : IsInstalled(remote, Plan[sync.op][k])
    BY <1>1, <1>4 DEF Intact
  <2>5. remote' = remote
    BY <1>4 DEF ReadStatus
  <2>6. QED
    BY <1>2, <2>1, <2>2, <2>3, <2>4, <2>5 DEF Action, IsInstalled
<1>5. CASE sync.pc = "cleanupDir" /\ CleanupDir
  <2>1. Did(remote, Current, remote') /\ NextAction
    BY <1>5, CleanupDirFacts
  <2>2. sync.n = Len(Plan[sync.op])
    BY <1>2, <1>3, <2>1, NextActionFacts
  <2>3. \A k \in 1..sync.n : IsInstalled(remote, Plan[sync.op][k])
    BY <1>1, <1>5 DEF Intact
  <2>4. \A k \in 1..sync.n : IsInstalled(remote', Plan[sync.op][k])
    BY <1>1, <1>5, <2>1, <2>2, <2>3, StillCurrent
  <2>5. QED
    BY <1>2, <2>2, <2>4 DEF IsInstalled
<1>6. QED
  BY <1>4, <1>5

LEMMA JudgedInstalled ==
    ASSUME IInv, ~strayed, sync.pc = "observe", sync.op \in Ops,
           Judged.status = "completed"
    PROVE  \A k \in DOMAIN Plan[sync.op] :
              remote.cur[Plan[sync.op][k].item] = Plan[sync.op][k].ver
<1> SUFFICES ASSUME NEW k \in DOMAIN Plan[sync.op]
             PROVE  remote.cur[Plan[sync.op][k].item] = Plan[sync.op][k].ver
  OBVIOUS
<1>1. Verified
  BY JudgedFacts DEF IInv
<1>2. Plan[sync.op][k].item \in Items /\ Plan[sync.op][k].ver \in Versions
  BY PlanFacts DEF Actions
<1>3. sync.seen[Plan[sync.op][k].item] = Plan[sync.op][k].ver
  BY <1>1 DEF Verified
<1>4. sync.seen[Plan[sync.op][k].item] # Unread
  BY <1>2, <1>3, NullsAssumption
<1>5. QED
  BY <1>2, <1>3, <1>4 DEF IInv, Intact

\* The operation whose result a step changes to "completed".
LEMMA CompletesBy ==
    ASSUME IInv, ~strayed, Next, NEW op \in Ops, results'[op] # NoResult,
           results'[op].status = "completed", results'[op] # results[op]
    PROVE  \A k \in DOMAIN Plan[op] : remote'.cur[Plan[op][k].item] = Plan[op][k].ver
<1> USE DEF IInv
<1>1. CASE \E o \in Ops : StartSync(o)
  <2>1. PICK o \in Ops : StartSync(o)
    BY <1>1
  <2>2. o = op
    BY <2>1, StartSyncFacts
  <2>3. Plan[op] = <<>>
    BY <2>1, <2>2, StartSyncFacts
  <2>4. DOMAIN Plan[op] = {}
    BY <2>3, PlanFacts
  <2>5. QED
    BY <2>4
<1>2. CASE \E o \in Ops : RejectPlan(o)
  BY <1>2, RejectPlanFacts
<1>3. CASE ReadStatus \/ CleanupDir
  <2>1. \/ sync.pc = "status" /\ ReadStatus
        \/ sync.pc = "cleanupDir" /\ CleanupDir
    BY <1>3 DEF ReadStatus, CleanupDir
  <2>2. /\ sync.op \in Ops /\ sync.n \in 1..Len(Plan[sync.op])
        /\ (NextAction \/ results' = results)
    BY <1>3, ReadStatusFacts, CleanupDirFacts
  <2>3. NextAction
    BY <2>2
  <2> DEFINE r == Result("completed", "not-attempted", NothingTouched, FALSE)
  <2>4. sync' = Idle /\ results' = [results EXCEPT ![sync.op] = r]
    BY <2>2, <2>3, NextActionFacts
  <2>5. op = sync.op
    BY <2>4 DEF TypeOK
  <2>6. QED
    BY <2>1, <2>2, <2>4, <2>5, CompletedInstalled
<1>4. CASE SettleFailure
  BY <1>4, SettleFailureFacts
<1>5. CASE SettleReconcile
  BY <1>5, SettleReconcileFacts, JudgedInstalled
<1>6. CASE RunCommand \/ RollBack \/ RollBackFails \/ Observe
             \/ (\E o \in Ops : StartReconcile(o)) \/ \E c \in late : LateCommandActs(c)
  BY <1>6 DEF RunCommand, RollBack, RollBackFails, Observe, StartReconcile, LateCommandActs,
              control
<1>7. CASE Probe \/ CommandRefused \/ CommandFails
  BY <1>7 DEF Probe, CommandRefused, CommandFails, Broken
<1>8. CASE ControlCrash
  BY <1>8 DEF ControlCrash
<1>9. QED
  BY <1>1, <1>2, <1>3, <1>4, <1>5, <1>6, <1>7, <1>8 DEF Next

\* A sync is called completed only when everything in its plan is current
\* (lib/plugin-sync.mjs:99-165, :251-288).
THEOREM CompletedSyncsAreCurrent == Spec => CompletedIsCurrent
<1> DEFINE A == \A op \in Ops :
          /\ results'[op] # NoResult
          /\ results'[op].status = "completed"
          /\ results'[op] # results[op]
          /\ ~strayed
          => \A k \in DOMAIN Plan[op] : remote'.cur[Plan[op][k].item] = Plan[op][k].ver
<1>1. IInv /\ [Next]_vars => [A]_vars
  BY CompletesBy
<1>2. QED
  BY <1>1, Inductive, PTL DEF Spec, CompletedIsCurrent
=============================================================================
