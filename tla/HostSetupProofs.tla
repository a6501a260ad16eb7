--------------------------- MODULE HostSetupProofs ---------------------------
(***************************************************************************)
(* Proofs about HostSetup: what a step does to the setup and to the        *)
(* installers, then the parts of the inductive invariant one after the     *)
(* other, action by action, then the theorems.                             *)
(***************************************************************************)
EXTENDS HostSetup, TLAPS

-----------------------------------------------------------------------------
(* The inductive invariant.                                                *)

\* The steps of each installer.
StepsOf ==
    [dsh  |-> {"look", "build", "aside", "publish", "switch", "open", "write",
               "service", "health"},
     host |-> {"publish", "switch"},
     conf |-> {"declare", "deps", "claim", "restart", "health"}]

\* The installer has set the old directory aside.
Aside(p) == procs[p].do = "dsh" /\ procs[p].at = "publish" /\ procs[p].held # "absent"

\* The directory of a release is there, or somebody has it in hand, or it was left aside.
Present(r) ==
    \/ dsh.dir[r] # "absent"
    \/ r \in cut
    \/ \E p \in Procs : Aside(p) /\ procs[p].rel = r

\* What is about to become current is there, and the installer that is awaited is
\* the one the setup is at.
InstallersFit ==
    /\ \A p \in Procs : procs[p] # Gone =>
          /\ procs[p].at \in StepsOf[procs[p].do]
          /\ At(p, "dsh", "switch") => Present(procs[p].rel)
          /\ At(p, "host", "switch") => procs[p].rel \in host.pub
    /\ dsh.cur # None => Present(dsh.cur)
    /\ setup.phase # "idle" => setup.rel \in Releases
    /\ setup.proc # None =>
          procs[setup.proc].do = setup.phase /\ procs[setup.proc].rel = setup.rel

\* How far the installer of a phase has come: it is at one of the steps, or done.
Awaited(steps) == setup.proc # None /\ procs[setup.proc].at \in steps
HasCome(phase, steps) == setup.phase = phase /\ (setup.pc = "cleaning" \/ Awaited(steps))

Switched ==
    \/ setup.phase \in {"host", "reach", "conf", "check"}
    \/ HasCome("dsh", {"open", "write", "service", "health"})
HostSwitched == setup.phase \in {"reach", "conf", "check"} \/ HasCome("host", {})
ByReceipt == setup.phase = "check" /\ setup.via = "receipt"
Declared == ByReceipt \/ HasCome("conf", {"deps", "claim", "restart", "health"})
Claimed == setup.phase = "check" \/ HasCome("conf", {"restart", "health"})
Restarted == ByReceipt \/ HasCome("conf", {"health"})

\* While nobody else works on the machine, what the setup has done stays done.
Undisturbed == ~strayed \/ setup.clean
Established ==
    /\ \A p \in Procs : procs[p] # Gone => setup.proc = p
    /\ Switched => dsh.cur = setup.rel
    /\ HostSwitched => host.cur = setup.rel
    /\ Declared => profile.decl = setup.rel
    /\ Claimed => profile.claim = setup.rel
    /\ Restarted /\ Healthy => service.ver = setup.rel /\ service.prof = setup.rel

\* The directory of the release, as the DSH installer without faults knows it.
DirectoryAsSeen ==
    LET dir == dsh.dir[setup.rel] IN
    /\ Awaited({"build"}) => procs[setup.proc].held = dir
                             /\ dir \in {"absent", "damaged"}
    /\ Awaited({"aside"}) => dir = "damaged"
    /\ Awaited({"publish"}) => dir = "absent"
    /\ Awaited({"switch"}) => dir = "whole"

\* A setup no fault has hit goes from receipt to receipt, over a service that is up
\* or can be started.
Unhit ==
    /\ setup.phase # "failed" /\ setup.pc # "reconciling" /\ setup.via = "receipt"
    /\ setup.phase = "dsh" => Mendable /\ DirectoryAsSeen
    /\ Switched => dsh.dir[setup.rel] = "whole"
    /\ setup.phase \in {"host", "reach", "conf", "check"} \/ HasCome("dsh", {"health"})
          => Healthy
    /\ HasCome("conf", {"claim", "restart", "health"}) => ~Torn

\* A setup that goes on after its connection was closed disturbs what follows.
OldDisturbs == old # {} => strayed /\ ~setup.clean

IInv ==
    /\ TypeOK
    /\ InstallersFit
    /\ OldDisturbs
    /\ Undisturbed => Established
    /\ setup.clean => Unhit

-----------------------------------------------------------------------------
(* What the steps have in common.                                             *)

\* What a setup that enters a phase looks like.
LEMMA EnterFacts ==
    ASSUME setup \in Setup, NEW phase \in Phases, NEW via \in {"receipt", "status"},
           NEW s, s = Enter(phase, via)
    PROVE  /\ s \in Setup
           /\ s.phase = phase /\ s.via = via /\ s.proc = None
           /\ s.pc = IF phase \in Bootstraps THEN "staging" ELSE "none"
           /\ s.rel = setup.rel /\ s.clean = setup.clean
  BY DEF Enter, Setup

\* The phase after one that is not settled.
LEMMA FollowingFacts ==
    ASSUME setup.phase \in {"dsh", "host", "reach", "conf", "check"}
    PROVE  /\ Following[setup.phase] \in {"host", "reach", "conf", "check", "ready"}
           /\ setup.phase = "dsh" => Following[setup.phase] = "host"
           /\ setup.phase = "host" => Following[setup.phase] = "reach"
           /\ setup.phase = "reach" => Following[setup.phase] = "conf"
           /\ setup.phase = "conf" => Following[setup.phase] = "check"
           /\ setup.phase = "check" => Following[setup.phase] = "ready"
  BY DEF Following

\* A setup whose program counter is somewhere is at one of the bootstraps.
LEMMA AtBootstrap ==
    ASSUME TypeOK, setup.pc # "none"
    PROVE  setup.phase \in {"dsh", "host", "conf"}
  BY DEF TypeOK, MachineOK, Bootstraps

\* What a failed setup looks like.
LEMMA FailedFacts ==
    ASSUME setup \in Setup
    PROVE  /\ Failed \in Setup
           /\ Failed.phase = "failed" /\ Failed.pc = "none" /\ Failed.proc = None
           /\ Failed.rel = setup.rel /\ Failed.clean = setup.clean
           /\ [Failed EXCEPT !.clean = FALSE] \in Setup
           /\ [Failed EXCEPT !.clean = FALSE].phase = "failed"
           /\ [Failed EXCEPT !.clean = FALSE].pc = "none"
           /\ [Failed EXCEPT !.clean = FALSE].proc = None
           /\ [Failed EXCEPT !.clean = FALSE].rel = setup.rel
           /\ [Failed EXCEPT !.clean = FALSE].clean = FALSE
  BY DEF Failed, Setup, Phases

\* What a setup that begins looks like.
LEMMA BeginFacts ==
    ASSUME NEW r \in Releases, Begin(r)
    PROVE  /\ setup' \in Setup
           /\ setup'.phase = "dsh" /\ setup'.pc = "staging" /\ setup'.proc = None
           /\ setup'.via = "receipt" /\ setup'.rel = r
           /\ setup'.clean => Mendable /\ old = {} /\ \A p \in Procs : procs[p] = Gone
<1> DEFINE c == Mendable /\ old = {} /\ \A p \in Procs : procs[p] = Gone
<1>1. c \in BOOLEAN
  OBVIOUS
<1>2. setup' = [Idle EXCEPT !.phase = "dsh", !.pc = "staging", !.rel = r, !.clean = c]
  BY DEF Begin
<1>3. setup'.clean = c
  BY <1>2 DEF Idle
<1> HIDE DEF c
<1>4. /\ setup' \in Setup
      /\ setup'.phase = "dsh" /\ setup'.pc = "staging" /\ setup'.proc = None
      /\ setup'.via = "receipt" /\ setup'.rel = r
  BY <1>1, <1>2 DEF Idle, Setup, Phases, Release
<1>5. QED
  BY <1>3, <1>4 DEF c

\* What an installer that is launched looks like.
LEMMA LaunchFacts ==
    ASSUME NEW d \in {"dsh", "host", "conf"}, NEW r \in Releases,
           NEW g, g = Launched(d, r)
    PROVE  /\ g \in Installer /\ g # Gone
           /\ g.do = d /\ g.rel = r /\ g.held = "absent"
           /\ d = "dsh" => g.at = "look"
           /\ d = "host" => g.at = "publish"
           /\ d = "conf" => g.at = "declare"
<1>1. /\ FirstStep[d] \in Steps
      /\ d = "dsh" => FirstStep[d] = "look"
      /\ d = "host" => FirstStep[d] = "publish"
      /\ d = "conf" => FirstStep[d] = "declare"
  BY DEF FirstStep, Steps
<1>2. /\ g.do = d /\ g.rel = r /\ g.at = FirstStep[d]
      /\ g.held = "absent"
      /\ g = [do |-> g.do, rel |-> g.rel, at |-> g.at, held |-> g.held]
  BY DEF Gone, Launched
<1>3. g # Gone
  BY <1>2 DEF Gone
<1>4. QED
  BY <1>1, <1>2, <1>3 DEF Installer, Bootstraps, Condition

\* What the service may become when it starts.
LEMMA StartsFacts ==
    ASSUME TypeOK, NEW s \in Starts
    PROVE  /\ s \in [enabled : BOOLEAN, ver : Release, prof : Release]
           /\ s.ver = None => s.prof = None
           /\ s.ver # None => s.ver = dsh.cur /\ s.prof = profile.decl
           /\ dsh.cur # None /\ ~Dangling /\ dsh.dir[dsh.cur] # "damaged" /\ ~Torn
                 => s.ver # None
<1> DEFINE Up == [enabled |-> TRUE, ver |-> dsh.cur, prof |-> profile.decl]
           No == [enabled |-> TRUE, ver |-> None, prof |-> None]
<1>1. /\ Up \in [enabled : BOOLEAN, ver : Release, prof : Release]
      /\ No \in [enabled : BOOLEAN, ver : Release, prof : Release]
      /\ Up.ver = dsh.cur /\ Up.prof = profile.decl
      /\ No.ver = None /\ No.prof = None
  BY DEF TypeOK, MachineOK, Release
<1>2. /\ s \in {Up, No}
      /\ dsh.cur = None => s = No
      /\ dsh.cur # None /\ ~Dangling /\ dsh.dir[dsh.cur] # "damaged" /\ ~Torn => s = Up
  BY DEF Starts
<1> HIDE DEF Up, No
<1>3. QED
  BY <1>1, <1>2

\* Faults stay within their bound.
LEMMA FaultCounted ==
    ASSUME TypeOK, Fault
    PROVE  faults' \in 0..MaxFaults
<1>1. faults \in 0..MaxFaults /\ faults < MaxFaults /\ faults' = faults + 1
  BY DEF TypeOK, MachineOK, Fault
<1>2. QED
  BY <1>1, BoundsAssumption

\* So they do when nothing but a setup that goes on disturbs.
LEMMA DisturbanceCounted ==
    ASSUME TypeOK, Fault \/ Disturbance
    PROVE  faults' \in 0..MaxFaults
  BY FaultCounted DEF TypeOK, Disturbance

-----------------------------------------------------------------------------
(* Types.                                                                     *)

LEMMA InitTypes ==
    ASSUME Init
    PROVE  TypeOK
<1>1. /\ dsh \in [dir : [Releases -> Condition], cur : Release,
                  stable : {"none", "torn", "whole"}]
      /\ host \in [pub : SUBSET Releases, cur : Release] /\ host.cur \in host.pub \cup {None}
      /\ profile \in [decl : Release, deps : Release, claim : Release]
      /\ service \in [enabled : BOOLEAN, ver : Release, prof : Release]
      /\ service.ver = None => service.prof = None
  BY DEF Init, Release, Condition
<1>2. procs \in [Procs -> {Gone} \cup Installer]
  BY DEF Init
<1>3. /\ setup \in Setup /\ setup.phase = "idle" /\ setup.pc = "none" /\ setup.proc = None
  BY DEF Init, Idle, Setup, Release, Phases
<1>4. strayed \in BOOLEAN /\ cut \subseteq Releases /\ old \subseteq Old
      /\ setups \in 0..MaxSetups /\ faults \in 0..MaxFaults
  <2>1. strayed = FALSE /\ cut = {} /\ old = {} /\ setups = 0 /\ faults = 0
    BY DEF Init
  <2>2. strayed \in BOOLEAN /\ cut \subseteq Releases /\ old \subseteq Old
    BY <2>1
  <2>3. 0 \in 0..MaxSetups /\ 0 \in 0..MaxFaults
    BY BoundsAssumption
  <2>4. QED
    BY <2>1, <2>2, <2>3
<1>5. QED
  BY <1>1, <1>2, <1>3, <1>4 DEF TypeOK, MachineOK, Bootstraps

LEMMA ControlTypes ==
    ASSUME TypeOK, InstallersFit,
           \/ \E r \in Releases : Begin(r)
           \/ StagingFails \/ CommandTimesOut \/ CleanUp \/ CleanUpFails
           \/ Reconcile \/ ReconcileFails \/ Reach \/ ReachFails
           \/ ControlGivesUp \/ ControlDies
    PROVE  TypeOK'
<1>1. CASE \E r \in Releases : Begin(r)
  <2>1. PICK r \in Releases : Begin(r)
    BY <1>1
  <2>2. /\ setup' \in Setup
        /\ setup'.phase = "dsh" /\ setup'.pc = "staging" /\ setup'.proc = None
    BY <2>1, BeginFacts
  <2>3. setups' \in 0..MaxSetups
    <3>1. setups \in 0..MaxSetups /\ setups < MaxSetups /\ setups' = setups + 1
      BY <2>1 DEF TypeOK, MachineOK, Begin
    <3>2. QED
      BY <3>1, BoundsAssumption
  <2>4. QED
    BY <2>1, <2>2, <2>3, ZenonT(60) DEF TypeOK, MachineOK, Begin, machine, history, Bootstraps
<1>2. CASE StagingFails \/ CommandTimesOut \/ CleanUpFails
  <2>1. /\ setup' \in Setup /\ setup'.phase = setup.phase /\ setup'.proc = None
        /\ setup'.pc = "reconciling" /\ setup.pc # "none"
    <3>1. CASE StagingFails
      BY <3>1 DEF TypeOK, MachineOK, StagingFails, Setup
    <3>2. CASE CommandTimesOut
      BY <3>2 DEF TypeOK, MachineOK, CommandTimesOut, Setup
    <3>3. CASE CleanUpFails
      BY <3>3 DEF TypeOK, MachineOK, CleanUpFails, Setup
    <3>4. QED
      BY <1>2, <3>1, <3>2, <3>3
  <2>2. faults' \in 0..MaxFaults /\ strayed' \in BOOLEAN
    BY <1>2, FaultCounted, DisturbanceCounted
       DEF TypeOK, MachineOK, StagingFails, CommandTimesOut, CleanUpFails, history
  <2>3. QED
    BY <1>2, <2>1, <2>2
       DEF TypeOK, MachineOK, StagingFails, CommandTimesOut, CleanUpFails, machine, history
<1>3. CASE CleanUp \/ Reconcile
  <2>1. setup.phase \in {"dsh", "host", "conf"}
    BY <1>3, AtBootstrap DEF CleanUp, Reconcile
  <2>2. PICK v \in {"receipt", "status"} : setup' = Enter(Following[setup.phase], v)
    BY <1>3 DEF CleanUp, Reconcile
  <2>3. Following[setup.phase] \in Phases
    BY <2>1, FollowingFacts DEF Phases
  <2>4. /\ setup' \in Setup
        /\ setup'.pc # "none" <=> setup'.phase \in Bootstraps
        /\ setup'.pc # "waiting" /\ setup'.proc = None
    BY <2>2, <2>3, EnterFacts DEF TypeOK, MachineOK
  <2>5. QED
    BY <1>3, <2>4 DEF TypeOK, MachineOK, CleanUp, Reconcile, machine, history
<1>4. CASE Reach
  <2>1. Following[setup.phase] \in Phases
    BY <1>4, FollowingFacts DEF Phases, Reach
  <2>2. /\ setup' \in Setup
        /\ setup'.pc # "none" <=> setup'.phase \in Bootstraps
        /\ setup'.pc # "waiting" /\ setup'.proc = None
    BY <1>4, <2>1, EnterFacts DEF TypeOK, MachineOK, Reach, Setup
  <2>3. QED
    BY <1>4, <2>2 DEF TypeOK, MachineOK, Reach, machine, history
<1>5. CASE ReconcileFails \/ ReachFails
  <2>1. /\ setup' \in Setup
        /\ setup'.phase = "failed" /\ setup'.pc = "none" /\ setup'.proc = None
    BY <1>5, FailedFacts DEF TypeOK, MachineOK, ReconcileFails, ReachFails
  <2>2. QED
    BY <1>5, <2>1, BoundsAssumption
       DEF TypeOK, MachineOK, ReconcileFails, ReachFails, Fault, machine, history, Bootstraps
<1>6. CASE ControlGivesUp \/ ControlDies
  <2>1. setup' = Idle /\ Idle \in Setup /\ UNCHANGED <<machine, procs, cut, setups>>
    BY <1>6 DEF ControlGivesUp, ControlDies, Idle, Setup, Phases, Release
  <2>2. faults' \in 0..MaxFaults /\ strayed' \in BOOLEAN
    BY <1>6, FaultCounted DEF ControlGivesUp, ControlDies, TypeOK
  <2>3. old' \subseteq Old
    <3>1. CASE ControlGivesUp
      <4>1. NextInstaller \in Bootstraps \cup {"none"} /\ setup.rel \in Releases
        BY <3>1 DEF ControlGivesUp, NextInstaller, Settled, Bootstraps, Phases, TypeOK, Setup,
                    InstallersFit
      <4>2. setups \in 0..MaxSetups
        BY DEF TypeOK
      <4>3. [id |-> setups, next |-> NextInstaller, rel |-> setup.rel] \in Old
        BY <4>1, <4>2 DEF Old
      <4>4. QED
        BY <3>1, <4>3 DEF ControlGivesUp, TypeOK
    <3>2. CASE ControlDies
      BY <3>2 DEF ControlDies
    <3>3. QED
      BY <1>6, <3>1, <3>2
  <2>4. QED
    BY <2>1, <2>2, <2>3 DEF TypeOK, MachineOK, Idle, Bootstraps, machine
<1>7. QED
  BY <1>1, <1>2, <1>3, <1>4, <1>5, <1>6

LEMMA MachineTypes ==
    ASSUME TypeOK, InstallersFit,
           \/ SystemdStarts \/ ServiceDies \/ \E r \in Releases : Damage(r)
           \/ Reboot
    PROVE  TypeOK'
<1>1. CASE SystemdStarts
  <2>1. /\ service' \in [enabled : BOOLEAN, ver : Release, prof : Release]
        /\ service'.ver = None => service'.prof = None
    BY <1>1, StartsFacts DEF SystemdStarts
  <2>2. QED
    BY <1>1, <2>1 DEF TypeOK, MachineOK, SystemdStarts, history
<1>2. CASE ServiceDies
  <2>1. /\ service' \in [enabled : BOOLEAN, ver : Release, prof : Release]
        /\ service'.ver = None /\ service'.prof = None
    BY <1>2 DEF TypeOK, MachineOK, ServiceDies, Down, Release
  <2>2. /\ setup' \in Setup /\ setup'.phase = setup.phase /\ setup'.proc = setup.proc
        /\ setup'.pc = setup.pc
    BY <1>2 DEF TypeOK, MachineOK, ServiceDies, Setup
  <2>3. QED
    BY <1>2, <2>1, <2>2, FaultCounted DEF TypeOK, MachineOK, ServiceDies, history
<1>3. CASE \E r \in Releases : Damage(r)
  <2>1. PICK r \in Releases : Damage(r)
    BY <1>3
  <2>2. dsh' \in [dir : [Releases -> Condition], cur : Release,
                  stable : {"none", "torn", "whole"}]
    BY <2>1 DEF TypeOK, MachineOK, Damage, Condition
  <2>3. /\ setup' \in Setup /\ setup'.phase = setup.phase /\ setup'.proc = setup.proc
        /\ setup'.pc = setup.pc
    BY <2>1 DEF TypeOK, MachineOK, Damage, Setup
  <2>4. QED
    BY <2>1, <2>2, <2>3, FaultCounted DEF TypeOK, MachineOK, Damage, history
<1>4. CASE Reboot
  <2>1. /\ setup' \in Setup /\ setup'.phase = setup.phase /\ setup'.proc = None
        /\ setup'.pc = IF setup.pc = "waiting" THEN "reconciling" ELSE setup.pc
    BY <1>4 DEF TypeOK, MachineOK, Reboot, Setup
  <2>2. cut' \subseteq Releases
    <3>1. ASSUME NEW p \in Procs, Swapping(p) PROVE procs[p].rel \in Releases
      BY <3>1 DEF TypeOK, MachineOK, Swapping, Gone, Installer
    <3>2. QED
      BY <1>4, <3>1 DEF TypeOK, MachineOK, Reboot
  <2>3. procs' \in [Procs -> {Gone} \cup Installer]
    BY <1>4 DEF Reboot
  <2>4. /\ service' \in [enabled : BOOLEAN, ver : Release, prof : Release]
        /\ service'.ver = None /\ service'.prof = None
    BY <1>4 DEF TypeOK, MachineOK, Reboot, Down, Release
  <2>5. faults' \in 0..MaxFaults
    BY <1>4, FaultCounted DEF Reboot
  <2>6. QED
    BY <1>4, <2>1, <2>2, <2>3, <2>4, <2>5 DEF TypeOK, MachineOK, Reboot
<1>5. QED
  BY <1>1, <1>2, <1>3, <1>4

\* An installer that goes on, with what it knows of the directory it replaces.
LEMMA GoesOn ==
    ASSUME TypeOK, NEW p \in Procs, procs[p] # Gone, NEW at \in Steps,
           NEW held \in Condition,
           procs' = [procs EXCEPT ![p].at = at, ![p].held = held]
    PROVE  /\ procs' \in [Procs -> {Gone} \cup Installer]
           /\ procs'[p] # Gone /\ procs'[p].do = procs[p].do /\ procs'[p].rel = procs[p].rel
           /\ procs'[p].at = at /\ procs'[p].held = held
           /\ \A q \in Procs \ {p} : procs'[q] = procs[q]
<1>1. procs \in [Procs -> {Gone} \cup Installer] /\ procs[p] \in Installer
  BY DEF TypeOK
<1>2. /\ procs'[p] \in Installer /\ procs'[p].do = procs[p].do
      /\ procs'[p].rel = procs[p].rel /\ procs'[p].at = at /\ procs'[p].held = held
  BY <1>1 DEF Installer
<1>3. procs'[p] # Gone
  BY <1>2 DEF Gone, Installer, Bootstraps
<1>4. QED
  BY <1>1, <1>2, <1>3

\* An installer that goes on to another step.
LEMMA GoToFacts ==
    ASSUME TypeOK, NEW p \in Procs, procs[p] # Gone, NEW at \in Steps, GoTo(p, at)
    PROVE  /\ procs' \in [Procs -> {Gone} \cup Installer]
           /\ procs'[p] # Gone /\ procs'[p].do = procs[p].do /\ procs'[p].rel = procs[p].rel
           /\ procs'[p].at = at /\ procs'[p].held = procs[p].held
           /\ \A q \in Procs \ {p} : procs'[q] = procs[q]
<1>1. procs \in [Procs -> {Gone} \cup Installer] /\ procs[p] \in Installer
  BY DEF TypeOK, MachineOK
<1>2. procs' = [procs EXCEPT ![p].at = at]
  BY DEF GoTo
<1>3. procs'[p] \in Installer /\ procs'[p].do = procs[p].do /\ procs'[p].rel = procs[p].rel
      /\ procs'[p].at = at /\ procs'[p].held = procs[p].held
  BY <1>1, <1>2 DEF Installer
<1>4. procs'[p] # Gone
  BY <1>3 DEF Gone, Installer, Bootstraps
<1>5. QED
  BY <1>1, <1>2, <1>3, <1>4

\* What an installer at some step is.
LEMMA AtFacts ==
    ASSUME TypeOK, NEW p \in Procs, procs[p].at # "none"
    PROVE  /\ procs[p] # Gone /\ procs[p] \in Installer
           /\ procs[p].rel \in Releases /\ procs[p].held \in Condition
  BY DEF TypeOK, MachineOK, Gone, Installer

\* An installer that ends, and the setup that may have waited for it.
LEMMA EndsFacts ==
    ASSUME TypeOK, NEW p \in Procs, NEW ok \in BOOLEAN, Ends(p, ok)
    PROVE  /\ procs' \in [Procs -> {Gone} \cup Installer]
           /\ procs'[p] = Gone
           /\ \A q \in Procs \ {p} : procs'[q] = procs[q]
           /\ setup' \in Setup
           /\ setup'.phase = setup.phase /\ setup'.rel = setup.rel
           /\ setup'.via = setup.via /\ setup'.clean = setup.clean
           /\ setup.proc # p => setup' = setup
           /\ setup.proc = p => /\ setup'.proc = None
                                /\ setup'.pc = IF ok THEN "cleaning" ELSE "reconciling"
<1>1. procs \in [Procs -> {Gone} \cup Installer] /\ setup \in Setup
  BY DEF TypeOK, MachineOK
<1>2. procs' = [procs EXCEPT ![p] = Gone]
  BY DEF Ends
<1>3. CASE setup.proc = p
  BY <1>1, <1>2, <1>3 DEF Ends, Setup
<1>4. CASE setup.proc # p
  BY <1>1, <1>2, <1>4 DEF Ends, Setup
<1>5. QED
  BY <1>3, <1>4

\* An installer that ends keeps the types.
LEMMA EndsTypes ==
    ASSUME TypeOK, NEW p \in Procs, NEW ok \in BOOLEAN, Ends(p, ok),
           MachineOK', cut' \subseteq Releases, UNCHANGED <<setups, faults, old, strayed>>
    PROVE  TypeOK'
<1>1. /\ (setup'.pc # "none") <=> (setup'.phase \in Bootstraps)
      /\ setup'.pc = "waiting" <=> setup'.proc # None
      /\ setup'.proc # None => procs'[setup'.proc] # Gone
  BY EndsFacts, NullAssumption DEF TypeOK, Setup
<1>2. procs' \in [Procs -> {Gone} \cup Installer] /\ setup' \in Setup
  BY EndsFacts
<1>3. QED
  BY <1>1, <1>2 DEF TypeOK

\* So does one that goes on.
LEMMA GoingTypes ==
    ASSUME TypeOK, NEW p \in Procs,
           procs' \in [Procs -> {Gone} \cup Installer], procs'[p] # Gone,
           \A q \in Procs \ {p} : procs'[q] = procs[q],
           MachineOK', cut' \subseteq Releases,
           UNCHANGED <<setup, setups, faults, old, strayed>>
    PROVE  TypeOK'
<1>1. setup'.proc # None => procs'[setup'.proc] # Gone
  BY DEF TypeOK, Setup
<1>2. QED
  BY <1>1 DEF TypeOK

\* A directory of DSH takes another condition.
LEMMA DirTypes ==
    ASSUME MachineOK, NEW r \in Releases, NEW c \in Condition,
           dsh' = [dsh EXCEPT !.dir[r] = c], UNCHANGED <<host, profile, service>>
    PROVE  MachineOK'
<1>1. dsh' \in [dir : [Releases -> Condition], cur : Release,
                stable : {"none", "torn", "whole"}]
  BY DEF MachineOK
<1>2. QED
  BY <1>1 DEF MachineOK

\* The machine, when an installer does a step.
LEMMA StepMachine ==
    ASSUME TypeOK, InstallersFit, NEW p \in Procs, ProcStep(p)
    PROVE  MachineOK'
<1> USE DEF TypeOK
<1>1. procs[p].at # "none"
  BY DEF ProcStep, At, Look, Build, SetAside, Publish, Switch, CopyInstaller, EnableService,
     AwaitHealth, PublishHost, SwitchHost, Declare, InstallDeps, Claim, RestartService
<1>2. procs[p].rel \in Releases /\ procs[p].held \in Condition
  BY <1>1, AtFacts
<1>3. CASE Look(p) \/ Build(p) \/ AwaitHealth(p)
  BY <1>3 DEF Look, Build, AwaitHealth, machine, MachineOK
<1>4. CASE SetAside(p)
  BY <1>2, <1>4, DirTypes DEF SetAside, MachineOK, Condition
<1>5. CASE Publish(p)
  BY <1>2, <1>5, DirTypes DEF Publish, MachineOK, Condition
<1>6. CASE Switch(p)
  BY <1>2, <1>6 DEF Switch, MachineOK, Release
<1>7. CASE CopyInstaller(p)
  BY <1>7 DEF CopyInstaller, MachineOK
<1>8. CASE EnableService(p) \/ RestartService(p)
  <2>1. CASE service' \in Starts
    <3>1. /\ service' \in [enabled : BOOLEAN, ver : Release, prof : Release]
          /\ service'.ver = None => service'.prof = None
      BY <2>1, StartsFacts
    <3>2. QED
      BY <1>8, <3>1 DEF EnableService, RestartService, MachineOK
  <2>2. CASE EnableService(p) /\ service' = [service EXCEPT !.enabled = TRUE]
    <3>1. /\ service' \in [enabled : BOOLEAN, ver : Release, prof : Release]
          /\ service'.ver = None => service'.prof = None
      BY <2>2 DEF MachineOK
    <3>2. QED
      BY <2>2, <3>1 DEF EnableService, MachineOK
  <2>3. QED
    BY <1>8, <2>1, <2>2 DEF EnableService, RestartService
<1>9. CASE PublishHost(p)
  BY <1>2, <1>9 DEF PublishHost, MachineOK
<1>10. CASE SwitchHost(p)
  <2>1. procs[p].rel \in host.pub
    BY <1>1, <1>10, AtFacts DEF InstallersFit, SwitchHost, At
  <2>2. host'.cur = procs[p].rel /\ host'.pub = host.pub
        /\ host' \in [pub : SUBSET Releases, cur : Release]
    BY <1>2, <1>10 DEF SwitchHost, MachineOK, Release
  <2>3. QED
    BY <1>10, <2>1, <2>2 DEF SwitchHost, MachineOK
<1>11. CASE Declare(p) \/ InstallDeps(p) \/ Claim(p)
  <2>1. profile' \in [decl : Release, deps : Release, claim : Release]
    BY <1>2, <1>11 DEF Declare, InstallDeps, Claim, MachineOK, Release
  <2>2. QED
    BY <1>11, <2>1 DEF Declare, InstallDeps, Claim, MachineOK
<1>12. QED
  BY <1>3, <1>4, <1>5, <1>6, <1>7, <1>8, <1>9, <1>10, <1>11 DEF ProcStep

-----------------------------------------------------------------------------
(* How an installer moves.                                                    *)

\* An installer goes on to one of the steps, and the control machine waits.
Moves(p, steps) ==
    /\ procs' \in [Procs -> {Gone} \cup Installer]
    /\ procs'[p] # Gone /\ procs'[p].do = procs[p].do /\ procs'[p].rel = procs[p].rel
    /\ procs'[p].at \in steps
    /\ \A q \in Procs \ {p} : procs'[q] = procs[q]
    /\ UNCHANGED setup

LEMMA ByGoTo ==
    ASSUME TypeOK, NEW p \in Procs, procs[p].at # "none", NEW at \in Steps, GoTo(p, at),
           UNCHANGED setup
    PROVE  Moves(p, {at}) /\ procs'[p].held = procs[p].held
  BY AtFacts, GoToFacts DEF Moves

LEMMA LookMoves ==
    ASSUME TypeOK, NEW p \in Procs, Look(p)
    PROVE  /\ Moves(p, {"build", "switch"})
           /\ procs'[p].at = "switch" <=> dsh.dir[procs[p].rel] = "whole"
           /\ procs'[p].at = "build" =>
                 procs'[p].held = IF dsh.dir[procs[p].rel] = "damaged" THEN "damaged"
                                  ELSE "absent"
<1> DEFINE at == IF dsh.dir[procs[p].rel] = "whole" THEN "switch" ELSE "build"
           held == IF dsh.dir[procs[p].rel] = "damaged" THEN "damaged" ELSE "absent"
<1>1. at \in Steps /\ held \in Condition /\ at \in {"build", "switch"}
  BY DEF Steps, Condition
<1>2. procs[p] # Gone /\ UNCHANGED setup
  BY AtFacts DEF Look, At
<1>3. procs' = [procs EXCEPT ![p].held = held, ![p].at = at]
  BY DEF Look
<1>4. at = "switch" <=> dsh.dir[procs[p].rel] = "whole"
  OBVIOUS
<1> HIDE DEF at, held
<1>5. procs' = [procs EXCEPT ![p].at = at, ![p].held = held]
  BY <1>3 DEF TypeOK
<1>6. /\ procs' \in [Procs -> {Gone} \cup Installer]
      /\ procs'[p] # Gone /\ procs'[p].do = procs[p].do /\ procs'[p].rel = procs[p].rel
      /\ procs'[p].at = at /\ procs'[p].held = held
      /\ \A q \in Procs \ {p} : procs'[q] = procs[q]
  BY <1>1, <1>2, <1>5, GoesOn
<1>7. Moves(p, {"build", "switch"})
  BY <1>1, <1>2, <1>6 DEF Moves
<1>8. QED
  BY <1>4, <1>6, <1>7 DEF held

LEMMA BuildMoves ==
    ASSUME TypeOK, NEW p \in Procs, Build(p)
    PROVE  /\ Moves(p, {"aside", "publish"}) /\ procs'[p].held = procs[p].held
           /\ procs'[p].at = "aside" <=> procs[p].held = "damaged"
<1> DEFINE at == IF procs[p].held = "damaged" THEN "aside" ELSE "publish"
<1>1. at \in Steps /\ at \in {"aside", "publish"}
      /\ (at = "aside" <=> procs[p].held = "damaged")
  BY DEF Steps
<1>2. procs[p].at # "none" /\ GoTo(p, at) /\ UNCHANGED setup
  BY DEF Build, At
<1> HIDE DEF at
<1>3. QED
  BY <1>1, <1>2, ByGoTo DEF Moves

LEMMA SetAsideMoves ==
    ASSUME TypeOK, NEW p \in Procs, SetAside(p)
    PROVE  IF dsh.dir[procs[p].rel] = "absent"
           THEN Ends(p, FALSE) /\ UNCHANGED dsh
           ELSE /\ Moves(p, {"publish"}) /\ procs'[p].held = dsh.dir[procs[p].rel]
                /\ dsh'.dir = [dsh.dir EXCEPT ![procs[p].rel] = "absent"]
                /\ dsh'.cur = dsh.cur
<1>1. procs[p] # Gone /\ procs[p].rel \in Releases
  BY AtFacts DEF SetAside, At
<1>2. CASE dsh.dir[procs[p].rel] = "absent"
  BY <1>2 DEF SetAside
<1>3. CASE dsh.dir[procs[p].rel] # "absent"
  <2>1. procs' = [procs EXCEPT ![p].at = "publish", ![p].held = dsh.dir[procs[p].rel]]
        /\ UNCHANGED setup
    BY <1>3 DEF SetAside
  <2>2. dsh.dir[procs[p].rel] \in Condition
    BY <1>1 DEF TypeOK, MachineOK
  <2>3. "publish" \in Steps
    BY DEF Steps
  <2>4. Moves(p, {"publish"}) /\ procs'[p].held = dsh.dir[procs[p].rel]
    <3>1. /\ procs' \in [Procs -> {Gone} \cup Installer]
          /\ procs'[p] # Gone /\ procs'[p].do = procs[p].do /\ procs'[p].rel = procs[p].rel
          /\ procs'[p].at = "publish" /\ procs'[p].held = dsh.dir[procs[p].rel]
          /\ \A q \in Procs \ {p} : procs'[q] = procs[q]
      BY <1>1, <2>1, <2>2, <2>3, GoesOn
    <3>2. QED
      BY <2>1, <3>1 DEF Moves
  <2>5. /\ dsh'.dir = [dsh.dir EXCEPT ![procs[p].rel] = "absent"]
        /\ dsh'.cur = dsh.cur
    BY <1>1, <1>3 DEF SetAside, TypeOK, MachineOK
  <2>6. QED
    BY <1>3, <2>4, <2>5
<1>4. QED
  BY <1>2, <1>3

LEMMA PublishMoves ==
    ASSUME TypeOK, NEW p \in Procs, Publish(p)
    PROVE  IF dsh.dir[procs[p].rel] # "absent"
           THEN Ends(p, FALSE) /\ UNCHANGED <<dsh, cut>>
           ELSE /\ Moves(p, {"switch"})
                /\ dsh'.dir = [dsh.dir EXCEPT ![procs[p].rel] = "whole"]
                /\ dsh'.cur = dsh.cur /\ cut' = cut \ {procs[p].rel}
<1>1. procs[p].at # "none" /\ procs[p].rel \in Releases
  BY AtFacts DEF Publish, At
<1>2. CASE dsh.dir[procs[p].rel] # "absent"
  BY <1>2 DEF Publish
<1>3. CASE dsh.dir[procs[p].rel] = "absent"
  <2>1. GoTo(p, "switch") /\ UNCHANGED setup /\ cut' = cut \ {procs[p].rel}
    BY <1>3 DEF Publish
  <2>2. Moves(p, {"switch"})
    BY <1>1, <2>1, ByGoTo DEF Steps
  <2>3. /\ dsh'.dir = [dsh.dir EXCEPT ![procs[p].rel] = "whole"]
        /\ dsh'.cur = dsh.cur
    BY <1>1, <1>3 DEF Publish, TypeOK, MachineOK
  <2>4. QED
    BY <1>3, <2>1, <2>2, <2>3
<1>4. QED
  BY <1>2, <1>3

\* The other steps: where each goes on to, or how it ends.
LEMMA OtherMoves ==
    ASSUME TypeOK, NEW p \in Procs
    PROVE  /\ Switch(p) => Moves(p, {"open"})
           /\ CopyInstaller(p) /\ procs[p].at = "open" => Moves(p, {"write"})
           /\ CopyInstaller(p) /\ procs[p].at # "open" => Moves(p, {"service"})
           /\ EnableService(p) => Moves(p, {"health"})
           /\ PublishHost(p) => Moves(p, {"switch"})
           /\ Declare(p) => Moves(p, {"deps"})
           /\ InstallDeps(p) => Moves(p, {"claim"})
           /\ Claim(p) => Moves(p, {"restart"})
           /\ RestartService(p) => Moves(p, {"health"})
<1> USE DEF Steps, At
<1>1. Switch(p) => Moves(p, {"open"})
  BY ByGoTo DEF Switch
<1>2. CopyInstaller(p) /\ procs[p].at = "open" => Moves(p, {"write"})
  BY ByGoTo DEF CopyInstaller
<1>3. CopyInstaller(p) /\ procs[p].at # "open" => Moves(p, {"service"})
  BY ByGoTo DEF CopyInstaller
<1>4. EnableService(p) => Moves(p, {"health"})
  BY ByGoTo DEF EnableService
<1>5. PublishHost(p) => Moves(p, {"switch"})
  BY ByGoTo DEF PublishHost
<1>6. Declare(p) => Moves(p, {"deps"})
  BY ByGoTo DEF Declare
<1>7. InstallDeps(p) => Moves(p, {"claim"})
  BY ByGoTo DEF InstallDeps
<1>8. Claim(p) => Moves(p, {"restart"})
  BY ByGoTo DEF Claim
<1>9. RestartService(p) => Moves(p, {"health"})
  BY ByGoTo DEF RestartService
<1>10. QED
  BY <1>1, <1>2, <1>3, <1>4, <1>5, <1>6, <1>7, <1>8, <1>9

\* A step of an installer, and what it leaves alone.
LEMMA StepMoves ==
    ASSUME TypeOK, NEW p \in Procs, ProcStep(p)
    PROVE  /\ procs[p] # Gone
           /\ UNCHANGED <<old, strayed, setups, faults>>
           /\ \/ Moves(p, Steps)
              \/ \E ok \in BOOLEAN : Ends(p, ok)
           /\ ~Publish(p) => UNCHANGED cut
<1>1. procs[p].at # "none"
  BY DEF ProcStep, At, Look, Build, SetAside, Publish, Switch, CopyInstaller, EnableService,
     AwaitHealth, PublishHost, SwitchHost, Declare, InstallDeps, Claim, RestartService
<1>2. procs[p] # Gone
  BY <1>1, AtFacts
<1>3. ASSUME NEW s \in SUBSET Steps, Moves(p, s) PROVE Moves(p, Steps)
  BY <1>3 DEF Moves
<1>4. CASE Look(p)
  <2>1. Moves(p, Steps)
    BY <1>3, <1>4, LookMoves DEF Steps
  <2>2. QED
    BY <1>2, <1>4, <2>1 DEF Look, history
<1>5. CASE Build(p)
  <2>1. Moves(p, Steps)
    BY <1>3, <1>5, BuildMoves DEF Steps
  <2>2. QED
    BY <1>2, <1>5, <2>1 DEF Build, history
<1>6. CASE SetAside(p)
  <2>1. Moves(p, Steps) \/ Ends(p, FALSE)
    BY <1>3, <1>6, SetAsideMoves DEF Steps
  <2>2. QED
    BY <1>2, <1>6, <2>1 DEF SetAside, history
<1>7. CASE Publish(p)
  <2>1. Moves(p, Steps) \/ Ends(p, FALSE)
    BY <1>3, <1>7, PublishMoves DEF Steps
  <2>2. QED
    BY <1>2, <1>7, <2>1 DEF Publish
<1>8. CASE Switch(p) \/ CopyInstaller(p) \/ EnableService(p) \/ PublishHost(p)
           \/ Declare(p) \/ InstallDeps(p) \/ Claim(p) \/ RestartService(p)
  <2>1. Moves(p, Steps)
    BY <1>3, <1>8, OtherMoves DEF Steps
  <2>2. QED
    BY <1>2, <1>8, <2>1
       DEF Switch, CopyInstaller, EnableService, PublishHost, Declare, InstallDeps, Claim,
           RestartService, history
<1>9. CASE AwaitHealth(p) \/ SwitchHost(p)
  <2>1. \E ok \in BOOLEAN : Ends(p, ok)
    BY <1>9 DEF AwaitHealth, SwitchHost, Healthy
  <2>2. QED
    BY <1>2, <1>9, <2>1 DEF AwaitHealth, SwitchHost, history
<1>10. QED
  BY <1>4, <1>5, <1>6, <1>7, <1>8, <1>9 DEF ProcStep

LEMMA StepTypes ==
    ASSUME TypeOK, InstallersFit, NEW p \in Procs, ProcStep(p)
    PROVE  TypeOK'
<1>1. MachineOK'
  BY StepMachine
<1>2. cut' \subseteq Releases
  BY StepMoves DEF TypeOK, Publish
<1>3. CASE Moves(p, Steps)
  BY <1>1, <1>2, <1>3, StepMoves, GoingTypes DEF Moves
<1>4. CASE \E ok \in BOOLEAN : Ends(p, ok)
  BY <1>1, <1>2, <1>4, StepMoves, EndsTypes
<1>5. QED
  BY <1>3, <1>4, StepMoves

\* An installer that fails, and what it leaves of the directory.
LEMMA FailFacts ==
    ASSUME TypeOK, NEW p \in Procs, StepFails(p)
    PROVE  /\ procs' = [procs EXCEPT ![p] = Gone]
           /\ setup' \in Setup
           /\ setup'.phase = setup.phase /\ setup'.rel = setup.rel
           /\ setup'.clean = FALSE
           /\ setup'.proc = IF setup.proc = p THEN None ELSE setup.proc
           /\ setup'.pc = IF setup.proc = p THEN "reconciling" ELSE setup.pc
           /\ setup'.via = setup.via
           /\ dsh'.cur = dsh.cur
           /\ MachineOK'
           /\ \A r \in Releases : dsh.dir[r] # "absent" => dsh'.dir[r] = dsh.dir[r]
           /\ cut \subseteq cut' /\ cut' \subseteq Releases
           /\ Aside(p) => dsh'.dir[procs[p].rel] # "absent" \/ procs[p].rel \in cut'
<1>1. /\ procs' = [procs EXCEPT ![p] = Gone]
      /\ setup' \in Setup
      /\ setup'.phase = setup.phase /\ setup'.rel = setup.rel
      /\ setup'.clean = FALSE
      /\ setup'.proc = IF setup.proc = p THEN None ELSE setup.proc
      /\ setup'.pc = IF setup.proc = p THEN "reconciling" ELSE setup.pc
      /\ setup'.via = setup.via
  BY DEF StepFails, TypeOK, Setup
<1>2. procs[p] \in Installer /\ procs[p].rel \in Releases /\ procs[p].held \in Condition
  BY DEF StepFails, TypeOK, Installer
<1>3. CASE Swapping(p) /\ dsh' = PutBack(p) /\ UNCHANGED cut
  <2>1. dsh' = [dsh EXCEPT !.dir[procs[p].rel] = procs[p].held] /\ cut \subseteq Releases
    BY <1>3 DEF PutBack, TypeOK
  <2>2. MachineOK'
    BY <1>2, <2>1, DirTypes DEF TypeOK, StepFails
  <2>3. /\ dsh'.cur = dsh.cur
        /\ dsh'.dir = [dsh.dir EXCEPT ![procs[p].rel] = procs[p].held]
        /\ dsh.dir \in [Releases -> Condition]
    BY <2>1 DEF TypeOK, MachineOK
  <2>4. procs[p].held # "absent" /\ dsh.dir[procs[p].rel] = "absent"
    BY <1>3 DEF Swapping
  <2>5. QED
    BY <1>1, <1>2, <1>3, <2>1, <2>2, <2>3, <2>4
<1>4. CASE dsh' = dsh
  <2>1. MachineOK'
    BY <1>4 DEF StepFails, TypeOK, MachineOK
  <2>2. cut \subseteq cut' /\ cut' \subseteq Releases
    BY <1>2 DEF StepFails, TypeOK
  <2>3. ASSUME Swapping(p) PROVE procs[p].rel \in cut'
    <3>1. CASE dsh' = PutBack(p)
      <4>1. procs[p].held # "absent" /\ dsh.dir[procs[p].rel] = "absent"
            /\ dsh.dir \in [Releases -> Condition]
        BY <2>3 DEF Swapping, TypeOK, MachineOK
      <4>2. dsh'.dir = [dsh.dir EXCEPT ![procs[p].rel] = procs[p].held]
        BY <2>3, <3>1 DEF PutBack, TypeOK, MachineOK
      <4>3. QED
        BY <1>2, <1>4, <4>1, <4>2
    <3>2. CASE cut' = cut \cup {procs[p].rel}
      BY <3>2
    <3>3. QED
      BY <3>1, <3>2 DEF StepFails
  <2>4. Aside(p) => dsh.dir[procs[p].rel] # "absent" \/ Swapping(p)
    BY DEF Aside, Swapping
  <2>5. QED
    BY <1>1, <1>4, <2>1, <2>2, <2>3, <2>4
<1>5. QED
  BY <1>3, <1>4 DEF StepFails, PutBack

LEMMA StepFailsTypes ==
    ASSUME TypeOK, NEW p \in Procs, StepFails(p)
    PROVE  TypeOK'
<1>1. /\ (setup'.pc # "none") <=> (setup'.phase \in Bootstraps)
      /\ setup'.pc = "waiting" <=> setup'.proc # None
      /\ setup'.proc # None => procs'[setup'.proc] # Gone
  <2>1. /\ setup.proc \in Procs \cup {None} /\ p # None
        /\ (setup.pc # "none") <=> (setup.phase \in Bootstraps)
        /\ setup.pc = "waiting" <=> setup.proc # None
        /\ setup.proc # None => procs[setup.proc] # Gone
        /\ procs \in [Procs -> {Gone} \cup Installer]
    BY NullAssumption DEF TypeOK, Setup
  <2>2. /\ setup'.phase = setup.phase
        /\ setup'.proc = IF setup.proc = p THEN None ELSE setup.proc
        /\ setup'.pc = IF setup.proc = p THEN "reconciling" ELSE setup.pc
        /\ procs' = [procs EXCEPT ![p] = Gone]
    BY FailFacts
  <2>3. CASE setup.proc = p
    BY <2>1, <2>2, <2>3
  <2>4. CASE setup.proc # p
    BY <2>1, <2>2, <2>4
  <2>5. QED
    BY <2>3, <2>4
<1>2. procs' \in [Procs -> {Gone} \cup Installer] /\ setup' \in Setup /\ MachineOK'
  BY FailFacts DEF TypeOK
<1>3. strayed' \in BOOLEAN /\ cut' \subseteq Releases /\ old' \subseteq Old
      /\ setups' \in 0..MaxSetups /\ faults' \in 0..MaxFaults
  BY FailFacts, DisturbanceCounted DEF StepFails, TypeOK
<1>4. QED
  BY <1>1, <1>2, <1>3 DEF TypeOK

\* An installer is launched, and awaited.
LEMMA LaunchMoves ==
    ASSUME TypeOK, InstallersFit, NEW p \in Procs, Launch(p)
    PROVE  /\ procs' \in [Procs -> {Gone} \cup Installer]
           /\ \A q \in Procs \ {p} : procs'[q] = procs[q]
           /\ procs'[p] # Gone /\ procs'[p].do = setup.phase /\ procs'[p].rel = setup.rel
           /\ procs'[p].held = "absent"
           /\ setup.phase \in {"dsh", "host", "conf"}
           /\ setup.phase = "dsh" => procs'[p].at = "look"
           /\ setup.phase = "host" => procs'[p].at = "publish"
           /\ setup.phase = "conf" => procs'[p].at = "declare"
           /\ setup' \in Setup /\ setup'.pc = "waiting" /\ setup'.proc = p
           /\ setup'.phase = setup.phase /\ setup'.rel = setup.rel
           /\ setup'.via = setup.via /\ setup'.clean = setup.clean
<1>1. setup.phase \in {"dsh", "host", "conf"} /\ setup.rel \in Releases
  BY AtBootstrap DEF Launch, InstallersFit
<1> DEFINE g == Launched(setup.phase, setup.rel)
<1>2. procs' = [procs EXCEPT ![p] = g]
  BY DEF Launch
<1>3. /\ g \in Installer /\ g # Gone
      /\ g.do = setup.phase /\ g.rel = setup.rel /\ g.held = "absent"
      /\ setup.phase = "dsh" => g.at = "look"
      /\ setup.phase = "host" => g.at = "publish"
      /\ setup.phase = "conf" => g.at = "declare"
  BY <1>1, LaunchFacts
<1> HIDE DEF g
<1>4. /\ setup' \in Setup /\ setup'.pc = "waiting" /\ setup'.proc = p
      /\ setup'.phase = setup.phase /\ setup'.rel = setup.rel
      /\ setup'.via = setup.via /\ setup'.clean = setup.clean
  BY DEF Launch, TypeOK, Setup
<1>5. procs' \in [Procs -> {Gone} \cup Installer] /\ procs'[p] = g
      /\ \A q \in Procs \ {p} : procs'[q] = procs[q]
  BY <1>2, <1>3 DEF TypeOK
<1>6. QED
  BY <1>1, <1>3, <1>4, <1>5

LEMMA LaunchTypes ==
    ASSUME TypeOK, InstallersFit, NEW p \in Procs, Launch(p)
    PROVE  TypeOK'
<1>1. setup' \in Setup /\ setup'.pc = "waiting" /\ setup'.proc = p
      /\ setup'.phase = setup.phase /\ procs'[p] # Gone
      /\ procs' \in [Procs -> {Gone} \cup Installer]
      /\ setup.phase \in Bootstraps
  BY LaunchMoves DEF Bootstraps
<1>2. p # None
  BY NullAssumption
<1>3. QED
  BY <1>1, <1>2 DEF TypeOK, MachineOK, Launch, machine, history

\* A setup that goes on launches an installer that nobody in the next one awaits.
LEMMA OldLaunchMoves ==
    ASSUME TypeOK, NEW o \in old, NEW p \in Procs, OldLaunches(o, p)
    PROVE  /\ procs' \in [Procs -> {Gone} \cup Installer]
           /\ procs[p] = Gone /\ \A q \in Procs \ {p} : procs'[q] = procs[q]
           /\ procs'[p] # Gone /\ procs'[p].do \in {"dsh", "host", "conf"}
           /\ procs'[p].do = "dsh" => procs'[p].at = "look"
           /\ procs'[p].do = "host" => procs'[p].at = "publish"
           /\ procs'[p].do = "conf" => procs'[p].at = "declare"
           /\ setup.proc # p
           /\ UNCHANGED <<machine, setup, history, setups>>
<1>1. o.next \in {"dsh", "host", "conf"} /\ o.rel \in Releases /\ procs[p] = Gone
  BY DEF OldLaunches, TypeOK, Old, Bootstraps
<1> DEFINE g == Launched(o.next, o.rel)
<1>2. procs' = [procs EXCEPT ![p] = g] /\ UNCHANGED <<machine, setup, history, setups>>
  BY DEF OldLaunches
<1>3. /\ g \in Installer /\ g # Gone /\ g.do = o.next
      /\ o.next = "dsh" => g.at = "look"
      /\ o.next = "host" => g.at = "publish"
      /\ o.next = "conf" => g.at = "declare"
  BY <1>1, LaunchFacts
<1> HIDE DEF g
<1>4. procs' \in [Procs -> {Gone} \cup Installer] /\ procs'[p] = g
      /\ \A q \in Procs \ {p} : procs'[q] = procs[q]
  BY <1>2, <1>3 DEF TypeOK
<1>5. setup.proc # p
  BY <1>1, NullAssumption DEF TypeOK
<1>6. QED
  BY <1>1, <1>2, <1>3, <1>4, <1>5

\* What the setups do that go on.
OldMoves == \E o \in old : OldEnds(o) \/ \E p \in Procs : OldLaunches(o, p)

LEMMA OldTypes ==
    ASSUME TypeOK, OldMoves
    PROVE  TypeOK'
<1>1. CASE \E o \in old : OldEnds(o)
  BY <1>1 DEF OldEnds, TypeOK, MachineOK, machine, history
<1>2. CASE \E o \in old, p \in Procs : OldLaunches(o, p)
  <2>1. PICK o \in old, p \in Procs : OldLaunches(o, p)
    BY <1>2
  <2>2. faults' \in 0..MaxFaults
    BY <2>1, FaultCounted DEF OldLaunches, TypeOK
  <2>3. old' \subseteq Old
    <3>1. o \in Old /\ o.next \in {"dsh", "host", "conf"} /\ old \subseteq Old
      BY <2>1 DEF OldLaunches, TypeOK, Old, Bootstraps
    <3>2. [o EXCEPT !.next = [dsh |-> "host", host |-> "conf", conf |-> "none"][@]] \in Old
      BY <3>1 DEF Old, Bootstraps
    <3>3. QED
      BY <2>1, <3>1, <3>2 DEF OldLaunches
  <2>4. /\ procs' \in [Procs -> {Gone} \cup Installer]
        /\ \A q \in Procs \ {p} : procs'[q] = procs[q]
        /\ setup.proc # p /\ UNCHANGED <<machine, setup, history, setups>>
    BY <2>1, OldLaunchMoves
  <2>5. setup.proc # None => procs'[setup.proc] # Gone
    BY <2>4 DEF TypeOK, Setup
  <2>6. QED
    BY <2>2, <2>3, <2>4, <2>5 DEF TypeOK, MachineOK, machine, history
<1>3. QED
  BY <1>1, <1>2 DEF OldMoves

LEMMA NextTypes ==
    ASSUME TypeOK, InstallersFit, Next
    PROVE  TypeOK'
  BY ControlTypes, MachineTypes, StepTypes, StepFailsTypes, LaunchTypes, OldTypes
     DEF Next, ControlStep, OldMoves

-----------------------------------------------------------------------------
(* Directories and installers.                                                *)

\* Who has the directory of a release in hand goes on having it, unless it ends, goes on
\* or dies.
LEMMA StaysPresent ==
    ASSUME NEW p \in Procs, ~Aside(p), NEW r \in Releases, Present(r),
           \A q \in Procs \ {p} : procs'[q] = procs[q],
           dsh.dir[r] # "absent" => dsh'.dir[r] # "absent",
           cut \subseteq cut'
    PROVE  Present(r)'
<1>1. CASE dsh.dir[r] # "absent" \/ r \in cut
  <2>1. dsh'.dir[r] # "absent" \/ r \in cut'
    BY <1>1
  <2>2. QED
    BY <2>1 DEF Present
<1>2. CASE \E q \in Procs : Aside(q) /\ procs[q].rel = r
  <2>1. PICK q \in Procs : Aside(q) /\ procs[q].rel = r
    BY <1>2
  <2>2. procs'[q] = procs[q]
    BY <2>1
  <2>3. Aside(q)' /\ procs'[q].rel = r
    BY <2>1, <2>2 DEF Aside
  <2>4. QED
    BY <2>3 DEF Present
<1>3. QED
  BY <1>1, <1>2 DEF Present

\* A release whose directory is there, or in hand, or lost to a reboot, stays so.
LEMMA PresentKept ==
    ASSUME TypeOK, InstallersFit, Next, NEW r \in Releases, Present(r)
    PROVE  Present(r)'
<1>1. ASSUME UNCHANGED <<procs, cut>>, dsh.dir[r] # "absent" => dsh'.dir[r] # "absent"
      PROVE  Present(r)'
  BY <1>1 DEF Present, Aside
<1>2. CASE \E q \in Releases : Damage(q)
  <2>1. PICK q \in Releases : Damage(q)
    BY <1>2
  <2>2. dsh.dir[r] # "absent" => dsh'.dir[r] # "absent"
    BY <2>1 DEF Damage, TypeOK, MachineOK
  <2>3. QED
    BY <1>1, <2>1, <2>2 DEF Damage, history
<1>3. CASE \/ \E q \in Releases : Begin(q)
           \/ StagingFails \/ CommandTimesOut \/ CleanUpFails \/ ControlGivesUp
           \/ CleanUp \/ Reconcile \/ ReconcileFails \/ Reach \/ ReachFails
           \/ SystemdStarts \/ ServiceDies \/ ControlDies \/ \E o \in old : OldEnds(o)
  BY <1>1, <1>3
     DEF Begin, StagingFails, CommandTimesOut, CleanUpFails, ControlGivesUp, CleanUp,
         ControlDies, OldEnds, Reconcile, ReconcileFails, Reach, ReachFails, SystemdStarts, ServiceDies,
         machine, history
<1>4. CASE Reboot
  <2>1. CASE dsh.dir[r] # "absent" \/ r \in cut
    BY <1>4, <2>1 DEF Present, Reboot
  <2>2. CASE \E q \in Procs : Aside(q) /\ procs[q].rel = r
    BY <1>4, <2>2 DEF Present, Reboot, Aside, Swapping
  <2>3. QED
    BY <2>1, <2>2 DEF Present
<1>5. CASE \E p \in Procs : Launch(p)
  <2>1. PICK p \in Procs : Launch(p)
    BY <1>5
  <2>2. ~Aside(p) /\ \A q \in Procs \ {p} : procs'[q] = procs[q]
    <3>1. procs[p] = Gone
      BY <2>1 DEF Launch
    <3>2. QED
      BY <2>1, <3>1, LaunchMoves DEF Aside, Gone
  <2>3. QED
    BY <2>1, <2>2, StaysPresent DEF Launch, machine, history
<1>6. CASE \E p \in Procs : StepFails(p)
  <2>1. PICK p \in Procs : StepFails(p)
    BY <1>6
  <2>2. /\ dsh.dir[r] # "absent" => dsh'.dir[r] # "absent"
        /\ \A q \in Procs \ {p} : procs'[q] = procs[q]
        /\ cut \subseteq cut'
    BY <2>1, FailFacts DEF TypeOK
  <2>3. CASE ~Aside(p)
    BY <2>2, <2>3, StaysPresent
  <2>4. CASE Aside(p) /\ procs[p].rel = r
    BY <2>1, <2>4, FailFacts DEF Present
  <2>5. CASE Aside(p) /\ procs[p].rel # r
    <3>1. CASE \E q \in Procs : Aside(q) /\ procs[q].rel = r
      BY <2>2, <2>5, <3>1 DEF Present, Aside
    <3>2. CASE dsh.dir[r] # "absent" \/ r \in cut
      BY <2>2, <3>2 DEF Present
    <3>3. QED
      BY <3>1, <3>2 DEF Present
  <2>6. QED
    BY <2>3, <2>4, <2>5
<1>7. CASE \E p \in Procs : ProcStep(p)
  <2>1. PICK p \in Procs : ProcStep(p)
    BY <1>7
  <2>2. \A q \in Procs \ {p} : procs'[q] = procs[q]
    BY <2>1, StepMoves, EndsFacts DEF Moves
  <2>3. procs[p].rel \in Releases
    BY <2>1, StepMoves, AtFacts DEF TypeOK, Installer
  <2>4. CASE Publish(p)
    <3>1. CASE dsh.dir[procs[p].rel] # "absent"
      <4>1. UNCHANGED <<dsh, cut>>
        BY <2>4, <3>1, PublishMoves
      <4>2. CASE procs[p].rel = r
        BY <3>1, <4>1, <4>2 DEF Present
      <4>3. CASE procs[p].rel # r
        BY <2>2, <4>1, <4>3 DEF Present, Aside
      <4>4. QED
        BY <4>2, <4>3
    <3>2. CASE dsh.dir[procs[p].rel] = "absent"
      <4>1. /\ dsh'.dir = [dsh.dir EXCEPT ![procs[p].rel] = "whole"]
            /\ cut' = cut \ {procs[p].rel} /\ dsh.dir \in [Releases -> Condition]
        BY <2>4, <3>2, PublishMoves DEF TypeOK, MachineOK
      <4>2. CASE procs[p].rel = r
        BY <4>1, <4>2 DEF Present
      <4>3. CASE procs[p].rel # r
        BY <2>2, <2>3, <4>1, <4>3 DEF Present, Aside
      <4>4. QED
        BY <4>2, <4>3
    <3>3. QED
      BY <3>1, <3>2
  <2>5. CASE SetAside(p)
    <3>1. UNCHANGED cut /\ ~Aside(p)
      BY <2>5 DEF SetAside, history, Aside, At
    <3>2. CASE dsh.dir[procs[p].rel] = "absent"
      BY <2>2, <2>5, <3>1, <3>2, SetAsideMoves, StaysPresent
    <3>3. CASE dsh.dir[procs[p].rel] # "absent"
      <4>1. /\ dsh'.dir = [dsh.dir EXCEPT ![procs[p].rel] = "absent"]
            /\ dsh.dir \in [Releases -> Condition]
            /\ Moves(p, {"publish"}) /\ procs'[p].held # "absent"
        BY <2>5, <3>3, SetAsideMoves DEF TypeOK, MachineOK
      <4>2. CASE procs[p].rel = r
        <5>1. Aside(p)' /\ procs'[p].rel = r
          BY <2>5, <4>1, <4>2 DEF Moves, Aside, SetAside, At
        <5>2. QED
          BY <5>1 DEF Present
      <4>3. CASE procs[p].rel # r
        BY <2>2, <2>3, <3>1, <4>1, <4>3, StaysPresent
      <4>4. QED
        BY <4>2, <4>3
    <3>4. QED
      BY <3>2, <3>3
  <2>6. CASE ~Publish(p) /\ ~SetAside(p)
    <3>1. UNCHANGED cut /\ ~Aside(p)
      BY <2>1, <2>6, StepMoves
         DEF ProcStep, Aside, At, Look, Build, Switch, CopyInstaller, EnableService,
             AwaitHealth, PublishHost, SwitchHost, Declare, InstallDeps, Claim,
             RestartService
    <3>2. UNCHANGED dsh.dir
      BY <2>1, <2>6
         DEF ProcStep, Look, Build, Switch, CopyInstaller, EnableService, AwaitHealth,
             PublishHost, SwitchHost, Declare, InstallDeps, Claim, RestartService, machine,
             TypeOK, MachineOK
    <3>3. QED
      BY <2>2, <3>1, <3>2, StaysPresent
  <2>7. QED
    BY <2>4, <2>5, <2>6
<1>8. CASE \E o \in old, p \in Procs : OldLaunches(o, p)
  <2>1. PICK o \in old, p \in Procs : OldLaunches(o, p)
    BY <1>8
  <2>2. /\ ~Aside(p) /\ \A q \in Procs \ {p} : procs'[q] = procs[q]
        /\ UNCHANGED <<dsh, cut>>
    BY <2>1, OldLaunchMoves DEF Aside, Gone, machine, history
  <2>3. QED
    BY <2>2, StaysPresent
<1>9. QED
  BY <1>2, <1>3, <1>4, <1>5, <1>6, <1>7, <1>8 DEF Next, ControlStep

\* What is asked of one installer.
Fits(p) ==
    /\ procs[p].at \in StepsOf[procs[p].do]
    /\ At(p, "dsh", "switch") => Present(procs[p].rel)
    /\ At(p, "host", "switch") => procs[p].rel \in host.pub

\* An installer that a step leaves alone still fits.
LEMMA OthersFit ==
    ASSUME TypeOK, InstallersFit, Next, NEW q \in Procs, procs'[q] = procs[q],
           procs[q] # Gone, host.pub \subseteq host'.pub
    PROVE  Fits(q)'
<1>1. Fits(q) /\ procs[q].rel \in Releases
  BY DEF InstallersFit, Fits, TypeOK, Installer
<1>2. Present(procs[q].rel) => Present(procs[q].rel)'
  BY <1>1, PresentKept
<1>3. /\ procs'[q].at \in StepsOf[procs'[q].do]
      /\ procs'[q].do = "host" /\ procs'[q].at = "switch" => procs'[q].rel \in host'.pub
  BY <1>1 DEF Fits, At
<1>4. procs'[q].do = "dsh" /\ procs'[q].at = "switch" => Present(procs[q].rel)'
  BY <1>1, <1>2, SMTT(30) DEF Fits, At
<1>5. QED
  BY ONLY <1>3, <1>4 DEF Fits, At

\* The releases of the Remote Host stay.
LEMMA PublishedStays ==
    ASSUME TypeOK, Next
    PROVE  host.pub \subseteq host'.pub
<1>1. CASE UNCHANGED host
  BY <1>1
<1>2. CASE \E p \in Procs : PublishHost(p)
  BY <1>2 DEF PublishHost, TypeOK, MachineOK
<1>3. CASE \E p \in Procs : SwitchHost(p)
  BY <1>3 DEF SwitchHost, TypeOK, MachineOK
<1>4. QED
  BY <1>1, <1>2, <1>3
     DEF Next, ControlStep, ProcStep, Begin, StagingFails, CommandTimesOut, CleanUpFails,
         ControlGivesUp, CleanUp, Reconcile, ReconcileFails, Reach, ReachFails, SystemdStarts,
         ServiceDies, Damage, Reboot, Launch, StepFails, Look, Build, SetAside, Publish,
         Switch, CopyInstaller, EnableService, AwaitHealth, Declare, InstallDeps, Claim,
         RestartService, ControlDies, OldEnds, OldLaunches, machine

\* The installer that does a step fits where it comes to.
LEMMA MoverFits ==
    ASSUME TypeOK, InstallersFit, NEW p \in Procs, ProcStep(p), procs'[p] # Gone
    PROVE  Fits(p)'
<1>1. procs'[p].do = procs[p].do /\ procs'[p].rel = procs[p].rel
  BY StepMoves, EndsFacts DEF Moves
<1>2. procs[p].rel \in Releases
  BY StepMoves DEF TypeOK, Installer
<1>3. ASSUME NEW d \in {"dsh", "host", "conf"}, procs[p].do = d,
             procs'[p].at \in StepsOf[d] \ {"switch"}
      PROVE  Fits(p)'
  BY <1>1, <1>3 DEF Fits, At
<1>4. ASSUME procs[p].do = "dsh", procs'[p].at = "switch",
             dsh'.dir[procs[p].rel] # "absent"
      PROVE  Fits(p)'
  <2>1. Present(procs[p].rel)'
    BY <1>1, <1>4 DEF Present
  <2>2. procs'[p].at \in StepsOf[procs'[p].do]
    BY <1>1, <1>4 DEF StepsOf
  <2>3. procs'[p].do # "host"
    BY <1>1, <1>4
  <2>4. QED
    BY <2>1, <2>2, <2>3 DEF Fits, At
<1>5. CASE Look(p)
  <2>1. procs[p].do = "dsh" /\ UNCHANGED dsh
    BY <1>5 DEF Look, At, machine
  <2>2. \/ procs'[p].at = "build"
        \/ procs'[p].at = "switch" /\ dsh.dir[procs[p].rel] = "whole"
    BY <1>5, LookMoves DEF Moves
  <2>3. QED
    BY <1>3, <1>4, <2>1, <2>2 DEF StepsOf
<1>6. CASE Build(p)
  <2>1. procs[p].do = "dsh" /\ procs'[p].at \in {"aside", "publish"}
    BY <1>6, BuildMoves DEF Build, At, Moves
  <2>2. QED
    BY <1>3, <2>1 DEF StepsOf
<1>7. CASE SetAside(p)
  <2>1. procs[p].do = "dsh" /\ procs'[p].at = "publish"
    BY <1>7, SetAsideMoves, EndsFacts DEF SetAside, At, Moves
  <2>2. QED
    BY <1>3, <2>1 DEF StepsOf
<1>8. CASE Publish(p)
  <2>1. procs[p].do = "dsh" /\ procs'[p].at = "switch"
        /\ dsh'.dir = [dsh.dir EXCEPT ![procs[p].rel] = "whole"]
    BY <1>8, PublishMoves, EndsFacts DEF Publish, At, Moves
  <2>2. dsh'.dir[procs[p].rel] = "whole"
    BY <1>2, <2>1 DEF TypeOK, MachineOK
  <2>3. QED
    BY <1>4, <2>1, <2>2
<1>9. CASE Switch(p) \/ CopyInstaller(p) \/ EnableService(p)
  <2>1. procs[p].do = "dsh" /\ procs'[p].at \in {"open", "write", "service", "health"}
    BY <1>9, OtherMoves DEF Switch, CopyInstaller, EnableService, At, Moves
  <2>2. QED
    BY <1>3, <2>1 DEF StepsOf
<1>10. CASE PublishHost(p)
  <2>1. procs'[p].do = "host" /\ procs'[p].at = "switch" /\ procs'[p].rel \in host'.pub
    BY <1>1, <1>10, OtherMoves DEF PublishHost, At, Moves, TypeOK, MachineOK
  <2>2. QED
    BY <2>1 DEF Fits, At, StepsOf
<1>11. CASE Declare(p) \/ InstallDeps(p) \/ Claim(p) \/ RestartService(p)
  <2>1. procs[p].do = "conf" /\ procs'[p].at \in {"deps", "claim", "restart", "health"}
    BY <1>11, OtherMoves DEF Declare, InstallDeps, Claim, RestartService, At, Moves
  <2>2. QED
    BY <1>3, <2>1 DEF StepsOf
<1>12. CASE AwaitHealth(p) \/ SwitchHost(p)
  BY <1>12, EndsFacts DEF AwaitHealth, SwitchHost, Healthy
<1>13. QED
  BY <1>5, <1>6, <1>7, <1>8, <1>9, <1>10, <1>11, <1>12 DEF ProcStep

\* Control steps other than a launch: the setup they leave behind.
ControlMoves ==
    \/ \E r \in Releases : Begin(r)
    \/ StagingFails \/ CommandTimesOut \/ CleanUp \/ CleanUpFails
    \/ Reconcile \/ ReconcileFails \/ Reach \/ ReachFails
    \/ ControlGivesUp \/ ControlDies

LEMMA ControlLeaves ==
    ASSUME TypeOK, ControlMoves
    PROVE  /\ UNCHANGED <<machine, procs, cut>>
           /\ setup' \in Setup /\ setup'.proc = None
           /\ \/ setup'.phase = "idle"
              \/ setup'.rel \in Releases /\ setup'.phase = "dsh"
              \/ setup.phase # "idle" /\ setup'.rel = setup.rel
<1> USE DEF TypeOK
<1>1. CASE \E r \in Releases : Begin(r)
  BY <1>1, BeginFacts DEF Begin, history
<1>2. CASE StagingFails \/ CommandTimesOut \/ CleanUpFails
  <2>1. UNCHANGED <<machine, procs, cut>>
    BY <1>2 DEF StagingFails, CommandTimesOut, CleanUpFails, history
  <2>2. setup.phase # "idle"
    BY <1>2, AtBootstrap DEF StagingFails, CommandTimesOut, CleanUpFails
  <2>3. CASE StagingFails
    BY <2>1, <2>2, <2>3 DEF StagingFails, Setup
  <2>4. CASE CommandTimesOut
    BY <2>1, <2>2, <2>4 DEF CommandTimesOut, Setup
  <2>5. CASE CleanUpFails
    BY <2>1, <2>2, <2>5 DEF CleanUpFails, Setup
  <2>6. QED
    BY <1>2, <2>3, <2>4, <2>5
<1>3. CASE CleanUp \/ Reconcile \/ Reach
  <2>1. setup.phase \in {"dsh", "host", "reach", "conf", "check"}
    BY <1>3, AtBootstrap DEF CleanUp, Reconcile, Reach
  <2>2. PICK v \in {"receipt", "status"} : setup' = Enter(Following[setup.phase], v)
    BY <1>3 DEF CleanUp, Reconcile, Reach, Setup
  <2>3. Following[setup.phase] \in Phases
    BY <2>1, FollowingFacts DEF Phases
  <2>4. setup' \in Setup /\ setup'.proc = None /\ setup'.rel = setup.rel
    BY <2>2, <2>3, EnterFacts
  <2>5. QED
    BY <1>3, <2>1, <2>4 DEF CleanUp, Reconcile, Reach, history
<1>4. CASE ReconcileFails \/ ReachFails
  <2>1. setup' \in Setup /\ setup'.proc = None /\ setup'.rel = setup.rel
    BY <1>4, FailedFacts DEF ReconcileFails, ReachFails
  <2>2. setup.phase # "idle"
    BY <1>4, AtBootstrap DEF ReconcileFails, ReachFails
  <2>3. QED
    BY <1>4, <2>1, <2>2 DEF ReconcileFails, ReachFails, history
<1>5. CASE ControlGivesUp \/ ControlDies
  <2>1. UNCHANGED <<machine, procs, cut>> /\ setup' = Idle
    BY <1>5 DEF ControlGivesUp, ControlDies
  <2>2. Idle \in Setup /\ Idle.proc = None /\ Idle.phase = "idle"
    BY DEF Idle, Setup, Phases, Release
  <2>3. QED
    BY <2>1, <2>2
<1>6. QED
  BY <1>1, <1>2, <1>3, <1>4, <1>5 DEF ControlMoves

\* Machine steps leave the installers alone, and of the setup all but clean.
LEMMA MachineLeaves ==
    ASSUME TypeOK, SystemdStarts \/ ServiceDies \/ \E r \in Releases : Damage(r)
    PROVE  /\ UNCHANGED <<procs, host, profile, history>>
           /\ setup' \in Setup /\ setup'.phase = setup.phase /\ setup'.pc = setup.pc
           /\ setup'.rel = setup.rel /\ setup'.proc = setup.proc /\ setup'.via = setup.via
           /\ setup' = setup \/ setup'.clean = FALSE
           /\ dsh'.cur = dsh.cur
  BY ZenonT(60) DEF TypeOK, MachineOK, SystemdStarts, ServiceDies, Damage, Setup

\* So does a reboot, which ends every installer.
LEMMA RebootLeaves ==
    ASSUME TypeOK, Reboot
    PROVE  /\ \A p \in Procs : procs'[p] = Gone
           /\ UNCHANGED <<dsh, host, profile, strayed>>
           /\ setup' \in Setup /\ setup'.phase = setup.phase /\ setup'.rel = setup.rel
           /\ setup'.proc = None /\ setup'.clean = FALSE
  BY DEF TypeOK, Reboot, Setup

\* current moves with an installer only.
LEMMA CurrentMoves ==
    ASSUME TypeOK, Next
    PROVE  dsh'.cur = dsh.cur \/ \E p \in Procs : Switch(p)
<1>1. CASE ControlMoves
  BY <1>1, ControlLeaves DEF machine
<1>2. CASE SystemdStarts \/ ServiceDies \/ \E r \in Releases : Damage(r)
  BY <1>2, MachineLeaves
<1>3. CASE Reboot
  BY <1>3, RebootLeaves
<1>4. CASE \E p \in Procs : Launch(p)
  BY <1>4 DEF Launch, machine
<1>5. CASE \E p \in Procs : StepFails(p)
  BY <1>5, FailFacts
<1>6. CASE \E p \in Procs : ProcStep(p)
  <2>1. PICK p \in Procs : ProcStep(p)
    BY <1>6
  <2>2. CASE SetAside(p)
    BY <2>2, SetAsideMoves
  <2>3. CASE Publish(p)
    BY <2>3, PublishMoves
  <2>4. CASE CopyInstaller(p)
    BY <2>4 DEF CopyInstaller, TypeOK, MachineOK
  <2>5. QED
    BY <2>1, <2>2, <2>3, <2>4
       DEF ProcStep, Look, Build, EnableService, AwaitHealth, PublishHost, SwitchHost,
           Declare, InstallDeps, Claim, RestartService, machine
<1>7. CASE OldMoves
  BY <1>7 DEF OldMoves, OldEnds, OldLaunches, machine
<1>8. QED
  BY <1>1, <1>2, <1>3, <1>4, <1>5, <1>6, <1>7
     DEF Next, ControlStep, ControlMoves, OldMoves

LEMMA InitFits ==
    ASSUME Init
    PROVE  InstallersFit
  BY DEF Init, InstallersFit, Gone, Idle

LEMMA NextFits ==
    ASSUME TypeOK, InstallersFit, Next
    PROVE  InstallersFit'
<1> DEFINE Others(p) == \A q \in Procs \ {p} : procs'[q] = procs[q]
<1>1. ASSUME NEW p \in Procs, procs'[p] # Gone PROVE Fits(p)'
  <2>1. CASE procs'[p] = procs[p]
    BY <1>1, <2>1, OthersFit, PublishedStays
  <2>2. CASE ControlMoves
    BY <1>1, <2>2, ControlLeaves, OthersFit, PublishedStays
  <2>3. CASE SystemdStarts \/ ServiceDies \/ \E r \in Releases : Damage(r)
    BY <1>1, <2>3, MachineLeaves, OthersFit, PublishedStays
  <2>4. CASE Reboot
    BY <1>1, <2>4, RebootLeaves
  <2>5. CASE \E q \in Procs : Launch(q)
    <3>1. CASE Launch(p)
      <4>1. /\ procs'[p].do \in {"dsh", "host", "conf"}
            /\ procs'[p].at \in StepsOf[procs'[p].do] \ {"switch"}
        BY <3>1, LaunchMoves DEF StepsOf
      <4>2. QED
        BY ONLY <4>1 DEF Fits, At
    <3>2. CASE \E q \in Procs \ {p} : Launch(q)
      <4>1. procs'[p] = procs[p]
        BY <3>2, LaunchMoves
      <4>2. QED
        BY <2>1, <4>1
    <3>3. QED
      BY <2>5, <3>1, <3>2
  <2>6. CASE \E q \in Procs : StepFails(q)
    <3>1. procs'[p] = procs[p]
      BY <1>1, <2>6, FailFacts DEF TypeOK
    <3>2. QED
      BY <2>1, <3>1
  <2>7. CASE \E q \in Procs : ProcStep(q)
    <3>1. CASE ProcStep(p)
      BY <1>1, <3>1, MoverFits
    <3>2. CASE \E q \in Procs \ {p} : ProcStep(q)
      <4>1. procs'[p] = procs[p]
        BY <3>2, StepMoves, EndsFacts DEF Moves
      <4>2. QED
        BY <2>1, <4>1
    <3>3. QED
      BY <2>7, <3>1, <3>2
  <2>8. CASE OldMoves
    <3>1. CASE procs' = procs
      BY <2>1, <3>1
    <3>2. CASE \E o \in old, q \in Procs : OldLaunches(o, q)
      <4>1. PICK o \in old, q \in Procs : OldLaunches(o, q)
        BY <3>2
      <4>2. CASE q = p
        <5>1. /\ procs'[p].do \in {"dsh", "host", "conf"}
              /\ procs'[p].at \in StepsOf[procs'[p].do] \ {"switch"}
          BY <4>1, <4>2, OldLaunchMoves DEF StepsOf
        <5>2. QED
          BY ONLY <5>1 DEF Fits, At
      <4>3. CASE q # p
        BY <2>1, <4>1, <4>3, OldLaunchMoves
      <4>4. QED
        BY <4>2, <4>3
    <3>3. QED
      BY <2>8, <3>1, <3>2 DEF OldMoves, OldEnds
  <2>9. QED
    BY <2>2, <2>3, <2>4, <2>5, <2>6, <2>7, <2>8
       DEF Next, ControlStep, ControlMoves, OldMoves
<1>2. dsh'.cur # None => Present(dsh.cur)'
  <2>1. CASE dsh'.cur = dsh.cur
    <3>1. ASSUME dsh'.cur # None PROVE Present(dsh.cur)'
      <4>1. Present(dsh.cur) /\ dsh.cur \in Releases
        BY <2>1, <3>1 DEF InstallersFit, TypeOK, MachineOK, Release
      <4>2. PICK r \in Releases : r = dsh.cur
        BY <4>1
      <4>3. Present(r)'
        BY <4>1, <4>2, PresentKept
      <4>4. dsh'.cur = r
        BY <2>1, <4>2
      <4>5. QED
        BY <4>3, <4>4 DEF Present
    <3>2. QED
      BY <3>1
  <2>2. CASE \E p \in Procs : Switch(p)
    <3>1. PICK p \in Procs : Switch(p)
      BY <2>2
    <3>2. procs[p].rel \in Releases /\ Present(procs[p].rel) /\ dsh'.cur = procs[p].rel
      BY <3>1, AtFacts DEF Switch, At, InstallersFit, TypeOK, MachineOK
    <3>3. PICK r \in Releases : r = procs[p].rel
      BY <3>2
    <3>4. Present(r)'
      BY <3>2, <3>3, PresentKept
    <3>5. dsh'.cur = r
      BY <3>2, <3>3
    <3>6. QED
      BY <3>4, <3>5 DEF Present
  <2>3. QED
    BY <2>1, <2>2, CurrentMoves
<1>3. /\ setup'.phase # "idle" => setup'.rel \in Releases
      /\ setup'.proc # None => /\ procs'[setup'.proc].do = setup'.phase
                               /\ procs'[setup'.proc].rel = setup'.rel
  <2>0. /\ setup.phase # "idle" => setup.rel \in Releases
        /\ setup.proc # None => /\ procs[setup.proc].do = setup.phase
                                /\ procs[setup.proc].rel = setup.rel
        /\ setup.proc \in Procs \cup {None}
    BY DEF InstallersFit, TypeOK, Setup
  <2>1. CASE ControlMoves
    BY <2>0, <2>1, ControlLeaves
  <2>2. CASE SystemdStarts \/ ServiceDies \/ \E r \in Releases : Damage(r)
    BY <2>0, <2>2, MachineLeaves
  <2>3. CASE Reboot
    BY <2>0, <2>3, RebootLeaves
  <2>4. CASE \E p \in Procs : Launch(p)
    BY <2>0, <2>4, LaunchMoves
  <2>5. CASE \E p \in Procs : StepFails(p)
    <3>1. PICK p \in Procs : StepFails(p)
      BY <2>5
    <3>2. \A q \in Procs \ {p} : procs'[q] = procs[q]
      BY <3>1, FailFacts DEF TypeOK
    <3>3. /\ setup'.phase = setup.phase /\ setup'.rel = setup.rel
          /\ setup'.proc = IF setup.proc = p THEN None ELSE setup.proc
      BY <3>1, FailFacts
    <3>4. CASE setup.proc = p
      BY <2>0, <3>3, <3>4
    <3>5. CASE setup.proc # p
      BY <2>0, <3>2, <3>3, <3>5
    <3>6. QED
      BY <3>4, <3>5
  <2>6. CASE \E p \in Procs : ProcStep(p)
    <3>1. PICK p \in Procs : ProcStep(p)
      BY <2>6
    <3>2. CASE Moves(p, Steps)
      BY <2>0, <3>2 DEF Moves
    <3>3. CASE \E ok \in BOOLEAN : Ends(p, ok)
      BY <2>0, <3>3, EndsFacts
    <3>4. QED
      BY <3>1, <3>2, <3>3, StepMoves
  <2>7. CASE OldMoves
    <3>1. CASE UNCHANGED <<procs, setup>>
      BY <2>0, <3>1
    <3>2. CASE \E o \in old, p \in Procs : OldLaunches(o, p)
      BY <2>0, <3>2, OldLaunchMoves
    <3>3. QED
      BY <2>7, <3>1, <3>2 DEF OldMoves, OldEnds
  <2>8. QED
    BY <2>1, <2>2, <2>3, <2>4, <2>5, <2>6, <2>7
       DEF Next, ControlStep, ControlMoves, OldMoves
<1>4. QED
  BY ONLY <1>1, <1>2, <1>3 DEF InstallersFit, Fits

-----------------------------------------------------------------------------
(* What is established, and a setup no fault has hit.                         *)

\* While nobody else works, the installer at work is the one awaited.
LEMMA Awaiting ==
    ASSUME TypeOK, InstallersFit, NEW p \in Procs, procs[p] # Gone, setup.proc = p
    PROVE  /\ setup.phase = procs[p].do /\ setup.rel = procs[p].rel
           /\ setup.pc = "waiting" /\ setup.rel \in Releases /\ p # None
           /\ setup.phase \in {"dsh", "host", "conf"}
<1>1. p # None
  BY NullAssumption
<1>2. procs[p] \in Installer
  BY DEF TypeOK
<1>3. QED
  BY <1>1, <1>2 DEF TypeOK, InstallersFit, Installer, Bootstraps

LEMMA NextDisturbs ==
    ASSUME TypeOK, OldDisturbs, Next
    PROVE  OldDisturbs'
<1>1. CASE UNCHANGED <<old, strayed>> /\ (setup'.clean => setup.clean)
  BY <1>1 DEF OldDisturbs
<1>2. CASE \E r \in Releases : Begin(r)
  <2>1. PICK r \in Releases : Begin(r)
    BY <1>2
  <2>2. UNCHANGED <<old, strayed>> /\ (setup'.clean => old = {})
    BY <2>1, BeginFacts DEF Begin, history
  <2>3. QED
    BY <2>2 DEF OldDisturbs
<1>3. CASE StagingFails \/ CleanUpFails \/ CommandTimesOut
  <2>1. UNCHANGED old /\ (strayed => strayed') /\ setup'.clean = FALSE
    BY <1>3 DEF StagingFails, CleanUpFails, CommandTimesOut, TypeOK, Setup, history
  <2>2. QED
    BY <2>1 DEF OldDisturbs
<1>4. CASE ControlGivesUp \/ ControlDies
  BY <1>4 DEF ControlGivesUp, ControlDies, Idle, OldDisturbs
<1>5. CASE OldMoves
  BY <1>5 DEF OldMoves, OldEnds, OldLaunches, OldDisturbs, history
<1>6. CASE CleanUp \/ Reconcile \/ Reach
  <2>1. setup'.clean = setup.clean
    BY <1>6 DEF CleanUp, Reconcile, Reach, Enter, TypeOK, Setup
  <2>2. QED
    BY <1>1, <1>6, <2>1 DEF CleanUp, Reconcile, Reach, history
<1>7. CASE ReconcileFails \/ ReachFails
  <2>1. setup'.clean => setup.clean
    BY <1>7, FailedFacts DEF ReconcileFails, ReachFails, TypeOK
  <2>2. QED
    BY <1>1, <1>7, <2>1 DEF ReconcileFails, ReachFails, history
<1>8. CASE SystemdStarts \/ ServiceDies \/ \E r \in Releases : Damage(r)
  <2>1. UNCHANGED <<old, strayed>>
    BY <1>8 DEF SystemdStarts, ServiceDies, Damage, history
  <2>2. QED
    BY <1>1, <1>8, <2>1, MachineLeaves
<1>9. CASE Reboot
  BY <1>1, <1>9, RebootLeaves DEF Reboot
<1>10. CASE \E p \in Procs : Launch(p)
  <2>1. UNCHANGED <<old, strayed>> /\ setup'.clean = setup.clean
    BY <1>10 DEF Launch, history, TypeOK, Setup
  <2>2. QED
    BY <1>1, <2>1
<1>11. CASE \E p \in Procs : StepFails(p)
  BY <1>1, <1>11, FailFacts DEF StepFails
<1>12. CASE \E p \in Procs : ProcStep(p)
  BY <1>1, <1>12, StepMoves, EndsFacts DEF Moves
<1>13. QED
  BY <1>2, <1>3, <1>4, <1>5, <1>6, <1>7, <1>8, <1>9, <1>10, <1>11, <1>12
     DEF Next, ControlStep, OldMoves

\* The state of a setup once an installer ended well.
LEMMA EstablishedAfterEnd ==
    ASSUME TypeOK, InstallersFit, Established, NEW p \in Procs, setup.proc = p,
           procs[p] # Gone, NEW ok \in BOOLEAN, Ends(p, ok),
           UNCHANGED <<dsh, profile, service>>,
           ok => \/ setup.phase = "dsh" /\ Switched
                 \/ setup.phase = "host" /\ host'.cur = setup.rel
                 \/ setup.phase = "conf" /\ Declared /\ Claimed /\ Restarted,
           setup.phase # "host" => UNCHANGED host
    PROVE  Established'
<1>1. /\ setup'.phase = setup.phase /\ setup'.rel = setup.rel /\ setup'.via = setup.via
      /\ setup'.proc = None /\ setup'.pc = IF ok THEN "cleaning" ELSE "reconciling"
      /\ procs'[p] = Gone /\ \A q \in Procs \ {p} : procs'[q] = procs[q]
  BY EndsFacts
<1>2. /\ setup.phase \in {"dsh", "host", "conf"} /\ p # None
  BY Awaiting
<1>3. \A q \in Procs : procs'[q] = Gone
  BY <1>1 DEF Established
<1>4. CASE ~ok
  BY <1>1, <1>2, <1>3, <1>4
     DEF Established, Switched, HostSwitched, Declared, Claimed, Restarted, ByReceipt,
         HasCome, Awaited, Healthy
<1>5. CASE ok
  BY <1>1, <1>2, <1>3, <1>5
     DEF Established, Switched, HostSwitched, Declared, Claimed, Restarted, ByReceipt,
         HasCome, Awaited, Healthy
<1>6. QED
  BY <1>4, <1>5

LEMMA StepEstablishes ==
    ASSUME TypeOK, InstallersFit, Established, NEW p \in Procs, ProcStep(p)
    PROVE  Established'
<1> USE DEF At
<1>1. procs[p] # Gone /\ setup.proc = p
  BY StepMoves DEF Established
<1>2. /\ setup.phase = procs[p].do /\ setup.rel = procs[p].rel
      /\ setup.pc = "waiting" /\ setup.rel \in Releases /\ p # None
  BY <1>1, Awaiting
<1>3. ASSUME NEW s, Moves(p, s)
      PROVE  /\ setup' = setup /\ procs'[p].at \in s
             /\ \A q \in Procs : procs'[q] # Gone => setup'.proc = q
  BY <1>1, <1>3 DEF Moves, Established
<1>4. CASE Look(p)
  <2>1. procs'[p].at \in {"build", "switch"} /\ setup' = setup
        /\ \A q \in Procs : procs'[q] # Gone => setup'.proc = q
    BY <1>3, <1>4, LookMoves
  <2>2. QED
    BY <1>1, <1>2, <1>4, <2>1
       DEF Look, machine, Established, Switched, HostSwitched, Declared, Claimed, Restarted,
           ByReceipt, HasCome, Awaited
<1>5. CASE Build(p)
  <2>1. procs'[p].at \in {"aside", "publish"} /\ setup' = setup
        /\ \A q \in Procs : procs'[q] # Gone => setup'.proc = q
    BY <1>3, <1>5, BuildMoves
  <2>2. QED
    BY <1>1, <1>2, <1>5, <2>1
       DEF Build, machine, Established, Switched, HostSwitched, Declared, Claimed, Restarted,
           ByReceipt, HasCome, Awaited
<1>6. CASE SetAside(p) \/ Publish(p)
  <2>1. CASE \E ok \in {FALSE} : Ends(p, ok) /\ UNCHANGED dsh
    <3>1. UNCHANGED <<host, profile, service>>
      BY <1>6 DEF SetAside, Publish
    <3>2. QED
      BY <1>1, <2>1, <3>1, EstablishedAfterEnd
  <2>2. CASE Moves(p, {"publish", "switch"}) /\ dsh'.cur = dsh.cur
    <3>1. procs'[p].at \in {"publish", "switch"} /\ setup' = setup
          /\ \A q \in Procs : procs'[q] # Gone => setup'.proc = q
      BY <1>3, <2>2
    <3>2. QED
      BY <1>1, <1>2, <1>6, <2>2, <3>1
         DEF SetAside, Publish, Established, Switched, HostSwitched, Declared, Claimed,
             Restarted, ByReceipt, HasCome, Awaited
  <2>3. QED
    BY <1>6, <2>1, <2>2, SetAsideMoves, PublishMoves DEF Moves
<1>7. CASE Switch(p)
  <2>1. procs'[p].at = "open" /\ setup' = setup /\ dsh'.cur = procs[p].rel
        /\ \A q \in Procs : procs'[q] # Gone => setup'.proc = q
    BY <1>3, <1>7, OtherMoves DEF Switch, TypeOK, MachineOK
  <2>2. QED
    BY <1>1, <1>2, <1>7, <2>1
       DEF Switch, Established, Switched, HostSwitched, Declared, Claimed, Restarted,
           ByReceipt, HasCome, Awaited
<1>8. CASE CopyInstaller(p)
  <2>1. procs'[p].at \in {"write", "service"} /\ setup' = setup /\ dsh'.cur = dsh.cur
        /\ \A q \in Procs : procs'[q] # Gone => setup'.proc = q
    BY <1>3, <1>8, OtherMoves DEF CopyInstaller, TypeOK, MachineOK
  <2>2. QED
    BY <1>1, <1>2, <1>8, <2>1
       DEF CopyInstaller, Established, Switched, HostSwitched, Declared, Claimed, Restarted,
           ByReceipt, HasCome, Awaited
<1>9. CASE EnableService(p)
  <2>1. procs'[p].at = "health" /\ setup' = setup
        /\ \A q \in Procs : procs'[q] # Gone => setup'.proc = q
    BY <1>3, <1>9, OtherMoves
  <2>2. QED
    BY <1>1, <1>2, <1>9, <2>1
       DEF EnableService, Established, Switched, HostSwitched, Declared, Claimed, Restarted,
           ByReceipt, HasCome, Awaited
<1>10. CASE AwaitHealth(p)
  <2>1. Ends(p, Healthy) /\ Healthy \in BOOLEAN /\ UNCHANGED <<dsh, host, profile, service>>
    BY <1>10 DEF AwaitHealth, machine, Healthy
  <2>2. procs[p].do \in {"dsh", "conf"}
    BY <1>1, <1>2, <1>10, Awaiting DEF AwaitHealth, InstallersFit, StepsOf
  <2>3. \/ setup.phase = "dsh" /\ Switched
        \/ setup.phase = "conf" /\ Declared /\ Claimed /\ Restarted
    BY <1>1, <1>2, <1>10, <2>2
       DEF AwaitHealth, Switched, Declared, Claimed, Restarted, HasCome, Awaited
  <2>4. QED
    BY <1>1, <2>1, <2>3, EstablishedAfterEnd
<1>11. CASE PublishHost(p)
  <2>1. procs'[p].at = "switch" /\ setup' = setup
        /\ \A q \in Procs : procs'[q] # Gone => setup'.proc = q
    BY <1>3, <1>11, OtherMoves
  <2>2. QED
    BY <1>1, <1>2, <1>11, <2>1
       DEF PublishHost, Established, Switched, HostSwitched, Declared, Claimed, Restarted,
           ByReceipt, HasCome, Awaited
<1>12. CASE SwitchHost(p)
  <2>1. Ends(p, TRUE) /\ UNCHANGED <<dsh, profile, service>>
        /\ setup.phase = "host" /\ host'.cur = setup.rel
    BY <1>2, <1>12 DEF SwitchHost, TypeOK, MachineOK
  <2>2. QED
    BY <1>1, <2>1, EstablishedAfterEnd
<1>13. CASE Declare(p)
  <2>1. procs'[p].at = "deps" /\ setup' = setup
        /\ \A q \in Procs : procs'[q] # Gone => setup'.proc = q
    BY <1>3, <1>13, OtherMoves
  <2>2. profile'.decl = procs[p].rel /\ profile'.claim = profile.claim
    BY <1>13 DEF Declare, TypeOK, MachineOK
  <2>3. QED
    BY <1>1, <1>2, <1>13, <2>1, <2>2
       DEF Declare, Established, Switched, HostSwitched, Declared, Claimed, Restarted,
           ByReceipt, HasCome, Awaited
<1>14. CASE InstallDeps(p)
  <2>1. procs'[p].at = "claim" /\ setup' = setup
        /\ \A q \in Procs : procs'[q] # Gone => setup'.proc = q
    BY <1>3, <1>14, OtherMoves
  <2>2. profile'.decl = profile.decl /\ profile'.claim = profile.claim
    BY <1>14 DEF InstallDeps, TypeOK, MachineOK
  <2>3. QED
    BY <1>1, <1>2, <1>14, <2>1, <2>2
       DEF InstallDeps, Established, Switched, HostSwitched, Declared, Claimed, Restarted,
           ByReceipt, HasCome, Awaited
<1>15. CASE Claim(p)
  <2>1. procs'[p].at = "restart" /\ setup' = setup
        /\ \A q \in Procs : procs'[q] # Gone => setup'.proc = q
    BY <1>3, <1>15, OtherMoves
  <2>2. profile'.decl = profile.decl /\ profile'.claim = procs[p].rel
    BY <1>15 DEF Claim, TypeOK, MachineOK
  <2>3. QED
    BY <1>1, <1>2, <1>15, <2>1, <2>2
       DEF Claim, Established, Switched, HostSwitched, Declared, Claimed, Restarted,
           ByReceipt, HasCome, Awaited
<1>16. CASE RestartService(p)
  <2>1. procs'[p].at = "health" /\ setup' = setup
        /\ \A q \in Procs : procs'[q] # Gone => setup'.proc = q
    BY <1>3, <1>16, OtherMoves
  <2>2. service'.ver # None => service'.ver = dsh.cur /\ service'.prof = profile.decl
    BY <1>16, StartsFacts DEF RestartService
  <2>3. QED
    BY <1>1, <1>2, <1>16, <2>1, <2>2
       DEF RestartService, Established, Switched, HostSwitched, Declared, Claimed, Restarted,
           ByReceipt, HasCome, Awaited, Healthy
<1>17. QED
  BY <1>4, <1>5, <1>6, <1>7, <1>8, <1>9, <1>10, <1>11, <1>12, <1>13, <1>14, <1>15, <1>16
     DEF ProcStep

LEMMA ControlEstablishes ==
    ASSUME TypeOK, InstallersFit, OldDisturbs, Undisturbed => Established, ControlMoves,
           Undisturbed'
    PROVE  Established'
<1> USE DEF Established, Switched, HostSwitched, Declared, Claimed, Restarted, ByReceipt,
            HasCome, Awaited, Healthy
<1>0. setup.pc = "waiting" <=> setup.proc # None
  BY DEF TypeOK
<1>1. CASE \E r \in Releases : Begin(r)
  <2>1. PICK r \in Releases : Begin(r)
    BY <1>1
  <2>2. setup'.phase = "dsh" /\ setup'.pc = "staging" /\ setup'.proc = None
    BY <2>1, BeginFacts
  <2>3. UNCHANGED <<procs, strayed>>
    BY <2>1 DEF Begin, history
  <2>4. ASSUME ~strayed, NEW p \in Procs PROVE procs[p] = Gone
    <3>1. setup.proc = None
      BY <2>1 DEF Begin, TypeOK, Settled, Bootstraps
    <3>2. procs[p] # Gone => setup.proc = p
      BY <2>4 DEF Undisturbed
    <3>3. QED
      BY <3>1, <3>2, NullAssumption
  <2>5. ASSUME setup'.clean, NEW p \in Procs PROVE procs[p] = Gone
    BY <2>1, <2>5, BeginFacts
  <2>6. \A p \in Procs : procs'[p] = Gone
    BY <2>3, <2>4, <2>5 DEF Undisturbed
  <2>7. QED
    BY <2>2, <2>6
<1>2. CASE StagingFails \/ CleanUpFails
  <2>1. /\ setup'.phase = setup.phase /\ setup'.pc = "reconciling" /\ setup'.rel = setup.rel
        /\ setup'.proc = setup.proc /\ setup.proc = None /\ setup'.via = setup.via
        /\ setup'.clean = FALSE
        /\ UNCHANGED <<machine, procs, strayed>>
    BY <1>0, <1>2 DEF StagingFails, CleanUpFails, TypeOK, Setup, history
  <2>2. Undisturbed
    BY <2>1 DEF Undisturbed
  <2>3. QED
    BY <2>1, <2>2 DEF machine
<1>3. CASE CommandTimesOut
  <2>1. strayed' = TRUE /\ setup'.clean = FALSE
    BY <1>3 DEF CommandTimesOut, TypeOK, Setup
  <2>2. QED
    BY <2>1 DEF Undisturbed
<1>4. CASE CleanUp
  <2>1. /\ setup.phase \in {"dsh", "host", "conf"} /\ setup.proc = None
        /\ UNCHANGED <<machine, procs, strayed>>
    BY <1>0, <1>4, AtBootstrap DEF CleanUp, history
  <2>2. /\ setup'.phase = Following[setup.phase] /\ setup'.rel = setup.rel
        /\ setup'.proc = None /\ setup'.clean = setup.clean
        /\ setup'.pc = IF setup'.phase \in Bootstraps THEN "staging" ELSE "none"
    BY <1>4, <2>1, EnterFacts, FollowingFacts DEF CleanUp, TypeOK, Phases
  <2>3. Undisturbed
    BY <2>1, <2>2 DEF Undisturbed
  <2>4. QED
    BY <1>4, <2>1, <2>2, <2>3, FollowingFacts DEF machine, Bootstraps, CleanUp
<1>5. CASE Reconcile
  <2>1. /\ setup.phase \in {"dsh", "host", "conf"} /\ setup.proc = None
        /\ UNCHANGED <<machine, procs, strayed>>
    BY <1>0, <1>5, AtBootstrap DEF Reconcile, history
  <2>2. /\ setup'.phase = Following[setup.phase] /\ setup'.rel = setup.rel
        /\ setup'.proc = None /\ setup'.clean = setup.clean /\ setup'.via = "status"
        /\ setup'.pc = IF setup'.phase \in Bootstraps THEN "staging" ELSE "none"
    BY <1>5, <2>1, EnterFacts, FollowingFacts DEF Reconcile, TypeOK, Phases
  <2>3. Undisturbed
    BY <2>1, <2>2 DEF Undisturbed
  <2>4. /\ setup.phase = "dsh" => dsh.cur = setup.rel
        /\ setup.phase = "host" => host.cur = setup.rel
        /\ setup.phase = "conf" => profile.claim = setup.rel
    BY <1>5 DEF Reconcile, StatusIsGood
  <2>5. QED
    BY <1>5, <2>1, <2>2, <2>3, <2>4, FollowingFacts DEF machine, Bootstraps
<1>6. CASE Reach
  <2>1. /\ setup.phase \in {"reach", "check"} /\ setup.proc = None
        /\ UNCHANGED <<machine, procs, strayed>>
    BY <1>0, <1>6 DEF Reach, history, TypeOK, Bootstraps
  <2>2. /\ setup'.phase = Following[setup.phase] /\ setup'.rel = setup.rel
        /\ setup'.proc = None /\ setup'.clean = setup.clean
        /\ setup'.pc = IF setup'.phase \in Bootstraps THEN "staging" ELSE "none"
    BY <1>6, <2>1, EnterFacts, FollowingFacts DEF Reach, TypeOK, Setup, Phases
  <2>3. Undisturbed
    BY <2>1, <2>2 DEF Undisturbed
  <2>4. QED
    BY <2>1, <2>2, <2>3, FollowingFacts DEF machine, Bootstraps
<1>7. CASE ReconcileFails \/ ReachFails
  <2>1. /\ setup'.phase = "failed" /\ setup'.pc = "none" /\ setup'.proc = None
        /\ setup'.clean => setup.clean
        /\ UNCHANGED <<machine, procs, strayed>>
    BY <1>7, FailedFacts DEF ReconcileFails, ReachFails, history, TypeOK
  <2>2. Undisturbed /\ setup.proc = None
    BY <1>0, <1>7, <2>1
       DEF Undisturbed, ReconcileFails, ReachFails, TypeOK, Bootstraps
  <2>3. QED
    BY <2>1, <2>2
<1>8. CASE ControlGivesUp
  BY <1>8 DEF ControlGivesUp, Idle, Undisturbed
<1>9. CASE ControlDies
  <2>1. /\ setup'.phase = "idle" /\ setup'.pc = "none" /\ setup'.proc = None
        /\ setup'.clean = FALSE /\ procs' = procs
        /\ strayed' = (strayed \/ setup.proc # None)
    BY <1>9 DEF ControlDies, Idle
  <2>2. Undisturbed /\ setup.proc = None
    BY <2>1 DEF Undisturbed
  <2>3. QED
    BY <2>1, <2>2
<1>10. QED
  BY <1>1, <1>2, <1>3, <1>4, <1>5, <1>6, <1>7, <1>8, <1>9 DEF ControlMoves

LEMMA NextEstablishes ==
    ASSUME TypeOK, InstallersFit, OldDisturbs, Undisturbed => Established, Next,
           Undisturbed'
    PROVE  Established'
<1> USE DEF Switched, HostSwitched, Declared, Claimed, Restarted, ByReceipt, HasCome, Awaited
<1>1. CASE ControlMoves
  BY <1>1, ControlEstablishes
<1>2. CASE SystemdStarts \/ ServiceDies \/ \E r \in Releases : Damage(r)
  <2>1. Established
    BY <1>2, MachineLeaves DEF Undisturbed, history
  <2>2. /\ UNCHANGED <<procs, host, profile>> /\ dsh'.cur = dsh.cur
        /\ setup'.phase = setup.phase /\ setup'.pc = setup.pc
        /\ setup'.rel = setup.rel /\ setup'.proc = setup.proc /\ setup'.via = setup.via
    BY <1>2, MachineLeaves
  <2>3. \/ service' = service \/ service'.ver = None
        \/ service'.ver = dsh.cur /\ service'.prof = profile.decl
    BY <1>2, StartsFacts DEF SystemdStarts, ServiceDies, Damage, Down
  <2>4. /\ Switched' = Switched /\ HostSwitched' = HostSwitched /\ Declared' = Declared
        /\ Claimed' = Claimed /\ Restarted' = Restarted
    BY <2>2
  <2>5. Restarted => Switched /\ Declared
    OBVIOUS
  <2> HIDE DEF Switched, HostSwitched, Declared, Claimed, Restarted
  <2>6. QED
    BY <2>1, <2>2, <2>3, <2>4, <2>5 DEF Established, Healthy
<1>3. CASE Reboot
  <2>1. Established
    BY <1>3, RebootLeaves DEF Undisturbed
  <2>2. /\ \A p \in Procs : procs'[p] = Gone
        /\ UNCHANGED <<dsh, host, profile>>
        /\ setup'.phase = setup.phase /\ setup'.rel = setup.rel /\ setup'.proc = None
    BY <1>3, RebootLeaves
  <2>3. service'.ver = None
    BY <1>3 DEF Reboot, Down
  <2>4. setup'.pc = "cleaning" => setup.pc = "cleaning"
    BY <1>3 DEF Reboot, TypeOK, Setup
  <2>5. setup'.via = setup.via
    BY <1>3 DEF Reboot, TypeOK, Setup
  <2>6. QED
    BY <2>1, <2>2, <2>3, <2>4, <2>5 DEF Established, Healthy
<1>4. CASE \E p \in Procs : Launch(p)
  <2>1. PICK p \in Procs : Launch(p)
    BY <1>4
  <2>2. /\ \A q \in Procs \ {p} : procs'[q] = procs[q]
        /\ setup'.pc = "waiting" /\ setup'.proc = p
        /\ setup'.phase = setup.phase /\ setup'.rel = setup.rel
        /\ setup'.via = setup.via /\ setup'.clean = setup.clean
        /\ setup.phase = "dsh" => procs'[p].at = "look"
        /\ setup.phase = "host" => procs'[p].at = "publish"
        /\ setup.phase = "conf" => procs'[p].at = "declare"
        /\ setup.phase \in {"dsh", "host", "conf"}
    BY <2>1, LaunchMoves
  <2>3. UNCHANGED <<machine, strayed>> /\ setup.proc = None
    BY <2>1 DEF Launch, history, TypeOK
  <2>4. Established
    BY <2>2, <2>3 DEF Undisturbed
  <2>5. \A q \in Procs : procs'[q] # Gone => setup'.proc = q
    BY <2>2, <2>3, <2>4, NullAssumption DEF Established
  <2>6. QED
    BY <2>2, <2>3, <2>4, <2>5 DEF Established, machine, Healthy
<1>5. CASE \E p \in Procs : StepFails(p)
  <2>1. PICK p \in Procs : StepFails(p)
    BY <1>5
  <2>2. /\ setup'.phase = setup.phase /\ setup'.rel = setup.rel
        /\ setup'.clean = FALSE /\ setup'.via = setup.via
        /\ setup'.proc = IF setup.proc = p THEN None ELSE setup.proc
        /\ setup'.pc = IF setup.proc = p THEN "reconciling" ELSE setup.pc
        /\ dsh'.cur = dsh.cur
    BY <2>1, FailFacts
  <2>3. UNCHANGED <<host, profile, service, strayed>> /\ procs[p] # Gone
    BY <2>1 DEF StepFails, history
  <2>4. Established
    BY <2>2, <2>3 DEF Undisturbed
  <2>5. procs'[p] = Gone /\ \A q \in Procs \ {p} : procs'[q] = procs[q]
    BY <2>1, FailFacts DEF TypeOK
  <2>6. setup.proc = p /\ \A q \in Procs : procs'[q] = Gone
    BY <2>3, <2>4, <2>5 DEF Established
  <2>7. QED
    BY <2>2, <2>3, <2>4, <2>6 DEF Established, Healthy
<1>6. CASE \E p \in Procs : ProcStep(p)
  <2>1. PICK p \in Procs : ProcStep(p)
    BY <1>6
  <2>2. setup'.clean = setup.clean /\ strayed' = strayed
    BY <2>1, StepMoves, EndsFacts DEF Moves
  <2>3. Established
    BY <2>2 DEF Undisturbed
  <2>4. QED
    BY <2>1, <2>3, StepEstablishes
<1>7. CASE OldMoves
  <2>1. strayed /\ ~setup.clean /\ UNCHANGED <<setup, strayed>>
    BY <1>7 DEF OldMoves, OldEnds, OldLaunches, OldDisturbs, history
  <2>2. QED
    BY <2>1 DEF Undisturbed
<1>8. QED
  BY <1>1, <1>2, <1>3, <1>4, <1>5, <1>6, <1>7
     DEF Next, ControlStep, ControlMoves, OldMoves

\* An installer that ends well leaves the receipt; that it ends badly a fault must have
\* caused.
LEMMA UnhitAfterEnd ==
    ASSUME TypeOK, InstallersFit, Unhit, NEW p \in Procs, setup.proc = p,
           procs[p] # Gone, Ends(p, TRUE), UNCHANGED <<dsh, profile, service>>,
           setup.phase = "dsh" => Switched /\ Healthy,
           setup.phase = "conf" => ~Torn
    PROVE  Unhit'
<1>1. /\ setup'.phase = setup.phase /\ setup'.rel = setup.rel /\ setup'.via = setup.via
      /\ setup'.proc = None /\ setup'.pc = "cleaning"
  BY EndsFacts
<1>2. setup.phase \in {"dsh", "host", "conf"}
  BY Awaiting
<1>3. QED
  BY <1>1, <1>2
     DEF Unhit, Switched, HasCome, Awaited, Healthy, Mendable, Torn, DirectoryAsSeen

LEMMA DshStepUnhit ==
    ASSUME TypeOK, InstallersFit, Established, Unhit, NEW p \in Procs, setup.proc = p,
           procs[p] # Gone, setup.phase = "dsh", ProcStep(p)
    PROVE  Unhit'
<1> USE DEF At
<1>1. /\ procs[p].do = "dsh" /\ setup.rel = procs[p].rel
      /\ setup.pc = "waiting" /\ setup.rel \in Releases /\ p # None
  BY Awaiting
<1>2. procs[p].held \in Condition /\ dsh.dir \in [Releases -> Condition]
      /\ dsh.cur \in Release
  BY DEF TypeOK, MachineOK, Installer
<1>3. ASSUME NEW s, Moves(p, s)
      PROVE  setup' = setup /\ procs'[p].at \in s
  BY <1>3 DEF Moves
<1>4. CASE Look(p)
  <2>1. /\ procs'[p].at \in {"build", "switch"} /\ setup' = setup
        /\ procs'[p].at = "switch" <=> dsh.dir[procs[p].rel] = "whole"
        /\ procs'[p].at = "build" =>
              procs'[p].held = IF dsh.dir[procs[p].rel] = "damaged" THEN "damaged"
                               ELSE "absent"
    BY <1>3, <1>4, LookMoves
  <2>2. dsh.dir[setup.rel] \in Condition /\ UNCHANGED machine
    BY <1>1, <1>2, <1>4 DEF Look
  <2>3. QED
    BY <1>1, <2>1, <2>2
       DEF machine, Unhit, Switched, HasCome, Awaited, Healthy, Mendable, Torn,
           DirectoryAsSeen, Condition
<1>5. CASE Build(p)
  <2>1. /\ procs'[p].at \in {"aside", "publish"} /\ setup' = setup
        /\ procs'[p].at = "aside" <=> procs[p].held = "damaged"
    BY <1>3, <1>5, BuildMoves
  <2>2. UNCHANGED machine /\ procs[p].at = "build"
    BY <1>5 DEF Build
  <2>3. QED
    BY <1>1, <2>1, <2>2
       DEF machine, Unhit, Switched, HasCome, Awaited, Healthy, Mendable, Torn,
           DirectoryAsSeen
<1>6. CASE SetAside(p)
  <2>1. dsh.dir[setup.rel] = "damaged"
    BY <1>1, <1>6 DEF SetAside, Unhit, DirectoryAsSeen, Awaited
  <2>2. /\ procs'[p].at = "publish" /\ setup' = setup
        /\ dsh'.dir = [dsh.dir EXCEPT ![procs[p].rel] = "absent"]
        /\ UNCHANGED <<profile, service>>
    <3>1. dsh.dir[procs[p].rel] # "absent"
      BY <1>1, <2>1
    <3>2. Moves(p, {"publish"}) /\ dsh'.dir = [dsh.dir EXCEPT ![procs[p].rel] = "absent"]
      BY <1>6, <3>1, SetAsideMoves
    <3>3. QED
      BY <1>3, <1>6, <3>2 DEF SetAside
  <2>3. dsh'.dir[setup.rel] = "absent"
    BY <1>1, <1>2, <2>2
  <2>4. QED
    BY <1>1, <2>2, <2>3
       DEF Unhit, Switched, HasCome, Awaited, Healthy, Mendable, Torn, DirectoryAsSeen
<1>7. CASE Publish(p)
  <2>1. dsh.dir[setup.rel] = "absent"
    BY <1>1, <1>7 DEF Publish, Unhit, DirectoryAsSeen, Awaited
  <2>2. /\ procs'[p].at = "switch" /\ setup' = setup
        /\ dsh'.dir = [dsh.dir EXCEPT ![procs[p].rel] = "whole"]
        /\ UNCHANGED <<profile, service>>
    <3>1. dsh.dir[procs[p].rel] = "absent"
      BY <1>1, <2>1
    <3>2. Moves(p, {"switch"}) /\ dsh'.dir = [dsh.dir EXCEPT ![procs[p].rel] = "whole"]
      BY <1>7, <3>1, PublishMoves
    <3>3. QED
      BY <1>3, <1>7, <3>2 DEF Publish
  <2>3. dsh'.dir[setup.rel] = "whole"
    BY <1>1, <1>2, <2>2
  <2>4. QED
    BY <1>1, <2>2, <2>3
       DEF Unhit, Switched, HasCome, Awaited, Healthy, Mendable, Torn, DirectoryAsSeen
<1>8. CASE Switch(p)
  <2>1. /\ procs'[p].at = "open" /\ setup' = setup /\ dsh'.dir = dsh.dir
        /\ UNCHANGED <<profile, service>> /\ procs[p].at = "switch"
    BY <1>3, <1>8, OtherMoves DEF Switch, TypeOK, MachineOK
  <2>2. QED
    BY <1>1, <2>1
       DEF Unhit, Switched, HasCome, Awaited, Healthy, Mendable, Torn, DirectoryAsSeen
<1>9. CASE CopyInstaller(p)
  <2>1. /\ procs'[p].at \in {"write", "service"} /\ setup' = setup /\ dsh'.dir = dsh.dir
        /\ UNCHANGED <<profile, service>> /\ procs[p].at \in {"open", "write"}
    BY <1>3, <1>9, OtherMoves DEF CopyInstaller, TypeOK, MachineOK
  <2>2. QED
    BY <1>1, <2>1
       DEF Unhit, Switched, HasCome, Awaited, Healthy, Mendable, Torn, DirectoryAsSeen
<1>10. CASE EnableService(p)
  <2>1. /\ procs'[p].at = "health" /\ setup' = setup
        /\ UNCHANGED <<dsh, profile>> /\ procs[p].at = "service"
    BY <1>3, <1>10, OtherMoves DEF EnableService
  <2>2. Switched /\ dsh.cur = setup.rel /\ dsh.dir[dsh.cur] = "whole"
    BY <1>1, <2>1 DEF Switched, HasCome, Awaited, Established, Unhit
  <2>3. service'.ver # None
    <3>1. CASE Healthy
      BY <1>10, <3>1 DEF EnableService, Healthy, TypeOK, MachineOK
    <3>2. CASE ~Healthy
      <4>1. ~Torn /\ service' \in Starts
        BY <1>10, <3>2 DEF EnableService, Unhit, Mendable
      <4>2. dsh.cur # None /\ ~Dangling /\ dsh.dir[dsh.cur] # "damaged"
        BY <1>1, <2>2, NullAssumption DEF Dangling
      <4>3. QED
        BY <4>1, <4>2, StartsFacts
    <3>3. QED
      BY <3>1, <3>2
  <2>4. QED
    BY <1>1, <2>1, <2>2, <2>3
       DEF Unhit, Switched, HasCome, Awaited, Healthy, Mendable, Torn, DirectoryAsSeen
<1>11. CASE AwaitHealth(p)
  <2>1. Switched /\ Healthy
    BY <1>1, <1>11 DEF AwaitHealth, Switched, HasCome, Awaited, Unhit
  <2>2. Ends(p, TRUE) /\ UNCHANGED <<dsh, profile, service>>
    BY <1>11, <2>1 DEF AwaitHealth, machine, Healthy
  <2>3. QED
    BY <2>1, <2>2, UnhitAfterEnd
<1>12. QED
  BY <1>1, <1>4, <1>5, <1>6, <1>7, <1>8, <1>9, <1>10, <1>11
     DEF ProcStep, PublishHost, SwitchHost, Declare, InstallDeps, Claim, RestartService

LEMMA OtherStepUnhit ==
    ASSUME TypeOK, InstallersFit, Established, Unhit, NEW p \in Procs, setup.proc = p,
           procs[p] # Gone, setup.phase # "dsh", ProcStep(p)
    PROVE  Unhit'
<1> USE DEF At
<1>1. /\ procs[p].do = setup.phase /\ setup.rel = procs[p].rel
      /\ setup.pc = "waiting" /\ setup.rel \in Releases /\ p # None
      /\ setup.phase \in {"host", "conf"}
  BY Awaiting
<1>2. Healthy /\ dsh.dir[setup.rel] = "whole" /\ dsh.cur = setup.rel
  BY <1>1 DEF Unhit, Switched, Established
<1>3. ASSUME NEW s, Moves(p, s)
      PROVE  setup' = setup /\ procs'[p].at \in s
  BY <1>3 DEF Moves
<1>4. CASE PublishHost(p)
  <2>1. setup' = setup /\ UNCHANGED <<dsh, profile, service>> /\ setup.phase = "host"
    BY <1>1, <1>4 DEF PublishHost
  <2>2. QED
    BY <1>1, <1>2, <2>1
       DEF Unhit, Switched, HasCome, Awaited, Healthy, Mendable, Torn, DirectoryAsSeen
<1>5. CASE SwitchHost(p)
  <2>1. Ends(p, TRUE) /\ setup.phase = "host" /\ UNCHANGED <<dsh, profile, service>>
    BY <1>1, <1>5 DEF SwitchHost
  <2>2. QED
    BY <2>1, UnhitAfterEnd
<1>6. CASE Declare(p)
  <2>1. /\ procs'[p].at = "deps" /\ setup' = setup /\ setup.phase = "conf"
        /\ UNCHANGED <<dsh, service>>
    BY <1>1, <1>3, <1>6, OtherMoves DEF Declare
  <2>2. QED
    BY <1>1, <1>2, <2>1 DEF Unhit, Switched, HasCome, Awaited, Healthy
<1>7. CASE InstallDeps(p)
  <2>1. /\ procs'[p].at = "claim" /\ setup' = setup /\ setup.phase = "conf"
        /\ UNCHANGED <<dsh, service>>
    BY <1>1, <1>3, <1>7, OtherMoves DEF InstallDeps
  <2>2. profile'.decl = profile'.deps
    BY <1>7 DEF InstallDeps, TypeOK, MachineOK
  <2>3. QED
    BY <1>1, <1>2, <2>1, <2>2 DEF Unhit, Switched, HasCome, Awaited, Healthy, Torn
<1>8. CASE Claim(p)
  <2>1. /\ procs'[p].at = "restart" /\ setup' = setup /\ setup.phase = "conf"
        /\ UNCHANGED <<dsh, service>> /\ procs[p].at = "claim"
    BY <1>1, <1>3, <1>8, OtherMoves DEF Claim
  <2>2. profile'.decl = profile.decl /\ profile'.deps = profile.deps
    BY <1>8 DEF Claim, TypeOK, MachineOK
  <2>3. QED
    BY <1>1, <1>2, <2>1, <2>2 DEF Unhit, Switched, HasCome, Awaited, Healthy, Torn
<1>9. CASE RestartService(p)
  <2>1. /\ procs'[p].at = "health" /\ setup' = setup /\ setup.phase = "conf"
        /\ UNCHANGED <<dsh, profile>> /\ procs[p].at = "restart" /\ service' \in Starts
    BY <1>1, <1>3, <1>9, OtherMoves DEF RestartService
  <2>2. ~Torn
    BY <1>1, <2>1 DEF Unhit, HasCome, Awaited
  <2>3. service'.ver # None
    BY <1>1, <1>2, <2>1, <2>2, StartsFacts, NullAssumption DEF Dangling
  <2>4. QED
    BY <1>1, <1>2, <2>1, <2>2, <2>3 DEF Unhit, Switched, HasCome, Awaited, Healthy, Torn
<1>10. CASE AwaitHealth(p)
  <2>1. setup.phase = "conf" /\ ~Torn
    BY <1>1, <1>10
       DEF AwaitHealth, InstallersFit, StepsOf, Unhit, HasCome, Awaited
  <2>2. Ends(p, TRUE) /\ UNCHANGED <<dsh, profile, service>>
    BY <1>2, <1>10 DEF AwaitHealth, machine, Healthy
  <2>3. QED
    BY <2>1, <2>2, UnhitAfterEnd
<1>11. QED
  BY <1>1, <1>4, <1>5, <1>6, <1>7, <1>8, <1>9, <1>10
     DEF ProcStep, Look, Build, SetAside, Publish, Switch, CopyInstaller, EnableService

\* The setup after a receipt, and after the machine was reached.
LEMMA EntersNext ==
    ASSUME TypeOK, CleanUp \/ Reach
    PROVE  /\ setup'.phase = Following[setup.phase] /\ setup'.rel = setup.rel
           /\ setup'.proc = None /\ setup'.clean = setup.clean
           /\ setup'.via = IF CleanUp THEN "receipt" ELSE setup.via
           /\ setup'.pc = IF setup'.phase \in Bootstraps THEN "staging" ELSE "none"
<1>1. setup.phase \in {"dsh", "host", "reach", "conf", "check"}
  BY AtBootstrap DEF CleanUp, Reach
<1>2. Following[setup.phase] \in Phases
  BY <1>1, FollowingFacts DEF Phases
<1>3. PICK v \in {"receipt", "status"} : /\ setup' = Enter(Following[setup.phase], v)
                                         /\ v = IF CleanUp THEN "receipt" ELSE setup.via
  BY DEF CleanUp, Reach, TypeOK, Setup
<1>4. setup \in Setup
  BY DEF TypeOK
<1>5. QED
  BY <1>2, <1>3, <1>4, EnterFacts

LEMMA NextUnhit ==
    ASSUME TypeOK, InstallersFit, OldDisturbs, Undisturbed => Established,
           setup.clean => Unhit, Next, setup'.clean
    PROVE  Unhit'
<1> USE DEF Unhit, Switched, HasCome, Awaited
<1>1. CASE \E r \in Releases : Begin(r)
  <2>1. PICK r \in Releases : Begin(r)
    BY <1>1, SMTT(30)
  <2>2. /\ setup'.phase = "dsh" /\ setup'.pc = "staging" /\ setup'.proc = None
        /\ setup'.via = "receipt" /\ Mendable /\ UNCHANGED machine
    BY <2>1, BeginFacts DEF Begin
  <2>3. Mendable'
    BY <2>2 DEF machine, Mendable, Healthy, Torn
  <2>4. QED
    BY <2>2, <2>3 DEF DirectoryAsSeen
<1>2. CASE \/ StagingFails \/ CommandTimesOut \/ CleanUpFails
           \/ ControlGivesUp \/ ControlDies \/ ServiceDies \/ (\E r \in Releases : Damage(r)) \/ Reboot
           \/ \E p \in Procs : StepFails(p)
  <2>1. setup \in Setup
    BY DEF TypeOK
  <2>2. setup'.clean = FALSE
    <3>1. CASE StagingFails \/ CleanUpFails
      BY <2>1, <3>1 DEF StagingFails, CleanUpFails, Setup
    <3>2. CASE CommandTimesOut
      BY <2>1, <3>2 DEF CommandTimesOut, Setup
    <3>3. CASE ControlGivesUp \/ ControlDies
      BY <3>3 DEF ControlGivesUp, ControlDies, Idle
    <3>4. CASE ServiceDies
      BY <2>1, <3>4 DEF ServiceDies, Setup
    <3>5. CASE \E r \in Releases : Damage(r)
      BY <2>1, <3>5 DEF Damage, Setup
    <3>6. CASE Reboot
      BY <3>6, RebootLeaves
    <3>7. CASE \E p \in Procs : StepFails(p)
      BY <3>7, FailFacts
    <3>8. QED
      BY <1>2, <3>1, <3>2, <3>3, <3>4, <3>5, <3>6, <3>7
  <2>3. QED
    BY <2>2
<1>3. CASE Reconcile \/ ReconcileFails
  <2>1. setup.phase \in {"dsh", "host", "conf"} /\ setup.pc = "reconciling"
    BY <1>3, AtBootstrap DEF Reconcile, ReconcileFails
  <2>2. setup'.clean = setup.clean
    <3>1. CASE Reconcile
      BY <2>1, <3>1, EnterFacts, FollowingFacts DEF Reconcile, TypeOK, Phases
    <3>2. CASE ReconcileFails
      BY <3>2, FailedFacts DEF ReconcileFails, TypeOK
    <3>3. QED
      BY <1>3, <3>1, <3>2
  <2>3. QED
    BY <2>1, <2>2
<1>4. CASE CleanUp
  <2>1. setup.phase \in {"dsh", "host", "conf"} /\ setup.pc = "cleaning"
        /\ UNCHANGED <<machine, procs>>
    BY <1>4, AtBootstrap DEF CleanUp
  <2>2. /\ setup'.phase = Following[setup.phase] /\ setup'.rel = setup.rel
        /\ setup'.proc = None /\ setup'.clean = setup.clean /\ setup'.via = "receipt"
        /\ setup'.pc = IF setup'.phase \in Bootstraps THEN "staging" ELSE "none"
    BY <1>4, EntersNext
  <2>3. Healthy
    BY <2>1, <2>2
  <2>4. setup'.phase \in {"host", "reach", "check"}
    BY <2>1, <2>2, FollowingFacts
  <2>5. QED
    BY <2>1, <2>2, <2>3, <2>4 DEF machine, Healthy
<1>5. CASE Reach
  <2>1. setup.phase \in {"reach", "check"} /\ UNCHANGED <<machine, procs>>
    BY <1>5 DEF Reach
  <2>2. /\ setup'.phase = Following[setup.phase] /\ setup'.rel = setup.rel
        /\ setup'.proc = None /\ setup'.clean = setup.clean /\ setup'.via = setup.via
        /\ setup'.pc = IF setup'.phase \in Bootstraps THEN "staging" ELSE "none"
    <3>1. ~CleanUp
      BY <2>1, AtBootstrap DEF CleanUp
    <3>2. QED
      BY <1>5, <3>1, EntersNext
  <2>3. setup'.phase \in {"conf", "ready"}
    BY <2>1, <2>2, FollowingFacts
  <2>4. QED
    BY <2>1, <2>2, <2>3 DEF machine, Healthy
<1>6. CASE ReachFails
  <2>1. ~Reachable /\ setup' = Failed
    BY <1>6, FailedFacts DEF ReachFails, TypeOK
  <2>2. setup.clean
    BY <2>1, FailedFacts DEF TypeOK
  <2>3. setup.phase \in {"reach", "check"} /\ Healthy /\ setup.via = "receipt"
    BY <1>6, <2>2 DEF ReachFails
  <2>4. setup.phase = "check" => service.prof = setup.rel /\ setup.rel \in Releases
    BY <2>2, <2>3 DEF Undisturbed, Established, Restarted, ByReceipt, InstallersFit
  <2>5. QED
    BY <2>1, <2>3, <2>4, NullAssumption DEF Reachable
<1>7. CASE SystemdStarts
  <2>1. UNCHANGED <<dsh, host, profile, procs, setup>> /\ ~Healthy /\ Unhit
    BY <1>7 DEF SystemdStarts
  <2>2. Switched' = Switched /\ DirectoryAsSeen' = DirectoryAsSeen /\ Torn' = Torn
    BY <2>1 DEF DirectoryAsSeen, Torn
  <2>3. QED
    BY <2>1, <2>2 DEF Mendable
<1>8. CASE \E p \in Procs : Launch(p)
  <2>1. PICK p \in Procs : Launch(p)
    BY <1>8, SMTT(30)
  <2>2. /\ setup'.pc = "waiting" /\ setup'.proc = p
        /\ setup'.phase = setup.phase /\ setup'.rel = setup.rel
        /\ setup'.via = setup.via /\ setup'.clean = setup.clean
        /\ setup.phase = "dsh" => procs'[p].at = "look"
        /\ setup.phase = "host" => procs'[p].at = "publish"
        /\ setup.phase = "conf" => procs'[p].at = "declare"
        /\ setup.phase \in {"dsh", "host", "conf"}
    BY <2>1, LaunchMoves
  <2>3. UNCHANGED machine
    BY <2>1 DEF Launch
  <2>4. QED
    BY <2>2, <2>3 DEF machine, Healthy, Mendable, Torn, DirectoryAsSeen
<1>9. CASE \E p \in Procs : ProcStep(p)
  <2>1. PICK p \in Procs : ProcStep(p)
    BY <1>9, SMTT(30)
  <2>2. setup.clean
    BY <2>1, StepMoves, EndsFacts DEF Moves
  <2>3. Established /\ procs[p] # Gone
    BY <2>1, <2>2, StepMoves DEF Undisturbed
  <2>4. setup.proc = p
    BY <2>3 DEF Established
  <2>5. QED
    BY <2>1, <2>2, <2>3, <2>4, DshStepUnhit, OtherStepUnhit
<1>10. CASE OldMoves
  <2>1. ~setup.clean /\ UNCHANGED setup
    BY <1>10 DEF OldMoves, OldEnds, OldLaunches, OldDisturbs
  <2>2. QED
    BY <2>1
<1>11. QED
  BY <1>1, <1>2, <1>3, <1>4, <1>5, <1>6, <1>7, <1>8, <1>9, <1>10
     DEF Next, ControlStep, OldMoves

-----------------------------------------------------------------------------
(* The theorems.                                                              *)

LEMMA Initially ==
    Init => IInv
<1>1. ASSUME Init PROVE Established /\ ~setup.clean /\ OldDisturbs
  BY <1>1
     DEF Init, OldDisturbs, Idle, Established, Switched, HostSwitched, Declared, Claimed, Restarted,
         ByReceipt, HasCome, Awaited
<1>2. QED
  BY <1>1, InitTypes, InitFits DEF IInv

LEMMA NextKeeps ==
    IInv /\ [Next]_vars => IInv'
<1> SUFFICES ASSUME IInv, [Next]_vars PROVE IInv'
  OBVIOUS
<1>1. CASE Next
  <2>1. /\ TypeOK' /\ InstallersFit' /\ OldDisturbs'
        /\ Undisturbed' => Established'
        /\ setup'.clean => Unhit'
    BY <1>1, NextTypes, NextFits, NextDisturbs, NextEstablishes, NextUnhit DEF IInv
  <2>2. QED
    BY ONLY <2>1 DEF IInv
<1>2. CASE UNCHANGED vars
  BY <1>2
     DEF vars, machine, history, IInv, TypeOK, MachineOK, InstallersFit, Present, Aside,
         At, OldDisturbs, Undisturbed, Established, Switched, HostSwitched, Declared, Claimed, Restarted,
         ByReceipt, HasCome, Awaited, Healthy, Unhit, DirectoryAsSeen, Mendable, Torn
<1>3. QED
  BY <1>1, <1>2

\* The invariant holds in every reachable state, however many installers and releases
\* there are (lib/managed-host.mjs:136-206, bin/dsh-remote-dsh-installer.mjs:247-312).
THEOREM Inductive ==
    Spec => []IInv
<1>1. Init => IInv
  BY Initially
<1>2. IInv /\ [Next]_vars => IInv'
  BY NextKeeps
<1>3. QED
  BY <1>1, <1>2, PTL DEF Spec

\* The machine, the installers and the setup stay in their types.
THEOREM TypeCorrect ==
    Spec => []TypeOK
<1>1. IInv => TypeOK
  BY DEF IInv
<1>2. QED
  BY <1>1, Inductive, PTL

\* However many installers replace and switch versions at once, and wherever they fail or
\* are killed, current points at nothing only between the two renames or where an installer
\* ended between them with the directory not renamed back
\* (bin/dsh-remote-dsh-installer.mjs:288-296).
THEOREM CurrentIsThere ==
    Spec => []CurrentExists
<1>1. IInv => CurrentExists
  BY DEF IInv, InstallersFit, CurrentExists, Dangling, Present, Aside, Swapping
<1>2. QED
  BY <1>1, Inductive, PTL

\* A setup that no fault hits completes, whatever it found on the machine
\* (bin/dsh-remote-dsh-installer.mjs:247-312, lib/managed-host.mjs:136-206).
THEOREM UnhitSetupsComplete ==
    Spec => []HealthySetupCompletes
<1>1. IInv => HealthySetupCompletes
  BY DEF IInv, Unhit, HealthySetupCompletes
<1>2. QED
  BY <1>1, Inductive, PTL

\* Ready means installed and served, as long as no installer outlived its command
\* (lib/managed-host.mjs:136-206).
THEOREM ReadyIsInstalled ==
    Spec => ReadyMeansInstalled
<1> DEFINE A == setup'.phase = "ready" /\ setup.phase # "ready" /\ ~strayed =>
                  /\ dsh.cur = setup.rel /\ host.cur = setup.rel
                  /\ profile.claim = setup.rel /\ Healthy
                  /\ setup.via = "receipt" =>
                        service.ver = setup.rel /\ service.prof = setup.rel
<1>1. IInv /\ [Next]_vars => [A]_vars
  <2> SUFFICES ASSUME IInv, Next, setup'.phase = "ready", setup.phase # "ready", ~strayed
               PROVE  /\ dsh.cur = setup.rel /\ host.cur = setup.rel
                      /\ profile.claim = setup.rel /\ Healthy
                      /\ setup.via = "receipt" =>
                            service.ver = setup.rel /\ service.prof = setup.rel
    OBVIOUS
  <2> USE DEF IInv
  <2>1. CASE Reach
    <3>1. setup'.phase = Following[setup.phase] /\ setup.phase \in {"reach", "check"}
      BY <2>1, EnterFacts, FollowingFacts DEF Reach, TypeOK, Setup, Phases
    <3>2. setup.phase = "check" /\ Healthy
      BY <2>1, <3>1, FollowingFacts DEF Reach, Reachable
    <3>3. QED
      BY <3>2
         DEF Undisturbed, Established, Switched, HostSwitched, Claimed, Restarted, ByReceipt
  <2>2. CASE CleanUp \/ Reconcile
    <3>1. setup.phase \in {"dsh", "host", "conf"}
      BY <2>2, AtBootstrap DEF CleanUp, Reconcile
    <3>2. setup'.phase = Following[setup.phase]
      BY <2>2, <3>1, EnterFacts, FollowingFacts DEF CleanUp, Reconcile, TypeOK, Phases
    <3>3. QED
      BY <3>1, <3>2, FollowingFacts
  <2>3. CASE \/ \E r \in Releases : Begin(r)
             \/ ReconcileFails \/ ReachFails \/ ControlGivesUp \/ ControlDies
    <3>1. setup'.phase \in {"dsh", "failed", "idle"}
      <4>1. CASE \E r \in Releases : Begin(r)
        BY <4>1, BeginFacts
      <4>2. CASE ReconcileFails \/ ReachFails
        BY <4>2, FailedFacts DEF ReconcileFails, ReachFails, TypeOK
      <4>3. CASE ControlGivesUp \/ ControlDies
        BY <4>3 DEF ControlGivesUp, ControlDies, Idle
      <4>4. QED
        BY <2>3, <4>1, <4>2, <4>3
    <3>2. QED
      BY <3>1
  <2>4. CASE StagingFails \/ CommandTimesOut \/ CleanUpFails
    BY <2>4 DEF StagingFails, CommandTimesOut, CleanUpFails, TypeOK, Setup
  <2>5. CASE SystemdStarts \/ ServiceDies \/ \E r \in Releases : Damage(r)
    BY <2>5, MachineLeaves
  <2>6. CASE Reboot
    BY <2>6, RebootLeaves
  <2>7. CASE \E p \in Procs : Launch(p)
    BY <2>7, LaunchMoves
  <2>8. CASE \E p \in Procs : StepFails(p)
    BY <2>8, FailFacts
  <2>9. CASE \E p \in Procs : ProcStep(p)
    BY <2>9, StepMoves, EndsFacts DEF Moves
  <2>10. CASE OldMoves
    BY <2>10 DEF OldMoves, OldEnds, OldLaunches
  <2>11. QED
    BY <2>1, <2>2, <2>3, <2>4, <2>5, <2>6, <2>7, <2>8, <2>9, <2>10
       DEF Next, ControlStep, OldMoves
<1>2. QED
  BY <1>1, Inductive, PTL DEF Spec, ReadyMeansInstalled
=============================================================================
