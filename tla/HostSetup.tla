------------------------------- MODULE HostSetup -------------------------------
(***************************************************************************)
(* Making a remote machine ready: ManagedHostConnection.ensureReady        *)
(* (lib/managed-host.mjs) installs DSH (lib/dsh-host-bootstrap.mjs), the   *)
(* Remote Host package (lib/bootstrap.mjs) and the DSH profile, each by an *)
(* installer it uploads and runs over SSH                                  *)
(* (bin/dsh-remote-dsh-installer.mjs, bin/dsh-remote-host-installer.mjs).  *)
(*                                                                         *)
(* An installer changes the machine one file operation after another; it   *)
(* may fail at any of them, the machine may reboot, and when the SSH       *)
(* command times out the installer goes on with nobody waiting.  After any *)
(* failure the control machine asks for the status that is left behind and *)
(* takes a good one for success ("reconcile").                             *)
(*                                                                         *)
(* A release stands for what one version of the control package installs:  *)
(* a DSH version, a Remote Host version and the profile for the two.       *)
(* Uploading, verifying and removing the staged files is one step; what    *)
(* the archives hold is taken to be right (the digests are checked).       *)
(***************************************************************************)
EXTENDS Naturals

CONSTANTS
    Releases,
    Procs,          \* installer processes that may run at once
    None,
    Wanted,         \* what each setup may be asked to install: a set of releases
    MaxSetups,      \* bound: setups begun
    MaxFaults       \* bound: failures, timeouts, reboots, damages

ASSUME NullAssumption == None \notin Releases \cup Procs
ASSUME BoundsAssumption == MaxSetups \in Nat /\ MaxFaults \in Nat
ASSUME WantedAssumption == Wanted \in [1..MaxSetups -> SUBSET Releases]

VARIABLES
    dsh,        \* <remoteRoot>/dsh: version directories, current, stable installer
    host,       \* <remoteRoot>/host: version directories, current
    profile,    \* the profile: what package.json declares, what is installed, the manifest
    service,    \* the systemd user service: the release and profile it runs
    procs,      \* installer processes on the remote machine
    setup,      \* the control machine
    old,        \* setups whose connection was closed and which go on all the same
    strayed,    \* history: whether an installer ever outlived its SSH command or its setup
    cut,        \* history: releases whose directory was left set aside between two renames
    setups, faults

machine == <<dsh, host, profile, service>>
history == <<strayed, cut>>
vars == <<machine, procs, setup, old, history, setups, faults>>

Release == Releases \cup {None}
Phases == {"idle", "dsh", "host", "reach", "conf", "check", "ready", "failed"}
Bootstraps == {"dsh", "host", "conf"}
Settled == {"idle", "ready", "failed"}
Following == [dsh |-> "host", host |-> "reach", reach |-> "conf", conf |-> "check",
              check |-> "ready"]

Gone == [do |-> "none", rel |-> None, at |-> "none", held |-> "absent"]
FirstStep == [dsh |-> "look", host |-> "publish", conf |-> "declare"]
Down == [enabled |-> service.enabled, ver |-> None, prof |-> None]

Condition == {"absent", "whole", "damaged"}
Steps == {"look", "build", "aside", "publish", "switch", "open", "write", "service",
          "health", "declare", "deps", "claim", "restart"}
Installer == [do : Bootstraps, rel : Releases, at : Steps, held : Condition]
Setup == [phase : Phases, pc : {"none", "staging", "waiting", "cleaning", "reconciling"},
          rel : Release, proc : Procs \cup {None}, via : {"receipt", "status"},
          clean : BOOLEAN]
Old == [id : 0..MaxSetups, next : Bootstraps \cup {"none"}, rel : Releases]

MachineOK ==
    /\ dsh \in [dir : [Releases -> Condition], cur : Release,
                stable : {"none", "torn", "whole"}]
    /\ host \in [pub : SUBSET Releases, cur : Release]
    /\ host.cur \in host.pub \cup {None}
    /\ profile \in [decl : Release, deps : Release, claim : Release]
    /\ service \in [enabled : BOOLEAN, ver : Release, prof : Release]
    /\ service.ver = None => service.prof = None

\* The type invariant: the values each part of the machine, each installer and
\* the control machine may have; one that is awaited is alive.
TypeOK ==
    /\ MachineOK
    /\ procs \in [Procs -> {Gone} \cup Installer]
    /\ setup \in Setup
    /\ (setup.pc # "none") <=> (setup.phase \in Bootstraps)
    /\ setup.pc = "waiting" <=> setup.proc # None
    /\ setup.proc # None => procs[setup.proc] # Gone
    /\ old \subseteq Old
    /\ strayed \in BOOLEAN /\ cut \subseteq Releases
    /\ setups \in 0..MaxSetups /\ faults \in 0..MaxFaults

Idle == [phase |-> "idle", pc |-> "none", rel |-> None, proc |-> None,
         via |-> "receipt", clean |-> FALSE]

Init ==
    /\ dsh = [dir |-> [r \in Releases |-> "absent"], cur |-> None, stable |-> "none"]
    /\ host = [pub |-> {}, cur |-> None]
    /\ profile = [decl |-> None, deps |-> None, claim |-> None]
    /\ service = [enabled |-> FALSE, ver |-> None, prof |-> None]
    /\ procs = [p \in Procs |-> Gone]
    /\ setup = Idle /\ old = {}
    /\ strayed = FALSE /\ cut = {}
    /\ setups = 0 /\ faults = 0

-----------------------------------------------------------------------------
(* The service.  DSH itself is external: from a directory that fails the probe, *)
(* or a profile whose dependencies are not the declared ones, it may start.     *)

Dangling == dsh.cur # None /\ dsh.dir[dsh.cur] = "absent"
Torn == profile.decl # profile.deps

Starts ==
    LET Up == [enabled |-> TRUE, ver |-> dsh.cur, prof |-> profile.decl]
        No == [enabled |-> TRUE, ver |-> None, prof |-> None] IN
    IF dsh.cur = None \/ Dangling THEN {No}
    ELSE IF dsh.dir[dsh.cur] = "damaged" \/ Torn THEN {Up, No} ELSE {Up}

Healthy == service.ver # None

\* Restart=on-failure, and the unit is enabled for the boot.
SystemdStarts ==
    /\ service.enabled /\ ~Healthy
    /\ service' \in Starts
    /\ UNCHANGED <<dsh, host, profile, procs, setup, old, history, setups, faults>>

-----------------------------------------------------------------------------
(* Faults. *)

Fault == faults < MaxFaults /\ faults' = faults + 1

\* The setups of one release share the directory of their staged files: one that goes
\* on after its connection was closed takes them from the next, and that one from it.
Disturbance == old # {} /\ UNCHANGED faults

ServiceDies ==
    /\ Fault /\ Healthy
    /\ service' = Down
    /\ setup' = [setup EXCEPT !.clean = FALSE]
    /\ UNCHANGED <<dsh, host, profile, procs, old, history, setups>>

\* Something outside the program spoils an installed DSH: the probe fails on it.
Damage(r) ==
    /\ Fault /\ dsh.dir[r] = "whole"
    /\ dsh' = [dsh EXCEPT !.dir[r] = "damaged"]
    /\ setup' = [setup EXCEPT !.clean = FALSE]
    /\ UNCHANGED <<host, profile, service, procs, old, history, setups>>

\* The old directory is set aside, and nothing is in its place yet.
Swapping(p) ==
    /\ procs[p].do = "dsh" /\ procs[p].at = "publish" /\ procs[p].held # "absent"
    /\ dsh.dir[procs[p].rel] = "absent"

\* Every remote process dies where it is; the SSH command fails.
Reboot ==
    /\ Fault
    /\ procs' = [p \in Procs |-> Gone]
    /\ cut' = cut \cup {procs[p].rel : p \in {q \in Procs : Swapping(q)}}
    /\ service' = Down
    /\ setup' = [setup EXCEPT !.clean = FALSE, !.proc = None,
                              !.pc = IF @ = "waiting" THEN "reconciling" ELSE @]
    /\ UNCHANGED <<dsh, host, profile, old, strayed, setups>>

-----------------------------------------------------------------------------
(* Installer processes. *)

At(p, do, at) == procs[p].do = do /\ procs[p].at = at
GoTo(p, at) == procs' = [procs EXCEPT ![p].at = at]

EndsUnheard(p, ok) ==       \* mutant: the end of the command is missed
    procs' = [procs EXCEPT ![p] = Gone] /\ UNCHANGED setup

\* The SSH command returns, if somebody still waits for it.
Ends(p, ok) ==
    /\ procs' = [procs EXCEPT ![p] = Gone]
    /\ setup' = IF setup.proc # p THEN setup
                ELSE [setup EXCEPT !.proc = None,
                                   !.pc = IF ok THEN "cleaning" ELSE "reconciling"]

\* The directory set aside returns when the new one cannot be put in its place.
PutBack(p) ==
    IF Swapping(p) THEN [dsh EXCEPT !.dir[procs[p].rel] = procs[p].held] ELSE dsh

\* A step fails (no space, no network, no linger, a refusing tool, staged files taken
\* away) or the installer is killed.  Then the directory set aside stays where it is, as
\* it does when the rename back fails too: that failure is swallowed.
StepFails(p) ==
    /\ procs[p] # Gone /\ (Fault \/ (setup.proc = p /\ Disturbance))
    /\ \/ dsh' = PutBack(p) /\ UNCHANGED cut
       \/ Swapping(p) /\ cut' = cut \cup {procs[p].rel} /\ UNCHANGED dsh
    /\ procs' = [procs EXCEPT ![p] = Gone]
    /\ setup' = [setup EXCEPT !.clean = FALSE,
                     !.proc = IF @ = p THEN None ELSE @,
                     !.pc = IF setup.proc = p THEN "reconciling" ELSE @]
    /\ UNCHANGED <<host, profile, service, old, strayed, setups>>

LookAndRemove(p) ==         \* mutant: an invalid version is removed before the new one is built
    /\ At(p, "dsh", "look")
    /\ IF dsh.dir[procs[p].rel] = "whole" THEN GoTo(p, "switch") /\ UNCHANGED dsh
       ELSE GoTo(p, "build") /\ dsh' = [dsh EXCEPT !.dir[procs[p].rel] = "absent"]
    /\ UNCHANGED <<host, profile, service, setup, old, history, setups, faults>>

\* A whole version is reused; one without manifest or that fails the probe is replaced.
Look(p) ==
    /\ At(p, "dsh", "look")
    /\ procs' = [procs EXCEPT ![p].held = IF dsh.dir[procs[p].rel] = "damaged"
                                         THEN "damaged" ELSE "absent",
                              ![p].at = IF dsh.dir[procs[p].rel] = "whole"
                                        THEN "switch" ELSE "build"]
    /\ UNCHANGED <<machine, setup, old, history, setups, faults>>

\* npm ci and the probe in a staging directory of this process.
Build(p) ==
    /\ At(p, "dsh", "build")
    /\ GoTo(p, IF procs[p].held = "damaged" THEN "aside" ELSE "publish")
    /\ UNCHANGED <<machine, setup, old, history, setups, faults>>

\* First rename: another installer may have been here since this one looked.
SetAside(p) ==
    LET r == procs[p].rel IN
    /\ At(p, "dsh", "aside")
    /\ IF dsh.dir[r] = "absent" THEN Ends(p, FALSE) /\ UNCHANGED dsh
       ELSE /\ procs' = [procs EXCEPT ![p].at = "publish", ![p].held = dsh.dir[r]]
            /\ dsh' = [dsh EXCEPT !.dir[r] = "absent"]
            /\ UNCHANGED setup
    /\ UNCHANGED <<host, profile, service, old, history, setups, faults>>

\* Second rename, refused when the directory exists again.
Publish(p) ==
    LET r == procs[p].rel IN
    /\ At(p, "dsh", "publish")
    /\ IF dsh.dir[r] # "absent" THEN Ends(p, FALSE) /\ UNCHANGED <<dsh, cut>>
       ELSE /\ GoTo(p, "switch")
            /\ dsh' = [dsh EXCEPT !.dir[r] = "whole"]
            /\ cut' = cut \ {r}
            /\ UNCHANGED setup
    /\ UNCHANGED <<host, profile, service, old, strayed, setups, faults>>

\* A symbolic link renamed over current, wherever that points.
Switch(p) ==
    /\ At(p, "dsh", "switch")
    /\ dsh' = [dsh EXCEPT !.cur = procs[p].rel]
    /\ GoTo(p, "open")
    /\ UNCHANGED <<host, profile, service, setup, old, history, setups, faults>>

\* The copy of the installer that answers --status is truncated, then written.
CopyInstaller(p) ==
    /\ procs[p].do = "dsh" /\ procs[p].at \in {"open", "write"}
    /\ dsh' = [dsh EXCEPT !.stable = IF procs[p].at = "open" THEN "torn" ELSE "whole"]
    /\ GoTo(p, IF procs[p].at = "open" THEN "write" ELSE "service")
    /\ UNCHANGED <<host, profile, service, setup, old, history, setups, faults>>

\* pnpm, the unit file, daemon-reload and enable --now, which leaves a running
\* service alone.
EnableService(p) ==
    /\ At(p, "dsh", "service")
    /\ IF Healthy THEN service' = [service EXCEPT !.enabled = TRUE]
       ELSE service' \in Starts
    /\ GoTo(p, "health")
    /\ UNCHANGED <<dsh, host, profile, setup, old, history, setups, faults>>

AwaitHealthForever(p) ==     \* mutant: no deadline
    /\ procs[p].at = "health" /\ Healthy
    /\ Ends(p, TRUE)
    /\ UNCHANGED <<machine, old, history, setups, faults>>

\* Any answer on the port will do; after a minute without one the installer fails.
AwaitHealth(p) ==
    /\ procs[p].at = "health"
    /\ Ends(p, Healthy)
    /\ UNCHANGED <<machine, old, history, setups, faults>>

PublishHost(p) ==
    /\ At(p, "host", "publish")
    /\ host' = [host EXCEPT !.pub = @ \cup {procs[p].rel}]
    /\ GoTo(p, "switch")
    /\ UNCHANGED <<dsh, profile, service, setup, old, history, setups, faults>>

SwitchHost(p) ==
    /\ At(p, "host", "switch")
    /\ host' = [host EXCEPT !.cur = procs[p].rel]
    /\ Ends(p, TRUE)
    /\ UNCHANGED <<dsh, profile, service, old, history, setups, faults>>

\* package.json and cordis.patch.yml are rewritten in place.
Declare(p) ==
    /\ At(p, "conf", "declare")
    /\ profile' = [profile EXCEPT !.decl = procs[p].rel]
    /\ GoTo(p, "deps")
    /\ UNCHANGED <<dsh, host, service, setup, old, history, setups, faults>>

\* pnpm installs what package.json says now.
InstallDeps(p) ==
    /\ At(p, "conf", "deps")
    /\ profile' = [profile EXCEPT !.deps = profile.decl]
    /\ GoTo(p, "claim")
    /\ UNCHANGED <<dsh, host, service, setup, old, history, setups, faults>>

\* The profile manifest is written before the service is restarted.
Claim(p) ==
    /\ At(p, "conf", "claim")
    /\ profile' = [profile EXCEPT !.claim = procs[p].rel]
    /\ GoTo(p, "restart")
    /\ UNCHANGED <<dsh, host, service, setup, old, history, setups, faults>>

RestartIfDown(p) ==         \* mutant: start instead of restart
    /\ At(p, "conf", "restart")
    /\ IF Healthy THEN UNCHANGED service ELSE service' \in Starts
    /\ GoTo(p, "health")
    /\ UNCHANGED <<dsh, host, profile, setup, old, history, setups, faults>>

RestartService(p) ==
    /\ At(p, "conf", "restart")
    /\ service' \in Starts
    /\ GoTo(p, "health")
    /\ UNCHANGED <<dsh, host, profile, setup, old, history, setups, faults>>

-----------------------------------------------------------------------------
(* The control machine. *)

Enter(phase, via) ==
    [setup EXCEPT !.phase = phase, !.via = via, !.proc = None,
                  !.pc = IF phase \in Bootstraps THEN "staging" ELSE "none"]

\* A torn profile keeps a stopped service from starting, and install waits for it.
Mendable == Healthy \/ ~Torn

Begin(r) ==
    /\ setup.phase \in Settled
    /\ setups < MaxSetups /\ r \in Wanted[setups + 1]
    /\ \A o \in old : o.rel = r     \* another release is another control process
    /\ setups' = setups + 1
    /\ setup' = [Idle EXCEPT !.phase = "dsh", !.pc = "staging", !.rel = r,
                     !.clean = Mendable /\ old = {} /\ \A p \in Procs : procs[p] = Gone]
    /\ UNCHANGED <<machine, procs, old, history, faults>>

\* mkdir, uploads and the digest of the installer; the files must still be there when
\* node is told to run them.
StagingFails ==
    /\ setup.pc = "staging" /\ (Fault \/ Disturbance)
    /\ setup' = [setup EXCEPT !.pc = "reconciling", !.clean = FALSE]
    /\ UNCHANGED <<machine, procs, old, history, setups>>

Launched(do, rel) == [Gone EXCEPT !.do = do, !.rel = rel, !.at = FirstStep[do]]

Launch(p) ==
    /\ setup.pc = "staging" /\ procs[p] = Gone
    /\ procs' = [procs EXCEPT ![p] = Launched(setup.phase, setup.rel)]
    /\ setup' = [setup EXCEPT !.pc = "waiting", !.proc = p]
    /\ UNCHANGED <<machine, old, history, setups, faults>>

\* Only the local ssh is killed.
CommandTimesOut ==
    /\ Fault /\ setup.pc = "waiting"
    /\ setup' = [setup EXCEPT !.pc = "reconciling", !.proc = None, !.clean = FALSE]
    /\ strayed' = TRUE
    /\ UNCHANGED <<machine, procs, old, cut, setups>>

\* The receipt is good; probe and removal of the staged files.
CleanUp ==
    /\ setup.pc = "cleaning"
    /\ setup' = Enter(Following[setup.phase], "receipt")
    /\ UNCHANGED <<machine, procs, old, history, setups, faults>>

CleanUpFails ==
    /\ setup.pc = "cleaning" /\ (Fault \/ Disturbance)
    /\ setup' = [setup EXCEPT !.pc = "reconciling", !.clean = FALSE]
    /\ UNCHANGED <<machine, procs, old, history, setups>>

StatusOfAnyVersion ==       \* mutant: the version is not compared
    IF setup.phase = "host" THEN host.cur # None
    ELSE /\ dsh.stable = "whole" /\ dsh.cur # None /\ ~Dangling /\ Healthy
         /\ setup.phase = "conf" => profile.claim = setup.rel

\* What --status finds: files, an answer on the port, the profile's manifest.
StatusIsGood ==
    IF setup.phase = "host" THEN host.cur = setup.rel
    ELSE /\ dsh.stable = "whole" /\ dsh.cur = setup.rel /\ ~Dangling /\ Healthy
         /\ setup.phase = "conf" => profile.claim = setup.rel

Failed == [setup EXCEPT !.phase = "failed", !.pc = "none", !.proc = None]

Reconcile ==
    /\ setup.pc = "reconciling" /\ StatusIsGood
    /\ setup' = Enter(Following[setup.phase], "status")
    /\ UNCHANGED <<machine, procs, old, history, setups, faults>>

\* --status runs DSH, which a damaged version may refuse.
ReconcileFails ==
    /\ setup.pc = "reconciling"
    /\ ~StatusIsGood \/ (setup.phase # "host" /\ dsh.dir[setup.rel] = "damaged")
    /\ setup' = Failed
    /\ UNCHANGED <<machine, procs, old, history, setups, faults>>

\* The tunnel, the controller session and the plugin (ArtifactSync) need a service
\* that answers; the socket of Session Control needs one that has a profile.
Reachable == Healthy /\ (setup.phase = "check" => service.prof # None)

Reach ==
    /\ setup.phase \in {"reach", "check"} /\ Reachable
    /\ setup' = Enter(Following[setup.phase], setup.via)
    /\ UNCHANGED <<machine, procs, old, history, setups, faults>>

ReachFails ==
    /\ setup.phase \in {"reach", "check"}
    /\ \/ ~Reachable /\ setup' = Failed /\ UNCHANGED faults
       \/ Fault /\ setup' = [Failed EXCEPT !.clean = FALSE]
    /\ UNCHANGED <<machine, procs, old, history, setups>>

\* The installer a setup would launch next.
NextInstaller ==
    IF setup.pc = "staging" THEN setup.phase
    ELSE [dsh |-> "host", host |-> "conf", reach |-> "conf", conf |-> "none",
          check |-> "none"][setup.phase]

\* Closing the connection stops nothing: the setup goes on, and the next one begins.
ControlGivesUp ==
    /\ Fault /\ setup.phase \notin Settled
    /\ old' = old \cup {[id |-> setups, next |-> NextInstaller, rel |-> setup.rel]}
    /\ setup' = Idle
    /\ strayed' = TRUE
    /\ UNCHANGED <<machine, procs, cut, setups>>

\* What an old setup finds between its installers is left open: it may launch the next
\* one, beside an earlier one only when a command timed out, ...
OldLaunches(o, p) ==
    /\ o.next # "none" /\ procs[p] = Gone
    /\ \/ UNCHANGED faults /\ \A q \in Procs : procs[q] # Gone => q = setup.proc
       \/ Fault
    /\ procs' = [procs EXCEPT ![p] = Launched(o.next, o.rel)]
    /\ old' = (old \ {o}) \cup
              {[o EXCEPT !.next = [dsh |-> "host", host |-> "conf", conf |-> "none"][@]]}
    /\ UNCHANGED <<machine, setup, history, setups>>

\* ... or fail or finish.
OldEnds(o) ==
    /\ old' = old \ {o}
    /\ UNCHANGED <<machine, procs, setup, history, setups, faults>>

\* The control process dies, with every setup of its own.
ControlDies ==
    /\ Fault /\ (setup.phase \notin Settled \/ old # {})
    /\ setup' = Idle /\ old' = {}
    /\ strayed' = (strayed \/ setup.proc # None)
    /\ UNCHANGED <<machine, procs, cut, setups>>

ProcStep(p) ==
    \/ Look(p) \/ Build(p) \/ SetAside(p) \/ Publish(p) \/ Switch(p) \/ CopyInstaller(p)
    \/ EnableService(p) \/ AwaitHealth(p)
    \/ PublishHost(p) \/ SwitchHost(p)
    \/ Declare(p) \/ InstallDeps(p) \/ Claim(p) \/ RestartService(p)

ControlStep ==
    \/ \E p \in Procs : Launch(p)
    \/ CleanUp \/ Reconcile \/ ReconcileFails \/ Reach \/ ReachFails

Next ==
    \/ \E r \in Releases : Begin(r) \/ Damage(r)
    \/ \E p \in Procs : ProcStep(p) \/ StepFails(p)
    \/ ControlStep
    \/ StagingFails \/ CommandTimesOut \/ CleanUpFails \/ ControlGivesUp \/ ControlDies
    \/ \E o \in old : OldEnds(o) \/ \E p \in Procs : OldLaunches(o, p)
    \/ SystemdStarts \/ ServiceDies \/ Reboot

Spec == Init /\ [][Next]_vars

\* The control machine goes on, and an installer ends: each of its tools does, and it
\* waits a minute at most for the service.
FairSpec ==
    /\ Spec
    /\ WF_vars(ControlStep)
    /\ \A p \in Procs : WF_vars(ProcStep(p))

-----------------------------------------------------------------------------
(* Properties. *)

\* However two installers interleave, current points at nothing only between the two
\* renames that replace a damaged version, or where an installer ended there: by a reboot,
\* killed, or because the rename back failed as well; and until the next one has published
\* the version (bin/dsh-remote-dsh-installer.mjs:288-296).
CurrentExists ==
    Dangling => \/ dsh.cur \in cut
                \/ \E p \in Procs : Swapping(p) /\ procs[p].rel = dsh.cur

\* A setup that no fault hits completes, whatever earlier installers that failed, or
\* a reboot, left behind: damaged versions, a dangling current, a torn installer,
\* a half-written profile (bin/dsh-remote-dsh-installer.mjs:247-312,
\* lib/managed-host.mjs:136-206).
HealthySetupCompletes == ~(setup.phase = "failed" /\ setup.clean)

\* A setup becomes ready only with its release current on the machine, its profile
\* recorded and the service answering; if the profile's installer gave its receipt,
\* that release and profile are what the service runs - as long as no command timed out
\* and no setup was closed that was under way (lib/managed-host.mjs:136-206).
ReadyMeansInstalled ==
    [][setup'.phase = "ready" /\ setup.phase # "ready" /\ ~strayed =>
          /\ dsh.cur = setup.rel /\ host.cur = setup.rel
          /\ profile.claim = setup.rel /\ Healthy
          /\ setup.via = "receipt" =>
                service.ver = setup.rel /\ service.prof = setup.rel]_vars

\* A setup ends, ready or failed, even when the service never comes up: the waits of the
\* installers have a limit (bin/dsh-remote-dsh-installer.mjs:188-202,
\* lib/managed-host.mjs:136-206).
SetupEnds == setup.phase \notin Settled ~> setup.phase \in Settled

\* What docs/install-and-development.md:34 says of activation: the profile is installed
\* and DSH restarted, so a ready machine runs the profile it was given (it does not hold, and no
\* run checks it).
ReadyIsServed ==
    [][setup'.phase = "ready" /\ setup.phase # "ready" /\ ~strayed =>
          service.ver = setup.rel /\ service.prof = setup.rel]_vars
=============================================================================
