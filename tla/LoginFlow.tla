------------------------------ MODULE LoginFlow ------------------------------
(***************************************************************************)
(* The official login commands of the external runtimes, run by the Remote *)
(* Host: the runner that starts a child process, publishes the challenge   *)
(* it prints and ends it (lib/runtime-manager.mjs, createBoundedAuthRunner)*)
(* and the runtime manager that keeps one challenge per runtime            *)
(* (authChallenge, authChallengeCancel, close).                            *)
(*                                                                         *)
(* Requests are served one at a time.  The child's output and end, the     *)
(* timers and the shutdown come between any two steps of a request: the    *)
(* shutdown is outside the queue of requests.  A query for the status of a *)
(* challenge changes nothing and is no action.                             *)
(***************************************************************************)
EXTENDS Naturals, SequencesExt

CONSTANTS
    Runtimes,       \* exact runtimes: id, version and digest
    MaxStarts,      \* bound: logins started; their identifiers are 1, 2, ...
    None,
    MaxManaged      \* MAX_MANAGED_AUTH_CHALLENGES

ASSUME BoundsAssumption == MaxStarts \in Nat /\ MaxManaged \in Nat \ {0}

\* The code draws them at random; only that they differ matters.
Ids == 1 .. MaxStarts

VARIABLES
    up,             \* the Remote Host process exists
    closing,        \* how far its shutdown is
    h,              \* the challenge request in progress
    managed,        \* managedAuthChallenges, in the order of insertion
    byRuntime,      \* authChallengeByRuntime
    login,          \* the handle of each challenge: [rt, phase]
    proc,           \* its process
    told            \* the strongest signal the process was sent while it lived

vars == <<up, closing, h, managed, byRuntime, login, proc, told>>

\* The code's phase "running" is here "running" or, with a challenge published and
\* its timer set, "published"; "stopped" stands for timed-out, expired and cancelled.
Phases == {"running", "published", "completed", "failed", "stopped"}
Handle == [rt : Runtimes, phase : Phases]

ASSUME NoneAssumption == None \notin Ids \cup Runtimes \cup Handle

Idle == [pc |-> "idle", rt |-> None]
Waiting == [pc |-> "waiting", rt |-> None]

Started == {c \in Ids : login[c] # None}
Running == {c \in Started : login[c].phase \in {"running", "published"}}
Active(c) == c \in Running

\* SIGTERM to the process group; a timer of the daemon follows it with SIGKILL.
TerminateInterrupts(c) == told' = [told EXCEPT ![c] = "int"]      \* mutant: another signal

Terminate(c) == told' = [told EXCEPT ![c] = IF @ = "none" /\ proc[c] = "alive" THEN "term" ELSE @]

\* finish(), for the first reason to come.
End(c, phase) == login' = [login EXCEPT ![c].phase = phase]

-----------------------------------------------------------------------------
(* runtime.auth.challenge. *)

\* The handler waits for the state of the installed runtime.
Challenge(r) ==
    /\ up /\ h = Idle
    /\ h' = [pc |-> "inspecting", rt |-> r]
    /\ UNCHANGED <<up, closing, managed, byRuntime, login, proc, told>>

\* The runtime is not installed, or its driver has no command, or it does not start.
NoCommand ==
    /\ up /\ h.pc = "inspecting"
    /\ h' = Idle
    /\ UNCHANGED <<up, closing, managed, byRuntime, login, proc, told>>

Full(ids) == Len(ids) >= MaxManaged

PrunesRunning(ids) == IF Full(ids) THEN {1} ELSE {}     \* mutant: the oldest

\* At the limit the oldest challenge that has ended is forgotten: its place in ids.  One
\* is enough, because there are never more than MaxManaged.
Pruned(ids) ==
    {i \in DOMAIN ids : Full(ids) /\ ~Active(ids[i]) /\ \A j \in 1 .. i - 1 : Active(ids[j])}

Kept ==
    IF Pruned(managed) = {} THEN managed
    ELSE RemoveAt(managed, CHOOSE i \in Pruned(managed) : TRUE)
ByRuntimeKept ==
    [r \in Runtimes |->
        IF \E i \in Pruned(managed) : byRuntime[r] = managed[i] THEN None ELSE byRuntime[r]]

\* Every challenge runs, and there are as many as there may be.
TooMany ==
    /\ up /\ h.pc = "inspecting"
    /\ Full(Kept)
    /\ h' = Idle
    /\ UNCHANGED <<up, closing, managed, byRuntime, login, proc, told>>

\* The request is answered with the runtime's challenge, whatever has become of it.
Reuse ==
    /\ up /\ h.pc = "inspecting"
    /\ ~Full(Kept)
    /\ ByRuntimeKept[h.rt] \in ToSet(Kept)
    /\ managed' = Kept
    /\ byRuntime' = ByRuntimeKept
    /\ h' = Idle
    /\ UNCHANGED <<up, closing, login, proc, told>>

\* A command that cannot be spawned fails at once.
Start(c) ==
    /\ up /\ h.pc = "inspecting"
    /\ Started = 1 .. c - 1
    /\ ~Full(Kept)
    /\ ByRuntimeKept[h.rt] \notin ToSet(Kept)
    /\ managed' = Append(Kept, c)
    /\ byRuntime' = [ByRuntimeKept EXCEPT ![h.rt] = c]
    /\ \/ /\ login' = [login EXCEPT ![c] = [rt |-> h.rt, phase |-> "running"]]
          /\ proc' = [proc EXCEPT ![c] = "alive"]
       \/ /\ login' = [login EXCEPT ![c] = [rt |-> h.rt, phase |-> "failed"]]
          /\ proc' = [proc EXCEPT ![c] = "gone"]
    /\ h' = Waiting
    /\ UNCHANGED <<up, closing, told>>

\* The challenge was published, the login has ended or 250 ms have passed.
Reply ==
    /\ up /\ h = Waiting
    /\ h' = Idle
    /\ UNCHANGED <<up, closing, managed, byRuntime, login, proc, told>>

\* runtime.auth.cancel.
Cancel(c) ==
    /\ up /\ h = Idle
    /\ c \in ToSet(managed) /\ Active(c)
    /\ End(c, "stopped")
    /\ Terminate(c)
    /\ UNCHANGED <<up, closing, h, managed, byRuntime, proc>>

-----------------------------------------------------------------------------
(* What the daemon hears of a child. *)

\* The output holds a URL or a code: it is published, and it expires.
Publish(c) ==
    /\ up /\ c \in Started /\ proc[c] = "alive"
    /\ login[c].phase = "running"
    /\ login' = [login EXCEPT ![c].phase = "published"]
    /\ UNCHANGED <<up, closing, h, managed, byRuntime, proc, told>>

\* The output is over its limit: the phase is set before finish() sees whether the
\* login had ended.
Flood(c) ==
    /\ up /\ c \in Started /\ proc[c] = "alive"
    /\ End(c, "failed")
    /\ Terminate(c)
    /\ UNCHANGED <<up, closing, h, managed, byRuntime, proc>>

ClosedUnsettled(c) ==       \* mutant: the end of the process decides, whatever came before
    /\ up /\ proc[c] = "exited"
    /\ End(c, "completed") \/ End(c, "failed")
    /\ proc' = [proc EXCEPT ![c] = "gone"]
    /\ UNCHANGED <<up, closing, h, managed, byRuntime, told>>

\* The child's close event, with the exit code 0 or another.
Closed(c) ==
    /\ up /\ proc[c] = "exited"
    /\ IF Active(c) THEN End(c, "completed") \/ End(c, "failed") ELSE UNCHANGED login
    /\ proc' = [proc EXCEPT ![c] = "gone"]
    /\ UNCHANGED <<up, closing, h, managed, byRuntime, told>>

Timeout(c) ==
    /\ up /\ Active(c)
    /\ End(c, "stopped")
    /\ Terminate(c)
    /\ UNCHANGED <<up, closing, h, managed, byRuntime, proc>>

Expire(c) ==
    /\ up /\ c \in Started /\ login[c].phase = "published"
    /\ End(c, "stopped")
    /\ Terminate(c)
    /\ UNCHANGED <<up, closing, h, managed, byRuntime, proc>>

GraceNever(c) == FALSE /\ UNCHANGED vars        \* mutant: SIGTERM is all

\* killGraceMs after SIGTERM.
Grace(c) ==
    /\ up /\ proc[c] = "alive" /\ told[c] = "term"
    /\ told' = [told EXCEPT ![c] = "kill"]
    /\ UNCHANGED <<up, closing, h, managed, byRuntime, login, proc>>

-----------------------------------------------------------------------------
(* The child. *)

\* It ends when it likes, with or without having been asked to.
Exit(c) ==
    /\ proc[c] = "alive"
    /\ proc' = [proc EXCEPT ![c] = "exited"]
    /\ told' = [told EXCEPT ![c] = "none"]
    /\ UNCHANGED <<up, closing, h, managed, byRuntime, login>>

\* Nothing survives SIGKILL.
Die(c) ==
    /\ proc[c] = "alive" /\ told[c] = "kill"
    /\ proc' = [proc EXCEPT ![c] = "exited"]
    /\ told' = [told EXCEPT ![c] = "none"]
    /\ UNCHANGED <<up, closing, h, managed, byRuntime, login>>

-----------------------------------------------------------------------------
(* Shutdown: the end of the bridge's input, SIGTERM or SIGINT. *)

\* authRunner.close cancels what is active at this moment.
Shutdown ==
    /\ up /\ closing = "no"
    /\ closing' = "cancelled"
    /\ login' = [c \in Ids |-> IF Active(c) THEN [login[c] EXCEPT !.phase = "stopped"]
                               ELSE login[c]]
    /\ told' = [c \in Ids |-> IF Active(c) /\ proc[c] = "alive" /\ told[c] = "none"
                              THEN "term" ELSE told[c]]
    /\ UNCHANGED <<up, h, managed, byRuntime, proc>>

Clear ==
    /\ up /\ closing = "cancelled"
    /\ closing' = "cleared"
    /\ managed' = <<>>
    /\ byRuntime' = [r \in Runtimes |-> None]
    /\ UNCHANGED <<up, h, login, proc, told>>

\* The store is closed, the process exits; its timers and its request go with it.
ExitHost ==
    /\ up /\ closing = "cleared"
    /\ up' = FALSE
    /\ h' = Idle
    /\ UNCHANGED <<closing, managed, byRuntime, login, proc, told>>

\* Nothing is left to do after the exit.
Over == ~up /\ UNCHANGED vars

Init ==
    /\ up = TRUE
    /\ closing = "no"
    /\ h = Idle
    /\ managed = <<>>
    /\ byRuntime = [r \in Runtimes |-> None]
    /\ login = [c \in Ids |-> None]
    /\ proc = [c \in Ids |-> "none"]
    /\ told = [c \in Ids |-> "none"]

Child(c) == Publish(c) \/ Flood(c) \/ Closed(c) \/ Exit(c) \/ Die(c)
Timer(c) == Timeout(c) \/ Expire(c) \/ Grace(c)

Next ==
    \/ \E r \in Runtimes : Challenge(r)
    \/ NoCommand \/ TooMany \/ Reuse \/ Reply
    \/ \E c \in Ids : Start(c) \/ Cancel(c) \/ Child(c) \/ Timer(c)
    \/ Shutdown \/ Clear \/ ExitHost
    \/ Over

\* Timers fire while the process lives, and SIGKILL kills.  Nothing makes a child
\* print, end or heed SIGTERM.
Fairness == \A c \in Ids : WF_vars(Timeout(c)) /\ WF_vars(Grace(c)) /\ WF_vars(Die(c))

Spec == Init /\ [][Next]_vars
FairSpec == Spec /\ Fairness

-----------------------------------------------------------------------------
(* Properties. *)

\* The type invariant; the map of challenges never exceeds its limit.
TypeOK ==
    /\ up \in BOOLEAN
    /\ closing \in {"no", "cancelled", "cleared"}
    /\ h \in {Idle, Waiting} \cup [pc : {"inspecting"}, rt : Runtimes]
    /\ managed \in Seq(Ids) /\ Len(managed) <= MaxManaged
    /\ byRuntime \in [Runtimes -> Ids \cup {None}]
    /\ login \in [Ids -> Handle \cup {None}]
    /\ proc \in [Ids -> {"none", "alive", "exited", "gone"}]
    /\ told \in [Ids -> {"none", "term", "kill"}]

\* A login that runs can be asked about and cancelled, and is the one its runtime's
\* next request finds: no runtime ever has two, and pruning forgets none of them.
RunningIsKnown ==
    closing = "no" =>
        \A c \in Running : c \in ToSet(managed) /\ byRuntime[login[c].rt] = c

\* A login that ended is never reported as running or as completed afterwards, even
\* if its process prints or exits with success during its grace; a cancelled one may
\* turn into a failed one.
EndedIsNotRevived ==
    [][\A c \in Started \ Running : login'[c].phase \in {login[c].phase, "failed"}]_vars

\* No login outlives its time, whatever its process does with SIGTERM, as long as the
\* Remote Host is there.
LoginEnds ==
    \A c \in Ids : proc[c] = "alive" ~> (proc[c] # "alive" \/ ~up)

\* What docs/stage-c-acceptance.md:19 says (it does not hold, and no run checks it): the
\* closing of the Remote Host cleans up the logins' processes.
CloseEndsLogins ==
    \A c \in Ids : (closing # "no" /\ proc[c] = "alive") ~> proc[c] # "alive"
=============================================================================
