-------------------------- MODULE OperationLedger --------------------------
(***************************************************************************)
(* What the Remote Host promises of an operation, without stores, calls or *)
(* processes: an operation is begun once, takes effect at Session Control  *)
(* at most by its own doing, settles, and if it settled without proof of   *)
(* its outcome may be run again.  A final state is final, and success is   *)
(* only recorded of an operation that took effect.                         *)
(***************************************************************************)
CONSTANT OpIds

VARIABLES
    status,     \* state of each operation, "absent" before it is begun
    effect      \* whether the operation's effect has happened

ledger == <<status, effect>>

Success == {"completed", "partial"}
Statuses == Success \cup {"absent", "running", "failed", "needs-attention"}

LedgerTypeOK ==
    /\ status \in [OpIds -> Statuses]
    /\ effect \in [OpIds -> BOOLEAN]

LedgerInit ==
    /\ status = [o \in OpIds |-> "absent"]
    /\ effect = [o \in OpIds |-> FALSE]

Begin(o) ==
    /\ status[o] = "absent"
    /\ ~effect[o]
    /\ status' = [status EXCEPT ![o] = "running"]
    /\ UNCHANGED effect

\* An effect may come late: also after its operation was given up on.
TakeEffect(o) ==
    /\ status[o] # "absent"
    /\ effect' = [effect EXCEPT ![o] = TRUE]
    /\ UNCHANGED status

Settle(o, s) ==
    /\ status[o] = "running"
    /\ s \in Success \cup {"failed", "needs-attention"}
    /\ effect' \in {effect, [effect EXCEPT ![o] = TRUE]}
    /\ s \in Success => effect'[o]
    /\ status' = [status EXCEPT ![o] = s]

Reopen(o) ==
    /\ status[o] = "needs-attention"
    /\ status' = [status EXCEPT ![o] = "running"]
    /\ UNCHANGED effect

\* A restart gives up on every operation it finds running.
Interrupt ==
    /\ status' = [o \in OpIds |->
                    IF status[o] = "running" THEN "needs-attention" ELSE status[o]]
    /\ UNCHANGED effect

LedgerNext ==
    \/ \E o \in OpIds : \/ Begin(o)
                        \/ TakeEffect(o)
                        \/ \E s \in Statuses : Settle(o, s)
                        \/ Reopen(o)
    \/ Interrupt

LedgerSpec == LedgerInit /\ [][LedgerNext]_ledger

\* Success is only recorded of an operation that took effect
\* (lib/remote-host.mjs:134-373).
SuccessHadEffect == \A o \in OpIds : status[o] \in Success => effect[o]

\* What is final stays as it is, and what took effect is not undone
\* (lib/remote-host.mjs:134-373).
KeepsOutcomes ==
    \A o \in OpIds : /\ status[o] \in Success \cup {"failed"} => status'[o] = status[o]
                     /\ effect[o] => effect'[o]

FinalStays == [][KeepsOutcomes]_ledger
=============================================================================
