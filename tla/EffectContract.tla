--------------------------- MODULE EffectContract ----------------------------
(***************************************************************************)
(* What the outbox promises about one external action, without leases,     *)
(* probes, tasks or crashes: its commands go out at most once, a delivered *)
(* verdict is backed by the provider or by an operator, and a not-run      *)
(* verdict is final and closes the door for any command.                   *)
(***************************************************************************)
EXTENDS Integers

CONSTANTS
    Actions,    \* operation keys
    Commands    \* commands one action consists of

VARIABLES
    verdict,    \* "open", "delivered", "notrun" or "undecided"
    issued,     \* commands handed to the provider
    performed   \* commands the provider has performed

contractVars == <<verdict, issued, performed>>

ContractInit ==
    /\ verdict = [a \in Actions |-> "open"]
    /\ issued = [a \in Actions |-> 0]
    /\ performed = [a \in Actions |-> 0]

Conclude(a, from, to) ==
    /\ verdict[a] \in from
    /\ verdict' = [verdict EXCEPT ![a] = to]

\* A slow worker may still issue what has been escalated, and even vouched
\* for, meanwhile.
Issue(a) ==
    /\ verdict[a] # "notrun"
    /\ issued[a] < Commands
    /\ issued' = [issued EXCEPT ![a] = @ + 1]
    /\ UNCHANGED <<verdict, performed>>

Perform(a) ==
    /\ performed[a] < issued[a]
    /\ performed' = [performed EXCEPT ![a] = @ + 1]
    /\ UNCHANGED <<verdict, issued>>

\* A command that was handed over is dropped without being performed.
Drop(a) ==
    /\ performed[a] < issued[a]
    /\ issued' = [issued EXCEPT ![a] = @ - 1]
    /\ UNCHANGED performed
    /\ \/ UNCHANGED verdict
       \/ issued'[a] = 0 /\ Conclude(a, {"open"}, "notrun")

Deliver(a) ==
    /\ performed[a] = Commands
    /\ Conclude(a, {"open"}, "delivered")
    /\ UNCHANGED <<issued, performed>>

Refuse(a) ==
    /\ issued[a] = 0
    /\ Conclude(a, {"open"}, "notrun")
    /\ UNCHANGED <<issued, performed>>

GiveUp(a) ==
    /\ Conclude(a, {"open"}, "undecided")
    /\ UNCHANGED <<issued, performed>>

\* An operator declares an undecided action delivered.
Vouch(a) ==
    /\ Conclude(a, {"undecided"}, "delivered")
    /\ UNCHANGED <<issued, performed>>

ContractNext ==
    \E a \in Actions :
        \/ Issue(a) \/ Perform(a) \/ Drop(a)
        \/ Deliver(a) \/ Refuse(a) \/ GiveUp(a) \/ Vouch(a)

ContractSpec == ContractInit /\ [][ContractNext]_contractVars
=============================================================================
