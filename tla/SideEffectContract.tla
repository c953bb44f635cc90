-------------------------- MODULE SideEffectContract --------------------------
(***************************************************************************)
(* What the side-effect ledger promises about one externally visible        *)
(* action: a single permission, under which the platform may see the effect *)
(* once, and a verdict that is never taken back and never claims a success  *)
(* that did not happen.  Preparation, admission, crashes and restarts are   *)
(* invisible here.                                                          *)
(***************************************************************************)
EXTENDS Naturals

CONSTANT Actions

VARIABLES verdict,   \* "open", "permitted", "confirmed" or "unknown"
          performed  \* how often the platform has seen the effect

vars == <<verdict, performed>>

Init ==
    /\ verdict = [a \in Actions |-> "open"]
    /\ performed = [a \in Actions |-> 0]

Permit(a) ==
    /\ verdict[a] = "open"
    /\ verdict' = [verdict EXCEPT ![a] = "permitted"]
    /\ UNCHANGED performed

Perform(a) ==
    /\ verdict[a] = "permitted"
    /\ performed[a] = 0
    /\ performed' = [performed EXCEPT ![a] = 1]
    /\ UNCHANGED verdict

Confirm(a) ==
    /\ verdict[a] = "permitted"
    /\ performed[a] = 1
    /\ verdict' = [verdict EXCEPT ![a] = "confirmed"]
    /\ UNCHANGED performed

(* An emergency stop gives up on every permission of an attempt at once.     *)
GiveUp(S) ==
    /\ \A a \in S : verdict[a] = "permitted"
    /\ verdict' = [a \in Actions |-> IF a \in S THEN "unknown" ELSE verdict[a]]
    /\ UNCHANGED performed

Next ==
    \/ \E a \in Actions : Permit(a) \/ Perform(a) \/ Confirm(a)
    \/ \E S \in SUBSET Actions : GiveUp(S)

Spec == Init /\ [][Next]_vars
=============================================================================
