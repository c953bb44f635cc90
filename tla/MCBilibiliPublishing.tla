------------------------ MODULE MCBilibiliPublishing ------------------------
(* BilibiliPublishing for TLC. *)
EXTENDS BilibiliPublishing, FiniteSetsExt

CONSTANTS j1, j2, c1, c2

Original == [title |-> "first", tags |-> <<"t">>, copyright |-> 1, source |-> None]
Reprint == [title |-> "second", tags |-> <<"t">>, copyright |-> 2, source |-> "site"]
Unsourced == [Reprint EXCEPT !.source = None]
MCContents == (j1 :> {Original}) @@ (j2 :> {Reprint, Unsourced})
MCParts == (j1 :> 2) @@ (j2 :> 0)
MCOld == <<"first">>
MCCallerSymmetry == Permutations({c1, c2})

(* The upload plan covers the video exactly, in parts no larger than the    *)
(* contract's, all full but the last, and never in more parts than the      *)
(* contract allows.                                                         *)
ASSUME PlanCheck ==
    \A size \in 1..24, part \in 1..6 :
        LET plan == PlanUploadParts(size, part)
        IN /\ SumSet({n * 100 + plan[n] : n \in 1..Len(plan)})
                - SumSet({n * 100 : n \in 1..Len(plan)}) = size
           /\ \A n \in 1..Len(plan) : plan[n] \in 1..part
           /\ \A n \in 1..(Len(plan) - 1) : plan[n] = part
           /\ \A maxParts \in 1..24 :
                 ContractAccepts(part, maxParts, size) => Len(plan) <= maxParts

(* Every settled outcome is a state both a dispatching and an uncertain job *)
(* may move to, terminal states have no exit, and each category of the      *)
(* contract has a failure code.                                             *)
ASSUME StateMachineCheck ==
    /\ \A o \in {"published", "rejected", "failed"} : JobTargetFor(o) = o
    /\ \A s \in TerminalStatuses : Transitions[s] = {}
    /\ \A s \in DOMAIN Transitions \ TerminalStatuses :
          \E path \in [1..5 -> DOMAIN Transitions] :
             /\ path[1] = s /\ path[5] \in TerminalStatuses
             /\ \A n \in 1..4 : path[n] = path[n + 1] \/ path[n + 1] \in Transitions[path[n]]
    /\ {FailureCode(x) : x \in ErrorCategories}
          = {"invalid_input", "dependency_unavailable", "platform_error"}
=============================================================================
