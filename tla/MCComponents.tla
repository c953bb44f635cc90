---------------------------- MODULE MCComponents ----------------------------
(* Four components that share no state, explored one at a time: an initial    *)
(* state picks the part that moves, and the others rest in theirs.            *)
EXTENDS MCSkillReplay, DeviceAccess, ExecutorConnections, MCMotionAuthoring

VARIABLE part

MCInit ==
    /\ part \in {"replay", "access", "link", "film"}
    /\ Init /\ AccessInit /\ LinkInit /\ AuthoringInit
    /\ part # "replay" => registry = CHOOSE R \in Loads : TRUE
    /\ part # "film" => /\ install = [catalog |-> FALSE, probe |-> FALSE, narrator |-> FALSE]
                        /\ brief = [ms |-> 12000, brand |-> {}]

MCNext ==
    /\ \/ part = "replay" /\ Next /\ UNCHANGED <<accessVars, linkVars, authoringVars>>
       \/ part = "access" /\ AccessNext /\ UNCHANGED <<vars, linkVars, authoringVars>>
       \/ part = "link" /\ LinkNext /\ UNCHANGED <<vars, accessVars, authoringVars>>
       \/ part = "film" /\ AuthoringNext /\ UNCHANGED <<vars, accessVars, linkVars>>
    /\ UNCHANGED part

MCSpec == MCInit /\ [][MCNext]_<<part, vars, accessVars, linkVars, authoringVars>>
=============================================================================
