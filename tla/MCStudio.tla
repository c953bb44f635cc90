------------------------------ MODULE MCStudio ------------------------------
(* The material library and the Bilibili upload share no state and are       *)
(* explored one at a time: an initial state picks the part that moves, and   *)
(* the other one rests in its own.                                           *)
EXTENDS MCMaterialLibrary, MCBilibiliPublishing

VARIABLE part

MCSymmetry == MCFileSymmetry \cup MCCallerSymmetry

MCInit ==
    /\ part \in {"library", "upload"}
    /\ LibraryInit /\ Init
    /\ part # "library" => /\ bytes = [i \in DOMAIN bytes |-> x]
                           /\ disk = (f1 :> 1) @@ (f2 :> 2)

MCNext ==
    /\ \/ part = "library" /\ LibraryNext /\ UNCHANGED vars
       \/ part = "upload" /\ Next /\ UNCHANGED libraryVars
    /\ UNCHANGED part

MCSpec == MCInit /\ [][MCNext]_<<part, libraryVars, vars>>
=============================================================================
