-------------------------- MODULE MCTargetDiscovery --------------------------
(* Bounds for model checking target discovery. *)
EXTENDS TargetDiscovery

CONSTANTS a1, a2, a3

MCAccounts == {a1, a2, a3}

(* Two candidates around a row nobody owns alone, and a page whose second    *)
(* row shows no account.                                                     *)
MCSearchPages == {<<{a1}, {a1, a2}, {a2}, {a3}>>, <<{a2}, {}>>}

(* Of every account at most the first mention is eligible, and it is unless  *)
(* the account is blacklisted or recent; every mention gets a disposition.   *)
ASSUME PolicyCheck ==
    \A items \in BoundedSeq(MCAccounts, 4) : \A i \in DOMAIN items :
        (Evaluated(items)[i].disposition = "eligible") =
            /\ \A j \in DOMAIN items : items[j] = items[i] => i <= j
            /\ items[i] \notin Blacklist \cup Recent

(* Cut into batches and put together again, a result is what it was.         *)
ASSUME BatchesCheck ==
    \A items \in BoundedSeq(MCAccounts, 4) :
        LET result == [outcome |-> "completed", items |-> items]
        IN /\ FlattenSeq([n \in 1..BatchCount(result) |-> Batch(result, n)]) = items
           /\ \A n \in 1..BatchCount(result) : Len(Batch(result, n)) \in 1..BatchSize
=============================================================================
