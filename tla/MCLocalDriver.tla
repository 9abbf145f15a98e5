--------------------------- MODULE MCLocalDriver ---------------------------
(* LocalDriver on two keys. *)
EXTENDS LocalDriver, TLC

CONSTANTS k1, k2, b1, b2

MCLength == b1 :> 1 @@ b2 :> 2

\* A write-once call is an upload; every other call is there for each key.
MCCalls ==
    {r \in Uploads : r.overwrite \/ r.body = b1} \cup Deletes \cup Sweeps \cup Downloads
    \cup {r \in Copies \cup Moves : r.overwrite /\ r.src # r.dst}

Symmetry == Permutations(Callers) \cup Permutations(Keys)
=============================================================================
