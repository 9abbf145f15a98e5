--------------------------- MODULE MCCloudDriver ---------------------------
(* CloudDriver on small sets of callers, keys and bodies. *)
EXTENDS CloudDriver, TLC

\* Every upload and delete and every move that can do something: a write-once
\* move onto itself ends at the check.  A copy is the first half of a move, so
\* only plain copies are added.
MCCalls ==
    Uploads \cup Deletes
    \cup {r \in Moves : r.overwrite \/ r.src # r.dst}
    \cup {r \in Copies : r.overwrite /\ r.src # r.dst}

\* Callers, keys and bodies are interchangeable.
Symmetry == Permutations(Callers) \cup Permutations(Keys) \cup Permutations(Bodies)
=============================================================================
