--------------------------- MODULE MCOracleDriver ---------------------------
(* OracleDriver on small sets of callers, keys and bodies. *)
EXTENDS OracleDriver, TLC

\* Everything but moves, whose deletion may overtake their copy.
MCCalls ==
    {r \in Uploads : ~r.overwrite} \cup Deletes \cup {r \in Copies : r.src # r.dst /\ r.overwrite}

MCMoves == {r \in Moves : r.src # r.dst}

Symmetry == Permutations(Callers) \cup Permutations(Keys) \cup Permutations(Bodies)
=============================================================================
