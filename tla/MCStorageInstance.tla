------------------------- MODULE MCStorageInstance -------------------------
(* StorageInstance on small sets of callers, keys, bodies and listeners. *)
EXTENDS StorageInstance

\* A hooked call and one without hooks, both of which may meet a conflict.
MCCalls == {r \in Uploads \cup Copies : ~r.overwrite}
=============================================================================
