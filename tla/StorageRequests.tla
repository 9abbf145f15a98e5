-------------------------- MODULE StorageRequests --------------------------
(***************************************************************************)
(* The vocabulary that the abstract store (ObjectStore) and the drivers    *)
(* (CloudDriver) share: the calls of the StorageDriver interface that      *)
(* change what is stored, and the effects these calls have on a bucket.    *)
(***************************************************************************)

CONSTANTS
    Keys,       \* normalised object keys
    Bodies,     \* contents, told apart only by identity
    None        \* no object, no body, no key

ASSUME NoneAssumption == None \notin Keys \cup Bodies

MaybeBody == Bodies \cup {None}

(***************************************************************************)
(* A call of StorageDriver.  `overwrite` is the option of the same name;   *)
(* only a call that writes a destination has one, the others carry TRUE.   *)
(***************************************************************************)
Uploads == [op : {"upload"}, src : {None}, dst : Keys, body : Bodies, overwrite : BOOLEAN]
Deletes == [op : {"delete"}, src : Keys, dst : {None}, body : {None}, overwrite : {TRUE}]
Copies  == [op : {"copy"}, src : Keys, dst : Keys, body : {None}, overwrite : BOOLEAN]
Moves   == [op : {"move"}, src : Keys, dst : Keys, body : {None}, overwrite : BOOLEAN]

Requests == Uploads \cup Deletes \cup Copies \cup Moves

NoRequest == [op |-> "none", src |-> None, dst |-> None, body |-> None, overwrite |-> TRUE]

(***************************************************************************)
(* What one provider request does to the bucket.  A move is two of them,   *)
(* in this order: no provider is asked for an atomic rename.               *)
(***************************************************************************)
Effects ==
    [kind : {"put"}, src : {None}, dst : Keys, body : Bodies]
    \cup [kind : {"remove"}, src : Keys, dst : {None}, body : {None}]
    \cup [kind : {"copy"}, src : Keys, dst : Keys, body : {None}]

\* (Faulty variant: the destination is removed.)
RemoveEffectOfDestination(r) == [kind |-> "remove", src |-> r.dst, dst |-> None, body |-> None]

PutEffect(r)    == [kind |-> "put", src |-> None, dst |-> r.dst, body |-> r.body]
CopyEffect(r)   == [kind |-> "copy", src |-> r.src, dst |-> r.dst, body |-> None]
RemoveEffect(r) == [kind |-> "remove", src |-> r.src, dst |-> None, body |-> None]

EffectCount(r) == IF r.op = "move" THEN 2 ELSE 1

EffectOf(r, n) ==
    IF r.op = "upload" THEN PutEffect(r)
    ELSE IF r.op = "delete" \/ n = 2 THEN RemoveEffect(r)
    ELSE CopyEffect(r)

\* Only a copy of an object that is not there cannot be done.
Possible(store, e) == e.kind = "copy" => store[e.src] # None

Changed(e) == IF e.kind = "remove" THEN e.src ELSE e.dst

After(store, e) ==
    [store EXCEPT ![Changed(e)] =
        IF e.kind = "put" THEN e.body
        ELSE IF e.kind = "copy" THEN store[e.src]
        ELSE None]
=============================================================================
