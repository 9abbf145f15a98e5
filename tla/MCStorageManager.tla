-------------------------- MODULE MCStorageManager --------------------------
(* StorageManager with two disks of one type. *)
EXTENDS StorageManager
=============================================================================
