---------------------------- MODULE MCTransfers ----------------------------
(* Transfers of objects of one and of three chunks. *)
EXTENDS Transfers

CONSTANTS short, long

MCObjects == {short, long}
MCLength  == [o \in MCObjects |-> IF o = short THEN 1 ELSE 3]
MCDrivers == DriverNames
MCKinds   == KindNames
=============================================================================
