-------------------------- MODULE MCCommandReceipts --------------------------
EXTENDS CommandReceiptsProperties

CONSTANTS t1, t2

Request(i, type, target, print) == [id |-> i, type |-> type, target |-> target, print |-> print]

(* Two creations under one id that differ in their input only, a cancel    *)
(* and a recovery of one task that share an id and, being made of the same *)
(* fields, a fingerprint, and a recovery under an id of its own.           *)
MCRequests == {
  Request(1, "Create", "agent", "p"), Request(1, "Create", "agent", "q"),
  Request(2, "Cancel", t1, "s"), Request(2, "Recover", t1, "s"),
  Request(3, "Recover", t1, "s") }
=============================================================================
