-------------------------------- MODULE MCOutbox --------------------------------
(***************************************************************************)
(* Instances of Outbox for TLC.                                            *)
(***************************************************************************)
EXTENDS Outbox

CONSTANTS t1, t2, c1
===============================================================================
