------------------------ MODULE MCMessageConnection ------------------------
(* The instance of MessageConnection that TLC checks. *)
EXTENDS MessageConnection

CONSTANTS t1, t2   \* model values
=============================================================================
