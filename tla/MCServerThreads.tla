--------------------------- MODULE MCServerThreads ---------------------------
(* The instance of ServerThreads that TLC checks. *)
EXTENDS ServerThreads

AllClasses == Accepting \cup Connecting
=============================================================================
