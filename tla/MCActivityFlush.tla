--------------------------- MODULE MCActivityFlush ---------------------------
(* ActivityFlush on a small instance.                                      *)
EXTENDS ActivityFlush

CONSTANTS u1

(* All sessions belong to one account.                                     *)
OneOwner == [s \in SessionIds |-> u1]
=============================================================================
